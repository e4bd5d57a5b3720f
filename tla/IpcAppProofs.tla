---------------------------- MODULE IpcAppProofs ----------------------------
(***************************************************************************)
(* The safety properties of IpcApp, for any number of servers, of messages *)
(* in a queue, of ticks and of restarts, and for channels whose numbers    *)
(* have up to nine digits.                                                 *)
(***************************************************************************)
EXTENDS IpcApp, ChannelProofs

\* The servers that have a channel, that have written its number to the file,
\* that have a shared memory object, that have filled it, that have sent INIT.
HasChan == {"write", "shm", "map", "init", "spawn", "loop", "stuck"}
HasWritten == {"shm", "map", "init", "spawn", "loop"}
HasShm == {"map", "init", "spawn", "loop"}
HasFilled == {"init", "spawn", "loop"}
HasSent == {"spawn", "loop"}

\* g holds the values of the beginnings of f.
Accumulates(g, f) ==
  g = [i \in 0 .. Len(f) |-> IF i = 0 THEN 0 ELSE g[i - 1] * Shift(f[i]) + f[i]]

\* What parsing f means, stated of f so that writing to the file keeps it: one
\* number is itself, several in a row make one of two digits at least.
Parsable(f) ==
  /\ \E g : Accumulates(g, f)
  /\ \A g : Accumulates(g, f) =>
       /\ g[Len(f)] \in Nat
       /\ Len(f) = 1 => g[Len(f)] = f[1]
       /\ Len(f) > 0 => g[Len(f)] > 0
       /\ Len(f) > 1 => g[Len(f)] > 10

\* Each server has its own channel.
ChanInv ==
  /\ \A s \in Srv : spc[s] \in HasChan => sChan[s] \in ChanId /\ sChan[s] < nextChanId
  /\ \A s, t \in Srv :
       spc[s] \in HasChan /\ spc[t] \in HasChan /\ sChan[s] = sChan[t] => s = t

\* The file of a server that has written to it begins with its number or has
\* two.
FileInv ==
  /\ Parsable(file)
  /\ \A s \in Srv : spc[s] \in HasWritten =>
       Len(file) > 0 /\ (Len(file) = 1 => file[1] = sChan[s])

ShmInv ==
  /\ nextShm \in 1 .. (MaxShm + 1)
  /\ \A s \in Srv : spc[s] \in HasShm => sShm[s] \in 1 .. MaxShm
  /\ \A s \in Srv : spc[s] \in HasFilled => sShm[s] \in pattern

\* The number a client has found is made up of several.
Astray(s) == Len(file) > 1 /\ cChan[s] > 10

\* Client s has the channel and the memory of server t.
Served(s, t) ==
  /\ spc[t] \in HasSent /\ cChan[s] = sChan[t] /\ cShm[s] = sShm[t]
  /\ t = s \/ Astray(s)

\* A client has its server's channel or a number made up of several; one that has
\* received INIT has what one server sent.
ClientInv ==
  \A s \in Srv :
    /\ cpc[s] # "off" => spc[s] = "loop"
    /\ cpc[s] = "init" => cChan[s] = sChan[s] \/ Astray(s)
    /\ cpc[s] \in {"map", "loop"} => \E t \in Srv : Served(s, t)

\* What may be in the queue Q of a server at pc with object shm and counter n, of
\* which a client has seen tick last.
Own(m, pc, shm, n, last) ==
  \/ m.kind = "INIT" /\ m.a = shm /\ m.a \in 1 .. MaxShm /\ pc \in HasSent
  \/ m.kind = "TICK" /\ m.a \in 1 .. MaxTick /\ pc = "loop" /\ last < m.a /\ m.a <= n

Serves(Q, pc, shm, n, last) ==
  /\ \A i \in 1 .. Len(Q) : Own(Q[i].data, pc, shm, n, last)
  /\ \A i, j \in 1 .. Len(Q) :
       i < j /\ Q[i].data.kind = "TICK" /\ Q[j].data.kind = "TICK" => Q[i].data.a < Q[j].data.a

\* The last tick of server s that client u has seen, whoever started it.
LastSeen(s, u) == IF cChan[u] = sChan[s] THEN lastTick[u] ELSE 0

\* Channel c is a server's.
Owned(c) == \E s \in Srv : spc[s] \in HasChan /\ sChan[s] = c

\* Only channels of servers hold messages.
QueueInv ==
  /\ \A s, u \in Srv : spc[s] \in HasChan =>
       Serves(q[sChan[s]], spc[s], sShm[s], counter[s], LastSeen(s, u))
  /\ \A c \in ChanId : q[c] # << >> => Owned(c)

\* A tick was received from a server that had counted it.
TickInv ==
  /\ \A s \in Srv : counter[s] > 0
  /\ \A s, u \in Srv : spc[s] \in HasChan => LastSeen(s, u) <= counter[s]
  /\ \A u \in Srv : lastTick[u] > 0 => cChan[u] < nextChanId /\ cpc[u] \in {"loop", "lost"}

IInv ==
  /\ IpcTypeOK /\ ChanSound /\ PatternSeen
  /\ ChanInv /\ FileInv /\ ShmInv /\ ClientInv /\ QueueInv /\ TickInv

-----------------------------------------------------------------------------
(* The file.                                                               *)

\* An empty file.
LEMMA ParseNone == Parsable(<< >>)
<1>1. Len(<< >>) = 0 /\ 0 .. 0 = {0}
  BY EmptyIs
<1> DEFINE z == [i \in {0} |-> 0]
<1>2. Accumulates(z, << >>)
  BY <1>1, Zenon DEF Accumulates
<1>3. ASSUME NEW g, Accumulates(g, << >>) PROVE g[0] = 0
  BY <1>1, <1>3, Zenon DEF Accumulates
<1>4. QED
  BY <1>1, <1>2, <1>3 DEF Parsable

\* Every channel's number has a power of ten above it.
LEMMA ShiftIs == ASSUME NEW d \in ChanId PROVE Shift(d) \in Tens
<1>1. d \in Nat \ {0} /\ d < 1000000000
  BY DigitsAssumption, ChannelAssumption DEF ChanId
<1>2. \E p \in Tens : d < p /\ p <= 10 * d
  BY <1>1 DEF Tens
<1>3. QED
  BY <1>2, Zenon DEF Shift

\* One more number.
LEMMA Digits ==
  ASSUME NEW x \in Nat, NEW d \in Nat \ {0}, NEW p \in Tens
  PROVE  /\ x * p + d \in Nat /\ x * p + d > 0
         /\ x > 0 => x * p + d > 10
         /\ x = 0 => x * p + d = d
BY DEF Tens

\* vfs::write of one more number.
LEMMA ParseMore ==
  ASSUME NEW f \in Seq(ChanId), Parsable(f), NEW d \in ChanId
  PROVE  Parsable(Append(f, d))
<1> DEFINE n == Len(f)
<1> DEFINE h == Append(f, d)
<1>1. /\ n \in Nat /\ Len(h) = n + 1 /\ h[n + 1] = d /\ d \in Nat \ {0}
      /\ \A i \in 1 .. n : h[i] = f[i] /\ f[i] \in Nat \ {0}
  <2>1. n \in Nat /\ Len(h) = n + 1 /\ h[n + 1] = d /\ \A i \in 1 .. n : h[i] = f[i]
    BY AppendIs, LenIs
  <2>2. \A i \in 1 .. n : f[i] \in ChanId
    BY LenIs, Zenon
  <2>3. \A c \in ChanId : c \in Nat \ {0}
    BY ChannelAssumption DEF ChanId
  <2> HIDE DEF h, n
  <2>4. QED
    BY <2>1, <2>2, <2>3, Zenon
<1> HIDE DEF h, n
<1>2. \E g : Accumulates(g, h)
  <2>1. PICK g : Accumulates(g, f)
    BY Zenon DEF Parsable
  <2> DEFINE k == [i \in 0 .. (n + 1) |-> IF i <= n THEN g[i] ELSE g[n] * Shift(d) + d]
  <2>2. \A i \in 0 .. n : g[i] = IF i = 0 THEN 0 ELSE g[i - 1] * Shift(f[i]) + f[i]
    BY <2>1, Zenon DEF Accumulates, n
  <2>3. ASSUME NEW i \in 0 .. (n + 1)
        PROVE  k[i] = IF i = 0 THEN 0 ELSE k[i - 1] * Shift(h[i]) + h[i]
    <3>1. CASE i = 0
      BY <1>1, <2>2, <3>1
    <3>2. CASE i \in 1 .. n
      <4>1. k[i] = g[i] /\ k[i - 1] = g[i - 1] /\ h[i] = f[i] /\ i # 0 /\ i \in 0 .. n
        BY <1>1, <3>2
      <4>2. g[i] = g[i - 1] * Shift(f[i]) + f[i]
        BY <2>2, <4>1, Zenon
      <4>3. QED
        BY <4>1, <4>2, Zenon
    <3>3. CASE i = n + 1
      <4>1. k[i] = g[n] * Shift(d) + d /\ k[i - 1] = g[n] /\ h[i] = d /\ i # 0
        BY <1>1, <3>3
      <4>2. QED
        BY <4>1, Zenon
    <3>4. QED
      BY <1>1, <3>1, <3>2, <3>3
  <2>4. k = [i \in 0 .. (n + 1) |-> k[i]]
    BY Zenon
  <2> HIDE DEF k
  <2>5. k = [i \in 0 .. (n + 1) |-> IF i = 0 THEN 0 ELSE k[i - 1] * Shift(h[i]) + h[i]]
    BY <2>3, <2>4, Zenon
  <2>6. QED
    BY <1>1, <2>5, Zenon DEF Accumulates
<1>3. ASSUME NEW g, Accumulates(g, h)
      PROVE  /\ g[n + 1] \in Nat
             /\ n + 1 = 1 => g[n + 1] = h[1]
             /\ g[n + 1] > 0
             /\ n + 1 > 1 => g[n + 1] > 10
  <2>1. \A i \in 0 .. (n + 1) : g[i] = IF i = 0 THEN 0 ELSE g[i - 1] * Shift(h[i]) + h[i]
    BY <1>1, <1>3, Zenon DEF Accumulates
  <2> DEFINE k == [i \in 0 .. n |-> g[i]]
  <2>2. ASSUME NEW i \in 0 .. n
        PROVE  k[i] = IF i = 0 THEN 0 ELSE k[i - 1] * Shift(f[i]) + f[i]
    <3>1. CASE i = 0
      BY <1>1, <2>1, <3>1
    <3>2. CASE i # 0
      <4>1. i \in 1 .. n /\ i - 1 \in 0 .. n /\ i \in 0 .. (n + 1)
        BY <1>1, <3>2
      <4>2. k[i] = g[i] /\ k[i - 1] = g[i - 1] /\ h[i] = f[i]
        BY <1>1, <4>1, Zenon
      <4>3. g[i] = g[i - 1] * Shift(h[i]) + h[i]
        BY <2>1, <3>2, <4>1, Zenon
      <4>4. QED
        BY <3>2, <4>2, <4>3, Zenon
    <3>3. QED
      BY <3>1, <3>2, Zenon
  <2>3. k = [i \in 0 .. n |-> k[i]] /\ k[n] = g[n]
    BY <1>1
  <2> HIDE DEF k
  <2>4. k = [i \in 0 .. n |-> IF i = 0 THEN 0 ELSE k[i - 1] * Shift(f[i]) + f[i]]
    BY <2>2, <2>3, Zenon
  <2>5. Accumulates(k, f)
    BY <2>4, Zenon DEF Accumulates, n
  <2>6. g[n] \in Nat /\ (n > 0 => g[n] > 0)
    BY <2>3, <2>5, Zenon DEF Parsable, n
  <2>7. g[n + 1] = g[n] * Shift(d) + d
    <3>1. n + 1 \in 0 .. (n + 1) /\ n + 1 # 0 /\ (n + 1) - 1 = n
      BY <1>1
    <3>2. QED
      BY <1>1, <2>1, <3>1, Zenon
  <2>8. n = 0 => g[n] = 0
    BY <1>1, <2>1
  <2>9. /\ g[n + 1] \in Nat /\ g[n + 1] > 0
        /\ g[n] > 0 => g[n + 1] > 10
        /\ g[n] = 0 => g[n + 1] = d
    <3>1. Shift(d) \in Tens /\ d \in Nat \ {0} /\ g[n] \in Nat
      BY <2>6, ShiftIs, ChannelAssumption DEF ChanId
    <3>2. QED
      BY <2>7, <3>1, Digits, Zenon
  <2>10. (n + 1 = 1 => n = 0) /\ (n + 1 > 1 => n > 0) /\ (n = 0 => h[1] = d)
    BY <1>1
  <2>11. QED
    BY <2>6, <2>8, <2>9, <2>10, Zenon
<1>4. Parsable(h)
  BY <1>1, <1>2, <1>3, Zenon DEF Parsable
<1>5. QED
  BY <1>4, Zenon DEF h

\* What parse_u64_ascii returns: the only number of the file, or a number of two
\* digits at least.
LEMMA ParseIs ==
  ASSUME NEW f, Parsable(f)
  PROVE  /\ Parse(f) \in Nat
         /\ Len(f) = 1 => Parse(f) = f[1]
         /\ Len(f) > 1 => Parse(f) > 10
<1> DEFINE v == CHOOSE g : g = [i \in 0 .. Len(f) |-> IF i = 0 THEN 0 ELSE g[i - 1] * Shift(f[i]) + f[i]]
<1>1. \E g : g = [i \in 0 .. Len(f) |-> IF i = 0 THEN 0 ELSE g[i - 1] * Shift(f[i]) + f[i]]
  BY Zenon DEF Parsable, Accumulates
<1>2. v = [i \in 0 .. Len(f) |-> IF i = 0 THEN 0 ELSE v[i - 1] * Shift(f[i]) + f[i]]
  BY <1>1, Zenon
<1>3. Parse(f) = v[Len(f)]
  BY Zenon DEF Parse
<1> HIDE DEF v
<1>4. Accumulates(v, f)
  BY <1>2, Zenon DEF Accumulates
<1>5. QED
  BY <1>3, <1>4, Zenon DEF Parsable

-----------------------------------------------------------------------------
(* The queue of a server.                                                  *)

Queued == Seq(Message)

\* Before INIT nothing is in it, whatever else changes.
LEMMA ServesNone ==
  ASSUME NEW Q \in Queued, NEW pc, NEW shm, NEW n, NEW last, Serves(Q, pc, shm, n, last),
         pc \notin HasSent, NEW pc1, NEW shm1, NEW n1, NEW last1
  PROVE  Q = << >> /\ Serves(Q, pc1, shm1, n1, last1)
<1>1. Len(Q) \in Nat
  BY LenIs, Zenon DEF Queued
<1>2. ASSUME Len(Q) # 0 PROVE FALSE
  <2>1. 1 \in 1 .. Len(Q)
    BY <1>1, <1>2
  <2>2. Own(Q[1].data, pc, shm, n, last)
    BY <2>1, Zenon DEF Serves
  <2>3. QED
    BY <2>2, Zenon DEF Own, HasSent
<1>3. 1 .. Len(Q) = {}
  BY <1>1, <1>2
<1>4. QED
  BY <1>2, <1>3, EmptyIs, Zenon DEF Serves, Queued

\* An empty queue.
LEMMA ServesEmpty ==
  ASSUME NEW pc, NEW shm, NEW n, NEW last
  PROVE  Serves(<< >>, pc, shm, n, last)
<1>1. Len(<< >>) = 0 /\ 1 .. 0 = {}
  BY EmptyIs
<1>2. QED
  BY <1>1, Zenon DEF Serves

\* A message remains the server's own when the server goes on.
LEMMA OwnStays ==
  ASSUME NEW m, NEW pc, NEW shm, NEW n \in Nat, NEW last \in Nat, Own(m, pc, shm, n, last),
         NEW pc1, pc1 \in HasSent, pc = "loop" => pc1 = "loop", NEW n1 \in Nat, n <= n1
  PROVE  Own(m, pc1, shm, n1, last)
BY DEF Own

LEMMA ServesOn ==
  ASSUME NEW Q, NEW pc, NEW shm, NEW n \in Nat, NEW last \in Nat, Serves(Q, pc, shm, n, last),
         NEW pc1, pc1 \in HasSent, pc = "loop" => pc1 = "loop", NEW n1 \in Nat, n <= n1
  PROVE  Serves(Q, pc1, shm, n1, last)
BY OwnStays, Zenon DEF Serves

\* A message at the end: INIT, or a tick counted after those before it.
LEMMA ServesMore ==
  ASSUME NEW Q \in Queued, NEW pc, NEW shm, NEW n, NEW last, Serves(Q, pc, shm, n, last),
         NEW m \in Message, Own(m.data, pc, shm, n, last),
         \A i \in 1 .. Len(Q) :
           Q[i].data.kind = "TICK" /\ m.data.kind = "TICK" => Q[i].data.a < m.data.a
  PROVE  Serves(Append(Q, m), pc, shm, n, last)
<1> DEFINE R == Append(Q, m)
<1>1. /\ Len(Q) \in Nat /\ Len(R) = Len(Q) + 1 /\ R[Len(Q) + 1] = m
      /\ \A i \in 1 .. Len(Q) : R[i] = Q[i]
  BY AppendIs, LenIs DEF Queued
<1> HIDE DEF R
<1>2. \A i \in 1 .. Len(R) : i \in 1 .. Len(Q) \/ i = Len(Q) + 1
  BY <1>1
<1>3. \A i \in 1 .. Len(R) : Own(R[i].data, pc, shm, n, last)
  BY <1>1, <1>2, Zenon DEF Serves
<1>4. ASSUME NEW i \in 1 .. Len(R), NEW j \in 1 .. Len(R), i < j,
             R[i].data.kind = "TICK", R[j].data.kind = "TICK"
      PROVE  R[i].data.a < R[j].data.a
  <2>1. i \in 1 .. Len(Q)
    BY <1>1, <1>4
  <2>2. CASE j \in 1 .. Len(Q)
    BY <1>1, <1>4, <2>1, <2>2, Zenon DEF Serves
  <2>3. CASE j = Len(Q) + 1
    BY <1>1, <1>4, <2>1, <2>3, Zenon
  <2>4. QED
    BY <1>2, <2>2, <2>3, Zenon
<1>5. Serves(R, pc, shm, n, last)
  BY <1>3, <1>4, Zenon DEF Serves
<1>6. QED
  BY <1>5, Zenon DEF R

\* What chan::recv leaves; a tick it takes comes before all that remain.
LEMMA ServesRest ==
  ASSUME NEW Q \in Queued, Q # << >>, NEW pc, NEW shm, NEW n, NEW last \in Nat,
         Serves(Q, pc, shm, n, last)
  PROVE  /\ Own(Head(Q).data, pc, shm, n, last)
         /\ Serves(Tail(Q), pc, shm, n, last)
         /\ Head(Q).data.kind = "TICK" => Serves(Tail(Q), pc, shm, n, Head(Q).data.a)
<1> DEFINE R == Tail(Q)
<1>1. /\ Len(Q) \in Nat \ {0} /\ Head(Q) = Q[1] /\ Len(R) = Len(Q) - 1
      /\ \A i \in 1 .. Len(R) : R[i] = Q[i + 1]
  BY HeadTailIs, LenIs, EmptyIs DEF Queued
<1> HIDE DEF R
<1>2. 1 \in 1 .. Len(Q) /\ \A i \in 1 .. Len(R) : i + 1 \in 1 .. Len(Q) /\ 1 < i + 1
  BY <1>1
<1>3. Own(Q[1].data, pc, shm, n, last)
  BY <1>2, Zenon DEF Serves
<1>4. \A i \in 1 .. Len(R) : Own(R[i].data, pc, shm, n, last)
  BY <1>1, <1>2, Zenon DEF Serves
<1>5. ASSUME NEW i \in 1 .. Len(R), NEW j \in 1 .. Len(R), i < j,
             R[i].data.kind = "TICK", R[j].data.kind = "TICK"
      PROVE  R[i].data.a < R[j].data.a
  <2>1. R[i] = Q[i + 1] /\ R[j] = Q[j + 1] /\ i + 1 \in 1 .. Len(Q) /\ j + 1 \in 1 .. Len(Q)
    BY <1>1, <1>2, Zenon
  <2>2. i + 1 < j + 1
    BY <1>1, <1>5
  <2>3. QED
    BY <1>5, <2>1, <2>2, Zenon DEF Serves
<1>6. ASSUME Q[1].data.kind = "TICK", NEW i \in 1 .. Len(R)
      PROVE  Own(R[i].data, pc, shm, n, Q[1].data.a)
  <2>1. Own(R[i].data, pc, shm, n, last) /\ R[i] = Q[i + 1]
    BY <1>1, <1>4, Zenon
  <2>2. R[i].data.kind = "TICK" => Q[1].data.a < R[i].data.a
    BY <1>2, <1>6, <2>1, Zenon DEF Serves
  <2>3. QED
    BY <2>1, <2>2, Zenon DEF Own
<1>7. Serves(R, pc, shm, n, last)
  BY <1>4, <1>5, Zenon DEF Serves
<1>8. Q[1].data.kind = "TICK" => Serves(R, pc, shm, n, Q[1].data.a)
  BY <1>5, <1>6, Zenon DEF Serves
<1>9. QED
  BY <1>1, <1>3, <1>7, <1>8, Zenon DEF R

-----------------------------------------------------------------------------
(* The steps of ipc_srv.                                                   *)

\* The types of the programs' own variables.
ProgTypes ==
  /\ file \in Seq(ChanId)
  /\ spc \in [Srv -> SrvPc] /\ cpc \in [Srv -> CliPc]
  /\ sChan \in [Srv -> 0 .. MaxChan] /\ cChan \in [Srv -> Nat]
  /\ sShm \in [Srv -> Nat] /\ cShm \in [Srv -> Nat]
  /\ counter \in [Srv -> 0 .. MaxTick] /\ lastTick \in [Srv -> 0 .. MaxTick]
  /\ seenOk \in [Srv -> BOOLEAN] /\ boots \in 1 .. MaxBoots

LEMMA TypesAre == ChanSound => (IpcTypeOK <=> ProgTypes)
BY Zenon DEF ChanSound, IpcTypeOK, ProgTypes

LEMMA TypesAreNext == ChanSound' => (IpcTypeOK' <=> ProgTypes')
BY Zenon DEF ChanSound, IpcTypeOK, ProgTypes

LEMMA Bounds ==
  /\ MaxChan \in Nat /\ MaxShm \in Nat \ {0} /\ MaxTick \in Nat \ {0}
  /\ MaxBoots \in Nat \ {0} /\ MSG_SIZE \in Lens /\ BUF_SIZE \in Lens
  /\ MSG_SIZE \in Nat /\ BUF_SIZE \in Nat /\ MSG_SIZE <= BUF_SIZE
  /\ MSG_SIZE \in 1 .. MAX_MSG /\ MAX_MSG \in Nat
BY IpcAssumption, ChannelAssumption, Zenon

\* What a server has in its queue, when its own part of the state is known.
LEMMA QueueOf ==
  ASSUME IInv, NEW s \in Srv, NEW u \in Srv, spc[s] \in HasChan
  PROVE  /\ sChan[s] \in ChanId /\ sChan[s] < nextChanId
         /\ q[sChan[s]] \in Queued
         /\ Serves(q[sChan[s]], spc[s], sShm[s], counter[s], LastSeen(s, u))
         /\ counter[s] \in Nat /\ LastSeen(s, u) \in Nat /\ LastSeen(s, u) <= counter[s]
<1>1. sChan[s] \in ChanId /\ sChan[s] < nextChanId
  BY Zenon DEF IInv, ChanInv
<1>2. q[sChan[s]] \in Seq(Message)
  BY <1>1, Zenon DEF IInv, ChanSound, ChanTypeOK
<1>3. counter[s] \in Nat /\ LastSeen(s, u) \in Nat
  BY Bounds DEF IInv, IpcTypeOK, LastSeen
<1>4. QED
  BY <1>1, <1>2, <1>3, Zenon DEF IInv, QueueInv, TickInv, Queued

\* What a step of server s keeps when it has not sent INIT.
LEMMA ClientsKept ==
  ASSUME IInv, NEW s \in Srv, spc[s] \notin HasSent, UNCHANGED cliVars,
         Len(file) > 1 => Len(file') > 1,
         \A t \in Srv : t # s => spc'[t] = spc[t] /\ sChan'[t] = sChan[t] /\ sShm'[t] = sShm[t]
  PROVE  ClientInv' /\ PatternSeen'
<1>1. UNCHANGED <<cpc, cChan, cShm, seenOk, lastTick>>
  BY Zenon DEF cliVars
<1>2. cpc[s] = "off"
  BY Zenon DEF IInv, ClientInv, HasSent
<1>3. ASSUME NEW u \in Srv
      PROVE  /\ cpc'[u] # "off" => spc'[u] = "loop"
             /\ cpc'[u] = "init" => cChan'[u] = sChan'[u] \/ Astray(u)'
             /\ cpc'[u] \in {"map", "loop"} => \E t \in Srv : Served(u, t)'
  <2>1. CASE u = s
    BY <1>1, <1>2, <2>1, Zenon
  <2>2. CASE u # s
    <3>1. Astray(u) => Astray(u)'
      BY <1>1, Zenon DEF Astray
    <3>2. ASSUME NEW t \in Srv, Served(u, t) PROVE Served(u, t)'
      <4>1. t # s
        BY <3>2, Zenon DEF Served
      <4>2. QED
        BY <1>1, <3>1, <3>2, <4>1, Zenon DEF Served
    <3>3. QED
      BY <1>1, <2>2, <3>1, <3>2, Zenon DEF IInv, ClientInv
  <2>3. QED
    BY <2>1, <2>2, Zenon
<1>4. ClientInv'
  BY <1>3, Zenon DEF ClientInv
<1>5. QED
  BY <1>1, <1>4, Zenon DEF IInv, PatternSeen

\* The clients when no server, no client and no file changes.
LEMMA ClientsStay ==
  ASSUME IInv, UNCHANGED <<spc, sChan, sShm, cpc, cChan, cShm, file>>
  PROVE  ClientInv'
<1>1. \A u \in Srv : Astray(u) => Astray(u)'
  BY Zenon DEF Astray
<1>2. \A u, t \in Srv : Served(u, t) => Served(u, t)'
  BY <1>1, Zenon DEF Served
<1>3. QED
  BY <1>1, <1>2, Zenon DEF IInv, ClientInv

\* The queues when no server changes and no client receives a tick.
LEMMA QueueStays ==
  ASSUME IInv, UNCHANGED <<q, spc, sChan, sShm, counter>>,
         \A t, u \in Srv : LastSeen(t, u)' = LastSeen(t, u)
  PROVE  QueueInv'
<1>1. \A c \in ChanId : Owned(c) => Owned(c)'
  BY Zenon DEF Owned
<1>2. QED
  BY <1>1, Zenon DEF IInv, QueueInv

\* What was received and counted, when neither changes.
LEMMA TickKept ==
  ASSUME IInv, UNCHANGED <<sChan, cChan, counter, lastTick, nextChanId>>,
         \A t \in Srv : spc'[t] \in HasChan => spc[t] \in HasChan,
         \A u \in Srv : lastTick[u] > 0 => cpc'[u] = cpc[u]
  PROVE  TickInv'
<1>1. \A t, u \in Srv : LastSeen(t, u)' = LastSeen(t, u)
  BY Zenon DEF LastSeen
<1>2. QED
  BY <1>1, Zenon DEF IInv, TickInv

\* What it keeps once it has a channel.
LEMMA ChanKept ==
  ASSUME IInv, NEW s \in Srv, spc[s] \in HasChan, UNCHANGED <<sChan, nextChanId>>,
         \A t \in Srv : t # s => spc'[t] = spc[t]
  PROVE  ChanInv'
<1>1. \A t \in Srv : spc'[t] \in HasChan => spc[t] \in HasChan
  BY Zenon
<1>2. QED
  BY <1>1, Zenon DEF IInv, ChanInv

\* What it keeps when it does not write to the file.
LEMMA FileKept ==
  ASSUME IInv, NEW s \in Srv, UNCHANGED <<file, sChan>>,
         spc'[s] \in HasWritten => spc[s] \in HasWritten,
         \A t \in Srv : t # s => spc'[t] = spc[t]
  PROVE  FileInv'
<1>1. \A t \in Srv : spc'[t] \in HasWritten => spc[t] \in HasWritten
  BY Zenon
<1>2. QED
  BY <1>1, Zenon DEF IInv, FileInv

\* What it keeps when it leaves the shared memory alone.
LEMMA ShmKept ==
  ASSUME IInv, NEW s \in Srv, UNCHANGED <<shmVars, sShm>>,
         spc'[s] \in HasShm => spc[s] \in HasShm, spc'[s] \in HasFilled => spc[s] \in HasFilled,
         \A t \in Srv : t # s => spc'[t] = spc[t]
  PROVE  ShmInv'
<1>1. \A t \in Srv : /\ spc'[t] \in HasShm => spc[t] \in HasShm
                     /\ spc'[t] \in HasFilled => spc[t] \in HasFilled
  BY Zenon
<1>2. UNCHANGED <<nextShm, pattern, sShm>>
  BY Zenon DEF shmVars
<1>3. QED
  BY <1>1, <1>2, Zenon DEF IInv, ShmInv

\* ipc_srv starts.
LEMMA StartInv == ASSUME IInv, NEW s \in Srv, Start(s) PROVE IInv'
<1>1. /\ spc[s] = "off" /\ spc' = [spc EXCEPT ![s] = "create"]
      /\ UNCHANGED <<chanVars, sChan, sShm, counter, cliVars, shmVars, file, boots>>
  BY Zenon DEF Start
<1>2. ChanSound' /\ ProgTypes /\ ProgTypes'
  <2>1. ChanSound' /\ ProgTypes
    BY <1>1, TypesAre, Zenon DEF IInv, chanVars, ChanSound, ChanTypeOK, QueueBounded, Fifo
  <2>2. QED
    BY <1>1, <2>1, Zenon DEF ProgTypes, cliVars, SrvPc
<1>3. \A t \in Srv : spc'[t] = IF t = s THEN "create" ELSE spc[t]
  BY <1>1, <1>2, Zenon DEF ProgTypes
<1>4. spc'[s] \notin HasChan /\ spc'[s] \notin HasWritten /\ spc'[s] \notin HasShm /\ spc'[s] \notin HasFilled
  BY <1>3, Zenon DEF HasChan, HasWritten, HasShm, HasFilled
<1>5. ChanInv'
  BY <1>1, <1>3, <1>4, Zenon DEF IInv, ChanInv, chanVars
<1>6. FileInv' /\ ShmInv'
  BY <1>1, <1>3, <1>4, FileKept, ShmKept, Zenon
<1>7. ClientInv' /\ TickInv' /\ PatternSeen'
  <2>1. spc[s] \notin HasSent /\ UNCHANGED <<cpc, cChan, lastTick, nextChanId>>
    BY <1>1, Zenon DEF HasSent, cliVars, chanVars
  <2>2. \A t \in Srv : spc'[t] \in HasChan => spc[t] \in HasChan
    BY <1>3, <1>4, Zenon
  <2>3. QED
    BY <1>1, <1>3, <2>1, <2>2, ClientsKept, TickKept, Zenon
<1>8. QueueInv'
  <2>1. \A t, u \in Srv : LastSeen(t, u)' = LastSeen(t, u)
    BY <1>1, Zenon DEF LastSeen, cliVars
  <2>2. \A c \in ChanId : Owned(c) => Owned(c)'
    BY <1>1, <1>3, Zenon DEF Owned, HasChan
  <2>3. QED
    BY <1>1, <1>3, <1>4, <2>1, <2>2, Zenon DEF IInv, QueueInv, chanVars
<1>9. QED
  BY <1>2, <1>5, <1>6, <1>7, <1>8, TypesAreNext, Zenon DEF IInv

\* chan::create: the channel is new, and empty.
LEMMA CreateInv == ASSUME IInv, NEW s \in Srv, SrvCreate(s) PROVE IInv'
<1>1. /\ spc[s] = "create" /\ SysChanCreate
      /\ sChan' = [sChan EXCEPT ![s] = nextChanId] /\ spc' = [spc EXCEPT ![s] = "write"]
      /\ UNCHANGED <<sShm, counter, cliVars, shmVars, file, boots>>
  BY Zenon DEF SrvCreate
<1>2. ChanSound' /\ nextChanId \in ChanId /\ nextChanId' = nextChanId + 1 /\ q' = q
  BY <1>1, ChanNextInv, Zenon DEF IInv, SysChanCreate, ChanNext
<1>3. ProgTypes /\ ProgTypes'
  <2>1. ProgTypes
    BY TypesAre, Zenon DEF IInv
  <2>2. nextChanId \in 0 .. MaxChan
    BY <1>2 DEF ChanId
  <2>3. sChan' \in [Srv -> 0 .. MaxChan] /\ spc' \in [Srv -> SrvPc]
    BY <1>1, <2>1, <2>2, Zenon DEF ProgTypes, SrvPc
  <2>4. QED
    BY <1>1, <2>1, <2>3, Zenon DEF ProgTypes, cliVars
<1>4. \A t \in Srv : /\ spc'[t] = IF t = s THEN "write" ELSE spc[t]
                     /\ sChan'[t] = IF t = s THEN nextChanId ELSE sChan[t]
  BY <1>1, <1>3, Zenon DEF ProgTypes
<1>5. ChanInv'
  <2>1. \A t \in Srv : t # s /\ spc'[t] \in HasChan =>
          spc[t] \in HasChan /\ sChan'[t] = sChan[t] /\ sChan[t] \in ChanId /\ sChan[t] < nextChanId
    BY <1>4, Zenon DEF IInv, ChanInv
  <2>2. sChan'[s] = nextChanId
    BY <1>4, Zenon
  <2>3. ASSUME NEW t \in Srv, spc'[t] \in HasChan
        PROVE  sChan'[t] \in ChanId /\ sChan'[t] < nextChanId'
    BY <1>2, <2>1, <2>2, <2>3 DEF ChanId
  <2>4. ASSUME NEW t \in Srv, NEW u \in Srv, spc'[t] \in HasChan, spc'[u] \in HasChan,
               sChan'[t] = sChan'[u]
        PROVE  t = u
    <3>1. CASE t # s /\ u # s
      BY <2>1, <2>4, <3>1, Zenon DEF IInv, ChanInv
    <3>2. CASE t = s \/ u = s
      BY <1>2, <2>1, <2>2, <2>4, <3>2 DEF ChanId
    <3>3. QED
      BY <3>1, <3>2, Zenon
  <2>5. QED
    BY <2>3, <2>4, Zenon DEF ChanInv
<1>6. FileInv' /\ ShmInv'
  <2>1. spc'[s] \notin HasWritten /\ spc'[s] \notin HasShm /\ spc'[s] \notin HasFilled
    BY <1>4, Zenon DEF HasWritten, HasShm, HasFilled
  <2>2. ShmInv'
    BY <1>1, <1>4, <2>1, ShmKept, Zenon
  <2>3. QED
    BY <1>1, <1>4, <2>1, <2>2, Zenon DEF IInv, FileInv
<1>7. ClientInv' /\ PatternSeen'
  BY <1>1, <1>4, ClientsKept, Zenon DEF HasSent
<1>8. ASSUME NEW t \in Srv, NEW u \in Srv
      PROVE  LastSeen(t, u)' = IF t = s THEN 0 ELSE LastSeen(t, u)
  <2>1. UNCHANGED <<cChan, lastTick>>
    BY <1>1, Zenon DEF cliVars
  <2>2. CASE t = s
    <3>1. cChan[u] \in Nat /\ lastTick[u] \in Nat /\ nextChanId \in Nat
      BY <1>2, <1>3, Bounds DEF ProgTypes, ChanId
    <3>2. lastTick[u] > 0 => cChan[u] < nextChanId
      BY Zenon DEF IInv, TickInv
    <3>3. cChan[u] = nextChanId => lastTick[u] = 0
      BY <3>1, <3>2
    <3>4. QED
      BY <1>4, <2>1, <2>2, <3>3, Zenon DEF LastSeen
  <2>3. CASE t # s
    BY <1>4, <2>1, <2>3, Zenon DEF LastSeen
  <2>4. QED
    BY <2>2, <2>3, Zenon
<1>9. TickInv'
  <2>1. UNCHANGED <<cpc, cChan, lastTick, counter>>
    BY <1>1, Zenon DEF cliVars
  <2>2. counter[s] \in Nat /\ 0 <= counter[s]
    BY <1>3, Bounds DEF ProgTypes
  <2>3. \A t, u \in Srv : spc'[t] \in HasChan => LastSeen(t, u)' <= counter[t]
    BY <1>4, <1>8, <2>2, Zenon DEF IInv, TickInv
  <2>4. ASSUME NEW u \in Srv, lastTick[u] > 0
        PROVE  cChan[u] < nextChanId'
    <3>1. cChan[u] \in Nat /\ cChan[u] < nextChanId
      BY <1>3, <2>4, Zenon DEF IInv, TickInv, ProgTypes
    <3>2. QED
      BY <1>2, <3>1, ChannelAssumption DEF ChanId
  <2>5. QED
    BY <2>1, <2>3, <2>4, Zenon DEF IInv, TickInv
<1>10. QueueInv'
  <2>1. ASSUME NEW t \in Srv, NEW u \in Srv, spc'[t] \in HasChan
        PROVE  Serves(q'[sChan'[t]], spc'[t], sShm'[t], counter'[t], LastSeen(t, u)')
    <3>1. CASE t = s
      <4>1. q[nextChanId] = << >>
        BY <1>2 DEF IInv, ChanSound, QueueBounded, ChanTypeOK, ChanId
      <4>2. q'[sChan'[t]] = << >>
        BY <1>2, <1>4, <3>1, <4>1, Zenon
      <4>3. QED
        BY <4>2, ServesEmpty, Zenon
    <3>2. CASE t # s
      BY <1>1, <1>2, <1>4, <1>8, <2>1, <3>2, Zenon DEF IInv, QueueInv
    <3>3. QED
      BY <3>1, <3>2, Zenon
  <2>2. \A c \in ChanId : Owned(c) => Owned(c)'
    BY <1>1, <1>4, Zenon DEF Owned, HasChan
  <2>3. QED
    BY <1>2, <2>1, <2>2, Zenon DEF IInv, QueueInv
<1>11. QED
  BY <1>2, <1>3, <1>5, <1>6, <1>7, <1>9, <1>10, TypesAreNext, Zenon DEF IInv

\* Steps of a server that has not sent INIT leave its queue empty.
LEMMA QuietQueue ==
  ASSUME IInv, NEW s \in Srv, spc[s] \in HasChan, spc[s] \notin HasSent, spc'[s] \in HasChan,
         UNCHANGED <<q, sChan, counter, lastTick, cChan>>,
         \A t \in Srv : t # s => spc'[t] = spc[t] /\ sShm'[t] = sShm[t]
  PROVE  QueueInv'
<1>1. \A t, u \in Srv : LastSeen(t, u)' = LastSeen(t, u)
  BY Zenon DEF LastSeen
<1>2. ASSUME NEW t \in Srv, NEW u \in Srv, spc'[t] \in HasChan
      PROVE  Serves(q'[sChan'[t]], spc'[t], sShm'[t], counter'[t], LastSeen(t, u)')
  <2>1. CASE t = s
    <3>1. q[sChan[s]] \in Queued /\ Serves(q[sChan[s]], spc[s], sShm[s], counter[s], LastSeen(s, u))
      BY QueueOf, Zenon
    <3>2. Serves(q[sChan[s]], spc'[s], sShm'[s], counter[s], LastSeen(s, u))
      BY <3>1, ServesNone, Zenon
    <3>3. QED
      BY <1>1, <2>1, <3>2, Zenon
  <2>2. CASE t # s
    BY <1>1, <1>2, <2>2, Zenon DEF IInv, QueueInv
  <2>3. QED
    BY <2>1, <2>2, Zenon
<1>3. \A c \in ChanId : Owned(c) => Owned(c)'
  BY Zenon DEF Owned
<1>4. QED
  BY <1>2, <1>3, Zenon DEF IInv, QueueInv

\* What the steps between chan::create and chan::send keep.
LEMMA SetupKept ==
  ASSUME IInv, NEW s \in Srv, spc[s] \in HasChan, spc[s] \notin HasSent, spc'[s] \in HasChan,
         UNCHANGED <<chanVars, sChan, counter, cliVars>>, Len(file) > 1 => Len(file') > 1,
         \A t \in Srv : t # s => spc'[t] = spc[t] /\ sShm'[t] = sShm[t]
  PROVE  ChanInv' /\ ClientInv' /\ QueueInv' /\ TickInv' /\ PatternSeen'
<1>1. UNCHANGED <<q, nextChanId, cpc, cChan, lastTick>>
  BY Zenon DEF chanVars, cliVars
<1>2. \A t \in Srv : spc'[t] \in HasChan => spc[t] \in HasChan
  BY Zenon
<1>3. ChanInv' /\ QueueInv'
  BY <1>1, ChanKept, QuietQueue, Zenon
<1>4. ClientInv' /\ PatternSeen'
  BY ClientsKept, Zenon
<1>5. TickInv'
  BY <1>1, <1>2, TickKept, Zenon
<1>6. QED
  BY <1>3, <1>4, <1>5, Zenon

\* vfs::write appends the server's number.
LEMMA WriteIdInv == ASSUME IInv, NEW s \in Srv, SrvWriteId(s) PROVE IInv'
<1>1. /\ spc[s] = "write" /\ file' = Append(file, sChan[s]) /\ spc' = [spc EXCEPT ![s] = "shm"]
      /\ UNCHANGED <<chanVars, sChan, sShm, counter, cliVars, shmVars, boots>>
  BY Zenon DEF SrvWriteId, VfsWrite
<1>2. ChanSound' /\ ProgTypes /\ sChan[s] \in ChanId
  BY <1>1, TypesAre, Zenon DEF IInv, chanVars, ChanSound, ChanTypeOK, QueueBounded, Fifo, ChanInv, HasChan
<1>3. /\ Append(file, sChan[s]) \in Seq(ChanId) /\ Len(file) \in Nat
      /\ Len(Append(file, sChan[s])) = Len(file) + 1
      /\ Append(file, sChan[s])[Len(file) + 1] = sChan[s]
  BY <1>2, AppendIs, LenIs DEF ProgTypes
<1>4. ProgTypes'
  BY <1>1, <1>2, <1>3, Zenon DEF ProgTypes, cliVars, SrvPc
<1>5. \A t \in Srv : spc'[t] = IF t = s THEN "shm" ELSE spc[t]
  BY <1>1, <1>2, Zenon DEF ProgTypes
<1>6. ShmInv'
  <2>1. spc'[s] \notin HasShm /\ spc'[s] \notin HasFilled
    BY <1>5 DEF HasShm, HasFilled
  <2>2. QED
    BY <1>1, <1>5, <2>1, ShmKept, Zenon
<1>7. FileInv'
  <2>1. Parsable(file')
    BY <1>1, <1>2, ParseMore, Zenon DEF IInv, FileInv, ProgTypes
  <2>2. ASSUME NEW t \in Srv, spc'[t] \in HasWritten
        PROVE  Len(file') > 0 /\ (Len(file') = 1 => file'[1] = sChan'[t])
    <3>1. CASE t = s
      BY <1>1, <1>3, <3>1
    <3>2. CASE t # s
      <4>1. Len(file) > 0
        BY <1>5, <2>2, <3>2, Zenon DEF IInv, FileInv
      <4>2. QED
        BY <1>1, <1>3, <4>1
    <3>3. QED
      BY <3>1, <3>2, Zenon
  <2>3. QED
    BY <2>1, <2>2, Zenon DEF FileInv
<1>8. ChanInv' /\ ClientInv' /\ QueueInv' /\ TickInv' /\ PatternSeen'
  <2>1. Len(file) > 1 => Len(file') > 1
    BY <1>1, <1>3
  <2>2. QED
    BY <1>1, <1>5, <2>1, SetupKept, Zenon DEF HasChan, HasSent
<1>9. QED
  BY <1>2, <1>4, <1>6, <1>7, <1>8, TypesAreNext, Zenon DEF IInv

\* shm::create: an object of its own.
LEMMA ShmCreateInv == ASSUME IInv, NEW s \in Srv, SrvShmCreate(s) PROVE IInv'
<1>1. /\ spc[s] = "shm" /\ nextShm <= MaxShm /\ nextShm' = nextShm + 1
      /\ sShm' = [sShm EXCEPT ![s] = nextShm] /\ spc' = [spc EXCEPT ![s] = "map"]
      /\ UNCHANGED <<chanVars, sChan, counter, cliVars, pattern, file, boots>>
  BY Zenon DEF SrvShmCreate
<1>2. ChanSound' /\ ProgTypes /\ nextShm \in 1 .. MaxShm
  <2>1. nextShm \in 1 .. MaxShm
    BY <1>1, Bounds DEF IInv, ShmInv
  <2>2. QED
    BY <1>1, <2>1, TypesAre, Zenon DEF IInv, chanVars, ChanSound, ChanTypeOK, QueueBounded, Fifo
<1>3. ProgTypes'
  BY <1>1, <1>2, SMTT(30) DEF ProgTypes, cliVars, SrvPc
<1>4. \A t \in Srv : /\ spc'[t] = IF t = s THEN "map" ELSE spc[t]
                     /\ sShm'[t] = IF t = s THEN nextShm ELSE sShm[t]
  BY <1>1, <1>2, Zenon DEF ProgTypes
<1>5. FileInv'
  <2>1. spc'[s] \in HasWritten => spc[s] \in HasWritten
    BY <1>1, <1>4 DEF HasWritten
  <2>2. QED
    BY <1>1, <1>4, <2>1, FileKept, Zenon
<1>6. ShmInv'
  <2>1. spc'[s] \notin HasFilled /\ \A t \in Srv : t # s => spc'[t] = spc[t] /\ sShm'[t] = sShm[t]
    BY <1>4, Zenon DEF HasFilled
  <2>2. nextShm' \in 1 .. (MaxShm + 1) /\ sShm'[s] \in 1 .. MaxShm
    BY <1>1, <1>2, <1>4, Bounds
  <2>3. ASSUME NEW t \in Srv
        PROVE  /\ spc'[t] \in HasShm => sShm'[t] \in 1 .. MaxShm
               /\ spc'[t] \in HasFilled => sShm'[t] \in pattern
    <3>1. CASE t = s
      BY <2>1, <2>2, <3>1, Zenon
    <3>2. CASE t # s
      BY <2>1, <3>2, Zenon DEF IInv, ShmInv
    <3>3. QED
      BY <3>1, <3>2, Zenon
  <2>4. pattern' = pattern
    BY <1>1, Zenon
  <2>5. QED
    BY <2>2, <2>3, <2>4, Zenon DEF ShmInv
<1>7. ChanInv' /\ ClientInv' /\ QueueInv' /\ TickInv' /\ PatternSeen'
  <2>1. spc[s] \in HasChan /\ spc[s] \notin HasSent /\ spc'[s] \in HasChan
    BY <1>1, <1>4 DEF HasChan, HasSent
  <2>2. QED
    BY <1>1, <1>4, <2>1, SetupKept, Zenon
<1>8. QED
  BY <1>2, <1>3, <1>5, <1>6, <1>7, TypesAreNext, Zenon DEF IInv

\* shm::map and the writing of the pattern.
LEMMA ShmMapInv == ASSUME IInv, NEW s \in Srv, SrvShmMap(s) PROVE IInv'
<1>1. /\ spc[s] = "map" /\ pattern' = pattern \cup {sShm[s]} /\ spc' = [spc EXCEPT ![s] = "init"]
      /\ UNCHANGED <<chanVars, sChan, sShm, counter, cliVars, nextShm, file, boots>>
  BY Zenon DEF SrvShmMap, SrvFill
<1>2. ChanSound' /\ ProgTypes
  BY <1>1, TypesAre, Zenon DEF IInv, chanVars, ChanSound, ChanTypeOK, QueueBounded, Fifo
<1>3. ProgTypes'
  BY <1>1, <1>2, Zenon DEF ProgTypes, cliVars, SrvPc
<1>4. \A t \in Srv : spc'[t] = IF t = s THEN "init" ELSE spc[t]
  BY <1>1, <1>2, Zenon DEF ProgTypes
<1>5. FileInv'
  <2>1. spc'[s] \in HasWritten => spc[s] \in HasWritten
    BY <1>1, <1>4 DEF HasWritten
  <2>2. QED
    BY <1>1, <1>4, <2>1, FileKept, Zenon
<1>6. ShmInv'
  BY <1>1, <1>4, Zenon DEF IInv, ShmInv, HasShm, HasFilled
<1>7. ChanInv' /\ ClientInv' /\ QueueInv' /\ TickInv' /\ PatternSeen'
  <2>1. spc[s] \in HasChan /\ spc[s] \notin HasSent /\ spc'[s] \in HasChan
    BY <1>1, <1>4 DEF HasChan, HasSent
  <2>2. QED
    BY <1>1, <1>4, <2>1, SetupKept, Zenon
<1>8. QED
  BY <1>2, <1>3, <1>5, <1>6, <1>7, TypesAreNext, Zenon DEF IInv

\* A call of the server fails.
LEMMA FailsInv == ASSUME IInv, NEW s \in Srv, SrvFails(s) PROVE IInv'
<1>1. /\ spc[s] \in {"write", "shm", "map"} /\ spc' = [spc EXCEPT ![s] = "stuck"]
      /\ UNCHANGED <<chanVars, sChan, sShm, counter, cliVars, shmVars, file, boots>>
  BY Zenon DEF SrvFails
<1>2. ChanSound' /\ ProgTypes
  BY <1>1, TypesAre, Zenon DEF IInv, chanVars, ChanSound, ChanTypeOK, QueueBounded, Fifo
<1>3. ProgTypes'
  BY <1>1, <1>2, Zenon DEF ProgTypes, cliVars, SrvPc
<1>4. \A t \in Srv : spc'[t] = IF t = s THEN "stuck" ELSE spc[t]
  BY <1>1, <1>2, Zenon DEF ProgTypes
<1>5. FileInv'
  <2>1. spc'[s] \in HasWritten => spc[s] \in HasWritten
    BY <1>1, <1>4 DEF HasWritten
  <2>2. QED
    BY <1>1, <1>4, <2>1, FileKept, Zenon
<1>6. ShmInv'
  <2>1. spc'[s] \notin HasShm /\ spc'[s] \notin HasFilled
    BY <1>4, Zenon DEF HasShm, HasFilled
  <2>2. QED
    BY <1>1, <1>4, <2>1, ShmKept, Zenon
<1>7. ChanInv' /\ ClientInv' /\ QueueInv' /\ TickInv' /\ PatternSeen'
  <2>1. spc[s] \in HasChan /\ spc[s] \notin HasSent /\ spc'[s] \in HasChan
    BY <1>1, <1>4 DEF HasChan, HasSent
  <2>2. QED
    BY <1>1, <1>4, <2>1, SetupKept, Zenon
<1>8. QED
  BY <1>2, <1>3, <1>5, <1>6, <1>7, TypesAreNext, Zenon DEF IInv

\* Only the queue of server s may have changed, to Q.
OnlyQueue(s, Q) == q' = q \/ q' = [q EXCEPT ![sChan[s]] = Q]

\* What a step does to the queue of s is nothing to the other servers.
LEMMA OthersServed ==
  ASSUME IInv, NEW s \in Srv, spc[s] \in HasChan, spc'[s] \in HasChan, NEW Q, OnlyQueue(s, Q),
         UNCHANGED <<sChan, sShm, cChan>>,
         \A t \in Srv : t # s => spc'[t] = spc[t] /\ counter'[t] = counter[t],
         \A u \in Srv : lastTick'[u] = lastTick[u] \/ cChan[u] = sChan[s],
         \A u \in Srv : Serves(q'[sChan[s]], spc'[s], sShm[s], counter'[s], LastSeen(s, u)')
  PROVE  QueueInv'
<1>1. \A c \in ChanId : c # sChan[s] => q'[c] = q[c]
  BY Zenon DEF OnlyQueue, IInv, ChanSound, ChanTypeOK
<1>2. ASSUME NEW t \in Srv, NEW u \in Srv, spc'[t] \in HasChan
      PROVE  Serves(q'[sChan'[t]], spc'[t], sShm'[t], counter'[t], LastSeen(t, u)')
  <2>1. CASE t = s
    BY <2>1, Zenon
  <2>2. CASE t # s
    <3>1. spc[t] \in HasChan /\ sChan[t] \in ChanId /\ sChan[t] # sChan[s]
      BY <1>2, <2>2, Zenon DEF IInv, ChanInv
    <3>2. q'[sChan[t]] = q[sChan[t]]
      BY <1>1, <3>1, Zenon
    <3>3. LastSeen(t, u)' = LastSeen(t, u)
      BY <3>1, Zenon DEF LastSeen
    <3>4. Serves(q[sChan[t]], spc[t], sShm[t], counter[t], LastSeen(t, u))
      BY <3>1, Zenon DEF IInv, QueueInv
    <3>5. QED
      BY <2>2, <3>2, <3>3, <3>4, Zenon
  <2>3. QED
    BY <2>1, <2>2, Zenon
<1>3. ASSUME NEW c \in ChanId, q'[c] # << >> PROVE Owned(c)'
  <2>1. CASE c = sChan[s]
    BY <2>1, Zenon DEF Owned
  <2>2. CASE c # sChan[s]
    <3>1. PICK t \in Srv : spc[t] \in HasChan /\ sChan[t] = c
      BY <1>1, <1>3, <2>2, Zenon DEF IInv, QueueInv, Owned
    <3>2. QED
      BY <2>2, <3>1, Zenon DEF Owned
  <2>3. QED
    BY <2>1, <2>2, Zenon
<1>4. QED
  BY <1>2, <1>3, Zenon DEF QueueInv

\* chan::send of a message to the server's own channel: it is at the end of the
\* queue, or the queue was full.
LEMMA SendIs ==
  ASSUME IInv, NEW s \in Srv, spc[s] \in HasChan, NEW kind, NEW a, [kind |-> kind, a |-> a] \in Msg,
         SendMsg(s, kind, a)
  PROVE  /\ ChanSound' /\ nextChanId' = nextChanId
         /\ \/ q' = q
            \/ q' = [q EXCEPT ![sChan[s]] =
                       Append(q[sChan[s]], [len |-> MSG_SIZE, data |-> [kind |-> kind, a |-> a]])]
<1> DEFINE d == [kind |-> kind, a |-> a]
<1>1. d \in Data
  BY IpcAssumption, Zenon
<1>2. sChan[s] \in 0 .. MaxChan /\ MSG_SIZE \in Lens
  BY Bounds, Zenon DEF IInv, IpcTypeOK
<1>3. SysChanSend(sChan[s], FALSE, TRUE, MSG_SIZE, d)
  BY Zenon DEF SendMsg
<1> HIDE DEF d
<1>4. ChanSound'
  BY <1>1, <1>2, <1>3, SendStep, Zenon DEF IInv
<1>5. nextChanId' = nextChanId
  BY <1>3, Zenon DEF SysChanSend
<1>6. q' = q \/ q' = [q EXCEPT ![sChan[s]] = Append(q[sChan[s]], [len |-> MSG_SIZE, data |-> d])]
  BY <1>3, Zenon DEF SysChanSend
<1>7. QED
  BY <1>4, <1>5, <1>6, Zenon DEF d

\* INIT is the first message, and names filled memory.
LEMMA SendInitInv == ASSUME IInv, NEW s \in Srv, SrvSendInit(s) PROVE IInv'
<1>1. /\ spc[s] = "init" /\ SendMsg(s, "INIT", sShm[s]) /\ spc' = [spc EXCEPT ![s] = "spawn"]
      /\ UNCHANGED <<sChan, sShm, counter, cliVars, shmVars, file, boots>>
  BY Zenon DEF SrvSendInit
<1> DEFINE d == [kind |-> "INIT", a |-> sShm[s]]
<1> DEFINE m == [len |-> MSG_SIZE, data |-> d]
<1> DEFINE Q == Append(q[sChan[s]], m)
<1>2. sShm[s] \in 1 .. MaxShm /\ spc[s] \in HasChan /\ spc[s] \notin HasSent
  BY <1>1, Zenon DEF IInv, ShmInv, HasShm, HasChan, HasSent
<1>3. d \in Msg
  BY <1>2, Zenon DEF Msg
<1>4. ChanSound' /\ nextChanId' = nextChanId /\ OnlyQueue(s, Q)
  BY <1>1, <1>2, <1>3, SendIs, Zenon DEF OnlyQueue
<1>5. ProgTypes
  BY TypesAre, Zenon DEF IInv
<1>6. ProgTypes'
  BY <1>1, <1>5, Zenon DEF ProgTypes, cliVars, SrvPc
<1>7. \A t \in Srv : spc'[t] = IF t = s THEN "spawn" ELSE spc[t]
  BY <1>1, <1>5, Zenon DEF ProgTypes
<1>8. ChanInv' /\ FileInv' /\ ShmInv'
  <2>1. spc[s] \in HasWritten /\ spc[s] \in HasShm /\ spc[s] \in HasFilled
    BY <1>1, Zenon DEF HasWritten, HasShm, HasFilled
  <2>2. \A t \in Srv : t # s => spc'[t] = spc[t]
    BY <1>7, Zenon
  <2>3. QED
    BY <1>1, <1>2, <1>4, <2>1, <2>2, ChanKept, FileKept, ShmKept, Zenon
<1>9. ClientInv' /\ TickInv' /\ PatternSeen'
  <2>1. UNCHANGED <<cpc, cChan, lastTick>> /\ \A t \in Srv : spc'[t] \in HasChan => spc[t] \in HasChan
    BY <1>1, <1>2, <1>7, Zenon DEF cliVars
  <2>2. QED
    BY <1>1, <1>2, <1>4, <1>7, <2>1, ClientsKept, TickKept, Zenon
<1>10. QueueInv'
  <2>1. m \in Message /\ m.data = d
    BY <1>3, IpcAssumption, Bounds, Zenon DEF Message
  <2>2. ASSUME NEW u \in Srv
        PROVE  Serves(q'[sChan[s]], spc'[s], sShm[s], counter'[s], LastSeen(s, u)')
    <3> DEFINE last == LastSeen(s, u)
    <3>1. /\ sChan[s] \in ChanId /\ q[sChan[s]] \in Queued
          /\ Serves(q[sChan[s]], spc[s], sShm[s], counter[s], last)
      BY <1>2, QueueOf, Zenon
    <3>2. LastSeen(s, u)' = last
      BY <1>1, Zenon DEF LastSeen, cliVars
    <3> HIDE DEF last
    <3>3. q[sChan[s]] = << >> /\ Serves(q[sChan[s]], "spawn", sShm[s], counter[s], last)
      BY <1>2, <3>1, ServesNone, Zenon
    <3>4. Own(m.data, "spawn", sShm[s], counter[s], last)
      BY <1>2, <2>1, Zenon DEF Own, HasSent
    <3>5. \A i \in 1 .. Len(q[sChan[s]]) :
            q[sChan[s]][i].data.kind = "TICK" /\ m.data.kind = "TICK" => q[sChan[s]][i].data.a < m.data.a
      BY <2>1, Zenon
    <3> HIDE DEF m
    <3>6. Serves(Q, "spawn", sShm[s], counter[s], last)
      BY <2>1, <3>1, <3>3, <3>4, <3>5, ServesMore, Zenon
    <3>7. q'[sChan[s]] = q[sChan[s]] \/ q'[sChan[s]] = Q
      BY <1>4, <3>1, Zenon DEF OnlyQueue, IInv, ChanSound, ChanTypeOK
    <3> HIDE DEF Q
    <3>8. QED
      BY <1>1, <1>7, <3>2, <3>3, <3>6, <3>7, Zenon
  <2>3. UNCHANGED <<cChan, lastTick>> /\ spc'[s] \in HasChan
    BY <1>1, <1>7, Zenon DEF cliVars, HasChan
  <2> HIDE DEF Q
  <2>4. QED
    BY <1>1, <1>2, <1>4, <1>7, <2>2, <2>3, OthersServed, Zenon
<1>11. QED
  BY <1>4, <1>6, <1>8, <1>9, <1>10, TypesAreNext, Zenon DEF IInv

\* proc::spawn starts the client or fails.
LEMMA SpawnInv == ASSUME IInv, NEW s \in Srv, SrvSpawn(s) PROVE IInv'
<1>1. /\ spc[s] = "spawn" /\ spc' = [spc EXCEPT ![s] = "loop"]
      /\ cpc' = [cpc EXCEPT ![s] = "open"] \/ cpc' = cpc
      /\ UNCHANGED <<chanVars, sChan, sShm, counter, cChan, cShm, seenOk, lastTick,
                     shmVars, file, boots>>
  BY Zenon DEF SrvSpawn
<1>2. ChanSound' /\ ProgTypes
  BY <1>1, TypesAre, Zenon DEF IInv, chanVars, ChanSound, ChanTypeOK, QueueBounded, Fifo
<1>3. ProgTypes'
  BY <1>1, <1>2, Zenon DEF ProgTypes, SrvPc, CliPc
<1>4. \A t \in Srv : /\ spc'[t] = IF t = s THEN "loop" ELSE spc[t]
                     /\ cpc'[t] = cpc[t] \/ (t = s /\ cpc'[t] = "open")
  BY <1>1, <1>2, Zenon DEF ProgTypes
<1>5. ChanInv' /\ FileInv'
  <2>1. spc[s] \in HasChan /\ (spc'[s] \in HasWritten => spc[s] \in HasWritten)
    BY <1>1, <1>4, Zenon DEF HasChan, HasWritten
  <2>2. QED
    BY <1>1, <1>4, <2>1, ChanKept, FileKept, Zenon DEF chanVars
<1>6. ShmInv' /\ TickInv' /\ PatternSeen'
  <2>1. spc[s] \in HasShm /\ spc[s] \in HasFilled
    BY <1>1, Zenon DEF HasShm, HasFilled
  <2>2. ShmInv'
    BY <1>1, <1>4, <2>1, ShmKept, Zenon
  <2>3. \A t \in Srv : spc'[t] \in HasChan => spc[t] \in HasChan
    BY <1>1, <1>4, Zenon DEF HasChan
  <2>4. \A u \in Srv : lastTick[u] > 0 => cpc'[u] = cpc[u]
    <3>1. lastTick[s] > 0 => spc[s] = "loop"
      BY Zenon DEF IInv, TickInv, ClientInv
    <3>2. QED
      BY <1>1, <1>4, <3>1, Zenon
  <2>5. TickInv'
    BY <1>1, <2>3, <2>4, TickKept, Zenon DEF chanVars
  <2>6. QED
    BY <1>1, <2>2, <2>5, Zenon DEF IInv, PatternSeen
<1>7. ClientInv'
  <2>1. \A u \in Srv : Astray(u) => Astray(u)'
    BY <1>1, Zenon DEF Astray
  <2>2. \A u, t \in Srv : Served(u, t) => Served(u, t)'
    BY <1>1, <1>4, <2>1, Zenon DEF Served, HasSent
  <2>3. QED
    BY <1>1, <1>4, <2>1, <2>2, Zenon DEF IInv, ClientInv
<1>8. QueueInv'
  <2>1. spc[s] \in HasChan /\ spc'[s] \in HasChan
    BY <1>1, <1>4, Zenon DEF HasChan
  <2>2. ASSUME NEW u \in Srv
        PROVE  Serves(q'[sChan[s]], spc'[s], sShm[s], counter'[s], LastSeen(s, u)')
    <3>1. /\ Serves(q[sChan[s]], spc[s], sShm[s], counter[s], LastSeen(s, u))
          /\ counter[s] \in Nat /\ LastSeen(s, u) \in Nat
      BY <2>1, QueueOf, Zenon
    <3>2. Serves(q[sChan[s]], "loop", sShm[s], counter[s], LastSeen(s, u))
      BY <3>1, ServesOn DEF HasSent
    <3>3. LastSeen(s, u)' = LastSeen(s, u)
      BY <1>1, Zenon DEF LastSeen
    <3>4. QED
      BY <1>1, <1>4, <3>2, <3>3, Zenon DEF chanVars
  <2>3. OnlyQueue(s, q[sChan[s]])
    BY <1>1, Zenon DEF OnlyQueue, chanVars
  <2>4. QED
    BY <1>1, <1>4, <2>1, <2>2, <2>3, OthersServed, ZenonT(30) DEF chanVars
<1>9. QED
  BY <1>2, <1>3, <1>5, <1>6, <1>7, <1>8, TypesAreNext, Zenon DEF IInv

\* A tick carries a higher count than all that were sent before.
LEMMA TickStepInv == ASSUME IInv, NEW s \in Srv, SrvTick(s) PROVE IInv'
<1> DEFINE n == counter[s] + 1
<1>1. /\ spc[s] = "loop" /\ counter[s] < MaxTick /\ counter' = [counter EXCEPT ![s] = n]
      /\ SendMsg(s, "TICK", counter'[s])
      /\ UNCHANGED <<spc, sChan, sShm, cliVars, shmVars, file, boots>>
  BY Zenon DEF SrvTick, NextCount
<1>2. ProgTypes /\ counter[s] \in 0 .. MaxTick
  <2>1. ProgTypes
    BY TypesAre, Zenon DEF IInv
  <2>2. QED
    BY <2>1, Zenon DEF ProgTypes
<1>3. n \in 1 .. MaxTick /\ n \in Nat /\ counter[s] \in Nat /\ counter[s] < n
  BY <1>1, <1>2, Bounds
<1>4. \A t \in Srv : counter'[t] = IF t = s THEN n ELSE counter[t]
  BY <1>1, <1>2, Zenon DEF ProgTypes
<1> HIDE DEF n
<1> DEFINE d == [kind |-> "TICK", a |-> n]
<1> DEFINE m == [len |-> MSG_SIZE, data |-> d]
<1> DEFINE Q == Append(q[sChan[s]], m)
<1>5. d \in Msg /\ spc[s] \in HasChan /\ SendMsg(s, "TICK", n)
  BY <1>1, <1>3, <1>4, Zenon DEF Msg, HasChan
<1>6. ChanSound' /\ nextChanId' = nextChanId /\ OnlyQueue(s, Q)
  BY <1>5, SendIs, Zenon DEF OnlyQueue
<1>7. ProgTypes'
  <2>1. n \in 0 .. MaxTick
    BY <1>3
  <2>2. counter' \in [Srv -> 0 .. MaxTick]
    BY <1>1, <1>2, <2>1, Zenon DEF ProgTypes
  <2>3. QED
    BY <1>1, <1>2, <2>2, Zenon DEF ProgTypes, cliVars
<1>8. ChanInv' /\ FileInv' /\ ShmInv' /\ ClientInv' /\ PatternSeen'
  <2>1. ClientInv'
    BY <1>1, ClientsStay, Zenon DEF cliVars
  <2>2. QED
    BY <1>1, <1>6, <2>1, Zenon DEF IInv, ChanInv, FileInv, ShmInv, PatternSeen, shmVars, cliVars
<1>9. \A u \in Srv : /\ LastSeen(s, u) \in Nat /\ LastSeen(s, u) < n
                     /\ \A t \in Srv : LastSeen(t, u)' = LastSeen(t, u)
  <2>1. \A u \in Srv : LastSeen(s, u) \in Nat /\ LastSeen(s, u) <= counter[s]
    BY <1>5, QueueOf, Zenon
  <2>2. \A u \in Srv : LastSeen(s, u) < n
    BY <1>3, <2>1
  <2>3. QED
    BY <1>1, <2>1, <2>2, Zenon DEF LastSeen, cliVars
<1>10. TickInv'
  <2>1. UNCHANGED <<cpc, cChan, lastTick>>
    BY <1>1, Zenon DEF cliVars
  <2>2. n > 0 /\ \A u \in Srv : LastSeen(s, u) <= n
    BY <1>3, <1>9
  <2>3. QED
    BY <1>1, <1>4, <1>6, <1>9, <2>1, <2>2, Zenon DEF IInv, TickInv
<1>11. QueueInv'
  <2>1. m \in Message /\ m.data = d /\ d.kind = "TICK" /\ d.a = n
    BY <1>5, IpcAssumption, Bounds, Zenon DEF Message
  <2>2. ASSUME NEW u \in Srv
        PROVE  Serves(q'[sChan[s]], spc'[s], sShm[s], counter'[s], LastSeen(s, u)')
    <3> DEFINE last == LastSeen(s, u)
    <3>1. /\ sChan[s] \in ChanId /\ q[sChan[s]] \in Queued
          /\ Serves(q[sChan[s]], "loop", sShm[s], counter[s], last)
      BY <1>1, <1>5, QueueOf, Zenon
    <3>2. last \in Nat /\ last < n /\ LastSeen(s, u)' = last
      BY <1>9, Zenon
    <3> HIDE DEF last
    <3>3. Serves(q[sChan[s]], "loop", sShm[s], n, last)
      <4>1. "loop" \in HasSent /\ counter[s] <= n
        BY <1>3 DEF HasSent
      <4>2. QED
        BY <1>3, <3>1, <3>2, <4>1, ServesOn, Zenon
    <3>4. Own(m.data, "loop", sShm[s], n, last)
      BY <1>3, <2>1, <3>2, SMTT(30) DEF Own
    <3>5. ASSUME NEW i \in 1 .. Len(q[sChan[s]]), q[sChan[s]][i].data.kind = "TICK"
          PROVE  q[sChan[s]][i].data.a < m.data.a
      <4>1. Own(q[sChan[s]][i].data, "loop", sShm[s], counter[s], last)
        BY <3>1, Zenon DEF Serves
      <4>2. q[sChan[s]][i].data.a \in 1 .. MaxTick /\ q[sChan[s]][i].data.a <= counter[s]
        BY <3>5, <4>1, Zenon DEF Own
      <4>3. QED
        BY <1>3, <2>1, <4>2, Bounds, SMTT(30)
    <3> HIDE DEF m
    <3>6. Serves(Q, "loop", sShm[s], n, last)
      BY <2>1, <3>1, <3>3, <3>4, <3>5, ServesMore, ZenonT(30)
    <3>7. q'[sChan[s]] = q[sChan[s]] \/ q'[sChan[s]] = Q
      BY <1>6, <3>1, Zenon DEF OnlyQueue, IInv, ChanSound, ChanTypeOK
    <3> HIDE DEF Q
    <3>8. QED
      BY <1>1, <1>4, <3>2, <3>3, <3>6, <3>7, Zenon
  <2> HIDE DEF Q
  <2>3. UNCHANGED <<cChan, lastTick>> /\ spc'[s] \in HasChan
    BY <1>1, <1>5, Zenon DEF cliVars
  <2>4. QED
    BY <1>1, <1>4, <1>5, <1>6, <2>2, <2>3, OthersServed, ZenonT(30)
<1>12. QED
  BY <1>6, <1>7, <1>8, <1>10, <1>11, TypesAreNext, Zenon DEF IInv

-----------------------------------------------------------------------------
(* The steps of ipc_cli.                                                   *)

\* vfs::read and parse_u64_ascii.
LEMMA OpenInv == ASSUME IInv, NEW s \in Srv, CliOpen(s) PROVE IInv'
<1>1. /\ cpc[s] = "open"
      /\ UNCHANGED <<chanVars, srvVars, cShm, seenOk, lastTick, shmVars, file, boots>>
      /\ \/ cpc' = [cpc EXCEPT ![s] = "init"] /\ cChan' = [cChan EXCEPT ![s] = Parse(file)]
         \/ cpc' = [cpc EXCEPT ![s] = "stuck"] /\ cChan' = cChan
  BY Zenon DEF CliOpen
<1>2. ChanSound' /\ ProgTypes
  BY <1>1, TypesAre, Zenon DEF IInv, chanVars, ChanSound, ChanTypeOK, QueueBounded, Fifo
<1>3. /\ Parse(file) \in Nat /\ (Len(file) = 1 => Parse(file) = file[1])
      /\ (Len(file) > 1 => Parse(file) > 10)
  BY ParseIs, Zenon DEF IInv, FileInv
<1>4. ProgTypes'
  <2>1. cChan' \in [Srv -> Nat]
    <3>1. cChan' = cChan \/ cChan' = [cChan EXCEPT ![s] = Parse(file)]
      BY <1>1, Zenon
    <3>2. Parse(file) \in Nat /\ cChan \in [Srv -> Nat]
      BY <1>2, <1>3, Zenon DEF ProgTypes
    <3>3. QED
      BY <3>1, <3>2, Zenon
  <2>2. cpc' \in [Srv -> CliPc]
    <3>1. cpc' = [cpc EXCEPT ![s] = "init"] \/ cpc' = [cpc EXCEPT ![s] = "stuck"]
      BY <1>1, Zenon
    <3>2. QED
      BY <1>2, <3>1, Zenon DEF ProgTypes, CliPc
  <2>3. QED
    BY <1>1, <1>2, <2>1, <2>2, Zenon DEF ProgTypes, srvVars
<1>5. Parse(file) = sChan[s] \/ (Len(file) > 1 /\ Parse(file) > 10)
  <2>1. Len(file) > 0 /\ (Len(file) = 1 => file[1] = sChan[s])
    <3>1. spc[s] \in HasWritten
      BY <1>1, Zenon DEF IInv, ClientInv, HasWritten
    <3>2. QED
      BY <3>1, Zenon DEF IInv, FileInv
  <2>2. Len(file) = 1 \/ Len(file) > 1
    <3>1. Len(file) \in Nat
      BY <1>2, LenIs, Zenon DEF ProgTypes
    <3>2. PICK n \in Nat : n = Len(file)
      BY <3>1, Zenon
    <3>3. n = 1 \/ n > 1
      BY <2>1, <3>2
    <3>4. QED
      BY <3>2, <3>3, Zenon
  <2>3. QED
    BY <1>3, <2>1, <2>2, Zenon
<1>6. \A t \in Srv : /\ t # s => cpc'[t] = cpc[t] /\ cChan'[t] = cChan[t]
                     /\ t = s => \/ cpc'[t] = "init" /\ cChan'[t] = Parse(file)
                                 \/ cpc'[t] = "stuck"
  BY <1>1, <1>2, Zenon DEF ProgTypes
<1>7. ClientInv'
  <2>1. UNCHANGED <<spc, sChan, sShm, cShm, file>>
    BY <1>1, Zenon DEF srvVars
  <2>2. ASSUME NEW u \in Srv
        PROVE  /\ cpc'[u] # "off" => spc'[u] = "loop"
               /\ cpc'[u] = "init" => cChan'[u] = sChan'[u] \/ Astray(u)'
               /\ cpc'[u] \in {"map", "loop"} => \E t \in Srv : Served(u, t)'
    <3>1. CASE u = s
      <4>1. spc[s] = "loop"
        BY <1>1, Zenon DEF IInv, ClientInv
      <4>2. QED
        BY <1>5, <1>6, <2>1, <3>1, <4>1, Zenon DEF Astray
    <3>2. CASE u # s
      <4>1. Astray(u) => Astray(u)'
        BY <1>6, <2>1, <3>2, Zenon DEF Astray
      <4>2. \A t \in Srv : Served(u, t) => Served(u, t)'
        BY <1>6, <2>1, <3>2, <4>1, Zenon DEF Served
      <4>3. QED
        BY <1>6, <2>1, <3>2, <4>1, <4>2, Zenon DEF IInv, ClientInv
    <3>3. QED
      BY <3>1, <3>2, Zenon
  <2>3. QED
    BY <2>2, Zenon DEF ClientInv
<1>8. lastTick[s] = 0 /\ lastTick' = lastTick
  <2>1. lastTick[s] \in Nat
    BY <1>2, Bounds DEF ProgTypes
  <2>2. ~(lastTick[s] > 0)
    BY <1>1, Zenon DEF IInv, TickInv
  <2>3. lastTick[s] = 0
    BY <2>1, <2>2
  <2>4. QED
    BY <1>1, <2>3, Zenon
<1>9. \A t, u \in Srv : LastSeen(t, u)' = LastSeen(t, u)
  <2>1. sChan' = sChan
    BY <1>1, Zenon DEF srvVars
  <2>2. QED
    BY <1>6, <1>8, <2>1, Zenon DEF LastSeen
<1>10. QueueInv' /\ TickInv'
  <2>1. UNCHANGED <<q, nextChanId, spc, sChan, sShm, counter>>
    BY <1>1, Zenon DEF chanVars, srvVars
  <2>2. ~(0 > 0)
    OBVIOUS
  <2>3. TickInv'
    BY <1>6, <1>8, <1>9, <2>1, <2>2, Zenon DEF IInv, TickInv
  <2>4. QED
    BY <1>9, <2>1, <2>3, QueueStays, Zenon
<1>11. ChanInv' /\ FileInv' /\ ShmInv' /\ PatternSeen'
  BY <1>1, Zenon DEF IInv, ChanInv, FileInv, ShmInv, PatternSeen, chanVars, srvVars, shmVars
<1>12. QED
  BY <1>2, <1>4, <1>7, <1>10, <1>11, TypesAreNext, Zenon DEF IInv

\* chan::recv returned no message, or the front one of the client's channel.
Refused(s) == RecvResult(s) # "ok" /\ q' = q

Took(s) ==
  /\ RecvResult(s) = "ok" /\ cChan[s] \in ChanId /\ q[cChan[s]] # << >>
  /\ q' = [q EXCEPT ![cChan[s]] = Tail(q[cChan[s]])]

LEMMA RecvIs ==
  ASSUME IInv, NEW s \in Srv, Recv(s)
  PROVE  ChanSound' /\ nextChanId' = nextChanId /\ (Refused(s) \/ Took(s))
<1>1. SysChanRecv(cChan[s], FALSE, TRUE, BUF_SIZE)
  BY Zenon DEF Recv
<1>2. cChan[s] \in Nat /\ nextChanId \in 1 .. (MaxChan + 1)
  BY Zenon DEF IInv, IpcTypeOK, ChanSound, ChanTypeOK
<1>3. CASE cChan[s] <= MaxChan
  <2>1. ChanSound'
    <3>1. cChan[s] \in 0 .. MaxChan /\ BUF_SIZE \in Lens
      BY <1>2, <1>3, Bounds
    <3>2. QED
      BY <1>1, <3>1, RecvStep, Zenon DEF IInv
  <2>2. nextChanId' = nextChanId
    BY <1>1, Zenon DEF SysChanRecv
  <2>3. CASE RecvRet(cChan[s], FALSE, BUF_SIZE) # "ok"
    BY <1>1, <2>1, <2>2, <2>3, Zenon DEF SysChanRecv, Refused, RecvResult
  <2>4. CASE RecvRet(cChan[s], FALSE, BUF_SIZE) = "ok"
    <3>1. q[cChan[s]] # << >> /\ cChan[s] # 0
      BY <2>4, Zenon DEF RecvRet
    <3>2. q' = [q EXCEPT ![cChan[s]] = Tail(q[cChan[s]])]
      BY <1>1, <2>4, Zenon DEF SysChanRecv, Rest
    <3>3. cChan[s] \in ChanId
      BY <1>2, <1>3, <3>1, Bounds DEF ChanId
    <3>4. Took(s)
      BY <2>4, <3>1, <3>2, <3>3, Zenon DEF Took, RecvResult
    <3>5. QED
      BY <2>1, <2>2, <3>4, Zenon
  <2>5. QED
    BY <2>3, <2>4, Zenon
<1>4. CASE ~(cChan[s] <= MaxChan)
  <2>1. cChan[s] # 0 /\ BUF_SIZE # 0 /\ cChan[s] >= nextChanId
    BY <1>2, <1>4, Bounds
  <2>2. RecvRet(cChan[s], FALSE, BUF_SIZE) = "ESRCH"
    BY <2>1, Zenon DEF RecvRet
  <2>3. ret' = "ESRCH" /\ UNCHANGED <<q, popped, nextChanId, sent>>
    BY <1>1, <2>2, Zenon DEF SysChanRecv
  <2>4. ChanSound'
    BY <2>3, Zenon DEF IInv, ChanSound, ChanTypeOK, QueueBounded, Fifo, Ret
  <2>5. Refused(s)
    BY <2>2, <2>3, Zenon DEF Refused, RecvResult
  <2>6. QED
    BY <2>3, <2>4, <2>5, Zenon
<1>5. QED
  BY <1>3, <1>4, Zenon

\* The message that was taken is that of the server t whose channel it is, and so
\* is what remains.
TakenFrom(s, t) ==
  /\ spc[t] \in HasChan /\ sChan[t] = cChan[s] /\ cChan[s] < nextChanId
  /\ Own(Received(s), spc[t], sShm[t], counter[t], lastTick[s])
  /\ \A u \in Srv : Serves(q'[sChan[t]], spc[t], sShm[t], counter[t], LastSeen(t, u))
  /\ Received(s).kind = "TICK" =>
       Serves(q'[sChan[t]], spc[t], sShm[t], counter[t], Received(s).a)

LEMMA TookIs ==
  ASSUME IInv, NEW s \in Srv, Took(s)
  PROVE  \E t \in Srv : TakenFrom(s, t) /\ OnlyQueue(t, Tail(q[sChan[t]]))
<1>1. PICK t \in Srv : spc[t] \in HasChan /\ sChan[t] = cChan[s]
  BY Zenon DEF IInv, QueueInv, Took, Owned
<1>2. sChan[t] \in ChanId /\ sChan[t] < nextChanId /\ q[sChan[t]] \in Queued
  BY <1>1, QueueOf, Zenon
<1>3. \A u \in Srv : /\ LastSeen(t, u) \in Nat
                     /\ Serves(q[sChan[t]], spc[t], sShm[t], counter[t], LastSeen(t, u))
  BY <1>1, QueueOf, Zenon
<1>4. q[sChan[t]] # << >> /\ q'[sChan[t]] = Tail(q[sChan[t]])
  BY <1>1, <1>2, Zenon DEF Took, IInv, ChanSound, ChanTypeOK
<1>5. Received(s) = Head(q[sChan[t]]).data /\ LastSeen(t, s) = lastTick[s]
  BY <1>1, Zenon DEF Received, LastSeen
<1>6. \A u \in Srv : Serves(q'[sChan[t]], spc[t], sShm[t], counter[t], LastSeen(t, u))
  BY <1>2, <1>3, <1>4, ServesRest, ZenonT(30)
<1>7. /\ Own(Received(s), spc[t], sShm[t], counter[t], lastTick[s])
      /\ Received(s).kind = "TICK" =>
           Serves(q'[sChan[t]], spc[t], sShm[t], counter[t], Received(s).a)
  BY <1>2, <1>3, <1>4, <1>5, ServesRest, ZenonT(30)
<1>8. OnlyQueue(t, Tail(q[sChan[t]]))
  BY <1>1, Zenon DEF OnlyQueue, Took
<1>9. QED
  BY <1>1, <1>2, <1>6, <1>7, <1>8, Zenon DEF TakenFrom

\* Waiting for INIT.
LEMMA WaitInitInv == ASSUME IInv, NEW s \in Srv, CliWaitInit(s) PROVE IInv'
<1> DEFINE got == RecvResult(s) = "ok" /\ TakesAsInit(Received(s))
<1>1. /\ cpc[s] = "init" /\ Recv(s)
      /\ cShm' = IF got THEN [cShm EXCEPT ![s] = Received(s).a] ELSE cShm
      /\ cpc' = [cpc EXCEPT ![s] = IF got THEN "map" ELSE IF Failed(s) THEN "lost" ELSE cpc[s]]
      /\ UNCHANGED <<srvVars, cChan, seenOk, lastTick, shmVars, file, boots>>
  BY Zenon DEF CliWaitInit
<1>2. ChanSound' /\ nextChanId' = nextChanId /\ (Refused(s) \/ Took(s))
  BY <1>1, RecvIs, Zenon
<1>3. spc[s] = "loop" /\ spc[s] \in HasChan
  BY <1>1, Zenon DEF IInv, ClientInv, HasChan
<1>4. ASSUME got
      PROVE  \E t \in Srv : /\ spc[t] \in HasSent /\ cChan[s] = sChan[t]
                            /\ Received(s).a = sShm[t] /\ (t = s \/ Astray(s))
  <2>1. Took(s)
    BY <1>2, <1>4, Zenon DEF Refused
  <2>2. PICK t \in Srv : TakenFrom(s, t)
    BY <2>1, TookIs, Zenon
  <2>3. spc[t] \in HasSent /\ Received(s).a = sShm[t]
    BY <1>4, <2>2 DEF TakenFrom, Own, TakesAsInit
  <2>4. cChan[s] = sChan[s] => t = s
    BY <1>3, <2>2, Zenon DEF TakenFrom, IInv, ChanInv
  <2>5. cChan[s] = sChan[s] \/ Astray(s)
    BY <1>1, Zenon DEF IInv, ClientInv
  <2>6. QED
    BY <2>2, <2>3, <2>4, <2>5, Zenon DEF TakenFrom
<1>5. ProgTypes
  BY TypesAre, Zenon DEF IInv
<1>6. /\ \A t \in Srv : t # s => cpc'[t] = cpc[t] /\ cShm'[t] = cShm[t]
      /\ got => cpc'[s] = "map" /\ cShm'[s] = Received(s).a
      /\ ~got => cpc'[s] \in {"lost", "init"}
  BY <1>1, <1>5, Zenon DEF ProgTypes
<1>7. ProgTypes'
  <2>1. got => Received(s).a \in Nat
    BY <1>4, <1>5, Zenon DEF ProgTypes
  <2>2. cShm' \in [Srv -> Nat]
    BY <1>1, <1>5, <2>1, Zenon DEF ProgTypes
  <2>3. cpc' \in [Srv -> CliPc]
    BY <1>1, <1>5, Zenon DEF ProgTypes, CliPc
  <2>4. QED
    BY <1>1, <1>5, <2>2, <2>3, Zenon DEF ProgTypes, srvVars
<1> HIDE DEF got
<1>8. UNCHANGED <<spc, sChan, sShm, counter, cChan, lastTick, file>>
  BY <1>1, Zenon DEF srvVars
<1>9. ClientInv'
  <2>1. \A u \in Srv : Astray(u) => Astray(u)'
    BY <1>8, Zenon DEF Astray
  <2>2. ASSUME NEW u \in Srv
        PROVE  /\ cpc'[u] # "off" => spc'[u] = "loop"
               /\ cpc'[u] = "init" => cChan'[u] = sChan'[u] \/ Astray(u)'
               /\ cpc'[u] \in {"map", "loop"} => \E t \in Srv : Served(u, t)'
    <3>1. CASE u # s
      <4>1. \A t \in Srv : Served(u, t) => Served(u, t)'
        BY <1>6, <1>8, <2>1, <3>1, Zenon DEF Served
      <4>2. QED
        BY <1>6, <1>8, <2>1, <3>1, <4>1, Zenon DEF IInv, ClientInv
    <3>2. CASE u = s
      <4>1. CASE got
        <5>1. \E t \in Srv : Served(s, t)'
          BY <1>4, <1>6, <1>8, <2>1, <4>1, Zenon DEF Served
        <5>2. QED
          BY <1>3, <1>6, <1>8, <3>2, <4>1, <5>1, Zenon
      <4>2. CASE ~got
        BY <1>1, <1>3, <1>6, <1>8, <2>1, <3>2, <4>2, Zenon DEF IInv, ClientInv
      <4>3. QED
        BY <4>1, <4>2, Zenon
    <3>3. QED
      BY <3>1, <3>2, Zenon
  <2>3. QED
    BY <2>2, Zenon DEF ClientInv
<1>10. ChanInv' /\ FileInv' /\ ShmInv' /\ PatternSeen'
  BY <1>1, <1>2, ZenonT(30) DEF IInv, ChanInv, FileInv, ShmInv, PatternSeen, srvVars, shmVars
<1>11. TickInv'
  <2>1. \A u \in Srv : lastTick[u] > 0 => cpc'[u] = cpc[u]
    BY <1>1, <1>6, Zenon DEF IInv, TickInv
  <2>2. QED
    BY <1>2, <1>8, <2>1, TickKept, Zenon
<1>12. QueueInv'
  <2>1. \A t, u \in Srv : LastSeen(t, u)' = LastSeen(t, u)
    BY <1>8, Zenon DEF LastSeen
  <2>2. CASE Refused(s)
    BY <1>8, <2>1, <2>2, QueueStays, Zenon DEF Refused
  <2>3. CASE Took(s)
    <3>1. PICK t \in Srv : TakenFrom(s, t) /\ OnlyQueue(t, Tail(q[sChan[t]]))
      BY <2>3, TookIs, Zenon
    <3>2. spc[t] \in HasChan /\ \A u \in Srv : Serves(q'[sChan[t]], spc'[t], sShm[t], counter'[t], LastSeen(t, u)')
      BY <1>8, <2>1, <3>1, Zenon DEF TakenFrom
    <3>3. QED
      BY <1>8, <3>1, <3>2, OthersServed, Zenon
  <2>4. QED
    BY <1>2, <2>2, <2>3, Zenon
<1>13. QED
  BY <1>2, <1>7, <1>9, <1>10, <1>11, <1>12, TypesAreNext, Zenon DEF IInv

\* shm::map and the check of the pattern.
LEMMA CliMapInv == ASSUME IInv, NEW s \in Srv, CliShmMap(s) PROVE IInv'
<1>1. /\ cpc[s] = "map"
      /\ \/ /\ seenOk' = [seenOk EXCEPT ![s] = cShm[s] \in pattern]
            /\ cpc' = [cpc EXCEPT ![s] = "loop"]
         \/ cpc' = [cpc EXCEPT ![s] = "stuck"] /\ seenOk' = seenOk
      /\ UNCHANGED <<chanVars, srvVars, cChan, cShm, lastTick, shmVars, file, boots>>
  BY Zenon DEF CliShmMap
<1>2. ChanSound' /\ ProgTypes
  BY <1>1, TypesAre, Zenon DEF IInv, chanVars, ChanSound, ChanTypeOK, QueueBounded, Fifo
<1>3. cShm[s] \in pattern
  <2>1. PICK t \in Srv : Served(s, t)
    BY <1>1, Zenon DEF IInv, ClientInv
  <2>2. QED
    BY <2>1, Zenon DEF IInv, ShmInv, Served, HasSent, HasFilled
<1>4. PatternSeen'
  <2>1. seenOk' = seenOk \/ seenOk' = [seenOk EXCEPT ![s] = TRUE]
    BY <1>1, <1>3, Zenon
  <2>2. QED
    BY <1>2, <2>1, Zenon DEF IInv, PatternSeen, ProgTypes
<1>5. ProgTypes'
  <2>1. seenOk' = seenOk \/ seenOk' = [seenOk EXCEPT ![s] = TRUE]
    BY <1>1, <1>3, Zenon
  <2>2. cpc' \in [Srv -> CliPc]
    BY <1>1, <1>2, ZenonT(30) DEF ProgTypes, CliPc
  <2>3. QED
    BY <1>1, <1>2, <2>1, <2>2, Zenon DEF ProgTypes, srvVars
<1>6. \A t \in Srv : /\ t # s => cpc'[t] = cpc[t]
                     /\ t = s => cpc'[t] \in {"loop", "stuck"}
  BY <1>1, <1>2, Zenon DEF ProgTypes
<1>7. ClientInv'
  <2>1. \A u \in Srv : Astray(u) => Astray(u)'
    BY <1>1, Zenon DEF Astray
  <2>2. \A u, t \in Srv : Served(u, t) => Served(u, t)'
    BY <1>1, <2>1, Zenon DEF Served, srvVars
  <2>3. QED
    BY <1>1, <1>6, <2>1, <2>2, Zenon DEF IInv, ClientInv, srvVars
<1>8. ChanInv' /\ FileInv' /\ ShmInv'
  BY <1>1, Zenon DEF IInv, ChanInv, FileInv, ShmInv, chanVars, srvVars, shmVars
<1>9. QueueInv' /\ TickInv'
  <2>1. UNCHANGED <<q, nextChanId, spc, sChan, sShm, counter, cChan, lastTick>>
    BY <1>1, Zenon DEF chanVars, srvVars
  <2>2. \A t, u \in Srv : LastSeen(t, u)' = LastSeen(t, u)
    BY <2>1, Zenon DEF LastSeen
  <2>3. \A u \in Srv : lastTick[u] > 0 => cpc'[u] = cpc[u]
    BY <1>1, <1>6, Zenon DEF IInv, TickInv
  <2>4. QED
    BY <2>1, <2>2, <2>3, QueueStays, TickKept, Zenon
<1>10. QED
  BY <1>2, <1>4, <1>5, <1>7, <1>8, <1>9, TypesAreNext, Zenon DEF IInv

\* A tick that was received is later than the one before, and counted.
Later(s) ==
  /\ lastTick'[s] > lastTick[s]
  /\ \E t \in Srv : cChan[s] = sChan[t] /\ lastTick'[s] <= counter[t]

\* Waiting for ticks.
LEMMA CliTickInv ==
  ASSUME IInv, NEW s \in Srv, CliTick(s)
  PROVE  /\ IInv'
         /\ \A t \in Srv : lastTick'[t] # lastTick[t] => Later(t)
<1> DEFINE got == RecvResult(s) = "ok" /\ Received(s).kind = "TICK"
<1>1. /\ cpc[s] = "loop" /\ Recv(s)
      /\ lastTick' = IF got THEN [lastTick EXCEPT ![s] = Received(s).a] ELSE lastTick
      /\ cpc' = [cpc EXCEPT ![s] = IF Failed(s) THEN "lost" ELSE cpc[s]]
      /\ UNCHANGED <<srvVars, cChan, cShm, seenOk, shmVars, file, boots>>
  BY Zenon DEF CliTick
<1>2. ChanSound' /\ nextChanId' = nextChanId /\ (Refused(s) \/ Took(s))
  BY <1>1, RecvIs, Zenon
<1>3. spc[s] = "loop" /\ spc[s] \in HasChan
  BY <1>1, Zenon DEF IInv, ClientInv, HasChan
<1>4. ASSUME got
      PROVE  \E t \in Srv : /\ TakenFrom(s, t) /\ Received(s).a \in 1 .. MaxTick
                            /\ lastTick[s] < Received(s).a /\ Received(s).a <= counter[t]
  <2>1. Took(s)
    BY <1>2, <1>4, Zenon DEF Refused
  <2>2. PICK t \in Srv : TakenFrom(s, t)
    BY <2>1, TookIs, Zenon
  <2>3. QED
    BY <1>4, <2>2, Zenon DEF TakenFrom, Own
<1>5. ProgTypes
  BY TypesAre, Zenon DEF IInv
<1>6. /\ \A t \in Srv : t # s => cpc'[t] = cpc[t] /\ lastTick'[t] = lastTick[t]
      /\ cpc'[s] \in {"lost", "loop"}
      /\ lastTick'[s] = IF got THEN Received(s).a ELSE lastTick[s]
  BY <1>1, <1>5, Zenon DEF ProgTypes
<1>7. ProgTypes'
  <2>1. got => Received(s).a \in 0 .. MaxTick
    BY <1>4, Bounds
  <2>2. lastTick' \in [Srv -> 0 .. MaxTick]
    BY <1>1, <1>5, <2>1, Zenon DEF ProgTypes
  <2>3. cpc' \in [Srv -> CliPc]
    BY <1>1, <1>5, Zenon DEF ProgTypes, CliPc
  <2>4. QED
    BY <1>1, <1>5, <2>2, <2>3, Zenon DEF ProgTypes, srvVars
<1> HIDE DEF got
<1>8. UNCHANGED <<spc, sChan, sShm, counter, cChan, cShm, file>>
  BY <1>1, Zenon DEF srvVars
<1>9. \A t \in Srv : lastTick'[t] # lastTick[t] => Later(t)
  <2>1. ASSUME got PROVE Later(s)
    <3>1. PICK t \in Srv : /\ TakenFrom(s, t) /\ Received(s).a \in 1 .. MaxTick
                          /\ lastTick[s] < Received(s).a /\ Received(s).a <= counter[t]
      BY <1>4, <2>1, Zenon
    <3>2. lastTick'[s] = Received(s).a /\ cChan[s] = sChan[t]
      BY <1>6, <2>1, <3>1, Zenon DEF TakenFrom
    <3>3. Received(s).a > lastTick[s]
      BY <1>5, <3>1, Bounds DEF ProgTypes
    <3>4. QED
      BY <3>1, <3>2, <3>3, Zenon DEF Later
  <2>2. QED
    BY <1>6, <2>1, Zenon
<1>10. ClientInv'
  <2>1. \A u \in Srv : Astray(u) => Astray(u)'
    BY <1>8, Zenon DEF Astray
  <2>2. \A u, t \in Srv : Served(u, t) => Served(u, t)'
    BY <1>8, <2>1, Zenon DEF Served
  <2>3. QED
    BY <1>1, <1>6, <1>8, <2>1, <2>2, Zenon DEF IInv, ClientInv
<1>11. ChanInv' /\ FileInv' /\ ShmInv' /\ PatternSeen'
  BY <1>1, <1>2, Zenon DEF IInv, ChanInv, FileInv, ShmInv, PatternSeen, srvVars, shmVars
<1>12. QueueInv' /\ TickInv'
  <2>1. CASE got
    <3>1. PICK t \in Srv : /\ TakenFrom(s, t) /\ OnlyQueue(t, Tail(q[sChan[t]]))
      BY <1>2, <2>1, TookIs, Zenon DEF Refused, got
    <3>2. Received(s).kind = "TICK" /\ lastTick'[s] = Received(s).a
      BY <1>6, <2>1, Zenon DEF got
    <3>3. /\ spc[t] \in HasChan /\ sChan[t] = cChan[s] /\ cChan[s] < nextChanId
          /\ \A u \in Srv : lastTick'[u] = lastTick[u] \/ cChan[u] = sChan[t]
      BY <1>6, <3>1, Zenon DEF TakenFrom
    <3>4. \A u \in Srv : Serves(q'[sChan[t]], spc'[t], sShm[t], counter'[t], LastSeen(t, u)')
      <4>1. \A u \in Srv : LastSeen(t, u)' = IF u = s THEN Received(s).a ELSE LastSeen(t, u)
        BY <1>6, <1>8, <3>2, <3>3, Zenon DEF LastSeen
      <4>2. QED
        BY <1>8, <3>1, <3>2, <4>1, Zenon DEF TakenFrom
    <3>5. QueueInv'
      BY <1>8, <3>1, <3>3, <3>4, OthersServed, Zenon
    <3>6. Received(s).a <= counter[t]
      BY <3>1, <3>2 DEF TakenFrom, Own
    <3>7. ASSUME NEW t1 \in Srv, NEW u \in Srv, spc[t1] \in HasChan
          PROVE  LastSeen(t1, u)' <= counter[t1]
      <4>1. CASE u = s /\ cChan[s] = sChan[t1]
        <5>1. t1 = t
          BY <3>3, <3>7, <4>1, Zenon DEF IInv, ChanInv
        <5>2. LastSeen(t1, u)' = Received(s).a
          BY <1>8, <3>2, <4>1, Zenon DEF LastSeen
        <5>3. QED
          BY <3>6, <5>1, <5>2, Zenon
      <4>2. CASE ~(u = s /\ cChan[s] = sChan[t1])
        <5>1. LastSeen(t1, u)' = LastSeen(t1, u)
          BY <1>6, <1>8, <4>2, Zenon DEF LastSeen
        <5>2. QED
          BY <3>7, <5>1, Zenon DEF IInv, TickInv
      <4>3. QED
        BY <4>1, <4>2, Zenon
    <3>8. TickInv'
      BY <1>2, <1>6, <1>8, <3>3, <3>7, Zenon DEF IInv, TickInv
    <3>9. QED
      BY <3>5, <3>8, Zenon
  <2>2. CASE ~got
    <3>1. lastTick' = lastTick
      BY <1>1, <2>2, Zenon DEF got
    <3>2. \A t, u \in Srv : LastSeen(t, u)' = LastSeen(t, u)
      BY <1>8, <3>1, Zenon DEF LastSeen
    <3>3. TickInv'
      BY <1>2, <1>6, <1>8, <3>1, <3>2, Zenon DEF IInv, TickInv
    <3>4. CASE Refused(s)
      BY <1>8, <3>2, <3>3, <3>4, QueueStays, Zenon DEF Refused
    <3>5. CASE Took(s)
      <4>1. PICK t \in Srv : TakenFrom(s, t) /\ OnlyQueue(t, Tail(q[sChan[t]]))
        BY <3>5, TookIs, Zenon
      <4>2. spc[t] \in HasChan /\ \A u \in Srv : Serves(q'[sChan[t]], spc'[t], sShm[t], counter'[t], LastSeen(t, u)')
        BY <1>8, <3>2, <4>1, Zenon DEF TakenFrom
      <4>3. QED
        BY <1>8, <3>1, <3>3, <4>1, <4>2, OthersServed, Zenon
    <3>6. QED
      BY <1>2, <3>4, <3>5, Zenon
  <2>3. QED
    BY <2>1, <2>2, Zenon
<1>13. QED
  BY <1>2, <1>7, <1>9, <1>10, <1>11, <1>12, TypesAreNext, Zenon DEF IInv

-----------------------------------------------------------------------------

\* The machine starts with an empty disk.
LEMMA InitInv == Init => IInv
<1> SUFFICES ASSUME Init PROVE IInv
  BY Zenon
<1>1. ChanSound
  BY ChanInitInv, Zenon DEF Init, MemoryInit
<1>2. ProgTypes
  BY Bounds, EmptyIs DEF Init, MemoryInit, NoFile, ProgTypes, SrvPc, CliPc
<1>3. FileInv
  BY ParseNone, Zenon DEF Init, MemoryInit, NoFile, FileInv, HasWritten
<1>4. ChanInv /\ ShmInv /\ ClientInv
  BY Bounds DEF Init, MemoryInit, ChanInv, ShmInv, ClientInv, HasChan, HasShm, HasFilled
<1>5. QueueInv /\ TickInv /\ PatternSeen
  BY DEF Init, MemoryInit, ChanInit, QueueInv, TickInv, PatternSeen, HasChan
<1>6. QED
  BY <1>1, <1>2, <1>3, <1>4, <1>5, TypesAre, Zenon DEF IInv

\* It starts again with what is on the disk.
LEMMA RebootInv == IInv /\ Reboot => IInv'
<1> SUFFICES ASSUME IInv, Reboot PROVE IInv'
  BY Zenon
<1>1. ChanSound'
  <2>1. << >> \in Seq(Message) /\ << >> \o << >> = << >> /\ Len(<< >>) = 0
    BY EmptyIs, Zenon
  <2>2. QED
    BY <2>1, ChannelAssumption
       DEF Reboot, ChanSound, ChanTypeOK, QueueBounded, Fifo, Ret, ChanId
<1>2. ProgTypes'
  <2>1. ProgTypes
    BY TypesAre, Zenon DEF IInv
  <2>2. QED
    BY <2>1, Bounds DEF Reboot, ProgTypes, SrvPc, CliPc
<1>3. FileInv'
  BY Zenon DEF IInv, Reboot, FileInv, HasWritten
<1>4. ChanInv' /\ ShmInv' /\ ClientInv'
  BY Bounds DEF Reboot, ChanInv, ShmInv, ClientInv, HasChan, HasShm, HasFilled
<1>5. QueueInv' /\ TickInv' /\ PatternSeen'
  BY DEF Reboot, QueueInv, TickInv, PatternSeen, HasChan
<1>6. QED
  BY <1>1, <1>2, <1>3, <1>4, <1>5, TypesAreNext, Zenon DEF IInv

\* Other programs create channels, whose queues are empty.
LEMMA OthersCreateInv == ASSUME IInv, NEW n \in Others, OthersCreate(n) PROVE IInv'
<1>1. /\ nextChanId + n + Cardinality(Srv) <= MaxChan + 1
      /\ nextChanId' = nextChanId + n /\ ret' = "ok"
      /\ UNCHANGED <<q, sent, popped, srvVars, cliVars, shmVars, file, boots>>
  BY Zenon DEF OthersCreate
<1>2. UNCHANGED <<spc, sChan, sShm, counter, cpc, cChan, cShm, seenOk, lastTick, nextShm, pattern>>
  BY <1>1, Zenon DEF srvVars, cliVars, shmVars
<1>3. nextChanId \in 1 .. (MaxChan + 1) /\ nextChanId' \in 1 .. (MaxChan + 1) /\ nextChanId <= nextChanId'
  <2>1. Cardinality(Srv) \in 0 .. MaxChan /\ n \in Nat
    BY IpcAssumption, Zenon
  <2>2. nextChanId \in 1 .. (MaxChan + 1)
    BY Zenon DEF IInv, ChanSound, ChanTypeOK
  <2>3. QED
    BY <1>1, <2>1, <2>2, Bounds
<1>4. ChanSound'
  <2>1. ChanTypeOK'
    BY <1>1, <1>3, Zenon DEF IInv, ChanSound, ChanTypeOK, Ret
  <2>2. \A c \in ChanId : c >= nextChanId' => c >= nextChanId
    BY <1>3, Bounds DEF ChanId
  <2>3. QED
    BY <1>1, <2>1, <2>2, Zenon DEF IInv, ChanSound, QueueBounded, Fifo
<1>5. \A c \in Nat : c < nextChanId => c < nextChanId'
  BY <1>3, Bounds
<1>6. ProgTypes /\ ProgTypes'
  <2>1. ProgTypes
    BY TypesAre, Zenon DEF IInv
  <2>2. QED
    BY <1>1, <1>2, <2>1, Zenon DEF ProgTypes
<1>7. ChanInv'
  <2>1. \A c \in ChanId : c \in Nat
    BY Bounds DEF ChanId
  <2>2. QED
    BY <1>2, <1>5, <2>1, Zenon DEF IInv, ChanInv
<1>8. FileInv' /\ ShmInv' /\ PatternSeen' /\ ClientInv'
  BY <1>1, <1>2, ClientsStay, Zenon DEF IInv, FileInv, ShmInv, PatternSeen
<1>9. \A t, u \in Srv : LastSeen(t, u)' = LastSeen(t, u)
  BY <1>2, Zenon DEF LastSeen
<1>10. QueueInv'
  BY <1>1, <1>2, <1>9, QueueStays, Zenon
<1>11. TickInv'
  BY <1>2, <1>5, <1>6, <1>9, Zenon DEF IInv, TickInv, ProgTypes
<1>12. QED
  BY <1>4, <1>6, <1>7, <1>8, <1>10, <1>11, TypesAreNext, Zenon DEF IInv

\* Every step keeps the invariant.
LEMMA NextInv == IInv /\ [Next]_vars => IInv'
<1> SUFFICES ASSUME IInv, [Next]_vars PROVE IInv'
  BY Zenon
<1>1. ASSUME NEW s \in Srv, Start(s) \/ SrvStep(s) \/ CliStep(s) PROVE IInv'
  <2>1. CASE SrvStep(s)
    BY <2>1, CreateInv, WriteIdInv, ShmCreateInv, ShmMapInv, FailsInv, SendInitInv, SpawnInv,
       TickStepInv, Zenon DEF SrvStep
  <2>2. CASE CliStep(s)
    BY <2>2, OpenInv, WaitInitInv, CliMapInv, CliTickInv, Zenon DEF CliStep
  <2>3. QED
    BY <1>1, <2>1, <2>2, StartInv, Zenon
<1>2. CASE Reboot
  BY <1>2, RebootInv, Zenon
<1>3. ASSUME NEW n \in Others, OthersCreate(n) PROVE IInv'
  BY <1>3, OthersCreateInv, Zenon
<1>4. CASE UNCHANGED vars
  <2>1. /\ UNCHANGED <<nextChanId, q, ret, sent, popped>>
        /\ UNCHANGED <<spc, sChan, sShm, counter, cpc, cChan, cShm, seenOk, lastTick>>
        /\ UNCHANGED <<nextShm, pattern, file, boots>>
    BY <1>4, Zenon DEF vars, chanVars, srvVars, cliVars, shmVars
  <2>2. ChanSound' /\ IpcTypeOK' /\ PatternSeen'
    BY <2>1, Zenon DEF IInv, ChanSound, ChanTypeOK, QueueBounded, Fifo, IpcTypeOK, PatternSeen
  <2>3. \A t, u \in Srv : LastSeen(t, u)' = LastSeen(t, u)
    BY <2>1, Zenon DEF LastSeen
  <2>4. ClientInv' /\ QueueInv' /\ TickInv'
    BY <2>1, <2>3, ClientsStay, QueueStays, TickKept, Zenon
  <2>5. QED
    BY <2>1, <2>2, <2>4, Zenon DEF IInv, ChanInv, FileInv, ShmInv
<1>5. QED
  BY <1>1, <1>2, <1>3, <1>4, Zenon DEF Next

\* The inductive invariant: each server has its own channel and memory, a client
\* has found its server's channel or a number that several in the file make up,
\* and what is in the queue is INIT with filled memory and ticks in the order in
\* which they were counted, whichever clients take them.
THEOREM Invariance == Spec => []IInv
<1>1. QED
  BY InitInv, NextInv, PTL DEF Spec

\* What a client has and has seen is one server's, and the pattern is there: a
\* client with one server's channel and another's memory is not reachable, although
\* ipc_srv appends its number to a file that others have written to.  The server
\* is the client's own unless the numbers in the file make up another's, which
\* takes an eleventh channel.
THEOREM ClientsAreSound == Spec => []ClientsSound
<1>1. IInv => ClientsSound
  BY Zenon DEF IInv, ClientsSound, OwnServer, ClientInv, Served, Astray
<1>2. QED
  BY <1>1, Invariance, PTL

\* The loop of ipc_cli sees ticks in increasing order and none before the ipc_srv
\* whose channel it reads has counted it, whatever sends were refused and even when
\* several clients share the channel.
THEOREM TicksAreInOrder == Spec => TicksInOrder
<1> DEFINE A == \A s \in Srv : lastTick'[s] # lastTick[s] =>
                  \/ boots' # boots
                  \/ /\ lastTick'[s] > lastTick[s]
                     /\ \E t \in Srv : cChan[s] = sChan[t] /\ lastTick'[s] <= counter[t]
<1>1. IInv /\ [Next]_vars => [A]_vars
  <2> SUFFICES ASSUME IInv, Next PROVE A
    BY Zenon
  <2>1. CASE Reboot
    <3>1. boots' # boots
      BY <2>1, Bounds DEF Reboot, IInv, IpcTypeOK
    <3>2. QED
      BY <3>1, Zenon
  <2>2. ASSUME NEW s \in Srv, CliTick(s) PROVE A
    BY <2>2, CliTickInv, Zenon DEF Later
  <2>3. ASSUME NEW s \in Srv, Start(s) \/ SrvStep(s) \/ CliOpen(s) \/ CliWaitInit(s) \/ CliShmMap(s)
        PROVE  lastTick' = lastTick
    BY <2>3, Zenon DEF Start, SrvStep, SrvCreate, SrvWriteId, SrvShmCreate, SrvShmMap, SrvFails,
                SrvSendInit, SrvSpawn, SrvTick, CliOpen, CliWaitInit, CliShmMap, cliVars
  <2>4. ASSUME NEW n \in Others, OthersCreate(n) PROVE lastTick' = lastTick
    BY <2>4, Zenon DEF OthersCreate, cliVars
  <2>5. QED
    BY <2>1, <2>2, <2>3, <2>4, Zenon DEF Next, CliStep
<1>2. QED
  BY <1>1, Invariance, PTL DEF Spec, TicksInOrder

=============================================================================
