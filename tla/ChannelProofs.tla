--------------------------- MODULE ChannelProofs ---------------------------
(***************************************************************************)
(* Channel is a bounded first-in first-out queue for any number of         *)
(* channels, any contents and any limits.                                  *)
(***************************************************************************)
EXTENDS Channel, Integers, TLAPS

(* Sequences.                                                              *)

LEMMA EmptyIs ==
  ASSUME NEW T
  PROVE  << >> \in Seq(T) /\ Len(<< >>) = 0 /\ << >> \o << >> = << >>
         /\ \A s \in Seq(T) : Len(s) = 0 => s = << >>
OBVIOUS

LEMMA LenIs ==
  ASSUME NEW T, NEW s \in Seq(T)
  PROVE  Len(s) \in Nat /\ \A i \in 1 .. Len(s) : s[i] \in T
OBVIOUS

LEMMA AppendIs ==
  ASSUME NEW T, NEW s \in Seq(T), NEW e \in T
  PROVE  /\ Append(s, e) \in Seq(T) /\ Len(Append(s, e)) = Len(s) + 1
         /\ \A i \in 1 .. Len(s) : Append(s, e)[i] = s[i]
         /\ Append(s, e)[Len(s) + 1] = e
OBVIOUS

LEMMA HeadTailIs ==
  ASSUME NEW T, NEW s \in Seq(T), s # << >>
  PROVE  /\ Len(s) \in Nat \ {0} /\ Head(s) \in T /\ Head(s) = s[1]
         /\ Tail(s) \in Seq(T) /\ Len(Tail(s)) = Len(s) - 1
         /\ \A i \in 1 .. (Len(s) - 1) : Tail(s)[i] = s[i + 1]
OBVIOUS

LEMMA ConcatIs ==
  ASSUME NEW T, NEW x \in Seq(T), NEW y \in Seq(T)
  PROVE  /\ x \o y \in Seq(T) /\ Len(x \o y) = Len(x) + Len(y)
         /\ \A j \in 1 .. (Len(x) + Len(y)) :
              (x \o y)[j] = IF j <= Len(x) THEN x[j] ELSE y[j - Len(x)]
OBVIOUS

LEMMA SameSeq ==
  ASSUME NEW T, NEW x \in Seq(T), NEW y \in Seq(T), NEW n \in Nat, Len(x) = n, Len(y) = n,
         \A i \in 1 .. n : x[i] = y[i]
  PROVE  x = y
OBVIOUS

\* Appending to the held messages appends to everything accepted.
LEMMA AppendAtEnd ==
  ASSUME NEW p \in Seq(Message), NEW s \in Seq(Message), NEW m \in Message
  PROVE  Append(p \o s, m) = p \o Append(s, m)
<1> DEFINE k == Len(p)
<1> DEFINE n == Len(s)
<1> DEFINE c == p \o s
<1> DEFINE a == Append(s, m)
<1>1. k \in Nat /\ n \in Nat
  BY LenIs, Zenon
<1>2. c \in Seq(Message) /\ Len(c) = k + n
      /\ \A j \in 1 .. (k + n) : c[j] = IF j <= k THEN p[j] ELSE s[j - k]
  BY ConcatIs, Zenon
<1>3. a \in Seq(Message) /\ Len(a) = n + 1 /\ a[n + 1] = m /\ \A i \in 1 .. n : a[i] = s[i]
  BY AppendIs
<1> HIDE DEF c, a
<1> DEFINE x == Append(c, m)
<1> DEFINE y == p \o a
<1>4a. x \in Seq(Message) /\ Len(x) = Len(c) + 1 /\ x[Len(c) + 1] = m /\ \A j \in 1 .. Len(c) : x[j] = c[j]
  <2>1. c \in Seq(Message)
    BY <1>2, Zenon
  <2>2. QED
    BY <2>1, AppendIs
<1>5a. y \in Seq(Message) /\ Len(y) = k + Len(a)
      /\ \A j \in 1 .. (k + Len(a)) : y[j] = IF j <= k THEN p[j] ELSE a[j - k]
  BY <1>3, ConcatIs, Zenon
<1> HIDE DEF x, y, k, n
<1>4. x \in Seq(Message) /\ Len(x) = k + n + 1 /\ x[k + n + 1] = m /\ \A j \in 1 .. (k + n) : x[j] = c[j]
  BY <1>2, <1>4a, Zenon
<1>5. y \in Seq(Message) /\ Len(y) = k + (n + 1)
      /\ \A j \in 1 .. (k + (n + 1)) : y[j] = IF j <= k THEN p[j] ELSE a[j - k]
  BY <1>3, <1>5a, Zenon
<1>6. ASSUME NEW j \in 1 .. (k + n + 1) PROVE x[j] = y[j]
  <2>1. CASE j <= k
    <3>1. j \in 1 .. (k + n) /\ j \in 1 .. (k + (n + 1))
      BY <1>1, <2>1
    <3>2. QED
      BY <1>2, <1>4, <1>5, <2>1, <3>1, Zenon
  <2>2. CASE j > k /\ j <= k + n
    <3>1. j \in 1 .. (k + n) /\ j \in 1 .. (k + (n + 1)) /\ j - k \in 1 .. n /\ ~(j <= k)
      BY <1>1, <2>2
    <3>2. QED
      BY <1>2, <1>3, <1>4, <1>5, <3>1, Zenon
  <2>3. CASE j = k + n + 1
    <3>1. j \in 1 .. (k + (n + 1)) /\ j - k = n + 1 /\ ~(j <= k)
      BY <1>1, <2>3
    <3>2. QED
      BY <1>3, <1>4, <1>5, <2>3, <3>1, Zenon
  <2>4. QED
    BY <1>1, <2>1, <2>2, <2>3
<1>7. k + n + 1 \in Nat /\ k + (n + 1) = k + n + 1
  BY <1>1
<1>8. x = y
  BY <1>4, <1>5, <1>6, <1>7, SameSeq, Zenon
<1>9. QED
  BY <1>8, Zenon DEF x, y, c, a

\* Moving the front message from one sequence to the end of the other keeps
\* their concatenation.
LEMMA MoveFront ==
  ASSUME NEW T, NEW p \in Seq(T), NEW s \in Seq(T), s # << >>
  PROVE  Append(p, Head(s)) \o Tail(s) = p \o s
<1> DEFINE k == Len(p)
<1> DEFINE n == Len(s)
<1> DEFINE a == Append(p, Head(s))
<1> DEFINE t == Tail(s)
<1>1. k \in Nat /\ n \in Nat \ {0}
  BY LenIs, HeadTailIs, Zenon
<1>2. /\ Head(s) \in T /\ Head(s) = s[1] /\ t \in Seq(T) /\ Len(t) = n - 1
      /\ \A i \in 1 .. (n - 1) : t[i] = s[i + 1]
  BY HeadTailIs, Zenon
<1>3. a \in Seq(T) /\ Len(a) = k + 1 /\ a[k + 1] = s[1] /\ \A i \in 1 .. k : a[i] = p[i]
  BY <1>2, AppendIs
<1> HIDE DEF a, t
<1> DEFINE x == a \o t
<1> DEFINE y == p \o s
<1>4a. x \in Seq(T) /\ Len(x) = Len(a) + Len(t)
      /\ \A j \in 1 .. (Len(a) + Len(t)) : x[j] = IF j <= Len(a) THEN a[j] ELSE t[j - Len(a)]
  BY <1>2, <1>3, ConcatIs, Zenon
<1>5. y \in Seq(T) /\ Len(y) = k + n
      /\ \A j \in 1 .. (k + n) : y[j] = IF j <= k THEN p[j] ELSE s[j - k]
  BY ConcatIs, Zenon
<1> HIDE DEF x, y, k, n
<1>4. x \in Seq(T) /\ Len(x) = (k + 1) + (n - 1)
      /\ \A j \in 1 .. ((k + 1) + (n - 1)) : x[j] = IF j <= k + 1 THEN a[j] ELSE t[j - (k + 1)]
  BY <1>2, <1>3, <1>4a, Zenon
<1>6. (k + 1) + (n - 1) = k + n /\ k + n \in Nat
  BY <1>1
<1>7. ASSUME NEW j \in 1 .. (k + n) PROVE x[j] = y[j]
  <2>0. j \in 1 .. ((k + 1) + (n - 1))
    BY <1>6, Zenon
  <2>1. CASE j <= k
    <3>1. j <= k + 1 /\ j \in 1 .. k
      BY <1>1, <2>1
    <3>2. QED
      BY <1>3, <1>4, <1>5, <2>0, <2>1, <3>1, Zenon
  <2>2. CASE j = k + 1
    <3>1. ~(j <= k) /\ j <= k + 1 /\ j - k = 1
      BY <1>1, <2>2
    <3>2. QED
      BY <1>3, <1>4, <1>5, <2>0, <2>2, <3>1, Zenon
  <2>3. CASE j > k + 1
    <3>1. ~(j <= k) /\ ~(j <= k + 1) /\ j - (k + 1) \in 1 .. (n - 1) /\ (j - (k + 1)) + 1 = j - k
      BY <1>1, <2>3
    <3>2. QED
      BY <1>2, <1>4, <1>5, <2>0, <3>1, Zenon
  <2>4. QED
    BY <1>1, <2>1, <2>2, <2>3
<1>8. x = y
  BY <1>4, <1>5, <1>6, <1>7, SameSeq
<1>9. QED
  BY <1>8, Zenon DEF x, y, a, t

-----------------------------------------------------------------------------

\* No channel exists at first and all of them are empty.
LEMMA ChanInitInv == ChanInit => ChanSound
<1> SUFFICES ASSUME ChanInit PROVE ChanSound
  BY Zenon
<1>1. << >> \in Seq(Message) /\ << >> \o << >> = << >> /\ Len(<< >>) = 0
  BY EmptyIs, Zenon
<1>2. QED
  BY <1>1, ChannelAssumption
     DEF ChanInit, ChanSound, ChanTypeOK, QueueBounded, Fifo, Ret, ChanId

\* A send that is accepted puts one message within the limits on one channel.
LEMMA SendStep ==
  ASSUME ChanSound, NEW id \in 0 .. MaxChan, NEW null \in BOOLEAN, NEW rangeOk \in BOOLEAN, NEW len \in Lens,
         NEW data \in Data, SysChanSend(id, null, rangeOk, len, data)
  PROVE  ChanSound'
<1> USE ChannelAssumption DEF ChanSound
<1>0. ret' \in Ret /\ nextChanId' = nextChanId /\ popped' = popped
  <2>1. len \in Nat
    BY Zenon
  <2>2. SendRet(id, null, rangeOk, len) \in Ret
    BY <2>1 DEF SendRet, Ret
  <2>3. QED
    BY <2>2, Zenon DEF SysChanSend
<1>1. CASE ret' # "ok"
  BY <1>0, <1>1, Zenon DEF SysChanSend, ChanTypeOK, QueueBounded, Fifo
<1>2. CASE ret' = "ok"
  <2> DEFINE m == [len |-> len, data |-> data]
  <2>1. id \in ChanId /\ len \in 1 .. MAX_MSG /\ id < nextChanId /\ ~Full(id)
    <3>1. SendRet(id, null, rangeOk, len) = "ok" /\ len \in Nat
      BY <1>2, Zenon DEF SysChanSend
    <3>2. QED
      BY <3>1 DEF SendRet, ChanId, ChanTypeOK
  <2>2. m \in Message /\ m.len = len
    BY <2>1, Zenon DEF Message
  <2>3. q' = [q EXCEPT ![id] = Append(q[id], m)] /\ sent' = [sent EXCEPT ![id] = Append(sent[id], m)]
    BY <1>2, Zenon DEF SysChanSend
  <2> HIDE DEF m
  <2>4. q[id] \in Seq(Message) /\ sent[id] \in Seq(Message) /\ popped[id] \in Seq(Message)
    BY <2>1, Zenon DEF ChanTypeOK
  <2>5. /\ Append(q[id], m) \in Seq(Message) /\ Append(sent[id], m) \in Seq(Message)
        /\ Len(Append(q[id], m)) = Len(q[id]) + 1
        /\ \A i \in 1 .. Len(q[id]) : Append(q[id], m)[i] = q[id][i]
        /\ Append(q[id], m)[Len(q[id]) + 1] = m
        /\ Len(q[id]) \in Nat
    BY <2>2, <2>4, AppendIs, LenIs
  <2>6. ChanTypeOK'
    BY <1>0, <2>3, <2>5, Zenon DEF ChanTypeOK
  <2>7. QueueBounded'
    <3>1. \A c \in ChanId : q'[c] = IF c = id THEN Append(q[id], m) ELSE q[c]
      BY <2>3, Zenon DEF ChanTypeOK
    <3>2. Len(Append(q[id], m)) <= MAX_QUEUE_MSGS
      BY <2>1, <2>5 DEF Full
    <3>3. \A i \in 1 .. Len(Append(q[id], m)) : Append(q[id], m)[i].len \in 1 .. MAX_MSG
      BY <2>1, <2>2, <2>5, SMTT(30) DEF QueueBounded
    <3>4. QED
      <4>1. ASSUME NEW c \in ChanId
            PROVE  /\ Len(q'[c]) <= MAX_QUEUE_MSGS
                   /\ c >= nextChanId' => q'[c] = << >>
                   /\ \A i \in 1 .. Len(q'[c]) : q'[c][i].len \in 1 .. MAX_MSG
        <5>1. CASE c = id
          <6>1. ~(c >= nextChanId')
            BY <1>0, <2>1, <5>1 DEF ChanId, ChanTypeOK
          <6>2. QED
            BY <3>1, <3>2, <3>3, <5>1, <6>1, Zenon
        <5>2. CASE c # id
          BY <1>0, <3>1, <5>2, Zenon DEF QueueBounded
        <5>3. QED
          BY <5>1, <5>2, Zenon
      <4>2. QED
        BY <4>1, Zenon DEF QueueBounded
  <2>8. Fifo'
    <3>1. Append(sent[id], m) = popped[id] \o Append(q[id], m)
      <4>1. sent[id] = popped[id] \o q[id]
        BY <2>1, Zenon DEF Fifo
      <4>2. Append(popped[id] \o q[id], m) = popped[id] \o Append(q[id], m)
        BY <2>2, <2>4, AppendAtEnd, Zenon
      <4>3. QED
        BY <4>1, <4>2, Zenon
    <3>2. QED
      BY <1>0, <2>3, <3>1, Zenon DEF Fifo, ChanTypeOK
  <2>9. QED
    BY <2>6, <2>7, <2>8, Zenon
<1>3. QED
  BY <1>1, <1>2, Zenon

\* A receive takes the front message, and only when it fits.
LEMMA RecvStep ==
  ASSUME ChanSound, NEW id \in 0 .. MaxChan, NEW null \in BOOLEAN, NEW rangeOk \in BOOLEAN,
         NEW cap \in Lens, SysChanRecv(id, null, rangeOk, cap)
  PROVE  ChanSound'
<1> USE ChannelAssumption DEF ChanSound
<1>0. nextChanId' = nextChanId /\ sent' = sent
  BY Zenon DEF SysChanRecv
<1>1. CASE RecvRet(id, null, cap) # "ok"
  <2>1. RecvRet(id, null, cap) \in Ret
    BY Zenon DEF RecvRet, Ret
  <2>2. QED
    BY <1>0, <1>1, <2>1, Zenon DEF SysChanRecv, ChanTypeOK, QueueBounded, Fifo
<1>2. CASE RecvRet(id, null, cap) = "ok"
  <2>1. id \in ChanId /\ q[id] # << >>
    BY <1>2 DEF RecvRet, ChanId
  <2>2. /\ ret' \in Ret /\ q' = [q EXCEPT ![id] = Tail(q[id])]
        /\ popped' = [popped EXCEPT ![id] = Append(popped[id], Head(q[id]))]
    BY <1>2, Zenon DEF SysChanRecv, Rest, Ret
  <2>3. q[id] \in Seq(Message) /\ popped[id] \in Seq(Message)
    BY <2>1, Zenon DEF ChanTypeOK
  <2>4. /\ Head(q[id]) \in Message /\ Tail(q[id]) \in Seq(Message)
        /\ Len(Tail(q[id])) = Len(q[id]) - 1 /\ Len(q[id]) \in Nat
        /\ \A i \in 1 .. Len(Tail(q[id])) : Tail(q[id])[i] = q[id][i + 1]
    BY <2>1, <2>3, HeadTailIs, LenIs, Zenon
  <2>5. Append(popped[id], Head(q[id])) \in Seq(Message)
    BY <2>3, <2>4, AppendIs, Zenon
  <2>6. ChanTypeOK'
    BY <1>0, <2>2, <2>4, <2>5, Zenon DEF ChanTypeOK
  <2>7. QueueBounded'
    <3>1. \A c \in ChanId : q'[c] = IF c = id THEN Tail(q[id]) ELSE q[c]
      BY <2>2, Zenon DEF ChanTypeOK
    <3>2. id < nextChanId
      BY <2>1 DEF QueueBounded, ChanId, ChanTypeOK
    <3>3. /\ Len(Tail(q[id])) <= MAX_QUEUE_MSGS
          /\ \A i \in 1 .. Len(Tail(q[id])) : Tail(q[id])[i].len \in 1 .. MAX_MSG
      <4>1. \A i \in 1 .. Len(Tail(q[id])) : i + 1 \in 1 .. Len(q[id])
        BY <2>4
      <4>2. QED
        BY <2>1, <2>4, <4>1 DEF QueueBounded
    <3>4. QED
      BY <1>0, <2>1, <3>1, <3>2, <3>3, Zenon DEF QueueBounded, ChanId, ChanTypeOK
  <2>8. Fifo'
    <3>1. Append(popped[id], Head(q[id])) \o Tail(q[id]) = popped[id] \o q[id]
      BY <2>1, <2>3, MoveFront, Zenon
    <3>2. QED
      BY <1>0, <2>1, <2>2, <3>1, Zenon DEF Fifo, ChanTypeOK
  <2>9. QED
    BY <2>6, <2>7, <2>8, Zenon
<1>3. QED
  BY <1>1, <1>2, Zenon

\* Every call keeps the invariant.
LEMMA ChanNextInv == ChanSound /\ [ChanNext]_chanVars => ChanSound'
<1> SUFFICES ASSUME ChanSound, [ChanNext]_chanVars PROVE ChanSound'
  BY Zenon
<1>1. CASE SysChanCreate
  <2>1. /\ nextChanId' = nextChanId + 1 /\ nextChanId \in 1 .. MaxChan /\ ret' = "ok"
        /\ UNCHANGED <<q, sent, popped>>
    BY <1>1, Zenon DEF SysChanCreate, ChanId
  <2>2. ChanTypeOK'
    BY <2>1, ChannelAssumption DEF ChanSound, ChanTypeOK, Ret
  <2>3. \A c \in ChanId : c >= nextChanId' => c >= nextChanId
    BY <2>1 DEF ChanId
  <2>4. QED
    BY <2>1, <2>2, <2>3, Zenon DEF ChanSound, QueueBounded, Fifo
<1>2. CASE ArgsFault
  BY <1>2, Zenon DEF ArgsFault, ChanSound, ChanTypeOK, QueueBounded, Fifo, Ret
<1>3. CASE UNCHANGED chanVars
  BY <1>3, Zenon DEF chanVars, ChanSound, ChanTypeOK, QueueBounded, Fifo
<1>4. QED
  BY <1>1, <1>2, <1>3, SendStep, RecvStep, Zenon DEF ChanNext

\* In every reachable state the channels are bounded queues in order.
THEOREM ChanCorrect == ChanSpec => []ChanSound
<1>1. QED
  BY ChanInitInv, ChanNextInv, PTL DEF ChanSpec

\* CHANS and NEXT_CHAN_ID keep their types.
THEOREM ChanTypeCorrect == ChanSpec => []ChanTypeOK
<1>1. ChanSound => ChanTypeOK
  BY Zenon DEF ChanSound
<1>2. QED
  BY <1>1, ChanCorrect, PTL

\* sys_chan_send never lets a channel outgrow MAX_QUEUE_MSGS.
THEOREM ChanBounded == ChanSpec => []QueueBounded
<1>1. ChanSound => QueueBounded
  BY Zenon DEF ChanSound
<1>2. QED
  BY <1>1, ChanCorrect, PTL

\* Messages leave a channel in the order sys_chan_send accepted them, once each.
THEOREM ChanFifo == ChanSpec => []Fifo
<1>1. ChanSound => Fifo
  BY Zenon DEF ChanSound
<1>2. QED
  BY <1>1, ChanCorrect, PTL

=============================================================================
