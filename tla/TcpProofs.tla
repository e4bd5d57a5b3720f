----------------------------- MODULE TcpProofs -----------------------------
(***************************************************************************)
(* The safety properties of Tcp, for any number of connections, any length *)
(* of the peers' streams and any number of turns of the polling loops.     *)
(***************************************************************************)
EXTENDS Tcp, Integers, SequenceTheorems, TLAPS

Byte == 1 .. PeerLen

State == {"None", "SynSent", "Established", "CloseWait", "Closed"}

Conn == [state : State, snd : Nat, rcv : Nat, pend : BOOLEAN, rx : Seq(Byte)]

Call == [op : {"idle", "connect", "send", "recv"}, fd : 0 .. MaxConns, cap : Caps \cup {0}]

OutPacket == [fd : Fd, flags : SUBSET {"SYN", "ACK", "PSH", "FIN"}, seq : Nat, len : Nat]

Increasing(s) == \A i, j \in DOMAIN s : i < j => s[i] < s[j]

Below(s, n) == \A i \in DOMAIN s : s[i] < n

\* The connection c of a program that has taken the bytes t.  Only rcv_nxt ties
\* the two together: all that was taken or is buffered lies below it, which is
\* why a segment that starts there repeats nothing, whatever came before.
StreamOK(t, c) ==
  /\ Increasing(t \o c.rx)
  /\ c.state # "None" => Below(t \o c.rx, c.rcv)
  /\ c.state = "None" => c.rx = << >>
  /\ c.state = "SynSent" => t \o c.rx = << >>
  /\ c.state = "Established" => c.rcv >= 1 /\ t \o c.rx = Bytes(1, c.rcv - 1)

Types ==
  /\ conns \in [Fd -> Conn] /\ nextFd \in 1 .. (MaxConns + 1)
  /\ call \in Call /\ left \in 0 .. Polls
  /\ out \subseteq OutPacket /\ opened \subseteq Fd /\ acked \subseteq Fd
  /\ taken \in [Fd -> Seq(Byte)]

\* An fd not yet given out has left no traces.
FreshInv ==
  /\ \A f \in Fd : f >= nextFd => conns[f].state = "None" /\ f \notin opened /\ taken[f] = << >>
  /\ \A s \in out : s.fd < nextFd

StreamInv == \A f \in Fd : StreamOK(taken[f], conns[f])

\* Segments lie below the snd_nxt of a live connection; a connection that is
\* gone does not come back.
SendInv ==
  /\ SendSpace
  /\ \A s \in out : conns[s.fd].state # "None" =>
       s.seq < conns[s.fd].snd /\ s.seq + s.len <= conns[s.fd].snd

\* A call in progress is for a connection of the table.
CallInv == (call.op # "idle" => call.fd \in Fd /\ call.fd < nextFd) /\ (call.op = "idle" => call = Idle)

IInv == Types /\ FreshInv /\ NoOrphans /\ CallInv /\ StreamInv /\ SendInv

-----------------------------------------------------------------------------
(* Sequences of bytes.                                                     *)

LEMMA BytesAre ==
  ASSUME NEW i \in Nat \ {0}, NEW j \in 0 .. PeerLen
  PROVE  /\ Bytes(i, j) \in Seq(Byte)
         /\ Len(Bytes(i, j)) = IF i <= j THEN j - i + 1 ELSE 0
         /\ \A k \in 1 .. Len(Bytes(i, j)) : Bytes(i, j)[k] = i + k - 1
<1>1. PICK n \in Int : n = j - i + 1
  BY TcpAssumption
<1>2. Bytes(i, j) = [k \in 1 .. n |-> i + k - 1]
  BY <1>1 DEF Bytes
<1>3. CASE n < 0
  <2>1. Bytes(i, j) = << >>
    BY <1>2, <1>3
  <2>2. QED
    BY <1>1, <1>3, <2>1
<1>4. CASE n >= 0
  <2>1. \A k \in 1 .. n : i + k - 1 \in Byte
    BY <1>1, TcpAssumption DEF Byte
  <2>2. n \in Nat
    BY <1>4
  <2>3. Bytes(i, j) \in Seq(Byte) /\ Len(Bytes(i, j)) = n
    BY <1>2, <2>1, <2>2
  <2>4. QED
    BY <1>1, <1>2, <1>4, <2>3
<1>5. QED
  BY <1>3, <1>4

LEMMA BytesFromOne ==
  ASSUME NEW j \in 0 .. PeerLen
  PROVE  /\ Bytes(1, j) \in Seq(Byte) /\ Len(Bytes(1, j)) = j
         /\ \A k \in 1 .. Len(Bytes(1, j)) : Bytes(1, j)[k] = k
<1>1. PICK i \in Nat \ {0} : i = 1
  OBVIOUS
<1>2. /\ Bytes(i, j) \in Seq(Byte) /\ Len(Bytes(i, j)) = IF i <= j THEN j - i + 1 ELSE 0
      /\ \A k \in 1 .. Len(Bytes(i, j)) : Bytes(i, j)[k] = i + k - 1
  BY BytesAre
<1>3. Len(Bytes(i, j)) = j
  BY <1>1, <1>2, TcpAssumption
<1>4. \A k \in 1 .. j : i + k - 1 = k
  BY <1>1
<1>5. QED
  BY <1>1, <1>2, <1>3, <1>4

\* Bytes above all that came before.
LEMMA ExtendStream ==
  ASSUME NEW t \in Seq(Byte), NEW n \in Nat \ {0}, NEW j \in 0 .. PeerLen, n <= j,
         Increasing(t), Below(t, n)
  PROVE  Increasing(t \o Bytes(n, j)) /\ Below(t \o Bytes(n, j), j + 1)
<1> DEFINE b == Bytes(n, j)
           u == t \o b
<1>1. /\ b \in Seq(Byte) /\ Len(b) = j - n + 1
      /\ \A k \in 1 .. Len(b) : b[k] = n + k - 1
  BY BytesAre
<1> HIDE DEF b
<1>2. /\ u \in Seq(Byte) /\ Len(u) = Len(t) + Len(b) /\ Len(t) \in Nat /\ Len(b) \in Nat
      /\ \A k \in 1 .. Len(t) + Len(b) : u[k] = IF k <= Len(t) THEN t[k] ELSE b[k - Len(t)]
  <2>1. Len(t) \in Nat /\ Len(b) \in Nat
    BY <1>1
  <2>2. QED
    BY <1>1, <2>1, ConcatProperties, Zenon
<1>3. DOMAIN u = 1 .. Len(t) + Len(b) /\ DOMAIN t = 1 .. Len(t) /\ DOMAIN b = 1 .. Len(b)
  BY <1>1, <1>2
<1> HIDE DEF u
<1>4. ASSUME NEW k \in DOMAIN u
      PROVE  \/ k \in DOMAIN t /\ k <= Len(t) /\ u[k] = t[k] /\ t[k] \in Int /\ t[k] < n
             \/ k > Len(t) /\ u[k] = n + (k - Len(t)) - 1 /\ u[k] >= n /\ u[k] <= j
  <2>1. k \in 1 .. Len(t) + Len(b)
    BY <1>3
  <2>2. CASE k <= Len(t)
    <3>1. k \in 1 .. Len(t)
      BY <2>1, <2>2
    <3>2. t[k] \in Byte
      BY <3>1, ElementOfSeq
    <3>3. QED
      BY <1>2, <1>3, <2>1, <2>2, <3>1, <3>2 DEF Below, Byte
  <2>3. CASE ~ (k <= Len(t))
    <3>1. k - Len(t) \in 1 .. Len(b) /\ k > Len(t)
      BY <1>2, <2>1, <2>3
    <3>2. u[k] = b[k - Len(t)]
      BY <1>2, <2>1, <2>3
    <3>3. PICK l \in 1 .. Len(b) : l = k - Len(t)
      BY <3>1
    <3>4. u[k] = n + l - 1 /\ l <= j - n + 1
      BY <1>1, <3>2, <3>3
    <3>5. QED
      BY <1>2, <2>1, <3>1, <3>3, <3>4, SMTT(30)
  <2>4. QED
    BY <2>2, <2>3
<1>5. Below(u, j + 1)
  BY <1>4, SMTT(30) DEF Below
<1>6. ASSUME NEW k \in DOMAIN u, NEW l \in DOMAIN u, k < l
      PROVE  u[k] < u[l]
  <2>1. k \in Int /\ l \in Int /\ Len(t) \in Int
    BY <1>2, <1>3
  <2>2. CASE k \in DOMAIN t /\ l \in DOMAIN t
    <3>1. k <= Len(t) /\ l <= Len(t)
      BY <1>3, <2>2
    <3>2. u[k] = t[k] /\ u[l] = t[l]
      BY <1>4, <2>1, <3>1
    <3>3. QED
      BY <1>6, <2>2, <3>2 DEF Increasing
  <2>3. CASE ~ (k \in DOMAIN t /\ l \in DOMAIN t)
    <3>1. l > Len(t)
      BY <1>2, <1>3, <1>6, <2>1, <2>3
    <3>2. u[l] = n + (l - Len(t)) - 1 /\ u[l] >= n
      BY <1>4, <2>1, <3>1
    <3>3. QED
      BY <1>4, <1>6, <2>1, <3>1, <3>2
  <2>4. QED
    BY <2>2, <2>3
<1>7. QED
  BY <1>5, <1>6 DEF Increasing, u, b

\* The stream goes on where it stopped.
LEMMA ContinueStream ==
  ASSUME NEW n \in Nat \ {0}, NEW j \in 0 .. PeerLen, n <= j
  PROVE  Bytes(1, n - 1) \o Bytes(n, j) = Bytes(1, j)
<1> DEFINE a == Bytes(1, n - 1)
           b == Bytes(n, j)
           c == Bytes(1, j)
<1>1. PICK m \in 0 .. PeerLen : m = n - 1
  BY TcpAssumption
<1>2. a \in Seq(Byte) /\ Len(a) = m /\ \A k \in 1 .. Len(a) : a[k] = k
  BY <1>1, BytesFromOne
<1>3. b \in Seq(Byte) /\ Len(b) = j - n + 1 /\ \A k \in 1 .. Len(b) : b[k] = n + k - 1
  BY BytesAre, Zenon
<1>4. c \in Seq(Byte) /\ Len(c) = j /\ \A k \in 1 .. Len(c) : c[k] = k
  BY BytesFromOne
<1> HIDE DEF a, b, c
<1>5. /\ a \o b \in Seq(Byte) /\ Len(a \o b) = Len(a) + Len(b)
      /\ \A k \in 1 .. Len(a) + Len(b) : (a \o b)[k] = IF k <= Len(a) THEN a[k] ELSE b[k - Len(a)]
  BY <1>2, <1>3, ConcatProperties, Zenon
<1>6. Len(a) + Len(b) = j
  BY <1>1, <1>2, <1>3
<1>7. ASSUME NEW k \in 1 .. j
      PROVE  (a \o b)[k] = c[k]
  <2>1. c[k] = k
    BY <1>4
  <2>2. CASE k <= Len(a)
    BY <1>1, <1>2, <1>5, <1>6, <2>1, <2>2
  <2>3. CASE ~ (k <= Len(a))
    <3>1. k - Len(a) \in 1 .. Len(b) /\ n + (k - Len(a)) - 1 = k
      BY <1>1, <1>2, <1>3, <2>3
    <3>2. QED
      BY <1>3, <1>5, <1>6, <2>1, <2>3, <3>1, Zenon
  <2>4. QED
    BY <2>2, <2>3, Zenon
<1>8. a \o b = c
  BY <1>4, <1>5, <1>6, <1>7, SeqEqual
<1>9. QED
  BY <1>8 DEF a, b, c

LEMMA BytesAssociative ==
  ASSUME NEW x \in Seq(Byte), NEW y \in Seq(Byte), NEW z \in Seq(Byte)
  PROVE  (x \o y) \o z = x \o (y \o z)
BY ConcatAssociative

\* What is taken from the front of the buffer and what stays make up the buffer.
LEMMA TakeFront ==
  ASSUME NEW t \in Seq(Byte), NEW r \in Seq(Byte), NEW n \in 0 .. Len(r)
  PROVE  /\ SubSeq(r, 1, n) \in Seq(Byte) /\ SubSeq(r, n + 1, Len(r)) \in Seq(Byte)
         /\ (t \o SubSeq(r, 1, n)) \o SubSeq(r, n + 1, Len(r)) = t \o r
<1>1. Len(r) \in Nat /\ n \in Int
  OBVIOUS
<1>2. SubSeq(r, 1, n) \in Seq(Byte) /\ SubSeq(r, n + 1, Len(r)) \in Seq(Byte)
  <2>1. \A i \in 1 .. Len(r) : r[i] \in Byte
    BY ElementOfSeq
  <2>2. SubSeq(r, 1, n) \in Seq(Byte)
    BY <1>1, <2>1, SubSeqProperties
  <2>3. PICK m \in Int : m = n + 1
    BY <1>1
  <2>4. SubSeq(r, m, Len(r)) \in Seq(Byte)
    BY <1>1, <2>1, <2>3, SubSeqProperties
  <2>5. QED
    BY <2>2, <2>3, <2>4
<1>3. SubSeq(r, 1, n) \o SubSeq(r, n + 1, Len(r)) = r
  <2>1. 1 \in 1 .. Len(r) + 1 /\ n \in (1 - 1) .. Len(r) /\ Len(r) \in n .. Len(r)
    BY <1>1
  <2>2. SubSeq(r, 1, n) \o SubSeq(r, n + 1, Len(r)) = SubSeq(r, 1, Len(r))
    BY <2>1, ConcatAdjacentSubSeq, Zenon
  <2>3. QED
    BY <2>2, SubSeqFull, Zenon
<1>4. PICK x \in Seq(Byte), y \in Seq(Byte) :
        x = SubSeq(r, 1, n) /\ y = SubSeq(r, n + 1, Len(r))
  BY <1>2, Zenon
<1>5. (t \o x) \o y = t \o (x \o y)
  BY BytesAssociative, ZenonT(30)
<1>6. QED
  BY <1>2, <1>3, <1>4, <1>5, Zenon

LEMMA PrefixIncreasing ==
  ASSUME NEW t \in Seq(Byte), NEW r \in Seq(Byte), Increasing(t \o r)
  PROVE  Increasing(t)
<1>1. /\ Len(t) \in Nat /\ Len(r) \in Nat /\ DOMAIN t = 1 .. Len(t)
      /\ DOMAIN (t \o r) = 1 .. Len(t) + Len(r)
      /\ \A k \in 1 .. Len(t) : (t \o r)[k] = t[k]
  BY ConcatProperties
<1>2. \A k \in 1 .. Len(t) : k \in 1 .. Len(t) + Len(r)
  BY <1>1
<1>3. QED
  BY <1>1, <1>2 DEF Increasing

-----------------------------------------------------------------------------
(* handle_packet.                                                          *)

\* The segments a peer can have sent: its part of the handshake, a reset, or
\* bytes of its stream with the sequence number of the first of them.
FromPeer(s) ==
  \/ s.flags = {"SYN", "ACK"} /\ s.seq = 0 /\ s.data = << >>
  \/ s.flags = {"RST"}
  \/ /\ s.flags \in {{"ACK"}, {"FIN", "ACK"}}
     /\ s.seq \in Nat \ {0}
     /\ \E j \in 0 .. PeerLen : s.data = Bytes(s.seq, j)

LEMMA PeerSegmentsAre ==
  ASSUME NEW f \in Fd, NEW s \in PeerSegments(f)
  PROVE  FromPeer(s)
<1>1. CASE s \in {Segment(f, {"SYN", "ACK"}, 0, << >>), Segment(f, {"RST"}, 1, << >>)}
  BY <1>1 DEF Segment, FromPeer
<1>2. CASE \E i \in 1 .. PeerLen, j \in 1 .. PeerLen : s = Segment(f, {"ACK"}, i, Bytes(i, j))
  <2>1. PICK i \in 1 .. PeerLen, j \in 1 .. PeerLen : s = Segment(f, {"ACK"}, i, Bytes(i, j))
    BY <1>2
  <2>2. s.flags = {"ACK"} /\ s.seq = i /\ s.data = Bytes(i, j)
    BY <2>1 DEF Segment
  <2>3. i \in Nat \ {0} /\ j \in 0 .. PeerLen
    BY TcpAssumption
  <2>4. QED
    BY <2>2, <2>3 DEF FromPeer
<1>3. CASE \E i \in 1 .. (PeerLen + 1) : s = Segment(f, {"FIN", "ACK"}, i, Bytes(i, PeerLen))
  <2>1. PICK i \in 1 .. (PeerLen + 1) : s = Segment(f, {"FIN", "ACK"}, i, Bytes(i, PeerLen))
    BY <1>3
  <2>2. s.flags = {"FIN", "ACK"} /\ s.seq = i /\ s.data = Bytes(i, PeerLen)
    BY <2>1 DEF Segment
  <2>3. i \in Nat \ {0} /\ PeerLen \in 0 .. PeerLen
    BY TcpAssumption
  <2>4. QED
    BY <2>2, <2>3 DEF FromPeer
<1>4. QED
  BY <1>1, <1>2, <1>3 DEF PeerSegments

LEMMA BufferedOK ==
  ASSUME NEW t \in Seq(Byte), NEW c \in Conn, StreamOK(t, c),
         c.state \in {"Established", "CloseWait"}, NEW s, FromPeer(s), s.flags # {"RST"}
  PROVE  /\ Buffered(c, s) \in Conn /\ Buffered(c, s).state = c.state
         /\ Buffered(c, s).snd = c.snd /\ StreamOK(t, Buffered(c, s))
<1>1. CASE s.data # << >> /\ s.seq = c.rcv
  <2> DEFINE n == c.rcv
             b == Buffered(c, s)
  <2>1. s.seq \in Nat \ {0} /\ \E j \in 0 .. PeerLen : s.data = Bytes(s.seq, j)
    BY <1>1 DEF FromPeer
  <2>2. PICK j \in 0 .. PeerLen : s.data = Bytes(n, j)
    BY <1>1, <2>1
  <2>3. n \in Nat \ {0}
    BY <1>1, <2>1
  <2>4. Bytes(n, j) \in Seq(Byte) /\ Len(Bytes(n, j)) = IF n <= j THEN j - n + 1 ELSE 0
    BY <2>3, BytesAre, Zenon
  <2>5. n <= j /\ Len(s.data) = j - n + 1
    BY <1>1, <2>2, <2>4, EmptySeq
  <2>6. n + Len(s.data) = j + 1 /\ j + 1 \in Nat
    BY <2>3, <2>5, TcpAssumption
  <2>7. b = [c EXCEPT !.rx = c.rx \o s.data, !.rcv = j + 1, !.pend = TRUE]
    BY <1>1, <2>6, Zenon DEF Buffered
  <2>8. c.rx \in Seq(Byte) /\ c.rx \o s.data \in Seq(Byte)
    BY <2>2, <2>4, ConcatProperties DEF Conn
  <2> HIDE DEF b
  <2>9. /\ b \in Conn /\ b.state = c.state /\ b.snd = c.snd /\ b.rcv = j + 1
        /\ b.rx = c.rx \o s.data
    BY <2>6, <2>7, <2>8, Zenon DEF Conn
  <2>10. PICK u \in Seq(Byte) : u = t \o c.rx
    BY <2>8, ConcatProperties, Zenon
  <2>11. t \o b.rx = u \o Bytes(n, j)
    <3>1. PICK x \in Seq(Byte), y \in Seq(Byte) : x = c.rx /\ y = s.data
      BY <2>2, <2>4, <2>8
    <3>2. (t \o x) \o y = t \o (x \o y)
      BY BytesAssociative, ZenonT(30)
    <3>3. QED
      BY <2>2, <2>9, <2>10, <3>1, <3>2
  <2>12. Increasing(u) /\ Below(u, n)
    BY <2>10 DEF StreamOK
  <2>13. Increasing(u \o Bytes(n, j)) /\ Below(u \o Bytes(n, j), j + 1)
    BY <2>3, <2>5, <2>12, ExtendStream
  <2>14. c.state = "Established" => u \o Bytes(n, j) = Bytes(1, j)
    BY <2>3, <2>5, <2>10, ContinueStream, Zenon DEF StreamOK
  <2>15. j + 1 - 1 = j /\ j + 1 >= 1
    BY TcpAssumption
  <2>16. StreamOK(t, b)
    BY <2>9, <2>11, <2>13, <2>14, <2>15 DEF StreamOK
  <2>17. QED
    BY <2>9, <2>16 DEF b
<1>2. CASE ~ (s.data # << >> /\ s.seq = c.rcv)
  BY <1>2 DEF Buffered
<1>3. QED
  BY <1>1, <1>2

LEMMA HandlePacketOK ==
  ASSUME NEW t \in Seq(Byte), NEW c \in Conn, StreamOK(t, c), c.state # "None",
         NEW s, FromPeer(s)
  PROVE  /\ HandlePacket(c, s) \in Conn /\ HandlePacket(c, s).state # "None"
         /\ HandlePacket(c, s).snd = c.snd /\ StreamOK(t, HandlePacket(c, s))
<1> DEFINE h == HandlePacket(c, s)
<1>1. CASE "RST" \in s.flags
  <2>1. h = [c EXCEPT !.state = "Closed"]
    BY <1>1 DEF HandlePacket
  <2> HIDE DEF h
  <2>2. h \in Conn /\ h.state = "Closed" /\ h.snd = c.snd /\ h.rcv = c.rcv /\ h.rx = c.rx
    BY <2>1 DEF Conn, State
  <2>3. StreamOK(t, h)
    BY <2>2 DEF StreamOK
  <2>4. QED
    BY <2>2, <2>3 DEF h
<1>2. CASE "RST" \notin s.flags /\ c.state = "SynSent"
  <2>1. CASE {"SYN", "ACK"} \subseteq s.flags /\ s.ack = c.snd
    <3>1. s.seq = 0
      BY <2>1 DEF FromPeer
    <3>2. h = [c EXCEPT !.rcv = 1, !.state = "Established", !.pend = TRUE]
      BY <1>2, <2>1, <3>1 DEF HandlePacket
    <3> HIDE DEF h
    <3>3. h \in Conn /\ h.state = "Established" /\ h.snd = c.snd /\ h.rcv = 1 /\ h.rx = c.rx
      BY <3>2, Zenon DEF Conn, State
    <3>4. t \o h.rx = << >>
      BY <1>2, <3>3 DEF StreamOK
    <3>5. Bytes(1, 1 - 1) = << >>
      BY DEF Bytes
    <3>6. Increasing(<< >>) /\ Below(<< >>, 1)
      BY DEF Increasing, Below
    <3>7. StreamOK(t, h)
      BY <3>3, <3>4, <3>5, <3>6 DEF StreamOK
    <3>8. QED
      BY <3>3, <3>7 DEF h
  <2>2. CASE ~ ({"SYN", "ACK"} \subseteq s.flags /\ s.ack = c.snd)
    <3>1. h = c
      BY <1>2, <2>2 DEF HandlePacket
    <3>2. QED
      BY <3>1
  <2>3. QED
    BY <2>1, <2>2
<1>3. CASE "RST" \notin s.flags /\ c.state \in {"Established", "CloseWait"}
  <2> DEFINE b == Buffered(c, s)
  <2>1. h = Finished(b, s)
    BY <1>3 DEF HandlePacket
  <2>2. b \in Conn /\ b.state = c.state /\ b.snd = c.snd /\ StreamOK(t, b)
    BY <1>3, BufferedOK
  <2> HIDE DEF b, h
  <2>3. CASE "FIN" \notin s.flags
    BY <1>3, <2>1, <2>2, <2>3 DEF Finished, h
  <2>4. CASE "FIN" \in s.flags
    <3>1. h = [b EXCEPT !.rcv = b.rcv + 1, !.state = "CloseWait", !.pend = TRUE]
      BY <2>1, <2>4 DEF Finished
    <3>2. /\ h \in Conn /\ h.state = "CloseWait" /\ h.snd = b.snd /\ h.rcv = b.rcv + 1
          /\ h.rx = b.rx
      <4>1. b.rcv \in Nat
        BY <2>2 DEF Conn
      <4>2. PICK m \in Nat : m = b.rcv + 1
        BY <4>1
      <4>3. h = [b EXCEPT !.rcv = m, !.state = "CloseWait", !.pend = TRUE]
        BY <3>1, <4>2
      <4>4. QED
        BY <2>2, <4>2, <4>3, Zenon DEF Conn, State
    <3>3. t \o b.rx \in Seq(Byte) /\ b.rcv \in Nat
      BY <2>2, ConcatProperties DEF Conn
    <3>4. Below(t \o b.rx, b.rcv + 1)
      <4>1. PICK u \in Seq(Byte) : u = t \o b.rx
        BY <3>3, Zenon
      <4>2. Below(u, b.rcv)
        BY <1>3, <2>2, <4>1 DEF StreamOK
      <4>3. \A i \in DOMAIN u : u[i] \in Int
        <5>1. \A i \in DOMAIN u : u[i] \in Byte
          OBVIOUS
        <5>2. QED
          BY <5>1 DEF Byte
      <4>4. QED
        BY <3>3, <4>1, <4>2, <4>3 DEF Below
    <3>5. StreamOK(t, h)
      BY <2>2, <3>2, <3>4 DEF StreamOK
    <3>6. QED
      BY <2>2, <3>2, <3>5 DEF h
  <2>5. QED
    BY <2>3, <2>4
<1>4. CASE "RST" \notin s.flags /\ c.state = "Closed"
  <2>1. h = c
    BY <1>4 DEF HandlePacket
  <2>2. QED
    BY <2>1
<1>5. QED
  BY <1>1, <1>2, <1>3, <1>4 DEF Conn, State

-----------------------------------------------------------------------------
(* Facts the steps share.                                                  *)

LEMMA NoConnOK ==
  /\ NoConn \in Conn /\ NoConn.state = "None" /\ NoConn.rx = << >>
  /\ \A t \in Seq(Byte) : Increasing(t) => StreamOK(t, NoConn)
<1>1. NoConn \in Conn /\ NoConn.state = "None" /\ NoConn.rx = << >>
  BY DEF NoConn, Conn, State
<1>2. ASSUME NEW t \in Seq(Byte), Increasing(t)
      PROVE  StreamOK(t, NoConn)
  <2>1. t \o NoConn.rx = t
    BY <1>1, ConcatEmptySeq
  <2>2. QED
    BY <1>1, <1>2, <2>1 DEF StreamOK
<1>3. QED
  BY <1>1, <1>2

\* A connection is dropped: the bytes the program has taken remain in order.
LEMMA DroppedOK ==
  ASSUME NEW t \in Seq(Byte), NEW c \in Conn, StreamOK(t, c)
  PROVE  StreamOK(t, NoConn)
<1>1. Increasing(t)
  BY PrefixIncreasing DEF StreamOK, Conn
<1>2. QED
  BY <1>1, NoConnOK

LEMMA UnflaggedOK ==
  ASSUME NEW t \in Seq(Byte), NEW c \in Conn, StreamOK(t, c)
  PROVE  /\ Unflagged(c) \in Conn /\ Unflagged(c).state = c.state
         /\ Unflagged(c).snd = c.snd /\ Unflagged(c).rcv = c.rcv /\ Unflagged(c).rx = c.rx
         /\ StreamOK(t, Unflagged(c))
<1>1. /\ Unflagged(c) \in Conn /\ Unflagged(c).state = c.state /\ Unflagged(c).snd = c.snd
      /\ Unflagged(c).rcv = c.rcv /\ Unflagged(c).rx = c.rx
  BY Zenon DEF Unflagged, Conn
<1>2. QED
  BY <1>1 DEF StreamOK

\* A table the connections of which are those of conns, further on.
Follows(cs) ==
  /\ cs \in [Fd -> Conn]
  /\ \A f \in Fd :
       /\ StreamOK(taken[f], cs[f])
       /\ cs[f].state = "None" <=> conns[f].state = "None"
       /\ cs[f].snd = conns[f].snd

LEMMA PolledFollows ==
  ASSUME Types, StreamInv, NEW cs \in Polled
  PROVE  Follows(cs)
<1>1. conns \in [Fd -> Conn] /\ taken \in [Fd -> Seq(Byte)]
  BY DEF Types
<1>2. CASE cs = conns
  BY <1>1, <1>2 DEF Follows, StreamInv
<1>3. CASE cs # conns
  <2>1. PICK f \in Fd :
          /\ conns[f].state # "None"
          /\ \E s \in PeerSegments(f) : cs = [conns EXCEPT ![f] = HandlePacket(conns[f], s)]
    BY <1>3 DEF Polled
  <2>2. PICK s \in PeerSegments(f) : cs = [conns EXCEPT ![f] = HandlePacket(conns[f], s)]
    BY <2>1, Zenon
  <2>3. FromPeer(s)
    BY PeerSegmentsAre
  <2> DEFINE h == HandlePacket(conns[f], s)
  <2>4. h \in Conn /\ h.state # "None" /\ h.snd = conns[f].snd /\ StreamOK(taken[f], h)
    BY <1>1, <2>1, <2>3, HandlePacketOK DEF StreamInv
  <2> HIDE DEF h
  <2>5. cs = [conns EXCEPT ![f] = h]
    BY <2>2 DEF h
  <2>6. QED
    BY <1>1, <2>1, <2>4, <2>5 DEF Follows, StreamInv
<1>4. QED
  BY <1>2, <1>3

\* flush_pending_ack does not change what the connections stand for.
LEMMA FlushFollows ==
  ASSUME Types, NEW cs, Follows(cs), NEW f \in Fd
  PROVE  Follows([cs EXCEPT ![f] = Unflagged(@)])
<1>1. taken \in [Fd -> Seq(Byte)] /\ cs \in [Fd -> Conn]
  BY DEF Types, Follows
<1>2. /\ Unflagged(cs[f]) \in Conn /\ Unflagged(cs[f]).state = cs[f].state
      /\ Unflagged(cs[f]).snd = cs[f].snd /\ StreamOK(taken[f], Unflagged(cs[f]))
  BY <1>1, UnflaggedOK DEF Follows
<1>3. QED
  BY <1>1, <1>2 DEF Follows

\* A step that transmits nothing that takes sequence numbers and opens nothing.
LEMMA QuietStep ==
  ASSUME IInv, conns' \in [Fd -> Conn], out' = out, nextFd' = nextFd,
         \A f \in Fd :
           /\ StreamOK(taken'[f], conns'[f])
           /\ conns'[f].state # "None" => conns[f].state # "None" /\ conns'[f].snd >= conns[f].snd
           /\ f >= nextFd => conns'[f].state = "None" /\ f \notin opened' /\ taken'[f] = << >>
  PROVE  FreshInv' /\ StreamInv' /\ SendInv'
<1>1. FreshInv'
  BY DEF FreshInv, IInv
<1>2. StreamInv'
  BY DEF StreamInv
<1>3. SendSpace'
  BY DEF SendSpace, SendInv, IInv
<1>4. ASSUME NEW s \in out, conns'[s.fd].state # "None"
      PROVE  s.seq < conns'[s.fd].snd /\ s.seq + s.len <= conns'[s.fd].snd
  <2>1. s \in OutPacket
    BY DEF IInv, Types
  <2>2. s.fd \in Fd /\ s.seq \in Nat /\ s.len \in Nat
    BY <2>1 DEF OutPacket
  <2>3. conns[s.fd].state # "None" /\ conns'[s.fd].snd >= conns[s.fd].snd
    BY <1>4, <2>2
  <2>4. s.seq < conns[s.fd].snd /\ s.seq + s.len <= conns[s.fd].snd
    BY <2>3 DEF IInv, SendInv
  <2>5. conns[s.fd].snd \in Nat /\ conns'[s.fd].snd \in Nat
    BY <2>2 DEF IInv, Types, Conn
  <2>6. QED
    BY <2>2, <2>3, <2>4, <2>5
<1>5. QED
  BY <1>1, <1>2, <1>3, <1>4 DEF SendInv

\* A table that follows conns, with nothing else changed but the call.
LEMMA FollowStep ==
  ASSUME IInv, Follows(conns'), out' = out, nextFd' = nextFd, taken' = taken,
         \A f \in opened' : f < nextFd
  PROVE  FreshInv' /\ StreamInv' /\ SendInv'
<1>1. conns \in [Fd -> Conn] /\ conns' \in [Fd -> Conn] /\ nextFd \in Nat /\ Fd \subseteq Nat
  BY TcpAssumption DEF IInv, Types, Follows, Fd
<1>2. ASSUME NEW f \in Fd
      PROVE  /\ StreamOK(taken'[f], conns'[f])
             /\ conns'[f].state # "None" => conns[f].state # "None" /\ conns'[f].snd >= conns[f].snd
             /\ f >= nextFd => conns'[f].state = "None" /\ f \notin opened' /\ taken'[f] = << >>
  <2>1. conns[f].snd \in Nat /\ conns'[f].snd = conns[f].snd
    BY <1>1 DEF Follows, Conn
  <2>2. f >= nextFd => f \notin opened'
    BY <1>1
  <2>3. QED
    BY <2>1, <2>2 DEF Follows, IInv, FreshInv
<1>3. QED
  BY <1>1, <1>2, QuietStep

\* A segment above all the earlier ones of its connection.
LEMMA AddPacket ==
  ASSUME out \subseteq OutPacket, SendSpace, NEW p \in OutPacket, out' = out \cup {p},
         \A s \in out : s.fd = p.fd => s.seq < p.seq /\ s.seq + s.len <= p.seq
  PROVE  SendSpace'
<1> SUFFICES ASSUME NEW s \in out', NEW u \in out', s.fd = u.fd, s.len > 0, s.seq <= u.seq, s # u
             PROVE  s.seq + s.len <= u.seq
  BY DEF SendSpace
<1>1. s \in OutPacket /\ u \in OutPacket
  OBVIOUS
<1>2. s.seq \in Nat /\ u.seq \in Nat /\ p.seq \in Nat
  BY <1>1 DEF OutPacket
<1>3. CASE s = p
  BY <1>2, <1>3
<1>4. CASE s \in out
  BY <1>2, <1>4 DEF SendSpace
<1>5. QED
  BY <1>3, <1>4

-----------------------------------------------------------------------------

LEMMA InitInv == Init => IInv
<1> SUFFICES ASSUME Init PROVE IInv
  OBVIOUS
<1>1. \A f \in Fd : conns[f] = NoConn /\ taken[f] = << >>
  BY DEF Init
<1>2. Types
  <2>1. conns \in [Fd -> Conn] /\ taken \in [Fd -> Seq(Byte)]
    BY NoConnOK DEF Init
  <2>2. nextFd \in 1 .. (MaxConns + 1) /\ left \in 0 .. Polls /\ 0 \in 0 .. MaxConns
    BY TcpAssumption DEF Init
  <2>3. call \in Call
    BY <2>2 DEF Init, Idle, Call
  <2>4. QED
    BY <2>1, <2>2, <2>3 DEF Init, Types
<1>3. FreshInv
  BY <1>1, NoConnOK DEF FreshInv, Init
<1>4. NoOrphans
  BY <1>1, NoConnOK DEF NoOrphans
<1>5. CallInv
  BY DEF CallInv, Init, Idle
<1>6. StreamInv
  <2>1. << >> \in Seq(Byte) /\ Increasing(<< >>)
    BY DEF Increasing
  <2>2. QED
    BY <1>1, <2>1, NoConnOK, Zenon DEF StreamInv
<1>7. SendInv
  BY DEF Init, SendInv, SendSpace
<1>8. QED
  BY <1>2, <1>3, <1>4, <1>5, <1>6, <1>7 DEF IInv

LEMMA Numbers ==
  ASSUME IInv
  PROVE  /\ Fd \subseteq Nat /\ nextFd \in Nat /\ left \in Nat
         /\ \A f \in opened : f \in Fd /\ f < nextFd
         /\ \A f \in Fd : conns[f] \in Conn /\ conns[f].snd \in Nat /\ taken[f] \in Seq(Byte)
<1>1. Fd \subseteq Nat /\ nextFd \in Nat /\ left \in Nat
  BY TcpAssumption DEF IInv, Types, Fd
<1>2. \A f \in opened : f \in Fd /\ f < nextFd
  BY <1>1 DEF IInv, Types, FreshInv
<1>3. QED
  BY <1>1, <1>2 DEF IInv, Types, Conn

\* The call returns.
LEMMA ReturnOK ==
  ASSUME Return
  PROVE  call' \in Call /\ left' \in 0 .. Polls /\ CallInv'
<1>1. 0 \in 0 .. MaxConns /\ 0 \in 0 .. Polls
  BY TcpAssumption
<1>2. QED
  BY <1>1 DEF Return, Idle, Call, CallInv

LEMMA ConnectStep ==
  ASSUME IInv, NEW f \in Fd, Connect(f)
  PROVE  IInv'
<1> USE DEF IInv
<1> DEFINE c == [NoConn EXCEPT !.state = "SynSent", !.snd = 1]
           p == [fd |-> f, flags |-> {"SYN"}, seq |-> 0, len |-> 0]
<1>1. /\ f = nextFd /\ call = Idle /\ nextFd' = f + 1
      /\ acked' = acked /\ opened' = opened /\ taken' = taken
  BY DEF Connect
<1>2. /\ nextFd \in Nat /\ Fd \subseteq Nat /\ nextFd' \in 1 .. (MaxConns + 1)
      /\ \A g \in Fd : g >= nextFd' => g >= nextFd /\ g # f
      /\ f < nextFd' /\ f >= nextFd
  BY <1>1, Numbers, TcpAssumption DEF Fd
<1>3. \A s \in out : s \in OutPacket /\ s.fd \in Fd /\ s.fd < nextFd /\ s.fd < nextFd' /\ s.fd # f
  <2>1. \A s \in out : s \in OutPacket /\ s.fd \in Fd /\ s.fd < nextFd
    BY DEF FreshInv, Types, OutPacket
  <2>2. QED
    BY <1>1, <1>2, <2>1
<1>4. call.op = "idle"
  BY <1>1 DEF Idle
<1>5. CASE UNCHANGED <<conns, out, call, left>>
  <2>1. Types' /\ NoOrphans' /\ CallInv' /\ StreamInv'
    BY <1>1, <1>2, <1>4, <1>5 DEF Types, NoOrphans, CallInv, StreamInv
  <2>2. FreshInv' /\ SendInv'
    BY <1>1, <1>2, <1>3, <1>5 DEF FreshInv, SendInv, SendSpace
  <2>3. QED
    BY <2>1, <2>2
<1>6. CASE /\ conns' = [conns EXCEPT ![f] = c] /\ out' = out \cup {p}
           /\ call' = [op |-> "connect", fd |-> f, cap |-> 0] /\ left' = Polls
  <2>1. /\ c \in Conn /\ c.state = "SynSent" /\ c.snd = 1 /\ c.rx = << >>
        /\ p \in OutPacket /\ p.fd = f /\ p.seq = 0 /\ p.len = 0
    <3>1. c \in Conn /\ c.state = "SynSent" /\ c.snd = 1 /\ c.rx = << >>
      BY NoConnOK, Zenon DEF Conn, State
    <3>2. p \in OutPacket /\ p.fd = f /\ p.seq = 0 /\ p.len = 0
      BY DEF OutPacket
    <3>3. QED
      BY <3>1, <3>2
  <2> HIDE DEF c, p
  <2>2. taken[f] = << >> /\ << >> \o << >> = << >>
    BY <1>2 DEF FreshInv
  <2>3. StreamOK(taken[f], c)
    BY <2>1, <2>2 DEF StreamOK, Increasing, Below
  <2>4. Types'
    BY <1>1, <1>2, <1>6, <2>1, TcpAssumption DEF Types, Call, Fd
  <2>5. conns'[f] = c /\ \A g \in Fd : g # f => conns'[g] = conns[g]
    BY <1>6 DEF Types
  <2>6. FreshInv'
    BY <1>1, <1>2, <1>3, <1>6, <2>1, <2>5 DEF FreshInv
  <2>7. NoOrphans' /\ CallInv'
    BY <1>1, <1>2, <1>4, <1>6, <2>5 DEF NoOrphans, CallInv
  <2>8. StreamInv'
    BY <1>1, <2>3, <2>5 DEF StreamInv
  <2>9. SendSpace'
    BY <1>3, <1>6, <2>1, AddPacket DEF SendInv, Types
  <2>10. SendInv'
    BY <1>3, <1>6, <2>1, <2>5, <2>9 DEF SendInv
  <2>11. QED
    BY <2>4, <2>6, <2>7, <2>8, <2>10
<1>7. [Packet(f, {"SYN"}, c, 0) EXCEPT !.seq = 0] = p
  BY DEF Packet
<1>8. QED
  BY <1>5, <1>6, <1>7 DEF Connect

\* A step of a call that is polling: it goes on.
LEMMA GoesOn ==
  ASSUME IInv, call' = call, left > 0, left' = left - 1, nextFd' = nextFd
  PROVE  call' \in Call /\ left' \in 0 .. Polls /\ CallInv'
BY TcpAssumption DEF IInv, Types, CallInv

LEMMA ConnectPollStep ==
  ASSUME IInv, ConnectPoll
  PROVE  IInv'
<1> USE DEF IInv
<1> DEFINE f == call.fd
<1>1. call.op = "connect" /\ left > 0 /\ nextFd' = nextFd /\ out' = out /\ taken' = taken
  BY DEF ConnectPoll
<1>2. f \in Fd /\ f < nextFd
  BY <1>1 DEF CallInv
<1>3. \A g \in Fd : conns[g].state # "None" => g \in opened \/ g = f
  BY <1>1 DEF NoOrphans
<1>4. PICK cs \in Polled :
        \/ /\ cs[f].state = "Established"
           /\ conns' = [cs EXCEPT ![f] = Unflagged(@)]
           /\ acked' = acked \cup PendingAck(cs, f)
           /\ opened' = opened \cup {f}
           /\ Return
        \/ /\ cs[f].state \in {"Established", "Closed"}
           /\ conns' = Drop(cs, f)
           /\ UNCHANGED <<acked, opened>>
           /\ Return
        \/ /\ cs[f].state \notin {"Established", "Closed"}
           /\ conns' = cs
           /\ left' = left - 1
           /\ UNCHANGED <<call, acked, opened>>
  BY DEF ConnectPoll
<1>5. Follows(cs)
  BY PolledFollows
<1>6. CASE /\ conns' = [cs EXCEPT ![f] = Unflagged(@)]
           /\ acked' = acked \cup PendingAck(cs, f)
           /\ opened' = opened \cup {f}
           /\ Return
  <2>1. Follows(conns')
    BY <1>2, <1>5, <1>6, FlushFollows, Zenon
  <2>2. FreshInv' /\ StreamInv' /\ SendInv'
    BY <1>1, <1>2, <1>6, <2>1, FollowStep, Numbers
  <2>3. Types' /\ CallInv'
    BY <1>1, <1>2, <1>6, <2>1, ReturnOK DEF Types, Follows, PendingAck
  <2>4. NoOrphans'
    BY <1>3, <1>6, <2>1 DEF NoOrphans, Follows
  <2>5. QED
    BY <2>2, <2>3, <2>4
<1>7. CASE /\ conns' = Drop(cs, f) /\ UNCHANGED <<acked, opened>> /\ Return
  <2>1. conns' = [cs EXCEPT ![f] = NoConn] /\ opened' = opened /\ acked' = acked
    BY <1>7 DEF Drop
  <2>2. conns' \in [Fd -> Conn] /\ conns'[f] = NoConn /\ \A g \in Fd : g # f => conns'[g] = cs[g]
    BY <1>2, <1>5, <2>1, NoConnOK DEF Follows
  <2>3. ASSUME NEW g \in Fd
        PROVE  /\ StreamOK(taken'[g], conns'[g])
               /\ conns'[g].state # "None" => conns[g].state # "None" /\ conns'[g].snd >= conns[g].snd
               /\ g >= nextFd => conns'[g].state = "None" /\ g \notin opened' /\ taken'[g] = << >>
    <3>1. CASE g = f
      <4>1. StreamOK(taken[f], NoConn)
        BY <1>2, DroppedOK, Numbers DEF StreamInv
      <4>2. QED
        BY <1>1, <1>2, <2>1, <2>2, <3>1, <4>1, NoConnOK DEF FreshInv
    <3>2. CASE g # f
      <4>1. cs[g].snd = conns[g].snd /\ conns[g].snd \in Nat
        BY <1>5, Numbers DEF Follows
      <4>2. QED
        BY <1>1, <1>5, <2>1, <2>2, <3>2, <4>1 DEF Follows, FreshInv
    <3>3. QED
      BY <3>1, <3>2
  <2>4. FreshInv' /\ StreamInv' /\ SendInv'
    BY <1>1, <2>2, <2>3, QuietStep
  <2>5. Types' /\ CallInv'
    BY <1>1, <1>7, <2>1, <2>2, ReturnOK DEF Types
  <2>6. NoOrphans'
    BY <1>3, <1>5, <2>1, <2>2, NoConnOK DEF NoOrphans, Follows
  <2>7. QED
    BY <2>4, <2>5, <2>6
<1>8. CASE conns' = cs /\ left' = left - 1 /\ UNCHANGED <<call, acked, opened>>
  <2>1. Follows(conns')
    BY <1>5, <1>8
  <2>2. FreshInv' /\ StreamInv' /\ SendInv'
    BY <1>1, <1>8, <2>1, FollowStep, Numbers
  <2>3. Types' /\ CallInv'
    BY <1>1, <1>8, <2>1, GoesOn DEF Types, Follows
  <2>4. NoOrphans'
    BY <1>8, <2>1 DEF NoOrphans, Follows
  <2>5. QED
    BY <2>2, <2>3, <2>4
<1>9. QED
  BY <1>4, <1>6, <1>7, <1>8

LEMMA ConnectTimeoutStep ==
  ASSUME IInv, ConnectTimeout
  PROVE  IInv'
<1> USE DEF IInv
<1> DEFINE f == call.fd
<1>1. /\ call.op = "connect" /\ nextFd' = nextFd /\ out' = out /\ taken' = taken
      /\ conns' = [conns EXCEPT ![f] = NoConn] /\ opened' = opened /\ acked' = acked /\ Return
  BY DEF ConnectTimeout, Drop
<1>2. f \in Fd
  BY <1>1 DEF CallInv
<1>3. conns' \in [Fd -> Conn] /\ conns'[f] = NoConn /\ \A g \in Fd : g # f => conns'[g] = conns[g]
  BY <1>1, <1>2, NoConnOK DEF Types
<1>4. ASSUME NEW g \in Fd
      PROVE  /\ StreamOK(taken'[g], conns'[g])
             /\ conns'[g].state # "None" => conns[g].state # "None" /\ conns'[g].snd >= conns[g].snd
             /\ g >= nextFd => conns'[g].state = "None" /\ g \notin opened' /\ taken'[g] = << >>
  <2>1. CASE g = f
    <3>1. StreamOK(taken[f], NoConn)
      BY <1>2, DroppedOK, Numbers DEF StreamInv
    <3>2. QED
      BY <1>1, <1>2, <1>3, <2>1, <3>1, NoConnOK DEF FreshInv
  <2>2. CASE g # f
    BY <1>1, <1>3, <2>2, Numbers DEF FreshInv, StreamInv
  <2>3. QED
    BY <2>1, <2>2
<1>5. FreshInv' /\ StreamInv' /\ SendInv'
  BY <1>1, <1>3, <1>4, QuietStep
<1>6. Types' /\ CallInv'
  BY <1>1, <1>3, ReturnOK DEF Types
<1>7. NoOrphans'
  BY <1>1, <1>3, NoConnOK DEF NoOrphans
<1>8. QED
  BY <1>5, <1>6, <1>7

\* A step that only begins or ends a call.
LEMMA CallStep ==
  ASSUME IInv, UNCHANGED <<conns, nextFd, out, acked, opened, taken>>,
         call.op # "connect", call' \in Call, left' \in 0 .. Polls, CallInv'
  PROVE  IInv'
<1>1. /\ conns' = conns /\ nextFd' = nextFd /\ out' = out /\ acked' = acked
      /\ opened' = opened /\ taken' = taken
  OBVIOUS
<1>2. Types' /\ FreshInv' /\ StreamInv'
  BY <1>1, SMTT(30) DEF IInv, Types, FreshInv, StreamInv
<1>3. SendInv'
  BY <1>1, Zenon DEF IInv, SendInv, SendSpace
<1>4. NoOrphans'
  BY <1>1 DEF IInv, NoOrphans
<1>5. QED
  BY <1>2, <1>3, <1>4 DEF IInv

LEMMA FlushStep ==
  ASSUME IInv, NEW cs, Follows(cs), NEW f \in Fd, Flush(cs, f), out' = out, nextFd' = nextFd,
         taken' = taken, opened' = opened, call.op # "connect"
  PROVE  /\ conns' \in [Fd -> Conn] /\ acked' \subseteq Fd
         /\ FreshInv' /\ StreamInv' /\ SendInv' /\ NoOrphans'
<1>1. Follows(conns')
  BY FlushFollows, Zenon DEF Flush, IInv
<1>2. FreshInv' /\ StreamInv' /\ SendInv'
  BY <1>1, FollowStep, Numbers
<1>3. NoOrphans'
  BY <1>1 DEF NoOrphans, Follows, IInv
<1>4. conns' \in [Fd -> Conn] /\ acked' \subseteq Fd
  BY <1>1 DEF Follows, Flush, PendingAck, IInv, Types
<1>5. QED
  BY <1>2, <1>3, <1>4

LEMMA SendStep ==
  ASSUME IInv, NEW f \in Fd, NEW len \in Lens, Send(f, len)
  PROVE  IInv'
<1> USE DEF IInv
<1> DEFINE n == IF len <= MAX_TCP_SEGMENT THEN len ELSE MAX_TCP_SEGMENT
           c == Unflagged(conns[f])
           d == Sent(c, n)
           p == Packet(f, {"PSH", "ACK"}, c, n)
<1>1. /\ call = Idle /\ f \in opened /\ f < nextFd
      /\ nextFd' = nextFd /\ opened' = opened /\ taken' = taken
  BY Numbers DEF Send
<1>2. n \in Nat \ {0}
  BY TcpAssumption
<1>3. call.op = "idle"
  BY <1>1, SMTT(30) DEF Idle
<1>4. /\ c \in Conn /\ c.state = conns[f].state /\ c.snd = conns[f].snd /\ c.rcv = conns[f].rcv
      /\ c.rx = conns[f].rx /\ StreamOK(taken[f], c) /\ c.snd \in Nat
  BY Numbers, UnflaggedOK, Zenon DEF StreamInv
<1>5. CASE conns[f].state = "Closed" /\ Flush(conns, f) /\ UNCHANGED <<out, call, left>>
  <2>1. Follows(conns)
    BY SMTT(30) DEF Follows, StreamInv, Types
  <2>2. /\ conns' \in [Fd -> Conn] /\ acked' \subseteq Fd
        /\ FreshInv' /\ StreamInv' /\ SendInv' /\ NoOrphans'
    BY <1>1, <1>3, <1>5, <2>1, FlushStep, Zenon
  <2>3. Types' /\ CallInv'
    BY <1>1, <1>5, <2>2 DEF Types, CallInv
  <2>4. QED
    BY <2>2, <2>3
<1>6. CASE /\ conns[f].state \in {"Established", "CloseWait"}
           /\ conns' = [conns EXCEPT ![f] = d]
           /\ \/ /\ out' = out \cup {p} /\ acked' = acked \cup {f}
                 /\ \/ call' = [op |-> "send", fd |-> f, cap |-> 0] /\ left' = Polls
                    \/ UNCHANGED <<call, left>>
              \/ /\ acked' \in {acked, acked \cup PendingAck(conns, f)}
                 /\ UNCHANGED <<out, call, left>>
  <2>1. PICK m \in Nat : m = c.snd + n /\ m > c.snd
    <3>1. PICK u \in Nat : u = c.snd
      BY <1>4, Zenon
    <3>2. PICK v \in Nat \ {0} : v = n
      BY <1>2
    <3> HIDE DEF c, n
    <3>3. c.snd + n \in Nat /\ c.snd + n > c.snd
      BY <3>1, <3>2
    <3>4. QED
      BY <3>3
  <2>2. d = [c EXCEPT !.snd = m]
    BY <2>1, SMTT(30) DEF Sent
  <2>3. /\ p \in OutPacket /\ p.fd = f /\ p.seq = c.snd /\ p.len = n
    BY <1>2, <1>4, Zenon DEF Packet, OutPacket
  <2> HIDE DEF c, d, p, n
  <2>4. d \in Conn /\ d.state = c.state /\ d.snd = m /\ d.rcv = c.rcv /\ d.rx = c.rx
    BY <1>4, <2>2, SMTT(30) DEF Conn
  <2>5. StreamOK(taken[f], d)
    BY <1>4, <2>4, Zenon DEF StreamOK
  <2>6. /\ conns' \in [Fd -> Conn] /\ conns'[f] = d
        /\ \A g \in Fd : g # f => conns'[g] = conns[g]
    BY <1>6, <2>4 DEF Types
  <2>7. StreamInv' /\ NoOrphans'
    BY <1>1, <1>3, <2>5, <2>6, Zenon DEF StreamInv, NoOrphans
  <2>8. ASSUME NEW s \in out
        PROVE  /\ s \in OutPacket /\ s.fd \in Fd /\ s.seq \in Nat /\ s.len \in Nat
               /\ s.fd = f => s.seq < c.snd /\ s.seq + s.len <= c.snd
               /\ conns'[s.fd].state # "None" =>
                    s.seq < conns'[s.fd].snd /\ s.seq + s.len <= conns'[s.fd].snd
    <3>1. s \in OutPacket /\ s.fd \in Fd /\ s.seq \in Nat /\ s.len \in Nat
      BY SMTT(30) DEF Types, OutPacket
    <3>2. s.fd = f => s.seq < c.snd /\ s.seq + s.len <= c.snd
      BY <1>4, <1>6, Zenon DEF SendInv
    <3>3. s.fd = f => s.seq < m /\ s.seq + s.len <= m
      BY <1>4, <2>1, <3>1, <3>2
    <3>4. QED
      BY <2>4, <2>6, <3>1, <3>2, <3>3 DEF SendInv
  <2>9. CASE /\ out' = out \cup {p} /\ acked' = acked \cup {f}
             /\ \/ call' = [op |-> "send", fd |-> f, cap |-> 0] /\ left' = Polls
                \/ UNCHANGED <<call, left>>
    <3>1. SendSpace'
      BY <2>3, <2>8, <2>9, AddPacket, Zenon DEF SendInv, Types
    <3>2. p.seq < d.snd /\ p.seq + p.len <= d.snd
      BY <1>2, <1>4, <2>1, <2>3, <2>4, SMTT(30)
    <3>3. SendInv'
      BY <2>3, <2>6, <2>8, <2>9, <3>1, <3>2, Zenon DEF SendInv
    <3>4. Types' /\ CallInv'
      <4>1. call' \in Call /\ left' \in 0..Polls
        BY <1>1, <2>9, TcpAssumption DEF Call, Fd, Types
      <4>2. out' \subseteq OutPacket /\ acked' \subseteq Fd
        BY <1>1, <2>3, <2>9 DEF Types
      <4>3. Types'
        BY <1>1, <2>6, <4>1, <4>2 DEF Types
      <4>4. CallInv'
        BY <1>1, <2>6, <2>9, TcpAssumption DEF CallInv
      <4>5. QED
        BY <4>3, <4>4, Zenon
    <3>5. FreshInv'
      <4>1. \A g \in Fd : g >= nextFd => g # f
        BY <1>1, Numbers
      <4>2. \A s \in out' : s.fd < nextFd
        BY <1>1, <2>3, <2>9 DEF FreshInv
      <4>3. QED
        BY <1>1, <2>6, <4>1, <4>2, Zenon DEF FreshInv
    <3>6. QED
      BY <2>7, <3>3, <3>4, <3>5, SMTT(30)
  <2>10. CASE /\ acked' \in {acked, acked \cup PendingAck(conns, f)}
              /\ UNCHANGED <<out, call, left>>
    <3>1. SendSpace'
      BY <2>10, SMTT(30) DEF SendInv, SendSpace
    <3>2. SendInv'
      BY <2>8, <2>10, <3>1 DEF SendInv
    <3>3. Types' /\ CallInv'
      BY <1>1, <2>6, <2>10 DEF Types, CallInv, PendingAck
    <3>4. FreshInv'
      BY <1>1, <2>6, <2>10, Numbers DEF FreshInv
    <3>5. QED
      BY <2>7, <3>2, <3>3, <3>4
  <2>11. QED
    BY <1>6, <2>9, <2>10, SMTT(30)
<1>7. QED
  BY <1>4, <1>5, <1>6, Zenon DEF Send

LEMMA SendPollStep ==
  ASSUME IInv, SendPoll
  PROVE  IInv'
<1> USE DEF IInv
<1>1. /\ call.op = "send" /\ left > 0 /\ left' = left - 1 /\ call' = call /\ out' = out
      /\ nextFd' = nextFd /\ opened' = opened /\ taken' = taken
  BY DEF SendPoll
<1>2. call.fd \in Fd
  BY <1>1 DEF CallInv
<1>3. PICK cs \in Polled : Flush(cs, call.fd)
  BY DEF SendPoll
<1>4. Follows(cs)
  BY PolledFollows
<1>5. /\ conns' \in [Fd -> Conn] /\ acked' \subseteq Fd
      /\ FreshInv' /\ StreamInv' /\ SendInv' /\ NoOrphans'
  BY <1>1, <1>2, <1>3, <1>4, FlushStep
<1>6. Types' /\ CallInv'
  BY <1>1, <1>5, GoesOn DEF Types
<1>7. QED
  BY <1>5, <1>6

LEMMA RecvStep ==
  ASSUME IInv, NEW f \in Fd, NEW cap \in Caps, Recv(f, cap)
  PROVE  IInv'
<1>1. /\ call = Idle /\ f \in opened /\ f < nextFd
      /\ call' = [op |-> "recv", fd |-> f, cap |-> cap] /\ left' = Polls
      /\ UNCHANGED <<conns, nextFd, out, acked, opened, taken>>
  BY Numbers DEF Recv
<1>2. call' \in Call /\ left' \in 0 .. Polls
  BY <1>1, TcpAssumption DEF Call, Fd
<1>3. CallInv' /\ call.op # "connect"
  BY <1>1, SMTT(30) DEF CallInv, Idle
<1>4. QED
  BY <1>1, <1>2, <1>3, CallStep

LEMMA RecvPollStep ==
  ASSUME IInv, RecvPoll
  PROVE  IInv'
<1> USE DEF IInv
<1> DEFINE f == call.fd
           c == conns[f]
           n == IF call.cap <= Len(c.rx) THEN call.cap ELSE Len(c.rx)
<1>1. call.op = "recv" /\ left > 0 /\ nextFd' = nextFd /\ out' = out /\ opened' = opened
  BY Zenon DEF RecvPoll
<1>2. f \in Fd /\ f < nextFd
  BY <1>1 DEF CallInv
<1>3. CASE /\ c.rx # << >>
           /\ taken' = [taken EXCEPT ![f] = @ \o SubSeq(c.rx, 1, n)]
           /\ conns' = [conns EXCEPT ![f].rx = SubSeq(@, n + 1, Len(@))]
           /\ Return
           /\ UNCHANGED acked
  <2> DEFINE t == taken[f] \o SubSeq(c.rx, 1, n)
             r == SubSeq(c.rx, n + 1, Len(c.rx))
             d == [c EXCEPT !.rx = r]
  <2>1. taken[f] \in Seq(Byte) /\ c \in Conn /\ c.rx \in Seq(Byte) /\ Len(c.rx) \in Nat
    BY <1>2, Numbers DEF Conn
  <2>2. n \in 0 .. Len(c.rx)
    <3>1. call \in Call /\ Caps \subseteq Nat
      BY TcpAssumption DEF Types
    <3>2. call.cap \in Caps \cup {0}
      BY <3>1 DEF Call
    <3>3. PICK k \in Nat : k = call.cap
      BY <3>1, <3>2, Zenon
    <3>4. QED
      BY <2>1, <3>3
  <2>3. SubSeq(c.rx, 1, n) \in Seq(Byte) /\ r \in Seq(Byte) /\ t \o r = taken[f] \o c.rx
    <3>1. PICK x \in Seq(Byte), k \in Nat : x = c.rx /\ k = n /\ k \in 0 .. Len(x)
      BY <2>1, <2>2, SMTT(30)
    <3>2. /\ SubSeq(x, 1, k) \in Seq(Byte) /\ SubSeq(x, k + 1, Len(x)) \in Seq(Byte)
          /\ (taken[f] \o SubSeq(x, 1, k)) \o SubSeq(x, k + 1, Len(x)) = taken[f] \o x
      BY <2>1, <3>1, TakeFront, ZenonT(30)
    <3>3. QED
      BY <3>1, <3>2, Zenon
  <2>4. t \in Seq(Byte)
    BY <2>1, <2>3, ConcatProperties, Zenon
  <2>5. taken' = [taken EXCEPT ![f] = t] /\ conns' = [conns EXCEPT ![f] = d]
    BY <1>2, <1>3, <2>1, Zenon DEF Types
  <2> HIDE DEF t, r, n
  <2>6. d \in Conn /\ d.state = c.state /\ d.snd = c.snd /\ d.rcv = c.rcv /\ d.rx = r
    BY <2>1, <2>3, Zenon DEF Conn
  <2> HIDE DEF d
  <2>7. c.state # "None"
    BY <1>2, <1>3, Zenon DEF StreamInv, StreamOK
  <2>8. StreamOK(t, d)
    BY <1>2, <2>3, <2>6, <2>7, Zenon DEF StreamInv, StreamOK
  <2>9. /\ conns' \in [Fd -> Conn] /\ conns'[f] = d /\ taken' \in [Fd -> Seq(Byte)]
        /\ taken'[f] = t
        /\ \A g \in Fd : g # f => conns'[g] = conns[g] /\ taken'[g] = taken[g]
    BY <1>2, <2>4, <2>5, <2>6 DEF Types
  <2>10. ASSUME NEW g \in Fd
         PROVE  /\ StreamOK(taken'[g], conns'[g])
                /\ conns'[g].state # "None" => conns[g].state # "None" /\ conns'[g].snd >= conns[g].snd
                /\ g >= nextFd => conns'[g].state = "None" /\ g \notin opened' /\ taken'[g] = << >>
    <3>1. CASE g = f
      <4>1. ~ (f >= nextFd) /\ d.snd >= c.snd
        BY <1>2, <2>6, Numbers
      <4>2. QED
        BY <2>6, <2>7, <2>8, <2>9, <3>1, <4>1, Zenon
    <3>2. CASE g # f
      BY <1>1, <2>9, <3>2, Numbers, SMTT(30) DEF FreshInv, StreamInv
    <3>3. QED
      BY <3>1, <3>2
  <2>11. FreshInv' /\ StreamInv' /\ SendInv'
    BY <1>1, <2>9, <2>10, QuietStep, Zenon
  <2>12. Types' /\ CallInv'
    BY <1>1, <1>3, <2>9, ReturnOK DEF Types
  <2>13. NoOrphans'
    BY <1>1, <2>6, <2>9 DEF NoOrphans
  <2>14. QED
    BY <2>11, <2>12, <2>13
<1>4. CASE Return /\ UNCHANGED <<conns, acked, taken>>
  BY <1>1, <1>4, ReturnOK, CallStep
<1>5. CASE /\ \E cs \in Polled : Flush(cs, f)
           /\ left' = left - 1
           /\ UNCHANGED <<call, taken>>
  <2>1. PICK cs \in Polled : Flush(cs, f)
    BY <1>5
  <2>2. Follows(cs)
    BY PolledFollows
  <2>3. /\ conns' \in [Fd -> Conn] /\ acked' \subseteq Fd
        /\ FreshInv' /\ StreamInv' /\ SendInv' /\ NoOrphans'
    BY <1>1, <1>2, <1>5, <2>1, <2>2, FlushStep
  <2>4. Types' /\ CallInv'
    BY <1>1, <1>5, <2>3, GoesOn DEF Types
  <2>5. QED
    BY <2>3, <2>4
<1>6. QED
  BY <1>3, <1>4, <1>5, ZenonT(30) DEF RecvPoll

LEMMA CloseStep ==
  ASSUME IInv, NEW f \in Fd, Close(f)
  PROVE  IInv'
<1> USE DEF IInv
<1> DEFINE c == conns[f]
           p == Packet(f, {"FIN", "ACK"}, c, 0)
<1>1. /\ call = Idle /\ f \in opened /\ f < nextFd
      /\ conns' = [conns EXCEPT ![f] = NoConn] /\ opened' = opened \ {f}
      /\ nextFd' = nextFd /\ call' = call /\ left' = left /\ acked' = acked /\ taken' = taken
      /\ (out' = out \/ (c.state \in {"Established", "CloseWait"} /\ out' = out \cup {p}))
  BY Numbers DEF Close, Drop
<1>2. call.op = "idle"
  BY <1>1, SMTT(30) DEF Idle
<1>3. /\ conns' \in [Fd -> Conn] /\ conns'[f] = NoConn
      /\ \A g \in Fd : g # f => conns'[g] = conns[g]
  BY <1>1, NoConnOK, Zenon DEF Types
<1>4. StreamOK(taken[f], NoConn)
  BY DroppedOK, Numbers, SMTT(30) DEF StreamInv
<1>5. StreamInv' /\ NoOrphans'
  BY <1>1, <1>2, <1>3, <1>4, NoConnOK, Zenon DEF StreamInv, NoOrphans
<1>6. p \in OutPacket /\ p.fd = f /\ p.seq = c.snd /\ c.snd \in Nat
  BY Numbers, Zenon DEF Packet, OutPacket
<1> HIDE DEF p
<1>7. Types' /\ CallInv'
  BY <1>1, <1>3, <1>6, SMTT(30) DEF Types, CallInv
<1>8. FreshInv'
  BY <1>1, <1>3, <1>6, NoConnOK, Zenon DEF FreshInv
<1>9. SendSpace'
  <2>1. CASE out' = out
    BY <2>1 DEF SendInv, SendSpace
  <2>2. CASE c.state \in {"Established", "CloseWait"} /\ out' = out \cup {p}
    <3>1. \A s \in out : s.fd = p.fd => s.seq < p.seq /\ s.seq + s.len <= p.seq
      BY <1>6, <2>2 DEF SendInv
    <3>2. QED
      BY <1>6, <2>2, <3>1, AddPacket, SMTT(30) DEF SendInv, Types
  <2>3. QED
    BY <1>1, <2>1, <2>2, SMTT(30)
<1>10. SendInv'
  <2>1. \A s \in out : s.fd \in Fd
    BY DEF Types, OutPacket
  <2>2. QED
    BY <1>1, <1>3, <1>6, <1>9, <2>1, NoConnOK, Zenon DEF SendInv
<1>11. QED
  BY <1>5, <1>7, <1>8, <1>10

LEMMA NextInv == IInv /\ [Next]_vars => IInv'
<1> SUFFICES ASSUME IInv, [Next]_vars PROVE IInv'
  BY SMTT(30)
<1>1. CASE UNCHANGED vars
  BY <1>1, Zenon DEF vars, IInv, Types, FreshInv, NoOrphans, CallInv, StreamInv, SendInv, SendSpace
<1>2. CASE SendDone
  BY <1>2, ReturnOK, CallStep DEF SendDone
<1>3. CASE RecvTimeout
  BY <1>3, ReturnOK, CallStep DEF RecvTimeout
<1>4. QED
  BY <1>1, <1>2, <1>3, ConnectStep, CloseStep, SendStep, RecvStep, ConnectPollStep,
     ConnectTimeoutStep, SendPollStep, RecvPollStep DEF Next

\* IInv is an invariant of tcp.rs: the table of connections, the call in
\* progress, the streams read so far and the segments sent agree.
THEOREM Invariance == Spec => []IInv
BY InitInv, NextInv, PTL DEF Spec

\* The table of connections is sound: a connect that failed, was reset or timed
\* out leaves nothing behind that a late answer of the peer could complete.
THEOREM ConnectionsAreSound == Spec => []ConnsSound
<1>1. IInv => ConnsSound
  BY Zenon DEF IInv, Types, ConnsSound, TypeOK, Conn, State, Call, Byte
<1>2. QED
  BY <1>1, Invariance, PTL

\* What the program reads is the peer's stream in order, without a byte twice,
\* whatever the network does to the segments.
THEOREM StreamsAreSound == Spec => []StreamSound
<1>1. IInv => StreamSound
  BY Zenon DEF IInv, StreamInv, StreamOK, StreamSound, StreamInOrder, NoByteTwice, Got, Increasing
<1>2. QED
  BY <1>1, Invariance, PTL

\* No sequence number is used for two bytes, and a FIN comes after all of them.
THEOREM SendSpaceHolds == Spec => []SendSpace
<1>1. IInv => SendSpace
  BY Zenon DEF IInv, SendInv
<1>2. QED
  BY <1>1, Invariance, PTL

=============================================================================
