-------------------------------- MODULE Tcp --------------------------------
(***************************************************************************)
(* TCP, kernel/net/tcp.rs: connect, send, recv, close and handle_packet,   *)
(* against peers behind a network that loses, repeats, delays and reorders *)
(* segments.  A system call that polls is not preempted, so that one call  *)
(* is in progress at a time; each turn of its loop receives at most one    *)
(* frame, which may belong to any connection.                              *)
(*                                                                         *)
(* Abstractions.  NEXT_FD and NEXT_PORT advance together: a connection is  *)
(* named by its fd.  Sequence numbers are relative to the initial one of   *)
(* their side.  The n-th byte a peer sends is the number n.  A segment     *)
(* with a bad header or checksum, or for no connection, is dropped and is  *)
(* not distinguished from a turn without a frame.  A network that may do   *)
(* anything to a segment is represented by what the peers can have sent.   *)
(***************************************************************************)
EXTENDS Naturals, Sequences

CONSTANTS
  MaxConns,        \* bound: calls of connect
  PeerLen,         \* bound: length of the stream a peer sends
  MaxSnd,          \* bound: bytes sent on a connection
  MaxRcv,          \* bound: rcv_nxt, which every FIN advances
  MAX_TCP_SEGMENT, \* longest payload
  Lens,            \* lengths of the data send is given
  Caps,            \* sizes of the buffers recv is given
  Polls            \* turns of a polling loop

\* send refuses an empty buffer; the rest are natural numbers.
ASSUME TcpAssumption ==
  /\ MaxConns \in Nat /\ PeerLen \in Nat /\ MaxSnd \in Nat /\ MaxRcv \in Nat
  /\ MAX_TCP_SEGMENT \in Nat \ {0} /\ Lens \subseteq Nat \ {0}
  /\ Caps \subseteq Nat /\ Polls \in Nat

VARIABLES
  conns,  \* TCP_STACK.conns
  nextFd, \* NEXT_FD
  call,   \* the system call in progress
  left,   \* turns its loop still has
  out,    \* history: segments that take sequence numbers and were transmitted
  acked,  \* history: connections with an acknowledgement transmitted
  opened, \* history: fds connect returned and close was not called for
  taken   \* history: what recv returned

vars == <<conns, nextFd, call, left, out, acked, opened, taken>>

Fd == 1 .. MaxConns

\* A connection that is not in conns has state None.
NoConn == [state |-> "None", snd |-> 0, rcv |-> 0, pend |-> FALSE, rx |-> << >>]

Idle == [op |-> "idle", fd |-> 0, cap |-> 0]

Init ==
  /\ conns = [f \in Fd |-> NoConn]
  /\ nextFd = 1
  /\ call = Idle /\ left = 0
  /\ out = {} /\ acked = {} /\ opened = {}
  /\ taken = [f \in Fd |-> << >>]

-----------------------------------------------------------------------------
(* What the peers send.                                                    *)

Bytes(i, j) == [k \in 1 .. (j - i + 1) |-> i + k - 1]

Segment(f, flags, seq, data) == [fd |-> f, flags |-> flags, seq |-> seq, ack |-> 1, data |-> data]

\* The peer answers a SYN, perhaps with a reset; once the handshake is complete
\* it sends its stream in any pieces, any of them again, and a FIN at its end.
PeerSegments(f) ==
  (IF \E s \in out : s.fd = f /\ "SYN" \in s.flags
   THEN {Segment(f, {"SYN", "ACK"}, 0, << >>), Segment(f, {"RST"}, 1, << >>)} ELSE {})
  \cup
  (IF f \in acked
   THEN {Segment(f, {"ACK"}, i, Bytes(i, j)) : i \in 1 .. PeerLen, j \in 1 .. PeerLen}
   ELSE {})
  \cup
  (IF f \in acked /\ conns[f].rcv < MaxRcv
   THEN {Segment(f, {"FIN", "ACK"}, i, Bytes(i, PeerLen)) : i \in 1 .. (PeerLen + 1)}
   ELSE {})

-----------------------------------------------------------------------------
(* handle_packet, poll_once and the pending acknowledgement.               *)

\* The payload is taken when it is the next of the stream.
Buffered(c, s) ==
  IF s.data # << >> /\ s.seq = c.rcv
  THEN [c EXCEPT !.rx = @ \o s.data, !.rcv = @ + Len(s.data), !.pend = TRUE]
  ELSE c

\* Mutant of Finished: rcv_nxt is set from the segment, its payload forgotten.
MutFinSeq(c, s) ==
  IF "FIN" \in s.flags
  THEN [c EXCEPT !.rcv = s.seq + 1, !.state = "CloseWait", !.pend = TRUE]
  ELSE c

\* A FIN ends the stream, wherever it is in it.
Finished(c, s) ==
  IF "FIN" \in s.flags
  THEN [c EXCEPT !.rcv = @ + 1, !.state = "CloseWait", !.pend = TRUE]
  ELSE c

\* handle_packet for the connection c the segment s belongs to.
HandlePacket(c, s) ==
  IF "RST" \in s.flags THEN [c EXCEPT !.state = "Closed"]
  ELSE IF c.state = "SynSent" /\ {"SYN", "ACK"} \subseteq s.flags /\ s.ack = c.snd
  THEN [c EXCEPT !.rcv = s.seq + 1, !.state = "Established", !.pend = TRUE]
  ELSE IF c.state \in {"Established", "CloseWait"} THEN Finished(Buffered(c, s), s)
  ELSE c

\* The connections after poll_once.
Polled ==
  {conns} \cup
  UNION {{[conns EXCEPT ![f] = HandlePacket(@, s)] : s \in PeerSegments(f)} :
         f \in {g \in Fd : conns[g].state # "None"}}

\* A segment of ours; the acknowledgement it carries is always rcv_nxt.
Packet(f, flags, c, len) == [fd |-> f, flags |-> flags, seq |-> c.snd, len |-> len]

\* pending_ack_info takes the flag back before the segment is sent.
Unflagged(c) == [c EXCEPT !.pend = FALSE]

PendingAck(cs, f) == IF cs[f].pend THEN {f} ELSE {}

\* flush_pending_ack where its result is ignored: the segment may not get out.
Flush(cs, f) ==
  /\ conns' = [cs EXCEPT ![f] = Unflagged(@)]
  /\ acked' \in {acked, acked \cup PendingAck(cs, f)}

Drop(cs, f) == [cs EXCEPT ![f] = NoConn]

Return == call' = Idle /\ left' = 0

-----------------------------------------------------------------------------
(* The system calls.                                                       *)

\* connect up to its loop, for a peer whose MAC address is known.
Connect(f) ==
  LET c == [NoConn EXCEPT !.state = "SynSent", !.snd = 1]
  IN  /\ call = Idle /\ f = nextFd
      /\ nextFd' = f + 1
      /\ \/ /\ conns' = [conns EXCEPT ![f] = c]
            /\ out' = out \cup {[Packet(f, {"SYN"}, c, 0) EXCEPT !.seq = 0]}
            /\ call' = [op |-> "connect", fd |-> f, cap |-> 0]
            /\ left' = Polls
         \/ UNCHANGED <<conns, out, call, left>>
      /\ UNCHANGED <<acked, opened, taken>>

\* One turn of the loop of connect.  The SYN it repeats now and then is in out.
ConnectPoll ==
  /\ call.op = "connect" /\ left > 0
  /\ \E cs \in Polled :
       LET f == call.fd
       IN  \/ /\ cs[f].state = "Established"
              /\ conns' = [cs EXCEPT ![f] = Unflagged(@)]
              /\ acked' = acked \cup PendingAck(cs, f)
              /\ opened' = opened \cup {f}
              /\ Return
           \/ /\ cs[f].state \in {"Established", "Closed"}
              /\ conns' = Drop(cs, f)
              /\ UNCHANGED <<acked, opened>>
              /\ Return
           \/ /\ cs[f].state \notin {"Established", "Closed"}
              /\ conns' = cs
              /\ left' = left - 1
              /\ UNCHANGED <<call, acked, opened>>
  /\ UNCHANGED <<nextFd, out, taken>>

\* Mutant of ConnectTimeout: the connection is not dropped.
MutKeepConn ==
  /\ call.op = "connect" /\ left = 0
  /\ Return
  /\ UNCHANGED <<conns, nextFd, out, acked, opened, taken>>

ConnectTimeout ==
  /\ call.op = "connect" /\ left = 0
  /\ conns' = Drop(conns, call.fd)
  /\ Return
  /\ UNCHANGED <<nextFd, out, acked, opened, taken>>

\* Mutant of Sent: the sequence number moves on by one segment, not by its bytes.
MutSegments(c, n) == [c EXCEPT !.snd = @ + 1]

Sent(c, n) == [c EXCEPT !.snd = @ + n]

\* send up to its loop.  The acknowledgement that is due goes first; snd_nxt is
\* advanced before the segment is transmitted, which may fail.  When it fails
\* because the driver gave up waiting, the device may still send the frame.
Send(f, len) ==
  LET n == IF len <= MAX_TCP_SEGMENT THEN len ELSE MAX_TCP_SEGMENT
      c == Unflagged(conns[f])
  IN  /\ call = Idle /\ f \in opened /\ c.snd + n <= MaxSnd + 1
      /\ \/ /\ c.state \in {"Established", "CloseWait"}
            /\ conns' = [conns EXCEPT ![f] = Sent(c, n)]
            /\ \/ /\ out' = out \cup {Packet(f, {"PSH", "ACK"}, c, n)}
                  /\ acked' = acked \cup {f}
                  /\ \/ call' = [op |-> "send", fd |-> f, cap |-> 0] /\ left' = Polls
                     \/ UNCHANGED <<call, left>>
               \/ /\ acked' \in {acked, acked \cup PendingAck(conns, f)}
                  /\ UNCHANGED <<out, call, left>>
         \/ /\ c.state = "Closed"
            /\ Flush(conns, f)
            /\ UNCHANGED <<out, call, left>>
      /\ UNCHANGED <<nextFd, opened, taken>>

SendPoll ==
  /\ call.op = "send" /\ left > 0
  /\ \E cs \in Polled : Flush(cs, call.fd)
  /\ left' = left - 1
  /\ UNCHANGED <<nextFd, call, out, opened, taken>>

SendDone ==
  /\ call.op = "send" /\ left = 0
  /\ Return
  /\ UNCHANGED <<conns, nextFd, out, acked, opened, taken>>

Recv(f, cap) ==
  /\ call = Idle /\ f \in opened
  /\ call' = [op |-> "recv", fd |-> f, cap |-> cap]
  /\ left' = Polls
  /\ UNCHANGED <<conns, nextFd, out, acked, opened, taken>>

\* One turn of the loop of recv: data, the end of the stream, or a poll.
RecvPoll ==
  LET f == call.fd
      c == conns[f]
      n == IF call.cap <= Len(c.rx) THEN call.cap ELSE Len(c.rx)
  IN  /\ call.op = "recv" /\ left > 0
      /\ \/ /\ c.rx # << >>
            /\ taken' = [taken EXCEPT ![f] = @ \o SubSeq(c.rx, 1, n)]
            /\ conns' = [conns EXCEPT ![f].rx = SubSeq(@, n + 1, Len(@))]
            /\ Return
            /\ UNCHANGED acked
         \/ /\ c.rx = << >> /\ c.state \in {"CloseWait", "Closed"}
            /\ Return
            /\ UNCHANGED <<conns, acked, taken>>
         \/ /\ c.rx = << >> /\ c.state \notin {"CloseWait", "Closed"}
            /\ \E cs \in Polled : Flush(cs, f)
            /\ left' = left - 1
            /\ UNCHANGED <<call, taken>>
      /\ UNCHANGED <<nextFd, out, opened>>

RecvTimeout ==
  /\ call.op = "recv" /\ left = 0
  /\ Return
  /\ UNCHANGED <<conns, nextFd, out, acked, opened, taken>>

Close(f) ==
  /\ call = Idle /\ f \in opened
  /\ conns' = Drop(conns, f)
  /\ opened' = opened \ {f}
  /\ \/ UNCHANGED out
     \/ /\ conns[f].state \in {"Established", "CloseWait"}
        /\ out' = out \cup {Packet(f, {"FIN", "ACK"}, conns[f], 0)}
  /\ UNCHANGED <<nextFd, call, left, acked, taken>>

-----------------------------------------------------------------------------

Next ==
  \/ \E f \in Fd :
       \/ Connect(f) \/ Close(f)
       \/ \E len \in Lens : Send(f, len)
       \/ \E cap \in Caps : Recv(f, cap)
  \/ ConnectPoll \/ ConnectTimeout \/ SendPoll \/ SendDone \/ RecvPoll \/ RecvTimeout

Spec == Init /\ [][Next]_vars

-----------------------------------------------------------------------------

\* Type invariant of the connections and of the call in progress.
TypeOK ==
  /\ conns \in [Fd -> [state : {"None", "SynSent", "Established", "CloseWait", "Closed"},
                      snd : Nat, rcv : Nat, pend : BOOLEAN, rx : Seq(1 .. PeerLen)]]
  /\ nextFd \in 1 .. (MaxConns + 1)
  /\ call \in [op : {"idle", "connect", "send", "recv"}, fd : 0 .. MaxConns, cap : Caps \cup {0}]
  /\ left \in 0 .. Polls
  /\ opened \subseteq Fd /\ acked \subseteq Fd
  /\ taken \in [Fd -> Seq(1 .. PeerLen)]

\* What the program and the buffer of connection f have got.
Got(f) == taken[f] \o conns[f].rx

\* Until a FIN is taken, what recv has returned and what it will return next is
\* the beginning of the peer's stream, and rcv_nxt, which acknowledgements
\* carry, says how much of it: repeated, reordered and overlapping segments
\* neither add, skip nor repeat a byte.
StreamInOrder ==
  \A f \in Fd : conns[f].state = "Established" => Got(f) = Bytes(1, conns[f].rcv - 1)

\* After a FIN was taken, early or repeatedly, bytes may be missing from what
\* the program gets, but none comes twice or after a later one: handle_packet
\* never lets rcv_nxt fall back behind what it has buffered.
NoByteTwice ==
  \A f \in Fd : \A i, j \in DOMAIN Got(f) : i < j => Got(f)[i] < Got(f)[j]

\* What handle_packet makes of the segments of a peer behind a bad network, before
\* and after a FIN.
StreamSound == StreamInOrder /\ NoByteTwice

\* No sequence number is given to two bytes, whichever transmissions failed in
\* between, and a FIN comes after all of them.
SendSpace ==
  \A s, u \in out :
    s.fd = u.fd /\ s.len > 0 /\ s.seq <= u.seq =>
      s = u \/ s.seq + s.len <= u.seq

\* A connection that no call is opening is one the program has an fd for: a
\* connect that failed, was reset or timed out leaves nothing that a late
\* answer of the peer could complete.
NoOrphans ==
  \A f \in Fd : conns[f].state # "None" =>
    f \in opened \/ (call.op = "connect" /\ call.fd = f)

\* The table of connections: of the types above, and without leftovers of a
\* connect that failed.
ConnsSound == TypeOK /\ NoOrphans

=============================================================================
