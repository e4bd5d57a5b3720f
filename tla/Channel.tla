------------------------------ MODULE Channel ------------------------------
(***************************************************************************)
(* The message channels of kernel/syscall/chan.rs.  A system call is never *)
(* preempted and none of these blocks, so that each is one step whoever    *)
(* makes it.  A message is its length and its contents; a user buffer is   *)
(* null or not, and its range below USER_MAX or not.                       *)
(***************************************************************************)
EXTENDS Naturals, Sequences

CONSTANTS
  Data,           \* contents of messages
  Lens,           \* lengths and buffer sizes the programs pass
  MAX_MSG,        \* longest message
  MAX_QUEUE_MSGS, \* messages a channel holds
  MaxChan,        \* bound: channels created
  MaxSent         \* bound: messages accepted by one channel

ASSUME ChannelAssumption ==
  /\ Lens \subseteq Nat
  /\ MAX_MSG \in Nat \ {0} /\ MAX_QUEUE_MSGS \in Nat \ {0}
  /\ MaxChan \in Nat /\ MaxSent \in Nat

VARIABLES
  nextChanId, \* NEXT_CHAN_ID
  q,          \* Chan.q of every channel, CHANS holding those below NEXT_CHAN_ID
  ret,        \* what the last call returned
  sent,       \* history: the messages accepted by each channel
  popped      \* history: the messages taken off each channel

chanVars == <<nextChanId, q, ret, sent, popped>>

ChanId == 1 .. MaxChan

Message == [len : Nat, data : Data]

Ret == {"ok", "empty", "EINVAL", "EFAULT", "ESRCH", "EAGAIN"}

ChanInit ==
  /\ nextChanId = 1
  /\ q = [c \in ChanId |-> << >>]
  /\ ret = "ok"
  /\ sent = [c \in ChanId |-> << >>]
  /\ popped = [c \in ChanId |-> << >>]

\* sys_chan_create
SysChanCreate ==
  /\ nextChanId \in ChanId
  /\ nextChanId' = nextChanId + 1
  /\ ret' = "ok"
  /\ UNCHANGED <<q, sent, popped>>

\* copy_user_struct fails: the first thing every call does.
ArgsFault ==
  /\ ret' = "EFAULT"
  /\ UNCHANGED <<nextChanId, q, sent, popped>>

Full(c) == Len(q[c]) >= MAX_QUEUE_MSGS

\* The early returns of sys_chan_send, in their order.  "empty" is the 0 that
\* a message without contents gets.
SendRet(id, null, rangeOk, len) ==
  CASE id = 0 -> "EINVAL"
    [] id # 0 /\ null -> "EFAULT"
    [] id # 0 /\ ~null /\ len = 0 -> "empty"
    [] id # 0 /\ ~null /\ len > MAX_MSG -> "EINVAL"
    [] id # 0 /\ ~null /\ len \in 1 .. MAX_MSG ->
         IF ~rangeOk THEN "EFAULT"
         ELSE IF id >= nextChanId THEN "ESRCH"
         ELSE IF Full(id) THEN "EAGAIN" ELSE "ok"

SysChanSend(id, null, rangeOk, len, data) ==
  /\ ret' = SendRet(id, null, rangeOk, len)
  /\ \/ /\ ret' = "ok"
        /\ q' = [q EXCEPT ![id] = Append(@, [len |-> len, data |-> data])]
        /\ sent' = [sent EXCEPT ![id] = Append(@, [len |-> len, data |-> data])]
     \/ /\ ret' # "ok"
        /\ UNCHANGED <<q, sent>>
  /\ UNCHANGED <<nextChanId, popped>>

\* Mutant of Fits: the buffer has to be larger than the message.
MutFitsStrictly(c, cap) == Head(q[c]).len < cap

Fits(c, cap) == Head(q[c]).len <= cap

\* The early returns of sys_chan_recv, up to the pop.  The two ways out_ptr can
\* be bad differ: null is refused at once, a bad range only by copy_to_user.
RecvRet(id, null, cap) ==
  CASE id = 0 -> "EINVAL"
    [] id # 0 /\ null -> "EFAULT"
    [] id # 0 /\ ~null /\ cap = 0 -> "empty"
    [] id # 0 /\ ~null /\ cap # 0 ->
         IF id >= nextChanId THEN "ESRCH"
         ELSE IF q[id] = << >> THEN "EAGAIN"
         ELSE IF ~Fits(id, cap) THEN "EINVAL" ELSE "ok"

\* Mutant of Rest: the newest message is removed instead of the oldest.
MutPopBack(c) == SubSeq(q[c], 1, Len(q[c]) - 1)

Rest(c) == Tail(q[c])

\* The message is popped before it is copied: when copy_to_user refuses the
\* range the call fails and the message is gone.
SysChanRecv(id, null, rangeOk, cap) ==
  /\ \/ /\ RecvRet(id, null, cap) # "ok"
        /\ ret' = RecvRet(id, null, cap)
        /\ UNCHANGED <<q, popped>>
     \/ /\ RecvRet(id, null, cap) = "ok"
        /\ ret' = IF rangeOk THEN "ok" ELSE "EFAULT"
        /\ q' = [q EXCEPT ![id] = Rest(id)]
        /\ popped' = [popped EXCEPT ![id] = Append(@, Head(q[id]))]
  /\ UNCHANGED <<nextChanId, sent>>

ChanNext ==
  \/ SysChanCreate
  \/ ArgsFault
  \/ \E id \in 0 .. MaxChan, null, rangeOk \in BOOLEAN, len \in Lens, data \in Data :
        /\ id # 0 => Len(sent[id]) < MaxSent
        /\ SysChanSend(id, null, rangeOk, len, data)
  \/ \E id \in 0 .. MaxChan, null, rangeOk \in BOOLEAN, cap \in Lens :
        SysChanRecv(id, null, rangeOk, cap)

ChanSpec == ChanInit /\ [][ChanNext]_chanVars

\* Some receiver keeps polling every channel with a buffer that takes the
\* longest message.
Poll(id) == SysChanRecv(id, FALSE, TRUE, MAX_MSG)

ChanFairSpec == ChanSpec /\ \A id \in ChanId : WF_chanVars(Poll(id))

-----------------------------------------------------------------------------

\* Type invariant of CHANS and NEXT_CHAN_ID.
ChanTypeOK ==
  /\ nextChanId \in 1 .. (MaxChan + 1)
  /\ q \in [ChanId -> Seq(Message)]
  /\ ret \in Ret
  /\ sent \in [ChanId -> Seq(Message)]
  /\ popped \in [ChanId -> Seq(Message)]

\* A channel never holds more than MAX_QUEUE_MSGS messages, none longer than
\* MAX_MSG or empty, and an id that sys_chan_create has not returned none at all.
QueueBounded ==
  \A c \in ChanId :
    /\ Len(q[c]) <= MAX_QUEUE_MSGS
    /\ c >= nextChanId => q[c] = << >>
    /\ \A i \in 1 .. Len(q[c]) : q[c][i].len \in 1 .. MAX_MSG

\* What a channel has accepted is what was taken off it, in that order, and then
\* what it still holds: no message is duplicated, overtaken, or moved to another
\* channel, whoever sends and receives and with whatever buffers.
Fifo ==
  \A c \in ChanId : sent[c] = popped[c] \o q[c]

\* The channels together: what sys_chan_send and sys_chan_recv do to a queue at
\* its limit, with short buffers and with copies that fail keeps it a bounded
\* queue in order.
ChanSound == ChanTypeOK /\ QueueBounded /\ Fifo

\* A message at the front too long for some receivers does not block those
\* behind it for good: one receiver with a full-size buffer drains the channel.
Drained ==
  \A c \in ChanId : \A n \in 1 .. MaxSent :
    Len(sent[c]) >= n ~> Len(popped[c]) >= n

=============================================================================
