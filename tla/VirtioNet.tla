----------------------------- MODULE VirtioNet -----------------------------
(***************************************************************************)
(* The network driver, kernel/drivers/virtio/net.rs, with the device on    *)
(* the other side of its two queues.  NET_DEV is locked for the whole of   *)
(* send_frame and recv_frame, so that the driver is one thread; the device *)
(* runs concurrently with it.                                              *)
(*                                                                         *)
(* A frame is a value with a length.  The transmit buffer is one page that *)
(* all frames share: the device reads it when it takes the descriptor.     *)
(***************************************************************************)
EXTENDS VirtQueue

CONSTANTS
  Frame,         \* the frames sent and received
  None,          \* the contents of a buffer not yet written
  FrameLen(_),   \* their lengths
  MAX_FRAME_LEN, \* longest frame that fits behind the header
  Caps,          \* sizes of the buffers recv_frame is given
  MaxSends,      \* bound: calls of send_frame that reach the queue
  MaxArrivals    \* bound: frames the device receives

\* Lengths, the sizes of buffers and the bounds are natural numbers.
ASSUME FrameAssumption ==
  /\ \A f \in Frame : FrameLen(f) \in Nat
  /\ MAX_FRAME_LEN \in Nat /\ Caps \subseteq Nat
  /\ MaxSends \in Nat /\ MaxArrivals \in Nat

VARIABLES
  tx, rx,    \* txq and rxq
  txBuf,     \* contents of tx_buf
  txLen,     \* len of each descriptor of txq
  rxBuf,     \* contents of rx_bufs
  pc,        \* where the driver is
  cur,       \* d in send_frame, id in recycle_rx
  frame,     \* the argument of send_frame
  panicked,  \* alloc_desc has panicked
  timeouts,  \* history: sends that timed out
  accepted,  \* history: frames for which send_frame returned true
  wire,      \* history: what the device transmitted
  arrived,   \* history: what the device put into used receive buffers
  delivered  \* history: what recv_frame returned

txVars == <<tx, txBuf, txLen, frame, panicked, timeouts, accepted, wire>>
rxVars == <<rx, rxBuf, arrived, delivered>>
vars == <<txVars, rxVars, pc, cur>>

Pc == {"idle", "txslot", "txidx", "txwait", "rxslot", "rxidx"}

\* try_attach, prime_rx included: every receive descriptor is available.
Init ==
  /\ tx = New
  /\ rx = [New EXCEPT !.free = << >>, !.availRing = [s \in Desc |-> s], !.availIdx = Qsz]
  /\ txBuf = None /\ frame = None
  /\ txLen = [d \in Desc |-> 0]
  /\ rxBuf = [d \in Desc |-> None]
  /\ pc = "idle" /\ cur = 0
  /\ panicked = FALSE /\ timeouts = 0
  /\ accepted = << >> /\ wire = << >> /\ arrived = << >> /\ delivered = << >>

-----------------------------------------------------------------------------
(* send_frame                                                              *)

Sends == Len(accepted) + timeouts

\* Up to the push.  The buffer is filled before the descriptor is allocated.
SendFrame(f) ==
  /\ pc = "idle" /\ Sends < MaxSends
  /\ FrameLen(f) \in 1 .. MAX_FRAME_LEN
  /\ txBuf' = f /\ frame' = f
  /\ \/ /\ CanAlloc(tx)
        /\ cur' = AllocDesc(tx)
        /\ tx' = AfterAlloc(tx)
        /\ txLen' = [txLen EXCEPT ![AllocDesc(tx)] = FrameLen(f)]
        /\ pc' = "txslot"
        /\ UNCHANGED panicked
     \/ /\ ~CanAlloc(tx)
        /\ panicked' = TRUE
        /\ UNCHANGED <<tx, txLen, cur, pc>>
  /\ UNCHANGED <<timeouts, accepted, wire, rxVars>>

TxPushSlot ==
  /\ pc = "txslot"
  /\ tx' = PushSlot(tx, cur)
  /\ pc' = "txidx"
  /\ UNCHANGED <<txBuf, txLen, frame, panicked, timeouts, accepted, wire, rxVars, cur>>

TxPushIdx ==
  /\ pc = "txidx"
  /\ tx' = PushIdx(tx)
  /\ pc' = "txwait"
  /\ UNCHANGED <<txBuf, txLen, frame, panicked, timeouts, accepted, wire, rxVars, cur>>

\* Mutant of Completed: the descriptor of this call is freed, whatever the
\* device has given back.
MutFreeOwn(q) == FreeDesc(AfterPop(q), cur)

\* Whatever descriptor comes back is freed, with a warning when it is not d.
Completed(q) == FreeDesc(AfterPop(q), UsedElem(q))

\* Mutant of TxComplete: the call returns true without waiting for the device.
MutNoWait ==
  /\ pc = "txwait"
  /\ tx' = IF HasUsed(tx) THEN Completed(tx) ELSE tx
  /\ accepted' = Append(accepted, frame)
  /\ pc' = "idle"
  /\ UNCHANGED <<txBuf, txLen, frame, panicked, timeouts, wire, rxVars, cur>>

TxComplete ==
  /\ pc = "txwait" /\ HasUsed(tx)
  /\ tx' = Completed(tx)
  /\ accepted' = Append(accepted, frame)
  /\ pc' = "idle"
  /\ UNCHANGED <<txBuf, txLen, frame, panicked, timeouts, wire, rxVars, cur>>

\* Mutant of TxTimeout: the wait has no limit.
MutNoLimit == FALSE /\ UNCHANGED vars

\* TX_WAIT_SPIN_LIMIT is reached: the call fails, the device keeps d.
TxTimeout ==
  /\ pc = "txwait" /\ ~HasUsed(tx)
  /\ timeouts' = timeouts + 1
  /\ pc' = "idle"
  /\ UNCHANGED <<tx, txBuf, txLen, frame, panicked, accepted, wire, rxVars, cur>>

-----------------------------------------------------------------------------
(* recv_frame                                                              *)

Truncated(f, cap) == [frame |-> f, len |-> IF FrameLen(f) <= cap THEN FrameLen(f) ELSE cap]

\* Mutant of PollRx: a frame longer than the caller's buffer is skipped.
MutSkipLong(cap) ==
  /\ pc = "idle" /\ ~panicked /\ HasUsed(rx)
  /\ rx' = AfterPop(rx)
  /\ cur' = UsedElem(rx)
  /\ delivered' = IF FrameLen(rxBuf[UsedElem(rx)]) > cap THEN delivered
                  ELSE Append(delivered, Truncated(rxBuf[UsedElem(rx)], cap))
  /\ pc' = "rxslot"
  /\ UNCHANGED <<txVars, rxBuf, arrived>>

\* poll_rx_into up to recycle_rx: the frame is copied out, cut to the buffer.
PollRx(cap) ==
  /\ pc = "idle" /\ ~panicked /\ HasUsed(rx)
  /\ rx' = AfterPop(rx)
  /\ cur' = UsedElem(rx)
  /\ delivered' = Append(delivered, Truncated(rxBuf[UsedElem(rx)], cap))
  /\ pc' = "rxslot"
  /\ UNCHANGED <<txVars, rxBuf, arrived>>

RecyclePushSlot ==
  /\ pc = "rxslot"
  /\ rx' = PushSlot(rx, cur)
  /\ pc' = "rxidx"
  /\ UNCHANGED <<txVars, rxBuf, arrived, delivered, cur>>

RecyclePushIdx ==
  /\ pc = "rxidx"
  /\ rx' = PushIdx(rx)
  /\ pc' = "idle"
  /\ UNCHANGED <<txVars, rxBuf, arrived, delivered, cur>>

-----------------------------------------------------------------------------
(* The device                                                              *)

\* A descriptor is taken and the buffer it points to is transmitted.
DevTransmit ==
  /\ DevSees(tx)
  /\ tx' = DevTake(tx)
  /\ wire' = Append(wire, [frame |-> txBuf, len |-> txLen[DevNext(tx)]])
  /\ UNCHANGED <<txBuf, txLen, frame, panicked, timeouts, accepted, rxVars, pc, cur>>

DevTxDone(d) ==
  /\ d \in tx.held
  /\ tx' = DevPut(tx, d)
  /\ UNCHANGED <<txBuf, txLen, frame, panicked, timeouts, accepted, wire, rxVars, pc, cur>>

DevRxTake ==
  /\ DevSees(rx)
  /\ rx' = DevTake(rx)
  /\ UNCHANGED <<txVars, rxBuf, arrived, delivered, pc, cur>>

\* A frame comes in and is written to a buffer the device holds.
DevReceive(d, f) ==
  /\ d \in rx.held /\ Len(arrived) < MaxArrivals
  /\ rx' = DevPut(rx, d)
  /\ rxBuf' = [rxBuf EXCEPT ![d] = f]
  /\ arrived' = Append(arrived, f)
  /\ UNCHANGED <<txVars, delivered, pc, cur>>

-----------------------------------------------------------------------------

\* The driver's code, once it has been called.
DriverStep == TxPushSlot \/ TxPushIdx \/ TxComplete \/ TxTimeout
                \/ RecyclePushSlot \/ RecyclePushIdx

Device ==
  \/ DevTransmit \/ DevRxTake
  \/ \E d \in Desc : DevTxDone(d) \/ \E f \in Frame : DevReceive(d, f)

Running ==
  \/ \E f \in Frame : SendFrame(f)
  \/ \E cap \in Caps : PollRx(cap)
  \/ DriverStep \/ Device

Next == ~panicked /\ Running

Spec == Init /\ [][Next]_vars

\* The CPU executes the driver once it is called; nobody owes a call, and the
\* device owes nothing.
FairSpec == Spec /\ WF_vars(~panicked /\ DriverStep)

-----------------------------------------------------------------------------

\* Type invariant of the driver's state and of the rings it shares.
TypeOK ==
  /\ tx \in VirtQueueType /\ rx \in VirtQueueType
  /\ txBuf \in Frame \cup {None} /\ frame \in Frame \cup {None}
  /\ txLen \in [Desc -> 0 .. MAX_FRAME_LEN] /\ rxBuf \in [Desc -> Frame \cup {None}]
  /\ pc \in Pc /\ cur \in Desc /\ panicked \in BOOLEAN /\ timeouts \in 0 .. MaxSends

TxInHand == IF pc \in {"txslot", "txidx"} THEN <<cur>> ELSE << >>
RxInHand == IF pc \in {"rxslot", "rxidx"} THEN <<cur>> ELSE << >>

\* Every descriptor is in exactly one place: on the free stack, in the driver's
\* hands, in the available ring, with the device or in the used ring.  Timeouts
\* and completions that arrive late neither lose nor duplicate one.
DescriptorsConserved ==
  \A d \in Desc : Places(tx, TxInHand, d) = 1 /\ Places(rx, RxInHand, d) = 1

\* The frames recv_frame returned, and then those in the used ring, are the
\* frames the device received, in that order: no buffer is given back to the
\* device before it was copied.
ReceivedIntact ==
  arrived = [i \in 1 .. Len(delivered) |-> delivered[i].frame]
              \o [i \in 1 .. Len(UsedWindow(rx)) |-> rxBuf[UsedWindow(rx)[i]]]

\* While no send has timed out, what is on the wire is the frames send_frame
\* reported as sent, whole and in order, and at most the one it is waiting for.
SentOnce ==
  timeouts = 0 =>
    /\ Len(wire) \in Len(accepted) .. (Len(accepted) + 1)
    /\ \A i \in 1 .. Len(wire) :
         wire[i].frame = (IF i <= Len(accepted) THEN accepted[i] ELSE frame)
           /\ wire[i].len = FrameLen(wire[i].frame)

\* The kernel panics for want of a descriptor only when as many sends have timed
\* out as the queue has descriptors.
PanicNeedsTimeouts == panicked => timeouts >= Qsz

\* The queues together: time-outs and late completions neither lose nor
\* duplicate a descriptor, so that only those still with the device are missing
\* when alloc_desc panics.
QueuesSound == TypeOK /\ DescriptorsConserved /\ PanicNeedsTimeouts

\* send_frame returns, even when the device is dead: the spin limit ends the wait.
SendReturns == (pc = "txslot") ~> (pc = "idle")

=============================================================================
