----------------------------- MODULE VirtQueue -----------------------------
(***************************************************************************)
(* The split virtqueue of kernel/drivers/virtio/virtqueue/queue.rs: the    *)
(* struct VirtQueue is a record, its methods are operators on it.  The     *)
(* rings are arrays of Qsz slots; their indices count modulo IdxMod, 2^16  *)
(* in the code, and the slot of an index is the index modulo Qsz.          *)
(*                                                                         *)
(* The fields devIdx and held are the device's: how far it has read the    *)
(* available ring, and the descriptors it has taken and not given back.    *)
(***************************************************************************)
EXTENDS Naturals, Sequences, FiniteSets

CONSTANTS
  Qsz,   \* qsz
  IdxMod \* number of values of an index

\* The size of a queue is a power of two, and so divides 2^16.
ASSUME QueueAssumption ==
  /\ Qsz \in Nat \ {0} /\ IdxMod \in Nat
  /\ IdxMod % Qsz = 0 /\ IdxMod > Qsz

Desc == 0 .. (Qsz - 1)
Index == 0 .. (IdxMod - 1)

VirtQueueType ==
  [free : Seq(Desc), availRing : [Desc -> Desc], availIdx : Index,
   usedRing : [Desc -> Desc], usedIdx : Index, lastUsed : Index,
   devIdx : Index, held : SUBSET Desc]

Slot(i) == i % Qsz

Succ(i) == (i + 1) % IdxMod

\* VirtQueue::new: every descriptor is free, 0 on top of the stack.
New ==
  [free |-> [i \in 1 .. Qsz |-> Qsz - i],
   availRing |-> [s \in Desc |-> 0], availIdx |-> 0,
   usedRing |-> [s \in Desc |-> 0], usedIdx |-> 0, lastUsed |-> 0,
   devIdx |-> 0, held |-> {}]

\* alloc_desc pops the stack; with nothing on it the kernel panics.
CanAlloc(q) == q.free # << >>
AllocDesc(q) == q.free[Len(q.free)]
AfterAlloc(q) == [q EXCEPT !.free = SubSeq(@, 1, Len(@) - 1)]

FreeDesc(q, d) == IF d >= Qsz THEN q ELSE [q EXCEPT !.free = Append(@, d)]

\* Mutant of PushIdx: the slot is not handed to the device.
MutNoPublish(q) == q

\* push: the slot, a fence, then the index that hands it to the device.
PushSlot(q, d) == [q EXCEPT !.availRing[Slot(q.availIdx)] = d]
PushIdx(q) == [q EXCEPT !.availIdx = Succ(@)]

\* pop_used
HasUsed(q) == q.usedIdx # q.lastUsed

UsedElem(q) == q.usedRing[Slot(q.lastUsed)]
AfterPop(q) == [q EXCEPT !.lastUsed = Succ(@)]

\* The device takes the next descriptor made available.
DevSees(q) == q.devIdx # q.availIdx
DevNext(q) == q.availRing[Slot(q.devIdx)]
DevTake(q) == [q EXCEPT !.devIdx = Succ(@), !.held = @ \cup {DevNext(q)}]

\* The device gives back a descriptor it holds, in whatever order.
DevPut(q, d) ==
  [q EXCEPT !.usedRing[Slot(q.usedIdx)] = d, !.usedIdx = Succ(@), !.held = @ \ {d}]

-----------------------------------------------------------------------------

\* The number of slots between two indices, the second ahead of the first.
Distance(a, b) == (b + IdxMod - a) % IdxMod

\* The slots of a ring between two indices, in order.
Window(ring, a, b) == [i \in 1 .. Distance(a, b) |-> ring[Slot(a + i - 1)]]

\* What the driver has made available and the device has not seen, in order,
\* and what the device has given back and the driver has not popped.
AvailWindow(q) == Window(q.availRing, q.devIdx, q.availIdx)
UsedWindow(q) == Window(q.usedRing, q.lastUsed, q.usedIdx)

Count(s, d) == Cardinality({i \in DOMAIN s : s[i] = d})

\* How often descriptor d occurs among the places a descriptor can be; extra is
\* the sequence of those a driver has in hand.
Places(q, extra, d) ==
  Count(q.free, d) + Count(AvailWindow(q), d) + Count(UsedWindow(q), d) + Count(extra, d)
    + (IF d \in q.held THEN 1 ELSE 0)

=============================================================================
