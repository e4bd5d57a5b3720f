----------------------------- MODULE MCStorage -----------------------------
(***************************************************************************)
(* An instance of Storage: two usable regions that do not start or end on  *)
(* frames, a heap across two page tables, one well-formed program, one     *)
(* whose segments share a page, one with a segment past its end, one with  *)
(* more bytes for a segment than its pages hold.                           *)
(***************************************************************************)
EXTENDS Storage

Region(base, len, usable) == [base |-> base, len |-> len, usable |-> usable]

\* Frames of two bytes: 0 and 1 are not usable, 27 lies between the regions.
Map == << Region(0, 3, FALSE), Region(3, 51, TRUE), Region(54, 2, FALSE), Region(56, 33, TRUE) >>

Ph(va, filesz, memsz, off, w, x) ==
  [load |-> TRUE, va |-> va, filesz |-> filesz, memsz |-> memsz, off |-> off, w |-> w, x |-> x]

Note == [Ph(0, 0, 0, 0, FALSE, FALSE) EXCEPT !.load = FALSE]

Prog(phs, len) == [magic |-> TRUE, phs |-> phs, len |-> len]

Hello == Prog(<< Note, Ph(2, 3, 3, 0, FALSE, TRUE), Ph(6, 1, 2, 3, TRUE, FALSE) >>, 4)
Shared == Prog(<< Ph(2, 2, 3, 0, FALSE, TRUE), Ph(5, 1, 2, 2, TRUE, FALSE) >>, 4)
Short == Prog(<< Ph(2, 1, 1, 0, FALSE, TRUE), Ph(4, 2, 2, 3, TRUE, FALSE) >>, 4)

Long == Prog(<< Ph(2, 3, 1, 0, FALSE, TRUE) >>, 4)

Files == {Hello, Shared, Short, Long}

Call(op, off, len) == [op |-> op, off |-> off, len |-> len]
SomeCalls == {Call("read", 1, 2), Call("write", 2, 2), Call("write", 1, 2)}

=============================================================================
