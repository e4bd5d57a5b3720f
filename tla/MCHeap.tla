------------------------------- MODULE MCHeap -------------------------------
(* Model of Heap: pages of 16 units, headers of 2 units.                   *)
EXTENDS Heap

MCLayouts == {<<1, 1>>, <<2, 8>>, <<8, 8>>, <<20, 2>>}

=============================================================================
