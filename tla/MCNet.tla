------------------------------- MODULE MCNet -------------------------------
(* An instance of Net for TLC.                                             *)
EXTENDS Net, TLC

\* Processes and names are interchangeable.
Symmetry == Permutations(Procs) \cup Permutations(Names)

=============================================================================
