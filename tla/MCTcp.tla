------------------------------- MODULE MCTcp -------------------------------
(* Model of Tcp: two connections, streams of two bytes.                    *)
EXTENDS Tcp

MCLens == {1, 3}
MCCaps == {1, 4}

=============================================================================
