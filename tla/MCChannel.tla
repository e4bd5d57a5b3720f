----------------------------- MODULE MCChannel -----------------------------
(* Model of Channel: two channels, lengths on both sides of MAX_MSG.       *)
EXTENDS Channel

MCLens == {0, 1, 2, 3}

=============================================================================
