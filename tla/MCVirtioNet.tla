---------------------------- MODULE MCVirtioNet ----------------------------
(* Model of VirtioNet: a short and a long frame, queues of two entries.    *)
EXTENDS VirtioNet

CONSTANTS short, long

MCFrame == {short, long}
MCFrameLen(f) == IF f = short THEN 1 ELSE 2

=============================================================================
