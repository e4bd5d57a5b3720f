------------------------------ MODULE MCIpcApp ------------------------------
(* Model of IpcApp: the messages the two programs exchange.                *)
EXTENDS IpcApp

MCData == Msg

MCLens == {2, 4}

=============================================================================
