-------------------------- MODULE MCMessageChannel --------------------------
(* MessageChannel with messages of one and of several records.              *)
EXTENDS MessageChannel
=============================================================================
