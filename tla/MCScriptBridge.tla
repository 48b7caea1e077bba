--------------------------- MODULE MCScriptBridge ---------------------------
(* The instance of ScriptBridge: every mixture of three calls of its scripts. *)
EXTENDS ScriptBridge

OneCallback == {"f"}

Keys == [f \in OneCallback |-> 1]

TwoAddresses == {"j1", "j2"}

=============================================================================
