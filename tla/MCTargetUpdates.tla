--------------------------- MODULE MCTargetUpdates ---------------------------
(* TargetUpdates with the names of the runs.                               *)
EXTENDS TargetUpdates, TLC

Requests == "setAB" :> {"a", "b"} @@ "deleteA" :> {"a"}
=============================================================================
