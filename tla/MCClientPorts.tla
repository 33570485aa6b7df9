---------------------------- MODULE MCClientPorts ----------------------------
(* Devices for ClientPorts: three models, no two of them alike.             *)
EXTENDS ClientPorts

ThreeBuses == {"1-1", "1-2", "1-3"}
AllDiffer == [b \in ThreeBuses |-> CASE b = "1-1" -> 1 [] b = "1-2" -> 2 [] b = "1-3" -> 3]
=============================================================================
