----------------------------- MODULE MCActionList -----------------------------
(* Instances of ActionList for TLC.                                         *)
EXTENDS ActionList

TwoBuses == <<"1-1", "1-2">>
OnePort == <<"0">>

Differ == [id \in Ids |-> id]
Alike == [id \in Ids |-> "054c:0ce6"]
Free == [p \in PortSet |-> None]
World(of, has, holds, bound) == [model |-> of, exported |-> has, vhci |-> holds, trouble |-> bound]

(* One device, while another is still attached that the server has no more; *)
(* two devices; both with the devices of one model.                         *)
Leftover == [Free EXCEPT !["0"] = "1-2"]
FourWorlds ==
  {World(Differ, {"1-1"}, Leftover, 1), World(Differ, Ids, Free, 0),
   World(Alike, {"1-1"}, Leftover, 0), World(Alike, Ids, Free, 0)}
=============================================================================
