-------------------------- MODULE MCDeviceInventory --------------------------
(* Instances of DeviceInventory for TLC.                                    *)
EXTENDS DeviceInventory, TLC

(* Neither spec nor properties tell two connections or two ports apart.     *)
BothSymmetry == Permutations(Conns) \cup Permutations(Buses)
=============================================================================
