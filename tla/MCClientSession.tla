--------------------------- MODULE MCClientSession ---------------------------
(* Instances of ClientSession for TLC.                                      *)
EXTENDS ClientSession, TLC

(* No process is told from another before it starts. *)
ProcSymmetry == Permutations(Procs)
=============================================================================
