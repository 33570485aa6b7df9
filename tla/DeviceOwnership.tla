---------------------------- MODULE DeviceOwnership ----------------------------
(***************************************************************************)
(* What the server promises about the devices it opens: import is a        *)
(* transfer of ownership.  Every opening of a port has one life.  It is    *)
(* opened, put on offer, handed to one connection and offered again, and   *)
(* once it is dropped it never comes back.  A connection owns at most one. *)
(* A port can be opened again whoever owns its earlier openings; the new   *)
(* opening then takes the device over.                                     *)
(***************************************************************************)
EXTENDS Naturals

CONSTANTS Ports, Openings, Clients

Handles == [bus : Ports, inc : Openings]

VARIABLE owner

Init ==
  /\ owner \in [Handles -> {"unopened", "offered"}]
  /\ \A h \in Handles : owner[h] = "offered" => h.inc = 1

(* The openings of a port are numbered in their order.                     *)
Open(h) ==
  /\ owner[h] = "unopened"
  /\ \A g \in Handles : g.bus = h.bus => (g.inc < h.inc <=> owner[g] # "unopened")
  /\ owner' = [owner EXCEPT ![h] = "opening"]

Move(S, from, to) ==
  /\ S # {} /\ \A h \in S : owner[h] \in from
  /\ owner' = [h \in Handles |-> IF h \in S THEN to ELSE owner[h]]

(* What a turn has opened is put on offer together.                        *)
Offer(S) == Move(S, {"opening"}, "offered")

(* Devices on offer that are gone, or that the server shuts down.          *)
Withdraw(S) == Move(S, {"opening", "offered"}, "dropped")

Import(c, h) ==
  /\ owner[h] = "offered" /\ \A g \in Handles : owner[g] # c
  /\ owner' = [owner EXCEPT ![h] = c]

(* A connection gives its device back, or drops it.                        *)
GiveBack(c, h) ==
  /\ owner[h] = c
  /\ \E to \in {"offered", "dropped"} : owner' = [owner EXCEPT ![h] = to]

Next ==
  \/ \E h \in Handles : Open(h)
  \/ \E S \in SUBSET Handles : Offer(S) \/ Withdraw(S)
  \/ \E c \in Clients, h \in Handles : Import(c, h) \/ GiveBack(c, h)

Spec == Init /\ [][Next]_owner
=============================================================================
