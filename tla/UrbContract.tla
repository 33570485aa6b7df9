------------------------------ MODULE UrbContract ------------------------------
(***************************************************************************)
(* What the server promises the client about its URBs: each one that is    *)
(* submitted is answered once, or taken back once by an unlink, or ends    *)
(* with the session; nothing is heard of it afterwards.                    *)
(***************************************************************************)
EXTENDS Naturals

CONSTANT Urbs     \* the seqnums, counted up by the client

VARIABLE status   \* "new", "open", "answered", "cancelled" or "ended"

Init == status = [s \in Urbs |-> "new"]

(* The next seqnum; a URB for which no device is imported ends at once.    *)
Submit(s) ==
  /\ status[s] = "new" /\ \A t \in Urbs : t < s => status[t] # "new"
  /\ \E to \in {"open", "ended"} : status' = [status EXCEPT ![s] = to]

Answer(s) == status[s] = "open" /\ status' = [status EXCEPT ![s] = "answered"]

Cancel(s) == status[s] = "open" /\ status' = [status EXCEPT ![s] = "cancelled"]

(* The session ends, and with it every open URB.                           *)
EndSession ==
  /\ \E s \in Urbs : status[s] = "open"
  /\ status' = [s \in Urbs |-> IF status[s] = "open" THEN "ended" ELSE status[s]]

Next == EndSession \/ \E s \in Urbs : Submit(s) \/ Answer(s) \/ Cancel(s)

Spec == Init /\ [][Next]_status
=============================================================================
