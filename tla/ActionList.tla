------------------------------ MODULE ActionList ------------------------------
(***************************************************************************)
(* The device list of a foreground client: run_action_list (tui.rs 155-384) *)
(* with the load, activate and exit closures that run_remote_control_tui    *)
(* gives it (client.rs 104-162).  Three threads share it: the main loop     *)
(* with the keyboard, a loader that answers refresh requests, and a worker  *)
(* that attaches and detaches.  Channels connect them; loader and worker    *)
(* also share the cached device list and its mutex.  Outside are the        *)
(* server's devices and the VHCI ports of the kernel.  Each of the three    *)
(* asks `usbip port` what is attached, and detaches everything when that    *)
(* fails (query_attached_ports_resilient).  A port belongs to the row of    *)
(* any device with the VID:PID of what it holds.                            *)
(***************************************************************************)
EXTENDS Naturals, Sequences, FiniteSets, SequencesExt, Lists

CONSTANTS
  Buses,       \* bus ids, a sequence in the order of the server's list
  Ports,       \* labels of the VHCI ports, in the order of `usbip port`
  None,        \* nothing attached
  Worlds,      \* what the list may start with: the VID:PID of every device,
               \* those that the server has, what the ports hold from an
               \* earlier session, and a bound of the failures, impatient
               \* keys and changes outside
  MaxQueued    \* bound: refreshes outstanding when a key starts an action

Ids == ToSet(Buses)
PortSet == ToSet(Ports)

ASSUME ListAssumption ==
  /\ Buses \in Seq(Ids) /\ IsInjective(Buses) /\ None \notin Ids
  /\ Ports \in Seq(PortSet) /\ IsInjective(Ports) /\ PortSet \cap {"free", "on", "locked"} = {}
  /\ \A w \in Worlds :
       /\ w.exported \subseteq Ids /\ w.vhci \in [PortSet -> Ids \cup {None}]
       /\ \A p, q \in PortSet : w.vhci[p] = w.vhci[q] /\ w.vhci[p] # None => p = q
       /\ w.trouble \in Nat
  /\ MaxQueued \in Nat

VARIABLES
  pc,               \* position of the main loop
  items, selected,  \* the rows shown and the cursor, counted from 0
  processing,       \* post_action_processing: ids with a spinner
  sticky,           \* sticky_items: attached rows no listing has shown yet
  refresh_pending,
  refreshq,         \* refresh requests; an element tells whether its
                    \* sequence number reaches minimum_refresh_seq
  itemsq,           \* listings that the loader has sent
  actq, doneq,      \* actions for the worker, and its results
  loader, worker,
  cache,            \* cached_devices
  model, exported,  \* VID:PID of every device; the server's devices
  vhci,             \* what each port holds
  leaving,          \* ports that the exit closure still has to detach
  quit,             \* how the list was left
  surprise,         \* history: devices without a twin that changed behind
                    \* the list's back, or that a failing `usbip port` hid
  trouble           \* what may still go wrong, see Worlds

queues == <<refreshq, itemsq, actq, doneq>>
shown == <<items, selected, processing, sticky, refresh_pending>>
server == <<model, exported>>
outside == <<server, vhci, surprise, trouble>>
vars == <<pc, shown, queues, loader, worker, cache, leaving, quit, outside>>

Labels == PortSet \cup {"free", "on", "locked"}  \* "[x] port N |", "[ ] |",
                                                 \* "[x] |", "[!] locked by"
Row == [id : Ids, label : Labels]
Action == [item : Row, attach : BOOLEAN]

Idle == [at |-> "idle"]

(* Something goes wrong or changes, within the bound. *)
Trouble == trouble > 0 /\ trouble' = trouble - 1

AttachedAt(ports, id) == {p \in PortSet : ports[p] = id}
Held(ports) == {p \in PortSet : ports[p] # None}
Attached(ports) == {ports[p] : p \in Held(ports)}
Nothing == [p \in PortSet |-> None]

First(ports) == Ports[Min({i \in 1..Len(Ports) : Ports[i] \in ports})]

(* port_matches_remote_device, for ports of this server. *)
Matching(ports, id) == {p \in Held(ports) : model[ports[p]] = model[id]}
NoTwin(id) == \A other \in Ids : model[other] = model[id] => other = id

Unseen(ids) == surprise' = surprise \cup {id \in ids \cap Ids : NoTwin(id)}

(* remote_device_states and apply_remote_occupancy: a row for every known   *)
(* device in the server's order, with the first port that matches, then one *)
(* for every port that no device has shown.                                 *)
Label(ports, occupied, id) ==
  IF Matching(ports, id) # {} THEN First(Matching(ports, id))
  ELSE IF id \in occupied THEN "locked" ELSE "free"
Listing(ports, known, occupied) ==
  LET listed == Retain(Buses, known)
      used == {First(Matching(ports, id)) : id \in {k \in known : Matching(ports, k) # {}}}
      others == Retain(Ports, Held(ports) \ used)
  IN [i \in 1..Len(listed) |-> [id |-> listed[i], label |-> Label(ports, occupied, listed[i])]]
     \o [i \in 1..Len(others) |-> [id |-> ports[others[i]], label |-> others[i]]]

Listed(rows) == {rows[i].id : i \in 1..Len(rows)}
At(rows, id) == {i \in 1..Len(rows) : rows[i].id = id}
RowOf(rows, id) == IF At(rows, id) = {} THEN <<>> ELSE <<rows[Min(At(rows, id))]>>
Without(rows, ids) == Retain(rows, {row \in Row : row.id \notin ids})

(* A plausible bug: a row is retained although the listing has it. *)
merge_retained_items_Twice(previous, next, retained) ==
  LET merged[n \in 0..Len(retained)] ==
        IF n = 0 THEN next ELSE merged[n - 1] \o RowOf(previous, retained[n])
  IN merged[Len(retained)]

(* merge_retained_items: rows with a spinner stay, at the end. *)
merge_retained_items(previous, next, retained) ==
  LET merged[n \in 0..Len(retained)] ==
        IF n = 0 THEN next
        ELSE IF retained[n] \in Listed(merged[n - 1]) THEN merged[n - 1]
        ELSE merged[n - 1] \o RowOf(previous, retained[n])
  IN merged[Len(retained)]

least(i, j) == IF i < j THEN i ELSE j
Clamp(i, rows) == IF rows = <<>> THEN 0 ELSE least(i, Len(rows) - 1)

(* A plausible bug: the cursor keeps its line and not its row. *)
preserve_selected_index_Line(previous, next, i) == Clamp(i, next)

(* preserve_selected_index: the cursor follows the row it is on. *)
preserve_selected_index(previous, next, i) ==
  IF i < Len(previous) /\ previous[i + 1].id \in Listed(next)
  THEN Min(At(next, previous[i + 1].id)) - 1
  ELSE Clamp(i, next)

optimistic_toggle_label(label, attach) ==
  IF attach THEN IF label = "free" THEN "on" ELSE label
  ELSE IF label \in PortSet \cup {"on"} THEN "free" ELSE label

(* The first listing has been loaded before the loop starts. *)
Init ==
  /\ pc = "items"
  /\ \E w \in Worlds : /\ model = w.model /\ exported = w.exported /\ vhci = w.vhci
                       /\ trouble = w.trouble
  /\ cache = exported
  /\ items = Listing(vhci, exported, {}) /\ selected = 0
  /\ processing = <<>> /\ sticky = <<>> /\ refresh_pending = FALSE
  /\ refreshq = <<>> /\ itemsq = <<>> /\ actq = <<>> /\ doneq = <<>>
  /\ loader = Idle /\ worker = Idle
  /\ leaving = {} /\ quit = "no"
  /\ surprise = {}

-----------------------------------------------------------------------------
(* What is attached: query_attached_ports_resilient.                        *)

(* The ports that the fallback of a failed `usbip port` begins to detach;   *)
(* it stops at one that cannot be detached, or finds none.                  *)
InUse == Held(vhci)

Freed(p) ==
  /\ vhci' = [vhci EXCEPT ![p] = None]
  /\ Unseen({vhci[p]})

(* Then the ports are asked for again.  If that fails too the answer is     *)
(* that nothing is attached.                                                *)
Again(ports) ==
  /\ ports \in {vhci, Nothing}
  /\ Unseen(Attached(vhci) \ Attached(ports))

-----------------------------------------------------------------------------
(* The loader and the worker. *)

(* load_remote_device_states_cached, under the mutex: the ports first. *)
LoadBegin ==
  /\ pc # "left" /\ loader = Idle /\ refreshq # <<>>
  /\ worker # Idle => ~worker.locked
  /\ \/ /\ loader' = [at |-> "load", current |-> Head(refreshq), ports |-> vhci]
        /\ UNCHANGED trouble
     \/ /\ loader' = [at |-> "recover", current |-> Head(refreshq), ports |-> InUse]
        /\ Trouble
  /\ refreshq' = Tail(refreshq)
  /\ UNCHANGED <<pc, shown, itemsq, actq, doneq, worker, cache, leaving, quit, server,
                 vhci, surprise>>

LoadRecover ==
  /\ pc # "left" /\ loader.at = "recover" /\ loader.ports # {}
  /\ Freed(First(loader.ports))
  /\ loader' = [loader EXCEPT !.ports = @ \ {First(@)}]
  /\ UNCHANGED <<pc, shown, queues, worker, cache, leaving, quit, server, trouble>>

LoadRecovered ==
  /\ pc # "left" /\ loader.at = "recover"
  /\ \E ports \in {vhci, Nothing} :
       /\ Again(ports)
       /\ loader' = [at |-> "load", current |-> loader.current, ports |-> ports]
  /\ UNCHANGED <<pc, shown, queues, worker, cache, leaving, quit, server, vhci, trouble>>

(* A plausible bug: a device list that was loaded once is never loaded again. *)
Asks_Once(ports) == cache = {}

(* The devices are asked for only while none is known or nothing attached.  *)
Asks(ports) == cache = {} \/ Held(ports) = {}

(* The server's occupancy map, if it answers: it has what is attached here. *)
Occupied == {{}, Attached(vhci)}

Loaded(ok, known) ==
  /\ cache' = known
  /\ \E occupied \in Occupied :
       itemsq' = Append(itemsq, [current |-> loader.current, ok |-> ok,
                   rows |-> IF ok THEN Listing(loader.ports, known, occupied) ELSE <<>>])

LoadEnd ==
  /\ pc # "left" /\ loader.at = "load"
  /\ \/ ~Asks(loader.ports) /\ Loaded(TRUE, cache) /\ UNCHANGED trouble
     \/ Asks(loader.ports) /\ Loaded(TRUE, exported) /\ UNCHANGED trouble
     \/ Asks(loader.ports) /\ Trouble /\ Loaded(Held(loader.ports) # {}, cache)
  /\ loader' = Idle
  /\ UNCHANGED <<pc, shown, refreshq, actq, doneq, worker, leaving, quit, server, vhci,
                 surprise>>

(* A plausible bug: only success is reported to the main loop. *)
Result_Success(act, ok) == IF ok THEN doneq' = Append(doneq, [act |-> act, ok |-> ok])
                           ELSE UNCHANGED doneq

(* The activate closure.  A row that shows a port is detached at that port; *)
(* any other is looked up first, under the mutex, and toggled.              *)
Result(act, ok) == doneq' = Append(doneq, [act |-> act, ok |-> ok])
Working(what, act, ports, locked) ==
  worker' = [at |-> what, act |-> act, ports |-> ports, locked |-> locked]

WorkShown ==
  LET act == Head(actq) IN
  /\ pc # "left" /\ worker = Idle /\ actq # <<>>
  /\ act.item.label \in PortSet
  /\ Working("detach", act, {act.item.label}, FALSE)
  /\ actq' = Tail(actq)
  /\ UNCHANGED <<pc, shown, refreshq, itemsq, doneq, loader, cache, leaving,
                 quit, outside>>

(* What `usbip port` and the server say of the device now: its port is      *)
(* detached; occupied, or gone, it is an error; else the ports are asked    *)
(* for again before it is attached.  An unanswered device list is an error  *)
(* only with nothing attached.                                              *)
Found(act, row) ==
  \/ row # <<>> /\ row[1].label \in PortSet /\ UNCHANGED doneq
     /\ Working("detach", act, {row[1].label}, TRUE)
  \/ row # <<>> /\ row[1].label = "free" /\ UNCHANGED doneq
     /\ Working("query", act, {}, TRUE)
  \/ (row # <<>> => row[1].label = "locked") /\ Result(act, FALSE) /\ worker' = Idle

Looks(act, ports) ==
  \/ /\ \/ /\ cache' = (IF Asks(ports) THEN exported ELSE cache) /\ UNCHANGED trouble
        \/ Asks(ports) /\ Held(ports) # {} /\ UNCHANGED cache /\ Trouble
     /\ \E occupied \in Occupied :
          Found(act, RowOf(Listing(ports, cache', occupied), act.item.id))
  \/ /\ Held(ports) = {} /\ UNCHANGED cache /\ Trouble
     /\ Result(act, FALSE) /\ worker' = Idle

WorkToggle ==
  LET act == Head(actq) IN
  /\ pc # "left" /\ worker = Idle /\ actq # <<>> /\ loader = Idle
  /\ act.item.label \notin PortSet
  /\ actq' = Tail(actq)
  /\ \/ Looks(act, vhci)
     \/ Trouble /\ Working("recover", act, InUse, TRUE) /\ UNCHANGED <<doneq, cache>>
  /\ UNCHANGED <<pc, shown, refreshq, itemsq, loader, leaving, quit, server, vhci,
                 surprise>>

WorkRecover ==
  /\ pc # "left" /\ worker # Idle /\ worker.at \in {"recover", "requery"} /\ worker.ports # {}
  /\ Freed(First(worker.ports))
  /\ worker' = [worker EXCEPT !.ports = @ \ {First(@)}]
  /\ UNCHANGED <<pc, shown, queues, loader, cache, leaving, quit, server, trouble>>

WorkRecovered ==
  /\ pc # "left" /\ worker # Idle /\ worker.at = "recover"
  /\ \E ports \in {vhci, Nothing} : Again(ports) /\ Looks(worker.act, ports)
  /\ UNCHANGED <<pc, shown, refreshq, itemsq, actq, loader, leaving, quit, server, vhci>>

(* auto_detach_matching_ports: what matches is detached, then the device is *)
(* attached.                                                                *)
Clears(act, ports) ==
  IF Matching(ports, act.item.id) = {} THEN Working("attach", act, {}, TRUE)
  ELSE Working("clear", act, Matching(ports, act.item.id), TRUE)

WorkQuery ==
  /\ pc # "left" /\ worker # Idle /\ worker.at = "query"
  /\ \/ Clears(worker.act, vhci) /\ UNCHANGED trouble
     \/ Working("requery", worker.act, InUse, TRUE) /\ Trouble
  /\ UNCHANGED <<pc, shown, queues, loader, cache, leaving, quit, server, vhci, surprise>>

WorkRequeried ==
  /\ pc # "left" /\ worker # Idle /\ worker.at = "requery"
  /\ \E ports \in {vhci, Nothing} : Again(ports) /\ Clears(worker.act, ports)
  /\ UNCHANGED <<pc, shown, queues, loader, cache, leaving, quit, server, vhci, trouble>>

WorkClear ==
  LET p == First(worker.ports)
      left == worker.ports \ {p} IN
  /\ pc # "left" /\ worker # Idle /\ worker.at = "clear"
  /\ \/ /\ vhci[p] # None /\ Freed(p) /\ UNCHANGED <<doneq, trouble>>
        /\ Working(IF left = {} THEN "attach" ELSE "clear", worker.act, left, TRUE)
     \/ /\ \/ vhci[p] = None /\ UNCHANGED <<vhci, surprise, trouble>>
           \/ Trouble /\ UNCHANGED <<vhci, surprise>>
           \/ Trouble /\ Freed(p)
        /\ Result(worker.act, FALSE) /\ worker' = Idle
  /\ UNCHANGED <<pc, shown, refreshq, itemsq, actq, loader, cache, leaving, quit, server>>

(* Whether a command has done to device id what its row announced. *)
AsShown(announced, id) ==
  Unseen(IF announced THEN {} ELSE {id})

(* The last command of the worker ends: with its effect, as an error        *)
(* without effect, or killed at its deadline after it took effect.          *)
Effect(ok) ==
  LET act == worker.act
      id == act.item.id IN
  \/ /\ worker.at = "detach"
     /\ \E p \in worker.ports :
          /\ vhci[p] # None
          /\ vhci' = [vhci EXCEPT ![p] = None]
          /\ AsShown(ok /\ ~act.attach /\ vhci[p] = id, vhci[p])
  \/ /\ worker.at = "attach" /\ id \in exported /\ AttachedAt(vhci, id) = {}
     /\ \E p \in PortSet : vhci[p] = None /\ vhci' = [vhci EXCEPT ![p] = id]
     /\ AsShown(ok /\ act.attach, id)

Refused ==
  \/ worker.at = "detach" /\ \A p \in worker.ports : vhci[p] = None
  \/ /\ worker.at = "attach"
     /\ \/ worker.act.item.id \notin exported
        \/ AttachedAt(vhci, worker.act.item.id) # {}
        \/ Held(vhci) = PortSet

WorkDone ==
  /\ pc # "left" /\ worker # Idle /\ worker.at \in {"detach", "attach"}
  /\ \/ Effect(TRUE) /\ Result(worker.act, TRUE) /\ UNCHANGED trouble
     \/ Effect(FALSE) /\ Result(worker.act, FALSE) /\ Trouble
     \/ /\ \/ Refused /\ UNCHANGED trouble
           \/ ~Refused /\ Trouble
        /\ Result(worker.act, FALSE) /\ UNCHANGED <<vhci, surprise>>
  /\ worker' = Idle
  /\ UNCHANGED <<pc, shown, refreshq, itemsq, actq, loader, cache, leaving, quit, server>>

(* When the process ends its threads end with it, but not the command that  *)
(* one of them has issued.                                                  *)
Straggler ==
  /\ pc = "left"
  /\ \/ /\ worker # Idle /\ worker' = Idle /\ UNCHANGED loader
        /\ \/ Effect(FALSE)
           \/ worker.at \notin {"detach", "attach"} /\ \E p \in worker.ports : Freed(p)
           \/ UNCHANGED <<vhci, surprise>>
     \/ /\ loader # Idle /\ loader' = Idle /\ UNCHANGED worker
        /\ \/ loader.at = "recover" /\ \E p \in loader.ports : Freed(p)
           \/ UNCHANGED <<vhci, surprise>>
  /\ UNCHANGED <<pc, shown, queues, cache, leaving, quit, server, trouble>>

-----------------------------------------------------------------------------
(* The main loop: results, then listings, then the keyboard. *)

(* The loop goes on: with the results that are there, else with the listings. *)
Continue(results) == pc' = IF results = <<>> THEN "items" ELSE "actions"

(* A plausible bug: minimum_refresh_seq is not raised. *)
AskAgain_AnySeq ==
  /\ refreshq' = Append(refreshq, TRUE)
  /\ refresh_pending' = TRUE
  /\ UNCHANGED <<itemsq, loader>>

(* A request gets the next sequence number; after a result that number      *)
(* becomes the minimum, and no earlier request reaches it.                  *)
AskAgain ==
  /\ refreshq' = [i \in 1..Len(refreshq) |-> FALSE] \o <<TRUE>>
  /\ itemsq' = [i \in 1..Len(itemsq) |-> [itemsq[i] EXCEPT !.current = FALSE]]
  /\ loader' = IF loader = Idle THEN Idle ELSE [loader EXCEPT !.current = FALSE]
  /\ refresh_pending' = TRUE

(* After a successful action the row shows its outcome at once, and a row   *)
(* that was attached stays until a listing has it.                          *)
Outcome(act) ==
  LET id == act.item.id
      updated == [i \in 1..Len(items) |->
                   IF items[i].id = id /\ i = Min(At(items, id))
                   THEN [items[i] EXCEPT !.label = optimistic_toggle_label(@, act.attach)]
                   ELSE items[i]] IN
  /\ items' = updated
  /\ sticky' = IF ~act.attach THEN Without(sticky, {id})
               ELSE IF id \in Listed(sticky) THEN sticky
               ELSE sticky \o RowOf(updated, id)

DrainResult ==
  LET act == Head(doneq).act IN
  /\ pc = "actions" /\ doneq # <<>>
  /\ processing' = Retain(processing, Ids \ {act.item.id})
  /\ IF Head(doneq).ok THEN Outcome(act) ELSE UNCHANGED <<items, sticky>>
  /\ AskAgain
  /\ doneq' = Tail(doneq)
  /\ Continue(doneq')
  /\ UNCHANGED <<selected, actq, worker, cache, leaving, quit, outside>>

(* A listing: rows with a spinner and attached rows it lacks are kept. *)
Merged(rows) ==
  LET merged == merge_retained_items(items, rows, processing) IN
  merged \o Without(sticky, Listed(merged))

Right(rows, id) ==
  \/ RowOf(rows, id) = <<[id |-> id, label |-> Label(vhci, {}, id)]>>
  \/ RowOf(rows, id) = <<>> /\ AttachedAt(vhci, id) = {}

DrainListing ==
  LET l == Head(itemsq) IN
  /\ pc = "items" /\ itemsq # <<>>
  /\ itemsq' = Tail(itemsq)
  /\ refresh_pending' = (refresh_pending /\ ~l.current)
  /\ IF l.current /\ l.ok
     THEN /\ items' = Merged(l.rows)
          /\ sticky' = Without(sticky, Listed(merge_retained_items(items, l.rows, processing)))
          /\ selected' = preserve_selected_index(items, items', selected)
     ELSE UNCHANGED <<items, sticky, selected>>
  /\ surprise' = IF l.current /\ l.ok /\ itemsq' = <<>> /\ loader = Idle
                 THEN {id \in surprise : id \in ToSet(processing) \/ ~Right(items', id)}
                 ELSE surprise
  /\ UNCHANGED <<pc, processing, refreshq, actq, doneq, loader, worker, cache,
                 leaving, quit, server, vhci, trouble>>

ListingsDrained ==
  /\ pc = "items" /\ itemsq = <<>>
  /\ selected' = Clamp(selected, items)
  /\ pc' = "keys"
  /\ UNCHANGED <<items, processing, sticky, refresh_pending, queues, loader,
                 worker, cache, leaving, quit, outside>>

(* No key within 50 ms; once a second, unless one is on its way, a refresh. *)
Tick ==
  /\ pc = "keys" /\ Continue(doneq)
  /\ UNCHANGED <<shown, queues, loader, worker, cache, leaving, quit, outside>>

TimerRefresh ==
  /\ pc = "keys" /\ ~refresh_pending
  /\ refreshq' = Append(refreshq, TRUE)
  /\ refresh_pending' = TRUE
  /\ Continue(doneq)
  /\ UNCHANGED <<items, selected, processing, sticky, itemsq, actq, doneq, loader,
                 worker, cache, leaving, quit, outside>>

(* next_index: up or down, around the ends. *)
Cursor ==
  /\ pc = "keys" /\ items # <<>>
  /\ \E step \in {1, Len(items) - 1} : selected' = (selected + step) % Len(items)
  /\ Continue(doneq)
  /\ UNCHANGED <<items, processing, sticky, refresh_pending, queues, loader, worker,
                 cache, leaving, quit, outside>>

(* A plausible bug: the key starts an action whether one is under way or not. *)
Activate_Again ==
  LET item == items[selected + 1] IN
  /\ pc = "keys" /\ items # <<>>
  /\ Len(refreshq) + Len(itemsq) <= MaxQueued /\ Len(actq) <= MaxQueued
  /\ actq' = Append(actq, [item |-> item, attach |-> item.label = "free"])
  /\ processing' = Append(processing, item.id)
  /\ Continue(doneq)
  /\ UNCHANGED <<items, selected, sticky, refresh_pending, refreshq, itemsq, doneq,
                 loader, worker, cache, leaving, quit, outside>>

(* Space: the row under the cursor goes to the worker as it is shown. *)
Activate ==
  LET item == items[selected + 1] IN
  /\ pc = "keys" /\ items # <<>>
  /\ Len(refreshq) + Len(itemsq) <= MaxQueued
  /\ item.id \notin ToSet(processing)
  /\ actq' = Append(actq, [item |-> item, attach |-> item.label = "free"])
  /\ processing' = Append(processing, item.id)
  /\ Continue(doneq)
  /\ UNCHANGED <<items, selected, sticky, refresh_pending, refreshq, itemsq, doneq,
                 loader, worker, cache, leaving, quit, outside>>

(* The list is left and the process ends: with it go rows and channels. *)
Leaves ==
  /\ pc' = "left"
  /\ items' = <<>> /\ selected' = 0 /\ processing' = <<>> /\ sticky' = <<>>
  /\ refresh_pending' = FALSE
  /\ refreshq' = <<>> /\ itemsq' = <<>> /\ actq' = <<>> /\ doneq' = <<>>
  /\ cache' = {}

(* Esc: the ports stay as they are. *)
Esc ==
  /\ pc = "keys"
  /\ Leaves /\ quit' = "esc"
  /\ UNCHANGED <<loader, worker, leaving, outside>>

(* Ctrl+C: the exit closure runs while loader and worker go on.  It lists   *)
(* the ports of this server, each of which has a row                        *)
(* (detach_attached_remote_devices_on_exit) ...                             *)
Cancel ==
  /\ pc = "keys"
  /\ \/ /\ pc' = "exit" /\ leaving' = Held(vhci) /\ UNCHANGED trouble
        /\ quit' = IF processing = <<>> THEN "idle" ELSE "busy"
     \/ /\ pc' = "recover" /\ leaving' = InUse /\ Trouble
        /\ quit' = IF processing = <<>> THEN "idle" ELSE "busy"
     \/ Continue(doneq) /\ UNCHANGED <<leaving, quit>> /\ Trouble
  /\ UNCHANGED <<shown, queues, loader, worker, cache, server, vhci, surprise>>

ExitRecover ==
  /\ pc = "recover" /\ leaving # {}
  /\ Freed(First(leaving)) /\ leaving' = leaving \ {First(leaving)}
  /\ UNCHANGED <<pc, shown, queues, loader, worker, cache, quit, server, trouble>>

ExitRecovered ==
  /\ pc = "recover" /\ pc' = "exit"
  /\ \E ports \in {vhci, Nothing} :
       /\ Again(ports) /\ leaving' = Held(ports)
       /\ quit' = IF ports = vhci THEN quit ELSE "blind"
  /\ UNCHANGED <<shown, queues, loader, worker, cache, server, vhci, trouble>>

(* A plausible bug: a port that cannot be detached is passed over. *)
ExitDetach_Anyway ==
  /\ pc = "exit"
  /\ \E p \in leaving :
       /\ leaving' = leaving \ {p}
       /\ \/ /\ vhci[p] # None
             /\ vhci' = [vhci EXCEPT ![p] = None]
             /\ Unseen({vhci[p]})
             /\ UNCHANGED trouble
          \/ vhci[p] = None /\ UNCHANGED <<vhci, surprise, trouble>>
          \/ Trouble /\ UNCHANGED <<vhci, surprise>>
  /\ UNCHANGED <<pc, shown, queues, loader, worker, cache, quit, server>>

(* ... and detaches one after the other; the first that fails ends the exit *)
(* with an error, the list stays, and the cursor is where the user moved it *)
(* meanwhile.                                                               *)
ExitDetach ==
  /\ pc = "exit"
  /\ \E p \in leaving :
       \/ /\ vhci[p] # None
          /\ vhci' = [vhci EXCEPT ![p] = None]
          /\ Unseen({vhci[p]})
          /\ leaving' = leaving \ {p}
          /\ UNCHANGED <<pc, selected, quit, trouble>>
       \/ /\ \/ vhci[p] = None /\ UNCHANGED trouble
             \/ vhci[p] # None /\ Trouble
          /\ leaving' = {} /\ Continue(doneq) /\ quit' = "no"
          /\ \E i \in 0..Clamp(Len(items), items) : selected' = i
          /\ UNCHANGED <<vhci, surprise>>
  /\ UNCHANGED <<items, processing, sticky, refresh_pending, queues, loader, worker,
                 cache, server>>

(* All are detached.  After a second Ctrl+C run_with_spinner has given an   *)
(* error already; it still waits for the closure, then the list stays.      *)
ExitDone ==
  /\ pc = "exit" /\ leaving = {}
  /\ \/ Leaves /\ UNCHANGED <<quit, trouble>>
     \/ /\ Continue(doneq) /\ quit' = "no" /\ Trouble
        /\ \E i \in 0..Clamp(Len(items), items) : selected' = i
        /\ UNCHANGED <<items, processing, sticky, refresh_pending, queues, cache>>
  /\ UNCHANGED <<loader, worker, leaving, server, vhci, surprise>>

-----------------------------------------------------------------------------
(* The server and the network: a device appears or disappears; a port loses *)
(* its device.                                                              *)
Replug ==
  /\ Trouble
  /\ \E id \in Ids : exported' = IF id \in exported THEN exported \ {id}
                                ELSE exported \cup {id}
  /\ UNCHANGED <<pc, shown, queues, loader, worker, cache, leaving, quit, model, vhci,
                 surprise>>

Drop ==
  /\ Trouble
  /\ \E p \in Held(vhci) :
       /\ vhci' = [vhci EXCEPT ![p] = None]
       /\ Unseen({vhci[p]})
  /\ UNCHANGED <<pc, shown, queues, loader, worker, cache, leaving, quit, server>>

Main == DrainResult \/ DrainListing \/ ListingsDrained
        \/ Tick \/ ExitRecover \/ ExitRecovered \/ ExitDetach \/ ExitDone
Load == LoadBegin \/ LoadRecover \/ LoadRecovered \/ LoadEnd
Work == WorkShown \/ WorkToggle \/ WorkRecover \/ WorkRecovered \/ WorkQuery
        \/ WorkRequeried \/ WorkClear \/ WorkDone
User == Cursor \/ Activate \/ Esc \/ Cancel

Next == Main \/ TimerRefresh \/ Load \/ Work \/ Straggler \/ User \/ Replug \/ Drop

Spec == Init /\ [][Next]_vars

(* Threads run, commands have deadlines, the timer comes up between keys,   *)
(* and who waits for the mutex gets it.  Nobody has to press a key.         *)
FairSpec == Spec /\ WF_vars(Main) /\ SF_vars(TimerRefresh) /\ SF_vars(Load)
                 /\ SF_vars(Work)

-----------------------------------------------------------------------------
(* Properties. *)

(* The state keeps its shape.  The cursor is on a row whenever a key is     *)
(* handled, where items[selected] would panic, and a device has one row     *)
(* only, unless another one has its VID:PID.                                *)
TypeOK ==
  /\ pc \in {"actions", "items", "keys", "recover", "exit", "left"}
  /\ items \in Seq(Row) /\ sticky \in Seq(Row) /\ processing \in Seq(Ids)
  /\ refreshq \in Seq(BOOLEAN) /\ refresh_pending \in BOOLEAN
  /\ actq \in Seq(Action) /\ doneq \in Seq([act : Action, ok : BOOLEAN])
  /\ itemsq \in Seq([current : BOOLEAN, ok : BOOLEAN, rows : Seq(Row)])
  /\ \/ loader = Idle
     \/ loader \in [at : {"recover"}, current : BOOLEAN, ports : SUBSET PortSet]
     \/ loader \in [at : {"load"}, current : BOOLEAN, ports : [PortSet -> Ids \cup {None}]]
  /\ worker = Idle \/ worker \in [at : {"recover", "query", "requery", "clear", "detach",
                                        "attach"},
                                  act : Action, ports : SUBSET PortSet, locked : BOOLEAN]
  /\ cache \subseteq Ids /\ exported \subseteq Ids /\ surprise \subseteq Ids
  /\ vhci \in [PortSet -> Ids \cup {None}] /\ leaving \subseteq PortSet
  /\ quit \in {"no", "esc", "idle", "busy", "blind"} /\ trouble \in Nat
  /\ pc \in {"keys", "recover", "exit"} => selected = Clamp(selected, items)
  /\ \A i, j \in 1..Len(items) :
       items[i].id = items[j].id /\ NoTwin(items[i].id) => i = j

(* A spinner tells the truth: an id has one exactly while one action on it  *)
(* is queued, at work or waiting for the main loop, and there is never a    *)
(* second one.                                                              *)
SpinnerMatchesWork ==
  LET outstanding == [i \in 1..Len(actq) |-> actq[i].item.id]
                     \o (IF worker = Idle THEN <<>> ELSE <<worker.act.item.id>>)
                     \o [i \in 1..Len(doneq) |-> doneq[i].act.item.id]
  IN pc # "left" => /\ IsInjective(outstanding) /\ IsInjective(processing)
                    /\ ToSet(outstanding) = ToSet(processing)

(* The worker does what the row announced when the key was pressed: an      *)
(* attach never detaches, not even what auto_detach_matching_ports looks    *)
(* for, and a detach touches that row's device only, also when rows, ports  *)
(* and listings changed in between.  Exempt are devices that changed behind *)
(* the list's back, those that a failing `usbip port` detached or hid, and  *)
(* those with a twin of the same VID:PID, whose port their row may show.    *)
DoesAsShown ==
  LET id == worker.act.item.id IN
  worker # Idle /\ id \notin surprise /\ NoTwin(id) =>
    /\ worker.at \in {"query", "attach"} => worker.act.attach
    /\ worker.at = "detach" => ~worker.act.attach /\ \A p \in worker.ports : vhci[p] \in {None, id}
    /\ worker.at # "clear"

(* Ctrl+C with no action under way leaves nothing attached, twins or not,   *)
(* whatever loader and worker do meanwhile; unless its own `usbip port`     *)
(* failed twice, when the exit reports success with ports attached.         *)
ExitDetachesAll ==
  pc = "left" /\ quit = "idle" => Held(vhci) = {}

(* A listing that arrives never moves the cursor to another device while    *)
(* the one it is on is still listed.                                        *)
CursorStays ==
  [][pc = "items" /\ selected < Len(items)
       /\ items[selected + 1].id \in Listed(items')
     => items'[selected' + 1].id = items[selected + 1].id]_vars

(* When the user lets go and nothing changes any more, the list ends up     *)
(* showing every port in use and every known device as it is, whatever was  *)
(* queued, stale, hidden or lost before; behind them stand only the         *)
(* attached rows whose device no listing has.  Known are then the server's  *)
(* devices, or, while something is attached, those of an earlier time.      *)
UpToDate ==
  LET true == Listing(vhci, cache, {}) IN
  /\ items = true \o Without(sticky, Listed(true))
  /\ cache = exported \/ Held(vhci) # {}
ListConverges ==
  <>[](processing = <<>> /\ pc \notin {"recover", "exit", "left"}) => <>[]UpToDate

(* Every action started is reported, unless the list is left. *)
ActionsEnd ==
  \A id \in Ids : id \in ToSet(processing) ~> id \notin ToSet(processing) \/ pc = "left"

=============================================================================
