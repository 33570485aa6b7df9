--------------------------- MODULE DeviceInventory ---------------------------
(***************************************************************************)
(* The server's inventory of exported devices: the two locked vectors of   *)
(* UsbIpServer, the occupancy map, the connection tasks that import and    *)
(* release devices, the one-second task that follows the host's USB bus,   *)
(* and the shutdown that drains it all.                                    *)
(*                                                                         *)
(* A handle is one opening of a port, named by the bus id and its number   *)
(* among the openings of that port.  UsbDevice values with the same name   *)
(* are clones of one nusb device.  A port can be opened while an earlier   *)
(* opening of it is alive: detach_kernel_driver before claim_interface     *)
(* takes the interfaces from whichever driver has them, usbfs included.    *)
(*                                                                         *)
(* One step is what a task does between two awaits that can suspend it: a  *)
(* lock that is taken and dropped without an await in between is part of   *)
(* one step, and who holds a guard over an await shows in the place where  *)
(* it waits.                                                               *)
(***************************************************************************)
EXTENDS Naturals, Sequences, FiniteSets

CONSTANTS
  Buses,          \* bus ids the filter lets through
  Conns,          \* client connections (their peer addresses)
  MaxPlugs,       \* bound: how often a device is plugged into one port
  MaxOpens,       \* bound: how often the server opens one port
  HostSync,       \* is the host synchronisation task running?
  HandlerPanics,  \* may a transfer hit one of the unimplemented!() arms?
  None

ASSUME InventoryAssumption ==
  /\ MaxPlugs \in Nat \ {0} /\ MaxOpens \in Nat \ {0}
  /\ HostSync \in BOOLEAN /\ HandlerPanics \in BOOLEAN
  /\ None \notin Buses \cup Conns \cup {"occAd", "serving", "closed"}
  /\ Conns \cap {"unopened", "opening", "offered", "dropped"} = {}

VARIABLES
  present,   \* the ports with a device in them
  plugs,     \* how often each port has been plugged so far
  reimports, \* do clients import again while they hold a device?
  opens,     \* how often the server has opened each port so far
  ad,        \* available_devices, per bus id and in vector order
  ud,        \* used_devices, per bus id; occupy never adds a second entry
  occ,       \* the occupancy map: bus id to peer
  conn,      \* one record per connection task
  sync,      \* the host synchronisation task
  ctl        \* run_server after its control loop

vars == <<present, plugs, reimports, opens, ad, ud, occ, conn, sync, ctl>>
host == <<present, plugs, reimports>>
lists == <<ad, ud>>

Handle == [bus : Buses, inc : 1 .. MaxOpens]
NoHandle == [bus |-> None, inc |-> 0]

(* conn[c].held is imported_device, or the UsbDevice that occupy or        *)
(* release is moving: the code moves it, so there is only ever one.        *)
Idle == [pc |-> "serving", held |-> NoHandle, want |-> None,
         prev |-> None, after |-> None]
Closed == [Idle EXCEPT !.pc = "closed"]
SyncIdle == [pc |-> "idle", cur |-> [b \in Buses |-> 0], todo |-> {},
             opened |-> [b \in Buses |-> 0]]

Init ==
  /\ present \in SUBSET Buses /\ reimports \in BOOLEAN
  /\ plugs = [b \in Buses |-> IF b \in present THEN 1 ELSE 0]
  /\ \E listed \in SUBSET present :
       /\ opens = [b \in Buses |-> IF b \in listed THEN 1 ELSE 0]
       /\ ad = [b \in Buses |-> IF b \in listed THEN <<1>> ELSE <<>>]
  /\ ud = [b \in Buses |-> 0]
  /\ occ = [b \in Buses |-> None]
  /\ conn = [c \in Conns |-> Closed]
  /\ sync = SyncIdle
  /\ ctl = [pc |-> "running", background |-> FALSE]

----------------------------------------------------------------------------
(* The two RwLocks.  Mutant: drop(ad) is missing in occupy, which waits    *)
(* for the other lock with this guard in hand.                             *)

KeepsAd_InOccupy(pc) == pc \in {"prune", "occUd"}

(* A sync turn waits for used_devices with available_devices' guard in     *)
(* hand, release and cleanup the other way round.                          *)
KeepsAd(pc) == pc = "prune"
KeepsUd(pc) == pc \in {"relAd", "cleanAd"}

AdFree == ~KeepsAd(sync.pc) /\ \A c \in Conns : ~KeepsAd(conn[c].pc)
UdFree == ~KeepsUd(ctl.pc) /\ \A c \in Conns : ~KeepsUd(conn[c].pc)

----------------------------------------------------------------------------
(* The host's bus.                                                         *)

Plug(b) ==
  /\ b \notin present /\ plugs[b] < MaxPlugs
  /\ present' = present \cup {b}
  /\ plugs' = [plugs EXCEPT ![b] = @ + 1]
  /\ UNCHANGED <<reimports, opens, lists, occ, conn, sync, ctl>>

Unplug(b) ==
  /\ b \in present
  /\ present' = present \ {b}
  /\ UNCHANGED <<plugs, reimports, opens, lists, occ, conn, sync, ctl>>

----------------------------------------------------------------------------
(* A connection task: handler() and the task around it.                    *)

Alive == ctl.pc # "exited"

At(c, pc) == Alive /\ conn[c].pc = pc

Holding(c) == conn[c].held # NoHandle

(* Mutant: the occupancy entry is left behind.                             *)
Surrender_Untracked(c, after) ==
  [conn[c] EXCEPT !.pc = IF Holding(c) THEN "relUd" ELSE after,
     !.want = None, !.prev = None, !.after = IF Holding(c) THEN after ELSE None]

(* Leave the loop or go on, giving back what is held: clear_occupancy and  *)
(* then release, in that order.                                            *)
Surrender(c, after) ==
  IF Holding(c)
  THEN [conn[c] EXCEPT !.pc = "endOcc", !.want = None, !.prev = None, !.after = after]
  ELSE [Idle EXCEPT !.pc = after]

Connect(c) ==
  /\ At(c, "closed") /\ ctl.pc = "running"
  /\ conn' = [conn EXCEPT ![c] = Idle]
  /\ UNCHANGED <<host, opens, lists, occ, sync, ctl>>

(* OP_REQ_IMPORT: what is held is released before the new bus is occupied. *)
ImportRequest(c, b) ==
  /\ At(c, "serving")
  /\ Holding(c) => reimports
  /\ conn' = [conn EXCEPT ![c] =
       [@ EXCEPT !.pc = IF Holding(c) THEN "relUd" ELSE "occAd",
                 !.want = b, !.prev = conn[c].held.bus,
                 !.after = IF Holding(c) THEN "occAd" ELSE None]]
  /\ UNCHANGED <<host, opens, lists, occ, sync, ctl>>

(* OP_REQ_IMPORT whose bus id is not UTF-8: the device is given back and   *)
(* the connection stays open, without an answer.                           *)
BadImportRequest(c) ==
  /\ At(c, "serving") /\ Holding(c)
  /\ conn' = [conn EXCEPT ![c] = Surrender(c, "serving")]
  /\ UNCHANGED <<host, opens, lists, occ, sync, ctl>>

(* End of file, a read error, or a failed write of a transfer's response.  *)
Disconnect(c) ==
  /\ At(c, "serving")
  /\ conn' = [conn EXCEPT ![c] = Surrender(c, "closed")]
  /\ UNCHANGED <<host, opens, lists, occ, sync, ctl>>

(* A control transfer reaches unimplemented!(): the task dies with         *)
(* imported_device, and nothing after handler() runs.                      *)
Panic(c) ==
  /\ HandlerPanics
  /\ At(c, "serving") /\ Holding(c)
  /\ conn' = [conn EXCEPT ![c] = Closed]
  /\ UNCHANGED <<host, opens, lists, occ, sync, ctl>>

(* Mutant: the device is cloned, not taken out of the list.                *)
OccupyTake_Clones(c) ==
  /\ At(c, "occAd") /\ AdFree /\ ad[conn[c].want] # <<>>
  /\ conn' = [conn EXCEPT ![c].pc = "occUd",
       ![c].held = [bus |-> conn[c].want, inc |-> Head(ad[conn[c].want])]]
  /\ UNCHANGED <<host, opens, lists, occ, sync, ctl>>

(* occupy, first half: take the first entry of the bus out of              *)
(* available_devices.                                                      *)
OccupyTake(c) ==
  LET b == conn[c].want
  IN  /\ At(c, "occAd") /\ AdFree
      /\ \/ /\ ad[b] = <<>>
            /\ conn' = [conn EXCEPT ![c].pc = "reply"]
            /\ UNCHANGED ad
         \/ /\ ad[b] # <<>>
            /\ ad' = [ad EXCEPT ![b] = Tail(@)]
            /\ conn' = [conn EXCEPT ![c].pc = "occUd",
                                    ![c].held = [bus |-> b, inc |-> Head(ad[b])]]
      /\ UNCHANGED <<host, opens, ud, occ, sync, ctl>>

(* occupy, second half, under the other lock.                              *)
OccupyRegister(c) ==
  LET h == conn[c].held
  IN  /\ At(c, "occUd") /\ UdFree
      /\ ud' = [ud EXCEPT ![h.bus] = IF @ = 0 THEN h.inc ELSE @]
      /\ conn' = [conn EXCEPT ![c].pc = "reply"]
      /\ UNCHANGED <<host, opens, ad, occ, sync, ctl>>

(* Where an import whose response is written goes next.                    *)
AfterReply(r) ==
  IF r.prev # None THEN [r EXCEPT !.pc = "clrOcc"]
  ELSE IF r.held # NoHandle THEN [Idle EXCEPT !.pc = "setOcc", !.held = r.held]
  ELSE Idle

ReplyWritten(c) ==
  /\ At(c, "reply")
  /\ conn' = [conn EXCEPT ![c] = AfterReply(@)]
  /\ UNCHANGED <<host, opens, lists, occ, sync, ctl>>

(* Mutant: the task ends without giving back what is held.                 *)
ReplyFails_Leaks(c) ==
  /\ At(c, "reply")
  /\ conn' = [conn EXCEPT ![c] = Closed]
  /\ UNCHANGED <<host, opens, lists, occ, sync, ctl>>

(* write_to_socket(..).await? returns from handler; the wrapper cleans up  *)
(* after the device that is held, not after the previous one.              *)
ReplyFails(c) ==
  /\ At(c, "reply")
  /\ conn' = [conn EXCEPT ![c] = Surrender(c, "closed")]
  /\ UNCHANGED <<host, opens, lists, occ, sync, ctl>>

ClearPrevious(c) ==
  /\ At(c, "clrOcc")
  /\ occ' = [occ EXCEPT ![conn[c].prev] = None]
  /\ conn' = [conn EXCEPT ![c] = AfterReply([@ EXCEPT !.prev = None])]
  /\ UNCHANGED <<host, opens, lists, sync, ctl>>

SetOccupancy(c) ==
  /\ At(c, "setOcc")
  /\ occ' = [occ EXCEPT ![conn[c].held.bus] = c]
  /\ conn' = [conn EXCEPT ![c].pc = "serving"]
  /\ UNCHANGED <<host, opens, lists, sync, ctl>>

ClearOccupancy(c) ==
  /\ At(c, "endOcc")
  /\ occ' = [occ EXCEPT ![conn[c].held.bus] = None]
  /\ conn' = [conn EXCEPT ![c].pc = "relUd"]
  /\ UNCHANGED <<host, opens, lists, sync, ctl>>

(* release takes used_devices' lock and, still holding it, waits for the   *)
(* other one.                                                              *)
ReleaseLock(c) ==
  /\ At(c, "relUd") /\ UdFree
  /\ conn' = [conn EXCEPT ![c].pc = "relAd"]
  /\ UNCHANGED <<host, opens, lists, occ, sync, ctl>>

(* Mutants: the device stays in used_devices; the connection keeps its     *)
(* clone of it.                                                            *)
ReleaseMove_StaysUsed(c) ==
  LET h == conn[c].held
  IN  /\ At(c, "relAd") /\ AdFree
      /\ ad' = [ad EXCEPT ![h.bus] = IF @ = <<>> THEN <<h.inc>> ELSE @]
      /\ conn' = [conn EXCEPT ![c] = [Idle EXCEPT !.pc = conn[c].after]]
      /\ UNCHANGED <<host, opens, ud, occ, sync, ctl>>
ReleaseMove_KeepsClone(c) ==
  LET h == conn[c].held
  IN  /\ At(c, "relAd") /\ AdFree
      /\ ud' = [ud EXCEPT ![h.bus] = 0]
      /\ ad' = [ad EXCEPT ![h.bus] = IF @ = <<>> THEN <<h.inc>> ELSE @]
      /\ conn' = [conn EXCEPT ![c].pc = conn[c].after]
      /\ UNCHANGED <<host, opens, occ, sync, ctl>>

(* The entry of that bus id leaves used_devices whoever it belongs to, and *)
(* the device goes to available_devices unless the bus id is listed there. *)
ReleaseMove(c) ==
  LET h == conn[c].held
  IN  /\ At(c, "relAd") /\ AdFree
      /\ ud' = [ud EXCEPT ![h.bus] = 0]
      /\ ad' = [ad EXCEPT ![h.bus] = IF @ = <<>> THEN <<h.inc>> ELSE @]
      /\ conn' = [conn EXCEPT ![c] =
           IF conn[c].after = "occAd"
           THEN [@ EXCEPT !.pc = "occAd", !.held = NoHandle, !.after = None]
           ELSE [Idle EXCEPT !.pc = conn[c].after]]
      /\ UNCHANGED <<host, opens, occ, sync, ctl>>

----------------------------------------------------------------------------
(* sync_server_devices: one turn of the loop per second.                   *)

SyncAlive == HostSync /\ ctl.pc = "running"

(* nusb::list_devices: what the loop turn works with from here on.         *)
SyncList ==
  /\ SyncAlive /\ sync.pc = "idle"
  /\ sync' = [sync EXCEPT !.pc = "lock",
       !.cur = [b \in Buses |-> IF b \in present THEN plugs[b] ELSE 0]]
  /\ UNCHANGED <<host, opens, lists, occ, conn, ctl>>

SyncLock ==
  /\ SyncAlive /\ sync.pc = "lock" /\ AdFree
  /\ sync' = [sync EXCEPT !.pc = "prune"]
  /\ UNCHANGED <<host, opens, lists, occ, conn, ctl>>

(* Forget the bus ids that are gone, keep the first of those listed twice, *)
(* and work out which bus ids are in neither list.                         *)
SyncPrune ==
  /\ SyncAlive /\ sync.pc = "prune" /\ UdFree
  /\ ad' = [b \in Buses |->
       IF sync.cur[b] = 0 \/ ad[b] = <<>> THEN <<>> ELSE <<Head(ad[b])>>]
  /\ ud' = [b \in Buses |-> IF sync.cur[b] = 0 THEN 0 ELSE ud[b]]
  /\ sync' = [sync EXCEPT !.pc = "open",
       !.todo = {b \in Buses : sync.cur[b] # 0 /\ ad[b] = <<>> /\ ud[b] = 0}]
  /\ UNCHANGED <<host, opens, occ, conn, ctl>>

(* Mutant: a device that did not open is appended as well.                 *)
SyncAppend_All ==
  /\ SyncAlive /\ sync.pc = "open" /\ sync.todo = {} /\ AdFree
  /\ ad' = [b \in Buses |-> Append(ad[b], sync.opened[b])]
  /\ sync' = [sync EXCEPT !.pc = "retain", !.opened = SyncIdle.opened]
  /\ UNCHANGED <<host, opens, ud, occ, conn, ctl>>

(* Opening the listed device may fail, and must when that device has been  *)
(* pulled out since.  It does not matter whether another handle to it is   *)
(* alive: the interfaces are taken over, and one of them is enough.        *)
SyncOpen(b) ==
  /\ SyncAlive /\ sync.pc = "open" /\ b \in sync.todo
  /\ \/ /\ sync' = [sync EXCEPT !.todo = @ \ {b}]
        /\ UNCHANGED opens
     \/ /\ b \in present /\ plugs[b] = sync.cur[b] /\ opens[b] < MaxOpens
        /\ opens' = [opens EXCEPT ![b] = @ + 1]
        /\ sync' = [sync EXCEPT !.todo = @ \ {b}, !.opened[b] = opens[b] + 1]
  /\ UNCHANGED <<host, lists, occ, conn, ctl>>

SyncAppend ==
  /\ SyncAlive /\ sync.pc = "open" /\ sync.todo = {}
  /\ sync.opened # SyncIdle.opened => AdFree
  /\ ad' = [b \in Buses |->
       IF sync.opened[b] = 0 THEN ad[b] ELSE Append(ad[b], sync.opened[b])]
  /\ sync' = [sync EXCEPT !.pc = "retain", !.opened = SyncIdle.opened]
  /\ UNCHANGED <<host, opens, ud, occ, conn, ctl>>

SyncRetain ==
  /\ SyncAlive /\ sync.pc = "retain"
  /\ occ' = [b \in Buses |-> IF sync.cur[b] = 0 THEN None ELSE occ[b]]
  /\ sync' = SyncIdle
  /\ UNCHANGED <<host, opens, lists, conn, ctl>>

----------------------------------------------------------------------------
(* run_server: Ctrl+C, or Esc with an empty occupancy map.  The tasks that *)
(* accept and synchronise are aborted, which drops a guard and the devices *)
(* they hold; the connection tasks are not.                                *)

StopServing(background) ==
  /\ ctl.pc = "running"
  /\ ctl' = [pc |-> "cleanUd", background |-> background]
  /\ sync' = SyncIdle
  /\ UNCHANGED <<host, opens, lists, occ, conn>>

Stop == StopServing(FALSE)

MoveToBackground ==
  /\ \A b \in Buses : occ[b] = None
  /\ StopServing(TRUE)

CleanupLock ==
  /\ ctl.pc = "cleanUd" /\ UdFree
  /\ ctl' = [ctl EXCEPT !.pc = "cleanAd"]
  /\ UNCHANGED <<host, opens, lists, occ, conn, sync>>

(* On Linux both lists end up empty.                                       *)
CleanupDrain ==
  /\ ctl.pc = "cleanAd" /\ AdFree
  /\ ad' = [b \in Buses |-> <<>>]
  /\ ud' = [b \in Buses |-> 0]
  /\ ctl' = [ctl EXCEPT !.pc = "cleaned"]
  /\ UNCHANGED <<host, opens, occ, conn, sync>>

CleanupTimeout ==
  /\ ctl.pc \in {"cleanUd", "cleanAd"}
  /\ ctl' = [ctl EXCEPT !.pc = "cleaned"]
  /\ UNCHANGED <<host, opens, lists, occ, conn, sync>>

(* The process ends, with the connection tasks wherever they are.          *)
Exit ==
  /\ ctl.pc = "cleaned"
  /\ ctl' = [ctl EXCEPT !.pc = "exited"]
  /\ UNCHANGED <<host, opens, lists, occ, conn, sync>>

----------------------------------------------------------------------------

(* Only the synchronisation task looks at the bus after the start.         *)
HostStep == HostSync /\ \E b \in Buses : Plug(b) \/ Unplug(b)

(* What a connection task does by itself, once a command has been read.    *)
ConnStep(c) ==
  \/ OccupyTake(c) \/ OccupyRegister(c)
  \/ ReplyWritten(c) \/ ReplyFails(c)
  \/ ClearPrevious(c) \/ SetOccupancy(c) \/ ClearOccupancy(c)
  \/ ReleaseLock(c) \/ ReleaseMove(c)

(* What its peer, or the command that was read, makes it do.               *)
PeerStep(c) ==
  \/ Connect(c) \/ (\E b \in Buses : ImportRequest(c, b))
  \/ BadImportRequest(c) \/ Disconnect(c) \/ Panic(c)

SyncStep ==
  SyncList \/ SyncLock \/ SyncPrune \/ (\E b \in Buses : SyncOpen(b))
    \/ SyncAppend \/ SyncRetain

CtlStep ==
  Stop \/ MoveToBackground \/ CleanupLock \/ CleanupDrain \/ CleanupTimeout \/ Exit

Next ==
  \/ HostStep
  \/ \E c \in Conns : ConnStep(c) \/ PeerStep(c)
  \/ SyncStep
  \/ CtlStep

Spec == Init /\ [][Next]_vars

(* The runtime keeps polling a task that can go on, and tokio's RwLock     *)
(* serves its waiters in order: a task that waits for a lock that is free  *)
(* again and again gets it.  Nothing makes a peer or the operator act.     *)
Fairness ==
  /\ \A c \in Conns : SF_vars(ConnStep(c))
  /\ SF_vars(SyncStep)
  /\ WF_vars(CleanupLock \/ CleanupDrain \/ CleanupTimeout)

FairSpec == Spec /\ Fairness

----------------------------------------------------------------------------
(* Properties.                                                             *)

ConnPcs == {"closed", "serving", "occAd", "occUd", "reply", "clrOcc",
            "setOcc", "endOcc", "relUd", "relAd"}

ConnState == [pc : ConnPcs, held : Handle \cup {NoHandle},
              want : Buses \cup {None}, prev : Buses \cup {None},
              after : {None, "occAd", "serving", "closed"}]

SyncState == [pc : {"idle", "lock", "prune", "open", "retain"},
              cur : [Buses -> 0 .. MaxPlugs], todo : SUBSET Buses,
              opened : [Buses -> 0 .. MaxOpens]]

(* What each place in the program entails for the connection's variables.  *)
PlaceOK(r) ==
  /\ r.pc \in {"closed", "occAd"} => r.held = NoHandle
  /\ r.pc \in {"occUd", "setOcc", "endOcc", "relUd", "relAd"} => r.held \in Handle
  /\ r.pc = "endOcc" => r.after \in {"serving", "closed"}
  /\ r.pc \in {"relUd", "relAd"} => r.after # None
  /\ r.pc = "occAd" \/ r.after = "occAd" => r.want \in Buses

(* The shape of the state, with where in handler() a device is held.       *)
TypeOK ==
  /\ present \subseteq Buses /\ reimports \in BOOLEAN /\ plugs \in [Buses -> 0 .. MaxPlugs]
  /\ opens \in [Buses -> 0 .. MaxOpens]
  /\ ad \in [Buses -> Seq(1 .. MaxOpens)]
  /\ ud \in [Buses -> 0 .. MaxOpens]
  /\ occ \in [Buses -> Conns \cup {None}]
  /\ conn \in [Conns -> ConnState] /\ \A c \in Conns : PlaceOK(conn[c])
  /\ sync \in SyncState
  /\ ctl \in [pc : {"running", "cleanUd", "cleanAd", "cleaned", "exited"},
              background : BOOLEAN]

Listed(h) == \E k \in 1 .. Len(ad[h.bus]) : ad[h.bus][k] = h.inc
Opening(h) == sync.opened[h.bus] = h.inc
HeldBy(c, h) == conn[c].held = h

(* Every opening of a port is in one place only: listed as available once, *)
(* or in the hands of one connection, or freshly opened by the             *)
(* synchronisation task.  So no two connections work through clones of one *)
(* handle, whatever the host, the peers and the shutdown do between the    *)
(* two halves of occupy (mod.rs:979-993), of release (995-1007) and of a   *)
(* sync turn (919-945).  That two openings of one port do not reach two    *)
(* connections is DeviceExclusive, which the code does not keep.           *)
OneHolder ==
  \A h \in Handle : \A c, d \in Conns : HeldBy(c, h) /\ HeldBy(d, h) => c = d
HeldNotListed == \A h \in Handle : \A c \in Conns : HeldBy(c, h) => ~Listed(h)
NothingElseOpening ==
  \A h \in Handle : Opening(h) => ~Listed(h) /\ \A c \in Conns : ~HeldBy(c, h)
ListedOnce ==
  \A b \in Buses : \A j, k \in 1 .. Len(ad[b]) : ad[b][j] = ad[b][k] => j = k

HandleExclusive == OneHolder /\ HeldNotListed /\ NothingElseOpening /\ ListedOnce

NeverReplugged(b) == b \in present /\ plugs[b] = 1

(* The server has not opened this port a second time.                      *)
OpenedOnce(b) == opens[b] <= 1

(* The registry and the connections agree.  What is in used_devices some   *)
(* connection holds.  A device that was never unplugged and that somebody  *)
(* holds is in one of the two lists, so that a sync turn does not open it  *)
(* again, except while a connection is between the two halves of occupy.   *)
(* And as long as no turn has fallen into that gap, used_devices has every *)
(* imported device and nothing used is on offer.  occupy and release keep  *)
(* this across two locks that are not taken together, while a turn prunes  *)
(* both lists from a snapshot of the bus that may be old (mod.rs:909-933). *)
UsedByConnection(b) ==
  ud[b] # 0 => \E c \in Conns : conn[c].held.bus = b /\ conn[c].pc # "occUd"
KnownToSync(b) ==
  (\E c \in Conns : conn[c].held.bus = b) =>
    \/ ad[b] # <<>> \/ ud[b] # 0
    \/ \E c \in Conns : conn[c].held.bus = b /\ conn[c].pc = "occUd"
ExactlyUsed(b) ==
  /\ ud[b] # 0 => ad[b] = <<>>
  /\ \A c \in Conns : conn[c].held.bus = b /\ conn[c].pc # "occUd" => ud[b] # 0

UsedTracksImports ==
  \A b \in Buses :
    /\ UsedByConnection(b)
    /\ NeverReplugged(b) /\ ctl.pc \notin {"cleaned", "exited"} =>
         /\ KnownToSync(b)
         /\ OpenedOnce(b) => ExactlyUsed(b)

(* "Import is an ownership transition"                                     *)
(* (2026-07-14-import-device-lifecycle-design.md:9): two connections do    *)
(* not both have the device of one port imported.  The code does not keep  *)
(* it: a sync turn between the halves of occupy opens the port again.      *)
DeviceExclusive ==
  \A b \in Buses : NeverReplugged(b) =>
    \A c, d \in Conns : conn[c].held.bus = b /\ conn[d].held.bus = b => c = d

(* Outside shutdown no step loses a device that stays plugged in: it stays *)
(* on offer, in a connection's hands, or in the hands of the task that     *)
(* opened it, through a failed import, a failed write of the reply         *)
(* (mod.rs:1306, 1531-1534), a rejected bus id and a disconnect.           *)
Kept(b) ==
  ad[b] # <<>> \/ (\E c \in Conns : conn[c].held.bus = b) \/ sync.opened[b] # 0

NoDeviceLost ==
  [][\A b \in Buses :
       Kept(b) /\ NeverReplugged(b) /\ b \in present' /\ ctl'.pc = "running"
         => Kept(b)']_vars

(* The occupancy map, which Esc and the status port rely on, says who has  *)
(* a device, as long as no client imports again while it holds one: an     *)
(* entry names a connection that holds that bus, and, for a port that was  *)
(* neither unplugged nor opened twice, a connection that serves its device *)
(* is in the map (mod.rs:1307-1311, 1268-1269, 1532; server.rs:275-279;    *)
(* docs/EXECUTION_PLAN.md:26).                                             *)
OccupancyTracksImports ==
  ~reimports => \A b \in Buses : \A c \in Conns :
    /\ occ[b] = c => conn[c].held.bus = b
    /\ conn[c].pc = "serving" /\ conn[c].held.bus = b
         /\ NeverReplugged(b) /\ OpenedOnce(b) => occ[b] = c

(* A client's view of attached: its import was answered with success.      *)
Attached(c) == Holding(c) /\ conn[c].pc \in {"setOcc", "serving"}

(* README.md:37, Esc: the server goes to the background only if no client  *)
(* is attached (server.rs:538-546).                                        *)
BackgroundOnlyWhenIdle ==
  [][ctl.pc = "running" /\ ctl'.background => \A c \in Conns : ~Attached(c)]_vars

(* Every import request is answered, or its connection ends, however many  *)
(* connections compete for the two locks, and also when the device held so *)
(* far has to be released first (mod.rs:1083-1095).                        *)
ImportAnswered ==
  \A c \in Conns :
    conn[c].want # None ~> conn[c].pc \in {"serving", "closed"} \/ ~Alive

(* When a client disconnects its device is given back                      *)
(* (docs/EXECUTION_PLAN.md:26; mod.rs:1267-1270).                          *)
DisconnectReleases ==
  \A c \in Conns :
    conn[c].pc = "endOcc" ~> conn[c].pc \in {"serving", "closed"} \/ ~Alive

(* Import is a transfer of ownership                                       *)
(* (2026-07-14-import-device-lifecycle-design.md:13): the inventory        *)
(* implements DeviceOwnership, where what is owned is an opening.          *)
OwnerOf(h) ==
  IF \E c \in Conns : HeldBy(c, h) THEN CHOOSE c \in Conns : HeldBy(c, h)
  ELSE IF Listed(h) THEN "offered"
  ELSE IF Opening(h) THEN "opening"
  ELSE IF h.inc > opens[h.bus] THEN "unopened" ELSE "dropped"

Ownership == INSTANCE DeviceOwnership WITH
  Ports <- Buses, Openings <- 1 .. MaxOpens, Clients <- Conns,
  owner <- [h \in Handle |-> OwnerOf(h)]

ImportTransfersOwnership == Ownership!Spec
=============================================================================
