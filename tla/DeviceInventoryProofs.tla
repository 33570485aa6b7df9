------------------------ MODULE DeviceInventoryProofs ------------------------
(***************************************************************************)
(* Proofs about DeviceInventory, for every set of buses and connections    *)
(* and every value of the bounds and switches.                             *)
(***************************************************************************)
EXTENDS DeviceInventory, TLAPS

(* What taking the first entry of a vector leaves: every entry that is     *)
(* left stood one place further on, and the first was not empty space.     *)
LEMMA TailShifts ==
  ASSUME NEW S, NEW s \in Seq(S), s # <<>>
  PROVE  /\ Tail(s) \in Seq(S) /\ Head(s) \in S
         /\ Len(s) \in Nat /\ 1 \in 1 .. Len(s) /\ Head(s) = s[1]
         /\ Len(Tail(s)) = Len(s) - 1
         /\ \A k \in 1 .. Len(Tail(s)) : k + 1 \in 1 .. Len(s) /\ Tail(s)[k] = s[k + 1]
  OBVIOUS

(* A new entry stands behind the old ones.                                 *)
LEMMA AppendKeeps ==
  ASSUME NEW S, NEW s \in Seq(S), NEW e \in S
  PROVE  /\ Append(s, e) \in Seq(S)
         /\ Len(s) \in Nat /\ Len(Append(s, e)) = Len(s) + 1
         /\ \A k \in 1 .. Len(s) : Append(s, e)[k] = s[k]
         /\ Append(s, e)[Len(s) + 1] = e
  OBVIOUS

LEMMA OneEntry ==
  ASSUME NEW S
  PROVE  /\ <<>> \in Seq(S) /\ Len(<<>>) = 0
         /\ \A e \in S : <<e>> \in Seq(S) /\ Len(<<e>>) = 1 /\ <<e>>[1] = e /\ <<e>> # <<>>
  OBVIOUS

LEMMA LastPlace ==
  ASSUME NEW n \in Nat, NEW k \in 1 .. (n + 1)
  PROVE  k \in 1 .. n \/ k = n + 1
  OBVIOUS

(* Handles are records of a bus and the number of one of its openings.     *)
LEMMA HandleFields ==
  /\ \A h \in Handle : h.bus \in Buses /\ h.inc \in 1 .. MaxOpens /\ h # NoHandle
  /\ \A g, h \in Handle : g.bus = h.bus /\ g.inc = h.inc => g = h
  /\ \A b \in Buses, i \in 1 .. MaxOpens : [bus |-> b, inc |-> i] \in Handle
  /\ NoHandle.bus = None
  BY InventoryAssumption DEF Handle, NoHandle

(* The two records a connection starts from are well formed.               *)
LEMMA IdleOK ==
  /\ Idle \in ConnState /\ PlaceOK(Idle)
  /\ Closed \in ConnState /\ PlaceOK(Closed)
  <1>1. Idle \in ConnState /\ PlaceOK(Idle)
    BY InventoryAssumption DEF Idle, ConnState, ConnPcs, PlaceOK
  <1>2. Closed = [pc |-> "closed", held |-> NoHandle, want |-> None,
                  prev |-> None, after |-> None]
    BY DEF Closed, Idle
  <1>3. Closed \in ConnState /\ PlaceOK(Closed)
    BY <1>2, InventoryAssumption DEF ConnState, ConnPcs, PlaceOK
  <1> QED BY <1>1, <1>3

LEMMA InitTypeOK == Init => TypeOK
  <1> SUFFICES ASSUME Init PROVE TypeOK OBVIOUS
  <1>1. /\ 1 \in 1 .. MaxOpens /\ 0 \in 0 .. MaxOpens /\ 1 \in 0 .. MaxOpens
        /\ 0 \in 0 .. MaxPlugs /\ 1 \in 0 .. MaxPlugs
    BY InventoryAssumption
  <1>2. PICK listed \in SUBSET present :
          /\ opens = [b \in Buses |-> IF b \in listed THEN 1 ELSE 0]
          /\ ad = [b \in Buses |-> IF b \in listed THEN <<1>> ELSE <<>>]
    BY DEF Init
  <1>3. ad \in [Buses -> Seq(1 .. MaxOpens)] /\ opens \in [Buses -> 0 .. MaxOpens]
    BY <1>1, <1>2, OneEntry
  <1>4. Closed \in ConnState /\ PlaceOK(Closed)
    BY IdleOK
  <1>5. SyncIdle \in SyncState
    BY <1>1 DEF SyncIdle, SyncState
  <1> QED BY <1>1, <1>3, <1>4, <1>5 DEF Init, TypeOK

----------------------------------------------------------------------------
(* Type correctness: one step per action.                                  *)

USE DEF vars, host, lists

LEMMA TypeConn ==
  ASSUME TypeOK, NEW c \in Conns
  PROVE  /\ conn[c] \in ConnState /\ PlaceOK(conn[c])
         /\ conn[c].held \in Handle \cup {NoHandle}
         /\ conn[c].held.bus \in Buses \cup {None}
         /\ Holding(c) => conn[c].held \in Handle
  BY HandleFields DEF TypeOK, ConnState, Holding

(* A step that changes only one connection's record, to a well-formed one. *)
LEMMA ConnUpdate ==
  ASSUME TypeOK, NEW c \in Conns, NEW r \in ConnState, PlaceOK(r),
         conn' = [conn EXCEPT ![c] = r]
  PROVE  conn' \in [Conns -> ConnState] /\ \A d \in Conns : PlaceOK(conn'[d])
  BY DEF TypeOK

LEMMA SurrenderOK ==
  ASSUME TypeOK, NEW c \in Conns, NEW after \in {"serving", "closed"}
  PROVE  Surrender(c, after) \in ConnState /\ PlaceOK(Surrender(c, after))
  BY TypeConn, InventoryAssumption, ZenonT(30)
     DEF Surrender, ConnState, PlaceOK, ConnPcs, Idle, Holding

LEMMA AfterReplyOK ==
  ASSUME NEW r \in ConnState, PlaceOK(r)
  PROVE  AfterReply(r) \in ConnState /\ PlaceOK(AfterReply(r))
  BY InventoryAssumption DEF AfterReply, ConnState, PlaceOK, ConnPcs, Idle

LEMMA ConnStepTypeOK ==
  ASSUME TypeOK, NEW c \in Conns, ConnStep(c)
  PROVE  TypeOK'
  <1> DEFINE r == conn[c]
  <1>0. r \in ConnState /\ PlaceOK(r)
    BY TypeConn
  <1>1. CASE OccupyTake(c)
    <2>1. r.want \in Buses /\ r.held = NoHandle
      BY <1>0, <1>1 DEF OccupyTake, At, PlaceOK
    <2>2. CASE ad[r.want] = <<>> /\ conn' = [conn EXCEPT ![c].pc = "reply"] /\ UNCHANGED ad
      <3> DEFINE n == [r EXCEPT !.pc = "reply"]
      <3>1. n \in ConnState /\ PlaceOK(n)
        BY <1>0 DEF ConnState, ConnPcs, PlaceOK
      <3>2. conn' = [conn EXCEPT ![c] = n]
        BY <2>2
      <3> HIDE DEF n
      <3> QED BY <1>1, <2>2, <3>1, <3>2, ConnUpdate DEF OccupyTake, TypeOK
    <2>3. CASE /\ ad[r.want] # <<>>
               /\ ad' = [ad EXCEPT ![r.want] = Tail(@)]
               /\ conn' = [conn EXCEPT ![c].pc = "occUd",
                                       ![c].held = [bus |-> r.want, inc |-> Head(ad[r.want])]]
      <3> DEFINE n == [r EXCEPT !.pc = "occUd",
                                !.held = [bus |-> r.want, inc |-> Head(ad[r.want])]]
      <3>1. ad[r.want] \in Seq(1 .. MaxOpens)
        BY <2>1 DEF TypeOK
      <3>2. Head(ad[r.want]) \in 1 .. MaxOpens /\ Tail(ad[r.want]) \in Seq(1 .. MaxOpens)
        BY <3>1, <2>3, TailShifts
      <3>3. n \in ConnState /\ PlaceOK(n)
        BY <1>0, <2>1, <3>2, HandleFields DEF ConnState, ConnPcs, PlaceOK
      <3>4. conn' = [conn EXCEPT ![c] = n]
        BY <2>3
      <3>5. ad' \in [Buses -> Seq(1 .. MaxOpens)]
        BY <2>1, <2>3, <3>2 DEF TypeOK
      <3> HIDE DEF n
      <3> QED BY <1>1, <3>3, <3>4, <3>5, ConnUpdate DEF OccupyTake, TypeOK
    <2> QED BY <1>1, <2>2, <2>3 DEF OccupyTake
  <1>2. CASE OccupyRegister(c)
    <2> DEFINE n == [r EXCEPT !.pc = "reply"]
    <2>1. n \in ConnState /\ PlaceOK(n) /\ conn' = [conn EXCEPT ![c] = n]
      BY <1>0, <1>2 DEF OccupyRegister, ConnState, ConnPcs, PlaceOK
    <2>2. r.held \in Handle
      BY <1>0, <1>2 DEF OccupyRegister, At, PlaceOK
    <2>3. ud' \in [Buses -> 0 .. MaxOpens]
      BY <1>2, <2>2, HandleFields, InventoryAssumption DEF OccupyRegister, TypeOK
    <2> HIDE DEF n
    <2> QED BY <1>2, <2>1, <2>3, ConnUpdate DEF OccupyRegister, TypeOK
  <1>3. CASE ReplyWritten(c)
    BY <1>0, <1>3, AfterReplyOK, ConnUpdate DEF ReplyWritten, TypeOK
  <1>4. CASE ReplyFails(c)
    BY <1>4, SurrenderOK, ConnUpdate DEF ReplyFails, TypeOK
  <1>5. CASE ClearPrevious(c)
    <2> DEFINE n == [r EXCEPT !.prev = None]
    <2>1. n \in ConnState /\ PlaceOK(n)
      BY <1>0 DEF ConnState, PlaceOK
    <2>2. conn' = [conn EXCEPT ![c] = AfterReply(n)]
      BY <1>5 DEF ClearPrevious
    <2>3. occ' \in [Buses -> Conns \cup {None}]
      BY <1>5 DEF ClearPrevious, TypeOK
    <2> HIDE DEF n
    <2> QED BY <1>5, <2>1, <2>2, <2>3, AfterReplyOK, ConnUpdate DEF ClearPrevious, TypeOK
  <1>6. CASE SetOccupancy(c)
    <2> DEFINE n == [r EXCEPT !.pc = "serving"]
    <2>1. n \in ConnState /\ PlaceOK(n) /\ conn' = [conn EXCEPT ![c] = n]
      BY <1>0, <1>6 DEF SetOccupancy, ConnState, ConnPcs, PlaceOK
    <2>2. occ' \in [Buses -> Conns \cup {None}]
      BY <1>6 DEF SetOccupancy, TypeOK
    <2> HIDE DEF n
    <2> QED BY <1>6, <2>1, <2>2, ConnUpdate DEF SetOccupancy, TypeOK
  <1>7. CASE ClearOccupancy(c)
    <2> DEFINE n == [r EXCEPT !.pc = "relUd"]
    <2>1. n \in ConnState /\ PlaceOK(n) /\ conn' = [conn EXCEPT ![c] = n]
      BY <1>0, <1>7, InventoryAssumption DEF ClearOccupancy, At, ConnState, ConnPcs, PlaceOK
    <2>2. occ' \in [Buses -> Conns \cup {None}]
      BY <1>7 DEF ClearOccupancy, TypeOK
    <2> HIDE DEF n
    <2> QED BY <1>7, <2>1, <2>2, ConnUpdate DEF ClearOccupancy, TypeOK
  <1>8. CASE ReleaseLock(c)
    <2> DEFINE n == [r EXCEPT !.pc = "relAd"]
    <2>1. n \in ConnState /\ PlaceOK(n) /\ conn' = [conn EXCEPT ![c] = n]
      BY <1>0, <1>8 DEF ReleaseLock, At, ConnState, ConnPcs, PlaceOK
    <2> HIDE DEF n
    <2> QED BY <1>8, <2>1, ConnUpdate DEF ReleaseLock, TypeOK
  <1>9. CASE ReleaseMove(c)
    <2> DEFINE n == IF r.after = "occAd"
                    THEN [r EXCEPT !.pc = "occAd", !.held = NoHandle, !.after = None]
                    ELSE [Idle EXCEPT !.pc = r.after]
    <2>1. r.held \in Handle /\ r.after # None
      BY <1>0, <1>9 DEF ReleaseMove, At, PlaceOK
    <2>2. n \in ConnState /\ PlaceOK(n)
      BY <1>0, <2>1, IdleOK, InventoryAssumption DEF ConnState, ConnPcs, PlaceOK, Idle
    <2>3. conn' = [conn EXCEPT ![c] = n]
      BY <1>9 DEF ReleaseMove
    <2>4. ud' \in [Buses -> 0 .. MaxOpens]
      BY <1>9, <2>1, HandleFields, InventoryAssumption DEF ReleaseMove, TypeOK
    <2>5. ad' \in [Buses -> Seq(1 .. MaxOpens)]
      BY <1>9, <2>1, HandleFields, OneEntry DEF ReleaseMove, TypeOK
    <2> HIDE DEF n
    <2> QED BY <1>9, <2>2, <2>3, <2>4, <2>5, ConnUpdate DEF ReleaseMove, TypeOK
  <1> QED BY <1>1, <1>2, <1>3, <1>4, <1>5, <1>6, <1>7, <1>8, <1>9 DEF ConnStep

LEMMA PeerStepTypeOK ==
  ASSUME TypeOK, NEW c \in Conns, PeerStep(c)
  PROVE  TypeOK'
  <1>0. conn[c] \in ConnState /\ PlaceOK(conn[c])
    BY TypeConn
  <1>1. CASE Connect(c)
    BY <1>1, IdleOK, ConnUpdate DEF Connect, TypeOK
  <1>2. ASSUME NEW b \in Buses, ImportRequest(c, b) PROVE TypeOK'
    <2> DEFINE n == [conn[c] EXCEPT !.pc = IF Holding(c) THEN "relUd" ELSE "occAd",
                       !.want = b, !.prev = conn[c].held.bus,
                       !.after = IF Holding(c) THEN "occAd" ELSE None]
    <2>1. conn' = [conn EXCEPT ![c] = n]
      BY <1>2 DEF ImportRequest
    <2>2. n \in ConnState /\ PlaceOK(n)
      BY <1>0, TypeConn, InventoryAssumption, ZenonT(30) DEF ConnState, ConnPcs, PlaceOK, Holding
    <2> HIDE DEF n
    <2> QED BY <1>2, <2>1, <2>2, ConnUpdate DEF ImportRequest, TypeOK
  <1>3. CASE BadImportRequest(c)
    BY <1>3, SurrenderOK, ConnUpdate DEF BadImportRequest, TypeOK
  <1>4. CASE Disconnect(c)
    BY <1>4, SurrenderOK, ConnUpdate DEF Disconnect, TypeOK
  <1>5. CASE Panic(c)
    BY <1>5, IdleOK, ConnUpdate DEF Panic, TypeOK
  <1> QED BY <1>1, <1>2, <1>3, <1>4, <1>5 DEF PeerStep

LEMMA HostStepTypeOK == TypeOK /\ HostStep => TypeOK'
  <1> SUFFICES ASSUME TypeOK, NEW b \in Buses, Plug(b) \/ Unplug(b) PROVE TypeOK'
    BY DEF HostStep
  <1>1. CASE Plug(b)
    <2>1. plugs[b] + 1 \in 0 .. MaxPlugs
      BY <1>1, InventoryAssumption DEF Plug, TypeOK
    <2> QED BY <1>1, <2>1 DEF Plug, TypeOK
  <1>2. CASE Unplug(b)
    BY <1>2 DEF Unplug, TypeOK
  <1> QED BY <1>1, <1>2

LEMMA SyncStepTypeOK == TypeOK /\ SyncStep => TypeOK'
  <1> SUFFICES ASSUME TypeOK, SyncStep PROVE TypeOK'
    OBVIOUS
  <1>0. /\ 0 \in 0 .. MaxPlugs /\ 0 \in 0 .. MaxOpens /\ 1 .. MaxOpens \subseteq 0 .. MaxOpens
        /\ \A i \in 0 .. MaxOpens : i # 0 => i \in 1 .. MaxOpens
    BY InventoryAssumption
  <1>i. SyncIdle \in SyncState
    BY <1>0 DEF SyncIdle, SyncState
  <1>1. CASE SyncList
    BY <1>0, <1>1 DEF SyncList, TypeOK, SyncState
  <1>2. CASE SyncLock
    BY <1>2 DEF SyncLock, TypeOK, SyncState
  <1>3. CASE SyncPrune
    <2>1. \A b \in Buses : ad[b] # <<>> => <<Head(ad[b])>> \in Seq(1 .. MaxOpens)
      BY TailShifts, OneEntry DEF TypeOK
    <2>2. ad' \in [Buses -> Seq(1 .. MaxOpens)]
      BY <1>3, <2>1, OneEntry DEF SyncPrune
    <2>3. ud' \in [Buses -> 0 .. MaxOpens]
      BY <1>0, <1>3 DEF SyncPrune, TypeOK
    <2>4. sync' \in SyncState
      BY <1>3 DEF SyncPrune, TypeOK, SyncState
    <2> QED BY <1>3, <2>2, <2>3, <2>4 DEF SyncPrune, TypeOK
  <1>4. ASSUME NEW b \in Buses, SyncOpen(b) PROVE TypeOK'
    <2> DEFINE o == [sync.opened EXCEPT ![b] = opens[b] + 1]
    <2>2. CASE sync' = [sync EXCEPT !.todo = @ \ {b}] /\ UNCHANGED opens
      BY <1>4, <2>2 DEF SyncOpen, TypeOK, SyncState
    <2>3. CASE /\ opens[b] < MaxOpens /\ opens' = [opens EXCEPT ![b] = @ + 1]
               /\ sync' = [sync EXCEPT !.todo = @ \ {b}, !.opened[b] = opens[b] + 1]
      <3>0. opens[b] + 1 \in 0 .. MaxOpens
        BY <2>3, InventoryAssumption DEF TypeOK
      <3>n. opens' \in [Buses -> 0 .. MaxOpens] /\ o \in [Buses -> 0 .. MaxOpens]
        BY <2>3, <3>0 DEF TypeOK, SyncState
      <3>1. sync' = [sync EXCEPT !.todo = @ \ {b}, !.opened = o]
        BY <2>3
      <3>2. sync' \in SyncState
        BY <3>n, <3>1 DEF TypeOK, SyncState
      <3> QED BY <1>4, <3>n, <3>2 DEF SyncOpen, TypeOK
    <2> QED BY <1>4, <2>2, <2>3 DEF SyncOpen
  <1>5. CASE SyncAppend
    <2>1. \A b \in Buses : sync.opened[b] # 0
             => Append(ad[b], sync.opened[b]) \in Seq(1 .. MaxOpens)
      BY <1>0, AppendKeeps DEF TypeOK, SyncState
    <2>2. ad' \in [Buses -> Seq(1 .. MaxOpens)]
      BY <1>5, <2>1 DEF SyncAppend, TypeOK
    <2>3. sync' \in SyncState
      BY <1>5, <1>i DEF SyncAppend, TypeOK, SyncState
    <2> QED BY <1>5, <2>2, <2>3 DEF SyncAppend, TypeOK
  <1>6. CASE SyncRetain
    BY <1>6, <1>i DEF SyncRetain, TypeOK
  <1> QED BY <1>1, <1>2, <1>3, <1>4, <1>5, <1>6 DEF SyncStep

LEMMA CtlStepTypeOK == TypeOK /\ CtlStep => TypeOK'
  <1> SUFFICES ASSUME TypeOK, CtlStep PROVE TypeOK'
    OBVIOUS
  <1>0. 0 \in 0 .. MaxOpens /\ 0 \in 0 .. MaxPlugs
    BY InventoryAssumption
  <1>i. SyncIdle \in SyncState
    BY <1>0 DEF SyncIdle, SyncState
  <1>1. CASE Stop \/ MoveToBackground
    <2>1. PICK background \in BOOLEAN : StopServing(background)
      BY <1>1 DEF Stop, MoveToBackground
    <2> QED BY <2>1, <1>i DEF StopServing, TypeOK
  <1>2. CASE CleanupLock
    BY <1>2 DEF CleanupLock, TypeOK
  <1>3. CASE CleanupDrain
    BY <1>0, <1>3, OneEntry DEF CleanupDrain, TypeOK
  <1>4. CASE CleanupTimeout
    BY <1>4 DEF CleanupTimeout, TypeOK
  <1>5. CASE Exit
    BY <1>5 DEF Exit, TypeOK
  <1> QED BY <1>1, <1>2, <1>3, <1>4, <1>5 DEF CtlStep

LEMMA NextTypeOK == TypeOK /\ [Next]_vars => TypeOK'
  <1> SUFFICES ASSUME TypeOK, [Next]_vars PROVE TypeOK'
    OBVIOUS
  <1>1. CASE UNCHANGED vars
    BY <1>1 DEF TypeOK
  <1> QED BY <1>1, HostStepTypeOK, ConnStepTypeOK, PeerStepTypeOK, SyncStepTypeOK,
             CtlStepTypeOK DEF Next

(* The variables of the inventory keep their shape, and every connection   *)
(* holds a device exactly where handler() can: nothing is held while       *)
(* available_devices is searched, something is held wherever it is         *)
(* registered, tracked or given back (mod.rs:979-1007, 1261-1333).         *)
THEOREM TypeCorrect == Spec => []TypeOK
  <1> QED BY InitTypeOK, NextTypeOK, PTL DEF Spec

----------------------------------------------------------------------------
(* Where devices are, and that nothing but opening a port makes a new one. *)
(* Openings are numbered: what is known anywhere has a number that was     *)
(* given already, so that the next opening gets one nobody has.            *)

Known(h) == Listed(h) \/ Opening(h) \/ \E c \in Conns : HeldBy(c, h)

(* A vector that is not empty has an entry, which names a device.          *)
LEMMA SomeListed ==
  ASSUME TypeOK, NEW b \in Buses
  PROVE  ad[b] # <<>> <=> \E h \in Handle : h.bus = b /\ Listed(h)
  <1>1. ASSUME ad[b] # <<>> PROVE \E h \in Handle : h.bus = b /\ Listed(h)
    <2>0. ad[b] \in Seq(1 .. MaxOpens)
      BY DEF TypeOK
    <2>1. ad[b][1] \in 1 .. MaxOpens /\ 1 \in 1 .. Len(ad[b])
      BY <1>1, <2>0, TailShifts
    <2>2. PICK h \in Handle : h = [bus |-> b, inc |-> ad[b][1]]
      BY <2>1, HandleFields
    <2> QED BY <2>1, <2>2 DEF Listed
  <1>2. ASSUME NEW h \in Handle, h.bus = b, Listed(h) PROVE ad[b] # <<>>
    BY <1>2, OneEntry DEF Listed
  <1> QED BY <1>1, <1>2

(* A bus is kept when some device of it is known.                          *)
LEMMA KeptKnown ==
  ASSUME TypeOK, NEW b \in Buses
  PROVE  Kept(b) <=> \E h \in Handle : h.bus = b /\ Known(h)
  <1>1. (\E c \in Conns : conn[c].held.bus = b)
          <=> \E h \in Handle : h.bus = b /\ \E c \in Conns : HeldBy(c, h)
    BY TypeConn, HandleFields, InventoryAssumption DEF HeldBy
  <1>2. ASSUME sync.opened[b] # 0 PROVE \E h \in Handle : h.bus = b /\ Opening(h)
    <2>1. sync.opened[b] \in 1 .. MaxOpens
      BY <1>2, InventoryAssumption DEF TypeOK, SyncState
    <2>2. PICK h \in Handle : h = [bus |-> b, inc |-> sync.opened[b]]
      BY <2>1, HandleFields
    <2> QED BY <2>2 DEF Opening
  <1>3. \A h \in Handle : h.bus = b /\ Opening(h) => sync.opened[b] # 0
    BY HandleFields DEF Opening
  <1> QED BY <1>1, <1>2, <1>3, SomeListed DEF Kept, Known

(* Only a lookup that finds a device, a release and a panic change what a  *)
(* connection holds; every other step of it leaves the offer alone, too.   *)
LEMMA Hands ==
  ASSUME TypeOK, NEW c \in Conns, ConnStep(c) \/ PeerStep(c)
  PROVE  /\ UNCHANGED <<host, opens, sync, ctl>>
         /\ \A d \in Conns : d # c => conn'[d] = conn[d]
         /\ \/ OccupyTake(c) /\ ad[conn[c].want] # <<>>
            \/ ReleaseMove(c)
            \/ Panic(c)
            \/ conn'[c].held = conn[c].held /\ UNCHANGED ad
  <1>1. \A after \in {"serving", "closed"} : Surrender(c, after).held = conn[c].held
    BY TypeConn DEF Surrender, Holding, Idle, ConnState
  <1>2. \A r \in ConnState : AfterReply(r).held = r.held
    BY DEF AfterReply, Idle, ConnState
  <1>3. conn[c] \in ConnState
    BY TypeConn
  <1>4. UNCHANGED <<host, opens, sync, ctl>>
    BY DEF ConnStep, OccupyTake, OccupyRegister, ReplyWritten, ReplyFails, ClearPrevious,
           SetOccupancy, ClearOccupancy, ReleaseLock, ReleaseMove, PeerStep, Connect,
           ImportRequest, BadImportRequest, Disconnect, Panic
  <1>5. \A d \in Conns : d # c => conn'[d] = conn[d]
    BY DEF ConnStep, OccupyTake, OccupyRegister, ReplyWritten, ReplyFails, ClearPrevious,
           SetOccupancy, ClearOccupancy, ReleaseLock, ReleaseMove, PeerStep, Connect,
           ImportRequest, BadImportRequest, Disconnect, Panic, TypeOK
  <1> DEFINE Keeps == conn'[c].held = conn[c].held /\ UNCHANGED ad
  <1>6. OccupyTake(c) /\ ad[conn[c].want] = <<>> => Keeps
    BY <1>3 DEF OccupyTake, TypeOK, ConnState
  <1>7. OccupyRegister(c) \/ SetOccupancy(c) \/ ClearOccupancy(c) \/ ReleaseLock(c) => Keeps
    BY <1>3 DEF OccupyRegister, SetOccupancy, ClearOccupancy, ReleaseLock, TypeOK, ConnState
  <1>8. ReplyWritten(c) => Keeps
    BY <1>2, <1>3 DEF ReplyWritten, TypeOK
  <1>9. ReplyFails(c) \/ BadImportRequest(c) \/ Disconnect(c) => Keeps
    BY <1>1 DEF ReplyFails, BadImportRequest, Disconnect, TypeOK
  <1>10. ASSUME ClearPrevious(c) PROVE Keeps
    <2>1. PICK n : n = [conn[c] EXCEPT !.prev = None]
      OBVIOUS
    <2>2. n \in ConnState /\ n.held = conn[c].held
      BY <1>3, <2>1 DEF ConnState
    <2>3. conn'[c] = AfterReply(n) /\ UNCHANGED ad
      BY <1>10, <2>1 DEF ClearPrevious, TypeOK
    <2> QED BY <1>2, <2>2, <2>3
  <1>11. Connect(c) => Keeps
    BY TypeConn DEF Connect, At, PlaceOK, Idle, TypeOK
  <1>12. ASSUME NEW b \in Buses, ImportRequest(c, b) PROVE Keeps
    BY <1>3, <1>12 DEF ImportRequest, TypeOK, ConnState
  <1> HIDE DEF Keeps
  <1>13. (OccupyTake(c) /\ ad[conn[c].want] # <<>>) \/ ReleaseMove(c) \/ Panic(c) \/ Keeps
    BY <1>6, <1>7, <1>8, <1>9, <1>10, <1>11, <1>12 DEF ConnStep, PeerStep
  <1> QED BY <1>4, <1>5, <1>13 DEF Keeps

(* A lookup that finds a device takes it from the list of its bus.         *)
LEMMA TakeLists ==
  ASSUME TypeOK, NEW c \in Conns, OccupyTake(c), NEW a \in Buses, a = conn[c].want, ad[a] # <<>>
  PROVE  /\ conn[c].held = NoHandle /\ conn'[c].held.bus = a
         /\ \A e \in Buses : e # a => ad'[e] = ad[e]
  <1>1. PICK g : g = [bus |-> a, inc |-> Head(ad[a])]
    OBVIOUS
  <1>2. ad' = [ad EXCEPT ![a] = Tail(@)]
        /\ conn' = [conn EXCEPT ![c].pc = "occUd", ![c].held = g]
    BY <1>1 DEF OccupyTake
  <1>3. conn'[c].held = g /\ g.bus = a
    BY <1>1, <1>2, TypeConn DEF TypeOK, ConnState
  <1>4. conn[c].held = NoHandle
    BY TypeConn DEF OccupyTake, At, PlaceOK
  <1> QED BY <1>2, <1>3, <1>4 DEF TypeOK

(* release puts the device on the list of its bus or, when that bus is     *)
(* listed already, drops it.                                               *)
LEMMA ReleaseLists ==
  ASSUME TypeOK, NEW c \in Conns, ReleaseMove(c)
  PROVE  /\ conn[c].held \in Handle /\ conn'[c].held = NoHandle
         /\ \A d \in Conns : d # c => conn'[d] = conn[d]
         /\ \A b \in Buses : ad'[b] = IF b = conn[c].held.bus /\ ad[b] = <<>>
                                      THEN <<conn[c].held.inc>> ELSE ad[b]
         /\ \A b \in Buses : ud'[b] = IF b = conn[c].held.bus THEN 0 ELSE ud[b]
  <1>1. conn[c].held \in Handle
    BY TypeConn DEF ReleaseMove, At, PlaceOK
  <1>2. conn'[c].held = NoHandle /\ \A d \in Conns : d # c => conn'[d] = conn[d]
    BY TypeConn DEF ReleaseMove, TypeOK, ConnState, Idle
  <1>3. \A b \in Buses : ad'[b] = IF b = conn[c].held.bus /\ ad[b] = <<>>
                                  THEN <<conn[c].held.inc>> ELSE ad[b]
    BY <1>1, HandleFields DEF ReleaseMove, TypeOK
  <1>4. \A b \in Buses : ud'[b] = IF b = conn[c].held.bus THEN 0 ELSE ud[b]
    BY <1>1, HandleFields, Zenon DEF ReleaseMove, TypeOK
  <1> QED BY <1>1, <1>2, <1>3, <1>4

(* Pruning leaves of each vector at most its first entry.                  *)
LEMMA PruneLists ==
  ASSUME TypeOK, SyncPrune
  PROVE  /\ UNCHANGED <<host, opens, conn, ctl>> /\ sync'.opened = sync.opened
         /\ \A b \in Buses : sync.cur[b] = 0 => ad'[b] = <<>>
         /\ \A b \in Buses : sync.cur[b] # 0 /\ ad[b] # <<>> => ad'[b] # <<>>
         /\ \A h \in Handle : Listed(h)' => Listed(h)
  <1>1. UNCHANGED <<host, opens, conn, ctl>> /\ sync'.opened = sync.opened
    BY DEF SyncPrune, TypeOK, SyncState
  <1>2. \A b \in Buses : ad'[b] = IF sync.cur[b] = 0 \/ ad[b] = <<>>
                                  THEN <<>> ELSE <<Head(ad[b])>>
    BY DEF SyncPrune
  <1>3. ASSUME NEW h \in Handle, Listed(h)' PROVE Listed(h)
    <2>1. PICK b \in Buses : b = h.bus
      BY HandleFields
    <2>2. PICK k \in 1 .. Len(ad'[b]) : ad'[b][k] = h.inc
      BY <1>3, <2>1 DEF Listed
    <2>3. CASE ad'[b] = <<>>
      BY <2>2, <2>3, OneEntry
    <2>4. CASE ad[b] # <<>> /\ ad'[b] = <<Head(ad[b])>>
      <3>1. /\ Head(ad[b]) \in 1 .. MaxOpens /\ 1 \in 1 .. Len(ad[b])
            /\ Head(ad[b]) = ad[b][1]
        BY <2>4, TailShifts DEF TypeOK
      <3>2. Len(ad'[b]) = 1 /\ ad'[b][1] = Head(ad[b])
        BY <2>4, <3>1, OneEntry
      <3>3. ad[b][1] = h.inc
        BY <2>2, <3>1, <3>2
      <3> QED BY <2>1, <3>1, <3>3 DEF Listed
    <2> QED BY <1>2, <2>3, <2>4
  <1>4. \A b \in Buses : ad[b] # <<>> => <<Head(ad[b])>> # <<>>
    BY TailShifts, OneEntry DEF TypeOK
  <1> QED BY <1>1, <1>2, <1>3, <1>4

(* What was opened joins the lists, and nothing else does.                 *)
LEMMA AppendLists ==
  ASSUME TypeOK, SyncAppend
  PROVE  /\ UNCHANGED <<host, opens, conn, ctl, ud>>
         /\ \A b \in Buses : sync'.opened[b] = 0
         /\ \A b \in Buses : sync.opened[b] = 0 => ad'[b] = ad[b]
         /\ \A b \in Buses : sync.opened[b] # 0 \/ ad[b] # <<>> => ad'[b] # <<>>
         /\ \A h \in Handle : Listed(h)' <=> Listed(h) \/ Opening(h)
  <1>1. /\ \A b \in Buses : ad'[b] = IF sync.opened[b] = 0 THEN ad[b]
                                    ELSE Append(ad[b], sync.opened[b])
        /\ \A b \in Buses : sync'.opened[b] = 0
        /\ UNCHANGED <<host, opens, conn, ctl, ud>>
    BY DEF SyncAppend, TypeOK, SyncState, SyncIdle
  <1>2. ASSUME NEW b \in Buses, sync.opened[b] # 0
        PROVE  /\ Len(ad[b]) \in Nat /\ Len(ad'[b]) = Len(ad[b]) + 1
               /\ \A k \in 1 .. Len(ad[b]) : ad'[b][k] = ad[b][k]
               /\ ad'[b][Len(ad[b]) + 1] = sync.opened[b]
               /\ ad'[b] # <<>>
    <2>1. sync.opened[b] \in 1 .. MaxOpens /\ ad[b] \in Seq(1 .. MaxOpens)
      BY <1>2, InventoryAssumption DEF TypeOK, SyncState
    <2>2. ad'[b] = Append(ad[b], sync.opened[b])
      BY <1>1, <1>2
    <2>3. /\ Len(ad[b]) \in Nat /\ Len(ad'[b]) = Len(ad[b]) + 1
          /\ \A k \in 1 .. Len(ad[b]) : ad'[b][k] = ad[b][k]
          /\ ad'[b][Len(ad[b]) + 1] = sync.opened[b]
      BY <2>1, <2>2, AppendKeeps
    <2>4. Len(ad'[b]) # Len(<<>>)
      BY <2>3, OneEntry
    <2> QED BY <2>3, <2>4
  <1>3. ASSUME NEW h \in Handle PROVE Listed(h)' <=> Listed(h) \/ Opening(h)
    <2>1. PICK b \in Buses : b = h.bus
      BY HandleFields
    <2>2. CASE sync.opened[b] = 0
      <3>1. ad'[b] = ad[b] /\ ~Opening(h)
        BY <1>1, <2>1, <2>2, HandleFields DEF Opening
      <3> QED BY <2>1, <3>1 DEF Listed
    <2>3. CASE sync.opened[b] # 0
      <3>1. PICK n \in Nat : n = Len(ad[b])
        BY <1>2, <2>3
      <3>2. /\ Len(ad'[b]) = n + 1 /\ ad'[b][n + 1] = sync.opened[b]
            /\ \A k \in 1 .. n : ad'[b][k] = ad[b][k]
        BY <1>2, <2>3, <3>1
      <3>3. ASSUME Listed(h)' PROVE Listed(h) \/ Opening(h)
        <4>1. PICK k \in 1 .. (n + 1) : ad'[b][k] = h.inc
          BY <2>1, <3>2, <3>3 DEF Listed
        <4>2. CASE k \in 1 .. n
          BY <2>1, <3>1, <3>2, <4>1, <4>2 DEF Listed
        <4>3. CASE k = n + 1
          BY <2>1, <3>2, <4>1, <4>3 DEF Opening
        <4> QED BY <4>2, <4>3, LastPlace
      <3>4. ASSUME Listed(h) PROVE Listed(h)'
        <4>1. PICK k \in 1 .. n : ad[b][k] = h.inc
          BY <2>1, <3>1, <3>4 DEF Listed
        <4>2. k \in 1 .. (n + 1) /\ ad'[b][k] = h.inc
          BY <3>2, <4>1
        <4> QED BY <2>1, <3>2, <4>2 DEF Listed
      <3>5. ASSUME Opening(h) PROVE Listed(h)'
        <4>1. n + 1 \in 1 .. (n + 1) /\ ad'[b][n + 1] = h.inc
          BY <2>1, <3>2, <3>5 DEF Opening
        <4> QED BY <2>1, <3>2, <4>1 DEF Listed
      <3> QED BY <3>3, <3>4, <3>5
    <2> QED BY <2>2, <2>3
  <1> QED BY <1>1, <1>2, <1>3

(* A step by which the port b is opened.                                   *)
Opened(b) ==
  /\ sync.pc = "open" /\ b \in present /\ plugs[b] = sync.cur[b]
  /\ opens' = [opens EXCEPT ![b] = @ + 1]
  /\ sync' = [sync EXCEPT !.todo = @ \ {b}, !.opened[b] = opens[b] + 1]
  /\ UNCHANGED <<host, lists, occ, conn, ctl>>

(* No step makes a handle out of nothing but the opening of a port, which  *)
(* gets the next number.                                                   *)
LEMMA KnownSteps ==
  ASSUME TypeOK, [Next]_vars, NEW h \in Handle, Known(h)'
  PROVE  \/ Known(h)
         \/ Opened(h.bus) /\ h.inc = opens[h.bus] + 1
  <1>1. ASSUME UNCHANGED <<ad, conn>>,
               \A b \in Buses : sync'.opened[b] \in {sync.opened[b], 0}
        PROVE  Known(h)
    BY <1>1, HandleFields DEF Known, Listed, Opening, HeldBy
  <1>2. CASE UNCHANGED vars \/ HostStep
    BY <1>1, <1>2 DEF HostStep, Plug, Unplug
  <1>3. ASSUME NEW c \in Conns, ConnStep(c) \/ PeerStep(c) PROVE Known(h)
    <2>1. /\ UNCHANGED sync /\ \A d \in Conns : d # c => conn'[d] = conn[d]
          /\ \/ OccupyTake(c) /\ ad[conn[c].want] # <<>>
             \/ ReleaseMove(c)
             \/ Panic(c)
             \/ conn'[c].held = conn[c].held /\ UNCHANGED ad
      BY <1>3, Hands
    <2>2. CASE OccupyTake(c) /\ ad[conn[c].want] # <<>>
      <3>1. PICK b \in Buses : b = conn[c].want
        BY <2>2, TypeConn DEF OccupyTake, At, PlaceOK
      <3>2. PICK g : g = [bus |-> b, inc |-> Head(ad[b])]
        OBVIOUS
      <3>3. ad' = [ad EXCEPT ![b] = Tail(@)]
            /\ conn' = [conn EXCEPT ![c].pc = "occUd", ![c].held = g]
        BY <2>2, <3>1, <3>2 DEF OccupyTake
      <3>4. /\ 1 \in 1 .. Len(ad[b]) /\ Head(ad[b]) = ad[b][1]
            /\ \A k \in 1 .. Len(Tail(ad[b])) :
                 k + 1 \in 1 .. Len(ad[b]) /\ Tail(ad[b])[k] = ad[b][k + 1]
        BY <2>2, <3>1, TailShifts DEF TypeOK
      <3>5. Listed(h)' => Listed(h)
        BY <3>3, <3>4 DEF Listed, TypeOK
      <3>6. conn'[c].held = g
        BY <3>3, TypeConn DEF TypeOK, ConnState
      <3>7. g = h => Listed(h)
        BY <3>2, <3>4 DEF Listed
      <3> QED BY <2>1, <3>5, <3>6, <3>7 DEF Known, HeldBy, Opening
    <2>3. CASE ReleaseMove(c)
      <3>1. ASSUME Listed(h)' PROVE Listed(h) \/ HeldBy(c, h)
        <4>1. CASE h.bus = conn[c].held.bus /\ ad[h.bus] = <<>>
          <5>1. ad'[h.bus] = <<conn[c].held.inc>> /\ conn[c].held.inc \in 1 .. MaxOpens
            BY <2>3, <4>1, ReleaseLists, HandleFields
          <5>2. Len(ad'[h.bus]) = 1 /\ ad'[h.bus][1] = conn[c].held.inc
            BY <5>1, OneEntry
          <5>3. h.inc = conn[c].held.inc
            BY <3>1, <5>2 DEF Listed
          <5> QED BY <2>3, <4>1, <5>3, ReleaseLists, HandleFields DEF HeldBy
        <4>2. CASE ~(h.bus = conn[c].held.bus /\ ad[h.bus] = <<>>)
          <5>1. ad'[h.bus] = ad[h.bus]
            BY <2>3, <4>2, ReleaseLists, HandleFields
          <5> QED BY <3>1, <5>1 DEF Listed
        <4> QED BY <4>1, <4>2
      <3>2. conn'[c].held = NoHandle
        BY <2>3, ReleaseLists
      <3> QED BY <2>1, <3>1, <3>2, HandleFields DEF Known, HeldBy, Opening
    <2>4. CASE Panic(c)
      <3>1. UNCHANGED ad /\ conn'[c].held = NoHandle
        BY <2>4 DEF Panic, TypeOK, Closed, Idle
      <3> QED BY <2>1, <3>1, HandleFields DEF Known, HeldBy, Opening, Listed
    <2>5. CASE conn'[c].held = conn[c].held /\ UNCHANGED ad
      BY <2>1, <2>5 DEF Known, HeldBy, Opening, Listed
    <2> QED BY <2>1, <2>2, <2>3, <2>4, <2>5
  <1>4. CASE SyncList \/ SyncLock
    BY <1>1, <1>4 DEF SyncList, SyncLock, TypeOK, SyncState
  <1>5. CASE SyncRetain
    BY <1>1, <1>5 DEF SyncRetain, SyncIdle
  <1>6. CASE SyncPrune
    BY <1>6, PruneLists DEF Known, Opening, HeldBy
  <1>7. CASE SyncAppend
    BY <1>7, AppendLists, HandleFields DEF Known, Opening, HeldBy
  <1>8. ASSUME NEW b \in Buses, SyncOpen(b)
        PROVE  \/ Known(h)
               \/ Opened(h.bus) /\ h.inc = opens[h.bus] + 1
    <2>1. UNCHANGED <<ad, conn>>
      BY <1>8 DEF SyncOpen
    <2>2. CASE sync' = [sync EXCEPT !.todo = @ \ {b}]
      BY <1>1, <2>1, <2>2 DEF TypeOK, SyncState
    <2>3. CASE Opened(b)
      <3>1. \A a \in Buses : sync'.opened[a] = IF a = b THEN opens[b] + 1 ELSE sync.opened[a]
        BY <2>3 DEF Opened, TypeOK, SyncState
      <3>2. CASE Opening(h)' /\ h.bus = b
        BY <2>3, <3>1, <3>2 DEF Opening
      <3>3. CASE ~(Opening(h)' /\ h.bus = b)
        BY <2>1, <3>1, <3>3, HandleFields DEF Known, Opening, Listed, HeldBy
      <3> QED BY <3>2, <3>3
    <2> QED BY <1>8, <2>2, <2>3 DEF SyncOpen, Opened
  <1>9. CASE CtlStep
    <2>1. CASE Stop \/ MoveToBackground
      BY <1>1, <2>1 DEF Stop, MoveToBackground, StopServing, SyncIdle
    <2>2. CASE CleanupLock \/ CleanupTimeout \/ Exit
      BY <1>1, <2>2 DEF CleanupLock, CleanupTimeout, Exit
    <2>3. CASE CleanupDrain
      <3>1. UNCHANGED <<conn, sync>> /\ \A b \in Buses : ad'[b] = <<>>
        BY <2>3 DEF CleanupDrain
      <3>2. ~Listed(h)'
        BY <3>1, HandleFields, OneEntry DEF Listed
      <3> QED BY <3>1, <3>2 DEF Known, Opening, HeldBy
    <2> QED BY <1>9, <2>1, <2>2, <2>3 DEF CtlStep
  <1> QED BY <1>2, <1>3, <1>4, <1>5, <1>6, <1>7, <1>8, <1>9 DEF Next, SyncStep

(* The number of openings of a port changes only when it is opened.        *)
LEMMA OpensSteps ==
  ASSUME TypeOK, [Next]_vars, NEW b \in Buses
  PROVE  /\ opens[b] \in Nat /\ opens'[b] \in Nat
         /\ opens'[b] = opens[b] \/ (Opened(b) /\ opens'[b] = opens[b] + 1)
  <1>1. opens[b] \in Nat
    BY InventoryAssumption DEF TypeOK
  <1>2. ASSUME NEW c \in Conns, ConnStep(c) \/ PeerStep(c) PROVE UNCHANGED opens
    BY <1>2, Hands
  <1>3. HostStep \/ CtlStep => UNCHANGED opens
    BY DEF HostStep, Plug, Unplug, CtlStep, Stop, MoveToBackground, StopServing, CleanupLock,
           CleanupDrain, CleanupTimeout, Exit
  <1>4. SyncList \/ SyncLock \/ SyncPrune \/ SyncAppend \/ SyncRetain => UNCHANGED opens
    BY DEF SyncList, SyncLock, SyncPrune, SyncAppend, SyncRetain
  <1>5. ASSUME NEW a \in Buses, SyncOpen(a) PROVE UNCHANGED opens \/ Opened(a)
    BY <1>5 DEF SyncOpen, Opened
  <1>6. ASSUME NEW a \in Buses, Opened(a)
        PROVE  opens'[b] = opens[b] \/ (Opened(b) /\ opens'[b] = opens[b] + 1)
    BY <1>6 DEF Opened, TypeOK
  <1>7. UNCHANGED opens \/ \E a \in Buses : Opened(a)
    BY <1>2, <1>3, <1>4, <1>5 DEF Next, SyncStep
  <1> QED BY <1>1, <1>6, <1>7

(* What is known anywhere was opened, and so was what is in used_devices.  *)
Numbered == \A h \in Handle : Known(h) => h.inc <= opens[h.bus]

LEMMA InitNumbered == Init => Numbered
  <1> SUFFICES ASSUME Init, NEW h \in Handle, Known(h) PROVE h.inc <= opens[h.bus]
    BY DEF Numbered
  <1>1. Listed(h)
    BY HandleFields DEF Init, SyncIdle, Closed, Idle, Known, Opening, HeldBy
  <1>2. PICK listed \in SUBSET present :
          /\ opens = [b \in Buses |-> IF b \in listed THEN 1 ELSE 0]
          /\ ad = [b \in Buses |-> IF b \in listed THEN <<1>> ELSE <<>>]
    BY DEF Init
  <1>3. h.bus \in listed /\ ad[h.bus] = <<1>>
    BY <1>1, <1>2, HandleFields, OneEntry DEF Listed
  <1>4. h.inc = 1
    BY <1>1, <1>3 DEF Listed
  <1> QED BY <1>2, <1>3, <1>4, HandleFields

LEMMA NextNumbered == TypeOK /\ Numbered /\ [Next]_vars => Numbered'
  <1> SUFFICES ASSUME TypeOK, Numbered, [Next]_vars, NEW h \in Handle, Known(h)'
               PROVE  h.inc <= opens'[h.bus]
    BY DEF Numbered
  <1>1. /\ h.bus \in Buses /\ h.inc \in Nat /\ opens[h.bus] \in Nat /\ opens'[h.bus] \in Nat
        /\ opens'[h.bus] = opens[h.bus] \/ opens'[h.bus] = opens[h.bus] + 1
    BY HandleFields, OpensSteps
  <1>2. CASE Known(h)
    BY <1>1, <1>2 DEF Numbered
  <1>3. CASE Opened(h.bus) /\ h.inc = opens[h.bus] + 1
    BY <1>1, <1>3 DEF Opened, TypeOK
  <1> QED BY <1>2, <1>3, KnownSteps

LEMMA NumberedInvariant == Spec => []Numbered
  <1> QED BY InitNumbered, NextNumbered, TypeCorrect, PTL DEF Spec

(* A turn opens a port once, and what it opened joins the lists before the *)
(* turn goes on.                                                           *)
OpenedInTurn ==
  \A b \in Buses : sync.opened[b] # 0 => sync.pc = "open" /\ b \notin sync.todo

LEMMA InitOpenedInTurn == Init => OpenedInTurn
  BY DEF Init, SyncIdle, OpenedInTurn

LEMMA NextOpenedInTurn == TypeOK /\ OpenedInTurn /\ [Next]_vars => OpenedInTurn'
  <1> SUFFICES ASSUME TypeOK, OpenedInTurn, [Next]_vars, NEW b \in Buses, sync'.opened[b] # 0
               PROVE  sync'.pc = "open" /\ b \notin sync'.todo
    BY DEF OpenedInTurn
  <1>1. CASE UNCHANGED sync
    BY <1>1 DEF OpenedInTurn
  <1>2. ASSUME NEW c \in Conns, ConnStep(c) \/ PeerStep(c) PROVE UNCHANGED sync
    BY <1>2, Hands
  <1>3. CASE SyncList \/ SyncLock
    BY <1>3 DEF SyncList, SyncLock, TypeOK, SyncState, OpenedInTurn
  <1>4. CASE SyncPrune
    BY <1>4 DEF SyncPrune, TypeOK, SyncState, OpenedInTurn
  <1>5. ASSUME NEW a \in Buses, SyncOpen(a) PROVE sync'.pc = "open" /\ b \notin sync'.todo
    <2>1. sync.pc = "open" /\ sync'.pc = "open" /\ sync'.todo = sync.todo \ {a}
      BY <1>5 DEF SyncOpen, TypeOK, SyncState
    <2>2. ASSUME b # a PROVE sync'.opened[b] = sync.opened[b]
      <3>1. CASE sync' = [sync EXCEPT !.todo = @ \ {a}]
        BY <3>1 DEF TypeOK, SyncState
      <3>2. CASE sync' = [sync EXCEPT !.todo = @ \ {a}, !.opened[a] = opens[a] + 1]
        BY <2>2, <3>2 DEF TypeOK, SyncState
      <3> QED BY <1>5, <3>1, <3>2 DEF SyncOpen
    <2>3. CASE b = a
      BY <2>1, <2>3
    <2>4. CASE b # a
      <3>1. b \notin sync.todo
        BY <2>2, <2>4 DEF OpenedInTurn
      <3> QED BY <2>1, <3>1
    <2> QED BY <2>3, <2>4
  <1>6. CASE SyncAppend
    BY <1>6, AppendLists
  <1>7. CASE SyncRetain \/ Stop \/ MoveToBackground
    BY <1>7 DEF SyncRetain, Stop, MoveToBackground, StopServing, SyncIdle
  <1>8. HostStep \/ CleanupLock \/ CleanupDrain \/ CleanupTimeout \/ Exit => UNCHANGED sync
    BY DEF HostStep, Plug, Unplug, CleanupLock, CleanupDrain, CleanupTimeout, Exit
  <1> QED BY <1>1, <1>2, <1>3, <1>4, <1>5, <1>6, <1>7, <1>8 DEF Next, SyncStep, CtlStep

LEMMA TurnInvariant == Spec => []OpenedInTurn
  <1> QED BY InitOpenedInTurn, NextOpenedInTurn, TypeCorrect, PTL DEF Spec

----------------------------------------------------------------------------
(* An opening is in one place only.  HandleExclusive is inductive together *)
(* with TypeOK and Numbered: of the actions that touch a place where       *)
(* handles are, most only take something away (Shrinks); OccupyTake,       *)
(* ReleaseMove and SyncAppend move a handle from one place to another, and *)
(* SyncOpen creates one with a number that nothing known has.              *)

Shrinks ==
  /\ \A c \in Conns : conn'[c].held \in {conn[c].held, NoHandle}
  /\ \A b \in Buses : sync'.opened[b] \in {sync.opened[b], 0}

LEMMA ShrinkExclusive ==
  ASSUME TypeOK, HandleExclusive, Shrinks, UNCHANGED ad
  PROVE  HandleExclusive'
  <1>1. \A h \in Handle : \A c \in Conns : HeldBy(c, h)' => HeldBy(c, h)
    BY HandleFields DEF Shrinks, HeldBy
  <1>2. \A h \in Handle : Opening(h)' => Opening(h)
    BY HandleFields DEF Shrinks, Opening
  <1>3. \A h \in Handle : Listed(h)' => Listed(h)
    BY DEF Listed
  <1>4. ListedOnce'
    BY DEF HandleExclusive, ListedOnce
  <1> QED BY <1>1, <1>2, <1>3, <1>4
          DEF HandleExclusive, OneHolder, HeldNotListed, NothingElseOpening

LEMMA InitExclusive == Init => HandleExclusive
  <1> SUFFICES ASSUME Init PROVE HandleExclusive OBVIOUS
  <1>1. \A c \in Conns : conn[c].held = NoHandle
    BY DEF Init, Closed, Idle
  <1>2. \A b \in Buses : sync.opened[b] = 0
    BY DEF Init, SyncIdle
  <1>3. \A b \in Buses : ad[b] = <<>> \/ ad[b] = <<1>>
    BY DEF Init
  <1>4. ListedOnce
    <2> SUFFICES ASSUME NEW b \in Buses, NEW j \in 1 .. Len(ad[b]), NEW k \in 1 .. Len(ad[b])
                 PROVE  j = k
      BY DEF ListedOnce
    <2>1. PICK n \in Nat : n = Len(ad[b])
      BY <1>3, OneEntry, InventoryAssumption
    <2>2. n = 0 \/ n = 1
      BY <1>3, <2>1, OneEntry, InventoryAssumption
    <2>3. j \in 1 .. n /\ k \in 1 .. n
      BY <2>1
    <2> QED BY <2>2, <2>3
  <1> QED BY <1>1, <1>2, <1>4, HandleFields
          DEF HandleExclusive, OneHolder, HeldNotListed, NothingElseOpening, HeldBy, Opening

LEMMA HostStepExclusive ==
  ASSUME TypeOK, HandleExclusive, HostStep
  PROVE  HandleExclusive'
  BY ShrinkExclusive DEF HostStep, Plug, Unplug, Shrinks

LEMMA CtlStepExclusive ==
  ASSUME TypeOK, HandleExclusive, CtlStep
  PROVE  HandleExclusive'
  <1>1. CASE Stop \/ MoveToBackground
    <2>1. sync' = SyncIdle /\ UNCHANGED <<ad, conn>>
      BY <1>1 DEF Stop, MoveToBackground, StopServing
    <2>2. Shrinks
      BY <2>1 DEF Shrinks, SyncIdle
    <2>3. UNCHANGED ad
      BY <2>1
    <2> QED BY <2>2, <2>3, ShrinkExclusive
  <1>2. CASE CleanupLock \/ CleanupTimeout \/ Exit
    BY <1>2, ShrinkExclusive DEF CleanupLock, CleanupTimeout, Exit, Shrinks
  <1>3. CASE CleanupDrain
    <2>1. ad' = [b \in Buses |-> <<>>] /\ UNCHANGED <<conn, sync>>
      BY <1>3 DEF CleanupDrain
    <2>2. \A b \in Buses : 1 .. Len(ad'[b]) = {}
      BY <2>1, OneEntry
    <2>3. \A h \in Handle : ~Listed(h)'
      BY <2>2, HandleFields DEF Listed
    <2>4. ListedOnce'
      BY <2>2 DEF ListedOnce
    <2> QED BY <2>1, <2>3, <2>4
            DEF HandleExclusive, OneHolder, HeldNotListed, NothingElseOpening, HeldBy, Opening
  <1> QED BY <1>1, <1>2, <1>3 DEF CtlStep

LEMMA PeerStepExclusive ==
  ASSUME TypeOK, HandleExclusive, NEW c \in Conns, PeerStep(c)
  PROVE  HandleExclusive'
  <1>1. UNCHANGED <<ad, sync>>
    BY DEF PeerStep, Connect, ImportRequest, BadImportRequest, Disconnect, Panic
  <1>2. \A after \in {"serving", "closed"} :
          Surrender(c, after).held \in {conn[c].held, NoHandle}
    BY TypeConn DEF Surrender, Idle, ConnState
  <1>3. Idle.held = NoHandle /\ Closed.held = NoHandle
    BY DEF Idle, Closed
  <1>4. conn'[c].held \in {conn[c].held, NoHandle}
    <2>1. CASE Connect(c) \/ Panic(c)
      BY <1>3, <2>1 DEF Connect, Panic, TypeOK
    <2>2. CASE BadImportRequest(c) \/ Disconnect(c)
      BY <1>2, <2>2 DEF BadImportRequest, Disconnect, TypeOK
    <2>3. ASSUME NEW b \in Buses, ImportRequest(c, b) PROVE conn'[c].held = conn[c].held
      BY <2>3, TypeConn DEF ImportRequest, TypeOK, ConnState
    <2> QED BY <2>1, <2>2, <2>3 DEF PeerStep
  <1>5. \A d \in Conns : d # c => conn'[d] = conn[d]
    BY DEF PeerStep, Connect, ImportRequest, BadImportRequest, Disconnect, Panic, TypeOK
  <1>6. Shrinks
    BY <1>1, <1>4, <1>5 DEF Shrinks
  <1> QED BY <1>1, <1>6, ShrinkExclusive

(* The import takes the first entry of the list into its hands.            *)
LEMMA OccupyTakeExclusive ==
  ASSUME TypeOK, HandleExclusive, NEW c \in Conns, OccupyTake(c)
  PROVE  HandleExclusive'
  <1>1. PICK b \in Buses : b = conn[c].want
    BY TypeConn DEF OccupyTake, At, PlaceOK
  <1>0. conn[c].held = NoHandle /\ ad[b] \in Seq(1 .. MaxOpens)
    BY TypeConn DEF OccupyTake, At, PlaceOK, TypeOK
  <1>2. CASE ad[b] = <<>>
    <2>1. conn' = [conn EXCEPT ![c].pc = "reply"] /\ UNCHANGED <<ad, sync>>
      BY <1>1, <1>2 DEF OccupyTake
    <2>2. \A d \in Conns : conn'[d].held = conn[d].held
      BY <2>1, TypeConn DEF TypeOK, ConnState
    <2> QED BY <2>1, <2>2, ShrinkExclusive DEF Shrinks
  <1>3. CASE ad[b] # <<>>
    <2>0. PICK h \in Handle : h = [bus |-> b, inc |-> Head(ad[b])]
      BY <1>0, <1>3, TailShifts, HandleFields
    <2>1. /\ ad' = [ad EXCEPT ![b] = Tail(@)]
          /\ conn' = [conn EXCEPT ![c].pc = "occUd", ![c].held = h]
          /\ UNCHANGED sync
      BY <1>1, <1>3, <2>0 DEF OccupyTake
    <2>2. /\ 1 \in 1 .. Len(ad[b]) /\ Head(ad[b]) = ad[b][1]
          /\ \A k \in 1 .. Len(Tail(ad[b])) :
               k + 1 \in 1 .. Len(ad[b]) /\ Tail(ad[b])[k] = ad[b][k + 1]
      BY <1>0, <1>3, TailShifts
    <2>3. Listed(h)
      BY <2>0, <2>2 DEF Listed
    <2>4. \A d \in Conns : conn'[d].held = IF d = c THEN h ELSE conn[d].held
      BY <2>1, TypeConn DEF TypeOK, ConnState
    <2>5. \A g \in Handle : Listed(g)' => Listed(g)
      BY <1>1, <2>1, <2>2 DEF Listed, TypeOK
    <2>6. ~Listed(h)'
      <3>1. \A k \in 1 .. Len(Tail(ad[b])) : Tail(ad[b])[k] # Head(ad[b])
        BY <1>0, <2>2 DEF HandleExclusive, ListedOnce
      <3>2. ad'[b] = Tail(ad[b])
        BY <1>1, <2>1 DEF TypeOK
      <3> QED BY <2>0, <3>1, <3>2 DEF Listed
    <2>7. ListedOnce'
      <3>1. \A a \in Buses : ad'[a] = IF a = b THEN Tail(ad[b]) ELSE ad[a]
        BY <1>1, <2>1 DEF TypeOK
      <3> SUFFICES ASSUME NEW a \in Buses, NEW j \in 1 .. Len(ad'[a]), NEW k \in 1 .. Len(ad'[a]),
                          ad'[a][j] = ad'[a][k]
                   PROVE  j = k
        BY DEF ListedOnce
      <3>2. CASE a # b
        BY <3>1, <3>2 DEF HandleExclusive, ListedOnce
      <3>3. CASE a = b
        <4>1. ad[b][j + 1] = ad[b][k + 1] /\ j + 1 \in 1 .. Len(ad[b]) /\ k + 1 \in 1 .. Len(ad[b])
          BY <2>2, <3>1, <3>3
        <4>2. j + 1 = k + 1
          BY <1>1, <4>1 DEF HandleExclusive, ListedOnce
        <4> QED BY <4>2
      <3> QED BY <3>2, <3>3
    <2>8. OneHolder'
      BY <2>3, <2>4 DEF HandleExclusive, OneHolder, HeldNotListed, HeldBy
    <2>9. HeldNotListed'
      BY <2>4, <2>5, <2>6 DEF HandleExclusive, HeldNotListed, HeldBy
    <2>10. NothingElseOpening'
      BY <2>1, <2>3, <2>4, <2>5 DEF HandleExclusive, NothingElseOpening, HeldBy, Opening
    <2> QED BY <2>7, <2>8, <2>9, <2>10 DEF HandleExclusive
  <1> QED BY <1>2, <1>3

(* The steps of a connection that move no device: they keep what is held,  *)
(* or drop it.                                                             *)
LEMMA ConnShrinkExclusive ==
  ASSUME TypeOK, HandleExclusive, NEW c \in Conns,
         \/ OccupyRegister(c) \/ ReplyWritten(c) \/ ReplyFails(c) \/ ClearPrevious(c)
         \/ SetOccupancy(c) \/ ClearOccupancy(c) \/ ReleaseLock(c)
  PROVE  HandleExclusive'
  <1>1. UNCHANGED <<ad, sync>>
    BY DEF OccupyRegister, ReplyWritten, ReplyFails, ClearPrevious, SetOccupancy,
           ClearOccupancy, ReleaseLock
  <1>2. \A r \in ConnState : AfterReply(r).held \in {r.held, NoHandle}
    BY DEF AfterReply, Idle, ConnState
  <1>3. conn'[c].held \in {conn[c].held, NoHandle}
    <2>1. CASE ReplyWritten(c)
      BY <1>2, <2>1, TypeConn DEF ReplyWritten, TypeOK
    <2>2. CASE ReplyFails(c)
      <3>1. Surrender(c, "closed").held \in {conn[c].held, NoHandle}
        BY TypeConn DEF Surrender, Idle, ConnState
      <3> QED BY <2>2, <3>1 DEF ReplyFails, TypeOK
    <2>3. CASE ClearPrevious(c)
      <3> DEFINE n == [conn[c] EXCEPT !.prev = None]
      <3>1. n \in ConnState /\ n.held = conn[c].held
        BY TypeConn DEF ConnState
      <3>2. conn'[c] = AfterReply(n)
        BY <2>3 DEF ClearPrevious, TypeOK
      <3> HIDE DEF n
      <3> QED BY <1>2, <3>1, <3>2
    <2>4. CASE OccupyRegister(c) \/ SetOccupancy(c) \/ ClearOccupancy(c) \/ ReleaseLock(c)
      BY <2>4, TypeConn
         DEF OccupyRegister, SetOccupancy, ClearOccupancy, ReleaseLock, TypeOK, ConnState
    <2> QED BY <2>1, <2>2, <2>3, <2>4
  <1>4. \A d \in Conns : d # c => conn'[d] = conn[d]
    BY DEF OccupyRegister, ReplyWritten, ReplyFails, ClearPrevious, SetOccupancy,
           ClearOccupancy, ReleaseLock, TypeOK
  <1>5. Shrinks
    BY <1>1, <1>3, <1>4 DEF Shrinks
  <1> QED BY <1>1, <1>5, ShrinkExclusive

(* The release puts the device it holds on the list, or drops it when the  *)
(* bus is listed already.                                                  *)
LEMMA ReleaseMoveExclusive ==
  ASSUME TypeOK, HandleExclusive, NEW c \in Conns, ReleaseMove(c)
  PROVE  HandleExclusive'
  <1>0. PICK h \in Handle : h = conn[c].held
    BY TypeConn DEF ReleaseMove, At, PlaceOK
  <1>1. conn'[c].held = NoHandle /\ \A d \in Conns : d # c => conn'[d] = conn[d]
    BY TypeConn DEF ReleaseMove, TypeOK, ConnState, Idle
  <1>2. /\ ad' = [ad EXCEPT ![h.bus] = IF @ = <<>> THEN <<h.inc>> ELSE @]
        /\ UNCHANGED sync /\ HeldBy(c, h) /\ h.bus \in Buses /\ h.inc \in 1 .. MaxOpens
    BY <1>0, HandleFields DEF ReleaseMove, HeldBy
  <1>3. Shrinks
    BY <1>1, <1>2 DEF Shrinks
  <1>4. CASE ad[h.bus] # <<>>
    <2>1. UNCHANGED ad
      BY <1>2, <1>4 DEF TypeOK
    <2> QED BY <1>3, <2>1, ShrinkExclusive
  <1>5. CASE ad[h.bus] = <<>>
    <2>1. \A b \in Buses : ad'[b] = IF b = h.bus THEN <<h.inc>> ELSE ad[b]
      BY <1>2, <1>5 DEF TypeOK
    <2>2. Len(<<h.inc>>) = 1 /\ <<h.inc>>[1] = h.inc
      BY <1>2, OneEntry
    <2>3. \A g \in Handle : Listed(g)' => Listed(g) \/ g = h
      <3> SUFFICES ASSUME NEW g \in Handle, Listed(g)' PROVE Listed(g) \/ g = h
        OBVIOUS
      <3>1. CASE g.bus = h.bus
        <4>1. PICK k \in 1 .. Len(<<h.inc>>) : <<h.inc>>[k] = g.inc
          BY <2>1, <3>1, <1>2 DEF Listed
        <4>2. k = 1
          BY <2>2, <4>1
        <4> QED BY <2>2, <3>1, <4>1, <4>2, HandleFields
      <3>2. CASE g.bus # h.bus
        BY <2>1, <3>2, HandleFields DEF Listed
      <3> QED BY <3>1, <3>2
    <2>4. \A d \in Conns : \A g \in Handle : HeldBy(d, g)' => d # c /\ HeldBy(d, g) /\ g # h
      BY <1>1, <1>2, HandleFields DEF HeldBy, HandleExclusive, OneHolder
    <2>5. OneHolder' /\ HeldNotListed'
      BY <2>3, <2>4 DEF HandleExclusive, OneHolder, HeldNotListed
    <2>6. NothingElseOpening'
      BY <1>2, <2>3, <2>4 DEF HandleExclusive, NothingElseOpening, Opening
    <2>7. ListedOnce'
      <3> SUFFICES ASSUME NEW b \in Buses, NEW j \in 1 .. Len(ad'[b]), NEW k \in 1 .. Len(ad'[b]),
                          ad'[b][j] = ad'[b][k]
                   PROVE  j = k
        BY DEF ListedOnce
      <3>1. CASE b = h.bus
        <4>1. j \in 1 .. Len(<<h.inc>>) /\ k \in 1 .. Len(<<h.inc>>)
          BY <2>1, <3>1
        <4> QED BY <2>2, <4>1
      <3>2. CASE b # h.bus
        BY <2>1, <3>2 DEF HandleExclusive, ListedOnce
      <3> QED BY <3>1, <3>2
    <2> QED BY <2>5, <2>6, <2>7 DEF HandleExclusive
  <1> QED BY <1>4, <1>5

----------------------------------------------------------------------------
(* The synchronisation task.                                               *)

LEMMA SyncPruneExclusive ==
  ASSUME TypeOK, HandleExclusive, SyncPrune
  PROVE  HandleExclusive'
  <1>1. /\ \A b \in Buses : \/ ad'[b] = <<>>
                           \/ (ad[b] # <<>> /\ ad'[b] = <<Head(ad[b])>>)
        /\ UNCHANGED conn /\ sync'.opened = sync.opened
    BY DEF SyncPrune, TypeOK, SyncState
  <1>2. ASSUME NEW b \in Buses, NEW k \in 1 .. Len(ad'[b])
        PROVE  k = 1 /\ ad[b] # <<>> /\ ad'[b][k] = Head(ad[b])
    <2>1. CASE ad'[b] = <<>>
      BY <1>2, <2>1, OneEntry
    <2>2. CASE ad[b] # <<>> /\ ad'[b] = <<Head(ad[b])>>
      <3>1. Head(ad[b]) \in 1 .. MaxOpens
        BY <2>2, TailShifts DEF TypeOK
      <3>2. Len(ad'[b]) = 1 /\ ad'[b][1] = Head(ad[b])
        BY <2>2, <3>1, OneEntry
      <3> QED BY <1>2, <2>2, <3>2
    <2> QED BY <1>1, <2>1, <2>2
  <1>3. \A h \in Handle : Listed(h)' => Listed(h)
    <2> SUFFICES ASSUME NEW h \in Handle, Listed(h)' PROVE Listed(h)
      OBVIOUS
    <2>1. ad[h.bus] # <<>> /\ h.inc = Head(ad[h.bus])
      BY <1>2, HandleFields DEF Listed
    <2>2. 1 \in 1 .. Len(ad[h.bus]) /\ Head(ad[h.bus]) = ad[h.bus][1]
      BY <2>1, TailShifts, HandleFields DEF TypeOK
    <2> QED BY <2>1, <2>2 DEF Listed
  <1>4. ListedOnce'
    BY <1>2 DEF ListedOnce
  <1> QED BY <1>1, <1>3, <1>4
          DEF HandleExclusive, OneHolder, HeldNotListed, NothingElseOpening, HeldBy, Opening

(* The opening gets a number that nothing known has.                       *)
LEMMA SyncOpenExclusive ==
  ASSUME TypeOK, HandleExclusive, Numbered, NEW b \in Buses, SyncOpen(b)
  PROVE  HandleExclusive'
  <1>1. UNCHANGED <<ad, conn>>
    BY DEF SyncOpen
  <1>2. CASE sync' = [sync EXCEPT !.todo = @ \ {b}]
    <2>1. sync'.opened = sync.opened
      BY <1>2 DEF TypeOK, SyncState
    <2> QED BY <1>1, <2>1, ShrinkExclusive DEF Shrinks
  <1>3. CASE sync' = [sync EXCEPT !.todo = @ \ {b}, !.opened[b] = opens[b] + 1]
    <2>1. \A a \in Buses : sync'.opened[a] = IF a = b THEN opens[b] + 1 ELSE sync.opened[a]
      BY <1>3 DEF TypeOK, SyncState
    <2>2. \A h \in Handle : Opening(h)' =>
            Opening(h) \/ (~Listed(h) /\ \A c \in Conns : ~HeldBy(c, h))
      <3> SUFFICES ASSUME NEW h \in Handle, Opening(h)', ~Opening(h)
                   PROVE  ~Listed(h) /\ \A c \in Conns : ~HeldBy(c, h)
        OBVIOUS
      <3>1. h.bus = b /\ h.inc = opens[b] + 1
        BY <2>1, HandleFields DEF Opening
      <3>2. opens[b] \in Nat
        BY InventoryAssumption DEF TypeOK
      <3>3. ~Known(h)
        BY <3>1, <3>2 DEF Numbered
      <3> QED BY <3>3 DEF Known
    <2>3. NothingElseOpening'
      BY <1>1, <2>2 DEF HandleExclusive, NothingElseOpening, Listed, HeldBy
    <2> QED BY <1>1, <2>3
            DEF HandleExclusive, OneHolder, HeldNotListed, ListedOnce, HeldBy, Listed
  <1> QED BY <1>2, <1>3 DEF SyncOpen

(* What was opened, and only that, joins the lists.                        *)
LEMMA SyncAppendExclusive ==
  ASSUME TypeOK, HandleExclusive, SyncAppend
  PROVE  HandleExclusive'
  <1>1. /\ \A b \in Buses : ad'[b] = IF sync.opened[b] = 0 THEN ad[b]
                                    ELSE Append(ad[b], sync.opened[b])
        /\ \A b \in Buses : sync'.opened[b] = 0
        /\ UNCHANGED conn
    BY DEF SyncAppend, TypeOK, SyncState, SyncIdle
  <1>2. ASSUME NEW b \in Buses, sync.opened[b] # 0
        PROVE  /\ [bus |-> b, inc |-> sync.opened[b]] \in Handle
               /\ Len(ad[b]) \in Nat /\ Len(ad'[b]) = Len(ad[b]) + 1
               /\ \A k \in 1 .. Len(ad[b]) : ad'[b][k] = ad[b][k]
               /\ ad'[b][Len(ad[b]) + 1] = sync.opened[b]
    <2>1. sync.opened[b] \in 1 .. MaxOpens /\ ad[b] \in Seq(1 .. MaxOpens)
      BY <1>2, InventoryAssumption DEF TypeOK, SyncState
    <2>2. ad'[b] = Append(ad[b], sync.opened[b])
      BY <1>1, <1>2
    <2> QED BY <2>1, <2>2, AppendKeeps, HandleFields
  <1>3. \A h \in Handle : Listed(h)' => Listed(h) \/ Opening(h)
    <2> SUFFICES ASSUME NEW h \in Handle, Listed(h)' PROVE Listed(h) \/ Opening(h)
      OBVIOUS
    <2>1. PICK k \in 1 .. Len(ad'[h.bus]) : ad'[h.bus][k] = h.inc
      BY DEF Listed
    <2>2. CASE sync.opened[h.bus] = 0
      BY <1>1, <2>1, <2>2, HandleFields DEF Listed
    <2>3. CASE sync.opened[h.bus] # 0
      <3>1. CASE k \in 1 .. Len(ad[h.bus])
        BY <1>2, <2>1, <2>3, <3>1, HandleFields DEF Listed
      <3>2. CASE k \notin 1 .. Len(ad[h.bus])
        <4>1. k = Len(ad[h.bus]) + 1
          <5>1. Len(ad[h.bus]) \in Nat /\ Len(ad'[h.bus]) = Len(ad[h.bus]) + 1
            BY <1>2, <2>3, HandleFields
          <5> QED BY <3>2, <5>1, LastPlace
        <4> QED BY <1>2, <2>1, <2>3, <4>1, HandleFields DEF Opening
      <3> QED BY <3>1, <3>2
    <2> QED BY <2>2, <2>3
  <1>4. \A h \in Handle : ~Opening(h)'
    BY <1>1, HandleFields DEF Opening
  <1>5. ListedOnce'
    <2> SUFFICES ASSUME NEW b \in Buses, NEW j \in 1 .. Len(ad'[b]), NEW k \in 1 .. Len(ad'[b]),
                        ad'[b][j] = ad'[b][k]
                 PROVE  j = k
      BY DEF ListedOnce
    <2>1. CASE sync.opened[b] = 0
      BY <1>1, <2>1 DEF HandleExclusive, ListedOnce
    <2>2. CASE sync.opened[b] # 0
      <3> DEFINE h == [bus |-> b, inc |-> sync.opened[b]]
      <3>1. \A i \in 1 .. Len(ad[b]) : ad[b][i] # sync.opened[b]
        <4>1. h \in Handle /\ h.bus = b /\ h.inc = sync.opened[b]
          BY <1>2, <2>2
        <4>2. Opening(h)
          BY <4>1 DEF Opening
        <4>3. ~Listed(h)
          BY <4>1, <4>2 DEF HandleExclusive, NothingElseOpening
        <4> QED BY <4>1, <4>3 DEF Listed
      <3>2. \A i \in 1 .. Len(ad'[b]) : i \in 1 .. Len(ad[b]) \/ i = Len(ad[b]) + 1
        <4>1. Len(ad[b]) \in Nat /\ Len(ad'[b]) = Len(ad[b]) + 1
          BY <1>2, <2>2
        <4> QED BY <4>1, LastPlace
      <3>3. CASE j \in 1 .. Len(ad[b]) /\ k \in 1 .. Len(ad[b])
        BY <1>2, <2>2, <3>3 DEF HandleExclusive, ListedOnce
      <3> QED BY <1>2, <2>2, <3>1, <3>2, <3>3, ZenonT(30)
    <2> QED BY <2>1, <2>2
  <1> QED BY <1>1, <1>3, <1>4, <1>5
          DEF HandleExclusive, OneHolder, HeldNotListed, NothingElseOpening, HeldBy

LEMMA SyncStepExclusive ==
  ASSUME TypeOK, HandleExclusive, Numbered, SyncStep
  PROVE  HandleExclusive'
  <1>1. CASE SyncList \/ SyncLock \/ SyncRetain
    <2>1. UNCHANGED <<ad, conn>>
      BY <1>1 DEF SyncList, SyncLock, SyncRetain
    <2>2. \A b \in Buses : sync'.opened[b] \in {sync.opened[b], 0}
      <3>1. CASE SyncList \/ SyncLock
        <4>1. sync'.opened = sync.opened
          BY <3>1 DEF SyncList, SyncLock, TypeOK, SyncState
        <4> QED BY <4>1
      <3>2. CASE SyncRetain
        BY <3>2 DEF SyncRetain, SyncIdle
      <3> QED BY <1>1, <3>1, <3>2
    <2> QED BY <2>1, <2>2, ShrinkExclusive DEF Shrinks
  <1> QED BY <1>1, SyncPruneExclusive, SyncOpenExclusive, SyncAppendExclusive DEF SyncStep

LEMMA NextExclusive ==
  TypeOK /\ HandleExclusive /\ Numbered /\ [Next]_vars => HandleExclusive'
  <1> SUFFICES ASSUME TypeOK, HandleExclusive, Numbered, [Next]_vars PROVE HandleExclusive'
    OBVIOUS
  <1>1. CASE UNCHANGED vars
    BY <1>1, ShrinkExclusive DEF Shrinks
  <1>2. ASSUME NEW c \in Conns, ConnStep(c) PROVE HandleExclusive'
    BY <1>2, OccupyTakeExclusive, ConnShrinkExclusive, ReleaseMoveExclusive DEF ConnStep
  <1> QED BY <1>1, <1>2, HostStepExclusive, PeerStepExclusive, SyncStepExclusive,
             CtlStepExclusive DEF Next

(* However many clients, ports, plug events and openings there are, one    *)
(* opening of a port is never in two hands: not with two connections, not  *)
(* with a connection and on offer, not listed twice (mod.rs:905-1007).     *)
(* Nothing keeps a port from being opened again while it is held.          *)
THEOREM Exclusive == Spec => []HandleExclusive
  <1> QED BY InitExclusive, NextExclusive, TypeCorrect, NumberedInvariant, PTL DEF Spec

----------------------------------------------------------------------------
(* What the two lists, the occupancy map and the connections have to do    *)
(* with each other: the inventory implements DeviceOwnership, no device    *)
(* that stays plugged in is lost, and used_devices and the occupancy map   *)
(* say who holds what.  Built on HandleExclusive.                          *)

----------------------------------------------------------------------------
(* The refinement.  Owned is the value that the instance gives to owner.   *)

Owned == [h \in Handle |-> OwnerOf(h)]

LEMMA SameHandles == Ownership!Handles = Handle
  BY DEF Ownership!Handles, Handle

(* The owner of a handle, without the choice in its definition.            *)
OwnersKnown ==
  \A h \in Handle :
    /\ \A c \in Conns : OwnerOf(h) = c <=> HeldBy(c, h)
    /\ OwnerOf(h) = "offered" <=> Listed(h)
    /\ OwnerOf(h) = "opening" <=> Opening(h)
    /\ OwnerOf(h) = "unopened" <=> h.inc > opens[h.bus]
    /\ OwnerOf(h) \in Conns \cup {"unopened", "opening", "offered", "dropped"}

(* When a handle is in one place only, its owner says which.               *)
LEMMA OwnerFacts == TypeOK /\ HandleExclusive /\ Numbered => OwnersKnown
  <1> SUFFICES ASSUME TypeOK, HandleExclusive, Numbered, NEW h \in Handle
               PROVE  /\ \A c \in Conns : OwnerOf(h) = c <=> HeldBy(c, h)
                      /\ OwnerOf(h) = "offered" <=> Listed(h)
                      /\ OwnerOf(h) = "opening" <=> Opening(h)
                      /\ OwnerOf(h) = "unopened" <=> h.inc > opens[h.bus]
                      /\ OwnerOf(h) \in Conns \cup {"unopened", "opening", "offered", "dropped"}
    BY DEF OwnersKnown
  <1>1. /\ "unopened" \notin Conns /\ "opening" \notin Conns
        /\ "offered" \notin Conns /\ "dropped" \notin Conns
    BY InventoryAssumption
  <1>n. Known(h) => ~(h.inc > opens[h.bus])
    BY HandleFields, InventoryAssumption DEF Numbered, TypeOK
  <1>2. ASSUME NEW c \in Conns, HeldBy(c, h) PROVE OwnerOf(h) = c /\ ~Listed(h) /\ ~Opening(h)
    <2>1. \A d \in Conns : HeldBy(d, h) => d = c
      BY <1>2 DEF HandleExclusive, OneHolder
    <2>2. PICK e : e = CHOOSE d \in Conns : HeldBy(d, h)
      OBVIOUS
    <2>3. e \in Conns /\ HeldBy(e, h)
      BY <1>2, <2>2
    <2>4. OwnerOf(h) = e
      BY <1>2, <2>2 DEF OwnerOf
    <2> QED BY <1>2, <2>1, <2>3, <2>4 DEF HandleExclusive, HeldNotListed, NothingElseOpening
  <1>3. CASE \E c \in Conns : HeldBy(c, h)
    BY <1>1, <1>2, <1>3, <1>n DEF Known
  <1>4. CASE ~\E c \in Conns : HeldBy(c, h)
    <2>1. OwnerOf(h) = IF Listed(h) THEN "offered"
                       ELSE IF Opening(h) THEN "opening"
                       ELSE IF h.inc > opens[h.bus] THEN "unopened" ELSE "dropped"
      BY <1>4 DEF OwnerOf
    <2>2. Opening(h) => ~Listed(h)
      BY DEF HandleExclusive, NothingElseOpening
    <2> HIDE DEF Listed, Opening
    <2> QED BY <1>1, <1>4, <1>n, <2>1, <2>2 DEF Known
  <1> QED BY <1>3, <1>4

(* The same of the next state.                                             *)
LEMMA OwnerFactsNext == TypeOK' /\ HandleExclusive' /\ Numbered' => OwnersKnown'
  BY OwnerFacts, PTL

(* A handle that no place gains or loses keeps its owner.                  *)
LEMMA OwnerStays ==
  ASSUME OwnersKnown, OwnersKnown', NEW h \in Handle,
         Listed(h)' <=> Listed(h), Opening(h)' <=> Opening(h),
         (h.inc > opens[h.bus])' <=> h.inc > opens[h.bus],
         \A c \in Conns : HeldBy(c, h)' <=> HeldBy(c, h)
  PROVE  OwnerOf(h)' = OwnerOf(h)
  <1>1. /\ OwnerOf(h) \in Conns \cup {"unopened", "opening", "offered", "dropped"}
        /\ OwnerOf(h)' \in Conns \cup {"unopened", "opening", "offered", "dropped"}
        /\ OwnerOf(h)' = "offered" <=> OwnerOf(h) = "offered"
        /\ OwnerOf(h)' = "opening" <=> OwnerOf(h) = "opening"
        /\ OwnerOf(h)' = "unopened" <=> OwnerOf(h) = "unopened"
        /\ \A c \in Conns : OwnerOf(h)' = c <=> OwnerOf(h) = c
    BY DEF OwnersKnown
  <1> QED BY <1>1

(* Initially what is open is on offer, for the first time.                 *)
LEMMA InitRefines == Init => Ownership!Init
  <1> SUFFICES ASSUME Init PROVE Ownership!Init OBVIOUS
  <1>1. TypeOK /\ HandleExclusive /\ Numbered
    BY InitTypeOK, InitExclusive, InitNumbered
  <1>2. \A h \in Handle : ~Opening(h) /\ \A c \in Conns : ~HeldBy(c, h)
    BY HandleFields DEF Init, HeldBy, Opening, SyncIdle, Closed, Idle
  <1>3. PICK listed \in SUBSET present :
          /\ opens = [b \in Buses |-> IF b \in listed THEN 1 ELSE 0]
          /\ ad = [b \in Buses |-> IF b \in listed THEN <<1>> ELSE <<>>]
    BY DEF Init
  <1>4. ASSUME NEW h \in Handle
        PROVE  /\ OwnerOf(h) \in {"unopened", "offered"}
               /\ OwnerOf(h) = "offered" => h.inc = 1
    <2>1. h.bus \in Buses /\ h.inc \in 1 .. MaxOpens
      BY HandleFields
    <2>2. Listed(h) => h.inc = 1
      BY <1>3, <2>1, OneEntry DEF Listed
    <2>3. h.inc = 1 /\ ~(h.inc > opens[h.bus]) => Listed(h)
      <3> SUFFICES ASSUME h.inc = 1, ~(h.inc > opens[h.bus]) PROVE Listed(h)
        OBVIOUS
      <3>1. ad[h.bus] = <<1>>
        BY <1>3, <2>1
      <3> QED BY <3>1, OneEntry DEF Listed
    <2>4. h.inc # 1 => h.inc > opens[h.bus]
      BY <1>3, <2>1, InventoryAssumption
    <2> QED BY <1>1, <1>2, <2>2, <2>3, <2>4 DEF OwnerOf
  <1> QED BY <1>4 DEF Ownership!Init, Ownership!Handles, Handle

(* Taking the first entry of the list is an import of that device.         *)
LEMMA TakeRefines ==
  ASSUME TypeOK, HandleExclusive, OwnersKnown, OwnersKnown',
         NEW c \in Conns, OccupyTake(c), ad[conn[c].want] # <<>>
  PROVE  \E h \in Handle : Ownership!Import(c, h)
  <1>1. PICK b \in Buses : b = conn[c].want
    BY TypeConn DEF OccupyTake, At, PlaceOK
  <1>2. conn[c].held = NoHandle /\ ad[b] \in Seq(1 .. MaxOpens) /\ ad[b] # <<>>
    BY <1>1, TypeConn DEF OccupyTake, At, PlaceOK, TypeOK
  <1>3. PICK h \in Handle : h = [bus |-> b, inc |-> Head(ad[b])]
    BY <1>2, TailShifts, HandleFields
  <1>4. ad' = [ad EXCEPT ![b] = Tail(@)] /\ conn' = [conn EXCEPT ![c].pc = "occUd", ![c].held = h]
    BY <1>1, <1>2, <1>3 DEF OccupyTake
  <1>5. /\ 1 \in 1 .. Len(ad[b]) /\ Head(ad[b]) = ad[b][1] /\ Len(ad[b]) \in Nat
        /\ Len(Tail(ad[b])) = Len(ad[b]) - 1
        /\ \A k \in 1 .. Len(Tail(ad[b])) :
             k + 1 \in 1 .. Len(ad[b]) /\ Tail(ad[b])[k] = ad[b][k + 1]
    BY <1>2, TailShifts
  <1>6. Listed(h)
    BY <1>3, <1>5 DEF Listed
  <1>7. \A d \in Conns : conn'[d].held = IF d = c THEN h ELSE conn[d].held
    BY <1>4, TypeConn DEF TypeOK, ConnState
  <1>8. \A g \in Handle : g # h => (Listed(g)' <=> Listed(g))
    <2> SUFFICES ASSUME NEW g \in Handle, g # h PROVE Listed(g)' <=> Listed(g)
      OBVIOUS
    <2>1. CASE g.bus # b
      BY <1>4, <2>1 DEF Listed, TypeOK
    <2>2. CASE g.bus = b
      <3>1. g.inc # Head(ad[b]) /\ ad'[b] = Tail(ad[b])
        BY <1>3, <1>4, <2>2, HandleFields DEF TypeOK
      <3>2. ASSUME NEW k \in 1 .. Len(ad[b]), ad[b][k] = g.inc
            PROVE  k - 1 \in 1 .. Len(Tail(ad[b])) /\ Tail(ad[b])[k - 1] = g.inc
        <4>1. k # 1
          BY <1>5, <3>1, <3>2
        <4>2. k - 1 \in 1 .. Len(Tail(ad[b])) /\ (k - 1) + 1 = k
          BY <1>5, <4>1
        <4> QED BY <1>5, <3>2, <4>2
      <3>3. ASSUME Listed(g)' PROVE Listed(g)
        <4>1. PICK k \in 1 .. Len(Tail(ad[b])) : Tail(ad[b])[k] = g.inc
          BY <2>2, <3>1, <3>3 DEF Listed
        <4> QED BY <1>5, <2>2, <4>1 DEF Listed
      <3>4. ASSUME Listed(g) PROVE Listed(g)'
        <4>1. PICK k \in 1 .. Len(ad[b]) : ad[b][k] = g.inc
          BY <2>2, <3>4 DEF Listed
        <4>2. \E i \in 1 .. Len(ad'[b]) : ad'[b][i] = g.inc
          BY <3>1, <3>2, <4>1
        <4> QED BY <2>2, <4>2 DEF Listed
      <3> QED BY <3>3, <3>4
    <2> QED BY <2>1, <2>2
  <1>9. \A g \in Handle : g # h => OwnerOf(g)' = OwnerOf(g)
    <2> SUFFICES ASSUME NEW g \in Handle, g # h PROVE OwnerOf(g)' = OwnerOf(g)
      OBVIOUS
    <2>1. \A d \in Conns : HeldBy(d, g)' <=> HeldBy(d, g)
      BY <1>2, <1>7, HandleFields DEF HeldBy
    <2>2. (Opening(g)' <=> Opening(g)) /\ ((g.inc > opens[g.bus])' <=> g.inc > opens[g.bus])
      BY DEF OccupyTake, Opening
    <2> QED BY <1>8, <2>1, <2>2, OwnerStays
  <1>10. OwnerOf(h)' = c
    BY <1>7 DEF OwnersKnown, HeldBy
  <1>11. OwnerOf(h) = "offered" /\ \A g \in Handle : OwnerOf(g) # c
    BY <1>2, <1>6, HandleFields DEF OwnersKnown, HeldBy
  <1> QED BY <1>9, <1>10, <1>11, SameHandles DEF Ownership!Import

(* Letting go of a device, with or without putting it on the list, gives   *)
(* it back.                                                                *)
LEMMA LetGoRefines ==
  ASSUME TypeOK, OwnersKnown, OwnersKnown', NEW c \in Conns, NEW h \in Handle, HeldBy(c, h),
         conn'[c].held = NoHandle, \A d \in Conns : d # c => conn'[d] = conn[d],
         \A g \in Handle : g # h => (Listed(g)' <=> Listed(g)), UNCHANGED <<opens, sync>>
  PROVE  Ownership!GiveBack(c, h)
  <1>1. OwnerOf(h) = c
    BY DEF OwnersKnown
  <1>2. \A d \in Conns : ~HeldBy(d, h)'
    BY <1>1, HandleFields DEF OwnersKnown, HeldBy
  <1>3. ~Opening(h) /\ ~(h.inc > opens[h.bus])
    BY <1>1, InventoryAssumption DEF OwnersKnown
  <1>4. OwnerOf(h)' \in {"offered", "dropped"}
    <2>1. ~Opening(h)' /\ ~(h.inc > opens[h.bus])'
      BY <1>3 DEF Opening
    <2>2. OwnerOf(h)' # "opening" /\ OwnerOf(h)' # "unopened" /\ OwnerOf(h)' \notin Conns
      BY <1>2, <2>1 DEF OwnersKnown
    <2> QED BY <2>2 DEF OwnersKnown
  <1>5. \A g \in Handle : g # h => OwnerOf(g)' = OwnerOf(g)
    <2> SUFFICES ASSUME NEW g \in Handle, g # h PROVE OwnerOf(g)' = OwnerOf(g)
      OBVIOUS
    <2>1. \A d \in Conns : HeldBy(d, g)' <=> HeldBy(d, g)
      BY HandleFields DEF HeldBy
    <2>2. (Opening(g)' <=> Opening(g)) /\ ((g.inc > opens[g.bus])' <=> g.inc > opens[g.bus])
      BY DEF Opening
    <2> QED BY <2>1, <2>2, OwnerStays
  <1> QED BY <1>1, <1>4, <1>5, SameHandles DEF Ownership!GiveBack

LEMMA ReleaseRefines ==
  ASSUME TypeOK, OwnersKnown, OwnersKnown', NEW c \in Conns, ReleaseMove(c)
  PROVE  \E h \in Handle : Ownership!GiveBack(c, h)
  <1>1. PICK h \in Handle : h = conn[c].held
    BY ReleaseLists
  <1>2. \A g \in Handle : g # h => (Listed(g)' <=> Listed(g))
    <2> SUFFICES ASSUME NEW g \in Handle, g # h PROVE Listed(g)' <=> Listed(g)
      OBVIOUS
    <2>1. CASE g.bus = h.bus /\ ad[g.bus] = <<>>
      <3>1. ad'[g.bus] = <<h.inc>> /\ g.inc # h.inc
        BY <1>1, <2>1, ReleaseLists, HandleFields
      <3>2. ~Listed(g)
        BY <2>1, OneEntry DEF Listed
      <3>3. \A k \in 1 .. Len(<<h.inc>>) : <<h.inc>>[k] = h.inc
        <4>1. h.inc \in 1 .. MaxOpens
          BY HandleFields
        <4>2. Len(<<h.inc>>) = 1 /\ <<h.inc>>[1] = h.inc
          BY <4>1, OneEntry
        <4> QED BY <4>2
      <3>4. ~Listed(g)'
        BY <3>1, <3>3 DEF Listed
      <3> QED BY <3>2, <3>4
    <2>2. CASE ~(g.bus = h.bus /\ ad[g.bus] = <<>>)
      <3>1. ad'[g.bus] = ad[g.bus]
        BY <1>1, <2>2, ReleaseLists, HandleFields
      <3> QED BY <3>1 DEF Listed
    <2> QED BY <2>1, <2>2
  <1>3. HeldBy(c, h)
    BY <1>1 DEF HeldBy
  <1>4. UNCHANGED <<opens, sync>>
    BY DEF ReleaseMove
  <1> QED BY <1>1, <1>2, <1>3, <1>4, ReleaseLists, LetGoRefines

(* A task that dies drops the device it holds.                             *)
LEMMA PanicRefines ==
  ASSUME TypeOK, OwnersKnown, OwnersKnown', NEW c \in Conns, Panic(c)
  PROVE  \E h \in Handle : Ownership!GiveBack(c, h)
  <1>1. PICK h \in Handle : h = conn[c].held
    BY TypeConn DEF Panic
  <1>2. conn'[c].held = NoHandle /\ \A d \in Conns : d # c => conn'[d] = conn[d]
    BY DEF Panic, TypeOK, Closed, Idle
  <1>3. \A g \in Handle : Listed(g)' <=> Listed(g)
    BY DEF Panic, Listed
  <1>4. HeldBy(c, h)
    BY <1>1 DEF HeldBy
  <1>5. UNCHANGED <<opens, sync>>
    BY DEF Panic
  <1> QED BY <1>2, <1>3, <1>4, <1>5, LetGoRefines

(* A step that moves no device is a stutter of the abstract specification. *)
LEMMA StillRefines ==
  ASSUME OwnersKnown, OwnersKnown', UNCHANGED <<ad, opens>>, sync'.opened = sync.opened,
         \A d \in Conns : conn'[d].held = conn[d].held
  PROVE  UNCHANGED Owned
  <1>1. \A h \in Handle : OwnerOf(h)' = OwnerOf(h)
    BY OwnerStays DEF Listed, HeldBy, Opening
  <1> QED BY <1>1 DEF Owned

(* A step that only takes devices off the lists, or drops what was just    *)
(* opened, withdraws them.                                                 *)
LEMMA ShorterRefines ==
  ASSUME OwnersKnown, OwnersKnown', UNCHANGED <<conn, opens>>,
         \A h \in Handle : Listed(h)' => Listed(h),
         \A h \in Handle : Opening(h)' => Opening(h)
  PROVE  (\E S \in SUBSET Handle : Ownership!Withdraw(S)) \/ UNCHANGED Owned
  <1> DEFINE Out(h) == \/ Listed(h) /\ ~Listed(h)'
                       \/ Opening(h) /\ ~Opening(h)'
  <1>1. PICK S \in SUBSET Handle : \A h \in Handle : h \in S <=> Out(h)
    <2>1. {h \in Handle : Out(h)} \in SUBSET Handle
      OBVIOUS
    <2> QED BY <2>1
  <1>2. \A h \in S : OwnerOf(h) \in {"opening", "offered"}
    BY <1>1 DEF OwnersKnown
  <1>3. \A h \in Handle : OwnerOf(h)' = IF h \in S THEN "dropped" ELSE OwnerOf(h)
    <2> SUFFICES ASSUME NEW h \in Handle
                 PROVE  OwnerOf(h)' = IF h \in S THEN "dropped" ELSE OwnerOf(h)
      OBVIOUS
    <2>1. CASE h \in S
      <3>1. OwnerOf(h) # "unopened" /\ \A c \in Conns : OwnerOf(h) # c
        BY <1>2, <2>1, InventoryAssumption
      <3>2. ~(h.inc > opens[h.bus])' /\ \A c \in Conns : ~HeldBy(c, h)'
        BY <3>1 DEF OwnersKnown, HeldBy
      <3>3. ~(Listed(h) /\ Opening(h))
        BY DEF OwnersKnown
      <3>4. ~Listed(h)' /\ ~Opening(h)'
        BY <1>1, <2>1, <3>3
      <3>5. /\ OwnerOf(h)' # "unopened" /\ OwnerOf(h)' # "offered" /\ OwnerOf(h)' # "opening"
            /\ OwnerOf(h)' \notin Conns
        BY <3>2, <3>4 DEF OwnersKnown
      <3> QED BY <2>1, <3>5 DEF OwnersKnown
    <2>2. CASE h \notin S
      <3>1. \A c \in Conns : HeldBy(c, h)' <=> HeldBy(c, h)
        BY DEF HeldBy
      <3> QED BY <1>1, <2>2, <3>1, OwnerStays
    <2> QED BY <2>1, <2>2
  <1>4. CASE S = {}
    BY <1>3, <1>4 DEF Owned
  <1>5. CASE S # {}
    BY <1>2, <1>3, <1>5, SameHandles DEF Ownership!Withdraw, Ownership!Move
  <1> QED BY <1>4, <1>5

(* Opening a port starts the life of the handle with the next number.      *)
LEMMA OpenRefines ==
  ASSUME TypeOK, TypeOK', OwnersKnown, OwnersKnown', OpenedInTurn, NEW b \in Buses,
         b \in sync.todo, Opened(b)
  PROVE  \E h \in Handle : Ownership!Open(h)
  <1>1. opens[b] \in Nat /\ opens[b] + 1 \in 1 .. MaxOpens
    BY InventoryAssumption DEF TypeOK, Opened
  <1>2. PICK h \in Handle : h = [bus |-> b, inc |-> opens[b] + 1]
    BY <1>1, HandleFields
  <1>3. /\ \A a \in Buses : sync'.opened[a] = IF a = b THEN opens[b] + 1 ELSE sync.opened[a]
        /\ \A a \in Buses : opens'[a] = IF a = b THEN opens[b] + 1 ELSE opens[a]
        /\ sync.opened[b] = 0
    BY DEF Opened, TypeOK, SyncState, OpenedInTurn
  <1>4. OwnerOf(h) = "unopened" /\ OwnerOf(h)' = "opening"
    BY <1>1, <1>2, <1>3 DEF OwnersKnown, Opening
  <1>5. \A g \in Handle : g.bus = h.bus => (g.inc < h.inc <=> OwnerOf(g) # "unopened")
    <2> SUFFICES ASSUME NEW g \in Handle, g.bus = b
                 PROVE  g.inc < opens[b] + 1 <=> ~(g.inc > opens[b])
      BY <1>2 DEF OwnersKnown
    <2>1. g.inc \in Nat
      BY HandleFields
    <2> QED BY <1>1, <2>1
  <1>6. ASSUME NEW g \in Handle, g # h PROVE OwnerOf(g)' = OwnerOf(g)
    <2>1. Listed(g)' <=> Listed(g)
      BY DEF Opened, Listed
    <2>2. \A c \in Conns : HeldBy(c, g)' <=> HeldBy(c, g)
      BY DEF Opened, HeldBy
    <2>3. g.bus \in Buses /\ g.inc \in Nat /\ g.inc # 0 /\ (g.bus = b => g.inc # opens[b] + 1)
      BY <1>2, <1>6, HandleFields
    <2>4. Opening(g)' <=> Opening(g)
      BY <1>3, <2>3 DEF Opening
    <2>5. (g.inc > opens[g.bus])' <=> g.inc > opens[g.bus]
      BY <1>1, <1>3, <2>3
    <2> QED BY <2>1, <2>2, <2>4, <2>5, OwnerStays
  <1> QED BY <1>4, <1>5, <1>6, SameHandles DEF Ownership!Open

(* What the task has opened is offered in one step, and was nobody's       *)
(* before.                                                                 *)
LEMMA AppendRefines ==
  ASSUME TypeOK, OwnersKnown, OwnersKnown', SyncAppend
  PROVE  (\E S \in SUBSET Handle : Ownership!Offer(S)) \/ UNCHANGED Owned
  <1>1. PICK S \in SUBSET Handle : \A h \in Handle : h \in S <=> Opening(h)
    <2>1. {h \in Handle : Opening(h)} \in SUBSET Handle
      OBVIOUS
    <2> QED BY <2>1
  <1>2. \A h \in S : OwnerOf(h) = "opening"
    BY <1>1 DEF OwnersKnown
  <1>3. \A h \in Handle : OwnerOf(h)' = IF h \in S THEN "offered" ELSE OwnerOf(h)
    <2> SUFFICES ASSUME NEW h \in Handle
                 PROVE  OwnerOf(h)' = IF h \in S THEN "offered" ELSE OwnerOf(h)
      OBVIOUS
    <2>1. CASE h \in S
      BY <1>1, <2>1, AppendLists DEF OwnersKnown
    <2>2. CASE h \notin S
      <3>1. Listed(h)' <=> Listed(h)
        BY <1>1, <2>2, AppendLists
      <3>2. \A c \in Conns : HeldBy(c, h)' <=> HeldBy(c, h)
        BY AppendLists DEF HeldBy
      <3>3. ~Opening(h) /\ ~Opening(h)'
        BY <1>1, <2>2, AppendLists, HandleFields DEF Opening
      <3>4. (h.inc > opens[h.bus])' <=> h.inc > opens[h.bus]
        BY AppendLists
      <3> QED BY <2>2, <3>1, <3>2, <3>3, <3>4, OwnerStays
    <2> QED BY <2>1, <2>2
  <1>4. CASE S = {}
    BY <1>3, <1>4 DEF Owned
  <1>5. CASE S # {}
    BY <1>2, <1>3, <1>5, SameHandles DEF Ownership!Offer, Ownership!Move
  <1> QED BY <1>4, <1>5

(* Every step of the inventory is a step of DeviceOwnership or changes     *)
(* nobody's ownership.                                                     *)
LEMMA NextRefines ==
  TypeOK /\ HandleExclusive /\ Numbered /\ TypeOK' /\ HandleExclusive' /\ Numbered'
      /\ OpenedInTurn /\ [Next]_vars
    => Ownership!Next \/ UNCHANGED Owned
  <1> SUFFICES ASSUME TypeOK, HandleExclusive, Numbered, TypeOK', HandleExclusive', Numbered',
                      OpenedInTurn, [Next]_vars
               PROVE  Ownership!Next \/ UNCHANGED Owned
    OBVIOUS
  <1>0. OwnersKnown /\ OwnersKnown'
    BY OwnerFacts, OwnerFactsNext
  <1>1. CASE UNCHANGED vars
    BY <1>0, <1>1, StillRefines
  <1>2. CASE HostStep
    <2>1. UNCHANGED <<ad, opens, conn, sync>>
      BY <1>2 DEF HostStep, Plug, Unplug
    <2> QED BY <1>0, <2>1, StillRefines
  <1>3. ASSUME NEW c \in Conns, ConnStep(c) \/ PeerStep(c)
        PROVE  Ownership!Next \/ UNCHANGED Owned
    <2>1. CASE OccupyTake(c) /\ ad[conn[c].want] # <<>>
      BY <1>0, <2>1, TakeRefines, SameHandles DEF Ownership!Next
    <2>2. CASE ReleaseMove(c)
      BY <1>0, <2>2, ReleaseRefines, SameHandles DEF Ownership!Next
    <2>3. CASE Panic(c)
      BY <1>0, <2>3, PanicRefines, SameHandles DEF Ownership!Next
    <2>4. CASE conn'[c].held = conn[c].held /\ UNCHANGED ad
      <3>1. UNCHANGED <<opens, sync>> /\ \A d \in Conns : conn'[d].held = conn[d].held
        BY <1>3, <2>4, Hands
      <3> QED BY <1>0, <2>4, <3>1, StillRefines
    <2> QED BY <1>3, <2>1, <2>2, <2>3, <2>4, Hands
  <1>4. CASE SyncStep
    <2>1. CASE SyncPrune
      <3>1. \A h \in Handle : Opening(h)' => Opening(h)
        BY <2>1, PruneLists DEF Opening
      <3> QED BY <1>0, <2>1, <3>1, PruneLists, ShorterRefines, SameHandles DEF Ownership!Next
    <2>2. CASE SyncAppend
      BY <1>0, <2>2, AppendRefines, SameHandles DEF Ownership!Next
    <2>3. CASE SyncList \/ SyncLock
      <3>1. UNCHANGED <<ad, opens, conn>> /\ sync'.opened = sync.opened
        BY <2>3 DEF SyncList, SyncLock, TypeOK, SyncState
      <3> QED BY <1>0, <3>1, StillRefines
    <2>4. ASSUME NEW b \in Buses, SyncOpen(b) PROVE Ownership!Next \/ UNCHANGED Owned
      <3>1. CASE sync' = [sync EXCEPT !.todo = @ \ {b}] /\ UNCHANGED opens
        <4>1. UNCHANGED <<ad, opens, conn>> /\ sync'.opened = sync.opened
          BY <2>4, <3>1 DEF SyncOpen, TypeOK, SyncState
        <4> QED BY <1>0, <4>1, StillRefines
      <3>2. CASE Opened(b)
        <4>1. b \in sync.todo
          BY <2>4 DEF SyncOpen
        <4> QED BY <1>0, <3>2, <4>1, OpenRefines, SameHandles DEF Ownership!Next
      <3> QED BY <2>4, <3>1, <3>2 DEF SyncOpen, Opened
    <2>5. CASE SyncRetain
      <3>1. UNCHANGED <<ad, opens, conn>> /\ \A b \in Buses : sync'.opened[b] = 0
        BY <2>5 DEF SyncRetain, SyncIdle
      <3>2. \A h \in Handle : (Listed(h)' => Listed(h)) /\ (Opening(h)' => Opening(h))
        BY <3>1, HandleFields DEF Listed, Opening
      <3> QED BY <1>0, <3>1, <3>2, ShorterRefines, SameHandles DEF Ownership!Next
    <2> QED BY <1>4, <2>1, <2>2, <2>3, <2>4, <2>5 DEF SyncStep
  <1>5. CASE CtlStep
    <2>1. CASE CleanupDrain
      <3>1. UNCHANGED <<opens, conn, sync>> /\ \A b \in Buses : ad'[b] = <<>>
        BY <2>1 DEF CleanupDrain
      <3>2. \A h \in Handle : ~Listed(h)' /\ (Opening(h)' => Opening(h))
        BY <3>1, HandleFields, OneEntry DEF Listed, Opening
      <3> QED BY <1>0, <3>1, <3>2, ShorterRefines, SameHandles DEF Ownership!Next
    <2>2. CASE CleanupLock \/ CleanupTimeout \/ Exit
      <3>1. UNCHANGED <<ad, opens, conn, sync>>
        BY <2>2 DEF CleanupLock, CleanupTimeout, Exit
      <3> QED BY <1>0, <3>1, StillRefines
    <2>3. CASE Stop \/ MoveToBackground
      <3>1. UNCHANGED <<ad, opens, conn>> /\ \A b \in Buses : sync'.opened[b] = 0
        BY <2>3 DEF Stop, MoveToBackground, StopServing, SyncIdle
      <3>2. \A h \in Handle : (Listed(h)' => Listed(h)) /\ (Opening(h)' => Opening(h))
        BY <3>1, HandleFields DEF Listed, Opening
      <3> QED BY <1>0, <3>1, <3>2, ShorterRefines, SameHandles DEF Ownership!Next
    <2> QED BY <1>5, <2>1, <2>2, <2>3 DEF CtlStep
  <1> QED BY <1>1, <1>2, <1>3, <1>4, <1>5 DEF Next

(* Import is a transfer of ownership                                       *)
(* (2026-07-14-import-device-lifecycle-design.md:13): for any number of    *)
(* clients, ports, plug events and openings, with and without the          *)
(* synchronisation task, repeated imports and panics, every step of the    *)
(* inventory is one step in the life of an opening, or of several that     *)
(* are offered or withdrawn together, as DeviceOwnership has them          *)
(* (mod.rs:909-1007).                                                      *)
THEOREM OwnershipRefined == Spec => ImportTransfersOwnership
  <1>1. UNCHANGED Owned <=> UNCHANGED [h \in Handle |-> OwnerOf(h)]
    BY DEF Owned
  <1>2. TypeOK /\ HandleExclusive /\ Numbered /\ TypeOK' /\ HandleExclusive' /\ Numbered'
            /\ OpenedInTurn /\ [Next]_vars
          => [Ownership!Next]_[h \in Handle |-> OwnerOf(h)]
    BY <1>1, NextRefines
  <1> QED BY <1>2, InitRefines, TypeCorrect, Exclusive, NumberedInvariant, TurnInvariant, PTL
          DEF Spec, ImportTransfersOwnership, Ownership!Spec

----------------------------------------------------------------------------
(* Which plugging a port has seen.  The inductive invariant PlugInv says   *)
(* that nothing is opened before a device was plugged in, and that a loop  *)
(* turn which listed a port as empty is right about it for as long as the  *)
(* first device plugged there stays.                                       *)

PluggedFirst ==
  \A b \in Buses : /\ b \in present => plugs[b] # 0
                   /\ plugs[b] = 0 => opens[b] = 0
                   /\ ud[b] <= opens[b]

SnapshotTrue ==
  \A b \in Buses : NeverReplugged(b) /\ sync.pc # "idle" /\ sync.cur[b] = 0
    => \A h \in Handle : h.bus = b => ~Known(h)

PlugInv == Numbered /\ PluggedFirst /\ SnapshotTrue

(* Ports are only ever plugged once more.                                  *)
LEMMA PlugSteps ==
  ASSUME TypeOK, [Next]_vars, NEW b \in Buses
  PROVE  /\ plugs[b] \in Nat /\ plugs'[b] \in Nat /\ plugs[b] <= plugs'[b]
         /\ \/ plugs'[b] = plugs[b] /\ (b \in present' => b \in present)
            \/ plugs'[b] = plugs[b] + 1 /\ b \in present' /\ UNCHANGED <<ad, ud, occ, conn, sync>>
  <1>1. plugs[b] \in Nat
    BY InventoryAssumption DEF TypeOK
  <1>2. ASSUME NEW a \in Buses, Plug(a) \/ Unplug(a)
        PROVE  \/ plugs'[b] = plugs[b] /\ (b \in present' => b \in present)
               \/ plugs'[b] = plugs[b] + 1 /\ b \in present'
                    /\ UNCHANGED <<ad, ud, occ, conn, sync>>
    BY <1>1, <1>2 DEF Plug, Unplug, TypeOK
  <1>3. CASE UNCHANGED <<present, plugs>>
    BY <1>1, <1>3
  <1>4. ASSUME NEW c \in Conns, ConnStep(c) \/ PeerStep(c) PROVE UNCHANGED <<present, plugs>>
    BY <1>4, Hands
  <1>5. SyncStep => UNCHANGED <<present, plugs>>
    BY DEF SyncStep, SyncList, SyncLock, SyncPrune, SyncOpen, SyncAppend, SyncRetain
  <1>6. CtlStep => UNCHANGED <<present, plugs>>
    BY DEF CtlStep, Stop, MoveToBackground, StopServing, CleanupLock, CleanupDrain,
           CleanupTimeout, Exit
  <1>7. HostStep \/ UNCHANGED <<present, plugs>>
    BY <1>4, <1>5, <1>6 DEF Next
  <1> QED BY <1>1, <1>2, <1>3, <1>7 DEF HostStep

(* What the synchronisation task remembers of the bus changes only when it *)
(* lists the bus, and is forgotten between two turns.                      *)
LEMMA TurnSteps ==
  ASSUME TypeOK, [Next]_vars
  PROVE  \/ SyncList
         \/ sync'.pc = "idle" /\ \A b \in Buses : sync'.cur[b] = 0
         \/ sync'.cur = sync.cur /\ (sync'.pc # "idle" => sync.pc # "idle")
  <1>1. CASE UNCHANGED sync
    BY <1>1
  <1>2. ASSUME NEW c \in Conns, ConnStep(c) \/ PeerStep(c) PROVE UNCHANGED sync
    BY <1>2, Hands
  <1>3. CASE SyncRetain \/ Stop \/ MoveToBackground
    BY <1>3 DEF SyncRetain, Stop, MoveToBackground, StopServing, SyncIdle
  <1>4. CASE SyncLock \/ SyncPrune \/ SyncAppend
    BY <1>4 DEF SyncLock, SyncPrune, SyncAppend, TypeOK, SyncState
  <1>5. ASSUME NEW b \in Buses, SyncOpen(b) PROVE sync'.cur = sync.cur /\ sync.pc # "idle"
    BY <1>5 DEF SyncOpen, TypeOK, SyncState
  <1>6. HostStep => UNCHANGED sync
    BY DEF HostStep, Plug, Unplug
  <1>7. CASE CleanupLock \/ CleanupDrain \/ CleanupTimeout \/ Exit
    BY <1>1, <1>7 DEF CleanupLock, CleanupDrain, CleanupTimeout, Exit
  <1> QED BY <1>1, <1>2, <1>3, <1>4, <1>5, <1>6, <1>7 DEF Next, SyncStep, CtlStep

(* An entry of used_devices comes from the connection that registers its   *)
(* device; every other step keeps the entries or takes them out.           *)
LEMMA UsedSteps ==
  ASSUME TypeOK, [Next]_vars, NEW b \in Buses
  PROVE  \/ ud'[b] = ud[b] \/ ud'[b] = 0
         \/ \E c \in Conns : OccupyRegister(c) /\ conn[c].held \in Handle
              /\ conn[c].held.bus = b /\ ud'[b] = conn[c].held.inc
  <1>1. ASSUME NEW c \in Conns, OccupyRegister(c)
        PROVE  conn[c].held \in Handle
                 /\ ud'[b] = IF conn[c].held.bus = b /\ ud[b] = 0
                             THEN conn[c].held.inc ELSE ud[b]
    <2>1. PICK h \in Handle : h = conn[c].held
      BY <1>1, TypeConn DEF OccupyRegister, At, PlaceOK
    <2> QED BY <1>1, <2>1, HandleFields DEF OccupyRegister, TypeOK
  <1>2. ASSUME NEW c \in Conns, ReleaseMove(c) PROVE ud'[b] = ud[b] \/ ud'[b] = 0
    BY <1>2, ReleaseLists
  <1>3. ASSUME NEW c \in Conns, ConnStep(c) \/ PeerStep(c), ~OccupyRegister(c), ~ReleaseMove(c)
        PROVE  UNCHANGED ud
    BY <1>3 DEF ConnStep, OccupyTake, ReplyWritten, ReplyFails, ClearPrevious,
           SetOccupancy, ClearOccupancy, ReleaseLock, PeerStep, Connect,
           ImportRequest, BadImportRequest, Disconnect, Panic
  <1>4. SyncStep \/ CtlStep \/ HostStep => ud'[b] = ud[b] \/ ud'[b] = 0
    BY DEF SyncStep, SyncList, SyncLock, SyncPrune, SyncOpen, SyncAppend, SyncRetain,
           CtlStep, Stop, MoveToBackground, StopServing, CleanupLock, CleanupDrain,
           CleanupTimeout, Exit, HostStep, Plug, Unplug
  <1>5. CASE UNCHANGED ud
    BY <1>5
  <1> QED BY <1>1, <1>2, <1>3, <1>4, <1>5 DEF Next

(* Nothing is known of the bus at first but what is on offer.              *)
LEMMA InitPlugInv == Init => PlugInv
  <1> SUFFICES ASSUME Init PROVE PlugInv OBVIOUS
  <1>1. sync.pc = "idle" /\ \A b \in Buses : ud[b] = 0
    BY DEF Init, SyncIdle
  <1>2. \A b \in Buses : plugs[b] = IF b \in present THEN 1 ELSE 0
    BY DEF Init
  <1>3. PICK listed \in SUBSET present : opens = [b \in Buses |-> IF b \in listed THEN 1 ELSE 0]
    BY DEF Init
  <1>4. PluggedFirst
    BY <1>1, <1>2, <1>3 DEF PluggedFirst
  <1> QED BY <1>1, <1>4, InitNumbered DEF PlugInv, SnapshotTrue

(* Only plugging, listing the bus and opening touch these facts.           *)
LEMMA NextPlugInv ==
  ASSUME TypeOK, TypeOK', PlugInv, [Next]_vars
  PROVE  PlugInv'
  <1>1. ASSUME NEW b \in Buses
        PROVE  /\ b \in present' => plugs'[b] # 0
               /\ plugs'[b] = 0 => opens'[b] = 0
               /\ ud'[b] <= opens'[b]
    <2>1. /\ plugs[b] \in Nat /\ plugs'[b] \in Nat /\ plugs[b] <= plugs'[b]
          /\ opens[b] \in Nat /\ opens'[b] \in Nat
          /\ opens'[b] = opens[b] \/ (Opened(b) /\ opens'[b] = opens[b] + 1)
      BY PlugSteps, OpensSteps
    <2>2. /\ b \in present => plugs[b] # 0
          /\ plugs[b] = 0 => opens[b] = 0
          /\ ud[b] <= opens[b] /\ ud[b] \in Nat
      BY InventoryAssumption DEF PlugInv, PluggedFirst, TypeOK
    <2>3. b \in present' => plugs'[b] # 0
      BY <2>1, <2>2, PlugSteps
    <2>4. plugs'[b] = 0 => opens'[b] = 0
      BY <2>1, <2>2 DEF Opened
    <2>5. ud'[b] <= opens'[b]
      <3>1. CASE ud'[b] = ud[b] \/ ud'[b] = 0
        BY <2>1, <2>2, <3>1
      <3>2. ASSUME NEW c \in Conns, conn[c].held \in Handle, conn[c].held.bus = b,
                   ud'[b] = conn[c].held.inc
            PROVE  ud'[b] <= opens'[b]
        <4>1. PICK h \in Handle : h = conn[c].held
          BY <3>2
        <4>2. h.inc <= opens[h.bus] /\ h.inc \in Nat
          BY <4>1, HandleFields DEF PlugInv, Numbered, Known, HeldBy
        <4> QED BY <2>1, <3>2, <4>1, <4>2
      <3> QED BY <3>1, <3>2, UsedSteps
    <2> QED BY <2>3, <2>4, <2>5
  <1>2. Numbered'
    BY NextNumbered DEF PlugInv
  <1>3. SnapshotTrue'
    <2> SUFFICES ASSUME NEW b \in Buses, NeverReplugged(b)', sync'.pc # "idle", sync'.cur[b] = 0,
                        NEW h \in Handle, h.bus = b, Known(h)'
                 PROVE  FALSE
      BY DEF SnapshotTrue
    <2>1. plugs'[b] = 1 /\ b \in present' /\ plugs[b] \in Nat /\ h.inc \in Nat /\ h.inc # 0
      BY PlugSteps, HandleFields DEF NeverReplugged
    <2>2. ASSUME SyncList PROVE FALSE
      <3>1. sync'.cur = [a \in Buses |-> IF a \in present THEN plugs[a] ELSE 0]
              /\ UNCHANGED <<present, plugs>>
        BY <2>2 DEF SyncList, TypeOK, SyncState
      <3> QED BY <2>1, <3>1
    <2>3. sync.cur[b] = 0 /\ sync.pc # "idle"
      BY <2>2, TurnSteps
    <2>4. Known(h)
      <3>1. ~Opened(b)
        BY <2>3 DEF Opened, PlugInv, PluggedFirst
      <3> QED BY <3>1, KnownSteps
    <2>5. CASE plugs'[b] = plugs[b] /\ b \in present
      BY <2>1, <2>3, <2>4, <2>5 DEF PlugInv, SnapshotTrue, NeverReplugged
    <2>6. CASE plugs'[b] = plugs[b] + 1
      BY <2>1, <2>4, <2>6 DEF PlugInv, Numbered, PluggedFirst
    <2> QED BY <2>1, <2>5, <2>6, PlugSteps
  <1> QED BY <1>1, <1>2, <1>3 DEF PlugInv, PluggedFirst

(* They hold in every reachable state.                                     *)
LEMMA PlugInvariant == Spec => []PlugInv
  <1>1. TypeOK /\ TypeOK' /\ PlugInv /\ [Next]_vars => PlugInv'
    BY NextPlugInv
  <1> QED BY <1>1, InitPlugInv, TypeCorrect, PTL DEF Spec

----------------------------------------------------------------------------
(* No device is lost.                                                      *)

(* No step drops the last trace of a device that stays plugged in: it is   *)
(* taken only to be handed on.                                             *)
LEMMA KeptSteps ==
  ASSUME TypeOK, PlugInv, OpenedInTurn, [Next]_vars, ~HandlerPanics, NEW b \in Buses,
         Kept(b), NeverReplugged(b), b \in present', ctl'.pc = "running"
  PROVE  Kept(b)'
  <1>1. CASE UNCHANGED vars \/ HostStep
    BY <1>1 DEF HostStep, Plug, Unplug, Kept
  <1>2. ASSUME NEW c \in Conns, ConnStep(c) \/ PeerStep(c) PROVE Kept(b)'
    <2>1. /\ UNCHANGED sync /\ \A d \in Conns : d # c => conn'[d] = conn[d]
          /\ \/ OccupyTake(c) /\ ad[conn[c].want] # <<>>
             \/ ReleaseMove(c)
             \/ conn'[c].held = conn[c].held /\ UNCHANGED ad
      BY <1>2, Hands DEF Panic
    <2>2. CASE OccupyTake(c) /\ ad[conn[c].want] # <<>>
      <3>1. PICK a \in Buses : a = conn[c].want
        BY <2>2, TypeConn DEF OccupyTake, At, PlaceOK
      <3>2. /\ conn[c].held = NoHandle /\ conn'[c].held.bus = a
            /\ \A e \in Buses : e # a => ad'[e] = ad[e]
        BY <2>2, <3>1, TakeLists
      <3>3. NoHandle.bus # b
        BY HandleFields, InventoryAssumption
      <3> QED BY <2>1, <3>2, <3>3 DEF Kept
    <2>3. CASE ReleaseMove(c)
      <3>1. PICK h \in Handle : h = conn[c].held
        BY <2>3, ReleaseLists
      <3>2. <<h.inc>> # <<>>
        BY HandleFields, OneEntry
      <3>3. ad[b] # <<>> \/ h.bus = b => ad'[b] # <<>>
        BY <2>3, <3>1, <3>2, ReleaseLists
      <3> QED BY <2>1, <3>1, <3>3 DEF Kept
    <2>4. CASE conn'[c].held = conn[c].held /\ UNCHANGED ad
      BY <2>1, <2>4 DEF Kept
    <2> QED BY <2>1, <2>2, <2>3, <2>4
  <1>3. CASE SyncList \/ SyncLock
    BY <1>3 DEF SyncList, SyncLock, TypeOK, SyncState, Kept
  <1>4. CASE SyncPrune
    <2>1. sync.cur[b] # 0
      BY <1>4, KeptKnown DEF SyncPrune, PlugInv, SnapshotTrue
    <2> QED BY <1>4, <2>1, PruneLists DEF Kept
  <1>5. ASSUME NEW a \in Buses, SyncOpen(a) PROVE Kept(b)'
    <2>1. UNCHANGED <<ad, conn>>
      BY <1>5 DEF SyncOpen
    <2>2. CASE sync' = [sync EXCEPT !.todo = @ \ {a}]
      BY <2>1, <2>2 DEF TypeOK, SyncState, Kept
    <2>3. CASE sync' = [sync EXCEPT !.todo = @ \ {a}, !.opened[a] = opens[a] + 1]
      <3>1. \A e \in Buses : sync'.opened[e] = IF e = a THEN opens[a] + 1 ELSE sync.opened[e]
        BY <2>3 DEF TypeOK, SyncState
      <3>2. opens[a] + 1 # 0
        BY InventoryAssumption DEF TypeOK
      <3> QED BY <2>1, <3>1, <3>2 DEF Kept
    <2> QED BY <1>5, <2>2, <2>3 DEF SyncOpen
  <1>6. CASE SyncAppend
    BY <1>6, AppendLists DEF Kept
  <1>7. CASE SyncRetain
    BY <1>7 DEF SyncRetain, Kept, OpenedInTurn
  <1>8. CtlStep => ctl'.pc # "running"
    BY DEF CtlStep, Stop, MoveToBackground, StopServing, CleanupLock, CleanupDrain,
           CleanupTimeout, Exit, TypeOK
  <1> QED BY <1>1, <1>2, <1>3, <1>4, <1>5, <1>6, <1>7, <1>8 DEF Next, SyncStep

(* A device that stays plugged in stays on offer, in a connection's hands  *)
(* or with the task that opened it, whatever imports fail, replies are     *)
(* lost or clients leave (mod.rs:909-1007, 1306, 1531-1534).  The          *)
(* hypothesis is needed: a handler that dies in an unimplemented!() arm    *)
(* takes its device along.                                                 *)
THEOREM NothingLost ==
  ASSUME ~HandlerPanics
  PROVE  Spec => NoDeviceLost
  <1>1. TypeOK /\ PlugInv /\ OpenedInTurn /\ [Next]_vars
          => [\A b \in Buses :
                Kept(b) /\ NeverReplugged(b) /\ b \in present' /\ ctl'.pc = "running"
                  => Kept(b)']_vars
    BY KeptSteps
  <1> QED BY <1>1, TypeCorrect, PlugInvariant, TurnInvariant, PTL DEF Spec, NoDeviceLost

----------------------------------------------------------------------------
(* The registry and the connections agree.  UsedIsHeld is the inductive    *)
(* part; that nothing used is on offer follows from HandleExclusive, as a  *)
(* port that was opened once has one handle (OnePerBus).                   *)

UsedIsHeld ==
  \A b \in Buses :
    /\ UsedByConnection(b)
    /\ NeverReplugged(b) /\ ctl.pc \notin {"cleaned", "exited"} =>
         /\ KnownToSync(b)
         /\ OpenedOnce(b) =>
              \A c \in Conns : conn[c].held.bus = b /\ conn[c].pc # "occUd" => ud[b] # 0

(* A port that was opened once: who holds its device, holds it alone, and  *)
(* nothing of it is on offer or being opened.                              *)
LEMMA OnePerBus ==
  ASSUME TypeOK, HandleExclusive, Numbered, NEW b \in Buses, OpenedOnce(b),
         NEW c \in Conns, conn[c].held.bus = b
  PROVE  /\ conn[c].held \in Handle /\ conn[c].held.inc = 1 /\ ad[b] = <<>>
         /\ sync.opened[b] = 0
         /\ \A d \in Conns : conn[d].held.bus = b => d = c
  <1>1. \A g, h \in Handle : g.bus = b /\ h.bus = b /\ Known(g) /\ Known(h) => g = h /\ g.inc = 1
    <2> SUFFICES ASSUME NEW g \in Handle, NEW h \in Handle,
                        g.bus = b, h.bus = b, Known(g), Known(h)
                 PROVE  g = h /\ g.inc = 1
      OBVIOUS
    <2>1. g.inc <= opens[b] /\ h.inc <= opens[b] /\ opens[b] \in Nat /\ opens[b] <= 1
      BY InventoryAssumption DEF Numbered, OpenedOnce, TypeOK
    <2>2. g.inc = 1 /\ h.inc = 1
      BY <2>1, HandleFields
    <2> QED BY <2>2, HandleFields
  <1>2. PICK h \in Handle : h = conn[c].held
    BY TypeConn, HandleFields, InventoryAssumption
  <1>3. Known(h) /\ HeldBy(c, h)
    BY <1>2 DEF Known, HeldBy
  <1>4. ad[b] = <<>>
    <2>1. \A g \in Handle : g.bus = b => ~Listed(g)
      BY <1>1, <1>2, <1>3 DEF HandleExclusive, HeldNotListed, Known
    <2> QED BY <2>1, SomeListed
  <1>5. sync.opened[b] = 0
    <2> SUFFICES ASSUME sync.opened[b] # 0 PROVE FALSE
      OBVIOUS
    <2>1. sync.opened[b] \in 1 .. MaxOpens
      BY InventoryAssumption DEF TypeOK, SyncState
    <2>2. PICK g \in Handle : g = [bus |-> b, inc |-> sync.opened[b]]
      BY <2>1, HandleFields
    <2>3. Opening(g) /\ g = h
      BY <1>1, <1>2, <1>3, <2>2 DEF Opening, Known
    <2> QED BY <1>3, <2>3 DEF HandleExclusive, NothingElseOpening
  <1>6. ASSUME NEW d \in Conns, conn[d].held.bus = b PROVE d = c
    <2>1. PICK g \in Handle : g = conn[d].held
      BY <1>6, TypeConn, HandleFields, InventoryAssumption
    <2>2. HeldBy(d, g) /\ g = h
      BY <1>1, <1>2, <1>3, <1>6, <2>1 DEF HeldBy, Known
    <2> QED BY <1>3, <2>2 DEF HandleExclusive, OneHolder
  <1> QED BY <1>1, <1>2, <1>3, <1>4, <1>5, <1>6

(* A bus that has seen one device only already had, or nothing was ever    *)
(* opened on it.                                                           *)
LEMMA OnceSteps ==
  ASSUME TypeOK, PlugInv, [Next]_vars, NEW b \in Buses, NeverReplugged(b)'
  PROVE  \/ NeverReplugged(b)
         \/ /\ UNCHANGED <<ad, ud, occ, conn, sync>> /\ ud[b] = 0
            /\ \A c \in Conns : conn[c].held.bus # b
  <1>1. plugs'[b] = 1 /\ b \in present' /\ plugs[b] \in Nat
    BY PlugSteps DEF NeverReplugged
  <1>2. CASE plugs'[b] = plugs[b] /\ (b \in present' => b \in present)
    BY <1>1, <1>2 DEF NeverReplugged
  <1>3. CASE plugs'[b] = plugs[b] + 1 /\ UNCHANGED <<ad, ud, occ, conn, sync>>
    <2>1. plugs[b] = 0
      BY <1>1, <1>3
    <2>2. ud[b] = 0
      BY <2>1, InventoryAssumption DEF PlugInv, PluggedFirst, TypeOK
    <2>3. ASSUME NEW c \in Conns, conn[c].held.bus = b PROVE FALSE
      <3>1. PICK h \in Handle : h = conn[c].held
        BY <2>3, TypeConn, HandleFields, InventoryAssumption
      <3>2. h.inc <= 0
        BY <2>1, <2>3, <3>1 DEF PlugInv, Numbered, PluggedFirst, Known, HeldBy
      <3> QED BY <3>2, HandleFields
    <2> QED BY <1>3, <2>2, <2>3
  <1> QED BY <1>2, <1>3, PlugSteps

(* Only the connection that registers its device stops registering it.     *)
LEMMA RegisterSteps ==
  ASSUME TypeOK, NEW c \in Conns, ConnStep(c) \/ PeerStep(c)
  PROVE  /\ UNCHANGED ud \/ OccupyRegister(c) \/ ReleaseMove(c)
         /\ conn[c].pc = "occUd" => OccupyRegister(c)
         /\ conn'[c].pc = "occUd" => OccupyTake(c) /\ ad[conn[c].want] # <<>>
         /\ OccupyTake(c) /\ ad[conn[c].want] # <<>> => conn'[c].pc = "occUd" /\ conn[c].held = NoHandle
  <1>1. UNCHANGED ud \/ OccupyRegister(c) \/ ReleaseMove(c)
    BY DEF ConnStep, OccupyTake, ReplyWritten, ReplyFails, ClearPrevious,
           SetOccupancy, ClearOccupancy, ReleaseLock, PeerStep, Connect,
           ImportRequest, BadImportRequest, Disconnect, Panic
  <1>2. conn[c].pc = "occUd" => OccupyRegister(c)
    BY DEF ConnStep, OccupyTake, ReplyWritten, ReplyFails, ClearPrevious,
           SetOccupancy, ClearOccupancy, ReleaseLock, ReleaseMove, PeerStep, Connect,
           ImportRequest, BadImportRequest, Disconnect, Panic, At
  <1>3. OccupyTake(c) /\ ad[conn[c].want] # <<>>
          => conn'[c].pc = "occUd" /\ conn[c].held = NoHandle
    BY TypeConn DEF OccupyTake, At, PlaceOK, TypeOK, ConnState
  <1>4. \A after \in {"serving", "closed"} : Surrender(c, after).pc # "occUd"
    BY TypeConn DEF Surrender, Idle, ConnState
  <1>5. \A n \in ConnState : AfterReply(n).pc # "occUd"
    BY DEF AfterReply, Idle, ConnState
  <1>6. [conn[c] EXCEPT !.prev = None] \in ConnState
    BY TypeConn DEF ConnState
  <1>7. ReplyWritten(c) \/ ClearPrevious(c) => conn'[c].pc # "occUd"
    BY <1>5, <1>6, TypeConn DEF ReplyWritten, ClearPrevious, TypeOK
  <1>8. ReplyFails(c) \/ BadImportRequest(c) \/ Disconnect(c) => conn'[c].pc # "occUd"
    BY <1>4 DEF ReplyFails, BadImportRequest, Disconnect, TypeOK
  <1>9. OccupyRegister(c) \/ SetOccupancy(c) \/ ClearOccupancy(c) \/ ReleaseLock(c)
          \/ (OccupyTake(c) /\ ad[conn[c].want] = <<>>) => conn'[c].pc # "occUd"
    BY TypeConn DEF OccupyRegister, SetOccupancy, ClearOccupancy, ReleaseLock, OccupyTake,
                    TypeOK, ConnState
  <1>10. ReleaseMove(c) \/ Connect(c) \/ Panic(c) => conn'[c].pc # "occUd"
    <2>1. Connect(c) \/ Panic(c) => conn'[c].pc # "occUd"
      BY DEF Connect, Panic, Idle, Closed, TypeOK
    <2>2. ASSUME ReleaseMove(c) PROVE conn'[c].pc # "occUd"
      <3>1. conn[c].after \in {"occAd", "serving", "closed"}
        BY <2>2, TypeConn DEF ReleaseMove, At, PlaceOK, ConnState
      <3>2. conn'[c].pc = conn[c].after
        BY <2>2, TypeConn DEF ReleaseMove, TypeOK, ConnState, Idle
      <3> QED BY <3>1, <3>2
    <2> QED BY <2>1, <2>2
  <1>11. \A b \in Buses : ImportRequest(c, b) => conn'[c].pc # "occUd"
    BY TypeConn DEF ImportRequest, TypeOK, ConnState
  <1>12. conn'[c].pc = "occUd" => OccupyTake(c) /\ ad[conn[c].want] # <<>>
    BY <1>7, <1>8, <1>9, <1>10, <1>11 DEF ConnStep, PeerStep
  <1> QED BY <1>1, <1>2, <1>3, <1>12

(* What a step of a connection does to one port: it takes a device from    *)
(* the list, gives one back, registers one, or leaves the lists alone.     *)
LEMMA ConnCases ==
  ASSUME TypeOK, NEW c \in Conns, ConnStep(c) \/ PeerStep(c), ~HandlerPanics, NEW b \in Buses
  PROVE  /\ \A d \in Conns : d # c => conn'[d] = conn[d]
         /\ \/ /\ conn[c].held.bus # b /\ conn'[c].pc = "occUd" /\ ud'[b] = ud[b]
               /\ conn'[c].held.bus = b \/ ad'[b] = ad[b]
            \/ /\ conn'[c].held.bus # b
               /\ conn[c].held.bus = b => ud'[b] = 0 /\ ad'[b] # <<>>
               /\ conn[c].held.bus # b => ud'[b] = ud[b] /\ ad'[b] = ad[b]
            \/ /\ conn'[c].held = conn[c].held /\ conn'[c].pc # "occUd" /\ ad'[b] = ad[b]
               /\ conn[c].held.bus = b => ud'[b] # 0
               /\ conn[c].held.bus # b => ud'[b] = ud[b]
            \/ /\ conn'[c].held = conn[c].held /\ conn[c].pc # "occUd" /\ conn'[c].pc # "occUd"
               /\ ud'[b] = ud[b] /\ ad'[b] = ad[b]
  <1>0. NoHandle.bus # b
    BY HandleFields, InventoryAssumption
  <1>1. /\ \A d \in Conns : d # c => conn'[d] = conn[d]
        /\ \/ OccupyTake(c) /\ ad[conn[c].want] # <<>>
           \/ ReleaseMove(c)
           \/ conn'[c].held = conn[c].held /\ UNCHANGED ad
    BY Hands DEF Panic
  <1>2. CASE OccupyTake(c) /\ ad[conn[c].want] # <<>>
    <2>1. conn'[c].pc = "occUd" /\ conn[c].held = NoHandle /\ UNCHANGED ud
      BY <1>2, RegisterSteps DEF OccupyTake
    <2>2. PICK a \in Buses : a = conn[c].want
      BY <1>2, TypeConn DEF OccupyTake, At, PlaceOK
    <2>3. conn'[c].held.bus = a /\ \A e \in Buses : e # a => ad'[e] = ad[e]
      BY <1>2, <2>2, TakeLists
    <2> QED BY <1>0, <1>1, <2>1, <2>3
  <1>3. CASE ReleaseMove(c)
    <2>1. PICK h \in Handle : h = conn[c].held
      BY <1>3, ReleaseLists
    <2>2. <<h.inc>> # <<>>
      BY HandleFields, OneEntry
    <2>3. /\ conn'[c].held.bus # b
          /\ h.bus = b => ud'[b] = 0 /\ ad'[b] # <<>>
          /\ h.bus # b => ud'[b] = ud[b] /\ ad'[b] = ad[b]
      BY <1>0, <1>3, <2>1, <2>2, ReleaseLists
    <2> QED BY <1>1, <2>1, <2>3
  <1>4. CASE OccupyRegister(c)
    <2>1. PICK h \in Handle : h = conn[c].held
      BY <1>4, TypeConn DEF OccupyRegister, At, PlaceOK
    <2>2. ud'[b] = (IF h.bus = b /\ ud[b] = 0 THEN h.inc ELSE ud[b]) /\ h.inc # 0
      BY <1>4, <2>1, HandleFields DEF OccupyRegister, TypeOK
    <2>3. conn'[c].held = h /\ conn'[c].pc = "reply" /\ UNCHANGED ad
      BY <1>4, <2>1, TypeConn DEF OccupyRegister, TypeOK, ConnState
    <2>4. /\ h.bus = b => ud'[b] # 0
          /\ h.bus # b => ud'[b] = ud[b]
      BY <2>2
    <2> QED BY <1>1, <2>1, <2>3, <2>4
  <1>5. CASE /\ conn'[c].held = conn[c].held /\ UNCHANGED ad
             /\ ~OccupyRegister(c) /\ ~ReleaseMove(c)
             /\ ~(OccupyTake(c) /\ ad[conn[c].want] # <<>>)
    <2>1. UNCHANGED ud /\ conn[c].pc # "occUd" /\ conn'[c].pc # "occUd"
      BY <1>5, RegisterSteps
    <2> QED BY <1>1, <1>5, <2>1
  <1> QED BY <1>1, <1>2, <1>3, <1>4, <1>5

(* Steps of a connection keep the three facts of each port.                *)
LEMMA ConnUsed ==
  ASSUME TypeOK, HandleExclusive, Numbered, NEW c \in Conns, ConnStep(c) \/ PeerStep(c),
         ~HandlerPanics, NEW b \in Buses
  PROVE  /\ UsedByConnection(b) => UsedByConnection(b)'
         /\ KnownToSync(b) => KnownToSync(b)'
         /\ OpenedOnce(b)
              /\ (\A d \in Conns : conn[d].held.bus = b /\ conn[d].pc # "occUd" => ud[b] # 0)
            => \A d \in Conns : conn'[d].held.bus = b /\ conn'[d].pc # "occUd" => ud'[b] # 0
  <1>0. \A d \in Conns : d # c => conn'[d] = conn[d]
    BY ConnCases
  <1>1. CASE /\ conn[c].held.bus # b /\ conn'[c].pc = "occUd" /\ ud'[b] = ud[b]
             /\ conn'[c].held.bus = b \/ ad'[b] = ad[b]
    BY <1>0, <1>1 DEF UsedByConnection, KnownToSync
  <1>2. CASE /\ conn'[c].held.bus # b
             /\ conn[c].held.bus = b => ud'[b] = 0 /\ ad'[b] # <<>>
             /\ conn[c].held.bus # b => ud'[b] = ud[b] /\ ad'[b] = ad[b]
    <2>1. CASE conn[c].held.bus = b
      <3>1. OpenedOnce(b) => \A d \in Conns : d # c => conn[d].held.bus # b
        BY <2>1, OnePerBus
      <3> QED BY <1>0, <1>2, <2>1, <3>1 DEF UsedByConnection, KnownToSync
    <2>2. CASE conn[c].held.bus # b
      BY <1>0, <1>2, <2>2 DEF UsedByConnection, KnownToSync
    <2> QED BY <2>1, <2>2
  <1>3. CASE /\ conn'[c].held = conn[c].held /\ conn'[c].pc # "occUd" /\ ad'[b] = ad[b]
             /\ conn[c].held.bus = b => ud'[b] # 0
             /\ conn[c].held.bus # b => ud'[b] = ud[b]
    BY <1>0, <1>3 DEF UsedByConnection, KnownToSync
  <1>4. CASE /\ conn'[c].held = conn[c].held /\ conn[c].pc # "occUd" /\ conn'[c].pc # "occUd"
             /\ ud'[b] = ud[b] /\ ad'[b] = ad[b]
    BY <1>0, <1>4 DEF UsedByConnection, KnownToSync
  <1> QED BY <1>1, <1>2, <1>3, <1>4, ConnCases

(* used_devices changes with OccupyRegister and ReleaseMove, and with a    *)
(* listing that does not name the bus.                                     *)
LEMMA NextUsedIsHeld ==
  ASSUME TypeOK, HandleExclusive, PlugInv, UsedIsHeld, [Next]_vars, ~HandlerPanics
  PROVE  UsedIsHeld'
  <1> DEFINE Registered(b) ==
        \A c \in Conns : conn[c].held.bus = b /\ conn[c].pc # "occUd" => ud[b] # 0
  <1> SUFFICES ASSUME NEW b \in Buses
               PROVE  /\ UsedByConnection(b)'
                      /\ NeverReplugged(b)' /\ ctl'.pc \notin {"cleaned", "exited"} =>
                           KnownToSync(b)' /\ (OpenedOnce(b)' => Registered(b)')
    BY DEF UsedIsHeld
  <1>u. UsedByConnection(b)
    BY DEF UsedIsHeld
  <1>o. OpenedOnce(b)' => OpenedOnce(b)
    BY OpensSteps DEF OpenedOnce
  <1>1. CASE UNCHANGED vars \/ HostStep
    <2>1. UNCHANGED <<opens, ad, ud, conn, ctl>>
      BY <1>1 DEF HostStep, Plug, Unplug
    <2>2. UsedByConnection(b)'
      BY <1>u, <2>1 DEF UsedByConnection
    <2>3. ASSUME NeverReplugged(b)', ctl'.pc \notin {"cleaned", "exited"}
          PROVE  KnownToSync(b)' /\ (OpenedOnce(b)' => Registered(b)')
      <3>1. CASE NeverReplugged(b)
        <4>1. KnownToSync(b) /\ (OpenedOnce(b) => Registered(b))
          BY <2>1, <2>3, <3>1 DEF UsedIsHeld
        <4> QED BY <1>o, <2>1, <4>1 DEF KnownToSync
      <3>2. CASE \A c \in Conns : conn[c].held.bus # b
        BY <2>1, <3>2 DEF KnownToSync
      <3> QED BY <2>3, <3>1, <3>2, OnceSteps
    <2> QED BY <2>2, <2>3
  <1>2. ASSUME NEW c \in Conns, ConnStep(c) \/ PeerStep(c)
        PROVE  /\ UsedByConnection(b)'
               /\ NeverReplugged(b)' /\ ctl'.pc \notin {"cleaned", "exited"} =>
                    KnownToSync(b)' /\ (OpenedOnce(b)' => Registered(b)')
    <2>1. UNCHANGED <<present, plugs, ctl>>
      BY <1>2, Hands
    <2>2. /\ UsedByConnection(b)'
          /\ KnownToSync(b) => KnownToSync(b)'
          /\ OpenedOnce(b) /\ Registered(b) => Registered(b)'
      BY <1>u, <1>2, ConnUsed DEF PlugInv
    <2>3. NeverReplugged(b)' /\ ctl'.pc \notin {"cleaned", "exited"} =>
            KnownToSync(b) /\ (OpenedOnce(b) => Registered(b))
      BY <2>1 DEF UsedIsHeld, NeverReplugged
    <2> HIDE DEF Registered
    <2> QED BY <1>o, <2>2, <2>3
  <1>3. CASE SyncPrune
    <2>1. /\ ud'[b] = IF sync.cur[b] = 0 THEN 0 ELSE ud[b]
          /\ UNCHANGED <<present, plugs, conn, ctl>>
          /\ sync.cur[b] # 0 /\ ad[b] # <<>> => ad'[b] # <<>>
      BY <1>3, PruneLists DEF SyncPrune
    <2>2. UsedByConnection(b)'
      BY <1>u, <2>1 DEF UsedByConnection
    <2>3. ASSUME NeverReplugged(b)', ctl'.pc \notin {"cleaned", "exited"}
          PROVE  KnownToSync(b)' /\ (OpenedOnce(b)' => Registered(b)')
      <3>1. NeverReplugged(b) /\ KnownToSync(b) /\ (OpenedOnce(b) => Registered(b))
        BY <2>1, <2>3 DEF UsedIsHeld, NeverReplugged
      <3>2. CASE sync.cur[b] = 0
        <4>1. \A h \in Handle : h.bus = b => ~Known(h)
          BY <1>3, <3>1, <3>2 DEF SyncPrune, PlugInv, SnapshotTrue
        <4>2. \A c \in Conns : conn[c].held.bus # b
          BY <4>1, TypeConn, InventoryAssumption DEF Known, HeldBy, NoHandle
        <4> QED BY <2>1, <4>2 DEF KnownToSync
      <3>3. CASE sync.cur[b] # 0
        BY <1>o, <2>1, <3>1, <3>3 DEF KnownToSync
      <3> QED BY <3>2, <3>3
    <2> QED BY <2>2, <2>3
  <1>4. CASE CleanupDrain
    <2>1. ud'[b] = 0 /\ ctl'.pc = "cleaned"
      BY <1>4 DEF CleanupDrain, TypeOK
    <2> QED BY <2>1 DEF UsedByConnection
  <1>5. CASE SyncAppend
    <2>1. UNCHANGED <<present, plugs, conn, ctl, ud>> /\ (ad[b] # <<>> => ad'[b] # <<>>)
      BY <1>5, AppendLists
    <2>2. NeverReplugged(b)' /\ ctl'.pc \notin {"cleaned", "exited"} =>
            KnownToSync(b) /\ (OpenedOnce(b) => Registered(b))
      BY <2>1 DEF UsedIsHeld, NeverReplugged
    <2> QED BY <1>o, <1>u, <2>1, <2>2 DEF UsedByConnection, KnownToSync
  <1>6. CASE SyncList \/ SyncLock \/ (\E a \in Buses : SyncOpen(a)) \/ SyncRetain
               \/ Stop \/ MoveToBackground \/ CleanupLock \/ CleanupTimeout \/ Exit
    <2>1. UNCHANGED <<present, plugs, ad, ud, conn>>
      BY <1>6 DEF SyncList, SyncLock, SyncOpen, SyncRetain, Stop, MoveToBackground,
                  StopServing, CleanupLock, CleanupTimeout, Exit
    <2>2. ctl'.pc \notin {"cleaned", "exited"} => ctl.pc \notin {"cleaned", "exited"}
      BY <1>6 DEF SyncList, SyncLock, SyncOpen, SyncRetain, Stop, MoveToBackground,
                  StopServing, CleanupLock, CleanupTimeout, Exit, TypeOK
    <2>3. NeverReplugged(b)' /\ ctl'.pc \notin {"cleaned", "exited"} =>
            KnownToSync(b) /\ (OpenedOnce(b) => Registered(b))
      BY <2>1, <2>2 DEF UsedIsHeld, NeverReplugged
    <2> QED BY <1>o, <1>u, <2>1, <2>3 DEF UsedByConnection, KnownToSync
  <1> HIDE DEF Registered
  <1> QED BY <1>1, <1>2, <1>3, <1>4, <1>5, <1>6 DEF Next, SyncStep, CtlStep

(* The property follows.                                                   *)
LEMMA UsedFollows ==
  TypeOK /\ HandleExclusive /\ Numbered /\ UsedIsHeld => UsedTracksImports
  <1> SUFFICES ASSUME TypeOK, HandleExclusive, Numbered, UsedIsHeld, NEW b \in Buses
               PROVE  /\ UsedByConnection(b)
                      /\ NeverReplugged(b) /\ ctl.pc \notin {"cleaned", "exited"} =>
                           /\ KnownToSync(b)
                           /\ OpenedOnce(b) => ExactlyUsed(b)
    BY DEF UsedTracksImports
  <1>1. UsedByConnection(b)
    BY DEF UsedIsHeld
  <1>2. ASSUME OpenedOnce(b), ud[b] # 0 PROVE ad[b] = <<>>
    BY <1>1, <1>2, OnePerBus DEF UsedByConnection
  <1>3. NeverReplugged(b) /\ ctl.pc \notin {"cleaned", "exited"} =>
          /\ KnownToSync(b)
          /\ OpenedOnce(b) =>
               \A c \in Conns : conn[c].held.bus = b /\ conn[c].pc # "occUd" => ud[b] # 0
    BY DEF UsedIsHeld
  <1> QED BY <1>1, <1>2, <1>3 DEF ExactlyUsed

(* For any number of clients, ports, plug events and openings: what is in  *)
(* used_devices some connection holds; until shutdown has drained the      *)
(* lists, a sync turn finds every held device that was never unplugged in  *)
(* one of the lists, but for the gap in occupy; and on a port that no turn *)
(* opened again through that gap, what a connection imported is in         *)
(* used_devices and not on offer (mod.rs:905-1007).  A handler that panics *)
(* leaves its entry behind: that is the hypothesis.                        *)
THEOREM UsedTracked ==
  ASSUME ~HandlerPanics
  PROVE  Spec => []UsedTracksImports
  <1>1. Init => UsedIsHeld
    BY InventoryAssumption
       DEF Init, UsedIsHeld, UsedByConnection, KnownToSync, Closed, Idle, NoHandle
  <1>2. TypeOK /\ HandleExclusive /\ PlugInv /\ UsedIsHeld /\ [Next]_vars => UsedIsHeld'
    BY NextUsedIsHeld
  <1>3. TypeOK /\ HandleExclusive /\ PlugInv /\ UsedIsHeld => UsedTracksImports
    BY UsedFollows DEF PlugInv
  <1> QED BY <1>1, <1>2, <1>3, TypeCorrect, Exclusive, PlugInvariant, PTL DEF Spec

----------------------------------------------------------------------------
(* The occupancy map.  An entry is there only while its connection serves  *)
(* the device or is about to clear it, and a connection that imports once  *)
(* never comes to release a device whose entry it has not cleared.         *)

OccHeld ==
  \A b \in Buses : \A c \in Conns :
    occ[b] = c => conn[c].pc \in {"serving", "endOcc"} /\ conn[c].held.bus = b

ImportsOnce ==
  \A c \in Conns : /\ conn[c].prev = None
                   /\ conn[c].pc # "clrOcc" /\ conn[c].after # "occAd"

ServedIsListed ==
  \A b \in Buses : \A c \in Conns :
    conn[c].pc = "serving" /\ conn[c].held.bus = b /\ NeverReplugged(b) /\ OpenedOnce(b)
      => occ[b] = c

OccInv == OccHeld /\ ImportsOnce /\ ServedIsListed

(* The two records that end an import or a connection.                     *)
LEMMA EndRecords ==
  ASSUME TypeOK, NEW c \in Conns
  PROVE  /\ \A after \in {"serving", "closed"} :
              LET s == Surrender(c, after)
              IN  /\ s.prev = None /\ s.after \in {None, after}
                  /\ Holding(c) => s.pc = "endOcc" /\ s.held = conn[c].held
                  /\ ~Holding(c) => s.pc = after /\ s.held = NoHandle
         /\ \A r \in ConnState : r.prev = None =>
              LET a == AfterReply(r)
              IN  /\ a.prev = None /\ a.after = None /\ a.held = r.held
                  /\ a.pc = IF r.held # NoHandle THEN "setOcc" ELSE "serving"
  <1>1. ASSUME NEW after \in {"serving", "closed"}
        PROVE  LET s == Surrender(c, after)
               IN  /\ s.prev = None /\ s.after \in {None, after}
                   /\ Holding(c) => s.pc = "endOcc" /\ s.held = conn[c].held
                   /\ ~Holding(c) => s.pc = after /\ s.held = NoHandle
    BY TypeConn DEF Surrender, Idle, ConnState
  <1>2. ASSUME NEW r \in ConnState, r.prev = None
        PROVE  LET a == AfterReply(r)
               IN  /\ a.prev = None /\ a.after = None /\ a.held = r.held
                   /\ a.pc = IF r.held # NoHandle THEN "setOcc" ELSE "serving"
    BY <1>2 DEF AfterReply, Idle, ConnState
  <1> QED BY <1>1, <1>2

(* What a step does to the record of a connection that imports once.       *)
LEMMA OnceRecord ==
  ASSUME TypeOK, ImportsOnce, NEW c \in Conns, ConnStep(c) \/ PeerStep(c),
         ~reimports, ~HandlerPanics
  PROVE  /\ conn'[c].prev = None /\ conn'[c].pc # "clrOcc" /\ conn'[c].after # "occAd"
         /\ \/ SetOccupancy(c) /\ conn'[c].pc = "serving" /\ conn'[c].held = conn[c].held
               /\ conn[c].held \in Handle /\ conn[c].pc = "setOcc"
            \/ ClearOccupancy(c) /\ conn'[c].pc = "relUd" /\ conn[c].held \in Handle
               /\ conn[c].pc = "endOcc"
            \/ /\ UNCHANGED occ
               /\ conn'[c].pc = "serving" => conn'[c].held = NoHandle
               /\ \/ conn[c].pc \notin {"serving", "endOcc"}
                  \/ conn[c].held = NoHandle
                  \/ conn'[c].pc = "endOcc" /\ conn'[c].held = conn[c].held
  <1>0. /\ conn[c] \in ConnState /\ conn[c].prev = None
        /\ conn[c].pc # "clrOcc" /\ conn[c].after # "occAd"
    BY TypeConn DEF ImportsOnce
  <1>1. CASE OccupyTake(c)
    <2>1. /\ conn'[c].prev = None /\ conn'[c].after = conn[c].after
          /\ conn'[c].pc \in {"reply", "occUd"}
      BY <1>0, <1>1 DEF OccupyTake, TypeOK, ConnState
    <2> QED BY <1>0, <1>1, <2>1 DEF OccupyTake, At
  <1>2. CASE OccupyRegister(c) \/ ReleaseLock(c)
    <2>1. /\ conn'[c].prev = None /\ conn'[c].after = conn[c].after
          /\ conn'[c].pc \in {"reply", "relAd"}
      BY <1>0, <1>2 DEF OccupyRegister, ReleaseLock, TypeOK, ConnState
    <2> QED BY <1>0, <1>2, <2>1 DEF OccupyRegister, ReleaseLock, At
  <1>3. CASE ReplyWritten(c)
    <2>1. PICK r \in ConnState : r = conn[c] /\ conn'[c] = AfterReply(r)
      BY <1>0, <1>3 DEF ReplyWritten, TypeOK
    <2>2. /\ conn'[c].prev = None /\ conn'[c].after = None /\ conn'[c].held = r.held
          /\ conn'[c].pc = IF r.held # NoHandle THEN "setOcc" ELSE "serving"
      BY <1>0, <2>1, EndRecords
    <2> QED BY <1>3, <2>2, InventoryAssumption DEF ReplyWritten, At
  <1>4. CASE ReplyFails(c) \/ Disconnect(c) \/ BadImportRequest(c)
    <2>1. PICK after \in {"serving", "closed"} : conn'[c] = Surrender(c, after) /\ UNCHANGED occ
      BY <1>4 DEF ReplyFails, Disconnect, BadImportRequest, TypeOK
    <2>2. /\ conn'[c].prev = None /\ conn'[c].after \in {None, after}
          /\ Holding(c) => conn'[c].pc = "endOcc" /\ conn'[c].held = conn[c].held
          /\ ~Holding(c) => conn'[c].pc = after /\ conn'[c].held = NoHandle
      BY <2>1, EndRecords
    <2> QED BY <2>1, <2>2, InventoryAssumption DEF Holding
  <1>5. ~ClearPrevious(c)
    BY <1>0 DEF ClearPrevious, At
  <1>6. CASE SetOccupancy(c)
    <2>1. /\ conn'[c].prev = None /\ conn'[c].after = conn[c].after
          /\ conn'[c].pc = "serving" /\ conn'[c].held = conn[c].held
      BY <1>0, <1>6 DEF SetOccupancy, TypeOK, ConnState
    <2>2. conn[c].held \in Handle /\ conn[c].pc = "setOcc"
      BY <1>6, TypeConn DEF SetOccupancy, At, PlaceOK
    <2> QED BY <1>0, <1>6, <2>1, <2>2
  <1>7. CASE ClearOccupancy(c)
    <2>1. /\ conn'[c].prev = None /\ conn'[c].after = conn[c].after /\ conn'[c].pc = "relUd"
      BY <1>0, <1>7 DEF ClearOccupancy, TypeOK, ConnState
    <2>2. conn[c].held \in Handle /\ conn[c].pc = "endOcc"
      BY <1>7, TypeConn DEF ClearOccupancy, At, PlaceOK
    <2> QED BY <1>0, <1>7, <2>1, <2>2
  <1>8. CASE ReleaseMove(c)
    <2>1. conn' = [conn EXCEPT ![c] = [Idle EXCEPT !.pc = conn[c].after]] /\ UNCHANGED occ
      BY <1>0, <1>8 DEF ReleaseMove
    <2>2. /\ conn'[c].prev = None /\ conn'[c].after = None /\ conn'[c].pc = conn[c].after
          /\ conn'[c].held = NoHandle
      BY <2>1 DEF TypeOK, Idle
    <2>3. conn[c].pc = "relAd" /\ conn[c].after \in {"serving", "closed"}
      BY <1>0, <1>8, TypeConn DEF ReleaseMove, At, PlaceOK, ConnState
    <2> QED BY <2>1, <2>2, <2>3, InventoryAssumption
  <1>9. CASE Connect(c)
    <2>1. conn'[c] = Idle /\ conn[c].pc = "closed" /\ UNCHANGED occ
      BY <1>9 DEF Connect, At, TypeOK
    <2> QED BY <2>1, InventoryAssumption DEF Idle
  <1>10. ASSUME NEW b \in Buses, ImportRequest(c, b)
         PROVE  /\ conn'[c].prev = None /\ conn'[c].pc = "occAd" /\ conn'[c].after = None
                /\ conn[c].held = NoHandle /\ UNCHANGED occ
    <2>1. conn[c].held = NoHandle
      BY <1>10 DEF ImportRequest, Holding
    <2> QED BY <1>0, <1>10, <2>1, HandleFields
            DEF ImportRequest, Holding, TypeOK, ConnState
  <1>11. ~Panic(c)
    BY DEF Panic
  <1> QED BY <1>1, <1>2, <1>3, <1>4, <1>5, <1>6, <1>7, <1>8, <1>9, <1>10, <1>11,
             InventoryAssumption DEF ConnStep, PeerStep

(* Steps of a connection: only SetOccupancy and ClearOccupancy touch the   *)
(* map.                                                                    *)
LEMMA ConnOccInv ==
  ASSUME TypeOK, HandleExclusive, Numbered, OccInv, NEW c \in Conns, ConnStep(c) \/ PeerStep(c),
         ~reimports, ~HandlerPanics
  PROVE  OccInv'
  <1>0. /\ \A d \in Conns : d # c => conn'[d] = conn[d]
        /\ UNCHANGED <<present, plugs, opens>>
    BY Hands
  <1>1. /\ conn'[c].prev = None /\ conn'[c].pc # "clrOcc" /\ conn'[c].after # "occAd"
        /\ \/ SetOccupancy(c) /\ conn'[c].pc = "serving" /\ conn'[c].held = conn[c].held
              /\ conn[c].held \in Handle /\ conn[c].pc = "setOcc"
           \/ ClearOccupancy(c) /\ conn'[c].pc = "relUd" /\ conn[c].held \in Handle
              /\ conn[c].pc = "endOcc"
           \/ /\ UNCHANGED occ
              /\ conn'[c].pc = "serving" => conn'[c].held = NoHandle
              /\ \/ conn[c].pc \notin {"serving", "endOcc"}
                 \/ conn[c].held = NoHandle
                 \/ conn'[c].pc = "endOcc" /\ conn'[c].held = conn[c].held
    BY OnceRecord DEF OccInv
  <1>2. ImportsOnce'
    BY <1>0, <1>1 DEF OccInv, ImportsOnce
  <1>3. NoHandle.bus \notin Buses /\ None \notin Conns
    BY HandleFields, InventoryAssumption
  <1>4. CASE /\ SetOccupancy(c) /\ conn'[c].pc = "serving" /\ conn'[c].held = conn[c].held
             /\ conn[c].held \in Handle /\ conn[c].pc = "setOcc"
    <2>1. PICK a \in Buses : a = conn[c].held.bus
      BY <1>4, HandleFields
    <2>2. \A b \in Buses : occ'[b] = IF b = a THEN c ELSE occ[b]
      BY <1>4, <2>1 DEF SetOccupancy, TypeOK
    <2>3. OccHeld'
      <3> SUFFICES ASSUME NEW b \in Buses, NEW d \in Conns, occ'[b] = d
                   PROVE  conn'[d].pc \in {"serving", "endOcc"} /\ conn'[d].held.bus = b
        BY DEF OccHeld
      <3>1. CASE b = a
        BY <1>4, <2>1, <2>2, <3>1
      <3>2. CASE b # a
        BY <1>0, <1>4, <2>2, <3>2 DEF OccInv, OccHeld
      <3> QED BY <3>1, <3>2
    <2>4. ServedIsListed'
      <3> SUFFICES ASSUME NEW b \in Buses, NEW d \in Conns, conn'[d].pc = "serving",
                          conn'[d].held.bus = b, NeverReplugged(b), OpenedOnce(b)
                   PROVE  occ'[b] = d
        BY <1>0 DEF ServedIsListed, NeverReplugged, OpenedOnce
      <3>1. CASE d = c
        BY <1>4, <2>1, <2>2, <3>1
      <3>2. CASE d # c
        <4>1. b # a
          BY <1>0, <2>1, <3>2, OnePerBus
        <4> QED BY <1>0, <2>2, <3>2, <4>1 DEF OccInv, ServedIsListed
      <3> QED BY <3>1, <3>2
    <2> QED BY <1>2, <2>3, <2>4 DEF OccInv
  <1>5. CASE /\ ClearOccupancy(c) /\ conn'[c].pc = "relUd" /\ conn[c].held \in Handle
             /\ conn[c].pc = "endOcc"
    <2>1. PICK a \in Buses : a = conn[c].held.bus
      BY <1>5, HandleFields
    <2>2. \A b \in Buses : occ'[b] = IF b = a THEN None ELSE occ[b]
      BY <1>5, <2>1 DEF ClearOccupancy, TypeOK
    <2>3. OccHeld'
      <3> SUFFICES ASSUME NEW b \in Buses, NEW d \in Conns, occ'[b] = d
                   PROVE  conn'[d].pc \in {"serving", "endOcc"} /\ conn'[d].held.bus = b
        BY DEF OccHeld
      <3>1. b # a /\ occ[b] = d
        BY <1>3, <2>2
      <3>2. d # c
        BY <2>1, <3>1 DEF OccInv, OccHeld
      <3> QED BY <1>0, <3>1, <3>2 DEF OccInv, OccHeld
    <2>4. ServedIsListed'
      <3> SUFFICES ASSUME NEW b \in Buses, NEW d \in Conns, conn'[d].pc = "serving",
                          conn'[d].held.bus = b, NeverReplugged(b), OpenedOnce(b)
                   PROVE  occ'[b] = d
        BY <1>0 DEF ServedIsListed, NeverReplugged, OpenedOnce
      <3>1. d # c
        BY <1>5
      <3>2. b # a
        BY <1>0, <2>1, <3>1, OnePerBus
      <3> QED BY <1>0, <2>2, <3>1, <3>2 DEF OccInv, ServedIsListed
    <2> QED BY <1>2, <2>3, <2>4 DEF OccInv
  <1>6. CASE /\ UNCHANGED occ
             /\ conn'[c].pc = "serving" => conn'[c].held = NoHandle
             /\ \/ conn[c].pc \notin {"serving", "endOcc"}
                \/ conn[c].held = NoHandle
                \/ conn'[c].pc = "endOcc" /\ conn'[c].held = conn[c].held
    <2>1. OccHeld'
      <3> SUFFICES ASSUME NEW b \in Buses, NEW d \in Conns, occ[b] = d
                   PROVE  conn'[d].pc \in {"serving", "endOcc"} /\ conn'[d].held.bus = b
        BY <1>6 DEF OccHeld
      <3>1. conn[d].pc \in {"serving", "endOcc"} /\ conn[d].held.bus = b
        BY DEF OccInv, OccHeld
      <3> QED BY <1>0, <1>3, <1>6, <3>1
    <2>2. ServedIsListed'
      <3> SUFFICES ASSUME NEW b \in Buses, NEW d \in Conns, conn'[d].pc = "serving",
                          conn'[d].held.bus = b, NeverReplugged(b), OpenedOnce(b)
                   PROVE  occ[b] = d
        BY <1>0, <1>6 DEF ServedIsListed, NeverReplugged, OpenedOnce
      <3>1. d # c
        BY <1>3, <1>6
      <3> QED BY <1>0, <3>1 DEF OccInv, ServedIsListed
    <2> QED BY <1>2, <2>1, <2>2 DEF OccInv
  <1> QED BY <1>1, <1>4, <1>5, <1>6

(* Steps of all others: only the synchronisation takes entries out, and    *)
(* none of a bus that is there.                                            *)
LEMMA NextOccInv ==
  ASSUME TypeOK, HandleExclusive, PlugInv, OccInv, [Next]_vars, ~reimports, ~HandlerPanics
  PROVE  OccInv'
  <1>o. \A b \in Buses : OpenedOnce(b)' => OpenedOnce(b)
    BY OpensSteps DEF OpenedOnce
  <1>1. ASSUME UNCHANGED <<occ, conn>>, \A b \in Buses : NeverReplugged(b)' => NeverReplugged(b)
        PROVE  OccInv'
    BY <1>o, <1>1 DEF OccInv, OccHeld, ImportsOnce, ServedIsListed
  <1>2. CASE UNCHANGED vars
    BY <1>1, <1>2 DEF NeverReplugged
  <1>3. CASE HostStep
    <2>1. UNCHANGED <<occ, conn>>
      BY <1>3 DEF HostStep, Plug, Unplug
    <2>2. OccHeld' /\ ImportsOnce'
      BY <2>1 DEF OccInv, OccHeld, ImportsOnce
    <2>3. ServedIsListed'
      BY <1>o, <2>1, OnceSteps DEF OccInv, ServedIsListed
    <2> QED BY <2>2, <2>3 DEF OccInv
  <1>4. CASE SyncList \/ SyncLock \/ SyncPrune \/ (\E b \in Buses : SyncOpen(b)) \/ SyncAppend
    BY <1>1, <1>4 DEF SyncList, SyncLock, SyncPrune, SyncOpen, SyncAppend, NeverReplugged
  <1>5. CASE SyncRetain
    <2>1. /\ UNCHANGED <<present, plugs, conn>> /\ sync.pc # "idle"
          /\ \A b \in Buses : occ'[b] = IF sync.cur[b] = 0 THEN None ELSE occ[b]
      BY <1>5 DEF SyncRetain
    <2>2. OccHeld' /\ ImportsOnce'
      BY <2>1, InventoryAssumption DEF OccInv, OccHeld, ImportsOnce
    <2>3. ServedIsListed'
      <3> SUFFICES ASSUME NEW b \in Buses, NEW c \in Conns, conn[c].pc = "serving",
                          conn[c].held.bus = b, NeverReplugged(b), OpenedOnce(b)
                   PROVE  occ'[b] = c
        BY <1>o, <2>1 DEF ServedIsListed, NeverReplugged
      <3>1. PICK h \in Handle : h = conn[c].held
        BY OnePerBus DEF PlugInv
      <3>2. Known(h) /\ h.bus = b
        BY <3>1 DEF Known, HeldBy
      <3>3. sync.cur[b] # 0
        BY <2>1, <3>2 DEF PlugInv, SnapshotTrue
      <3> QED BY <2>1, <3>3 DEF OccInv, ServedIsListed
    <2> QED BY <2>2, <2>3 DEF OccInv
  <1>6. CASE CtlStep
    BY <1>1, <1>6 DEF CtlStep, Stop, MoveToBackground, StopServing, CleanupLock, CleanupDrain,
                      CleanupTimeout, Exit, NeverReplugged
  <1>7. ASSUME NEW c \in Conns, ConnStep(c) \/ PeerStep(c) PROVE OccInv'
    BY <1>7, ConnOccInv DEF PlugInv
  <1> QED BY <1>2, <1>3, <1>4, <1>5, <1>6, <1>7 DEF Next, SyncStep

(* Whether clients import again does not change.                           *)
LEMMA ReimportsStay == [Next]_vars => UNCHANGED reimports
  BY DEF Next, HostStep, Plug, Unplug, ConnStep, PeerStep, SyncStep, CtlStep, OccupyTake,
         OccupyRegister, ReplyWritten, ReplyFails, ClearPrevious, SetOccupancy, ClearOccupancy,
         ReleaseLock, ReleaseMove, Connect, ImportRequest, BadImportRequest, Disconnect, Panic,
         SyncList, SyncLock, SyncPrune, SyncOpen, SyncAppend, SyncRetain, Stop,
         MoveToBackground, StopServing, CleanupLock, CleanupDrain, CleanupTimeout, Exit

(* Esc and the status port can rely on the occupancy map, for any number   *)
(* of clients and ports, as long as clients do not import again while they *)
(* hold a device: an entry names a connection that holds the bus, and a    *)
(* connection that serves a device is in it unless its port was unplugged  *)
(* or opened again (mod.rs:1307-1311, 1268-1269, 1532; server.rs:275-279). *)
(* A second import clears the old entry only after its device is released, *)
(* a second opening reaches a second client through the same entry, and a  *)
(* handler that panics, the hypothesis, never clears its own.              *)
THEOREM OccupancyTracked ==
  ASSUME ~HandlerPanics
  PROVE  Spec => []OccupancyTracksImports
  <1> DEFINE I == ~reimports => OccInv
  <1>1. Init => I
    BY InventoryAssumption
       DEF Init, OccInv, OccHeld, ImportsOnce, ServedIsListed, Closed, Idle, NoHandle
  <1>2. TypeOK /\ HandleExclusive /\ PlugInv /\ I /\ [Next]_vars => I'
    BY NextOccInv, ReimportsStay
  <1>3. I => OccupancyTracksImports
    BY DEF OccInv, OccHeld, ServedIsListed, OccupancyTracksImports
  <1> HIDE DEF I
  <1> QED BY <1>1, <1>2, <1>3, TypeCorrect, Exclusive, PlugInvariant, PTL DEF Spec
=============================================================================
