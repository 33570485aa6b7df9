-------------------------- MODULE ClientPortsProofs --------------------------
(***************************************************************************)
(* Proofs about ClientPorts, for every number of ports and every set of    *)
(* devices.                                                                *)
(***************************************************************************)
EXTENDS ClientPorts, WellFoundedInduction, TLAPS

(* A set of ports that is not empty has a least element.                   *)
LEMMA MinOfPorts ==
  ASSUME NEW S, S \subseteq Ports, S # {}
  PROVE  Min(S) \in S
  <1>1. S \subseteq Nat
    BY PortsAssumption DEF Ports
  <1>2. OpToRel(<, Nat) = {ss \in Nat \X Nat : ss[1] < ss[2]}
    BY Zenon DEF OpToRel
  <1>3. IsWellFoundedOn({ss \in Nat \X Nat : ss[1] < ss[2]}, Nat)
    BY <1>2, NatLessThanWellFounded, Zenon
  <1>4. PICK x \in S : \A y \in S : ~(<<y, x>> \in {ss \in Nat \X Nat : ss[1] < ss[2]})
    BY <1>1, <1>3, WFMin, Zenon
  <1>5. ASSUME NEW y \in S PROVE x =< y
    <2>1. <<y, x>> \in Nat \X Nat /\ x \in Nat /\ y \in Nat
      BY <1>1
    <2>2. <<y, x>>[1] = y /\ <<y, x>>[2] = x
      OBVIOUS
    <2>3. ~(y < x)
      BY <1>4, <2>1, <2>2, Zenon
    <2> QED BY <2>1, <2>3
  <1> QED BY <1>5, Zenon DEF Min
----------------------------------------------------------------------------
(* Type correctness: one step per action.                                  *)

PortState == {Free} \cup [bus : Buses, owner : {"agent", "reported", "direct"}]
AgentState ==
  [pc : {"gone", "accept", "attach", "identify", "detach", "shutdown"},
   bus : Buses \cup {"none"}, todo : SUBSET Ports]
DirectState ==
  [op : {"none", "attach", "detach", "refresh", "exit"},
   pc : {"idle", "query", "recover", "detach"},
   bus : Buses \cup {"none"}, todo : SUBSET Ports]

(* What commands can do to the ports.                                      *)
LEMMA CommandsTyped ==
  ASSUME vhci \in [Ports -> PortState]
  PROVE  /\ \A p : Detaches(p) => vhci' \in [Ports -> PortState]
         /\ \A b \in Buses, owner \in {"agent", "direct"} :
              Attaches(b, owner) => vhci' \in [Ports -> PortState]
  <1>1. Free \in PortState
    BY DEF PortState
  <1>2. \A b \in Buses, owner \in {"agent", "direct"} : Carrying(b, owner) \in PortState
    BY DEF PortState, Carrying
  <1> QED BY <1>1, <1>2 DEF Detaches, Attaches

LEMMA InitTypeOK == Init => TypeOK
  BY DEF Init, TypeOK, Gone, Idle

LEMMA TypeWorld ==
  ASSUME TypeOK, Drop \/ AgentStart \/ AgentKilled
  PROVE  TypeOK'
  <1>1. CASE Drop
    <2>1. vhci' \in [Ports -> PortState]
      BY <1>1, CommandsTyped DEF Drop, TypeOK, PortState
    <2> QED BY <1>1, <2>1 DEF Drop, TypeOK, PortState
  <1>2. CASE AgentStart
    BY <1>2 DEF AgentStart, Accepting, TypeOK
  <1>3. CASE AgentKilled
    <2>1. \A p \in Ports : vhci[p] \in PortState
      BY DEF TypeOK, PortState
    <2>2. \A p \in Ports : vhci[p].owner = "reported" =>
            Carrying(vhci[p].bus, "agent") \in PortState
      BY <2>1 DEF PortState, Free, Carrying
    <2>3. vhci' \in [Ports -> PortState]
      BY <1>3, <2>1, <2>2 DEF AgentKilled
    <2> QED BY <1>3, <2>3 DEF AgentKilled, Gone, TypeOK, PortState
  <1> QED BY <1>1, <1>2, <1>3

(* A port that has been detached or given up leaves the rest well formed.   *)
LEMMA ReleaseTyped ==
  ASSUME TypeOK, NEW p, Release(p)
  PROVE  /\ vhci' \in [Ports -> PortState]
         /\ managed' \subseteq Ports
         /\ managed \ {p} \subseteq managed'
  BY CommandsTyped DEF Release, Fails, TypeOK, PortState

LEMMA TypeAgent ==
  ASSUME TypeOK, (\E b \in Buses : AgentToggle(b)) \/ AgentShutdown \/ AgentStep
  PROVE  TypeOK'
  <1>1. agent \in AgentState /\ vhci \in [Ports -> PortState]
    BY DEF TypeOK, AgentState, PortState
  <1>2. ASSUME NEW b \in Buses, AgentToggle(b) PROVE TypeOK'
    <2>1. /\ agent' \in AgentState
          /\ agent'.todo \subseteq managed /\ agent'.pc \in {"attach", "detach"}
          /\ agent'.pc = "attach" => agent'.bus \in Buses
      <3>1. \/ agent' = [agent EXCEPT !.pc = "attach", !.bus = b]
            \/ \E m \in managed : agent' = [agent EXCEPT !.pc = "detach", !.todo = {m}]
        BY <1>2, Zenon DEF AgentToggle
      <3>2. managed \subseteq Ports /\ agent.todo \subseteq managed
        BY DEF TypeOK
      <3>3. CASE agent' = [agent EXCEPT !.pc = "attach", !.bus = b]
        BY <1>1, <3>2, <3>3 DEF AgentState
      <3>4. ASSUME NEW m \in managed,
                   agent' = [agent EXCEPT !.pc = "detach", !.todo = {m}]
            PROVE  /\ agent' \in AgentState
                   /\ agent'.todo = {m} /\ agent'.pc = "detach"
        <4>1. {m} \in SUBSET Ports
          BY <3>2
        <4> QED BY <1>1, <3>4, <4>1 DEF AgentState
      <3> QED BY <3>1, <3>3, <3>4
    <2> QED BY <1>2, <2>1 DEF AgentToggle, TypeOK, AgentState
  <1>3. CASE AgentShutdown
    <2>1. /\ agent' \in AgentState
          /\ agent'.todo = managed /\ agent'.pc = "shutdown"
      BY <1>1, <1>3 DEF AgentShutdown, AgentState, TypeOK
    <2> QED BY <1>3, <2>1 DEF AgentShutdown, TypeOK, AgentState
  <1>4. Accepting \in AgentState /\ Accepting.pc = "accept" /\ Accepting.todo = {}
    BY DEF Accepting, AgentState
  <1>5. CASE AgentAttach
    <2>1. agent.bus \in Buses
      BY <1>5 DEF AgentAttach, TypeOK
    <2>2. vhci' \in [Ports -> PortState]
      BY <1>1, <1>5, <2>1, CommandsTyped DEF AgentAttach, Fails
    <2>3. agent' = Accepting \/ agent' = [agent EXCEPT !.pc = "identify"]
      BY <1>5 DEF AgentAttach
    <2>4. /\ agent' \in AgentState /\ agent'.todo \subseteq managed
          /\ agent'.pc \in {"accept", "identify"}
          /\ agent'.pc = "identify" => agent'.bus \in Buses
      BY <1>1, <1>4, <2>1, <2>3 DEF AgentState, TypeOK
    <2> QED BY <1>5, <2>2, <2>4 DEF AgentAttach, TypeOK, AgentState, PortState
  <1>6. CASE AgentIdentify
    <2>1. agent.bus \in Buses
      BY <1>6 DEF AgentIdentify, TypeOK
    <2>2. Carrying(agent.bus, "reported") \in PortState
      BY <2>1 DEF Carrying, PortState
    <2>3. vhci' \in [Ports -> PortState]
      BY <1>1, <1>6, <2>2 DEF AgentIdentify
    <2>4. \A match \in {SameBus(agent.bus), Matching(agent.bus)} :
            match # {} => Min(match) \in Ports
      BY MinOfPorts DEF SameBus, Matching
    <2>5. managed' \subseteq Ports
      BY <1>6, <2>4 DEF AgentIdentify, TypeOK
    <2> QED BY <1>4, <1>6, <2>3, <2>5 DEF AgentIdentify, TypeOK, AgentState, PortState
  <1>7. CASE AgentDetach
    <2>1. vhci' \in [Ports -> PortState] /\ managed' \subseteq Ports
      BY <1>7, ReleaseTyped DEF AgentDetach
    <2> QED BY <1>4, <1>7, <2>1 DEF AgentDetach, TypeOK, AgentState, PortState
  <1>8. CASE ShutdownNext
    <2>1. /\ vhci' \in [Ports -> PortState] /\ managed' \subseteq Ports
          /\ managed \ {Min(agent.todo)} \subseteq managed'
      BY <1>8, ReleaseTyped DEF ShutdownNext
    <2>2. /\ agent' \in AgentState /\ agent'.pc = "shutdown"
          /\ agent'.todo = agent.todo \ {Min(agent.todo)}
      BY <1>1, <1>8 DEF ShutdownNext, AgentState
    <2> QED BY <1>8, <2>1, <2>2 DEF ShutdownNext, TypeOK, AgentState, PortState
  <1>9. CASE ShutdownDone
    BY <1>4, <1>9 DEF ShutdownDone, Gone, TypeOK, AgentState
  <1> QED BY <1>2, <1>3, <1>5, <1>6, <1>7, <1>8, <1>9 DEF AgentStep

LEMMA TypeDirect ==
  ASSUME TypeOK, DirectStep
  PROVE  TypeOK'
  <1>1. direct \in DirectState /\ vhci \in [Ports -> PortState]
    BY DEF TypeOK, DirectState, PortState
  <1>2. Idle \in DirectState /\ Idle.op = "none"
    BY DEF Idle, DirectState
  <1>3. Wanted \in SUBSET Ports /\ InUse \in SUBSET Ports
    BY DEF Wanted, InUse, Matching
  <1> DEFINE DirectTyped == /\ vhci' \in [Ports -> PortState]
                            /\ direct' \in DirectState
                            /\ direct'.op = "attach" => direct'.bus \in Buses
  <1>4. SUFFICES DirectTyped
    <2>1. UNCHANGED <<managed, agent>>
      BY DEF DirectStep, DirectStart, DirectDetach, DirectQuery, DirectRecover,
             DirectRecovered, DirectNext, DirectEnd
    <2> QED BY <2>1 DEF TypeOK, DirectState, PortState
  <1>5. ASSUME NEW b \in Buses, DirectStart("attach", b)
        PROVE  DirectTyped
    BY <1>1, <1>5 DEF DirectStart, DirectState
  <1>6. ASSUME NEW op \in {"refresh", "exit"}, DirectStart(op, "none")
        PROVE  DirectTyped
    BY <1>1, <1>6 DEF DirectStart, DirectState
  <1>7. ASSUME NEW p \in Ports, DirectDetach(p)
        PROVE  DirectTyped
    <2>1. {p} \in SUBSET Ports
      OBVIOUS
    <2> QED BY <1>1, <1>7, <2>1 DEF DirectDetach, Idle, DirectState
  <1>8. CASE DirectQuery
    BY <1>1, <1>3, <1>8 DEF DirectQuery, DirectState, TypeOK
  <1>9. CASE DirectRecover
    BY <1>1, <1>9, CommandsTyped DEF DirectRecover, Fails, DirectState, TypeOK
  <1>10. CASE DirectRecovered
    BY <1>1, <1>3, <1>10 DEF DirectRecovered, DirectState, TypeOK
  <1>11. CASE DirectNext
    BY <1>1, <1>2, <1>11, CommandsTyped DEF DirectNext, Fails, DirectState, TypeOK
  <1>12. CASE DirectEnd
    <2>1. direct.op = "attach" => direct.bus \in Buses
      BY DEF TypeOK
    <2> QED BY <1>1, <1>2, <1>12, <2>1, CommandsTyped DEF DirectEnd, Fails
  <1> QED BY <1>5, <1>6, <1>7, <1>8, <1>9, <1>10, <1>11, <1>12 DEF DirectStep

LEMMA TypeNext == TypeOK /\ [Next]_vars => TypeOK'
  <1>1. ASSUME TypeOK, Next PROVE TypeOK'
    BY <1>1, TypeWorld, TypeAgent, TypeDirect DEF Next
  <1>2. ASSUME TypeOK, UNCHANGED vars PROVE TypeOK'
    BY <1>2 DEF vars, TypeOK
  <1> QED BY <1>1, <1>2

(* The state keeps its shape for every number of ports and every set of    *)
(* devices; in particular an agent that has gone manages nothing, and what *)
(* it is about to detach it manages (client_agent.rs:210-442).             *)
THEOREM TypeCorrect == Spec => []TypeOK
  BY InitTypeOK, TypeNext, PTL DEF Spec

----------------------------------------------------------------------------
(* What the agent reported it manages.                                     *)

(* No two devices are of the same model.  With twins the agent may look up *)
(* the port of the wrong one (client.rs:943-959).                          *)
ModelsDiffer == \A a, b \in Buses : VidPid[a] = VidPid[b] => a = b

(* The strengthening: the server gives a device to one client at a time,   *)
(* so the port that carries the bus id is the port that was attached.      *)
OnePortPerBus ==
  \A p, q \in Ports : Used(p) /\ Used(q) /\ vhci[p].bus = vhci[q].bus => p = q

Inv == TypeOK /\ OnePortPerBus /\ ReportedPortsManaged

(* A detached port is free; the others keep their device.                  *)
LEMMA DetachKeeps ==
  ASSUME Inv, NEW p, Detaches(p)
  PROVE  /\ OnePortPerBus'
         /\ p \in Ports => vhci'[p] = Free
         /\ \A q \in Ports : q # p => vhci'[q] = vhci[q]
         /\ \A q \in Ports : vhci'[q].owner = "reported" => vhci[q].owner = "reported" /\ q # p
  <1>1. vhci' = [vhci EXCEPT ![p] = Free] /\ DOMAIN vhci = Ports
    BY DEF Detaches, Inv, TypeOK
  <1>2. \A q \in Ports : vhci'[q] = IF q = p THEN Free ELSE vhci[q]
    BY <1>1 DEF Inv, TypeOK
  <1>3. OnePortPerBus'
    BY <1>2 DEF Inv, OnePortPerBus, Used
  <1>4. Free.owner # "reported"
    BY DEF Free
  <1> QED BY <1>2, <1>3, <1>4

(* An attached device was on no port before.                               *)
LEMMA AttachKeeps ==
  ASSUME Inv, NEW b \in Buses, NEW owner \in {"agent", "direct"}, Attaches(b, owner)
  PROVE  /\ OnePortPerBus'
         /\ \A q \in Ports : vhci'[q].owner = "reported" => vhci[q].owner = "reported"
  <1>1. PICK p \in Ports : vhci' = [vhci EXCEPT ![p] = Carrying(b, owner)]
    BY DEF Attaches
  <1>2. \A q \in Ports : vhci'[q] = IF q = p THEN Carrying(b, owner) ELSE vhci[q]
    BY <1>1 DEF Inv, TypeOK
  <1>3. \A q \in Ports : vhci[q].bus # b
    BY DEF Attaches, SameBus
  <1>4. Carrying(b, owner).bus = b /\ Carrying(b, owner).owner = owner
    BY DEF Carrying
  <1>5. OnePortPerBus'
    BY <1>2, <1>3, <1>4 DEF Inv, OnePortPerBus, Used
  <1> QED BY <1>2, <1>4, <1>5

(* Every port that the lookup after an attach can find is the port of the  *)
(* device.                                                                 *)
LEMMA LookupFinds ==
  ASSUME Inv, ModelsDiffer, NEW b \in Buses, NEW q \in Ports,
         vhci[q] = Carrying(b, "agent"),
         NEW match \in {SameBus(b), Matching(b)}, match # {}
  PROVE  Min(match) = q
  <1>1. match \subseteq Ports
    BY DEF SameBus, Matching
  <1>2. ASSUME NEW r \in match PROVE r = q
    <2>1. r \in Ports /\ vhci[r] \in PortState
      BY <1>1 DEF Inv, TypeOK, PortState
    <2>2. vhci[q].bus = b /\ vhci[q].owner = "agent"
      BY DEF Carrying
    <2>3. Used(q)
      BY <2>2 DEF Used, Free
    <2>4. Used(r) /\ vhci[r].bus = b
      <3>1. CASE match = SameBus(b)
        <4>1. vhci[r].bus = b
          BY <1>2, <3>1 DEF SameBus
        <4>2. b # "none"
          BY PortsAssumption
        <4> QED BY <4>1, <4>2 DEF Used, Free
      <3>2. CASE match = Matching(b)
        <4>1. Used(r) /\ (vhci[r].bus = b \/ VidPid[vhci[r].bus] = VidPid[b])
          BY <1>2, <3>2 DEF Matching
        <4>2. vhci[r].bus \in Buses
          BY <2>1, <4>1 DEF PortState, Used
        <4> QED BY <4>1, <4>2 DEF ModelsDiffer
      <3> QED BY <3>1, <3>2
    <2> QED BY <2>1, <2>2, <2>3, <2>4 DEF Inv, OnePortPerBus
  <1> QED BY <1>1, <1>2, MinOfPorts

(* A port stops being managed only when it is detached.                    *)
LEMMA ReleaseManaged ==
  ASSUME Inv, NEW p, Release(p)
  PROVE  OnePortPerBus' /\ ReportedPortsManaged'
  <1>1. CASE Detaches(p) /\ managed' = managed \ {p}
    BY <1>1, DetachKeeps DEF Inv, ReportedPortsManaged
  <1>2. CASE Detaches(p) /\ UNCHANGED managed
    BY <1>2, DetachKeeps DEF Inv, ReportedPortsManaged
  <1>3. CASE UNCHANGED <<vhci, managed>>
    BY <1>3 DEF Inv, OnePortPerBus, Used, ReportedPortsManaged
  <1> QED BY <1>1, <1>2, <1>3 DEF Release, Fails

LEMMA ManagedWorld ==
  ASSUME Inv, Drop \/ AgentStart \/ AgentKilled
  PROVE  OnePortPerBus' /\ ReportedPortsManaged'
  <1>1. CASE Drop
    <2>1. PICK p \in Ports : Detaches(p)
      BY <1>1 DEF Drop
    <2> QED BY <1>1, <2>1, DetachKeeps DEF Drop, Inv, ReportedPortsManaged
  <1>2. CASE AgentStart
    <2>1. managed = {}
      BY <1>2 DEF AgentStart, Inv, TypeOK
    <2> QED BY <1>2, <2>1 DEF AgentStart, Inv, OnePortPerBus, Used, ReportedPortsManaged
  <1>3. CASE AgentKilled
    <2>1. \A q \in Ports : vhci'[q] = IF vhci[q].owner = "reported"
                             THEN Carrying(vhci[q].bus, "agent") ELSE vhci[q]
      BY <1>3 DEF AgentKilled
    <2>2. ASSUME NEW q \in Ports
          PROVE  vhci'[q].bus = vhci[q].bus /\ vhci'[q].owner # "reported"
      <3>1. CASE vhci[q].owner = "reported"
        <4>1. vhci'[q] = Carrying(vhci[q].bus, "agent")
          BY <2>1, <3>1
        <4>2. \A b : Carrying(b, "agent").bus = b /\ Carrying(b, "agent").owner = "agent"
          BY DEF Carrying
        <4> QED BY <4>1, <4>2
      <3>2. CASE vhci[q].owner # "reported"
        BY <2>1, <3>2
      <3> QED BY <3>1, <3>2
    <2>3. \A q \in Ports : Used(q)' => Used(q)
      BY <2>1 DEF Used, Free
    <2> QED BY <2>2, <2>3 DEF Inv, OnePortPerBus, ReportedPortsManaged
  <1> QED BY <1>1, <1>2, <1>3

LEMMA ManagedAgent ==
  ASSUME Inv, ModelsDiffer,
         (\E b \in Buses : AgentToggle(b)) \/ AgentShutdown \/ AgentStep
  PROVE  OnePortPerBus' /\ ReportedPortsManaged'
  <1>1. CASE UNCHANGED <<vhci, managed>>
    BY <1>1 DEF Inv, OnePortPerBus, Used, ReportedPortsManaged
  <1>2. CASE AgentAttach
    <2>1. agent.bus \in Buses /\ UNCHANGED managed
      BY <1>2 DEF AgentAttach, Inv, TypeOK
    <2>2. Attaches(agent.bus, "agent") \/ UNCHANGED <<vhci, managed>>
      BY <1>2 DEF AgentAttach, Fails
    <2> QED BY <1>1, <2>1, <2>2, AttachKeeps DEF Inv, ReportedPortsManaged
  <1>3. CASE AgentIdentify
    <2>1. agent.bus \in Buses
      BY <1>3 DEF AgentIdentify, Inv, TypeOK
    <2>2. SUFFICES ASSUME NEW match \in {SameBus(agent.bus), Matching(agent.bus)},
                          match # {},
                          managed' = managed \cup {Min(match)},
                          vhci' = [p \in Ports |-> IF vhci[p] = Carrying(agent.bus, "agent")
                                     THEN Carrying(agent.bus, "reported") ELSE vhci[p]]
                   PROVE  OnePortPerBus' /\ ReportedPortsManaged'
      BY <1>1, <1>3 DEF AgentIdentify
    <2>3. \A q \in Ports : vhci'[q].bus = vhci[q].bus /\ (Used(q)' => Used(q))
      BY <2>2 DEF Carrying, Used, Free
    <2>4. ASSUME NEW q \in Ports, vhci'[q].owner = "reported" PROVE q \in managed'
      <3>1. CASE vhci[q] = Carrying(agent.bus, "agent")
        <4>1. Min(match) = q
          BY <2>1, <2>2, <3>1, LookupFinds
        <4> QED BY <2>2, <4>1
      <3>2. CASE vhci[q] # Carrying(agent.bus, "agent")
        BY <2>2, <2>4, <3>2 DEF Inv, ReportedPortsManaged
      <3> QED BY <3>1, <3>2
    <2>5. OnePortPerBus'
      BY <2>3 DEF Inv, OnePortPerBus
    <2> QED BY <2>4, <2>5 DEF ReportedPortsManaged
  <1>4. CASE AgentDetach \/ ShutdownNext
    BY <1>4, ReleaseManaged DEF AgentDetach, ShutdownNext
  <1> QED BY <1>1, <1>2, <1>3, <1>4
          DEF AgentStep, AgentToggle, AgentShutdown, ShutdownDone

LEMMA ManagedDirect ==
  ASSUME Inv, DirectStep
  PROVE  OnePortPerBus' /\ ReportedPortsManaged'
  <1>1. UNCHANGED managed
    BY DEF DirectStep, DirectStart, DirectDetach, DirectQuery, DirectRecover,
           DirectRecovered, DirectNext, DirectEnd
  <1>2. CASE UNCHANGED vhci
    BY <1>1, <1>2 DEF Inv, OnePortPerBus, Used, ReportedPortsManaged
  <1>3. ASSUME NEW p, Detaches(p) PROVE OnePortPerBus' /\ ReportedPortsManaged'
    BY <1>1, <1>3, DetachKeeps DEF Inv, ReportedPortsManaged
  <1>4. CASE direct.op = "attach" /\ Attaches(direct.bus, "direct")
    <2>1. direct.bus \in Buses
      BY <1>4 DEF Inv, TypeOK
    <2> QED BY <1>1, <1>4, <2>1, AttachKeeps DEF Inv, ReportedPortsManaged
  <1> QED BY <1>2, <1>3, <1>4
          DEF DirectStep, DirectStart, DirectDetach, DirectQuery, DirectRecover,
              DirectRecovered, DirectNext, DirectEnd, Fails

LEMMA InvInit == Init => Inv
  <1> SUFFICES ASSUME Init PROVE Inv OBVIOUS
  <1>1. \A p \in Ports : vhci[p] = Free
    BY DEF Init
  <1> QED BY <1>1, InitTypeOK DEF Inv, OnePortPerBus, ReportedPortsManaged, Used, Free

LEMMA InvNext ==
  ASSUME ModelsDiffer
  PROVE  Inv /\ [Next]_vars => Inv'
  <1>1. ASSUME Inv, Next PROVE OnePortPerBus' /\ ReportedPortsManaged'
    BY <1>1, ManagedWorld, ManagedAgent, ManagedDirect DEF Next
  <1>2. ASSUME Inv, UNCHANGED vars PROVE OnePortPerBus' /\ ReportedPortsManaged'
    BY <1>2 DEF vars, Inv, OnePortPerBus, Used, ReportedPortsManaged
  <1> QED BY <1>1, <1>2, TypeNext DEF Inv

(* Where no two devices are of one model, the agent manages whatever it    *)
(* reported as attached and nobody has touched since, for every number of  *)
(* ports, whatever else happens to them (client_agent.rs:333-442).         *)
THEOREM ReportedManaged ==
  ASSUME ModelsDiffer
  PROVE  Spec => []ReportedPortsManaged
  <1>1. Init => Inv
    BY InvInit
  <1>2. Inv /\ [Next]_vars => Inv'
    BY InvNext
  <1>3. Inv => ReportedPortsManaged
    BY DEF Inv
  <1> QED BY <1>1, <1>2, <1>3, PTL DEF Spec
=============================================================================
