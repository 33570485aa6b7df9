----------------------------- MODULE ClientPorts -----------------------------
(***************************************************************************)
(* The USB/IP ports of a client machine and the two kinds of process that  *)
(* attach and detach them: the background agent of one endpoint, which     *)
(* remembers the ports it manages, and a direct session, which remembers   *)
(* nothing.  The direct session is `lusbip attach`, `lusbip detach` or the *)
(* foreground client for the same server; no lock excludes it from the     *)
(* agent.                                                                  *)
(*                                                                         *)
(* Each command of usbip or sudo is one step.  It succeeds or fails, and   *)
(* one that is killed at its deadline fails after it may have had its      *)
(* effect.  What the server lists and who occupies a device elsewhere is   *)
(* not known: a toggle may always end with an error.                       *)
(***************************************************************************)
EXTENDS Naturals, FiniteSets, FiniteSetsExt

CONSTANTS
  NumPorts,    \* the kernel's VHCI ports
  Buses,       \* the bus ids the server exports
  VidPid       \* VID:PID of the device at each bus

ASSUME PortsAssumption ==
  NumPorts \in Nat \ {0} /\ "none" \notin Buses /\ VidPid \in [Buses -> Nat]

VARIABLES
  vhci,        \* what the kernel has attached, and on whose behalf
  managed,     \* managed_ports of the agent
  agent,       \* what the agent is doing
  direct       \* what the direct session is doing

vars == <<vhci, managed, agent, direct>>

Ports == 1 .. NumPorts
Free == [bus |-> "none", owner |-> "nobody"]
Carrying(b, owner) == [bus |-> b, owner |-> owner]
Used(p) == vhci[p] # Free

Accepting == [pc |-> "accept", bus |-> "none", todo |-> {}]
Gone == [pc |-> "gone", bus |-> "none", todo |-> {}]
Idle == [op |-> "none", pc |-> "idle", bus |-> "none", todo |-> {}]

Init ==
  /\ vhci = [p \in Ports |-> Free] /\ managed = {}
  /\ agent = Gone /\ direct = Idle

----------------------------------------------------------------------------
(* The kernel and the matching of ports with devices.                      *)

(* port_matches_remote_device and should_detach agree for a port whose     *)
(* host is known: the bus id or the VID:PID is that of the device.         *)
SameBus(b) == {p \in Ports : vhci[p].bus = b}
Matching(b) ==
  {p \in Ports : Used(p) /\ (vhci[p].bus = b \/ VidPid[vhci[p].bus] = VidPid[b])}

(* usbip attach, when it has an effect: the server gives a device to one   *)
(* client at a time, and the kernel takes any free port.                   *)
Attaches(b, owner) ==
  /\ SameBus(b) = {}
  /\ \E p \in Ports : ~Used(p) /\ vhci' = [vhci EXCEPT ![p] = Carrying(b, owner)]

Detaches(p) == vhci' = [vhci EXCEPT ![p] = Free]

(* A command at its deadline: with its effect or without it.               *)
Fails(effect) == effect \/ UNCHANGED vhci

(* The server or the network lets go of a device.                          *)
Drop ==
  /\ \E p \in Ports : Used(p) /\ Detaches(p)
  /\ UNCHANGED <<managed, agent, direct>>

----------------------------------------------------------------------------
(* The agent: one request at a time.                                       *)

AgentStart ==
  /\ agent.pc = "gone"
  /\ agent' = Accepting /\ managed' = {}
  /\ UNCHANGED <<vhci, direct>>

(* What it managed stays attached, and belongs to nobody any more.         *)
AgentKilled ==
  /\ agent.pc # "gone"
  /\ agent' = Gone /\ managed' = {}
  /\ vhci' = [p \in Ports |->
       IF vhci[p].owner = "reported" THEN Carrying(vhci[p].bus, "agent") ELSE vhci[p]]
  /\ UNCHANGED direct

(* TOGGLE, after `usbip port` and `usbip list`: a port with that bus id    *)
(* comes first, then the first port that matches the device.               *)
AgentToggle(b) ==
  /\ agent.pc = "accept"
  /\ LET match == IF SameBus(b) # {} THEN SameBus(b) ELSE Matching(b)
     IN  \/ /\ match = {}
            /\ agent' = [agent EXCEPT !.pc = "attach", !.bus = b]
         \/ /\ match # {} /\ Min(match) \in managed
            /\ agent' = [agent EXCEPT !.pc = "detach", !.todo = {Min(match)}]
  /\ UNCHANGED <<vhci, managed, direct>>

AgentAttach ==
  /\ agent.pc = "attach"
  /\ \/ Attaches(agent.bus, "agent") /\ agent' = [agent EXCEPT !.pc = "identify"]
     \/ Fails(Attaches(agent.bus, "agent")) /\ agent' = Accepting
  /\ UNCHANGED <<managed, direct>>

(* The port is looked up in a new snapshot, by the row of that bus id: the *)
(* first match if the server lists the device, else the port itself.  Then *)
(* the client is told that the device is attached.                         *)
AgentIdentify ==
  /\ agent.pc = "identify"
  /\ \/ \E match \in {SameBus(agent.bus), Matching(agent.bus)} :
          /\ match # {}
          /\ managed' = managed \cup {Min(match)}
          /\ vhci' = [p \in Ports |-> IF vhci[p] = Carrying(agent.bus, "agent")
                        THEN Carrying(agent.bus, "reported") ELSE vhci[p]]
     \/ UNCHANGED <<managed, vhci>>
  /\ agent' = Accepting
  /\ UNCHANGED direct

(* Mutant: the port is forgotten even if it could not be detached.         *)
Release_Early(p) ==
  /\ managed' = managed \ {p}
  /\ Fails(Detaches(p))

(* detach_port, and the port is managed no longer; or an error.            *)
Release(p) ==
  \/ Detaches(p) /\ managed' = managed \ {p}
  \/ Fails(Detaches(p)) /\ UNCHANGED managed

AgentDetach ==
  /\ agent.pc = "detach"
  /\ \E p \in agent.todo : Release(p)
  /\ agent' = Accepting
  /\ UNCHANGED direct

AgentShutdown ==
  /\ agent.pc = "accept"
  /\ agent' = [agent EXCEPT !.pc = "shutdown", !.todo = managed]
  /\ UNCHANGED <<vhci, managed, direct>>

(* shutdown goes on with the next port when one fails.                     *)
ShutdownNext ==
  /\ agent.pc = "shutdown" /\ agent.todo # {}
  /\ Release(Min(agent.todo))
  /\ agent' = [agent EXCEPT !.todo = @ \ {Min(agent.todo)}]
  /\ UNCHANGED direct

(* Mutant: the agent stops, whatever it could not detach.                  *)
ShutdownDone_Anyway ==
  /\ agent.pc = "shutdown" /\ agent.todo = {}
  /\ agent' = Gone
  /\ UNCHANGED <<vhci, managed, direct>>

(* Mutant: the agent tries until every port is detached.                   *)
ShutdownDone_Retries ==
  /\ agent.pc = "shutdown" /\ agent.todo = {}
  /\ agent' = IF managed = {} THEN Gone ELSE [agent EXCEPT !.todo = managed]
  /\ UNCHANGED <<vhci, managed, direct>>

(* The agent stops only when it manages nothing any more.                  *)
ShutdownDone ==
  /\ agent.pc = "shutdown" /\ agent.todo = {}
  /\ agent' = IF managed = {} THEN Gone ELSE Accepting
  /\ UNCHANGED <<vhci, managed, direct>>

----------------------------------------------------------------------------
(* The direct session.  Its operations begin with `usbip port`; when that  *)
(* fails, every port the kernel has in use is detached as stale, and       *)
(* `usbip port` is run again (query_attached_ports_resilient).             *)

(* "refresh" is the screen or `lusbip status`, "exit" is Ctrl+C in the     *)
(* foreground client, "attach" is run_attach or the second half of a       *)
(* toggle.                                                                 *)
DirectStart(op, b) ==
  /\ direct = Idle
  /\ direct' = [op |-> op, pc |-> "query", bus |-> b, todo |-> {}]
  /\ UNCHANGED <<vhci, managed, agent>>

(* The port on the command line, or the one a row of the screen names,     *)
(* which may have changed hands since the row was drawn.                   *)
DirectDetach(p) ==
  /\ direct = Idle
  /\ direct' = [Idle EXCEPT !.op = "detach", !.pc = "detach", !.todo = {p}]
  /\ UNCHANGED <<vhci, managed, agent>>

InUse == {p \in Ports : Used(p)}

(* What an operation detaches, by the list it has read.                    *)
Wanted ==
  CASE direct.op = "attach" -> Matching(direct.bus)
    [] direct.op = "exit" -> InUse
    [] OTHER -> {}

DirectQuery ==
  /\ direct.pc = "query"
  /\ \/ direct' = [direct EXCEPT !.pc = "detach", !.todo = Wanted]
     \/ direct' = [direct EXCEPT !.pc = "recover", !.todo = InUse]
  /\ UNCHANGED <<vhci, managed, agent>>

(* An error ends the recovery, and no more than that.                      *)
DirectRecover ==
  /\ direct.pc = "recover" /\ direct.todo # {}
  /\ LET p == Min(direct.todo)
     IN  \/ Detaches(p) /\ direct' = [direct EXCEPT !.todo = @ \ {p}]
         \/ Fails(Detaches(p)) /\ direct' = [direct EXCEPT !.todo = {}]
  /\ UNCHANGED <<managed, agent>>

DirectRecovered ==
  /\ direct.pc = "recover" /\ direct.todo = {}
  /\ \E found \in {Wanted, {}} : direct' = [direct EXCEPT !.pc = "detach", !.todo = found]
  /\ UNCHANGED <<vhci, managed, agent>>

(* The first error ends the operation.                                     *)
DirectNext ==
  /\ direct.pc = "detach" /\ direct.todo # {}
  /\ LET p == Min(direct.todo)
     IN  \/ Detaches(p) /\ direct' = [direct EXCEPT !.todo = @ \ {p}]
         \/ Fails(Detaches(p)) /\ direct' = Idle
  /\ UNCHANGED <<managed, agent>>

DirectEnd ==
  /\ direct.pc = "detach" /\ direct.todo = {}
  /\ Fails(direct.op = "attach" /\ Attaches(direct.bus, "direct"))
  /\ direct' = Idle
  /\ UNCHANGED <<managed, agent>>

----------------------------------------------------------------------------

(* What the agent does by itself once it has read a request.               *)
AgentStep ==
  AgentAttach \/ AgentIdentify \/ AgentDetach \/ ShutdownNext \/ ShutdownDone

DirectStep ==
  \/ (\E b \in Buses : DirectStart("attach", b))
  \/ (\E op \in {"refresh", "exit"} : DirectStart(op, "none"))
  \/ (\E p \in Ports : DirectDetach(p))
  \/ DirectQuery \/ DirectRecover \/ DirectRecovered \/ DirectNext \/ DirectEnd

Next ==
  \/ Drop \/ AgentStart \/ AgentKilled
  \/ (\E b \in Buses : AgentToggle(b)) \/ AgentShutdown \/ AgentStep
  \/ DirectStep

Spec == Init /\ [][Next]_vars

(* Every command the agent runs ends by its deadline of 20 seconds.        *)
FairSpec == Spec /\ WF_vars(AgentStep)

----------------------------------------------------------------------------
(* Properties.                                                             *)

(* The shape of the state: an agent that has gone manages nothing, and one *)
(* that is about to detach a port manages that port.                       *)
TypeOK ==
  /\ vhci \in [Ports -> {Free} \cup
                 [bus : Buses, owner : {"agent", "reported", "direct"}]]
  /\ managed \subseteq Ports
  /\ agent \in [pc : {"gone", "accept", "attach", "identify", "detach", "shutdown"},
                bus : Buses \cup {"none"}, todo : SUBSET Ports]
  /\ agent.pc \in {"attach", "identify"} => agent.bus \in Buses
  /\ agent.todo \subseteq managed
  /\ agent.pc = "gone" => managed = {}
  /\ direct \in [op : {"none", "attach", "detach", "refresh", "exit"},
                 pc : {"idle", "query", "recover", "detach"},
                 bus : Buses \cup {"none"}, todo : SUBSET Ports]
  /\ direct.op = "attach" => direct.bus \in Buses

(* What the agent reported as attached, and nobody else has touched since, *)
(* it manages: the user can detach it again, and a shutdown that succeeds  *)
(* leaves nothing of it behind, whatever the server, the network and other *)
(* sessions do in between (docs/superpowers/specs/                         *)
(* 2026-07-16-background-client-agent-design.md:64-67;                     *)
(* client_agent.rs:333-442).                                               *)
ReportedPortsManaged == \A p \in Ports : vhci[p].owner = "reported" => p \in managed

(* The agent answers every request, however many commands fail, and is     *)
(* ready for the next (design, 105-106; client_agent.rs:222-260).          *)
RequestAnswered == agent.pc \notin {"accept", "gone"} ~> agent.pc \in {"accept", "gone"}

(* The agent detaches only what it attached, "never a port belonging to    *)
(* another endpoint or session" (design, 66-67; client_agent.rs:423-442).  *)
AgentDetachesOwn ==
  [][\A p \in Ports :
       agent.pc \in {"detach", "shutdown"} /\ agent' # agent /\ UNCHANGED direct
         /\ vhci[p].owner = "direct" => vhci'[p] = vhci[p]]_vars
=============================================================================
