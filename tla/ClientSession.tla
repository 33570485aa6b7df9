----------------------------- MODULE ClientSession -----------------------------
(***************************************************************************)
(* The lusbip client processes of one endpoint (host and port) and the two  *)
(* directories in /tmp by which they keep out of each other's way: the      *)
(* session lock of the foreground client (client.rs 289-360) and the        *)
(* runtime directory of the background agent (client_agent.rs 126-256).     *)
(* Either names its owner by a pid file that is written after the directory *)
(* has been made; a directory whose pid is not in /proc is stale, and who   *)
(* finds it removes it.  The kernel gives the pid of a dead process to any  *)
(* other one, and a removal may be denied.  While a directory is acquired a *)
(* step is one system call; a look that changes nothing is one step.        *)
(***************************************************************************)
EXTENDS Naturals, FiniteSets

CONSTANTS
  Procs,       \* pids; every process runs once
  MaxCrashes,  \* bound: processes that die without cleaning up
  None,        \* no such file
  Blank        \* a pid file with nothing in it

ASSUME SessionAssumption ==
  /\ MaxCrashes \in Nat
  /\ None \notin Procs /\ Blank \notin Procs /\ None # Blank

VARIABLES
  at,      \* position of every process in its program
  job,     \* what it was started as
  child,   \* the agent that a starter has spawned
  fs,      \* both directories: made or not, pid file, socket
  dirfd,   \* processes whose directory handle is the directory of that name
  filefd,  \* processes whose open pid file is the file of that name
  doomed,  \* entries that a remove_dir_all has listed
  seen,    \* the pid a process has read and not yet looked up
  alone,   \* history: nobody else used the directory while it was acquired
  hindered \* history: those that a reused pid or a denied removal stopped

vars == <<at, job, child, fs, dirfd, filefd, doomed, seen, alone, hindered>>

Dirs == {"lock", "run"}
Entries == {"pid", "sock"}
NoDir == [made |-> FALSE, pid |-> None, sock |-> None]

Acquiring == {"exists", "make", "open", "write", "undo", "read", "check", "sweep",
              "unlink", "bind"}
Holding == {"own", "serve"}
Dead == {"gone", "refused", "crashed"}

(* The directory a process works on. *)
Target(p) == IF job[p] = "client" THEN "lock" ELSE "run"

(* A child that died is in /proc until its starter, which never waits for   *)
(* it, has ended.                                                           *)
Zombie(p) == at[p] \in Dead /\ \E s \in Procs : at[s] = "poll" /\ child[s] = p
Alive(p) == at[p] \notin Dead \cup {"new"} \/ Zombie(p)

(* process_exists looks whether /proc has the pid.  It has that of a live    *)
(* process; that of a dead one may be another one's by now, so that the     *)
(* look may find either.                                                    *)
MayExist(pid) == pid \in Procs
MayBeGone(pid) == ~(pid \in Procs /\ Alive(pid))

(* Who uses directory d: acquires it, holds it or gives it up. *)
Inside(p, d) ==
  /\ job[p] # "starter" /\ Target(p) = d
  /\ at[p] \in Acquiring \cup Holding \cup {"dropdir"} \/ Zombie(p)

(* p begins to acquire d: p has met everyone inside, and they have met p.   *)
Meet(p, d) ==
  alone' = [q \in Procs |->
              IF q = p THEN \A r \in Procs \ {p} : ~Inside(r, d)
              ELSE alone[q] /\ ~(Inside(q, d) /\ at[q] \in Acquiring)]

Go(p, where) == at' = [at EXCEPT ![p] = where]

Init ==
  /\ at = [p \in Procs |-> "new"]
  /\ job = [p \in Procs |-> "none"]
  /\ child = [p \in Procs |-> None]
  /\ fs = [d \in Dirs |-> NoDir]
  /\ dirfd = [d \in Dirs |-> {}]
  /\ filefd = [d \in Dirs |-> {}]
  /\ doomed = [p \in Procs |-> {}]
  /\ seen = [p \in Procs |-> None]
  /\ alone = [p \in Procs |-> FALSE]
  /\ hindered = {}

-----------------------------------------------------------------------------
(* Starting: app_tui::run, of which an agent (--agent-child) is one case.   *)

Start(p) ==
  /\ at[p] = "new"
  /\ \/ /\ \E what \in {"client", "starter"} : job' = [job EXCEPT ![p] = what]
        /\ Go(p, "look")
        /\ UNCHANGED alone
     \/ /\ job' = [job EXCEPT ![p] = "agent"]
        /\ Go(p, "exists")
        /\ Meet(p, "run")
  /\ UNCHANGED <<child, fs, dirfd, filefd, doomed, seen, hindered>>

(* lusbip client: the controller of a live agent, else the foreground       *)
(* client, which acquires the session lock.                                 *)
LookClient(p) ==
  /\ at[p] = "look" /\ job[p] = "client"
  /\ \/ MayExist(fs["run"].pid) /\ Go(p, "control") /\ UNCHANGED alone
     \/ MayBeGone(fs["run"].pid) /\ Go(p, "make") /\ Meet(p, "lock")
  /\ UNCHANGED <<job, child, fs, dirfd, filefd, doomed, seen, hindered>>

(* run_controller_tui looks again before it opens its view. *)
Control(p) ==
  /\ \/ at[p] = "control" /\ MayExist(fs["run"].pid) /\ Go(p, "view")
     \/ at[p] = "control" /\ MayBeGone(fs["run"].pid) /\ Go(p, "refused")
     \/ at[p] = "view" /\ Go(p, "gone")
  /\ UNCHANGED <<job, child, fs, dirfd, filefd, doomed, seen, alone, hindered>>

(* lusbip client --background: spawn_background_agent; the spawn may fail. *)
LookStarter(p) ==
  /\ at[p] = "look" /\ job[p] = "starter"
  /\ \/ /\ MayExist(fs["run"].pid)
        /\ Go(p, "gone")
        /\ UNCHANGED <<job, child, alone>>
     \/ /\ MayBeGone(fs["run"].pid)
        /\ Go(p, "refused")
        /\ UNCHANGED <<job, child, alone>>
     \/ /\ MayBeGone(fs["run"].pid)
        /\ \E c \in Procs \ {p} :
             /\ at[c] = "new"
             /\ job' = [job EXCEPT ![c] = "agent"]
             /\ child' = [child EXCEPT ![p] = c]
             /\ at' = [at EXCEPT ![p] = "poll", ![c] = "exists"]
             /\ Meet(c, "run")
  /\ UNCHANGED <<fs, dirfd, filefd, doomed, seen, hindered>>

(* It polls for a live pid and a socket, and gives up after half a second.  *)
Poll(p) ==
  /\ at[p] = "poll"
  /\ \/ MayExist(fs["run"].pid) /\ fs["run"].sock # None /\ Go(p, "gone")
     \/ Go(p, "refused")
  /\ child' = [child EXCEPT ![p] = None]
  /\ UNCHANGED <<job, fs, dirfd, filefd, doomed, seen, alone, hindered>>

-----------------------------------------------------------------------------
(* Acquiring: ClientSessionLock::acquire and prepare_runtime_dir.           *)

(* A plausible bug: create_dir_all is thought to find out. *)
Exists_Unchecked(p) ==
  /\ at[p] = "exists"
  /\ Go(p, "make")
  /\ UNCHANGED <<job, child, fs, dirfd, filefd, doomed, seen, alone, hindered>>

(* prepare_runtime_dir: runtime_dir.exists() *)
Exists(p) ==
  /\ at[p] = "exists"
  /\ Go(p, IF fs["run"].made THEN "read" ELSE "make")
  /\ UNCHANGED <<job, child, fs, dirfd, filefd, doomed, seen, alone, hindered>>

(* create_dir finds an existing lock; create_dir_all does not mind one. *)
MakeDir(p) ==
  LET d == Target(p) IN
  /\ at[p] = "make"
  /\ IF job[p] = "client" /\ fs[d].made
     THEN Go(p, "read")
     ELSE Go(p, "open")
  /\ fs' = [fs EXCEPT ![d].made = TRUE]
  /\ UNCHANGED <<job, child, dirfd, filefd, doomed, seen, alone, hindered>>

(* A plausible bug: the file is written although the directory has gone. *)
OpenPid_Anywhere(p) ==
  LET d == Target(p) IN
  /\ at[p] = "open"
  /\ fs' = [fs EXCEPT ![d].pid = Blank]
  /\ filefd' = [filefd EXCEPT ![d] = @ \cup {p}]
  /\ Go(p, "write")
  /\ UNCHANGED <<job, child, dirfd, doomed, seen, alone, hindered>>

(* fs::write, first half: the file is made or truncated in whatever         *)
(* directory has the name now.  Without one the client tries to remove its  *)
(* directory again and the agent just fails.                                *)
OpenPid(p) ==
  LET d == Target(p) IN
  /\ at[p] = "open"
  /\ \/ /\ fs[d].made
        /\ fs' = [fs EXCEPT ![d].pid = Blank]
        /\ filefd' = [filefd EXCEPT ![d] = @ \cup {p}]
        /\ Go(p, "write")
     \/ /\ ~fs[d].made
        /\ Go(p, IF job[p] = "client" THEN "undo" ELSE "refused")
        /\ UNCHANGED <<fs, filefd>>
  /\ UNCHANGED <<job, child, dirfd, doomed, seen, alone, hindered>>

(* fs::write, second half: the content reaches the file that was opened,    *)
(* which may have no name any more.  Of two writers the last one stays.     *)
WritePid(p) ==
  LET d == Target(p) IN
  /\ at[p] = "write"
  /\ fs' = [fs EXCEPT ![d].pid = IF p \in filefd[d] THEN p ELSE @]
  /\ filefd' = [filefd EXCEPT ![d] = @ \ {p}]
  /\ Go(p, IF job[p] = "client" THEN "own" ELSE "bind")
  /\ UNCHANGED <<job, child, dirfd, doomed, seen, alone, hindered>>

(* The lock's directory after a failed write: remove_dir, then the error.   *)
Undo(p) ==
  /\ at[p] = "undo"
  /\ fs' = [fs EXCEPT !["lock"] = IF @.pid = None THEN NoDir ELSE @]
  /\ dirfd' = [dirfd EXCEPT !["lock"] = IF fs["lock"].pid = None THEN {} ELSE @]
  /\ Go(p, "refused")
  /\ UNCHANGED <<job, child, filefd, doomed, seen, alone, hindered>>

(* The pid file of an existing directory is read ... *)
ReadPid(p) ==
  LET pid == fs[Target(p)].pid IN
  /\ at[p] = "read"
  /\ \/ pid \in Procs /\ seen' = [seen EXCEPT ![p] = pid] /\ Go(p, "check")
     \/ pid \notin Procs /\ Go(p, "sweep") /\ UNCHANGED seen
  /\ UNCHANGED <<job, child, fs, dirfd, filefd, doomed, alone, hindered>>

(* A plausible bug: whatever exists is taken for stale. *)
CheckPid_Stale(p) ==
  /\ at[p] = "check"
  /\ seen' = [seen EXCEPT ![p] = None]
  /\ Go(p, "sweep")
  /\ UNCHANGED <<job, child, fs, dirfd, filefd, doomed, alone, hindered>>

(* A plausible bug: p tries again until the owner has gone. *)
CheckPid_Waits(p) ==
  /\ at[p] = "check"
  /\ seen' = [seen EXCEPT ![p] = None]
  /\ \/ MayExist(seen[p]) /\ Go(p, "read")
     \/ MayBeGone(seen[p]) /\ Go(p, "sweep")
  /\ UNCHANGED <<job, child, fs, dirfd, filefd, doomed, alone, hindered>>

(* ... and then looked up in /proc: its owner, or whoever has that pid now,  *)
(* refuses p.                                                               *)
CheckPid(p) ==
  /\ at[p] = "check"
  /\ seen' = [seen EXCEPT ![p] = None]
  /\ \/ /\ MayExist(seen[p])
        /\ hindered' = IF Alive(seen[p]) THEN hindered ELSE hindered \cup {p}
        /\ Go(p, "refused")
     \/ /\ MayBeGone(seen[p])
        /\ Go(p, "sweep")
        /\ UNCHANGED hindered
  /\ UNCHANGED <<job, child, fs, dirfd, filefd, doomed, alone>>

(* UnixListener::bind; a failure leaves the runtime directory as it is. *)
Bind(p) ==
  /\ at[p] = "bind"
  /\ \/ /\ fs["run"].made /\ fs["run"].sock = None
        /\ fs' = [fs EXCEPT !["run"].sock = p]
        /\ Go(p, "serve")
     \/ /\ ~fs["run"].made \/ fs["run"].sock # None
        /\ Go(p, "refused")
        /\ UNCHANGED fs
  /\ UNCHANGED <<job, child, dirfd, filefd, doomed, seen, alone, hindered>>

-----------------------------------------------------------------------------
(* Removing: remove_dir_all of a stale directory, or of its own by an agent *)
(* that stops (remove_runtime_dir, which ignores every error).              *)

Failed(p) == IF job[p] = "stopping" THEN "gone" ELSE "refused"
Removed(p) == IF job[p] = "stopping" THEN "gone" ELSE "make"

(* A plausible bug: remove_dir, which does not look at the entries. *)
Sweep_Shallow(p) ==
  LET d == Target(p) IN
  /\ at[p] = "sweep"
  /\ \/ /\ fs[d].made
        /\ dirfd' = [dirfd EXCEPT ![d] = @ \cup {p}]
        /\ Go(p, "unlink")
        /\ UNCHANGED doomed
     \/ /\ ~fs[d].made
        /\ Go(p, Failed(p))
        /\ UNCHANGED <<dirfd, doomed>>
  /\ UNCHANGED <<job, child, fs, filefd, seen, alone, hindered>>

(* The directory is opened and its entries are listed. *)
Sweep(p) ==
  LET d == Target(p) IN
  /\ at[p] = "sweep"
  /\ \/ /\ fs[d].made
        /\ dirfd' = [dirfd EXCEPT ![d] = @ \cup {p}]
        /\ doomed' = [doomed EXCEPT ![p] = {e \in Entries : fs[d][e] # None}]
        /\ Go(p, "unlink")
     \/ /\ ~fs[d].made
        /\ Go(p, Failed(p))
        /\ UNCHANGED <<dirfd, doomed>>
  /\ UNCHANGED <<job, child, fs, filefd, seen, alone, hindered>>

(* One listed entry goes, if the opened directory is still the one of that  *)
(* name; one that has gone already is no error.                             *)
Unlink(p) ==
  LET d == Target(p) IN
  /\ at[p] = "unlink"
  /\ \E e \in doomed[p] :
       /\ doomed' = [doomed EXCEPT ![p] = @ \ {e}]
       /\ IF p \in dirfd[d]
          THEN /\ fs' = [fs EXCEPT ![d][e] = None]
               /\ filefd' = [filefd EXCEPT ![d] = IF e = "pid" THEN {} ELSE @]
          ELSE UNCHANGED <<fs, filefd>>
  /\ UNCHANGED <<at, job, child, dirfd, seen, alone, hindered>>

(* Last the directory of that name goes, whoever made it, unless something  *)
(* is in it.  If it has gone already, that is no error either.              *)
RemoveDir(p) ==
  LET d == Target(p)
      busy == \E e \in Entries : fs[d][e] # None IN
  /\ at[p] = "unlink" /\ doomed[p] = {}
  /\ fs' = [fs EXCEPT ![d] = IF busy THEN @ ELSE NoDir]
  /\ dirfd' = [dirfd EXCEPT ![d] = IF busy THEN @ \ {p} ELSE {}]
  /\ Go(p, IF busy THEN Failed(p) ELSE Removed(p))
  /\ UNCHANGED <<job, child, filefd, doomed, seen, alone, hindered>>

(* Any of these calls may be denied, as in another user's directory.        *)
Denied(p) ==
  /\ at[p] \in {"sweep", "unlink"}
  /\ Go(p, Failed(p))
  /\ hindered' = hindered \cup {p}
  /\ dirfd' = [d \in Dirs |-> dirfd[d] \ {p}]
  /\ doomed' = [doomed EXCEPT ![p] = {}]
  /\ UNCHANGED <<job, child, fs, filefd, seen, alone>>

-----------------------------------------------------------------------------
(* Ending. *)

(* SHUTDOWN, or an error of the listener. *)
Stop(p) ==
  /\ at[p] = "serve"
  /\ job' = [job EXCEPT ![p] = "stopping"]
  /\ Go(p, "sweep")
  /\ UNCHANGED <<child, fs, dirfd, filefd, doomed, seen, alone, hindered>>

(* A plausible bug: the pid file stays. *)
DropPid_Kept(p) ==
  /\ at[p] = "own"
  /\ Go(p, "dropdir")
  /\ UNCHANGED <<job, child, fs, dirfd, filefd, doomed, seen, alone, hindered>>

(* Drop for ClientSessionLock: remove_file ... *)
DropPid(p) ==
  /\ at[p] = "own"
  /\ fs' = [fs EXCEPT !["lock"].pid = None]
  /\ filefd' = [filefd EXCEPT !["lock"] = {}]
  /\ Go(p, "dropdir")
  /\ UNCHANGED <<job, child, dirfd, doomed, seen, alone, hindered>>

(* ... and remove_dir; neither error is looked at. *)
DropDir(p) ==
  /\ at[p] = "dropdir"
  /\ IF fs["lock"].pid = None
     THEN /\ fs' = [fs EXCEPT !["lock"] = NoDir]
          /\ dirfd' = [dirfd EXCEPT !["lock"] = {}]
     ELSE UNCHANGED <<fs, dirfd>>
  /\ Go(p, "gone")
  /\ UNCHANGED <<job, child, filefd, doomed, seen, alone, hindered>>

(* The process dies anywhere; the kernel closes its files. *)
Crash(p) ==
  /\ at[p] \notin Dead \cup {"new"}
  /\ Cardinality({q \in Procs : at[q] = "crashed"}) < MaxCrashes
  /\ Go(p, "crashed")
  /\ dirfd' = [d \in Dirs |-> dirfd[d] \ {p}]
  /\ filefd' = [d \in Dirs |-> filefd[d] \ {p}]
  /\ doomed' = [doomed EXCEPT ![p] = {}]
  /\ seen' = [seen EXCEPT ![p] = None]
  /\ UNCHANGED <<job, child, fs, alone, hindered>>

Step(p) ==
  \/ LookClient(p) \/ Control(p) \/ LookStarter(p) \/ Poll(p)
  \/ Exists(p) \/ MakeDir(p) \/ OpenPid(p) \/ WritePid(p) \/ Undo(p)
  \/ ReadPid(p) \/ CheckPid(p) \/ Bind(p) \/ Sweep(p) \/ Unlink(p) \/ RemoveDir(p)
  \/ Denied(p) \/ DropDir(p)

Next == \E p \in Procs : Start(p) \/ Step(p) \/ Stop(p) \/ DropPid(p) \/ Crash(p)

Spec == Init /\ [][Next]_vars

(* The operating system runs every process; nobody has to start one, to     *)
(* stop it or to kill it.                                                   *)
FairSpec == Spec /\ \A p \in Procs : WF_vars(Step(p))

-----------------------------------------------------------------------------
(* Properties. *)

(* Both directories and every process keep their shape.  A directory that   *)
(* does not exist holds nothing, and an open file that still has its name   *)
(* is in a directory that has its own.                                      *)
TypeOK ==
  /\ at \in [Procs -> Acquiring \cup Holding \cup Dead \cup
                        {"new", "look", "control", "view", "poll", "dropdir"}]
  /\ job \in [Procs -> {"none", "client", "starter", "agent", "stopping"}]
  /\ child \in [Procs -> Procs \cup {None}]
  /\ fs \in [Dirs -> [made : BOOLEAN, pid : Procs \cup {None, Blank},
                      sock : Procs \cup {None}]]
  /\ dirfd \in [Dirs -> SUBSET Procs]
  /\ filefd \in [Dirs -> SUBSET Procs]
  /\ doomed \in [Procs -> SUBSET Entries]
  /\ seen \in [Procs -> Procs \cup {None}]
  /\ alone \in [Procs -> BOOLEAN]
  /\ hindered \subseteq Procs
  /\ \A d \in Dirs :
       /\ ~fs[d].made => fs[d] = NoDir /\ dirfd[d] = {}
       /\ filefd[d] # {} => fs[d].pid # None

(* One session per endpoint: an owner of the lock, or an agent, that met    *)
(* nobody while it acquired its directory has no second one beside it for   *)
(* as long as it holds it, whoever starts, sweeps or dies meanwhile.        *)
SoleHolder ==
  \A p, q \in Procs :
    p # q /\ at[p] \in Holding /\ alone[p] /\ Target(q) = Target(p)
      => at[q] \notin Holding

(* A process that met nobody on its way is turned away only because the pid *)
(* that a crash has left is another process's by now, or because it is       *)
(* denied the removal: with a pid file or without, empty or half removed,   *)
(* at whatever point their owner died, leavings do nothing else to it.      *)
RefusedForSomeone ==
  \A p \in Procs :
    at[p] = "refused" /\ job[p] \in {"client", "agent"} => ~alone[p] \/ p \in hindered

(* Sessions that end as they should leave no lock behind, whatever their    *)
(* processes did to each other's directory on the way, half a removal that  *)
(* was denied included.                                                     *)
NoLockLeft ==
  (\A p \in Procs : job[p] = "client" =>
     at[p] \in {"look", "control", "view", "gone", "refused"})
    => ~fs["lock"].made

(* A client that looks while an agent serves that met nobody at its start   *)
(* becomes the controller of that agent, never a foreground client beside   *)
(* it.                                                                      *)
AgentFound ==
  [][\A p \in Procs : at[p] = "look" /\ at'[p] = "make"
       => ~ \E a \in Procs : at[a] = "serve" /\ alone[a]]_vars

(* Every start comes to an end: the recursion of acquire, which removes     *)
(* what it takes for stale and begins again, does not go on for ever.       *)
StartEnds ==
  \A p \in Procs :
    at[p] \in {"look", "exists"} ~> at[p] \in Holding \cup Dead \cup {"view"}

=============================================================================
