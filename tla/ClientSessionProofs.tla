------------------------- MODULE ClientSessionProofs -------------------------
(***************************************************************************)
(* Proofs about ClientSession, for every number of processes and crashes:  *)
(* who met nobody while it acquired its directory holds it alone, is       *)
(* turned away only by a reused pid or a denied removal, is found by the   *)
(* clients that look for it, and no lock outlives the sessions.            *)
(***************************************************************************)
EXTENDS ClientSession, TLAPS

USE DEF Go, Acquiring, Holding, Dead, Dirs, Entries

Files == [Dirs -> [made : BOOLEAN, pid : Procs \cup {None, Blank}, sock : Procs \cup {None}]]

(* Nothing runs and neither directory exists at first.                     *)
LEMMA InitTypeOK == Init => TypeOK
  BY SessionAssumption DEF Init, TypeOK, NoDir

(***************************************************************************)
(* What the steps that write do to the two directories.                    *)
(***************************************************************************)

(* The directory a process works on is one of the two.                     *)
LEMMA TargetDir == \A p : Target(p) \in Dirs
  BY DEF Target

(* MakeDir: the directory exists, with what it held.                       *)
LEMMA MakeDirEffect ==
  ASSUME TypeOK, NEW p \in Procs, MakeDir(p)
  PROVE  /\ fs' \in Files
         /\ fs'[Target(p)].made
         /\ fs'[Target(p)].pid = fs[Target(p)].pid
         /\ fs'[Target(p)].sock = fs[Target(p)].sock
         /\ \A d \in Dirs \ {Target(p)} : fs'[d] = fs[d]
  <1>1. fs' = [fs EXCEPT ![Target(p)].made = TRUE]
    BY DEF MakeDir
  <1>2. fs \in Files
    BY DEF TypeOK, Files
  <1> QED BY <1>1, <1>2, TargetDir DEF Files

(* OpenPid where there is a directory: an empty pid file.                  *)
LEMMA OpenPidEffect ==
  ASSUME TypeOK, NEW p \in Procs, OpenPid(p), fs[Target(p)].made
  PROVE  /\ fs' \in Files
         /\ fs'[Target(p)].made
         /\ fs'[Target(p)].pid = Blank
         /\ fs'[Target(p)].sock = fs[Target(p)].sock
         /\ \A d \in Dirs \ {Target(p)} : fs'[d] = fs[d]
  <1>1. fs' = [fs EXCEPT ![Target(p)].pid = Blank]
    BY DEF OpenPid
  <1>2. fs \in Files
    BY DEF TypeOK, Files
  <1> QED BY <1>1, <1>2, TargetDir DEF Files

(* WritePid: the own pid, if the opened file still has its name.           *)
LEMMA WritePidEffect ==
  ASSUME TypeOK, NEW p \in Procs, WritePid(p)
  PROVE  /\ fs' \in Files
         /\ fs'[Target(p)].made = fs[Target(p)].made
         /\ fs'[Target(p)].pid = IF p \in filefd[Target(p)] THEN p ELSE fs[Target(p)].pid
         /\ fs'[Target(p)].sock = fs[Target(p)].sock
         /\ \A d \in Dirs \ {Target(p)} : fs'[d] = fs[d]
  <1>1. fs' = [fs EXCEPT ![Target(p)].pid = IF p \in filefd[Target(p)] THEN p ELSE @]
    BY DEF WritePid
  <1>2. fs \in Files
    BY DEF TypeOK, Files
  <1> QED BY <1>1, <1>2, TargetDir DEF Files

(* Unlink: one of the listed entries is gone, or none.                     *)
LEMMA UnlinkEffect ==
  ASSUME TypeOK, NEW p \in Procs, Unlink(p)
  PROVE  \E e \in doomed[p] :
           /\ doomed' = [doomed EXCEPT ![p] = @ \ {e}]
           /\ fs' \in Files
           /\ fs'[Target(p)].made = fs[Target(p)].made
           /\ p \in dirfd[Target(p)] => fs'[Target(p)][e] = None
           /\ \A x \in Entries :
                fs'[Target(p)][x] \in {fs[Target(p)][x], None}
           /\ \A d \in Dirs \ {Target(p)} : fs'[d] = fs[d]
           /\ \/ filefd' = filefd /\ fs'[Target(p)].pid = fs[Target(p)].pid
              \/ filefd' = [filefd EXCEPT ![Target(p)] = {}]
  <1>2. fs \in Files /\ filefd \in [Dirs -> SUBSET Procs] /\ doomed[p] \subseteq Entries
    BY DEF TypeOK, Files
  <1>3. PICK e \in doomed[p] :
          /\ doomed' = [doomed EXCEPT ![p] = @ \ {e}]
          /\ IF p \in dirfd[Target(p)]
             THEN /\ fs' = [fs EXCEPT ![Target(p)][e] = None]
                  /\ filefd' = [filefd EXCEPT ![Target(p)] = IF e = "pid" THEN {} ELSE @]
             ELSE fs' = fs /\ filefd' = filefd
    BY DEF Unlink
  <1>4. CASE p \notin dirfd[Target(p)]
    BY <1>2, <1>3, <1>4, TargetDir DEF Files
  <1>5. CASE p \in dirfd[Target(p)] /\ e = "pid"
    <2>1. fs' = [fs EXCEPT ![Target(p)].pid = None]
      BY <1>3, <1>5
    <2>2. filefd' = [filefd EXCEPT ![Target(p)] = {}]
      BY <1>3, <1>5
    <2>3. /\ fs' \in Files
          /\ fs'[Target(p)].made = fs[Target(p)].made
          /\ fs'[Target(p)].pid = None
          /\ fs'[Target(p)].sock = fs[Target(p)].sock
          /\ \A d \in Dirs \ {Target(p)} : fs'[d] = fs[d]
      BY <1>2, <2>1, TargetDir DEF Files
    <2> QED BY <1>3, <1>5, <2>2, <2>3
  <1>6. CASE p \in dirfd[Target(p)] /\ e = "sock"
    <2>1. fs' = [fs EXCEPT ![Target(p)].sock = None]
      BY <1>3, <1>6
    <2>2. filefd' = filefd
      BY <1>2, <1>3, <1>6, TargetDir
    <2>3. /\ fs' \in Files
          /\ fs'[Target(p)].made = fs[Target(p)].made
          /\ fs'[Target(p)].pid = fs[Target(p)].pid
          /\ fs'[Target(p)].sock = None
          /\ \A d \in Dirs \ {Target(p)} : fs'[d] = fs[d]
      BY <1>2, <2>1, TargetDir DEF Files
    <2> QED BY <1>3, <1>6, <2>2, <2>3
  <1> QED BY <1>2, <1>4, <1>5, <1>6

(* RemoveDir: nothing happens to a directory in use, an empty one is gone. *)
LEMMA RemoveDirEffect ==
  ASSUME TypeOK, NEW p \in Procs, RemoveDir(p)
  PROVE  /\ fs' \in Files
         /\ \/ /\ fs[Target(p)].pid # None \/ fs[Target(p)].sock # None
               /\ fs' = fs
               /\ dirfd' = [dirfd EXCEPT ![Target(p)] = @ \ {p}]
               /\ at' = [at EXCEPT ![p] = Failed(p)]
            \/ /\ fs[Target(p)].pid = None /\ fs[Target(p)].sock = None
               /\ fs' = [fs EXCEPT ![Target(p)] = NoDir]
               /\ dirfd' = [dirfd EXCEPT ![Target(p)] = {}]
               /\ at' = [at EXCEPT ![p] = Removed(p)]
         /\ \A d \in Dirs \ {Target(p)} : fs'[d] = fs[d]
  <1>2. fs \in Files /\ dirfd \in [Dirs -> SUBSET Procs]
    BY DEF TypeOK, Files
  <1>3. NoDir \in [made : BOOLEAN, pid : Procs \cup {None, Blank}, sock : Procs \cup {None}]
    BY DEF NoDir
  <1>4. CASE \E e \in Entries : fs[Target(p)][e] # None
    <2>1. fs' = [fs EXCEPT ![Target(p)] = @]
      BY <1>4 DEF RemoveDir
    <2>2. dirfd' = [dirfd EXCEPT ![Target(p)] = @ \ {p}]
      BY <1>4 DEF RemoveDir
    <2>3. at' = [at EXCEPT ![p] = Failed(p)]
      BY <1>4 DEF RemoveDir
    <2>4. fs' = fs
      BY <1>2, <2>1, TargetDir DEF Files
    <2> QED BY <1>2, <1>4, <2>2, <2>3, <2>4
  <1>5. CASE ~ \E e \in Entries : fs[Target(p)][e] # None
    <2>1. fs' = [fs EXCEPT ![Target(p)] = NoDir]
      BY <1>5 DEF RemoveDir
    <2>2. dirfd' = [dirfd EXCEPT ![Target(p)] = {}]
      BY <1>5 DEF RemoveDir
    <2>3. at' = [at EXCEPT ![p] = Removed(p)]
      BY <1>5 DEF RemoveDir
    <2>4. fs[Target(p)].pid = None /\ fs[Target(p)].sock = None
      BY <1>2, <1>5, TargetDir DEF Files
    <2>5. fs' \in Files /\ \A d \in Dirs \ {Target(p)} : fs'[d] = fs[d]
      BY <1>2, <1>3, <2>1, TargetDir DEF Files
    <2> QED BY <2>1, <2>2, <2>3, <2>4, <2>5
  <1> QED BY <1>4, <1>5

(* Undo and DropDir: an empty lock is gone.                                *)
LEMMA DropDirEffect ==
  ASSUME TypeOK, NEW p \in Procs, Undo(p) \/ DropDir(p)
  PROVE  /\ fs' \in Files
         /\ fs'["run"] = fs["run"]
         /\ \/ /\ fs["lock"].pid # None
               /\ fs' = fs /\ dirfd' = dirfd
            \/ /\ fs["lock"].pid = None
               /\ fs' = [fs EXCEPT !["lock"] = NoDir]
               /\ dirfd' = [dirfd EXCEPT !["lock"] = {}]
  <1>1. fs \in Files /\ dirfd \in [Dirs -> SUBSET Procs]
    BY DEF TypeOK, Files
  <1>2. NoDir \in [made : BOOLEAN, pid : Procs \cup {None, Blank}, sock : Procs \cup {None}]
    BY DEF NoDir
  <1>3. CASE fs["lock"].pid # None
    <2>1. fs' = fs /\ dirfd' = dirfd
      BY <1>1, <1>3 DEF Undo, DropDir, Files
    <2> QED BY <1>1, <1>3, <2>1
  <1>4. CASE fs["lock"].pid = None
    <2>1. fs' = [fs EXCEPT !["lock"] = NoDir]
      BY <1>1, <1>4 DEF Undo, DropDir
    <2>2. dirfd' = [dirfd EXCEPT !["lock"] = {}]
      BY <1>1, <1>4 DEF Undo, DropDir
    <2> QED BY <1>1, <1>2, <1>4, <2>1, <2>2 DEF Files
  <1> QED BY <1>3, <1>4

(* Bind where there is a directory without a socket.                       *)
LEMMA BindEffect ==
  ASSUME TypeOK, NEW p \in Procs, Bind(p)
  PROVE  /\ fs' \in Files
         /\ fs'["lock"] = fs["lock"]
         /\ fs'["run"].made = fs["run"].made
         /\ fs'["run"].pid = fs["run"].pid
         /\ \/ fs["run"].made /\ fs["run"].sock = None /\ at' = [at EXCEPT ![p] = "serve"]
            \/ ~fs["run"].made /\ fs' = fs /\ at' = [at EXCEPT ![p] = "refused"]
            \/ fs["run"].sock # None /\ fs' = fs /\ at' = [at EXCEPT ![p] = "refused"]
  <1>1. fs \in Files
    BY DEF TypeOK, Files
  <1>2. CASE fs["run"].made /\ fs["run"].sock = None
    <2>1. fs' = [fs EXCEPT !["run"].sock = p]
      BY <1>2 DEF Bind
    <2> QED BY <1>1, <1>2, <2>1 DEF Bind, Files
  <1>3. CASE ~fs["run"].made \/ fs["run"].sock # None
    BY <1>1, <1>3 DEF Bind
  <1> QED BY <1>2, <1>3

(* DropPid: the lock has no pid file.                                      *)
LEMMA DropPidEffect ==
  ASSUME TypeOK, NEW p \in Procs, DropPid(p)
  PROVE  /\ fs' \in Files
         /\ fs'["run"] = fs["run"]
         /\ fs'["lock"].made = fs["lock"].made
         /\ fs'["lock"].pid = None
         /\ fs'["lock"].sock = fs["lock"].sock
  <1>1. fs \in Files
    BY DEF TypeOK, Files
  <1>2. fs' = [fs EXCEPT !["lock"].pid = None]
    BY DEF DropPid
  <1> QED BY <1>1, <1>2 DEF Files

(***************************************************************************)
(* Shapes.                                                                 *)
(***************************************************************************)

Shapes ==
  /\ at \in [Procs -> Acquiring \cup Holding \cup Dead \cup
                        {"new", "look", "control", "view", "poll", "dropdir"}]
  /\ job \in [Procs -> {"none", "client", "starter", "agent", "stopping"}]
  /\ child \in [Procs -> Procs \cup {None}]
  /\ dirfd \in [Dirs -> SUBSET Procs]
  /\ filefd \in [Dirs -> SUBSET Procs]
  /\ doomed \in [Procs -> SUBSET Entries]
  /\ seen \in [Procs -> Procs \cup {None}]
  /\ alone \in [Procs -> BOOLEAN]
  /\ hindered \subseteq Procs

Tidy(d) ==
  /\ ~fs[d].made => fs[d].pid = None /\ fs[d].sock = None /\ dirfd[d] = {}
  /\ filefd[d] # {} => fs[d].pid # None

(* A directory that is not there has nothing in it.                        *)
LEMMA NoDirIs ==
  ASSUME NEW f \in [made : BOOLEAN, pid : Procs \cup {None, Blank}, sock : Procs \cup {None}]
  PROVE  f = NoDir <=> ~f.made /\ f.pid = None /\ f.sock = None
  BY DEF NoDir

(* TypeOK in the parts its proof deals with.                               *)
LEMMA TypeParts == TypeOK <=> Shapes /\ fs \in Files /\ \A d \in Dirs : Tidy(d)
  <1>1. ASSUME fs \in Files
        PROVE  \A d \in Dirs : fs[d] = NoDir <=> ~fs[d].made /\ fs[d].pid = None /\ fs[d].sock = None
    BY <1>1, NoDirIs DEF Files
  <1> QED BY <1>1 DEF TypeOK, Shapes, Files, Tidy

(* TypeParts after a step.                                                 *)
LEMMA TypeParts2 == Shapes' /\ fs' \in Files /\ (\A d \in Dirs : Tidy(d)') => TypeOK'
  <1>1. ASSUME fs' \in Files
        PROVE  \A d \in Dirs : fs'[d] = NoDir <=> ~fs'[d].made /\ fs'[d].pid = None /\ fs'[d].sock = None
    BY <1>1, NoDirIs DEF Files
  <1> QED BY <1>1 DEF TypeOK, Shapes, Files, Tidy

(* Who was there when p came is no longer alone, and neither is p.         *)
LEMMA MeetEffect ==
  ASSUME NEW p \in Procs, NEW d \in Dirs, alone \in [Procs -> BOOLEAN], Meet(p, d)
  PROVE  /\ alone' \in [Procs -> BOOLEAN]
         /\ alone'[p] => \A r \in Procs \ {p} : ~Inside(r, d)
         /\ \A q \in Procs \ {p} :
              alone'[q] => alone[q] /\ ~(Inside(q, d) /\ at[q] \in Acquiring)
  <1>1. \A q \in Procs :
          (IF q = p THEN \A r \in Procs \ {p} : ~Inside(r, d)
           ELSE alone[q] /\ ~(Inside(q, d) /\ at[q] \in Acquiring)) \in BOOLEAN
    OBVIOUS
  <1> QED BY <1>1, Zenon DEF Meet

(* Steps that leave the directories as they are.                           *)
LEMMA StillTypeOK ==
  ASSUME TypeOK, NEW p \in Procs,
         \/ Start(p) \/ LookClient(p) \/ Control(p) \/ LookStarter(p) \/ Poll(p)
         \/ Exists(p) \/ ReadPid(p) \/ CheckPid(p) \/ Stop(p)
  PROVE  TypeOK'
  <1>0. Shapes /\ fs \in Files /\ \A d \in Dirs : Tidy(d)
    BY TypeParts
  <1>1. fs' = fs /\ dirfd' = dirfd /\ filefd' = filefd /\ doomed' = doomed
    BY DEF Start, LookClient, Control, LookStarter, Poll, Exists, ReadPid, CheckPid, Stop
  <1>2. \A d \in Dirs : Tidy(d)'
    BY <1>0, <1>1 DEF Tidy
  <1>3. SUFFICES Shapes'
    BY <1>0, <1>1, <1>2, TypeParts2
  <1>4. CASE Start(p)
    BY <1>0, <1>1, <1>4, MeetEffect DEF Start, Shapes
  <1>5. CASE LookClient(p)
    BY <1>0, <1>1, <1>5, MeetEffect DEF LookClient, Shapes
  <1>6. CASE Control(p)
    BY <1>0, <1>1, <1>6 DEF Control, Shapes
  <1>7. CASE LookStarter(p)
    BY <1>0, <1>1, <1>7, MeetEffect DEF LookStarter, Shapes
  <1>8. CASE Poll(p)
    BY <1>0, <1>1, <1>8 DEF Poll, Shapes
  <1>9. CASE Exists(p) \/ Stop(p)
    BY <1>0, <1>1, <1>9 DEF Exists, Stop, Shapes
  <1>10. CASE ReadPid(p)
    BY <1>0, <1>1, <1>10 DEF ReadPid, Shapes
  <1>11. CASE CheckPid(p)
    BY <1>0, <1>1, <1>11 DEF CheckPid, Shapes
  <1> QED BY <1>4, <1>5, <1>6, <1>7, <1>8, <1>9, <1>10, <1>11

(* Steps that change files.                                                *)
LEMMA FileTypeOK ==
  ASSUME TypeOK, NEW p \in Procs,
         \/ MakeDir(p) \/ OpenPid(p) \/ WritePid(p) \/ Undo(p) \/ Bind(p) \/ Sweep(p)
         \/ Unlink(p) \/ RemoveDir(p) \/ Denied(p) \/ DropPid(p) \/ DropDir(p) \/ Crash(p)
  PROVE  TypeOK'
  <1>0. Shapes /\ fs \in Files /\ (\A d \in Dirs : Tidy(d)) /\ Target(p) \in Dirs
    BY TypeParts, TargetDir
  <1>1. CASE MakeDir(p)
    <2>1. Shapes'
      BY <1>0, <1>1 DEF MakeDir, Shapes
    <2>2. dirfd' = dirfd /\ filefd' = filefd
      BY <1>1 DEF MakeDir
    <2> QED BY <1>0, <1>1, <2>1, <2>2, MakeDirEffect, TypeParts2 DEF Tidy
  <1>2. CASE OpenPid(p) /\ ~fs[Target(p)].made
    <2>1. Shapes'
      BY <1>0, <1>2 DEF OpenPid, Shapes
    <2>2. fs' = fs /\ dirfd' = dirfd /\ filefd' = filefd
      BY <1>2 DEF OpenPid
    <2> QED BY <1>0, <2>1, <2>2, TypeParts2 DEF Tidy
  <1>3. CASE OpenPid(p) /\ fs[Target(p)].made
    <2>1. Shapes'
      BY <1>0, <1>3 DEF OpenPid, Shapes
    <2>2. dirfd' = dirfd /\ filefd' = [filefd EXCEPT ![Target(p)] = @ \cup {p}]
      BY <1>3 DEF OpenPid
    <2>3. \A d \in Dirs : Tidy(d)'
      BY <1>0, <1>3, <2>2, OpenPidEffect, SessionAssumption DEF Tidy, Shapes
    <2> QED BY <1>3, <2>1, <2>3, OpenPidEffect, TypeParts2
  <1>4. CASE WritePid(p)
    <2>1. Shapes'
      BY <1>0, <1>4 DEF WritePid, Shapes
    <2>2. dirfd' = dirfd /\ filefd' = [filefd EXCEPT ![Target(p)] = @ \ {p}]
      BY <1>4 DEF WritePid
    <2>3. fs' \in Files /\ fs'[Target(p)] \in [made : BOOLEAN, pid : Procs \cup {None, Blank}, sock : Procs \cup {None}]
      BY <1>0, <1>4, WritePidEffect DEF Files
    <2>4. \A d \in Dirs \ {Target(p)} : Tidy(d)'
      BY <1>0, <1>4, <2>2, WritePidEffect DEF Tidy, Shapes
    <2>5. \A d \in Dirs : d = Target(p) => Tidy(d)'
      BY <1>0, <1>4, <2>2, <2>3, WritePidEffect, SessionAssumption DEF Tidy, Shapes, NoDir, Files
    <2>6. \A d \in Dirs : Tidy(d)'
      BY <2>4, <2>5
    <2> QED BY <2>1, <2>3, <2>6, TypeParts2
  <1>5. CASE Undo(p) \/ DropDir(p)
    <2>1. Shapes'
      BY <1>0, <1>5, DropDirEffect DEF Undo, DropDir, Shapes
    <2>2. filefd' = filefd
      BY <1>5 DEF Undo, DropDir
    <2>3. \A d \in Dirs : Tidy(d)'
      BY <1>0, <1>5, <2>2, DropDirEffect DEF Tidy, Shapes, NoDir, Files
    <2> QED BY <1>5, <2>1, <2>3, DropDirEffect, TypeParts2
  <1>6. CASE Bind(p)
    <2>1. Shapes'
      BY <1>0, <1>6 DEF Bind, Shapes
    <2>2. dirfd' = dirfd /\ filefd' = filefd
      BY <1>6 DEF Bind
    <2>3. \A d \in Dirs : Tidy(d)'
      BY <1>0, <1>6, <2>2, BindEffect DEF Tidy, NoDir, Files
    <2> QED BY <1>6, <2>1, <2>3, BindEffect, TypeParts2
  <1>7. CASE Sweep(p)
    <2>1. Shapes'
      BY <1>0, <1>7 DEF Sweep, Shapes, Failed
    <2>2. fs' = fs /\ filefd' = filefd
      BY <1>7 DEF Sweep
    <2>3. \A d \in Dirs : Tidy(d)'
      BY <1>0, <1>7, <2>2 DEF Sweep, Tidy, Shapes
    <2> QED BY <1>0, <2>1, <2>2, <2>3, TypeParts2
  <1>8. CASE Unlink(p)
    <2>1. PICK e \in doomed[p] :
           /\ doomed' = [doomed EXCEPT ![p] = @ \ {e}]
           /\ fs' \in Files
           /\ fs'[Target(p)].made = fs[Target(p)].made
           /\ p \in dirfd[Target(p)] => fs'[Target(p)][e] = None
           /\ \A x \in Entries :
                fs'[Target(p)][x] \in {fs[Target(p)][x], None}
           /\ \A d \in Dirs \ {Target(p)} : fs'[d] = fs[d]
           /\ \/ filefd' = filefd /\ fs'[Target(p)].pid = fs[Target(p)].pid
              \/ filefd' = [filefd EXCEPT ![Target(p)] = {}]
      BY <1>8, UnlinkEffect
    <2>2. /\ at' = at /\ job' = job /\ child' = child /\ dirfd' = dirfd /\ seen' = seen /\ alone' = alone
          /\ hindered' = hindered
      BY <1>8 DEF Unlink
    <2>3. Shapes'
      BY <1>0, <2>1, <2>2 DEF Shapes
    <2>4. \A d \in Dirs \ {Target(p)} : Tidy(d)'
      BY <1>0, <2>1, <2>2 DEF Tidy, Shapes
    <2>5. \A d \in Dirs : d = Target(p) => Tidy(d)'
      BY <1>0, <2>1, <2>2 DEF Tidy, Shapes, NoDir, Files
    <2>6. \A d \in Dirs : Tidy(d)'
      BY <2>4, <2>5
    <2> QED BY <2>1, <2>3, <2>6, TypeParts2
  <1>9. CASE RemoveDir(p)
    <2>1. /\ job' = job /\ child' = child /\ filefd' = filefd /\ doomed' = doomed /\ seen' = seen
          /\ alone' = alone /\ hindered' = hindered
      BY <1>9 DEF RemoveDir
    <2>2. Shapes'
      BY <1>0, <1>9, <2>1, RemoveDirEffect DEF Shapes, Failed, Removed
    <2>3. \A d \in Dirs : Tidy(d)'
      BY <1>0, <1>9, <2>1, RemoveDirEffect DEF Tidy, Shapes, NoDir, Files
    <2> QED BY <1>9, <2>2, <2>3, RemoveDirEffect, TypeParts2
  <1>10. CASE DropPid(p)
    <2>1. Shapes'
      BY <1>0, <1>10 DEF DropPid, Shapes
    <2>2. dirfd' = dirfd /\ filefd' = [filefd EXCEPT !["lock"] = {}]
      BY <1>10 DEF DropPid
    <2>3. \A d \in Dirs : Tidy(d)'
      BY <1>0, <1>10, <2>2, DropPidEffect DEF Tidy, Shapes, NoDir, Files
    <2> QED BY <1>10, <2>1, <2>3, DropPidEffect, TypeParts2
  <1>11. CASE Crash(p)
    <2>1. fs' = fs /\ dirfd' = [d \in Dirs |-> dirfd[d] \ {p}] /\ filefd' = [d \in Dirs |-> filefd[d] \ {p}]
      BY <1>11 DEF Crash
    <2>2. /\ at' = [at EXCEPT ![p] = "crashed"] /\ job' = job /\ child' = child /\ alone' = alone
          /\ hindered' = hindered
          /\ doomed' = [doomed EXCEPT ![p] = {}] /\ seen' = [seen EXCEPT ![p] = None]
      BY <1>11 DEF Crash
    <2>3. Shapes'
      BY <1>0, <2>1, <2>2 DEF Shapes
    <2>4. \A d \in Dirs : Tidy(d)'
      BY <1>0, <2>1 DEF Tidy, Shapes
    <2> QED BY <1>0, <2>1, <2>3, <2>4, TypeParts2
  <1>12. CASE Denied(p)
    <2>1. fs' = fs /\ filefd' = filefd /\ dirfd' = [d \in Dirs |-> dirfd[d] \ {p}]
      BY <1>12 DEF Denied
    <2>2. Shapes'
      BY <1>0, <1>12 DEF Denied, Failed, Shapes
    <2>3. \A d \in Dirs : Tidy(d)'
      BY <1>0, <2>1 DEF Tidy, Shapes
    <2> QED BY <1>0, <2>1, <2>2, <2>3, TypeParts2
  <1> QED BY <1>1, <1>2, <1>3, <1>4, <1>5, <1>6, <1>7, <1>8, <1>9, <1>10, <1>11, <1>12

Act(p) == Start(p) \/ Step(p) \/ Stop(p) \/ DropPid(p) \/ Crash(p)

(* Every step keeps every shape.                                           *)
LEMMA NextTypeOK == ASSUME TypeOK, NEW p \in Procs, Act(p) PROVE TypeOK'
  BY StillTypeOK, FileTypeOK DEF Act, Step

(***************************************************************************)
(* The inductive invariant.                                                *)
(***************************************************************************)

(* What a process was started as says where it can be; who polls has       *)
(* spawned an agent.                                                       *)
Places ==
  \A p \in Procs :
    /\ job[p] = "none" <=> at[p] = "new"
    /\ job[p] = "client" => at[p] \in {"look", "control", "view", "make", "open", "write",
         "undo", "read", "check", "sweep", "unlink", "own", "dropdir"} \cup Dead
    /\ job[p] = "starter" => at[p] \in {"look", "poll"} \cup Dead
    /\ job[p] = "agent" => at[p] \in {"exists", "make", "open", "write", "bind", "read",
         "check", "sweep", "unlink", "serve"} \cup Dead
    /\ job[p] = "stopping" => at[p] \in {"sweep", "unlink"} \cup Dead
    /\ at[p] = "poll" => child[p] \in Procs /\ job[child[p]] \in {"agent", "stopping"}

(* A handle is open only where it is used, and on the own directory.       *)
Handles ==
  /\ \A d \in Dirs :
       /\ \A p \in dirfd[d] : at[p] = "unlink" /\ Target(p) = d
       /\ \A p \in filefd[d] : at[p] = "write" /\ Target(p) = d
  /\ fs["lock"].sock = None

(* Whose pid can be in the pid file of d, and who has entered d.           *)
Named(r, d) ==
  /\ Target(r) = d
  /\ \/ job[r] = "client" /\ at[r] \in {"own", "crashed"}
     \/ job[r] = "agent" /\ at[r] \in {"bind", "serve"} \cup Dead
     \/ job[r] = "stopping"
Entered(r, d) ==
  /\ Target(r) = d /\ job[r] \in {"client", "agent", "stopping"}
  /\ at[r] \in Acquiring \cup Holding \cup {"dropdir"} \cup Dead

(* A pid file names a process that has written it and not removed it, and  *)
(* who looks a pid up looks for another one that has entered.              *)
Owners ==
  /\ \A d \in Dirs : fs[d].pid \in Procs => Named(fs[d].pid, d)
  /\ \A p \in Procs : at[p] = "check" => seen[p] \in Procs \ {p} /\ Entered(seen[p], Target(p))

(* A lock is there for a client that has made it or found it its own to    *)
(* fill, or has died; and so is a pid file in it.                          *)
LockMade ==
  fs["lock"].made => \E p \in Procs :
    job[p] = "client" /\ at[p] \in {"open", "write", "undo", "own", "dropdir", "crashed"}
PidMade ==
  fs["lock"].pid # None => \E p \in Procs : job[p] = "client" /\ at[p] \in {"write", "own", "crashed"}

(* Who has not begun to acquire has met nobody yet.                        *)
Fresh == \A p \in Procs : at[p] \in {"new", "look", "control", "view", "poll"} => ~alone[p]

(* What a process that is alone knows of its directory at each step.       *)
Local(p, d) ==
  /\ at[p] # "undo"
  /\ at[p] = "make" /\ job[p] = "agent" => ~fs[d].made
  /\ at[p] \in {"open", "write", "bind", "read", "check", "sweep", "unlink"} => fs[d].made
  /\ at[p] = "open" => fs[d].pid = None
  /\ at[p] \in {"open", "write", "bind"} => fs[d].sock = None
  /\ at[p] = "write" => p \in filefd[d]
  /\ at[p] = "bind" => fs[d].pid = p
  /\ at[p] = "unlink" => /\ p \in dirfd[d]
                         /\ fs[d].pid # None => "pid" \in doomed[p]
                         /\ fs[d].sock # None => "sock" \in doomed[p]

(* Who acquires and met nobody has nobody beside it.                       *)
Alone ==
  \A p \in Procs : alone[p] /\ job[p] \in {"client", "agent"} /\ at[p] \in Acquiring =>
    Local(p, Target(p)) /\ \A q \in Procs \ {p} : ~Inside(q, Target(p))

(* Who holds and met nobody has its pid in the directory, and others get   *)
(* no further than to look it up.                                          *)
Beside(q, p) ==
  \/ at[q] \in {"new", "look", "control", "view", "exists", "read"} \cup Dead
  \/ at[q] = "make" /\ job[q] = "client"
  \/ at[q] = "check" /\ seen[q] = p
Reigns ==
  \A p \in Procs : alone[p] /\ at[p] \in Holding =>
    /\ fs[Target(p)].made /\ fs[Target(p)].pid = p
    /\ \A q \in Procs \ {p} : Target(q) = Target(p) /\ job[q] # "starter" => Beside(q, p)

SessionInv ==
  /\ TypeOK /\ Places /\ Handles /\ Owners /\ LockMade /\ PidMade /\ Fresh
  /\ Alone /\ Reigns /\ RefusedForSomeone

(* The invariant holds before any process has started.                     *)
LEMMA InitSessionInv == Init => SessionInv
  <1> SUFFICES ASSUME Init PROVE SessionInv
    OBVIOUS
  <1>1. Places /\ Handles /\ Fresh /\ LockMade /\ PidMade
    BY DEF Init, Places, Handles, Fresh, LockMade, PidMade, NoDir
  <1>2. Owners /\ Alone /\ Reigns /\ RefusedForSomeone
    BY SessionAssumption DEF Init, Owners, Alone, Reigns, RefusedForSomeone, NoDir
  <1> QED BY <1>1, <1>2, InitTypeOK DEF SessionInv

(***************************************************************************)
(* What a step leaves alone.                                               *)
(***************************************************************************)

(* The starter p has spawned the agent q.                                  *)
Spawned(p, q) ==
  /\ at[p] = "look" /\ job[p] = "starter" /\ at[q] = "new"
  /\ at'[q] = "exists" /\ job'[q] = "agent"
  /\ at'[p] = "poll" /\ job'[p] = "starter" /\ child'[p] = q /\ Meet(q, "run")

(* A spawned agent is the only other process that a step moves.            *)
LEMMA OthersStay ==
  ASSUME TypeOK, NEW p \in Procs, Act(p), NEW q \in Procs \ {p}
  PROVE  /\ seen'[q] = seen[q] /\ doomed'[q] = doomed[q] /\ child'[q] = child[q]
         /\ (at'[q] = at[q] /\ job'[q] = job[q]) \/ Spawned(p, q)
  <1>0. Shapes
    BY TypeParts
  <1>1. CASE LookStarter(p)
    BY <1>0, <1>1 DEF LookStarter, Shapes, Spawned
  <1>2. CASE Start(p) \/ LookClient(p) \/ Control(p) \/ Poll(p) \/ Exists(p)
    BY <1>0, <1>2 DEF Start, LookClient, Control, Poll, Exists, Shapes
  <1>3. CASE MakeDir(p) \/ OpenPid(p) \/ WritePid(p) \/ Undo(p) \/ Bind(p)
    BY <1>0, <1>3 DEF MakeDir, OpenPid, WritePid, Undo, Bind, Shapes
  <1>4. CASE ReadPid(p) \/ CheckPid(p) \/ Stop(p) \/ DropPid(p) \/ DropDir(p) \/ Crash(p)
    BY <1>0, <1>4 DEF ReadPid, CheckPid, Stop, DropPid, DropDir, Crash, Shapes
  <1>5. CASE Sweep(p) \/ Unlink(p) \/ RemoveDir(p) \/ Denied(p)
    BY <1>0, <1>5 DEF Sweep, Unlink, RemoveDir, Denied, Shapes
  <1> QED BY <1>1, <1>2, <1>3, <1>4, <1>5 DEF Act, Step

(* Process q begins to acquire d.                                          *)
Arrives(q, d) ==
  /\ at[q] \in {"new", "look"}
  /\ \/ d = "run" /\ at'[q] = "exists" /\ job'[q] = "agent"
     \/ d = "lock" /\ at'[q] = "make" /\ job'[q] = "client"
  /\ Meet(q, d)

(* Nobody starts to be alone but who arrives, and who arrives has met      *)
(* everyone.                                                               *)
LEMMA AloneSteps ==
  ASSUME TypeOK, NEW p \in Procs, Act(p)
  PROVE  \/ alone' = alone /\ (at[p] \in {"new", "look"} => at'[p] \notin Acquiring)
            /\ \A q \in Procs : ~Spawned(p, q)
         \/ \E q \in Procs, d \in Dirs :
              Arrives(q, d) /\ (q = p \/ Spawned(p, q)) /\ \A r \in Procs \ {q} : ~Spawned(p, r)
  <1>0. Shapes
    BY TypeParts
  <1>1. CASE LookStarter(p)
    BY <1>0, <1>1 DEF LookStarter, Shapes, Spawned, Arrives
  <1>2. CASE Start(p)
    BY <1>0, <1>2 DEF Start, Shapes, Spawned, Arrives
  <1>3. CASE LookClient(p)
    BY <1>0, <1>3 DEF LookClient, Shapes, Spawned, Arrives
  <1>4. CASE Control(p) \/ Poll(p) \/ Exists(p)
    BY <1>0, <1>4 DEF Control, Poll, Exists, Shapes, Spawned
  <1>5. CASE MakeDir(p) \/ OpenPid(p) \/ WritePid(p) \/ Undo(p) \/ Bind(p)
    BY <1>0, <1>5 DEF MakeDir, OpenPid, WritePid, Undo, Bind, Shapes, Spawned
  <1>6. CASE ReadPid(p) \/ CheckPid(p) \/ Stop(p) \/ DropPid(p) \/ DropDir(p) \/ Crash(p)
    BY <1>0, <1>6 DEF ReadPid, CheckPid, Stop, DropPid, DropDir, Crash, Shapes, Spawned
  <1>7. CASE Sweep(p) \/ Unlink(p) \/ RemoveDir(p) \/ Denied(p)
    BY <1>0, <1>7 DEF Sweep, Unlink, RemoveDir, Denied, Shapes, Spawned
  <1> QED BY <1>1, <1>2, <1>3, <1>4, <1>5, <1>6, <1>7 DEF Act, Step

(* A process keeps its directory once it has started.                      *)
LEMMA TargetStays ==
  ASSUME TypeOK, Places, NEW p \in Procs, Act(p), NEW q \in Procs, at[q] # "new"
  PROVE  /\ Target(q)' = Target(q)
         /\ \/ job'[q] = job[q]
            \/ job[q] = "agent" /\ job'[q] = "stopping" /\ at[q] = "serve"
  <1>0. Shapes
    BY TypeParts
  <1>1. CASE q # p
    BY <1>1, OthersStay DEF Target, Spawned
  <1>2. CASE q = p /\ (Start(p) \/ Stop(p))
    BY <1>0, <1>2 DEF Start, Stop, Target, Shapes, Places
  <1>3. CASE q = p /\ LookStarter(p)
    BY <1>0, <1>3 DEF LookStarter, Target, Shapes
  <1>4. CASE q = p /\ job' = job
    BY <1>0, <1>4 DEF Target
  <1>5. Start(p) \/ Stop(p) \/ LookStarter(p) \/ job' = job
    BY DEF Act, Step, LookClient, Control, Poll, Exists, MakeDir, OpenPid, WritePid, Undo, Bind,
           ReadPid, CheckPid, DropPid, DropDir, Crash, Sweep, Unlink, RemoveDir, Denied
  <1> QED BY <1>1, <1>2, <1>3, <1>4, <1>5

(* Every step goes where its program goes, and nobody has met others       *)
(* before it acquires.                                                     *)
LEMMA NextPlaces ==
  ASSUME TypeOK, Places, Fresh, NEW p \in Procs, Act(p)
  PROVE  Places' /\ Fresh'
  <1>0. Shapes
    BY TypeParts
  <1>1. \A q \in Procs : alone'[q] => alone[q] \/ at'[q] \in {"exists", "make"}
    BY <1>0, AloneSteps, MeetEffect DEF Arrives, Shapes
  <1>2. Fresh'
    <2> DEFINE early == {"new", "look", "control", "view", "poll"}
    <2>1. ASSUME NEW q \in Procs, at'[q] \in early PROVE at[q] \in early
      <3>1. CASE q # p
        BY <2>1, <3>1, OthersStay DEF Spawned
      <3>2. CASE Start(p) \/ LookClient(p) \/ Control(p) \/ LookStarter(p) \/ Poll(p)
        <4>1. at[p] \in early
          BY <3>2 DEF Start, LookClient, Control, LookStarter, Poll
        <4> QED BY <3>1, <4>1
      <3>3. CASE q = p /\ (Exists(p) \/ MakeDir(p) \/ OpenPid(p) \/ WritePid(p) \/ Undo(p))
        BY <1>0, <2>1, <3>3 DEF Exists, MakeDir, OpenPid, WritePid, Undo, Shapes, Failed
      <3>4. CASE q = p /\ (Bind(p) \/ ReadPid(p) \/ CheckPid(p) \/ Stop(p) \/ DropPid(p))
        BY <1>0, <2>1, <3>4 DEF Bind, ReadPid, CheckPid, Stop, DropPid, Shapes
      <3>5. CASE q = p /\ (DropDir(p) \/ Crash(p) \/ Sweep(p) \/ Unlink(p) \/ RemoveDir(p) \/ Denied(p))
        BY <1>0, <2>1, <3>5
           DEF DropDir, Crash, Sweep, Unlink, RemoveDir, Denied, Shapes, Failed, Removed
      <3> QED BY <3>1, <3>2, <3>3, <3>4, <3>5 DEF Act, Step
    <2> QED BY <1>1, <2>1 DEF Fresh
  <1>3. Places'
    <2> SUFFICES ASSUME NEW q \in Procs
        PROVE  /\ job'[q] = "none" <=> at'[q] = "new"
               /\ job'[q] = "client" => at'[q] \in {"look", "control", "view", "make", "open", "write",
                    "undo", "read", "check", "sweep", "unlink", "own", "dropdir"} \cup Dead
               /\ job'[q] = "starter" => at'[q] \in {"look", "poll"} \cup Dead
               /\ job'[q] = "agent" => at'[q] \in {"exists", "make", "open", "write", "bind", "read",
                    "check", "sweep", "unlink", "serve"} \cup Dead
               /\ job'[q] = "stopping" => at'[q] \in {"sweep", "unlink"} \cup Dead
               /\ at'[q] = "poll" => child'[q] \in Procs /\ job'[child'[q]] \in {"agent", "stopping"}
      BY DEF Places
    <2>1. ASSUME at'[q] = "poll"
          PROVE  child'[q] \in Procs /\ job'[child'[q]] \in {"agent", "stopping"}
      <3>1. CASE at[q] = "poll"
        <4>1. child'[q] = child[q]
          <5>1. q # p \/ ~(at'[p] = "poll" /\ at[p] = "poll")
            BY <1>0 DEF Act, Step, Start, LookClient, Control, LookStarter, Poll, Exists, MakeDir, OpenPid,
              WritePid, Undo, Bind, ReadPid, CheckPid, Stop, DropPid, DropDir, Crash, Sweep, Unlink,
              RemoveDir, Denied, Shapes
          <5> QED BY <2>1, <3>1, <5>1, OthersStay
        <4> QED BY <3>1, <4>1, TargetStays DEF Places
      <3>2. CASE at[q] # "poll"
        <4>1. q = p
          BY <2>1, <3>2, OthersStay DEF Spawned
        <4>2. LookStarter(p)
          BY <1>0, <2>1, <3>2, <4>1 DEF Act, Step, Start, LookClient, Control, Poll, Exists, MakeDir, OpenPid,
              WritePid, Undo, Bind, ReadPid, CheckPid, Stop, DropPid, DropDir, Crash, Sweep, Unlink,
              RemoveDir, Denied, Shapes, Failed, Removed
        <4> QED BY <1>0, <2>1, <3>2, <4>1, <4>2 DEF LookStarter, Shapes
      <3> QED BY <3>1, <3>2
    <2>2. CASE q # p
      BY <2>1, <2>2, OthersStay DEF Places, Spawned
    <2>3. CASE q = p /\ (Start(p) \/ LookClient(p) \/ LookStarter(p) \/ Control(p) \/ Poll(p))
      BY <1>0, <2>1, <2>3 DEF Places, Shapes, Start, LookClient, LookStarter, Control, Poll
    <2>4. CASE q = p /\ (Exists(p) \/ MakeDir(p) \/ OpenPid(p) \/ WritePid(p) \/ Undo(p) \/ Bind(p))
      BY <1>0, <2>1, <2>4 DEF Places, Shapes, Exists, MakeDir, OpenPid, WritePid, Undo, Bind
    <2>5. CASE q = p /\ (ReadPid(p) \/ CheckPid(p) \/ Stop(p) \/ DropPid(p) \/ DropDir(p) \/ Crash(p))
      BY <1>0, <2>1, <2>5 DEF Places, Shapes, ReadPid, CheckPid, Stop, DropPid, DropDir, Crash
    <2>6. CASE q = p /\ (Sweep(p) \/ Unlink(p) \/ RemoveDir(p) \/ Denied(p))
      BY <1>0, <2>1, <2>6 DEF Places, Shapes, Sweep, Unlink, RemoveDir, Denied, Failed, Removed
    <2> QED BY <2>2, <2>3, <2>4, <2>5, <2>6 DEF Act, Step
  <1> QED BY <1>2, <1>3

(* A directory that nobody but others use stays as it is, and so do the    *)
(* handles of the others.                                                  *)
LEMMA FilesStay ==
  ASSUME TypeOK, Places, Handles, NEW p \in Procs, Act(p), NEW d \in Dirs, ~Inside(p, d)
  PROVE  /\ fs'[d] = fs[d]
         /\ \A q \in Procs \ {p} : /\ q \in dirfd'[d] <=> q \in dirfd[d]
                                   /\ q \in filefd'[d] <=> q \in filefd[d]
  <1>0. Shapes /\ Target(p) \in Dirs /\ fs \in Files
    BY TypeParts, TargetDir
  <1>1. at[p] \in Acquiring \cup Holding \cup {"dropdir"} => Target(p) # d
    BY DEF Inside, Places
  <1>2. CASE fs' = fs /\ dirfd' = dirfd /\ filefd' = filefd
    BY <1>2
  <1>3. CASE Crash(p) \/ Denied(p)
    BY <1>0, <1>3 DEF Crash, Denied, Shapes
  <1>4. CASE MakeDir(p) \/ WritePid(p)
    BY <1>0, <1>1, <1>4, MakeDirEffect, WritePidEffect DEF MakeDir, WritePid, Shapes
  <1>5. CASE OpenPid(p)
    BY <1>0, <1>1, <1>5, OpenPidEffect DEF OpenPid, Shapes
  <1>6. CASE Undo(p) \/ DropDir(p)
    <2>1. d = "run"
      BY <1>0, <1>1, <1>6 DEF Undo, DropDir, Places, Shapes, Target
    <2>2. filefd' = filefd
      BY <1>6 DEF Undo, DropDir
    <2> QED BY <1>0, <1>6, <2>1, <2>2, DropDirEffect DEF Shapes
  <1>7. CASE DropPid(p)
    <2>1. d = "run"
      BY <1>0, <1>1, <1>7 DEF DropPid, Places, Shapes, Target
    <2> QED BY <1>0, <1>7, <2>1, DropPidEffect DEF DropPid, Shapes
  <1>8. CASE Bind(p)
    <2>1. d = "lock"
      BY <1>0, <1>1, <1>8 DEF Bind, Places, Shapes, Target
    <2> QED BY <1>0, <1>8, <2>1, BindEffect DEF Bind
  <1>9. CASE Sweep(p)
    BY <1>0, <1>1, <1>9 DEF Sweep, Shapes
  <1>10. CASE Unlink(p)
    <2>1. Target(p) # d /\ dirfd' = dirfd
      BY <1>1, <1>10 DEF Unlink
    <2> QED BY <1>0, <1>10, <2>1, UnlinkEffect DEF Shapes
  <1>11. CASE RemoveDir(p)
    <2>1. Target(p) # d /\ filefd' = filefd
      BY <1>1, <1>11 DEF RemoveDir
    <2> QED BY <1>0, <1>11, <2>1, RemoveDirEffect DEF Shapes
  <1>12. \/ fs' = fs /\ dirfd' = dirfd /\ filefd' = filefd
         \/ Crash(p) \/ MakeDir(p) \/ WritePid(p) \/ OpenPid(p) \/ Undo(p) \/ DropDir(p) \/ DropPid(p)
         \/ Bind(p) \/ Sweep(p) \/ Unlink(p) \/ RemoveDir(p) \/ Denied(p)
    BY DEF Act, Step, Start, LookClient, Control, LookStarter, Poll, Exists, ReadPid, CheckPid, Stop
  <1> QED BY <1>2, <1>3, <1>4, <1>5, <1>6, <1>7, <1>8, <1>9, <1>10, <1>11, <1>12

(* A handle is only ever one's own.                                        *)
LEMMA HandleSteps ==
  ASSUME TypeOK, Handles, NEW p \in Procs, Act(p), NEW d \in Dirs
  PROVE  /\ dirfd'[d] \subseteq dirfd[d] \cup {p}
         /\ filefd'[d] \subseteq filefd[d] \cup {p}
         /\ p \in dirfd'[d] => at'[p] = "unlink" /\ at[p] # "new" /\ Target(p) = d
         /\ p \in filefd'[d] => at'[p] = "write" /\ at[p] # "new" /\ Target(p) = d
  <1>0. Shapes /\ Target(p) \in Dirs
    BY TypeParts, TargetDir
  <1>H. /\ p \in dirfd[d] => at[p] = "unlink" /\ Target(p) = d
        /\ p \in filefd[d] => at[p] = "write" /\ Target(p) = d
    BY DEF Handles
  <1>1. CASE Start(p) \/ LookClient(p) \/ Control(p) \/ LookStarter(p) \/ Poll(p) \/ Exists(p) \/ MakeDir(p)
             \/ ReadPid(p) \/ CheckPid(p) \/ Bind(p) \/ Stop(p)
    BY <1>0, <1>H, <1>1 DEF Start, LookClient, Control, LookStarter, Poll, Exists, MakeDir, ReadPid, CheckPid,
       Bind, Stop, Shapes
  <1>2. CASE OpenPid(p) \/ WritePid(p)
    BY <1>0, <1>H, <1>2 DEF OpenPid, WritePid, Shapes
  <1>3. CASE Undo(p) \/ DropDir(p)
    <2>1. at[p] \in {"undo", "dropdir"} /\ filefd' = filefd
      BY <1>3 DEF Undo, DropDir
    <2> QED BY <1>0, <1>H, <1>3, <2>1, DropDirEffect DEF Shapes
  <1>4. CASE Sweep(p) \/ Denied(p) \/ Crash(p) \/ DropPid(p)
    BY <1>0, <1>H, <1>4 DEF Sweep, Denied, Crash, DropPid, Shapes
  <1>5. CASE Unlink(p)
    <2>1. at[p] = "unlink" /\ at' = at /\ dirfd' = dirfd
      BY <1>5 DEF Unlink
    <2> QED BY <1>0, <1>H, <1>5, <2>1, UnlinkEffect DEF Shapes
  <1>6. CASE RemoveDir(p)
    <2>1. at[p] = "unlink" /\ filefd' = filefd
      BY <1>6 DEF RemoveDir
    <2> QED BY <1>0, <1>H, <1>6, <2>1, RemoveDirEffect DEF Shapes
  <1> QED BY <1>1, <1>2, <1>3, <1>4, <1>5, <1>6 DEF Act, Step

(* Handles are closed with the step that leaves them.                      *)
LEMMA NextHandles ==
  ASSUME TypeOK, Places, Handles, NEW p \in Procs, Act(p)
  PROVE  Handles'
  <1>0. Shapes /\ fs \in Files /\ Target(p) \in Dirs
    BY TypeParts, TargetDir
  <1>1. ASSUME NEW d \in Dirs, NEW q \in dirfd'[d]
        PROVE  at'[q] = "unlink" /\ Target(q)' = d
    <2>1. q \in dirfd[d] \cup {p} /\ q \in Procs
      BY <1>0, <1>1, HandleSteps DEF Shapes
    <2>2. at'[q] = "unlink" /\ at[q] # "new" /\ Target(q) = d
      <3>1. CASE q = p
        BY <1>1, <3>1, HandleSteps
      <3>2. CASE q # p
        BY <2>1, <3>2, OthersStay DEF Handles, Spawned
      <3> QED BY <3>1, <3>2
    <2> QED BY <2>1, <2>2, TargetStays
  <1>2. ASSUME NEW d \in Dirs, NEW q \in filefd'[d]
        PROVE  at'[q] = "write" /\ Target(q)' = d
    <2>1. q \in filefd[d] \cup {p} /\ q \in Procs
      BY <1>0, <1>2, HandleSteps DEF Shapes
    <2>2. at'[q] = "write" /\ at[q] # "new" /\ Target(q) = d
      <3>1. CASE q = p
        BY <1>2, <3>1, HandleSteps
      <3>2. CASE q # p
        BY <2>1, <3>2, OthersStay DEF Handles, Spawned
      <3> QED BY <3>1, <3>2
    <2> QED BY <2>1, <2>2, TargetStays
  <1>3. fs'["lock"].sock = None
    <2>1. fs["lock"].sock = None
      BY DEF Handles
    <2>2. CASE fs' = fs
      BY <2>1, <2>2
    <2>3. CASE MakeDir(p) \/ WritePid(p)
      BY <1>0, <2>1, <2>3, MakeDirEffect, WritePidEffect
    <2>4. CASE OpenPid(p) /\ fs[Target(p)].made
      BY <1>0, <2>1, <2>4, OpenPidEffect
    <2>5. CASE Undo(p) \/ DropDir(p) \/ RemoveDir(p)
      BY <1>0, <2>1, <2>5, DropDirEffect, RemoveDirEffect DEF NoDir, Files
    <2>6. CASE Bind(p) \/ DropPid(p)
      BY <2>1, <2>6, BindEffect, DropPidEffect
    <2>7. CASE Unlink(p)
      BY <1>0, <2>1, <2>7, UnlinkEffect
    <2>8. \/ fs' = fs \/ MakeDir(p) \/ WritePid(p) \/ (OpenPid(p) /\ fs[Target(p)].made) \/ Undo(p)
          \/ DropDir(p) \/ RemoveDir(p) \/ Bind(p) \/ DropPid(p) \/ Unlink(p)
      BY DEF Act, Step, Start, LookClient, Control, LookStarter, Poll, Exists, OpenPid, ReadPid, CheckPid,
         Stop, Sweep, Crash, Denied
    <2> QED BY <2>2, <2>3, <2>4, <2>5, <2>6, <2>7, <2>8
  <1> QED BY <1>1, <1>2, <1>3 DEF Handles

(* Who is inside after a step was inside before it, or arrives.            *)
LEMMA InsideSteps ==
  ASSUME TypeOK, Places, Fresh, NEW p \in Procs, Act(p), NEW q \in Procs, NEW d \in Dirs, Inside(q, d)'
  PROVE  Inside(q, d) \/ Arrives(q, d)
  <1>0. Shapes /\ Places'
    BY TypeParts, NextPlaces
  <1>1. CASE at'[q] \in Acquiring \cup Holding \cup {"dropdir"}
    <2>1. CASE q # p
      BY <1>1, <2>1, OthersStay DEF Inside, Target, Spawned, Arrives
    <2>2. CASE q = p /\ at[p] \in {"new", "look"}
      <3>1. PICK e \in Dirs : Arrives(p, e)
        <4>1. at'[p] \in Acquiring
          BY <1>0, <1>1, <2>2 DEF Act, Step, Start, LookClient, Control, LookStarter, Poll, Exists, MakeDir, OpenPid,
            WritePid, Undo, Bind, ReadPid, CheckPid, Stop, DropPid, DropDir, Crash, Sweep, Unlink,
            RemoveDir, Denied, Shapes
        <4> QED BY <2>2, <4>1, AloneSteps DEF Spawned
      <3>2. e = d
        BY <2>2, <3>1 DEF Arrives, Inside, Target
      <3> QED BY <2>2, <3>1, <3>2
    <2>3. CASE q = p /\ at[p] \in Acquiring \cup Holding \cup {"dropdir"}
      <3>1. job[p] # "starter" /\ at[p] # "new"
        BY <2>3 DEF Places
      <3>2. Target(p)' = Target(p)
        BY <2>3, <3>1, TargetStays
      <3> QED BY <2>3, <3>1, <3>2 DEF Inside
    <2>4. CASE q = p /\ at[p] \in Dead \cup {"control", "view", "poll"}
      BY <1>0, <1>1, <2>4 DEF Act, Step, Start, LookClient, Control, LookStarter, Poll, Exists, MakeDir, OpenPid,
        WritePid, Undo, Bind, ReadPid, CheckPid, Stop, DropPid, DropDir, Crash, Sweep, Unlink,
        RemoveDir, Denied, Shapes
    <2> QED BY <1>0, <2>1, <2>2, <2>3, <2>4 DEF Shapes
  <1>2. CASE at'[q] \in Dead /\ Zombie(q)'
    <2>1. PICK s \in Procs : at'[s] = "poll" /\ child'[s] = q
      BY <1>2 DEF Zombie
    <2>2. at[s] = "poll" /\ child[s] = q
      <3>1. CASE s # p
        BY <2>1, <3>1, OthersStay DEF Spawned
      <3>2. CASE s = p
        <4>1. LookStarter(p)
          BY <1>0, <2>1, <3>2 DEF Act, Step, Start, LookClient, Control, Poll, Exists, MakeDir, OpenPid,
             WritePid, Undo, Bind, ReadPid, CheckPid, Stop, DropPid, DropDir, Crash, Sweep, Unlink,
             RemoveDir, Denied, Shapes, Failed, Removed
        <4>2. at'[q] = "exists"
          BY <1>0, <2>1, <3>2, <4>1 DEF LookStarter, Shapes
        <4> QED BY <1>2, <4>2
      <3> QED BY <3>1, <3>2
    <2>3. job[q] \in {"agent", "stopping"} /\ at[q] # "new"
      BY <2>2 DEF Places
    <2>4. Target(q)' = Target(q)
      BY <2>3, TargetStays
    <2>5. at[q] \in Acquiring \cup Holding \cup Dead
      BY <2>3 DEF Places
    <2>6. Target(q) = d
      BY <2>4 DEF Inside
    <2> QED BY <2>2, <2>3, <2>5, <2>6 DEF Inside, Zombie
  <1> QED BY <1>1, <1>2 DEF Inside, Zombie

(***************************************************************************)
(* The lock and the pid files.                                             *)
(***************************************************************************)

(* A pid file changes its content only by being emptied, removed or        *)
(* written by the process it names.                                        *)
LEMMA PidSteps ==
  ASSUME TypeOK, Places, Handles, NEW p \in Procs, Act(p), NEW d \in Dirs
  PROVE  \/ fs'[d].pid = fs[d].pid
         \/ fs'[d].pid = None
         \/ fs'[d].pid = Blank /\ OpenPid(p) /\ Target(p) = d
         \/ fs'[d].pid = p /\ WritePid(p) /\ Target(p) = d
  <1>0. Shapes /\ fs \in Files /\ Target(p) \in Dirs
    BY TypeParts, TargetDir
  <1>1. CASE fs' = fs
    BY <1>1
  <1>2. CASE MakeDir(p) \/ WritePid(p)
    BY <1>0, <1>2, MakeDirEffect, WritePidEffect
  <1>3. CASE OpenPid(p) /\ fs[Target(p)].made
    BY <1>0, <1>3, OpenPidEffect
  <1>4. CASE Undo(p) \/ DropDir(p) \/ RemoveDir(p)
    BY <1>0, <1>4, DropDirEffect, RemoveDirEffect DEF NoDir, Files
  <1>5. CASE Bind(p) \/ DropPid(p)
    BY <1>5, BindEffect, DropPidEffect
  <1>6. CASE Unlink(p)
    BY <1>0, <1>6, UnlinkEffect
  <1>7. \/ fs' = fs \/ MakeDir(p) \/ WritePid(p) \/ (OpenPid(p) /\ fs[Target(p)].made) \/ Undo(p)
        \/ DropDir(p) \/ RemoveDir(p) \/ Bind(p) \/ DropPid(p) \/ Unlink(p)
    BY DEF Act, Step, Start, LookClient, Control, LookStarter, Poll, Exists, OpenPid, ReadPid, CheckPid,
       Stop, Sweep, Crash, Denied
  <1> QED BY <1>1, <1>2, <1>3, <1>4, <1>5, <1>6, <1>7

(* A lock that is there was there before, or a client has just made it.    *)
LEMMA MadeSteps ==
  ASSUME TypeOK, Places, NEW p \in Procs, Act(p), NEW d \in Dirs, fs'[d].made
  PROVE  fs[d].made \/ (MakeDir(p) /\ Target(p) = d)
  <1>0. Shapes /\ fs \in Files /\ Target(p) \in Dirs
    BY TypeParts, TargetDir
  <1>1. CASE fs' = fs
    BY <1>1
  <1>2. CASE MakeDir(p) \/ WritePid(p)
    BY <1>0, <1>2, MakeDirEffect, WritePidEffect
  <1>3. CASE OpenPid(p) /\ fs[Target(p)].made
    BY <1>0, <1>3, OpenPidEffect
  <1>4. CASE Undo(p) \/ DropDir(p) \/ RemoveDir(p)
    BY <1>0, <1>4, DropDirEffect, RemoveDirEffect DEF NoDir, Files
  <1>5. CASE Bind(p) \/ DropPid(p)
    BY <1>5, BindEffect, DropPidEffect
  <1>6. CASE Unlink(p)
    BY <1>0, <1>6, UnlinkEffect
  <1>7. \/ fs' = fs \/ MakeDir(p) \/ WritePid(p) \/ (OpenPid(p) /\ fs[Target(p)].made) \/ Undo(p)
        \/ DropDir(p) \/ RemoveDir(p) \/ Bind(p) \/ DropPid(p) \/ Unlink(p)
    BY DEF Act, Step, Start, LookClient, Control, LookStarter, Poll, Exists, OpenPid, ReadPid, CheckPid,
       Stop, Sweep, Crash, Denied
  <1> QED BY <1>1, <1>2, <1>3, <1>4, <1>5, <1>6, <1>7

(* Who has entered a directory stays there or dies.                        *)
LEMMA EnteredStays ==
  ASSUME TypeOK, Places, Fresh, NEW p \in Procs, Act(p), NEW r \in Procs, NEW d \in Dirs, Entered(r, d)
  PROVE  Entered(r, d)'
  <1>0. Shapes /\ Shapes'
    BY TypeParts, NextTypeOK DEF TypeOK, Shapes
  <1>1. at[r] # "new"
    BY DEF Entered
  <1>2. Target(r)' = d /\ job'[r] \in {"client", "agent", "stopping"}
    BY <1>1, TargetStays DEF Entered
  <1>3. at'[r] \in Acquiring \cup Holding \cup {"dropdir"} \cup Dead
    <2>1. CASE r # p
      BY <1>1, <2>1, OthersStay DEF Entered, Spawned
    <2>2. CASE r = p
      BY <1>0, <2>2 DEF Entered, Act, Step, Start, LookClient, Control, LookStarter, Poll, Exists, MakeDir,
        OpenPid, WritePid, Undo, Bind, ReadPid, CheckPid, Stop, DropPid, DropDir, Crash, Sweep, Unlink,
        RemoveDir, Denied, Shapes, Failed, Removed
    <2> QED BY <2>1, <2>2
  <1> QED BY <1>2, <1>3 DEF Entered

(* Who can be named by a pid file can be until it removes that file        *)
(* itself.                                                                 *)
LEMMA NamedStays ==
  ASSUME TypeOK, Places, Fresh, NEW p \in Procs, Act(p), NEW r \in Procs, NEW d \in Dirs, Named(r, d)
  PROVE  Named(r, d)' \/ (r = p /\ DropPid(p) /\ d = "lock")
  <1>0. Shapes /\ Places'
    BY TypeParts, NextPlaces
  <1>1. at[r] # "new"
    BY DEF Named, Places
  <1>2. /\ Target(r)' = d
        /\ job'[r] = job[r] \/ (job[r] = "agent" /\ job'[r] = "stopping")
    BY <1>1, TargetStays DEF Named
  <1>3. CASE r # p
    BY <1>1, <1>2, <1>3, OthersStay DEF Named, Spawned
  <1>4. CASE r = p /\ job[p] = "client"
    <2>1. at[p] \in {"own", "crashed"}
      BY <1>4 DEF Named
    <2>2. DropPid(p) \/ at'[p] = "crashed"
      BY <1>0, <1>4, <2>1 DEF Act, Step, Start, LookClient, Control, LookStarter, Poll, Exists, MakeDir,
        OpenPid, WritePid, Undo, Bind, ReadPid, CheckPid, Stop, DropPid, DropDir, Crash, Sweep, Unlink,
        RemoveDir, Denied, Shapes
    <2>3. d = "lock"
      BY <1>4 DEF Named, Target
    <2> QED BY <1>2, <1>4, <2>2, <2>3 DEF Named
  <1>5. CASE r = p /\ job[p] = "agent" /\ job'[p] = "agent"
    <2>1. at[p] \in {"bind", "serve"} \cup Dead
      BY <1>5 DEF Named
    <2>2. at'[p] \in {"bind", "serve"} \cup Dead
      BY <1>0, <1>5, <2>1 DEF Act, Step, Start, LookClient, Control, LookStarter, Poll, Exists, MakeDir,
        OpenPid, WritePid, Undo, Bind, ReadPid, CheckPid, Stop, DropPid, DropDir, Crash, Sweep, Unlink,
        RemoveDir, Denied, Shapes, Places
    <2> QED BY <1>2, <1>5, <2>2 DEF Named
  <1>6. CASE r = p /\ job'[p] = "stopping"
    BY <1>2, <1>6 DEF Named
  <1>7. job[r] \in {"client", "agent", "stopping"}
    BY DEF Named
  <1> QED BY <1>2, <1>3, <1>4, <1>5, <1>6, <1>7

(* Pid files, and pids that were read from them, name who was there.       *)
LEMMA NextOwners ==
  ASSUME TypeOK, Places, Fresh, Handles, Owners, NEW p \in Procs, Act(p)
  PROVE  Owners'
  <1>0. Shapes /\ fs \in Files /\ Target(p) \in Dirs /\ Places'
    BY TypeParts, TargetDir, NextPlaces
  <1>2. ASSUME NEW d \in Dirs, NEW r \in Procs, fs'[d].pid = r
        PROVE  Named(r, d)'
    <2>1. CASE fs[d].pid = r
      <3>1. Named(r, d)
        BY <2>1 DEF Owners
      <3>2. ~(DropPid(p) /\ d = "lock")
        BY <1>2, DropPidEffect, SessionAssumption
      <3> QED BY <3>1, <3>2, NamedStays
    <2>2. CASE fs[d].pid # r
      <3>1. r = p /\ WritePid(p) /\ Target(p) = d
        BY <1>2, <2>2, PidSteps, SessionAssumption
      <3>2. at'[p] = (IF job[p] = "client" THEN "own" ELSE "bind") /\ job' = job
        BY <1>0, <3>1 DEF WritePid, Shapes
      <3>3. job[p] \in {"client", "agent"}
        BY <1>0, <3>1 DEF WritePid, Places, Shapes
      <3> QED BY <3>1, <3>2, <3>3 DEF Named, Target
    <2> QED BY <2>1, <2>2
  <1>3. ASSUME NEW q \in Procs, at'[q] = "check"
        PROVE  \E r \in Procs \ {q}, d \in Dirs :
                 seen'[q] = r /\ Target(q)' = d /\ Entered(r, d)'
    <2>1. CASE at[q] = "check" /\ q # p
      <3>1. PICK r \in Procs \ {q}, d \in Dirs : r = seen[q] /\ d = Target(q) /\ Entered(r, d)
        BY <2>1, TargetDir DEF Owners
      <3>2. Target(q)' = d /\ seen'[q] = r
        BY <2>1, <3>1, TargetStays, OthersStay
      <3>3. Entered(r, d)'
        BY <3>1, EnteredStays
      <3> QED BY <3>2, <3>3
    <2>2. CASE ~(at[q] = "check" /\ q # p)
      <3>1. q = p
        BY <1>3, <2>2, OthersStay DEF Spawned
      <3>2. ReadPid(p)
        BY <1>0, <1>3, <3>1 DEF Act, Step, Start, LookClient, Control, LookStarter, Poll, Exists, MakeDir,
           OpenPid, WritePid, Undo, Bind, CheckPid, Stop, DropPid, DropDir, Crash, Sweep, Unlink,
           RemoveDir, Denied, Shapes, Failed, Removed
      <3>3. PICK d \in Dirs : d = Target(p)
        BY <1>0
      <3>4. at[p] = "read" /\ fs[d].pid \in Procs /\ seen'[p] = fs[d].pid /\ job' = job
        BY <1>0, <1>3, <3>1, <3>2, <3>3 DEF ReadPid, Shapes
      <3>5. PICK r \in Procs : r = fs[d].pid
        BY <3>4
      <3>6. Named(r, d)
        BY <3>4, <3>5 DEF Owners
      <3>7. r # p /\ Entered(r, d)
        BY <3>4, <3>6 DEF Named, Entered, Places
      <3>8. Entered(r, d)'
        BY <3>7, EnteredStays
      <3>9. Target(p)' = d
        BY <3>3, <3>4 DEF Target
      <3> QED BY <3>1, <3>4, <3>5, <3>7, <3>8, <3>9
    <2> QED BY <2>1, <2>2
  <1>4. \A d \in Dirs : fs'[d].pid \in Procs => Named(fs[d].pid, d)'
    BY <1>2 DEF Named, Target
  <1>5. \A q \in Procs : at'[q] = "check" =>
          seen'[q] \in Procs \ {q} /\ Entered(seen[q], Target(q))'
    BY <1>3 DEF Entered, Target
  <1> QED BY <1>4, <1>5 DEF Owners

(* A client that has made a lock gets out of it by removing what it can.   *)
LEMMA ClientMoves ==
  ASSUME TypeOK, Places, NEW p \in Procs, Act(p), job[p] = "client"
  PROVE  /\ at[p] = "crashed" => FALSE
         /\ at[p] = "write" => at'[p] \in {"own", "crashed"}
         /\ at[p] = "own" => DropPid(p) \/ at'[p] = "crashed"
         /\ at[p] \in {"open", "write", "undo", "own", "dropdir"} =>
              \/ at'[p] \in {"open", "write", "undo", "own", "dropdir", "crashed"}
              \/ Undo(p) \/ DropDir(p)
  <1>0. Shapes
    BY TypeParts
  <1>1. CASE Start(p) \/ LookClient(p) \/ Control(p) \/ LookStarter(p) \/ Poll(p) \/ Bind(p) \/ Stop(p)
    BY <1>0, <1>1 DEF Start, LookClient, Control, LookStarter, Poll, Bind, Stop, Shapes, Places
  <1>2. CASE Exists(p) \/ MakeDir(p) \/ OpenPid(p) \/ WritePid(p) \/ ReadPid(p) \/ DropPid(p) \/ Crash(p)
    BY <1>0, <1>2 DEF Exists, MakeDir, OpenPid, WritePid, ReadPid, DropPid, Crash, Shapes
  <1>3. CASE Undo(p) \/ CheckPid(p) \/ Sweep(p) \/ Unlink(p) \/ RemoveDir(p) \/ Denied(p) \/ DropDir(p)
    BY <1>0, <1>3 DEF Undo, CheckPid, Sweep, Unlink, RemoveDir, Denied, DropDir, Shapes
  <1> QED BY <1>1, <1>2, <1>3 DEF Act, Step

(* The lock's pid file has a client that writes it, owns it or died.       *)
LEMMA NextPidMade ==
  ASSUME TypeOK, Places, Handles, PidMade, NEW p \in Procs, Act(p)
  PROVE  PidMade'
  <1>0. Shapes /\ fs \in Files /\ Target(p) \in Dirs
    BY TypeParts, TargetDir
  <1> SUFFICES ASSUME fs'["lock"].pid # None
               PROVE  \E q \in Procs : job'[q] = "client" /\ at'[q] \in {"write", "own", "crashed"}
    BY DEF PidMade
  <1>1. CASE fs'["lock"].pid = fs["lock"].pid
    <2>1. PICK q \in Procs : job[q] = "client" /\ at[q] \in {"write", "own", "crashed"}
      BY <1>1 DEF PidMade
    <2>2. job'[q] = "client"
      BY <2>1, TargetStays
    <2>3. ~DropPid(p)
      BY DropPidEffect
    <2>4. at'[q] \in {"write", "own", "crashed"}
      BY <2>1, <2>3, ClientMoves, OthersStay DEF Spawned
    <2> QED BY <2>2, <2>4
  <1>2. CASE fs'["lock"].pid # fs["lock"].pid
    <2>1. (OpenPid(p) \/ WritePid(p)) /\ Target(p) = "lock"
      BY <1>2, PidSteps
    <2>2. job[p] = "client" /\ job' = job
      BY <2>1 DEF Target, OpenPid, WritePid
    <2>3. at'[p] \in {"write", "own"}
      BY <1>0, <1>2, <2>1, <2>2 DEF OpenPid, WritePid, Shapes
    <2> QED BY <2>2, <2>3
  <1> QED BY <1>1, <1>2

(* So has the lock itself: a client that leaves leaves it to another one.  *)
LEMMA NextLockMade ==
  ASSUME TypeOK, Places, PidMade, LockMade, NEW p \in Procs, Act(p)
  PROVE  LockMade'
  <1> DEFINE makers == {"open", "write", "undo", "own", "dropdir", "crashed"}
  <1>0. Shapes /\ fs \in Files
    BY TypeParts
  <1> SUFFICES ASSUME fs'["lock"].made
               PROVE  \E q \in Procs : job'[q] = "client" /\ at'[q] \in makers
    BY DEF LockMade
  <1>1. ASSUME NEW q \in Procs \ {p}, job[q] = "client", at[q] \in makers
        PROVE  job'[q] = "client" /\ at'[q] \in makers
    BY <1>1, OthersStay DEF Spawned
  <1>2. CASE ~fs["lock"].made
    <2>1. MakeDir(p) /\ Target(p) = "lock"
      BY <1>2, MadeSteps
    <2>2. job[p] = "client"
      BY <1>0, <2>1 DEF MakeDir, Target
    <2>3. job'[p] = "client" /\ at'[p] = "open"
      BY <1>0, <1>2, <2>1, <2>2 DEF MakeDir, Shapes
    <2> QED BY <2>3
  <1>3. CASE fs["lock"].made
    <2>1. PICK w \in Procs : job[w] = "client" /\ at[w] \in makers
      BY <1>3 DEF LockMade
    <2>2. CASE w # p
      BY <1>1, <2>1, <2>2
    <2>3. CASE w = p /\ (Undo(p) \/ DropDir(p))
      <3>1. fs["lock"].pid # None
        BY <1>0, <2>3, DropDirEffect DEF NoDir, Files
      <3>2. PICK q \in Procs : job[q] = "client" /\ at[q] \in {"write", "own", "crashed"}
        BY <3>1 DEF PidMade
      <3>3. at[p] \in {"undo", "dropdir"}
        BY <2>3 DEF Undo, DropDir
      <3> QED BY <1>1, <3>2, <3>3
    <2>4. CASE w = p /\ ~(Undo(p) \/ DropDir(p))
      <3>1. at'[p] \in makers
        <4>1. CASE DropPid(p)
          BY <1>0, <4>1 DEF DropPid, Shapes
        <4> QED BY <2>1, <2>4, <4>1, ClientMoves
      <3>2. job'[p] = "client"
        BY <2>1, <2>4, TargetStays
      <3> QED BY <3>1, <3>2
    <2> QED BY <2>2, <2>3, <2>4
  <1> QED BY <1>2, <1>3

(***************************************************************************)
(* Who met nobody.                                                         *)
(***************************************************************************)

(* Alone in its directory, a process gets on, unless it dies, until it     *)
(* holds the directory; only a reused pid or a denied removal turns it     *)
(* away.                                                                   *)
LEMMA OwnStep ==
  ASSUME TypeOK, Places, Handles, Owners, NEW p \in Procs, Act(p), NEW d \in Dirs, d = Target(p),
         job[p] \in {"client", "agent"}, at[p] \in Acquiring, Local(p, d),
         \A q \in Procs \ {p} : ~Inside(q, d)
  PROVE  \/ at'[p] = "crashed"
         \/ at'[p] = "refused" /\ p \in hindered'
         \/ at'[p] \in Acquiring /\ Local(p, d)'
         \/ at'[p] \in Holding /\ fs'[d].made /\ fs'[d].pid = p
  <1>0. Shapes /\ fs \in Files /\ (\A e \in Dirs : Tidy(e))
    BY TypeParts
  <1>1. CASE Exists(p)
    <2>1. job[p] = "agent" /\ d = "run" /\ fs' = fs /\ job' = job
      BY <1>0, <1>1 DEF Exists, Places, Target
    <2>2. at'[p] = IF fs["run"].made THEN "read" ELSE "make"
      BY <1>0, <1>1 DEF Exists, Shapes
    <2>3. CASE fs["run"].made
      BY <2>1, <2>2, <2>3 DEF Local
    <2>4. CASE ~fs["run"].made
      BY <2>1, <2>2, <2>4 DEF Local
    <2> QED BY <2>3, <2>4
  <1>2. CASE MakeDir(p)
    <2>1. CASE job[p] = "client" /\ fs[d].made
      <3>1. at'[p] = "read"
        BY <1>0, <1>2, <2>1 DEF MakeDir, Shapes
      <3>2. fs'[d].made
        BY <1>2, MakeDirEffect
      <3> QED BY <3>1, <3>2 DEF Local
    <2>2. CASE ~(job[p] = "client" /\ fs[d].made)
      <3>1. at'[p] = "open" /\ at[p] = "make"
        BY <1>0, <1>2, <2>2 DEF MakeDir, Shapes
      <3>2. ~fs[d].made
        BY <2>2, <3>1 DEF Local
      <3>3. fs[d].pid = None /\ fs[d].sock = None
        BY <1>0, <3>2 DEF Tidy
      <3>4. fs'[d].made /\ fs'[d].pid = None /\ fs'[d].sock = None
        BY <1>2, <3>3, MakeDirEffect
      <3> QED BY <3>1, <3>4 DEF Local
    <2> QED BY <2>1, <2>2
  <1>3. CASE OpenPid(p)
    <2>1. at[p] = "open"
      BY <1>3 DEF OpenPid
    <2>2. fs[d].made /\ fs[d].sock = None
      BY <2>1 DEF Local
    <2>3. at'[p] = "write" /\ p \in filefd'[d]
      BY <1>0, <1>3, <2>2 DEF OpenPid, Shapes
    <2>4. fs'[d].made /\ fs'[d].sock = None
      BY <1>3, <2>2, OpenPidEffect
    <2> QED BY <2>3, <2>4 DEF Local
  <1>4. CASE WritePid(p)
    <2>1. at[p] = "write"
      BY <1>4 DEF WritePid
    <2>2. fs[d].made /\ fs[d].sock = None /\ p \in filefd[d]
      BY <2>1 DEF Local
    <2>3. fs'[d].made /\ fs'[d].sock = None /\ fs'[d].pid = p
      BY <1>4, <2>2, WritePidEffect
    <2>4. at'[p] \in {"own", "bind"}
      BY <1>0, <1>4 DEF WritePid, Shapes
    <2> QED BY <2>3, <2>4 DEF Local
  <1>5. CASE Undo(p)
    BY <1>5 DEF Undo, Local
  <1>6. CASE ReadPid(p)
    <2>1. fs' = fs /\ at'[p] \in {"check", "sweep"} /\ at[p] = "read"
      BY <1>0, <1>6 DEF ReadPid, Shapes
    <2>2. fs'[d].made
      BY <2>1 DEF Local
    <2> QED BY <2>1, <2>2 DEF Local
  <1>7. CASE CheckPid(p)
    <2>1. fs' = fs /\ at[p] = "check"
      BY <1>7 DEF CheckPid
    <2>2. PICK q \in Procs \ {p} : q = seen[p]
      BY <2>1 DEF Owners
    <2>3. Entered(q, d)
      BY <2>1, <2>2 DEF Owners
    <2>4. ~Alive(q)
      BY <2>2, <2>3 DEF Alive, Entered, Inside
    <2>5. \/ at'[p] = "sweep"
          \/ at'[p] = "refused" /\ p \in hindered'
      BY <1>0, <1>7, <2>2, <2>4 DEF CheckPid, Shapes
    <2>6. fs'[d].made
      BY <2>1 DEF Local
    <2> QED BY <2>5, <2>6 DEF Local
  <1>8. CASE Bind(p)
    <2>1. at[p] = "bind" /\ job[p] = "agent" /\ d = "run"
      BY <1>0, <1>8 DEF Bind, Places, Target
    <2>2. fs[d].made /\ fs[d].sock = None /\ fs[d].pid = p
      BY <2>1 DEF Local
    <2>3. at'[p] = "serve"
      <3>1. fs["run"].made /\ fs["run"].sock = None
        BY <2>1, <2>2
      <3>2. at' = [at EXCEPT ![p] = "serve"]
        BY <1>8, <3>1, BindEffect
      <3> QED BY <1>0, <3>2 DEF Shapes
    <2>4. fs'[d].made /\ fs'[d].pid = p
      BY <1>8, <2>1, <2>2, BindEffect
    <2> QED BY <2>3, <2>4
  <1>9. CASE Sweep(p)
    <2>1. at[p] = "sweep" /\ fs' = fs
      BY <1>9 DEF Sweep
    <2>2. fs[d].made
      BY <2>1 DEF Local
    <2>3. /\ at'[p] = "unlink" /\ p \in dirfd'[d]
          /\ doomed'[p] = {e \in Entries : fs[d][e] # None}
      BY <1>0, <1>9, <2>2 DEF Sweep, Shapes
    <2>4. /\ fs[d].pid # None => "pid" \in doomed'[p]
          /\ fs[d].sock # None => "sock" \in doomed'[p]
      BY <1>0, <2>3 DEF Files
    <2> QED BY <2>1, <2>2, <2>3, <2>4 DEF Local
  <1>10. CASE Unlink(p)
    <2>1. at[p] = "unlink" /\ at' = at /\ dirfd' = dirfd
      BY <1>10 DEF Unlink
    <2>2. PICK e \in doomed[p] :
           /\ doomed' = [doomed EXCEPT ![p] = @ \ {e}]
           /\ fs'[d].made = fs[d].made
           /\ p \in dirfd[d] => fs'[d][e] = None
           /\ \A x \in Entries : fs'[d][x] \in {fs[d][x], None}
      BY <1>10, UnlinkEffect
    <2>3. /\ fs[d].made /\ p \in dirfd[d]
          /\ fs[d].pid # None => "pid" \in doomed[p]
          /\ fs[d].sock # None => "sock" \in doomed[p]
      BY <2>1 DEF Local
    <2>4. doomed'[p] = doomed[p] \ {e} /\ fs'[d][e] = None /\ e \in Entries
      BY <1>0, <2>2, <2>3 DEF Shapes
    <2>5. /\ fs'[d].pid # None => "pid" \in doomed'[p]
          /\ fs'[d].sock # None => "sock" \in doomed'[p]
      BY <2>2, <2>3, <2>4
    <2> QED BY <2>1, <2>2, <2>3, <2>5 DEF Local
  <1>11. CASE RemoveDir(p)
    <2>1. at[p] = "unlink" /\ doomed[p] = {} /\ job' = job
      BY <1>11 DEF RemoveDir
    <2>2. fs[d].pid = None /\ fs[d].sock = None
      BY <2>1 DEF Local
    <2>3. fs' = [fs EXCEPT ![d] = NoDir] /\ at' = [at EXCEPT ![p] = Removed(p)]
      BY <1>11, <2>2, RemoveDirEffect
    <2>4. at'[p] = "make" /\ ~fs'[d].made
      BY <1>0, <2>3 DEF Removed, Shapes, NoDir, Files
    <2> QED BY <2>4 DEF Local
  <1>12. CASE Crash(p)
    BY <1>0, <1>12 DEF Crash, Shapes
  <1>14. CASE Denied(p)
    BY <1>0, <1>14 DEF Denied, Failed, Shapes
  <1>13. ~ (Start(p) \/ LookClient(p) \/ Control(p) \/ LookStarter(p) \/ Poll(p) \/ Stop(p) \/ DropPid(p) \/ DropDir(p))
    BY DEF Start, LookClient, Control, LookStarter, Poll, Stop, DropPid, DropDir
  <1> QED BY <1>1, <1>2, <1>3, <1>4, <1>5, <1>6, <1>7, <1>8, <1>9, <1>10, <1>11, <1>12, <1>13, <1>14 DEF Act, Step

(* Who is alone after a step was so before, or has just arrived; and       *)
(* nobody has arrived where it is.                                         *)
LEMMA AloneBefore ==
  ASSUME TypeOK, NEW p \in Procs, Act(p), NEW q \in Procs, alone'[q]
  PROVE  \/ \E d \in Dirs : Arrives(q, d)
         \/ /\ alone[q]
            /\ at[q] \in Acquiring => \A r \in Procs, d \in Dirs : Arrives(r, d) => r # q /\ ~Inside(q, d)
  <1>0. Shapes
    BY TypeParts
  <1>1. CASE \E d \in Dirs : Arrives(q, d)
    BY <1>1
  <1>2. CASE ~ \E d \in Dirs : Arrives(q, d)
    <2>1. alone[q]
      BY <1>0, <1>2, AloneSteps, MeetEffect DEF Shapes, Arrives
    <2>2. ASSUME at[q] \in Acquiring, NEW r \in Procs, NEW d \in Dirs, Arrives(r, d)
          PROVE  r # q /\ ~Inside(q, d)
      <3>1. r # q
        BY <1>2, <2>2
      <3>2. Meet(r, d)
        BY <2>2 DEF Arrives
      <3> QED BY <1>0, <2>2, <3>1, <3>2, MeetEffect DEF Shapes
    <2> QED BY <2>1, <2>2
  <1> QED BY <1>1, <1>2

(* A step of another process outside leaves what is known.                 *)
LEMMA LocalStays ==
  ASSUME TypeOK, Places, Handles, NEW p \in Procs, Act(p), NEW q \in Procs \ {p}, NEW d \in Dirs,
         at[q] \in Acquiring, Local(q, d), ~Inside(p, d)
  PROVE  Local(q, d)'
  <1>1. fs'[d] = fs[d] /\ (q \in dirfd'[d] <=> q \in dirfd[d]) /\ (q \in filefd'[d] <=> q \in filefd[d])
    BY FilesStay
  <1>2. at'[q] = at[q] /\ job'[q] = job[q] /\ doomed'[q] = doomed[q]
    BY OthersStay DEF Spawned
  <1> QED BY <1>1, <1>2 DEF Local

(* Alone, a process meets nobody but who ends its being alone.             *)
LEMMA NextAlone ==
  ASSUME TypeOK, Places, Fresh, Handles, Owners, Alone, NEW p \in Procs, Act(p)
  PROVE  Alone'
  <1>0. Shapes /\ Places'
    BY TypeParts, NextPlaces
  <1>1. ASSUME NEW q \in Procs, alone'[q], job'[q] \in {"client", "agent"}, at'[q] \in Acquiring
        PROVE  \E d \in Dirs :
                 d = Target(q)' /\ Local(q, d)' /\ \A r \in Procs \ {q} : ~Inside(r, d)'
    <2>1. CASE \E d \in Dirs : Arrives(q, d)
      <3>1. PICK d \in Dirs : Arrives(q, d)
        BY <2>1
      <3>2. d = Target(q)' /\ Local(q, d)'
        BY <3>1 DEF Arrives, Target, Local
      <3>3. \A r \in Procs \ {q} : ~Inside(r, d)
        BY <1>0, <1>1, <3>1, MeetEffect DEF Arrives, Shapes
      <3>4. \A r \in Procs \ {q} : ~Arrives(r, d)
        BY <1>0, <3>1, AloneSteps, OthersStay DEF Arrives, Shapes, Spawned
      <3> QED BY <3>2, <3>3, <3>4, InsideSteps
    <2>2. CASE ~ \E d \in Dirs : Arrives(q, d)
      <3>1. alone[q] /\ (at[q] \in Acquiring => \A r \in Procs, d \in Dirs : Arrives(r, d) => r # q /\ ~Inside(q, d))
        BY <1>1, <2>2, AloneBefore
      <3>2. at[q] \in Acquiring /\ at[q] # "new" /\ job[q] \in {"client", "agent"}
        <4>1. at[q] \notin {"new", "look", "control", "view", "poll"}
          BY <3>1 DEF Fresh
        <4>2. at[q] # "new" /\ job[q] \in {"client", "agent"}
          BY <1>1, <4>1, TargetStays
        <4>3. CASE q # p
          BY <1>1, <4>2, <4>3, OthersStay DEF Spawned
        <4>4. CASE q = p
          BY <1>0, <1>1, <4>1, <4>2, <4>4 DEF Act, Step, Start, LookClient, Control, LookStarter, Poll, Exists, MakeDir,
            OpenPid, WritePid, Undo, Bind, ReadPid, CheckPid, Stop, DropPid, DropDir, Crash, Sweep, Unlink,
            RemoveDir, Denied, Shapes
        <4> QED BY <4>2, <4>3, <4>4
      <3>3. PICK d \in Dirs : d = Target(q)
        BY TargetDir
      <3>4. d = Target(q)'
        BY <3>2, <3>3, TargetStays
      <3>5. Local(q, d) /\ \A r \in Procs \ {q} : ~Inside(r, d)
        BY <3>1, <3>2, <3>3 DEF Alone
      <3>6. Inside(q, d)
        BY <3>2, <3>3 DEF Inside
      <3>7. \A r \in Procs \ {q} : ~Inside(r, d)'
        BY <3>1, <3>2, <3>5, <3>6, InsideSteps
      <3>8. Local(q, d)'
        <4>1. CASE q = p
          BY <1>1, <3>2, <3>3, <3>5, <4>1, OwnStep
        <4>2. CASE q # p
          BY <3>2, <3>5, <4>2, LocalStays
        <4> QED BY <4>1, <4>2
      <3> QED BY <3>4, <3>7, <3>8
    <2> QED BY <2>1, <2>2
  <1>2. ASSUME NEW q \in Procs, alone'[q], job'[q] \in {"client", "agent"}, at'[q] \in Acquiring
        PROVE  Local(q, Target(q))' /\ \A r \in Procs \ {q} : ~Inside(r, Target(q))'
    BY <1>1, <1>2 DEF Local, Inside, Target, Zombie
  <1> QED BY <1>2 DEF Alone

(* Who is refused was not alone, or was hindered.                          *)
LEMMA NextRefused ==
  ASSUME TypeOK, Places, Fresh, Handles, Owners, Alone, RefusedForSomeone, NEW p \in Procs, Act(p)
  PROVE  RefusedForSomeone'
  <1>0. Shapes
    BY TypeParts
  <1> SUFFICES ASSUME NEW q \in Procs, at'[q] = "refused", job'[q] \in {"client", "agent"}, alone'[q],
                      q \notin hindered'
               PROVE  FALSE
    BY DEF RefusedForSomeone
  <1>9. hindered \subseteq hindered'
    BY DEF Act, Step, Start, LookClient, Control, LookStarter, Poll, Exists, MakeDir, OpenPid, WritePid, Undo,
       Bind, ReadPid, CheckPid, Stop, DropPid, DropDir, Crash, Sweep, Unlink, RemoveDir, Denied
  <1>1. alone[q]
    BY AloneBefore DEF Arrives
  <1>2. at[q] \notin {"new", "look", "control", "view", "poll"}
    BY <1>1 DEF Fresh
  <1>3. job[q] \in {"client", "agent"}
    BY <1>2, TargetStays
  <1>4. at[q] # "refused"
    BY <1>1, <1>3, <1>9 DEF RefusedForSomeone
  <1>5. q = p
    BY <1>4, OthersStay DEF Spawned
  <1>6. at[p] \in Acquiring
    BY <1>0, <1>2, <1>3, <1>4, <1>5 DEF Act, Step, Start, LookClient, Control, LookStarter, Poll, Exists, MakeDir,
       OpenPid, WritePid, Undo, Bind, ReadPid, CheckPid, Stop, DropPid, DropDir, Crash, Sweep, Unlink,
       RemoveDir, Denied, Shapes
  <1>7. PICK d \in Dirs : d = Target(p)
    BY TargetDir
  <1>8. Local(p, d) /\ \A r \in Procs \ {p} : ~Inside(r, d)
    BY <1>1, <1>3, <1>5, <1>6, <1>7 DEF Alone
  <1> QED BY <1>3, <1>5, <1>6, <1>7, <1>8, OwnStep

(* Who comes upon a held directory gets no further than to look its owner  *)
(* up.                                                                     *)
LEMMA BesideStep ==
  ASSUME TypeOK, Places, NEW p \in Procs, Act(p), NEW q \in Procs \ {p}, at[q] \in Holding, NEW d \in Dirs,
         d = Target(q), d = Target(p), fs[d].made, fs[d].pid = q, job[p] # "starter",
         Beside(p, q), Inside(p, d)
  PROVE  fs'[d].made /\ fs'[d].pid = q /\ Beside(p, q)'
  <1>0. Shapes /\ fs \in Files
    BY TypeParts
  <1>1. CASE Exists(p)
    <2>1. job[p] = "agent" /\ fs' = fs
      BY <1>0, <1>1 DEF Exists, Places, Shapes
    <2>2. d = "run"
      BY <2>1 DEF Target
    <2>3. at'[p] = "read"
      BY <1>0, <1>1, <2>2 DEF Exists, Shapes
    <2> QED BY <2>1, <2>3 DEF Beside
  <1>2. CASE MakeDir(p)
    <2>1. job[p] = "client"
      BY <1>2 DEF MakeDir, Beside
    <2>2. at'[p] = "read"
      BY <1>0, <1>2, <2>1 DEF MakeDir, Shapes
    <2> QED BY <1>2, <2>2, MakeDirEffect DEF Beside
  <1>3. CASE ReadPid(p)
    <2>1. fs' = fs /\ at'[p] = "check" /\ seen'[p] = q
      BY <1>0, <1>3 DEF ReadPid, Shapes
    <2> QED BY <2>1 DEF Beside
  <1>4. CASE CheckPid(p)
    <2>1. fs' = fs /\ at[p] = "check"
      BY <1>4 DEF CheckPid
    <2>2. seen[p] = q
      BY <2>1 DEF Beside
    <2>3. ~MayBeGone(q)
      BY DEF MayBeGone, Alive
    <2>4. at'[p] = "refused"
      BY <1>0, <1>4, <2>2, <2>3 DEF CheckPid, Shapes
    <2> QED BY <2>1, <2>4 DEF Beside
  <1>5. CASE Crash(p)
    BY <1>0, <1>5 DEF Crash, Shapes, Beside
  <1>6. at[p] \in {"exists", "read", "make", "check"} \cup Dead
    BY DEF Beside, Inside, Zombie
  <1>7. Exists(p) \/ MakeDir(p) \/ ReadPid(p) \/ CheckPid(p) \/ Crash(p)
    BY <1>6 DEF Act, Step, Start, LookClient, Control, LookStarter, Poll, OpenPid, WritePid, Undo, Bind, Stop,
       DropPid, DropDir, Crash, Sweep, Unlink, RemoveDir, Denied
  <1> QED BY <1>1, <1>2, <1>3, <1>4, <1>5, <1>7

(* Who does not use a directory does not come to hold it in one step.      *)
LEMMA OutsideStep ==
  ASSUME TypeOK, Places, Fresh, NEW p \in Procs, Act(p), NEW q \in Procs \ {p}, NEW d \in Dirs,
         Target(p) = d /\ job[p] # "starter" => Beside(p, q), ~Inside(p, d),
         Target(p)' = d, job'[p] # "starter"
  PROVE  Beside(p, q)'
  <1>0. Shapes /\ Places'
    BY TypeParts, NextPlaces
  <1>1. at[p] \in {"new", "look", "control", "view"} \cup Dead
    <2>1. CASE at[p] = "new"
      BY <2>1
    <2>2. CASE at[p] # "new"
      <3>1. Target(p) = d /\ job[p] # "starter"
        BY <2>2, TargetStays
      <3> QED BY <3>1 DEF Beside, Inside
    <2> QED BY <2>1, <2>2
  <1>2. \/ at'[p] \in {"look", "control", "view", "exists"} \cup Dead
        \/ at'[p] = "make" /\ job'[p] = "client"
        \/ at'[p] = "poll"
    BY <1>0, <1>1 DEF Act, Step, Start, LookClient, Control, LookStarter, Poll, Exists, MakeDir,
       OpenPid, WritePid, Undo, Bind, ReadPid, CheckPid, Stop, DropPid, DropDir, Crash, Sweep, Unlink,
       RemoveDir, Denied, Shapes
  <1>3. at'[p] # "poll"
    <2>1. job'[p] \in {"none", "client", "agent", "stopping"}
      BY NextTypeOK DEF TypeOK
    <2> QED BY <1>0, <2>1 DEF Places
  <1> QED BY <1>2, <1>3 DEF Beside

(* A holder that met nobody keeps its directory from every other process.  *)
LEMMA NextReigns ==
  ASSUME TypeOK, Places, Fresh, Handles, Owners, Alone, Reigns, NEW p \in Procs, Act(p)
  PROVE  Reigns'
  <1>0. Shapes /\ Places'
    BY TypeParts, NextPlaces
  <1>1. ASSUME NEW q \in Procs, alone'[q], at'[q] \in Holding
        PROVE  \E d \in Dirs :
                 /\ d = Target(q)' /\ fs'[d].made /\ fs'[d].pid = q
                 /\ \A r \in Procs \ {q} : Target(r)' = d /\ job'[r] # "starter" => Beside(r, q)'
    <2>1. alone[q]
      BY <1>1, AloneBefore DEF Arrives
    <2>2. at[q] \notin {"new", "look", "control", "view", "poll"}
      BY <2>1 DEF Fresh
    <2>3. PICK d \in Dirs : d = Target(q)
      BY TargetDir
    <2>4. d = Target(q)'
      BY <2>2, <2>3, TargetStays
    <2>5. CASE at[q] \notin Holding
      <3>1. q = p
        BY <1>1, <2>5, OthersStay DEF Spawned
      <3>2. at[q] \in Acquiring /\ job[q] \in {"client", "agent"}
        <4>1. at[q] \in Acquiring
          BY <1>0, <1>1, <2>2, <2>5, <3>1 DEF Act, Step, Start, LookClient, Control, LookStarter, Poll, Exists, MakeDir,
            OpenPid, WritePid, Undo, Bind, ReadPid, CheckPid, Stop, DropPid, DropDir, Crash, Sweep, Unlink,
            RemoveDir, Denied, Shapes
        <4>2. job'[q] \in {"client", "agent"}
          BY <1>0, <1>1, NextTypeOK DEF Places, TypeOK
        <4>3. job[q] = job'[q]
          BY <2>2, <4>2, TargetStays
        <4> QED BY <4>1, <4>2, <4>3
      <3>3. Local(q, d) /\ \A r \in Procs \ {q} : ~Inside(r, d)
        BY <2>1, <2>3, <3>2 DEF Alone
      <3>4. fs'[d].made /\ fs'[d].pid = q
        BY <1>1, <2>3, <3>1, <3>2, <3>3, OwnStep
      <3>5. ASSUME NEW r \in Procs \ {q}, Target(r)' = d, job'[r] # "starter"
            PROVE  Beside(r, q)'
        <4>1. at'[r] = at[r] /\ job'[r] = job[r]
          BY <2>2, <3>1, OthersStay DEF Spawned
        <4>2. Target(r) = d
          BY <3>5, <4>1 DEF Target
        <4>3. at[r] \notin Acquiring \cup Holding \cup {"dropdir"}
          BY <3>3, <3>5, <4>1, <4>2 DEF Inside
        <4>4. at[r] # "poll"
          BY <1>0, <3>5, <4>1 DEF Places, Shapes
        <4> QED BY <1>0, <4>1, <4>3, <4>4 DEF Beside, Shapes
      <3> QED BY <2>4, <3>4, <3>5
    <2>6. CASE at[q] \in Holding
      <3>1. q # p
        BY <1>0, <1>1, <2>6 DEF Act, Step, Start, LookClient, Control, LookStarter, Poll, Exists, MakeDir,
           OpenPid, WritePid, Undo, Bind, ReadPid, CheckPid, Stop, DropPid, DropDir, Crash, Sweep, Unlink,
           RemoveDir, Denied, Shapes
      <3>2. /\ fs[d].made /\ fs[d].pid = q
            /\ \A r \in Procs \ {q} : Target(r) = d /\ job[r] # "starter" => Beside(r, q)
        BY <2>1, <2>3, <2>6 DEF Reigns
      <3>3. fs'[d].made /\ fs'[d].pid = q /\ (Target(p)' = d /\ job'[p] # "starter" => Beside(p, q)')
        <4>1. CASE Inside(p, d)
          <5>1. Target(p) = d /\ job[p] # "starter"
            BY <4>1 DEF Inside
          <5> QED BY <2>3, <2>6, <3>1, <3>2, <4>1, <5>1, BesideStep
        <4>2. CASE ~Inside(p, d)
          <5>1. fs'[d] = fs[d]
            BY <4>2, FilesStay
          <5>2. ASSUME Target(p)' = d, job'[p] # "starter" PROVE Beside(p, q)'
            BY <3>1, <3>2, <4>2, <5>2, OutsideStep
          <5> QED BY <3>2, <5>1, <5>2
        <4> QED BY <4>1, <4>2
      <3>4. ASSUME NEW r \in Procs \ {p, q}, Target(r)' = d, job'[r] # "starter"
            PROVE  Beside(r, q)'
        <4>1. CASE Spawned(p, r)
          BY <4>1 DEF Spawned, Beside
        <4>2. CASE ~Spawned(p, r)
          <5>1. at'[r] = at[r] /\ job'[r] = job[r] /\ seen'[r] = seen[r]
            BY <4>2, OthersStay
          <5>2. Target(r) = d
            BY <3>4, <5>1 DEF Target
          <5> QED BY <3>2, <3>4, <5>1, <5>2 DEF Beside
        <4> QED BY <4>1, <4>2
      <3> QED BY <2>4, <3>3, <3>4
    <2> QED BY <2>5, <2>6
  <1>2. ASSUME NEW q \in Procs, alone'[q], at'[q] \in Holding
        PROVE  /\ fs'[Target(q)'].made /\ fs'[Target(q)'].pid = q
               /\ \A r \in Procs \ {q} : Target(r)' = Target(q)' /\ job'[r] # "starter" => Beside(r, q)'
    BY <1>1, <1>2
  <1> QED BY <1>2 DEF Reigns, Beside

(***************************************************************************)
(* Theorems.                                                               *)
(***************************************************************************)

(* The invariant is inductive.                                             *)
LEMMA NextSessionInv == SessionInv /\ [Next]_vars => SessionInv'
  <1> SUFFICES ASSUME SessionInv, [Next]_vars PROVE SessionInv'
    OBVIOUS
  <1> USE DEF SessionInv
  <1>1. ASSUME NEW p \in Procs, Act(p) PROVE SessionInv'
    BY <1>1, NextTypeOK, NextPlaces, NextHandles, NextOwners, NextLockMade, NextPidMade, NextAlone, NextReigns,
       NextRefused
  <1>2. CASE UNCHANGED vars
    BY <1>2 DEF vars, TypeOK, Places, Handles, Owners, Named, Entered, LockMade, PidMade, Fresh, Alone, Local,
       Inside, Zombie, Target, Reigns, Beside, RefusedForSomeone
  <1> QED BY <1>1, <1>2 DEF Next, Act

(* The inductive invariant holds of every run, of any number of processes  *)
(* of which any number may die anywhere.                                   *)
THEOREM SessionInvariant == Spec => []SessionInv
  BY InitSessionInv, NextSessionInv, PTL DEF Spec

(* Every process, handle and file keeps its shape, and a directory that is *)
(* not there holds nothing.                                                *)
THEOREM TypeCorrect == Spec => []TypeOK
  BY SessionInvariant, PTL DEF SessionInv

(* One session per endpoint: who met nobody on its way to the session lock *)
(* (ClientSessionLock::acquire) or the runtime directory                   *)
(* (prepare_runtime_dir) is the only holder while it holds it.             *)
THEOREM SessionIsSole == Spec => []SoleHolder
  <1>1. SessionInv => SoleHolder
    <2> SUFFICES ASSUME SessionInv, NEW p \in Procs, NEW q \in Procs, p # q, at[p] \in Holding, alone[p],
                        Target(q) = Target(p), at[q] \in Holding
                 PROVE  FALSE
      BY DEF SoleHolder
    <2>1. job[q] # "starter"
      BY DEF SessionInv, Places
    <2>2. Beside(q, p)
      BY <2>1 DEF SessionInv, Reigns
    <2> QED BY <2>2 DEF Beside
  <1> QED BY <1>1, SessionInvariant, PTL

(* Who meets nobody is turned away only by a pid of a dead process that    *)
(* /proc shows for another one, or by a removal that is denied: stale      *)
(* directories, with or without a pid file, do nothing else to acquire and *)
(* prepare_runtime_dir.                                                    *)
THEOREM RefusalsHaveCauses == Spec => []RefusedForSomeone
  BY SessionInvariant, PTL DEF SessionInv

(* When every client has ended in order, the lock's directory is gone.     *)
THEOREM LockIsLeftToNobody == Spec => []NoLockLeft
  <1>1. SessionInv => NoLockLeft
    BY DEF SessionInv, LockMade, NoLockLeft
  <1> QED BY <1>1, SessionInvariant, PTL

(* A client that looks (live_agent_pid) while an agent serves that met     *)
(* nobody finds it.                                                        *)
THEOREM AgentIsFound == Spec => AgentFound
  <1>1. SessionInv /\ [Next]_vars =>
          [\A p \in Procs : at[p] = "look" /\ at'[p] = "make"
             => ~ \E a \in Procs : at[a] = "serve" /\ alone[a]]_vars
    <2> SUFFICES ASSUME SessionInv, Next, NEW p \in Procs, at[p] = "look", at'[p] = "make",
                        NEW a \in Procs, at[a] = "serve", alone[a]
                 PROVE  FALSE
      OBVIOUS
    <2>0. Shapes
      BY TypeParts DEF SessionInv
    <2>1. PICK s \in Procs : Act(s)
      BY DEF Next, Act
    <2>2. s = p
      BY <2>1, OthersStay DEF Spawned, SessionInv
    <2>3. LookClient(p) /\ MayBeGone(fs["run"].pid)
      BY <2>0, <2>1, <2>2 DEF Act, Step, Start, LookClient, Control, LookStarter, Poll, Exists, MakeDir,
         OpenPid, WritePid, Undo, Bind, ReadPid, CheckPid, Stop, DropPid, DropDir, Crash, Sweep, Unlink,
         RemoveDir, Denied, Shapes
    <2>4. Target(a) = "run"
      BY DEF SessionInv, Places, Target
    <2>5. fs["run"].pid = a
      BY <2>4 DEF SessionInv, Reigns
    <2>6. ~MayBeGone(fs["run"].pid)
      BY <2>5 DEF MayBeGone, Alive
    <2> QED BY <2>3, <2>6
  <1> QED BY <1>1, SessionInvariant, PTL DEF Spec, AgentFound
=============================================================================
