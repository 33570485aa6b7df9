---------------------------- MODULE BulkOrderProofs ----------------------------
(***************************************************************************)
(* The order of writes, reads and control transfers in BulkPipeline: what  *)
(* the flush barriers and the shutdown of the OUT worker are for.          *)
(***************************************************************************)
EXTENDS BulkPipelineProofs

(* The barriers in the OUT worker's channel that a task waits for.         *)
Barriers(q, who) ==
  {i \in 1 .. Len(q) : q[i].cmd \in {"flush", "shutdown"} /\ q[i].arg = who}

(* There is one of them at most, and what is behind it was submitted after *)
(* the URB s it is for.                                                    *)
OneBarrier(q, who, s) ==
  /\ \A i, j \in Barriers(q, who) : i = j
  /\ \A i \in Barriers(q, who), j \in 1 .. Len(q) :
       i < j /\ q[j].cmd = "submit" => s < q[j].arg

----------------------------------------------------------------------------
(* Lemmas about the channel to the OUT worker.                             *)

(* A command that is sent comes behind the barriers.                       *)
LEMMA BarriersSent ==
  ASSUME NEW q \in Seq(Commands), NEW c \in Commands
  PROVE  /\ \A who : ~(c.cmd \in {"flush", "shutdown"} /\ c.arg = who) =>
              /\ Barriers(Append(q, c), who) = Barriers(q, who)
              /\ \A s : /\ OneBarrier(q, who, s)
                        /\ c.cmd = "submit" /\ Barriers(q, who) # {} => s < c.arg
                        => OneBarrier(Append(q, c), who, s)
         /\ \A who, s : Barriers(q, who) = {} => OneBarrier(Append(q, c), who, s)
         /\ \A i \in 1 .. Len(Append(q, c)) :
              Append(q, c)[i] = c \/ \E k \in 1 .. Len(q) : Append(q, c)[i] = q[k]
  <1>1. /\ Append(q, c) \in Seq(Commands) /\ Len(q) \in Nat
        /\ Len(Append(q, c)) = Len(q) + 1
        /\ \A i \in 1 .. Len(q) : Append(q, c)[i] = q[i]
        /\ Append(q, c)[Len(q) + 1] = c
    OBVIOUS
  <1>2. ASSUME NEW who, ~(c.cmd \in {"flush", "shutdown"} /\ c.arg = who)
        PROVE  /\ Barriers(Append(q, c), who) = Barriers(q, who)
               /\ \A s : /\ OneBarrier(q, who, s)
                         /\ c.cmd = "submit" /\ Barriers(q, who) # {} => s < c.arg
                         => OneBarrier(Append(q, c), who, s)
    <2>1. Barriers(Append(q, c), who) = Barriers(q, who)
      BY <1>1, <1>2 DEF Barriers
    <2>2. Barriers(q, who) \subseteq 1 .. Len(q)
      BY DEF Barriers
    <2>3. ASSUME NEW s, OneBarrier(q, who, s),
                 c.cmd = "submit" /\ Barriers(q, who) # {} => s < c.arg
          PROVE  OneBarrier(Append(q, c), who, s)
      BY <1>1, <2>1, <2>2, <2>3 DEF OneBarrier
    <2> QED BY <2>1, <2>3
  <1>3. ASSUME NEW who, NEW s, Barriers(q, who) = {} PROVE OneBarrier(Append(q, c), who, s)
    <2>1. \A i \in Barriers(Append(q, c), who) : i = Len(q) + 1
      BY <1>1, <1>3 DEF Barriers
    <2> QED BY <1>1, <2>1 DEF OneBarrier
  <1>4. \A i \in 1 .. Len(Append(q, c)) :
          Append(q, c)[i] = c \/ \E k \in 1 .. Len(q) : Append(q, c)[i] = q[k]
    BY <1>1
  <1> QED BY <1>2, <1>3, <1>4

(* A command is taken: the barriers move up; one that is taken itself is   *)
(* gone, and has every earlier URB behind it.                              *)
LEMMA BarriersTaken ==
  ASSUME NEW q \in Seq(Commands), q # <<>>
  PROVE  /\ \A who : Barriers(Tail(q), who) # {} => Barriers(q, who) # {}
         /\ \A who, s : OneBarrier(q, who, s) =>
              /\ OneBarrier(Tail(q), who, s)
              /\ 1 \in Barriers(q, who) =>
                   Barriers(Tail(q), who) = {} /\ \A t \in Sent(q) : s < t
         /\ \A i \in 1 .. Len(Tail(q)) : \E k \in 1 .. Len(q) : Tail(q)[i] = q[k]
         /\ 1 \in 1 .. Len(q) /\ q[1] = Head(q)
  <1>1. /\ Tail(q) \in Seq(Commands) /\ Len(q) \in Nat
        /\ Head(q) = q[1] /\ 1 \in 1 .. Len(q)
        /\ Len(Tail(q)) = Len(q) - 1
        /\ \A i \in 1 .. Len(Tail(q)) : i + 1 \in 1 .. Len(q) /\ Tail(q)[i] = q[i + 1]
    OBVIOUS
  <1>2. \A who : \A i \in Barriers(Tail(q), who) : i \in 1 .. Len(Tail(q)) /\ i + 1 \in Barriers(q, who)
    BY <1>1 DEF Barriers
  <1>3. ASSUME NEW who, NEW s, OneBarrier(q, who, s)
        PROVE  /\ OneBarrier(Tail(q), who, s)
               /\ 1 \in Barriers(q, who) =>
                    Barriers(Tail(q), who) = {} /\ \A t \in Sent(q) : s < t
    <2>1. \A i, j \in Barriers(Tail(q), who) : i = j
      BY <1>1, <1>2, <1>3 DEF OneBarrier
    <2>2. \A i \in Barriers(Tail(q), who), j \in 1 .. Len(Tail(q)) :
            i < j /\ Tail(q)[j].cmd = "submit" => s < Tail(q)[j].arg
      BY <1>1, <1>2, <1>3 DEF OneBarrier
    <2>3. ASSUME 1 \in Barriers(q, who)
          PROVE  Barriers(Tail(q), who) = {} /\ \A t \in Sent(q) : s < t
      <3>1. Barriers(Tail(q), who) = {}
        BY <1>1, <1>2, <1>3, <2>3 DEF OneBarrier
      <3>2. q[1].cmd # "submit"
        BY <2>3 DEF Barriers
      <3>3. ASSUME NEW t \in Sent(q) PROVE s < t
        <4>1. PICK j \in 1 .. Len(q) : q[j].cmd = "submit" /\ t = q[j].arg
          BY DEF Sent
        <4>2. 1 < j
          BY <1>1, <3>2, <4>1
        <4> QED BY <1>3, <2>3, <4>1, <4>2 DEF OneBarrier
      <3> QED BY <3>1, <3>3
    <2> QED BY <2>1, <2>2, <2>3 DEF OneBarrier
  <1> QED BY <1>1, <1>2, <1>3

(* The barriers of the IN worker are answered to nobody; nothing else of   *)
(* the channel changes.                                                    *)
LEMMA BarriersOrphaned ==
  ASSUME NEW q \in Seq(Commands)
  PROVE  /\ Barriers(Orphaned(q), "in") = {}
         /\ Barriers(Orphaned(q), "handler") = Barriers(q, "handler")
         /\ \A s : OneBarrier(q, "handler", s) => OneBarrier(Orphaned(q), "handler", s)
         /\ Sent(Orphaned(q)) = Sent(q)
         /\ \A i \in Barriers(q, "handler") : Orphaned(q)[i] = q[i]
  <1>1. /\ Len(q) \in Nat /\ Len(Orphaned(q)) = Len(q)
        /\ \A i \in 1 .. Len(q) :
             Orphaned(q)[i] = IF q[i] = Command("flush", "in")
                              THEN Command("flush", "nobody") ELSE q[i]
        /\ \A i \in 1 .. Len(q) : q[i] \in Commands
    BY OrphanedChannel
  <1>2. \A c \in Commands : c.cmd \in {"flush", "shutdown"} /\ c.arg = "in" => c = Command("flush", "in")
    <2>1. ASSUME NEW c \in Commands, c.cmd \in {"flush", "shutdown"}, c.arg = "in"
          PROVE  c = Command("flush", "in")
      <3>1. c \in [cmd : {"flush"}, arg : {"handler", "in", "nobody"}]
        BY <2>1 DEF Commands, Command
      <3> QED BY <2>1, <3>1 DEF Command
    <2> QED BY <2>1
  <1>3. /\ Command("flush", "in").cmd = "flush" /\ Command("flush", "in").arg = "in"
        /\ Command("flush", "nobody").cmd = "flush" /\ Command("flush", "nobody").arg = "nobody"
    BY DEF Command
  <1>4. /\ \A i \in 1 .. Len(q) : Orphaned(q)[i].cmd = q[i].cmd
        /\ \A i \in 1 .. Len(q) : q[i].cmd = "submit" => Orphaned(q)[i] = q[i]
        /\ \A i \in 1 .. Len(q) : q[i].arg = "handler" => Orphaned(q)[i] = q[i]
        /\ \A i \in 1 .. Len(q) : Orphaned(q)[i].arg = "handler" => q[i].arg = "handler"
    BY <1>1, <1>3
  <1>5. Barriers(Orphaned(q), "in") = {}
    BY <1>1, <1>2, <1>3 DEF Barriers
  <1>6. Barriers(Orphaned(q), "handler") = Barriers(q, "handler")
    BY <1>1, <1>4 DEF Barriers
  <1>7. Sent(Orphaned(q)) = Sent(q)
    BY <1>1, <1>4 DEF Sent
  <1>8. ASSUME NEW s, OneBarrier(q, "handler", s) PROVE OneBarrier(Orphaned(q), "handler", s)
    BY <1>1, <1>4, <1>6, <1>8 DEF OneBarrier
  <1>9. \A i \in Barriers(q, "handler") : Orphaned(q)[i] = q[i]
    BY <1>4 DEF Barriers
  <1> QED BY <1>5, <1>6, <1>7, <1>8, <1>9

(* A channel that is empty has no barriers.                                *)
LEMMA NoBarriers == \A who : Barriers(<<>>, who) = {} /\ \A s : OneBarrier(<<>>, who, s)
  <1>1. Len(<<>>) = 0
    OBVIOUS
  <1> QED BY <1>1 DEF Barriers, OneBarrier

----------------------------------------------------------------------------
(* The inductive invariant.  A write that was handed to the OUT worker is  *)
(* in its channel, in its buffer, at the device, or reported as failed, as *)
(* long as no error has poisoned the worker; a barrier that is answered    *)
(* well has therefore every earlier write at the device.                   *)

(* What the OUT worker has acknowledged.                                   *)
Held == written \cup ow.buffered

(* The OUT URBs of this import.                                            *)
Writes(t) == urb[t].kind = "out" /\ Current(t)

(* A handler that speaks to the OUT worker has one; one that is down has   *)
(* left nothing; answers are for those who wait.                           *)
Attached ==
  /\ \A s \in Sent(outq) \cup Seqs(outEv) : s < next
  /\ ~ow.up => ow = NoOutWorker /\ outq = <<>>
  /\ h.pc \in {"sendOut", "flushSend", "unlinkOut", "stopSend"} => ow.up
  /\ bulkOut # {} => ow.up \/ Stopping
  /\ At("stopped") => ~ow.up
  /\ At("stopWait") /\ h.reply # "none" => ~ow.up
  /\ h.pc \notin {"flushWait", "stopWait", "stopped"} => h.reply = "none"
  /\ iw.pc = "bsend" => iw.reply = "none"
  /\ iw.pc = "drain" => iw.seq < next

(* A barrier is in the channel only while its task waits for the answer.   *)
HandlerWaits ==
  /\ OneBarrier(outq, "handler", h.seq)
  /\ \A i \in Barriers(outq, "handler") :
       h.reply = "none" /\ h.pc = IF outq[i].cmd = "flush" THEN "flushWait" ELSE "stopWait"

ReaderWaits ==
  Barriers(outq, "in") # {} =>
    iw.pc = "bwait" /\ iw.reply = "none" /\ OneBarrier(outq, "in", Head(iw.pending))

WritesKept ==
  ~ow.poisoned /\ (ow.up \/ ~Stopping) =>
    \A t \in Urbs : Writes(t) /\ ~Mine(t) =>
      t \in Held \/ urb[t].ret = "err" \/ t \in Sent(outq)

(* A good answer tells the truth, and stays true until it is used.         *)
ReadBarrierTrue ==
  iw.reply = "ok" =>
    /\ iw.pc = "bwait" => WritesSettledBefore(Head(iw.pending))
    /\ iw.pc = "drain" => WritesSettledBefore(iw.seq)

ControlBarrierTrue ==
  \/ At("flushWait") /\ h.reply = "ok"
  \/ At("sync") /\ urb[h.seq].kind = "ctl"
  => WritesSettledBefore(h.seq)

(* What is acknowledged is in the buffer at least, and at the device after *)
(* a good shutdown.                                                        *)
AckedKept ==
  /\ ow.up =>
       /\ \A t \in Urbs : Writes(t) /\ urb[t].ret = "ok" => t \in Held
       /\ \A i \in 1 .. Len(outEv) :
            outEv[i].ok /\ Current(outEv[i].seq) => outEv[i].seq \in Held
  /\ (At("stopWait") \/ At("stopped")) /\ h.reply = "ok" =>
       \A t \in Urbs : Writes(t) /\ urb[t].ret = "ok" => t \in written

Order ==
  /\ Attached /\ HandlerWaits /\ ReaderWaits /\ WritesKept
  /\ ReadBarrierTrue /\ ControlBarrierTrue /\ AckedKept

OrderInv == PipelineInv /\ Order

----------------------------------------------------------------------------
(* Lemmas about what every step keeps.                                     *)

(* A new URB is in the handler's hands.                                    *)
LEMMA NewWrite ==
  ASSUME PipelineInv, [Next]_vars,
         NEW t \in Urbs, ~(t < next), Writes(t)'
  PROVE  Mine(t)'
  <1>1. urb'[t] # Unsent
    BY DEF Writes, Unsent
  <1>2. PICK kind \in Kinds : ReadSubmit(kind)
    BY <1>1, History
  <1>3. /\ urb \in [Urbs -> UrbState] /\ h \in HandlerState /\ next \in Urbs
        /\ h' = IF imported THEN [h EXCEPT !.pc = Route(kind), !.seq = next] ELSE h
        /\ urb' = [urb EXCEPT ![next] =
             [Unsent EXCEPT !.kind = IF imported THEN kind ELSE "ignored", !.gen = gen]]
    BY <1>2 DEF PipelineInv, TypeOK, ReadSubmit
  <1>4. \A s \in Urbs : ~(s < next) => urb[s] = Unsent
    BY DEF PipelineInv, Books, Numbered
  <1>5. t = next
    BY <1>1, <1>3, <1>4
  <1>6. urb'[next].kind = IF imported THEN kind ELSE "ignored"
    BY <1>3 DEF Unsent
  <1>7. imported
    BY <1>5, <1>6 DEF Writes
  <1>8. h'.pc = Route(kind) /\ h'.seq = next
    BY <1>3, <1>7 DEF HandlerState
  <1>9. Route(kind) \in {"sendIn", "sendOut", "flushSend", "sync"}
    BY PipelineAssumption DEF Route
  <1> QED BY <1>5, <1>8, <1>9 DEF Mine, Answering

(* What has reached the device has reached it.                             *)
LEMMA WrittenStays ==
  ASSUME [Next]_vars PROVE written \subseteq written'
  BY DEF Next, vars, Peer, ReadSubmit, ReadUnlink, ReadStop, WriteFails, Closing, HandlerStep,
         SendIn, SendOut, ControlBarrier, ControlBarrierDone, SyncSubmit, SendUnlink,
         StopSend, StopDone, Import, Close, StopTimeout, InEvent, OutEvent,
         InWorkerStep, InOpen, InCommand, InBarrierSend, InBarrierDone, InDrain, InSubmit,
         InComplete, InOnly, OutWorkerStep, OutSubmit, OutFlush, OutShutdown, OutUnlink,
         OutIdleFlush, AfterFlush

(* Writes that are settled stay so.                                        *)
LEMMA SettledStays ==
  ASSUME PipelineInv, [Next]_vars, gen' = gen,
         NEW s \in Nat, s <= next, WritesSettledBefore(s)
  PROVE  WritesSettledBefore(s)'
  <1>1. Urbs \subseteq Nat /\ next \in Nat
    BY LineUrbs
  <1>2. ASSUME NEW t \in Urbs, t < s, urb'[t].kind = "out", urb'[t].gen = gen'
        PROVE  Settled(t)'
    <2>1. t < next
      BY <1>1, <1>2
    <2>2. urb[t].kind = "out" /\ urb[t].gen = gen /\ (urb[t].ret = "err" => urb'[t].ret = "err")
      BY <1>2, <2>1, History
    <2>3. Settled(t)
      BY <1>2, <2>2 DEF WritesSettledBefore
    <2> QED BY <2>2, <2>3, WrittenStays DEF Settled
  <1> QED BY <1>2 DEF WritesSettledBefore

(* When nothing earlier is in the channel, everything earlier is held.     *)
LEMMA HeldBefore ==
  ASSUME PipelineInv, WritesKept, ~ow.poisoned, ow.up \/ ~Stopping,
         NEW s \in Nat, Answering => s <= h.seq,
         \A t \in Sent(outq) : ~(t < s)
  PROVE  \A t \in Urbs : t < s /\ Writes(t) => t \in Held \/ urb[t].ret = "err"
  <1>1. Urbs \subseteq Nat /\ (Answering => h.seq \in Urbs)
    BY LineUrbs DEF PipelineInv, Books, Busy
  <1>2. ASSUME NEW t \in Urbs, t < s, Writes(t) PROVE t \in Held \/ urb[t].ret = "err"
    <2>1. ~Mine(t)
      BY <1>1, <1>2 DEF Mine
    <2> QED BY <1>2, <2>1 DEF WritesKept
  <1> QED BY <1>2

(* No write is lost in a step that keeps the worker's buffer and channel.  *)
LEMMA KeptStays ==
  ASSUME PipelineInv, WritesKept, [Next]_vars, gen' = gen,
         ow.poisoned => ow'.poisoned,
         ow'.up \/ ~Stopping' => ow.up \/ ~Stopping,
         ~ow'.poisoned => Held \subseteq Held',
         ~ow'.poisoned => \A t \in Sent(outq) : t \in Sent(outq') \/ t \in Held',
         \A t \in Urbs : Writes(t) /\ Mine(t) /\ ~Mine(t)' =>
           t \in Held' \/ urb'[t].ret = "err" \/ t \in Sent(outq')
  PROVE  WritesKept'
  <1>1. ASSUME ~ow'.poisoned, ow'.up \/ ~Stopping',
               NEW t \in Urbs, Writes(t)', ~Mine(t)'
        PROVE  t \in Held' \/ urb'[t].ret = "err" \/ t \in Sent(outq')
    <2>1. t < next
      BY <1>1, NewWrite
    <2>2. Writes(t) /\ (urb[t].ret = "err" => urb'[t].ret = "err")
      BY <1>1, <2>1, History DEF Writes, Current
    <2>3. CASE Mine(t)
      BY <1>1, <2>2, <2>3
    <2>4. CASE ~Mine(t)
      BY <1>1, <2>2, <2>4 DEF WritesKept
    <2> QED BY <2>3, <2>4
  <1> QED BY <1>1 DEF WritesKept

(* Nor is what was acknowledged, when only what is held is acknowledged.   *)
LEMMA AckedStays ==
  ASSUME PipelineInv, Attached, AckedKept, [Next]_vars, gen' = gen,
         ow'.up => ow.up /\ Held \subseteq Held',
         ow'.up => \A t \in Urbs : Writes(t) /\ urb[t].ret # "ok" /\ urb'[t].ret = "ok" => t \in Held',
         \A i \in 1 .. Len(outEv') :
           \/ \E k \in 1 .. Len(outEv) : outEv'[i] = outEv[k]
           \/ outEv'[i].ok => outEv'[i].seq \in Held',
         outEv \in Seq(Events),
         (At("stopWait") \/ At("stopped"))' /\ h'.reply = "ok" =>
           (At("stopWait") \/ At("stopped")) /\ h.reply = "ok" /\ UNCHANGED urb
  PROVE  AckedKept'
  <1>1. ASSUME ow'.up, NEW t \in Urbs, Writes(t)', urb'[t].ret = "ok" PROVE t \in Held'
    <2>1. t < next
      <3>1. CASE ~(t < next)
        <4>1. Mine(t)'
          BY <1>1, <3>1, NewWrite
        <4>2. Live(t)'
          BY <4>1, InvNext DEF PipelineInv, Books, Busy, Mine
        <4> QED BY <1>1, <4>2 DEF Live
      <3> QED BY <3>1
    <2>2. Writes(t)
      BY <1>1, <2>1, History DEF Writes, Current
    <2> QED BY <1>1, <2>2 DEF AckedKept
  <1>2. ASSUME ow'.up, NEW i \in 1 .. Len(outEv'), outEv'[i].ok, Current(outEv[i].seq)'
        PROVE  outEv'[i].seq \in Held'
    <2>1. CASE \E k \in 1 .. Len(outEv) : outEv'[i] = outEv[k]
      <3>1. PICK k \in 1 .. Len(outEv) : outEv'[i] = outEv[k]
        BY <2>1
      <3>2. outEv[k].seq \in Urbs /\ outEv[k].seq < next
        <4>1. outEv[k] \in Events /\ outEv[k].seq \in Seqs(outEv)
          BY DEF Seqs
        <4> QED BY <4>1 DEF Events, Attached
      <3>3. Current(outEv[k].seq)
        BY <1>2, <3>1, <3>2, History DEF Current
      <3> QED BY <1>2, <3>1, <3>3 DEF AckedKept
    <2> QED BY <1>2, <2>1
  <1>3. ASSUME (At("stopWait") \/ At("stopped"))', h'.reply = "ok",
               NEW t \in Urbs, Writes(t)', urb'[t].ret = "ok"
        PROVE  t \in written'
    <2>1. (At("stopWait") \/ At("stopped")) /\ h.reply = "ok" /\ UNCHANGED urb
      BY <1>3 DEF At
    <2>2. Writes(t) /\ urb[t].ret = "ok"
      BY <1>3, <2>1 DEF Writes, Current
    <2>3. t \in written
      BY <2>1, <2>2 DEF AckedKept
    <2> QED BY <2>3, WrittenStays
  <1> QED BY <1>1, <1>2, <1>3 DEF AckedKept

(* The URBs that barriers are for have been numbered, and a read that is   *)
(* queued was submitted before what the handler is busy with.              *)
LEMMA BarrierUrbs ==
  ASSUME PipelineInv
  PROVE  /\ h \in HandlerState /\ iw \in InWorker /\ ow \in OutWorker
         /\ outq \in Seq(Commands) /\ outEv \in Seq(Events)
         /\ h.seq \in Nat /\ iw.seq \in Nat /\ next \in Nat
         /\ Answering => h.seq \in Urbs /\ h.seq < next /\ h.seq + 1 = next
         /\ iw.pending # <<>> =>
              /\ Head(iw.pending) \in Urbs /\ Head(iw.pending) \in Nat
              /\ Head(iw.pending) < next
              /\ Answering => Head(iw.pending) < h.seq
  <1>1. /\ h \in HandlerState /\ iw \in InWorker /\ iw.pending \in Seq(Urbs) /\ next \in Nat
        /\ ow \in OutWorker /\ outq \in Seq(Commands) /\ outEv \in Seq(Events)
    BY LineUrbs DEF PipelineInv, TypeOK, InWorker
  <1>2. h.seq \in Nat /\ iw.seq \in Nat
    BY <1>1, PipelineAssumption DEF HandlerState, InWorker
  <1>3. Answering => h.seq \in Urbs /\ h.seq + 1 = next
    BY DEF PipelineInv, Books, Busy
  <1>4. ASSUME iw.pending # <<>>
        PROVE  /\ Head(iw.pending) \in Urbs /\ Head(iw.pending) \in Nat
               /\ Head(iw.pending) < next
               /\ Answering => Head(iw.pending) < h.seq
    <2>1. Head(iw.pending) \in OnLine
      BY <1>1, <1>4, EmptyQueue DEF OnLine
    <2> QED BY <2>1, LineUrbs DEF PipelineInv, Line, LineOrdered, Below
  <1> QED BY <1>1, <1>2, <1>3, <1>4

(* Answers that nobody has used yet stay true.                             *)
LEMMA TruthStays ==
  ASSUME OrderInv, [Next]_vars, gen' = gen
  PROVE  /\ UNCHANGED iw => ReadBarrierTrue'
         /\ h'.pc = h.pc /\ h'.seq = h.seq /\ h'.reply = h.reply => ControlBarrierTrue'
  <1> USE DEF OrderInv, Order
  <1>1. ASSUME UNCHANGED iw PROVE ReadBarrierTrue'
    <2>1. iw.pc = "bwait" => iw.pending # <<>>
      BY DEF PipelineInv, Line, Attended
    <2>2. iw.pc = "drain" => iw.seq < next
      BY DEF Attached
    <2>3. ASSUME iw.reply = "ok", iw.pc = "bwait" PROVE WritesSettledBefore(Head(iw.pending))'
      <3>1. WritesSettledBefore(Head(iw.pending))
        BY <2>3 DEF ReadBarrierTrue
      <3> DEFINE s == Head(iw.pending)
      <3>2. s \in Nat /\ s <= next /\ s' = s
        BY <1>1, <2>1, <2>3, BarrierUrbs
      <3>3. PICK k : k = s
        OBVIOUS
      <3> HIDE DEF s
      <3>4. WritesSettledBefore(k)'
        BY <3>1, <3>2, <3>3, SettledStays DEF s
      <3> QED BY <3>2, <3>3, <3>4 DEF s
    <2>4. ASSUME iw.reply = "ok", iw.pc = "drain" PROVE WritesSettledBefore(iw.seq)'
      <3>1. PICK k : k = iw.seq
        OBVIOUS
      <3>2. k \in Nat /\ k <= next /\ WritesSettledBefore(k)
        BY <2>2, <2>4, <3>1, BarrierUrbs DEF ReadBarrierTrue
      <3>3. WritesSettledBefore(k)'
        BY <3>2, SettledStays
      <3> QED BY <1>1, <3>1, <3>3
    <2> QED BY <1>1, <2>3, <2>4 DEF ReadBarrierTrue
  <1>2. ASSUME h'.pc = h.pc, h'.seq = h.seq, h'.reply = h.reply PROVE ControlBarrierTrue'
    <2>1. CASE Answering
      <3>1. PICK k : k = h.seq
        OBVIOUS
      <3>2. k \in Nat /\ k <= next /\ k \in Urbs /\ k < next
        BY <2>1, <3>1, BarrierUrbs
      <3>3. WritesSettledBefore(k) => WritesSettledBefore(k)'
        BY <3>2, SettledStays
      <3>4. urb'[k].kind = urb[k].kind
        BY <3>2, History
      <3> QED BY <1>2, <3>1, <3>3, <3>4 DEF ControlBarrierTrue, At
    <2>2. CASE ~Answering
      BY <1>2, <2>2 DEF ControlBarrierTrue, At, Answering
    <2> QED BY <2>1, <2>2
  <1> QED BY <1>1, <1>2

(* A handler that does not wait has no barrier in the channel.             *)
LEMMA NoHandlerBarrier ==
  ASSUME OrderInv, h.pc \notin {"flushWait", "stopWait"} \/ h.reply # "none"
  PROVE  Barriers(outq, "handler") = {}
  BY DEF OrderInv, Order, HandlerWaits

(* Without a barrier in it the channel says nothing.                       *)
LEMMA NobodyWaits ==
  ASSUME NEW q \in Seq(Commands), NEW who, NEW s, Barriers(q, who) = {}
  PROVE  OneBarrier(q, who, s)
  BY DEF OneBarrier

----------------------------------------------------------------------------
(* Every action keeps the invariant.                                       *)

(* USBIP_CMD_SUBMIT: a control transfer that is served at once has no OUT  *)
(* worker to wait for.                                                     *)
LEMMA OrderReadSubmit ==
  ASSUME OrderInv, [Next]_vars, NEW kind \in Kinds, ReadSubmit(kind)
  PROVE  Order'
  <1> USE DEF OrderInv, Order
  <1>1. /\ h.pc = "select" /\ next \in Urbs /\ next' = next + 1
        /\ h' = IF imported THEN [h EXCEPT !.pc = Route(kind), !.seq = next] ELSE h
        /\ UNCHANGED <<gen, bulkOut, outq, outEv, iw, ow, written>>
    BY DEF ReadSubmit, At, books
  <1>2. h \in HandlerState /\ next \in Nat /\ Urbs \subseteq Nat
    BY BarrierUrbs, LineUrbs
  <1>3. /\ \A t \in Urbs : t # next => urb'[t] = urb[t]
        /\ urb'[next].kind = (IF imported THEN kind ELSE "ignored") /\ urb'[next].ret = "none"
    BY <1>1 DEF ReadSubmit, PipelineInv, TypeOK, Unsent
  <1>4. h'.reply = h.reply /\ h.reply = "none"
    BY <1>1, <1>2 DEF HandlerState, Attached
  <1>5. \/ h'.pc = "select"
        \/ imported /\ h'.pc = Route(kind) /\ h'.seq = next
    BY <1>1, <1>2 DEF HandlerState
  <1>6. /\ h'.pc \in {"select", "sendIn", "sendOut", "flushSend", "sync"}
        /\ h'.pc \in {"sendOut", "flushSend"} => ow.up
        /\ h'.pc = "sync" => ~ow.up
    BY <1>5, PipelineAssumption DEF Route
  <1>7. ~Stopping /\ ~Answering
    BY <1>1 DEF Stopping, Answering
  <1>8. Attached'
    <2>1. Sent(outq) \cup Seqs(outEv) \subseteq Urbs
      <3>1. \A i \in 1 .. Len(outEv) : outEv[i] \in Events
        BY BarrierUrbs
      <3>2. \A i \in 1 .. Len(outq) : outq[i] \in Commands
        BY BarrierUrbs
      <3>3. \A c \in Commands : c.cmd = "submit" => c.arg \in Urbs
        BY DEF Commands, Command
      <3> QED BY <3>1, <3>2, <3>3 DEF Sent, Seqs, Events
    <2>2. \A s \in Sent(outq) \cup Seqs(outEv) : s < next'
      BY <1>1, <1>2, <2>1 DEF Attached
    <2>3. iw.pc = "drain" => iw.seq < next'
      BY <1>1, BarrierUrbs DEF Attached
    <2> QED BY <1>1, <1>4, <1>6, <1>7, <2>2, <2>3 DEF Attached, At
  <1>9. HandlerWaits'
    <2>1. Barriers(outq', "handler") = {}
      BY <1>1, NoHandlerBarrier
    <2> QED BY <2>1 DEF HandlerWaits, OneBarrier
  <1>10. ReaderWaits'
    BY <1>1 DEF ReaderWaits
  <1>11. WritesKept'
    BY <1>1, <1>7, KeptStays DEF Held, Mine
  <1>12. ReadBarrierTrue'
    BY <1>1, TruthStays
  <1>13. ControlBarrierTrue'
    <2>1. CASE ~(h'.pc = "sync" /\ kind = "ctl")
      BY <1>3, <1>5, <1>6, <2>1 DEF ControlBarrierTrue, At
    <2>2. CASE h'.pc = "sync" /\ kind = "ctl"
      <3>1. ~ow.up /\ h'.seq = next
        BY <1>5, <1>6, <2>2
      <3>2. ~ow.poisoned /\ Held = written /\ outq = <<>>
        BY <3>1 DEF Attached, NoOutWorker, Held
      <3>3. \A t \in Urbs : t < next /\ Writes(t) => t \in Held \/ urb[t].ret = "err"
        BY <1>2, <1>7, <3>2, HeldBefore, EmptyQueue
      <3>4. WritesSettledBefore(next)
        BY <3>2, <3>3 DEF WritesSettledBefore, Writes, Current, Settled
      <3>5. PICK k : k = next
        OBVIOUS
      <3>6. WritesSettledBefore(k)'
        BY <1>1, <1>2, <3>4, <3>5, SettledStays
      <3> QED BY <3>1, <3>5, <3>6 DEF ControlBarrierTrue
    <2> QED BY <2>1, <2>2
  <1>14. AckedKept'
    <2>1. \A t \in Urbs : urb'[t].ret = "ok" => urb[t].ret = "ok"
      BY <1>3
    <2> QED BY <1>1, <1>6, <2>1, AckedStays, BarrierUrbs DEF Held, At
  <1> QED BY <1>8, <1>9, <1>10, <1>11, <1>12, <1>13, <1>14

(* USBIP_CMD_UNLINK touches no data.                                       *)
LEMMA OrderReadUnlink ==
  ASSUME OrderInv, [Next]_vars, NEW t \in Urbs, ReadUnlink(t)
  PROVE  Order'
  <1> USE DEF OrderInv, Order
  <1>1. /\ h.pc = "select" /\ UNCHANGED <<next, gen, outq, outEv, iw, ow, written>>
        /\ bulkOut' \subseteq bulkOut
        /\ \/ h' = h
           \/ h' = [h EXCEPT !.pc = "unlinkIn", !.seq = t]
           \/ h' = [h EXCEPT !.pc = "unlinkOut", !.seq = t] /\ t \in bulkOut
    BY DEF ReadUnlink, At
  <1>2. PICK u \in {"reset", "late"} : urb' = [urb EXCEPT ![t].unl = u]
    BY Zenon DEF ReadUnlink
  <1>3. \A s \in Urbs : urb'[s].ret = urb[s].ret
    BY <1>2, UnlinkedOnce DEF PipelineInv, TypeOK
  <1>4. /\ h'.pc \in {"select", "unlinkIn", "unlinkOut"} /\ h'.reply = "none"
        /\ h'.pc = "unlinkOut" => t \in bulkOut
    BY <1>1, BarrierUrbs DEF HandlerState, Attached
  <1>5. ~Stopping /\ ~Answering
    BY <1>1 DEF Stopping, Answering
  <1>6. Attached'
    BY <1>1, <1>4, <1>5 DEF Attached, At
  <1>7. HandlerWaits'
    <2>1. Barriers(outq', "handler") = {}
      BY <1>1, NoHandlerBarrier
    <2> QED BY <2>1 DEF HandlerWaits, OneBarrier
  <1>8. ReaderWaits'
    BY <1>1 DEF ReaderWaits
  <1>9. WritesKept'
    BY <1>1, <1>5, KeptStays DEF Held, Mine
  <1>10. ReadBarrierTrue'
    BY <1>1, TruthStays
  <1>11. ControlBarrierTrue'
    BY <1>4 DEF ControlBarrierTrue, At
  <1>12. AckedKept'
    BY <1>1, <1>3, <1>4, AckedStays, BarrierUrbs DEF Held, At
  <1> QED BY <1>6, <1>7, <1>8, <1>9, <1>10, <1>11, <1>12

(* OP_REQ_IMPORT or the end of the stream: the barrier of the IN worker    *)
(* has nobody to wait for it any more.                                     *)
LEMMA OrderReadStop ==
  ASSUME OrderInv, [Next]_vars, NEW then \in {"import", "close"}, ReadStop(then)
  PROVE  Order'
  <1> USE DEF OrderInv, Order
  <1>1. /\ h.pc = "select" /\ UNCHANGED <<next, urb, gen, bulkOut, outEv, ow, written>>
        /\ iw' = NoInWorker /\ outq' = Orphaned(outq)
        /\ h' = [Selecting EXCEPT !.pc = IF ow.up THEN "stopSend" ELSE "stopped", !.then = then]
    BY DEF ReadStop, At, books
  <1>2. h'.pc = (IF ow.up THEN "stopSend" ELSE "stopped") /\ h'.reply = "none"
    BY <1>1 DEF Selecting
  <1>3. /\ Barriers(outq', "in") = {} /\ Barriers(outq', "handler") = {}
        /\ Sent(outq') = Sent(outq) /\ (outq = <<>> => outq' = <<>>)
    <2>1. Len(outq') = Len(outq) /\ outq' \in Seq(Commands)
      BY <1>1, OrphanedChannel, BarrierUrbs
    <2>2. outq = <<>> => outq' = <<>>
      BY <2>1
    <2> QED BY <1>1, <2>2, NoHandlerBarrier, BarriersOrphaned, BarrierUrbs
  <1>4. ~Stopping /\ ~Answering /\ Stopping' /\ iw'.pc = "gone"
    BY <1>1, <1>2, RestingStates DEF Stopping, Answering
  <1>5. Attached'
    BY <1>1, <1>2, <1>3, <1>4 DEF Attached, At
  <1>6. HandlerWaits'
    BY <1>3 DEF HandlerWaits, OneBarrier
  <1>7. ReaderWaits'
    BY <1>3 DEF ReaderWaits
  <1>8. WritesKept'
    BY <1>1, <1>3, <1>4, KeptStays DEF Held, Mine
  <1>9. ReadBarrierTrue'
    BY <1>4 DEF ReadBarrierTrue
  <1>10. ControlBarrierTrue'
    BY <1>2 DEF ControlBarrierTrue, At
  <1>11. AckedKept'
    BY <1>1, <1>2, AckedStays, BarrierUrbs DEF Held, At
  <1> QED BY <1>5, <1>6, <1>7, <1>8, <1>9, <1>10, <1>11

(* A read is handed to its worker, or served at once.                      *)
LEMMA OrderSendIn ==
  ASSUME OrderInv, [Next]_vars, SendIn
  PROVE  Order'
  <1> USE DEF OrderInv, Order
  <1>1. /\ h.pc = "sendIn" /\ UNCHANGED <<next, urb, gen, bulkOut, outq, outEv, iw, ow, written>>
        /\ h' = [h EXCEPT !.pc = "sync"] \/ h' = Selecting
    BY DEF SendIn, At
  <1>2. Answering /\ urb[h.seq].kind = "in" /\ h.reply = "none"
    BY <1>1 DEF Answering, At, PipelineInv, Books, Busy, Attached
  <1>3. /\ h'.pc \in {"sync", "select"} /\ h'.reply = "none"
        /\ h'.pc = "sync" => h'.seq = h.seq
    BY <1>1, <1>2, RestingStates, BarrierUrbs DEF HandlerState
  <1>4. ~Stopping /\ \A t \in Urbs : Mine(t) => ~Writes(t)
    BY <1>1, <1>2 DEF Stopping, Mine, Writes
  <1>5. Attached'
    BY <1>1, <1>3, <1>4 DEF Attached, At
  <1>6. HandlerWaits'
    <2>1. Barriers(outq', "handler") = {}
      BY <1>1, NoHandlerBarrier
    <2> QED BY <2>1 DEF HandlerWaits, OneBarrier
  <1>7. ReaderWaits'
    BY <1>1 DEF ReaderWaits
  <1>8. WritesKept'
    BY <1>1, <1>4, KeptStays DEF Held
  <1>9. ReadBarrierTrue'
    BY <1>1, TruthStays
  <1>10. ControlBarrierTrue'
    BY <1>1, <1>2, <1>3 DEF ControlBarrierTrue, At
  <1>11. AckedKept'
    BY <1>1, <1>3, AckedStays, BarrierUrbs DEF Held, At
  <1> QED BY <1>5, <1>6, <1>7, <1>8, <1>9, <1>10, <1>11

(* A write joins the channel, behind every barrier in it.                  *)
LEMMA OrderSendOut ==
  ASSUME OrderInv, [Next]_vars, SendOut
  PROVE  Order'
  <1> USE DEF OrderInv, Order
  <1>1. /\ h.pc = "sendOut" /\ UNCHANGED <<next, urb, gen, outEv, iw, ow, written>>
        /\ outq' = Append(outq, Command("submit", h.seq)) /\ h' = Selecting
    BY DEF SendOut, At
  <1>2. Answering /\ h.seq \in Urbs /\ h.seq < next /\ ow.up
    BY <1>1, BarrierUrbs DEF Answering, Attached
  <1>3. h'.pc = "select" /\ h'.reply = "none" /\ ~Stopping
    BY <1>1, RestingStates DEF Stopping
  <1>4. PICK c : c = Command("submit", h.seq)
    OBVIOUS
  <1>5. c \in Commands /\ c.cmd = "submit" /\ c.arg = h.seq
    BY <1>2, <1>4, CommandsAre
  <1>6. /\ Sent(outq') = Sent(outq) \cup {h.seq}
        /\ Barriers(outq', "handler") = Barriers(outq, "handler")
        /\ Barriers(outq', "in") = Barriers(outq, "in")
        /\ \A s : OneBarrier(outq, "in", s) /\ (Barriers(outq, "in") # {} => s < h.seq) =>
             OneBarrier(outq', "in", s)
    BY <1>1, <1>4, <1>5, CommandSent, BarriersSent, BarrierUrbs, ZenonT(30)
  <1>7. Attached'
    BY <1>1, <1>2, <1>3, <1>6 DEF Attached, At
  <1>8. HandlerWaits'
    <2>1. Barriers(outq', "handler") = {}
      BY <1>1, <1>6, NoHandlerBarrier
    <2> QED BY <2>1 DEF HandlerWaits, OneBarrier
  <1>9. ReaderWaits'
    <2>1. Barriers(outq, "in") # {} => iw.pending # <<>> /\ Head(iw.pending) < h.seq
      BY <1>2, BarrierUrbs DEF ReaderWaits, PipelineInv, Line, Attended
    <2> QED BY <1>1, <1>6, <2>1 DEF ReaderWaits
  <1>10. WritesKept'
    BY <1>1, <1>2, <1>3, <1>6, KeptStays DEF Held, Mine
  <1>11. ReadBarrierTrue'
    BY <1>1, TruthStays
  <1>12. ControlBarrierTrue'
    BY <1>3 DEF ControlBarrierTrue, At
  <1>13. AckedKept'
    BY <1>1, <1>3, AckedStays, BarrierUrbs DEF Held, At
  <1> QED BY <1>7, <1>8, <1>9, <1>10, <1>11, <1>12, <1>13

(* The handler sends a barrier, or the shutdown, and waits for the answer. *)
LEMMA OrderHandlerWaits ==
  ASSUME OrderInv, [Next]_vars, ControlBarrier \/ StopSend
  PROVE  Order'
  <1> USE DEF OrderInv, Order
  <1>1. PICK cmd, pc : \/ cmd = "flush" /\ pc = "flushWait" /\ h.pc = "flushSend"
                          /\ outq' = Append(outq, Command(cmd, "handler")) /\ h' = [h EXCEPT !.pc = pc]
                       \/ cmd = "shutdown" /\ pc = "stopWait" /\ h.pc = "stopSend"
                          /\ outq' = Append(outq, Command(cmd, "handler")) /\ h' = [h EXCEPT !.pc = pc]
    BY DEF ControlBarrier, StopSend, At
  <1>2. /\ outq' = Append(outq, Command(cmd, "handler")) /\ h' = [h EXCEPT !.pc = pc]
        /\ UNCHANGED <<next, urb, gen, bulkOut, outEv, iw, ow, written>>
    BY <1>1 DEF ControlBarrier, StopSend, books
  <1>3. ow.up /\ h.reply = "none" /\ h'.pc = pc /\ h'.reply = "none" /\ h'.seq = h.seq
    BY <1>1, <1>2, BarrierUrbs DEF Attached, HandlerState
  <1>4. PICK c : c = Command(cmd, "handler")
    OBVIOUS
  <1>5. c \in Commands /\ c.cmd = cmd /\ c.arg = "handler" /\ cmd \in {"flush", "shutdown"}
    BY <1>1, <1>4, CommandsAre
  <1>6. Barriers(outq, "handler") = {}
    BY <1>1, NoHandlerBarrier
  <1>7. /\ Sent(outq') = Sent(outq)
        /\ OneBarrier(outq', "handler", h.seq)
        /\ Barriers(outq', "in") = Barriers(outq, "in")
        /\ \A s : OneBarrier(outq, "in", s) => OneBarrier(outq', "in", s)
        /\ \A i \in 1 .. Len(outq') : outq'[i] = c \/ \E k \in 1 .. Len(outq) : outq'[i] = outq[k]
    BY <1>2, <1>4, <1>5, <1>6, CommandSent, BarriersSent, BarrierUrbs
  <1>8. /\ Stopping' <=> Stopping
        /\ \A t \in Urbs : Mine(t)' <=> Mine(t)
    BY <1>1, <1>3 DEF Stopping, Mine, Answering
  <1>9. Attached'
    BY <1>1, <1>2, <1>3, <1>7, <1>8, EmptyQueue DEF Attached, At
  <1>10. HandlerWaits'
    <2>1. ASSUME NEW i \in Barriers(outq', "handler") PROVE outq'[i] = c
      <3>1. i \in 1 .. Len(outq') /\ outq'[i].cmd \in {"flush", "shutdown"} /\ outq'[i].arg = "handler"
        BY <2>1 DEF Barriers
      <3>2. ASSUME NEW k \in 1 .. Len(outq), outq'[i] = outq[k] PROVE FALSE
        BY <1>6, <3>1, <3>2 DEF Barriers
      <3> QED BY <1>7, <3>1, <3>2
    <2> QED BY <1>1, <1>3, <1>5, <1>7, <2>1 DEF HandlerWaits
  <1>11. ReaderWaits'
    BY <1>2, <1>7 DEF ReaderWaits
  <1>12. WritesKept'
    BY <1>2, <1>7, <1>8, KeptStays DEF Held
  <1>13. ReadBarrierTrue'
    BY <1>2, TruthStays
  <1>14. ControlBarrierTrue'
    BY <1>1, <1>3 DEF ControlBarrierTrue, At
  <1>15. AckedKept'
    BY <1>2, <1>3, AckedStays, BarrierUrbs DEF Held
  <1> QED BY <1>9, <1>10, <1>11, <1>12, <1>13, <1>14, <1>15

(* The barrier before a control transfer is answered: a good answer lets   *)
(* the transfer go on.                                                     *)
LEMMA OrderControlBarrierDone ==
  ASSUME OrderInv, [Next]_vars, ControlBarrierDone
  PROVE  Order'
  <1> USE DEF OrderInv, Order
  <1>1. /\ h.pc = "flushWait" /\ h.reply # "none"
        /\ UNCHANGED <<next, gen, bulkOut, outq, outEv, iw, ow, written>>
        /\ \/ h.reply = "ok" /\ h' = [h EXCEPT !.pc = "sync", !.reply = "none"] /\ UNCHANGED urb
           \/ h' = Selecting /\ urb' = Answered(h.seq, FALSE)
    BY DEF ControlBarrierDone, At, books
  <1>2. /\ Answering /\ urb[h.seq].kind = "ctl" /\ h.seq \in Urbs /\ urb[h.seq].ret = "none"
        /\ h.seq < next
    BY <1>1, BarrierUrbs DEF Answering, PipelineInv, Books, Busy, Live
  <1>3. \A t \in Urbs : urb'[t].ret = "ok" => urb[t].ret = "ok"
    <2>1. CASE urb' = Answered(h.seq, FALSE)
      <3>1. PICK v : v = Answered(h.seq, FALSE)
        OBVIOUS
      <3>2. v[h.seq].ret = "err" /\ \A t \in Urbs : t # h.seq => v[t] = urb[t]
        BY <1>2, <3>1, AnsweredOnce DEF PipelineInv, TypeOK
      <3> QED BY <2>1, <3>1, <3>2
    <2> QED BY <1>1, <2>1
  <1>4. /\ h'.pc \in {"sync", "select"} /\ h'.reply = "none"
        /\ h'.pc = "sync" => h'.seq = h.seq /\ h.reply = "ok"
    BY <1>1, RestingStates, BarrierUrbs DEF HandlerState
  <1>5. ~Stopping /\ \A t \in Urbs : Mine(t) => ~Writes(t)
    BY <1>1, <1>2 DEF Stopping, Mine, Writes
  <1>6. Attached'
    BY <1>1, <1>4, <1>5 DEF Attached, At
  <1>7. HandlerWaits'
    <2>1. Barriers(outq', "handler") = {}
      BY <1>1, NoHandlerBarrier
    <2> QED BY <2>1 DEF HandlerWaits, OneBarrier
  <1>8. ReaderWaits'
    BY <1>1 DEF ReaderWaits
  <1>9. WritesKept'
    BY <1>1, <1>5, KeptStays DEF Held
  <1>10. ReadBarrierTrue'
    BY <1>1, TruthStays
  <1>11. ControlBarrierTrue'
    <2>1. PICK k : k = h.seq
      OBVIOUS
    <2>2. CASE h'.pc = "sync"
      <3>1. WritesSettledBefore(k) /\ k \in Nat /\ k <= next
        BY <1>1, <1>2, <1>4, <2>1, <2>2, BarrierUrbs DEF ControlBarrierTrue, At
      <3>2. WritesSettledBefore(k)'
        BY <1>1, <3>1, SettledStays
      <3> QED BY <1>4, <2>1, <2>2, <3>2 DEF ControlBarrierTrue
    <2>3. CASE h'.pc # "sync"
      BY <1>4, <2>3 DEF ControlBarrierTrue, At
    <2> QED BY <2>2, <2>3
  <1>12. AckedKept'
    BY <1>1, <1>3, <1>4, AckedStays, BarrierUrbs DEF Held, At
  <1> QED BY <1>6, <1>7, <1>8, <1>9, <1>10, <1>11, <1>12

(* A request is served at once: a write reaches the device or fails.       *)
LEMMA OrderSyncSubmit ==
  ASSUME OrderInv, [Next]_vars, SyncSubmit
  PROVE  Order'
  <1> USE DEF OrderInv, Order
  <1>1. /\ h.pc = "sync" /\ h' = Selecting
        /\ UNCHANGED <<next, gen, bulkOut, outq, outEv, iw, ow>>
    BY DEF SyncSubmit, At, books
  <1>2. PICK ok \in BOOLEAN :
          /\ urb' = Answered(h.seq, ok)
          /\ written' = IF ok /\ urb[h.seq].kind = "out" THEN written \cup {h.seq} ELSE written
    BY DEF SyncSubmit
  <1>3. /\ Answering /\ h.seq \in Urbs /\ urb[h.seq].ret = "none"
    BY <1>1, BarrierUrbs DEF Answering, PipelineInv, Books, Busy, Live
  <1>4. /\ \A t \in Urbs : t # h.seq => urb'[t] = urb[t]
        /\ urb'[h.seq].ret = IF ok THEN "ok" ELSE "err"
    BY <1>2, <1>3, AnsweredOnce DEF PipelineInv, TypeOK
  <1>5. h'.pc = "select" /\ h'.reply = "none" /\ ~Stopping
    BY <1>1, RestingStates DEF Stopping
  <1>6. Writes(h.seq) => h.seq \in written' \/ urb'[h.seq].ret = "err"
    BY <1>2, <1>4 DEF Writes
  <1>7. Attached'
    BY <1>1, <1>5 DEF Attached, At
  <1>8. HandlerWaits'
    <2>1. Barriers(outq', "handler") = {}
      BY <1>1, NoHandlerBarrier
    <2> QED BY <2>1 DEF HandlerWaits, OneBarrier
  <1>9. ReaderWaits'
    BY <1>1 DEF ReaderWaits
  <1>10. Held \subseteq Held'
    BY <1>1, <1>2 DEF Held
  <1>11. WritesKept'
    BY <1>1, <1>5, <1>6, <1>10, KeptStays DEF Held, Mine
  <1>12. ReadBarrierTrue'
    BY <1>1, TruthStays
  <1>13. ControlBarrierTrue'
    BY <1>5 DEF ControlBarrierTrue, At
  <1>14. AckedKept'
    <2>1. \A t \in Urbs : Writes(t) /\ urb[t].ret # "ok" /\ urb'[t].ret = "ok" => t \in Held'
      BY <1>4, <1>6 DEF Held
    <2> QED BY <1>1, <1>5, <1>10, <2>1, AckedStays, BarrierUrbs DEF At
  <1> QED BY <1>7, <1>8, <1>9, <1>11, <1>12, <1>13, <1>14

(* A worker is told of an unlink.                                          *)
LEMMA OrderSendUnlink ==
  ASSUME OrderInv, [Next]_vars, SendUnlink
  PROVE  Order'
  <1> USE DEF OrderInv, Order
  <1>1. /\ h.pc \in {"unlinkIn", "unlinkOut"} /\ h' = Selecting
        /\ UNCHANGED <<next, urb, gen, bulkOut, outEv, iw, ow, written>>
        /\ \/ outq' = outq
           \/ h.pc = "unlinkOut" /\ outq' = Append(outq, Command("unlink", h.seq))
    BY DEF SendUnlink, At, books
  <1>2. /\ h'.pc = "select" /\ h'.reply = "none" /\ ~Stopping
        /\ \A t \in Urbs : ~Mine(t)
    BY <1>1, RestingStates DEF Stopping, Mine, Answering
  <1>3. PICK c : c = Command("unlink", h.seq)
    OBVIOUS
  <1>4. c \in Commands /\ c.cmd = "unlink"
    <2>1. h.seq \in Urbs
      BY <1>1 DEF PipelineInv, Books, Busy
    <2> QED BY <1>3, <2>1, CommandsAre
  <1>5. /\ Sent(outq') = Sent(outq) /\ (outq' # outq => ow.up)
        /\ Barriers(outq', "handler") = Barriers(outq, "handler")
        /\ Barriers(outq', "in") = Barriers(outq, "in")
        /\ \A s : OneBarrier(outq, "in", s) => OneBarrier(outq', "in", s)
    <2>1. CASE outq' = outq
      BY <2>1
    <2>2. CASE h.pc = "unlinkOut" /\ outq' = Append(outq, c)
      <3>1. ow.up
        BY <2>2 DEF Attached
      <3>2. Sent(outq') = Sent(outq)
        BY <1>4, <2>2, CommandSent, BarrierUrbs
      <3> QED BY <1>4, <2>2, <3>1, <3>2, BarriersSent, BarrierUrbs
    <2> QED BY <1>1, <1>3, <2>1, <2>2
  <1>6. Attached'
    BY <1>1, <1>2, <1>5 DEF Attached, At
  <1>7. HandlerWaits'
    <2>1. Barriers(outq', "handler") = {}
      BY <1>1, <1>5, NoHandlerBarrier
    <2> QED BY <2>1 DEF HandlerWaits, OneBarrier
  <1>8. ReaderWaits'
    BY <1>1, <1>5 DEF ReaderWaits
  <1>9. WritesKept'
    BY <1>1, <1>2, <1>5, KeptStays DEF Held
  <1>10. ReadBarrierTrue'
    BY <1>1, TruthStays
  <1>11. ControlBarrierTrue'
    BY <1>2 DEF ControlBarrierTrue, At
  <1>12. AckedKept'
    BY <1>1, <1>2, AckedStays, BarrierUrbs DEF Held, At
  <1> QED BY <1>6, <1>7, <1>8, <1>9, <1>10, <1>11, <1>12

(* The OUT worker has ended, in order or not: the channel is empty, and    *)
(* what is left to say is said by the answer.                              *)
LEMMA OrderStopped ==
  ASSUME OrderInv, [Next]_vars, StopDone \/ StopTimeout
  PROVE  Order'
  <1> USE DEF OrderInv, Order
  <1>1. /\ h.pc = "stopWait" /\ h' = [h EXCEPT !.pc = "stopped"]
        /\ UNCHANGED <<next, urb, gen, bulkOut, outEv, iw, written>>
    BY DEF StopDone, StopTimeout, At, books
  <1>2. h'.pc = "stopped" /\ h'.reply = h.reply /\ Stopping /\ Stopping' /\ ~Answering
    BY <1>1, BarrierUrbs DEF HandlerState, Stopping, Answering
  <1>3. iw.pc = "gone"
    BY <1>2 DEF PipelineInv, Line, Attended
  <1>4. ~ow'.up /\ ow' = NoOutWorker /\ outq' = <<>>
    <2>1. CASE StopDone
      BY <1>1, <2>1 DEF StopDone, Attached, At
    <2>2. CASE StopTimeout
      BY <2>2, RestingStates DEF StopTimeout
    <2> QED BY <2>1, <2>2
  <1>5. Attached'
    BY <1>1, <1>2, <1>3, <1>4, EmptyQueue DEF Attached, At
  <1>6. HandlerWaits' /\ ReaderWaits'
    BY <1>4, NoBarriers DEF HandlerWaits, ReaderWaits
  <1>7. WritesKept'
    BY <1>2, <1>4 DEF WritesKept
  <1>8. ReadBarrierTrue' /\ ControlBarrierTrue'
    BY <1>1, <1>2, TruthStays DEF ControlBarrierTrue, At
  <1>9. AckedKept'
    BY <1>1, <1>2, <1>4, AckedStays, BarrierUrbs DEF At
  <1> QED BY <1>5, <1>6, <1>7, <1>8, <1>9

(* The next import: no URB belongs to it yet.                              *)
LEMMA OrderImport ==
  ASSUME OrderInv, [Next]_vars, Import
  PROVE  Order'
  <1> USE DEF OrderInv, Order
  <1>1. /\ h.pc = "stopped" /\ h' = Selecting /\ gen' = gen + 1 /\ bulkOut' = {}
        /\ UNCHANGED <<next, urb, outq, outEv, written>>
    BY DEF Import, At
  <1>2. PICK ok \in BOOLEAN, opens \in OutOpens :
          /\ iw' = IF ok THEN [NoInWorker EXCEPT !.pc = "opening"] ELSE NoInWorker
          /\ ow' = IF ok THEN [NoOutWorker EXCEPT !.up = opens] ELSE NoOutWorker
    BY Zenon DEF Import
  <1>3. /\ iw'.pc \in {"opening", "gone"} /\ (~ow'.up => ow' = NoOutWorker)
        /\ h'.pc = "select" /\ h'.reply = "none"
    <2>1. opens \in BOOLEAN
      BY PipelineAssumption
    <2>2. iw'.pc \in {"opening", "gone"}
      BY <1>2 DEF NoInWorker
    <2>3. ~ow'.up => ow' = NoOutWorker
      BY <1>2, <2>1 DEF NoOutWorker
    <2> QED BY <1>1, <2>2, <2>3, RestingStates
  <1>4. outq' = <<>>
    BY <1>1 DEF Attached, At
  <1>5. \A t \in Urbs : ~Current(t)'
    <2>1. gen \in Nat /\ \A t \in Urbs : urb[t].gen \in Nat
      BY PipelineAssumption DEF PipelineInv, TypeOK, UrbState
    <2> QED BY <1>1, <2>1 DEF Current, PipelineInv, Books, Numbered
  <1>6. \A i \in 1 .. Len(outEv) : outEv[i].seq \in Urbs
    <2>1. \A i \in 1 .. Len(outEv) : outEv[i] \in Events
      BY BarrierUrbs
    <2> QED BY <2>1 DEF Events
  <1>7. Attached'
    BY <1>1, <1>3, <1>4, EmptyQueue DEF Attached, At
  <1>8. HandlerWaits' /\ ReaderWaits'
    BY <1>4, NoBarriers DEF HandlerWaits, ReaderWaits
  <1>9. WritesKept'
    BY <1>5 DEF WritesKept, Writes
  <1>10. ReadBarrierTrue' /\ ControlBarrierTrue'
    BY <1>3 DEF ReadBarrierTrue, ControlBarrierTrue, At
  <1>11. AckedKept'
    BY <1>1, <1>3, <1>5, <1>6 DEF AckedKept, Writes, At
  <1> QED BY <1>7, <1>8, <1>9, <1>10, <1>11

(* handler returns.                                                        *)
LEMMA OrderClosing ==
  ASSUME OrderInv, Closing
  PROVE  Order'
  <1>1. /\ h' = [Selecting EXCEPT !.pc = "closed"] /\ iw' = NoInWorker /\ ow' = NoOutWorker
        /\ outq' = <<>> /\ outEv' = <<>>
    BY DEF Closing
  <1>2. h'.pc = "closed" /\ h'.reply = "none" /\ ~ow'.up /\ Stopping' /\ iw'.pc = "gone"
    BY <1>1, RestingStates DEF Selecting, Stopping
  <1>3. Attached'
    BY <1>1, <1>2, EmptyQueue DEF Attached, At
  <1>4. HandlerWaits' /\ ReaderWaits'
    BY <1>1, NoBarriers DEF HandlerWaits, ReaderWaits
  <1>5. WritesKept' /\ ReadBarrierTrue' /\ ControlBarrierTrue' /\ AckedKept'
    BY <1>2 DEF WritesKept, ReadBarrierTrue, ControlBarrierTrue, AckedKept, At
  <1> QED BY <1>3, <1>4, <1>5 DEF Order

(* A completion is forwarded: that of a write was acknowledged by the      *)
(* worker that is up, when it belongs to this import.                      *)
LEMMA OrderEvents ==
  ASSUME OrderInv, [Next]_vars, InEvent \/ OutEvent
  PROVE  Order'
  <1> USE DEF OrderInv, Order
  <1>1. /\ h.pc = "select" /\ UNCHANGED <<next, h, gen, outq, iw, ow, written>>
    BY DEF InEvent, OutEvent, At
  <1>2. bulkOut' \subseteq bulkOut
    BY DEF InEvent, OutEvent
  <1>3. /\ \A i \in 1 .. Len(outEv') : \E k \in 1 .. Len(outEv) : outEv'[i] = outEv[k]
        /\ Seqs(outEv') \subseteq Seqs(outEv)
    <2>1. outEv' = outEv \/ (outEv # <<>> /\ outEv' = Tail(outEv))
      BY DEF InEvent, OutEvent
    <2>2. outEv \in Seq(Events)
      BY BarrierUrbs
    <2>3. \A i \in 1 .. Len(outEv') : \E k \in 1 .. Len(outEv) : outEv'[i] = outEv[k]
      BY <2>1, <2>2
    <2> QED BY <2>3 DEF Seqs
  <1>4. ~Stopping /\ \A t \in Urbs : ~Mine(t)
    BY <1>1 DEF Stopping, Mine, Answering
  <1>5. Attached'
    BY <1>1, <1>2, <1>3, <1>4 DEF Attached, At
  <1>6. HandlerWaits' /\ ReaderWaits'
    BY <1>1 DEF HandlerWaits, ReaderWaits
  <1>7. WritesKept'
    BY <1>1, <1>4, KeptStays DEF Held
  <1>8. ReadBarrierTrue' /\ ControlBarrierTrue'
    BY <1>1, TruthStays
  <1>9. ASSUME ow.up, NEW t \in Urbs, Writes(t), urb[t].ret # "ok", urb'[t].ret = "ok"
        PROVE  t \in Held
    <2>1. CASE InEvent
      <3>1. PICK s, ok : s = Head(inEv).seq /\ ok = Head(inEv).ok
        OBVIOUS
      <3>2. inEv # <<>> /\ SeqsInOrder(inEv) /\ inEv \in Seq(Events)
            /\ (urb' = urb \/ urb' = Answered(s, ok))
        BY <2>1, <3>1 DEF InEvent, PipelineInv, TypeOK, Line, LineOrdered
      <3>3. Head(inEv) \in Events /\ s \in OnLine
        BY <3>1, <3>2, EventTaken DEF OnLine
      <3>4. s \in Urbs /\ ok \in BOOLEAN /\ urb[s].kind = "in" /\ urb[s].ret = "none"
        BY <3>1, <3>3, LineUrbs DEF Events, PipelineInv, Line, LineUnanswered
      <3>5. t # s
        BY <1>9, <3>4 DEF Writes
      <3> QED BY <1>9, <3>2, <3>4, <3>5, AnsweredOnce DEF PipelineInv, TypeOK
    <2>2. CASE OutEvent
      <3>1. PICK s, ok : s = Head(outEv).seq /\ ok = Head(outEv).ok
        OBVIOUS
      <3>2. outEv # <<>> /\ (urb' = urb \/ (s \in bulkOut /\ urb' = Answered(s, ok)))
        BY <2>2, <3>1 DEF OutEvent, PipelineInv, TypeOK
      <3>3. outEv \in Seq(Events) /\ Head(outEv) = outEv[1] /\ 1 \in 1 .. Len(outEv)
            /\ Head(outEv) \in Events
        BY <3>2, BarrierUrbs
      <3>4. s \in Urbs /\ ok \in BOOLEAN
        BY <3>1, <3>3 DEF Events
      <3>5. s \in bulkOut => Current(s) /\ urb[s].ret = "none"
        BY DEF PipelineInv, Books, Tables, Live
      <3>6. s \in bulkOut /\ urb' = Answered(s, ok)
        BY <1>9, <3>2
      <3>7. t = s /\ ok
        BY <1>9, <3>4, <3>5, <3>6, AnsweredOnce DEF PipelineInv, TypeOK
      <3> QED BY <1>9, <3>1, <3>3, <3>5, <3>6, <3>7 DEF AckedKept
    <2> QED BY <2>1, <2>2
  <1>10. AckedKept'
    BY <1>1, <1>3, <1>9, AckedStays, BarrierUrbs DEF Held, At
  <1> QED BY <1>5, <1>6, <1>7, <1>8, <1>10

(* At the top of its loop the IN worker waits for no answer and has none.  *)
LEMMA LoopTopWaits ==
  ASSUME iw \in InWorker, NEW p, NEW a, NEW w,
         \/ w = iw
         \/ w = [iw EXCEPT !.pending = p]
         \/ w = [iw EXCEPT !.active = a]
         \/ w = [iw EXCEPT !.active = a, !.pending = p]
  PROVE  /\ LoopTop(w).pc \in {"read", "bsend", "recv"} /\ LoopTop(w).reply = "none"
         /\ LoopTop(w).active = w.active
  <1> DEFINE pc == IF w.active # 0 THEN "read" ELSE IF w.pending # <<>> THEN "bsend" ELSE "recv"
  <1>1. LoopTop(w) = [w EXCEPT !.reply = "none", !.seq = 0, !.pc = pc]
    BY Zenon DEF LoopTop
  <1>2. pc \in {"read", "bsend", "recv"}
    OBVIOUS
  <1> HIDE DEF pc
  <1>3. DOMAIN w = {"pc", "pending", "seq", "reply", "active"}
    BY DEF InWorker
  <1> QED BY <1>1, <1>2, <1>3

(* run_bulk_in_worker: its barrier covers the writes that were submitted   *)
(* before the read it is for.                                              *)
LEMMA OrderInWorker ==
  ASSUME OrderInv, [Next]_vars, InWorkerStep \/ InComplete
  PROVE  Order'
  <1> USE DEF OrderInv, Order
  <1>1. UNCHANGED <<next, urb, h, gen, bulkOut, outEv, ow, written>> /\ iw.pc # "gone"
    BY DEF InWorkerStep, InOpen, InCommand, InBarrierSend, InBarrierDone, InDrain, InSubmit,
           InComplete, InOnly, handlerVars
  <1>2. /\ iw \in InWorker /\ outq \in Seq(Commands)
        /\ iw.pc \in {"bsend", "bwait"} => iw.pending # <<>>
    BY BarrierUrbs DEF PipelineInv, Line, Attended
  <1>3. \/ outq' = outq
        \/ outq' = Orphaned(outq) /\ InCommand
        \/ outq' = Append(outq, Command("flush", "in")) /\ InBarrierSend
    BY DEF InWorkerStep, InOpen, InCommand, InBarrierSend, InBarrierDone, InDrain, InSubmit,
           InComplete
  <1>4. PICK c : c = Command("flush", "in")
    OBVIOUS
  <1>5. c \in Commands /\ c.cmd = "flush" /\ c.arg = "in"
    BY <1>4, CommandsAre
  <1>6. /\ Sent(outq') = Sent(outq)
        /\ OneBarrier(outq', "handler", h.seq)
        /\ \A i \in Barriers(outq', "handler") :
             \E k \in Barriers(outq, "handler") : outq'[i] = outq[k]
        /\ ~ow.up => outq' = <<>>
    <2>1. CASE outq' = outq
      BY <2>1 DEF HandlerWaits, Attached
    <2>2. CASE outq' = Orphaned(outq) /\ InCommand
      <3>1. Len(outq') = Len(outq) /\ outq' \in Seq(Commands)
        BY <1>2, <2>2, OrphanedChannel
      <3>2. outq = <<>> => outq' = <<>>
        BY <3>1
      <3> QED BY <1>2, <2>2, <3>2, BarriersOrphaned DEF HandlerWaits, Attached
    <2>3. CASE outq' = Append(outq, c) /\ InBarrierSend
      <3>1. /\ Sent(outq') = Sent(outq) /\ Barriers(outq', "handler") = Barriers(outq, "handler")
            /\ OneBarrier(outq', "handler", h.seq)
        BY <1>2, <1>5, <2>3, CommandSent, BarriersSent DEF HandlerWaits
      <3>2. \A i \in Barriers(outq, "handler") : outq'[i] = outq[i]
        BY <1>2, <1>5, <2>3 DEF Barriers
      <3> QED BY <2>3, <3>1, <3>2 DEF InBarrierSend
    <2> QED BY <1>3, <1>4, <2>1, <2>2, <2>3
  <1>7. HandlerWaits'
    BY <1>1, <1>6 DEF HandlerWaits
  <1>8. WritesKept'
    <2>1. Stopping' <=> Stopping
      BY <1>1 DEF Stopping
    <2> QED BY <1>1, <1>6, <2>1, KeptStays DEF Held, Mine, Answering
  <1>9. ControlBarrierTrue'
    BY <1>1, TruthStays
  <1>10. AckedKept'
    BY <1>1, AckedStays, BarrierUrbs DEF Held, At
  <1>11. SUFFICES /\ iw'.pc = "bsend" => iw'.reply = "none"
                  /\ iw'.pc = "drain" => iw'.seq < next
                  /\ ReaderWaits' /\ ReadBarrierTrue'
    <2>1. ASSUME iw'.pc = "bsend" => iw'.reply = "none", iw'.pc = "drain" => iw'.seq < next
          PROVE  Attached'
      <3>1. Stopping' <=> Stopping
        BY <1>1 DEF Stopping
      <3> QED BY <1>1, <1>6, <2>1, <3>1 DEF Attached, At
    <2> QED BY <1>7, <1>8, <1>9, <1>10, <2>1
  <1>12. CASE InOpen \/ InCommand \/ InSubmit \/ InComplete
    <2>1. \/ iw' = NoInWorker
          \/ iw' = LoopTop(iw)
          \/ \E p : iw' = LoopTop([iw EXCEPT !.pending = p])
          \/ \E a : iw' = LoopTop([iw EXCEPT !.active = a])
          \/ \E a, p : iw' = LoopTop([iw EXCEPT !.active = a, !.pending = p])
      BY <1>12, Zenon DEF InOpen, InCommand, InSubmit, InComplete
    <2>2. iw'.pc \in {"gone", "read", "bsend", "recv"} /\ (iw'.reply = "none" \/ iw'.pc = "gone")
      <3>1. CASE iw' = NoInWorker
        BY <3>1, RestingStates
      <3>2. CASE iw' = LoopTop(iw)
        BY <1>2, <3>2, LoopTopWaits
      <3>3. ASSUME NEW p, iw' = LoopTop([iw EXCEPT !.pending = p])
            PROVE  iw'.pc \in {"read", "bsend", "recv"} /\ iw'.reply = "none"
        <4>1. PICK w : w = [iw EXCEPT !.pending = p]
          OBVIOUS
        <4> QED BY <1>2, <3>3, <4>1, LoopTopWaits
      <3>4. ASSUME NEW a, iw' = LoopTop([iw EXCEPT !.active = a])
            PROVE  iw'.pc \in {"read", "bsend", "recv"} /\ iw'.reply = "none"
        <4>1. PICK w : w = [iw EXCEPT !.active = a]
          OBVIOUS
        <4> QED BY <1>2, <3>4, <4>1, LoopTopWaits
      <3>5. ASSUME NEW a, NEW p, iw' = LoopTop([iw EXCEPT !.active = a, !.pending = p])
            PROVE  iw'.pc \in {"read", "bsend", "recv"} /\ iw'.reply = "none"
        <4>1. PICK w : w = [iw EXCEPT !.active = a, !.pending = p]
          OBVIOUS
        <4> QED BY <1>2, <3>5, <4>1, LoopTopWaits
      <3> QED BY <2>1, <3>1, <3>2, <3>3, <3>4, <3>5
    <2>3. Barriers(outq', "in") = {}
      <3>1. CASE InCommand
        BY <1>2, <3>1, BarriersOrphaned DEF InCommand
      <3>2. CASE InOpen \/ InSubmit \/ InComplete
        BY <3>2 DEF InOpen, InSubmit, InComplete, ReaderWaits
      <3> QED BY <1>12, <3>1, <3>2
    <2> QED BY <2>2, <2>3 DEF ReaderWaits, ReadBarrierTrue
  <1>13. CASE InBarrierSend
    <2>1. iw.pc = "bsend" /\ iw' = [iw EXCEPT !.pc = "bwait"] /\ outq' = Append(outq, c)
      BY <1>4, <1>13 DEF InBarrierSend
    <2>2. iw'.pc = "bwait" /\ iw'.reply = "none" /\ iw'.pending = iw.pending
      BY <1>2, <2>1 DEF InWorker, Attached
    <2>3. Barriers(outq, "in") = {}
      BY <2>1 DEF ReaderWaits
    <2>4. OneBarrier(outq', "in", Head(iw.pending))
      BY <1>2, <1>5, <2>1, <2>3, BarriersSent
    <2> QED BY <2>2, <2>4 DEF ReaderWaits, ReadBarrierTrue
  <1>14. CASE InBarrierDone
    <2>1. PICK s : s = Head(iw.pending)
      OBVIOUS
    <2>2. /\ iw.pc \in {"bsend", "bwait"} /\ outq' = outq
          /\ iw'.pc = "drain" /\ iw'.seq = s
          /\ \/ ~ow.up
             \/ iw.pc = "bwait" /\ iw.reply # "none" /\ iw'.reply = iw.reply
      BY <1>2, <1>14, <2>1 DEF InBarrierDone, InWorker
    <2>3. s \in Nat /\ s < next /\ s <= next /\ (Answering => s < h.seq)
      BY <1>2, <2>1, <2>2, BarrierUrbs
    <2>4. Barriers(outq', "in") = {}
      BY <2>2, EmptyQueue, NoBarriers DEF ReaderWaits, Attached
    <2>5. ASSUME iw'.reply = "ok" PROVE WritesSettledBefore(s)
      <3>1. CASE ~ow.up
        <4>1. ~ow.poisoned /\ Held = written /\ outq = <<>>
          BY <3>1 DEF Attached, NoOutWorker, Held
        <4>2. ~Stopping
          BY <1>1 DEF PipelineInv, Line, Attended
        <4>3. Answering => s <= h.seq
          BY <2>3, BarrierUrbs
        <4>4. \A t \in Urbs : t < s /\ Writes(t) => t \in Held \/ urb[t].ret = "err"
          BY <2>3, <4>1, <4>2, <4>3, HeldBefore, EmptyQueue
        <4> QED BY <4>1, <4>4 DEF WritesSettledBefore, Writes, Current, Settled
      <3>2. CASE iw.pc = "bwait" /\ iw'.reply = iw.reply
        BY <2>1, <2>5, <3>2 DEF ReadBarrierTrue
      <3> QED BY <2>2, <3>1, <3>2
    <2>6. WritesSettledBefore(s) => WritesSettledBefore(s)'
      BY <1>1, <2>3, SettledStays
    <2> QED BY <2>2, <2>3, <2>4, <2>5, <2>6 DEF ReaderWaits, ReadBarrierTrue
  <1>15. CASE InDrain
    <2>1. PICK s : s = iw.seq
      OBVIOUS
    <2>2. /\ iw.pc = "drain" /\ outq' = outq
          /\ iw'.pc = "drain" /\ iw'.seq = s /\ iw'.reply = iw.reply
      BY <1>2, <1>15, <2>1 DEF InDrain, InWorker
    <2>3. s \in Nat /\ s < next /\ s <= next /\ Barriers(outq', "in") = {}
      BY <2>1, <2>2, BarrierUrbs DEF Attached, ReaderWaits
    <2>4. WritesSettledBefore(s) => WritesSettledBefore(s)'
      BY <1>1, <2>3, SettledStays
    <2> QED BY <2>1, <2>2, <2>3, <2>4 DEF ReaderWaits, ReadBarrierTrue
  <1> QED BY <1>12, <1>13, <1>14, <1>15 DEF InWorkerStep

(* run_bulk_out_worker acknowledges a write that is in its buffer, or is   *)
(* poisoned.                                                               *)
LEMMA OrderOutSubmit ==
  ASSUME OrderInv, [Next]_vars, OutSubmit \/ OutUnlink
  PROVE  Order'
  <1> USE DEF OrderInv, Order
  <1>1. /\ UNCHANGED <<next, urb, h, gen, bulkOut, iw, written>> /\ ow.up
        /\ outq # <<>> /\ outq' = Tail(outq)
    BY DEF OutSubmit, OutUnlink, OutNext, OutOnly, books
  <1>2. /\ ow \in OutWorker /\ outq \in Seq(Commands) /\ outEv \in Seq(Events)
    BY BarrierUrbs
  <1>3. PICK s : s = Head(outq).arg
    OBVIOUS
  <1>4. /\ Sent(outq') \subseteq Sent(outq)
        /\ \A t \in Sent(outq) : t \in Sent(outq') \/ (t = s /\ OutSubmit)
        /\ OutSubmit => s \in Urbs /\ s < next
    <2>1. Head(outq) \in Commands
          /\ Sent(outq) = IF Head(outq).cmd = "submit" THEN Sent(outq') \cup {s} ELSE Sent(outq')
      BY <1>1, <1>2, <1>3, CommandTaken
    <2>2. OutSubmit => Head(outq).cmd = "submit"
      BY DEF OutSubmit, OutNext
    <2>3. ~OutSubmit => Head(outq).cmd = "unlink"
      BY DEF OutUnlink, OutNext
    <2>4. Head(outq).cmd = "submit" => s \in Urbs
      BY <1>3, <2>1 DEF Commands, Command
    <2> QED BY <2>1, <2>2, <2>3, <2>4 DEF Attached
  <1>5. \/ /\ OutSubmit /\ ow'.buffered = ow.buffered \cup {s} /\ ow'.up
           /\ ow'.poisoned = ow.poisoned /\ outEv' = Append(outEv, [seq |-> s, ok |-> TRUE])
        \/ /\ OutSubmit /\ ow'.buffered = ow.buffered /\ ow'.up
           /\ ow'.poisoned /\ outEv' = Append(outEv, [seq |-> s, ok |-> FALSE])
        \/ ~OutSubmit /\ UNCHANGED <<ow, outEv>>
    <2>1. CASE OutSubmit
      <3>1. \/ /\ ow' = [ow EXCEPT !.buffered = @ \cup {s}, !.dirty = TRUE]
               /\ outEv' = Append(outEv, [seq |-> s, ok |-> TRUE])
            \/ /\ ow' = [ow EXCEPT !.poisoned = TRUE]
               /\ outEv' = Append(outEv, [seq |-> s, ok |-> FALSE])
        BY <1>3, <2>1, Zenon DEF OutSubmit
      <3> QED BY <1>1, <1>2, <2>1, <3>1 DEF OutWorker
    <2>2. CASE ~OutSubmit
      BY <2>2 DEF OutUnlink
    <2> QED BY <2>1, <2>2
  <1>6. /\ Seqs(outEv') \subseteq Seqs(outEv) \cup {s} /\ (~OutSubmit => outEv' = outEv)
        /\ \A i \in 1 .. Len(outEv') :
             \/ \E k \in 1 .. Len(outEv) : outEv'[i] = outEv[k]
             \/ OutSubmit /\ outEv'[i].seq = s /\ (outEv'[i].ok => s \in ow'.buffered)
    <2>1. CASE UNCHANGED outEv
      BY <1>5, <2>1
    <2>2. ASSUME OutSubmit, NEW ok \in BOOLEAN, ok => s \in ow'.buffered,
                 outEv' = Append(outEv, [seq |-> s, ok |-> ok])
          PROVE  /\ Seqs(outEv') \subseteq Seqs(outEv) \cup {s}
                 /\ \A i \in 1 .. Len(outEv') :
                      \/ \E k \in 1 .. Len(outEv) : outEv'[i] = outEv[k]
                      \/ outEv'[i].seq = s /\ (outEv'[i].ok => s \in ow'.buffered)
      <3>1. PICK e : e = [seq |-> s, ok |-> ok]
        OBVIOUS
      <3>2. e.seq = s /\ e.ok = ok /\ e \in Events
        BY <1>4, <2>2, <3>1 DEF Events
      <3>3. \A i \in 1 .. Len(outEv') : outEv'[i] = e \/ \E k \in 1 .. Len(outEv) : outEv'[i] = outEv[k]
        BY <1>2, <2>2, <3>1, <3>2
      <3> QED BY <2>2, <3>2, <3>3 DEF Seqs
    <2> QED BY <1>5, <2>1, <2>2
  <1>7. Held \subseteq Held' /\ ow'.up /\ (ow.poisoned => ow'.poisoned)
    BY <1>1, <1>5 DEF Held
  <1>8. Attached'
    BY <1>1, <1>4, <1>6, <1>7 DEF Attached, At, Stopping
  <1>9. HandlerWaits' /\ ReaderWaits'
    <2>1. \A i \in Barriers(outq', "handler") : \E k \in Barriers(outq, "handler") : outq'[i] = outq[k]
      <3>1. \A i \in 1 .. Len(outq') : \E k \in 1 .. Len(outq) : outq'[i] = outq[k]
        BY <1>1, <1>2, BarriersTaken
      <3> QED BY <3>1 DEF Barriers
    <2>2. OneBarrier(outq', "handler", h.seq)
      BY <1>1, <1>2, BarriersTaken DEF HandlerWaits
    <2>3. HandlerWaits'
      BY <1>1, <2>1, <2>2 DEF HandlerWaits
    <2>4. ReaderWaits'
      BY <1>1, <1>2, BarriersTaken DEF ReaderWaits
    <2> QED BY <2>3, <2>4
  <1>10. WritesKept'
    <2>1. ~ow'.poisoned => \A t \in Sent(outq) : t \in Sent(outq') \/ t \in Held'
      BY <1>4, <1>5 DEF Held
    <2> QED BY <1>1, <1>7, <2>1, KeptStays DEF Mine, Answering
  <1>11. ReadBarrierTrue' /\ ControlBarrierTrue'
    BY <1>1, TruthStays
  <1>12. AckedKept'
    <2>1. \A i \in 1 .. Len(outEv') :
            \/ \E k \in 1 .. Len(outEv) : outEv'[i] = outEv[k]
            \/ outEv'[i].ok => outEv'[i].seq \in Held'
      BY <1>6 DEF Held
    <2> QED BY <1>1, <1>2, <1>7, <2>1, AckedStays DEF At
  <1> QED BY <1>8, <1>9, <1>10, <1>11, <1>12

(* A flush moves the buffer to the device, or poisons the worker.          *)
LEMMA Flushed ==
  ASSUME ow \in OutWorker, NEW ok \in BOOLEAN, AfterFlush(ok)
  PROVE  /\ ow'.up = ow.up /\ Held' = Held
         /\ IF ok THEN ow'.poisoned = ow.poisoned /\ written' = Held ELSE ow'.poisoned
         /\ ow.poisoned => ow'.poisoned
  <1>1. CASE ok
    <2>1. ow' = [ow EXCEPT !.buffered = {}, !.dirty = FALSE] /\ written' = written \cup ow.buffered
      BY <1>1, Zenon DEF AfterFlush
    <2> QED BY <1>1, <2>1 DEF OutWorker, Held
  <1>2. CASE ~ok
    <2>1. ow' = [ow EXCEPT !.poisoned = TRUE, !.dirty = FALSE] /\ written' = written
      BY <1>2, Zenon DEF AfterFlush
    <2> QED BY <1>2, <2>1 DEF OutWorker, Held
  <1> QED BY <1>1, <1>2

(* What a flush keeps, with or without a barrier that asked for it.        *)
LEMMA OrderAfterFlush ==
  ASSUME OrderInv, [Next]_vars, NEW ok \in BOOLEAN, AfterFlush(ok), ow.up,
         UNCHANGED <<next, urb, gen, bulkOut, outEv>>, h'.pc = h.pc, h'.seq = h.seq,
         Sent(outq') = Sent(outq), ~At("stopWait") \/ h'.reply = h.reply
  PROVE  WritesKept' /\ AckedKept'
  <1> USE DEF OrderInv, Order
  <1>1. ow'.up = ow.up /\ Held' = Held /\ (ow.poisoned => ow'.poisoned)
    BY Flushed, BarrierUrbs
  <1>2. WritesKept'
    BY <1>1, KeptStays DEF Stopping, Mine, Answering
  <1>3. AckedKept'
    <2>1. ~At("stopped")
      BY DEF Attached
    <2> QED BY <1>1, <2>1, AckedStays, BarrierUrbs DEF At
  <1> QED BY <1>2, <1>3

(* Two milliseconds without a command.                                     *)
LEMMA OrderOutIdleFlush ==
  ASSUME OrderInv, [Next]_vars, OutIdleFlush
  PROVE  Order'
  <1> USE DEF OrderInv, Order
  <1>1. /\ UNCHANGED <<next, urb, h, gen, bulkOut, iw, outq, outEv>> /\ ow.up
    BY DEF OutIdleFlush, OutOnly, books
  <1>2. PICK ok \in BOOLEAN : AfterFlush(ok)
    BY DEF OutIdleFlush
  <1>3. ow'.up
    BY <1>1, <1>2, Flushed, BarrierUrbs
  <1>4. Attached'
    BY <1>1, <1>3 DEF Attached, At, Stopping
  <1>5. HandlerWaits' /\ ReaderWaits'
    BY <1>1 DEF HandlerWaits, ReaderWaits
  <1>6. WritesKept' /\ AckedKept'
    BY <1>1, <1>2, OrderAfterFlush
  <1>7. ReadBarrierTrue' /\ ControlBarrierTrue'
    BY <1>1, TruthStays
  <1> QED BY <1>4, <1>5, <1>6, <1>7

(* A barrier is answered: well, only when every write before it is at the  *)
(* device.                                                                 *)
LEMMA OrderOutFlush ==
  ASSUME OrderInv, [Next]_vars, OutFlush
  PROVE  Order'
  <1> USE DEF OrderInv, Order
  <1>1. /\ UNCHANGED <<next, urb, gen, bulkOut, outEv>> /\ ow.up
        /\ outq # <<>> /\ outq' = Tail(outq) /\ Head(outq).cmd = "flush"
    BY DEF OutFlush, OutNext, OutOnly, books
  <1>2. PICK to : to = Head(outq).arg
    OBVIOUS
  <1>3. PICK ok \in BOOLEAN : FlushResult(ok) /\ AfterFlush(ok) /\ Reply(to, ok)
    BY <1>2 DEF OutFlush
  <1>4. /\ ow \in OutWorker /\ outq \in Seq(Commands) /\ h \in HandlerState /\ iw \in InWorker
    BY BarrierUrbs
  <1>5. /\ h'.pc = h.pc /\ h'.seq = h.seq
        /\ iw'.pc = iw.pc /\ iw'.pending = iw.pending /\ iw'.seq = iw.seq
        /\ h'.reply = IF to = "handler" THEN IF ok THEN "ok" ELSE "err" ELSE h.reply
        /\ iw'.reply = IF to = "in" THEN IF ok THEN "ok" ELSE "err" ELSE iw.reply
        /\ (to # "handler" => h' = h) /\ (to # "in" => iw' = iw)
    BY <1>3, <1>4, ReplyIs DEF Reply
  <1>6. ow'.up /\ Held' = Held /\ (ok => ~ow.poisoned /\ written' = Held)
    BY <1>1, <1>3, <1>4, Flushed DEF FlushResult
  <1>7. Sent(outq') = Sent(outq)
    BY <1>1, <1>4, CommandTaken
  <1>8. /\ \A i \in Barriers(outq', "handler") : \E k \in Barriers(outq, "handler") : outq'[i] = outq[k]
        /\ 1 \in Barriers(outq, to) /\ outq[1].cmd = "flush"
        /\ \A s : OneBarrier(outq, to, s) =>
             Barriers(outq', to) = {} /\ \A t \in Sent(outq) : s < t
        /\ OneBarrier(outq', "handler", h.seq)
        /\ \A s : OneBarrier(outq, "in", s) => OneBarrier(outq', "in", s)
        /\ Barriers(outq', "in") # {} => Barriers(outq, "in") # {}
    <2>1. /\ \A i \in 1 .. Len(outq') : \E k \in 1 .. Len(outq) : outq'[i] = outq[k]
          /\ 1 \in 1 .. Len(outq) /\ outq[1] = Head(outq)
      BY <1>1, <1>4, BarriersTaken
    <2>2. 1 \in Barriers(outq, to) /\ outq[1].cmd = "flush"
      BY <1>1, <1>2, <2>1 DEF Barriers
    <2>3. \A i \in Barriers(outq', "handler") : \E k \in Barriers(outq, "handler") : outq'[i] = outq[k]
      BY <2>1 DEF Barriers
    <2> QED BY <1>1, <1>4, <2>2, <2>3, BarriersTaken DEF HandlerWaits
  <1>9. to = "handler" => At("flushWait") /\ h.reply = "none" /\ Barriers(outq', "handler") = {}
    BY <1>8 DEF HandlerWaits, At
  <1>10. to = "in" => iw.pc = "bwait" /\ iw.reply = "none" /\ Barriers(outq', "in") = {}
    BY <1>8 DEF ReaderWaits
  <1>11. Attached'
    BY <1>1, <1>5, <1>6, <1>7, <1>9, <1>10 DEF Attached, At, Stopping
  <1>12. HandlerWaits'
    BY <1>5, <1>8, <1>9 DEF HandlerWaits
  <1>13. ReaderWaits'
    BY <1>5, <1>8, <1>10 DEF ReaderWaits
  <1>14. WritesKept' /\ AckedKept'
    BY <1>1, <1>3, <1>5, <1>7, <1>9, OrderAfterFlush DEF At
  <1>15. ASSUME ok, NEW s \in Nat, Answering => s <= h.seq, s <= next,
                \A t \in Sent(outq) : s < t
         PROVE  WritesSettledBefore(s)'
    <2>1. \A t \in Sent(outq) : ~(t < s)
      <3>1. Sent(outq) \subseteq Nat
        <4>1. \A i \in 1 .. Len(outq) : outq[i] \in Commands
          BY <1>4
        <4>2. \A c \in Commands : c.cmd = "submit" => c.arg \in Urbs
          BY DEF Commands, Command
        <4> QED BY <4>1, <4>2, LineUrbs DEF Sent
      <3> QED BY <1>15, <3>1
    <2>2. \A t \in Urbs : t < s /\ Writes(t) => t \in Held \/ urb[t].ret = "err"
      BY <1>1, <1>6, <1>15, <2>1, HeldBefore
    <2> QED BY <1>1, <1>6, <1>15, <2>2 DEF WritesSettledBefore, Settled, Writes, Current
  <1>16. ReadBarrierTrue'
    <2>1. CASE to = "in" /\ ok
      <3>1. PICK s : s = Head(iw.pending)
        OBVIOUS
      <3>2. /\ iw.pc = "bwait" /\ \A t \in Sent(outq) : s < t
        BY <1>8, <1>10, <2>1, <3>1 DEF ReaderWaits
      <3>3. iw.pending # <<>>
        BY <3>2 DEF PipelineInv, Line, Attended
      <3>4. s \in Nat /\ s <= next /\ (Answering => s <= h.seq)
        BY <3>1, <3>3, BarrierUrbs
      <3>5. WritesSettledBefore(s)'
        BY <1>15, <2>1, <3>2, <3>4
      <3> QED BY <1>5, <3>1, <3>2, <3>5 DEF ReadBarrierTrue
    <2>2. CASE to = "in" /\ ~ok
      BY <1>5, <2>2 DEF ReadBarrierTrue
    <2>3. CASE to # "in"
      BY <1>1, <1>5, <2>3, TruthStays
    <2> QED BY <2>1, <2>2, <2>3
  <1>17. ControlBarrierTrue'
    <2>1. CASE to = "handler" /\ ok
      <3>1. PICK s : s = h.seq
        OBVIOUS
      <3>2. At("flushWait") /\ Answering /\ \A t \in Sent(outq) : s < t
        BY <1>8, <1>9, <2>1, <3>1 DEF HandlerWaits, At, Answering
      <3>3. s \in Nat /\ s <= next /\ (Answering => s <= h.seq)
        BY <3>1, <3>2, BarrierUrbs
      <3>4. WritesSettledBefore(s)'
        BY <1>15, <2>1, <3>2, <3>3
      <3> QED BY <1>5, <3>1, <3>4 DEF ControlBarrierTrue
    <2>2. CASE to = "handler" /\ ~ok
      BY <1>5, <1>9, <2>2 DEF ControlBarrierTrue, At
    <2>3. CASE to # "handler"
      BY <1>1, <1>5, <2>3, TruthStays
    <2> QED BY <2>1, <2>2, <2>3
  <1> QED BY <1>11, <1>12, <1>13, <1>14, <1>16, <1>17

(* A good shutdown leaves nothing in the buffer.                           *)
LEMMA OrderOutShutdown ==
  ASSUME OrderInv, [Next]_vars, OutShutdown
  PROVE  Order'
  <1> USE DEF OrderInv, Order
  <1>1. /\ UNCHANGED <<next, urb, gen, bulkOut, outEv>> /\ ow.up
        /\ outq # <<>> /\ outq' = <<>> /\ Head(outq).cmd = "shutdown" /\ ow' = NoOutWorker
    BY DEF OutShutdown, OutNext, OutOnly, books
  <1>2. Head(outq).arg = "handler"
    <2>1. Head(outq) \in Commands
      BY <1>1, BarrierUrbs
    <2> QED BY <1>1, <2>1 DEF Commands, Command
  <1>3. PICK ok \in BOOLEAN :
          Reply("handler", ok) /\ written' = IF ok THEN written \cup ow.buffered ELSE written
    BY <1>2 DEF OutShutdown
  <1>4. /\ h'.pc = h.pc /\ h'.seq = h.seq /\ h'.reply = (IF ok THEN "ok" ELSE "err") /\ iw' = iw
    BY <1>3, ReplyIs, BarrierUrbs DEF Reply
  <1>5. At("stopWait")
    <2>1. 1 \in Barriers(outq, "handler") /\ outq[1].cmd = "shutdown"
      BY <1>1, <1>2, BarriersTaken, BarrierUrbs DEF Barriers
    <2> QED BY <2>1 DEF HandlerWaits, At
  <1>6. ~ow'.up /\ Stopping' /\ ~Answering' /\ Stopping
    BY <1>1, <1>4, <1>5, RestingStates DEF Stopping, Answering, At
  <1>7. Attached'
    BY <1>1, <1>4, <1>5, <1>6, EmptyQueue DEF Attached, At
  <1>8. HandlerWaits' /\ ReaderWaits'
    BY <1>1, NoBarriers DEF HandlerWaits, ReaderWaits
  <1>9. WritesKept'
    BY <1>6 DEF WritesKept
  <1>10. ReadBarrierTrue' /\ ControlBarrierTrue'
    BY <1>1, <1>4, <1>5, TruthStays DEF ControlBarrierTrue, At
  <1>11. AckedKept'
    BY <1>1, <1>3, <1>4, <1>6 DEF AckedKept, Writes, Current, Held
  <1> QED BY <1>7, <1>8, <1>9, <1>10, <1>11

----------------------------------------------------------------------------
(* The theorems.                                                           *)

(* The first state satisfies the invariant.                                *)
LEMMA InitOrder == Init => OrderInv
  <1> SUFFICES ASSUME Init PROVE Order
    BY InitInv DEF OrderInv
  <1>1. /\ h.pc = "select" /\ h.reply = "none" /\ iw.pc = "gone" /\ ~ow.up
        /\ outq = <<>> /\ outEv = <<>> /\ ow = NoOutWorker /\ bulkOut = {}
        /\ \A t \in Urbs : urb[t].kind = "none"
    BY RestingStates DEF Init, Unsent
  <1>2. Attached
    BY <1>1, EmptyQueue DEF Attached, At
  <1>3. HandlerWaits /\ ReaderWaits
    BY <1>1, NoBarriers DEF HandlerWaits, ReaderWaits
  <1>4. WritesKept
    BY <1>1 DEF WritesKept, Writes
  <1>5. ReadBarrierTrue /\ ControlBarrierTrue /\ AckedKept
    BY <1>1 DEF ReadBarrierTrue, ControlBarrierTrue, AckedKept, At
  <1> QED BY <1>2, <1>3, <1>4, <1>5 DEF Order

(* Nothing that the invariant speaks of changes.                           *)
LEMMA OrderStutters ==
  ASSUME OrderInv, UNCHANGED vars
  PROVE  Order'
  <1> USE DEF vars, handlerVars, OrderInv, Order
  <1>1. Attached' /\ HandlerWaits' /\ ReaderWaits'
    BY DEF Attached, HandlerWaits, ReaderWaits, At, Stopping
  <1>2. WritesKept' /\ AckedKept'
    BY DEF WritesKept, AckedKept, Held, Writes, Current, Mine, Answering, Stopping, At
  <1>3. ReadBarrierTrue' /\ ControlBarrierTrue'
    BY DEF ReadBarrierTrue, ControlBarrierTrue, WritesSettledBefore, Settled, At
  <1> QED BY <1>1, <1>2, <1>3

(* Every step keeps the invariant.                                         *)
LEMMA OrderNext ==
  ASSUME OrderInv, [Next]_vars
  PROVE  OrderInv'
  <1>1. PipelineInv'
    BY InvNext DEF OrderInv
  <1>2. SUFFICES Order'
    BY <1>1 DEF OrderInv
  <1>3. CASE Peer
    BY <1>3, OrderReadSubmit, OrderReadUnlink, OrderReadStop, OrderClosing DEF Peer, WriteFails
  <1>4. CASE HandlerStep
    BY <1>4, OrderSendIn, OrderSendOut, OrderHandlerWaits, OrderControlBarrierDone,
       OrderSyncSubmit, OrderSendUnlink, OrderStopped, OrderImport, OrderClosing
       DEF HandlerStep, Close
  <1>5. CASE InEvent \/ OutEvent
    BY <1>5, OrderEvents
  <1>6. CASE StopTimeout
    BY <1>6, OrderStopped
  <1>7. CASE InWorkerStep \/ InComplete
    BY <1>7, OrderInWorker
  <1>8. CASE OutWorkerStep
    BY <1>8, OrderOutSubmit, OrderOutFlush, OrderOutShutdown, OrderOutIdleFlush DEF OutWorkerStep
  <1>9. CASE UNCHANGED vars
    BY <1>9, OrderStutters
  <1> QED BY <1>3, <1>4, <1>5, <1>6, <1>7, <1>8, <1>9 DEF Next

(* The invariant holds of every state of the pipeline.                     *)
THEOREM OrderInvariant == Spec => []OrderInv
  <1> QED BY InitOrder, OrderNext, PTL DEF Spec

(* A session that is stopped in order, with a shutdown that reports        *)
(* success, has everything at the device that was acknowledged             *)
(* (mod.rs:500-510, 626-647).                                              *)
THEOREM ShutdownIsFlushed == Spec => []ShutdownFlushes
  <1>1. OrderInv => ShutdownFlushes
    BY DEF OrderInv, Order, AckedKept, At, Writes, Current, ShutdownFlushes
  <1> QED BY <1>1, OrderInvariant, PTL

(* A read starts behind a barrier that was answered well.                  *)
LEMMA ReadStarts ==
  ASSUME OrderInv, [Next]_vars, iw.active = 0, iw'.active # 0
  PROVE  WritesSettledBefore(iw'.active)
  <1>1. iw \in InWorker
    BY BarrierUrbs DEF OrderInv
  <1>2. NoInWorker.active = 0 /\ [NoInWorker EXCEPT !.pc = "opening"].active = 0
    BY DEF NoInWorker
  <1>3. InWorkerStep \/ InComplete
    <2>1. CASE OutWorkerStep
      BY <2>1, OutWorkerFrame DEF OrderInv, PipelineInv
    <2>2. ASSUME iw' = iw \/ iw' = NoInWorker \/ iw' = [NoInWorker EXCEPT !.pc = "opening"]
          PROVE  FALSE
      BY <1>2, <2>2
    <2> QED BY <2>1, <2>2
            DEF Next, vars, Peer, ReadSubmit, ReadUnlink, ReadStop, WriteFails, Closing,
                HandlerStep, SendIn, SendOut, ControlBarrier, ControlBarrierDone, SyncSubmit,
                SendUnlink, StopSend, StopDone, Import, Close, StopTimeout, InEvent, OutEvent
  <1>4. ASSUME NEW p, iw' = LoopTop([iw EXCEPT !.pending = p]) PROVE FALSE
    <2>1. PICK w : w = [iw EXCEPT !.pending = p]
      OBVIOUS
    <2>2. w.active = 0
      BY <1>1, <2>1 DEF InWorker
    <2> QED BY <1>1, <1>4, <2>1, <2>2, LoopTopWaits
  <1>5. ASSUME NEW p, iw' = LoopTop([iw EXCEPT !.active = 0, !.pending = p]) PROVE FALSE
    <2>1. PICK a : a = 0
      OBVIOUS
    <2>2. PICK w : w = [iw EXCEPT !.active = a, !.pending = p]
      OBVIOUS
    <2>3. w.active = a
      BY <1>1, <2>2 DEF InWorker
    <2>4. LoopTop(w).active = w.active
      BY <1>1, <2>2, LoopTopWaits, ZenonT(30)
    <2> QED BY <1>5, <2>1, <2>2, <2>3, <2>4
  <1>6. iw' # LoopTop(iw) /\ iw' # NoInWorker
    BY <1>1, <1>2, LoopTopWaits
  <1>7. CASE InBarrierSend \/ InBarrierDone \/ InDrain
    BY <1>1, <1>7 DEF InBarrierSend, InBarrierDone, InDrain, InWorker
  <1>8. CASE InOpen \/ InCommand \/ InComplete
    BY <1>4, <1>5, <1>6, <1>8 DEF InOpen, InCommand, InComplete
  <1>9. CASE InSubmit
    <2>1. iw.pc = "drain" /\ iw.reply = "ok" /\ iw' = LoopTop([iw EXCEPT !.active = iw.seq])
      BY <1>4, <1>6, <1>9 DEF InSubmit
    <2>2. PICK a, w : a = iw.seq /\ w = [iw EXCEPT !.active = a]
      OBVIOUS
    <2>3. w.active = a
      BY <1>1, <2>2 DEF InWorker
    <2>4. LoopTop(w).active = w.active
      BY <1>1, <2>2, LoopTopWaits, ZenonT(30)
    <2>5. iw'.active = iw.seq
      BY <2>1, <2>2, <2>3, <2>4
    <2> QED BY <2>1, <2>5 DEF OrderInv, Order, ReadBarrierTrue
  <1> QED BY <1>3, <1>7, <1>8, <1>9 DEF InWorkerStep

(* A read starts only when every write that was submitted before it is at  *)
(* the device or reported as failed (mod.rs:299-353).                      *)
THEOREM ReadsAfterWrites == Spec => ReadAfterWrites
  <1>1. OrderInv /\ [Next]_vars =>
          [iw.active = 0 /\ iw'.active # 0 => WritesSettledBefore(iw'.active)]_vars
    BY ReadStarts
  <1> QED BY <1>1, OrderInvariant, PTL DEF Spec, ReadAfterWrites

(* A control transfer succeeds in the one place behind the barrier.        *)
LEMMA ControlServed ==
  ASSUME OrderInv, [Next]_vars,
         NEW s \in Urbs, urb[s].kind = "ctl", urb[s].ret = "none", urb'[s].ret = "ok"
  PROVE  WritesSettledBefore(s)
  <1>1. PipelineInv /\ urb \in [Urbs -> UrbState]
    BY DEF OrderInv, PipelineInv, TypeOK
  <1>2. CASE \E kind \in Kinds : ReadSubmit(kind)
    <2>1. next \in Urbs /\ \A t \in Urbs : t # next => urb'[t] = urb[t]
      BY <1>1, <1>2 DEF ReadSubmit
    <2>2. urb[next] = Unsent
      BY <1>1, <2>1, LineUrbs DEF PipelineInv, Books, Numbered
    <2> QED BY <2>1, <2>2 DEF Unsent
  <1>3. CASE \E t \in Urbs : ReadUnlink(t)
    <2>1. PICK t \in Urbs : ReadUnlink(t)
      BY <1>3
    <2>2. PICK u \in {"reset", "late"} : urb' = [urb EXCEPT ![t].unl = u]
      BY <2>1, Zenon DEF ReadUnlink
    <2> QED BY <1>1, <2>2, UnlinkedOnce
  <1>4. CASE \E t \in Urbs, ok \in BOOLEAN :
               /\ urb[t].ret = "none" /\ urb' = Answered(t, ok)
               /\ urb[t].kind = "ctl" /\ ok => SyncSubmit /\ t = h.seq
    <2>1. SyncSubmit /\ s = h.seq
      BY <1>1, <1>4, AnsweredOnce
    <2> QED BY <2>1 DEF SyncSubmit, OrderInv, Order, ControlBarrierTrue
  <1> QED BY <1>1, <1>2, <1>3, <1>4, UrbSteps

(* So does a control transfer (mod.rs:1383-1399).                          *)
THEOREM ControlsAfterWrites == Spec => ControlAfterWrites
  <1>1. OrderInv /\ [Next]_vars =>
          [\A s \in Urbs :
             urb[s].kind = "ctl" /\ urb[s].ret = "none" /\ urb'[s].ret = "ok" =>
               WritesSettledBefore(s)]_vars
    BY ControlServed
  <1> QED BY <1>1, OrderInvariant, PTL DEF Spec, ControlAfterWrites
=============================================================================
