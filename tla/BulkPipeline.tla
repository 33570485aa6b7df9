----------------------------- MODULE BulkPipeline -----------------------------
(***************************************************************************)
(* The transfers of one USB/IP connection: handler's select loop, the      *)
(* worker of one bulk IN endpoint, the worker of the bulk OUT endpoint     *)
(* with the same number, the bounded command channels to them, the         *)
(* unbounded event channels back, and the client's view of its URBs.       *)
(*                                                                         *)
(* A URB is named by its seqnum, which the client counts up.  A step is    *)
(* one channel operation, one transfer, or what a task does between two of *)
(* them.  Bytes are not modelled, only which OUT URBs have reached the     *)
(* device.  The writer of the OUT endpoint may pass bytes on earlier than  *)
(* it is flushed; no property here is about bytes that arrive too early.   *)
(***************************************************************************)
EXTENDS Naturals, Sequences, FiniteSets, SequencesExt

CONSTANTS
  MaxUrbs,     \* bound: the URBs the client submits
  MaxImports,  \* bound: the imports on this connection
  InCap,       \* capacity of the IN worker's channel (32 in the code)
  OutCap,      \* capacity of the OUT worker's channel (256 in the code)
  Kinds,       \* the kinds of URB the client submits
  InOpens,     \* possible outcomes of opening the IN endpoint
  OutOpens     \* possible outcomes of opening the OUT endpoint

ASSUME PipelineAssumption ==
  /\ MaxUrbs \in Nat /\ MaxImports \in Nat
  /\ InCap \in Nat \ {0} /\ OutCap \in Nat \ {0}
  /\ Kinds \subseteq {"in", "out", "ctl"}
  /\ InOpens \subseteq BOOLEAN /\ OutOpens \subseteq BOOLEAN

VARIABLES
  next,        \* the client's next seqnum
  urb,         \* what the client knows of each URB
  h,           \* where handler is, and the URB and reply it is busy with
  gen,         \* bulk_out_generation: the number of imports
  imported,    \* is imported_device set?
  bulkIn,      \* bulk_in_seqnums
  bulkOut,     \* bulk_out_seqnums
  cancelled,   \* cancelled_bulk_in_seqnums
  pendingOut,  \* pending_bulk_out
  inq, outq,   \* the command channels
  inEv, outEv, \* the event channels
  iw,          \* run_bulk_in_worker
  ow,          \* run_bulk_out_worker
  written      \* the OUT URBs whose bytes have reached the device

handlerVars == <<next, urb, h, gen, imported, bulkIn, bulkOut, cancelled, pendingOut>>
books == <<gen, imported, bulkIn, bulkOut, cancelled, pendingOut>>
vars == <<handlerVars, inq, outq, inEv, outEv, iw, ow, written>>

Urbs == 1 .. MaxUrbs
Command(cmd, arg) == [cmd |-> cmd, arg |-> arg]

Unsent == [kind |-> "none", gen |-> 0, ret |-> "none", unl |-> "no"]
Selecting == [pc |-> "select", seq |-> 0, reply |-> "none", then |-> "none"]
NoInWorker == [pc |-> "gone", pending |-> <<>>, seq |-> 0, reply |-> "none", active |-> 0]
NoOutWorker == [up |-> FALSE, buffered |-> {}, dirty |-> FALSE, poisoned |-> FALSE]

Init ==
  /\ next = 1 /\ urb = [s \in Urbs |-> Unsent]
  /\ h = Selecting /\ gen = 0 /\ imported = FALSE
  /\ bulkIn = {} /\ bulkOut = {} /\ cancelled = {} /\ pendingOut = {}
  /\ inq = <<>> /\ outq = <<>> /\ inEv = <<>> /\ outEv = <<>>
  /\ iw = NoInWorker /\ ow = NoOutWorker /\ written = {}

----------------------------------------------------------------------------
(* handler: one command at a time, each to its end.                        *)

At(pc) == h.pc = pc

(* RET_SUBMIT as the client sees it.                                       *)
Answered(s, ok) ==
  [urb EXCEPT ![s].ret = IF @ # "none" THEN "twice" ELSE IF ok THEN "ok" ELSE "err"]

Route(kind) ==
  CASE kind = "in" -> "sendIn"
    [] kind = "out" -> IF ow.up THEN "sendOut" ELSE "sync"
    [] kind = "ctl" -> IF ow.up THEN "flushSend" ELSE "sync"

(* USBIP_CMD_SUBMIT: to a worker, through the barrier, or at once; ignored *)
(* without an imported device.                                             *)
ReadSubmit(kind) ==
  /\ At("select") /\ next \in Urbs
  /\ next' = next + 1
  /\ urb' = [urb EXCEPT ![next] =
       [Unsent EXCEPT !.kind = IF imported THEN kind ELSE "ignored", !.gen = gen]]
  /\ h' = IF imported THEN [h EXCEPT !.pc = Route(kind), !.seq = next] ELSE h
  /\ UNCHANGED <<books, inq, outq, inEv, outEv, iw, ow, written>>

(* Mutant: the channel takes any number of commands.                       *)
SendOut_Unbounded ==
  /\ At("sendOut")
  /\ outq' = Append(outq, Command("submit", h.seq))
  /\ pendingOut' = pendingOut \cup {h.seq}
  /\ bulkOut' = bulkOut \cup {h.seq}
  /\ h' = Selecting
  /\ UNCHANGED <<next, urb, gen, imported, bulkIn, cancelled, inq, inEv, outEv,
                 iw, ow, written>>

(* Mutant: a request that was sent to the worker is not in the table.      *)
SendIn_Untracked ==
  /\ At("sendIn")
  /\ \/ /\ iw.pc = "gone"
        /\ h' = [h EXCEPT !.pc = "sync"]
        /\ UNCHANGED inq
     \/ /\ iw.pc # "gone" /\ Len(inq) < InCap
        /\ inq' = Append(inq, Command("submit", h.seq))
        /\ h' = Selecting
  /\ UNCHANGED <<next, urb, books, outq, inEv, outEv, iw, ow, written>>

(* worker.send(Submit): waits for room; fails when the worker has ended,   *)
(* and the URB takes the synchronous path.                                 *)
SendIn ==
  /\ At("sendIn")
  /\ \/ /\ iw.pc = "gone"
        /\ h' = [h EXCEPT !.pc = "sync"]
        /\ UNCHANGED <<bulkIn, inq>>
     \/ /\ iw.pc # "gone" /\ Len(inq) < InCap
        /\ inq' = Append(inq, Command("submit", h.seq))
        /\ bulkIn' = bulkIn \cup {h.seq}
        /\ h' = Selecting
  /\ UNCHANGED <<next, urb, gen, imported, bulkOut, cancelled, pendingOut,
                 outq, inEv, outEv, iw, ow, written>>

SendOut ==
  /\ At("sendOut") /\ Len(outq) < OutCap
  /\ outq' = Append(outq, Command("submit", h.seq))
  /\ pendingOut' = pendingOut \cup {h.seq}
  /\ bulkOut' = bulkOut \cup {h.seq}
  /\ h' = Selecting
  /\ UNCHANGED <<next, urb, gen, imported, bulkIn, cancelled, inq, inEv, outEv,
                 iw, ow, written>>

(* flush_bulk_out_before_control.                                          *)
ControlBarrier ==
  /\ At("flushSend") /\ Len(outq) < OutCap
  /\ outq' = Append(outq, Command("flush", "handler"))
  /\ h' = [h EXCEPT !.pc = "flushWait"]
  /\ UNCHANGED <<next, urb, books, inq, inEv, outEv, iw, ow, written>>

(* Mutant: a failed barrier is logged and the transfer goes on.            *)
ControlBarrierDone_Ignored ==
  /\ At("flushWait") /\ h.reply # "none"
  /\ h' = [h EXCEPT !.pc = "sync", !.reply = "none"]
  /\ UNCHANGED <<next, urb, books, inq, outq, inEv, outEv, iw, ow, written>>

ControlBarrierDone ==
  /\ At("flushWait") /\ h.reply # "none"
  /\ IF h.reply = "ok"
     THEN h' = [h EXCEPT !.pc = "sync", !.reply = "none"] /\ UNCHANGED urb
     ELSE h' = Selecting /\ urb' = Answered(h.seq, FALSE)
  /\ UNCHANGED <<next, books, inq, outq, inEv, outEv, iw, ow, written>>

(* handle_usbip_cmd_submit: the transfer is done here and now, and blocks  *)
(* the connection.                                                         *)
SyncSubmit ==
  /\ At("sync")
  /\ \E ok \in BOOLEAN :
       /\ urb' = Answered(h.seq, ok)
       /\ written' = IF ok /\ urb[h.seq].kind = "out" THEN written \cup {h.seq} ELSE written
  /\ h' = Selecting
  /\ UNCHANGED <<next, books, inq, outq, inEv, outEv, iw, ow>>

(* Mutant: what is unlinked is not remembered as cancelled.                *)
ReadUnlink_Forgotten(t) ==
  /\ At("select") /\ t < next /\ urb[t].unl = "no"
  /\ bulkIn' = bulkIn \ {t} /\ bulkOut' = bulkOut \ {t} /\ pendingOut' = pendingOut \ {t}
  /\ urb' = [urb EXCEPT ![t].unl = IF t \in bulkIn \cup bulkOut THEN "reset" ELSE "late"]
  /\ h' = IF t \in bulkIn THEN [h EXCEPT !.pc = "unlinkIn", !.seq = t]
          ELSE IF t \in bulkOut THEN [h EXCEPT !.pc = "unlinkOut", !.seq = t] ELSE h
  /\ UNCHANGED <<next, gen, imported, cancelled, inq, outq, inEv, outEv, iw, ow, written>>

(* USBIP_CMD_UNLINK: "reset" is the answer for a URB that is taken back,   *)
(* "late" the one for a URB that is not pending any more.                  *)
ReadUnlink(t) ==
  /\ At("select") /\ t < next /\ urb[t].unl = "no"
  /\ \/ /\ t \in bulkIn
        /\ bulkIn' = bulkIn \ {t} /\ cancelled' = cancelled \cup {t}
        /\ urb' = [urb EXCEPT ![t].unl = "reset"]
        /\ h' = [h EXCEPT !.pc = "unlinkIn", !.seq = t]
        /\ UNCHANGED <<bulkOut, pendingOut>>
     \/ /\ t \notin bulkIn /\ t \in bulkOut
        /\ bulkOut' = bulkOut \ {t} /\ pendingOut' = pendingOut \ {t}
        /\ urb' = [urb EXCEPT ![t].unl = IF t \in pendingOut THEN "reset" ELSE "late"]
        /\ h' = [h EXCEPT !.pc = "unlinkOut", !.seq = t]
        /\ UNCHANGED <<bulkIn, cancelled>>
     \/ /\ t \notin bulkIn \cup bulkOut
        /\ urb' = [urb EXCEPT ![t].unl = "late"]
        /\ UNCHANGED <<h, bulkIn, bulkOut, cancelled, pendingOut>>
  /\ UNCHANGED <<next, gen, imported, inq, outq, inEv, outEv, iw, ow, written>>

(* The worker is told, if there is one.                                    *)
SendUnlink ==
  /\ \/ /\ At("unlinkIn") /\ (iw.pc = "gone" \/ Len(inq) < InCap)
        /\ inq' = IF iw.pc = "gone" THEN inq ELSE Append(inq, Command("unlink", h.seq))
        /\ UNCHANGED outq
     \/ /\ At("unlinkOut") /\ Len(outq) < OutCap
        /\ outq' = Append(outq, Command("unlink", h.seq))
        /\ UNCHANGED inq
  /\ h' = Selecting
  /\ UNCHANGED <<next, urb, books, inEv, outEv, iw, ow, written>>

(* A barrier whose worker has gone on or ended is answered to nobody.      *)
Orphaned(q) == ReplaceAll(q, Command("flush", "in"), Command("flush", "nobody"))

(* OP_REQ_IMPORT and the end of the stream: the IN worker is aborted.      *)
ReadStop(then) ==
  /\ At("select")
  /\ then = "import" => gen < MaxImports
  /\ h' = [Selecting EXCEPT !.pc = IF ow.up THEN "stopSend" ELSE "stopped", !.then = then]
  /\ iw' = NoInWorker /\ inq' = <<>> /\ outq' = Orphaned(outq)
  /\ UNCHANGED <<next, urb, books, inEv, outEv, ow, written>>

StopSend ==
  /\ At("stopSend") /\ Len(outq) < OutCap
  /\ outq' = Append(outq, Command("shutdown", "handler"))
  /\ h' = [h EXCEPT !.pc = "stopWait"]
  /\ UNCHANGED <<next, urb, books, inq, inEv, outEv, iw, ow, written>>

(* stop_bulk_out_workers gives the OUT worker one second, then aborts it.  *)
StopDone ==
  /\ At("stopWait") /\ h.reply # "none"
  /\ h' = [h EXCEPT !.pc = "stopped"]
  /\ UNCHANGED <<next, urb, books, inq, outq, inEv, outEv, iw, ow, written>>

StopTimeout ==
  /\ At("stopWait") /\ h.reply = "none"
  /\ h' = [h EXCEPT !.pc = "stopped"]
  /\ ow' = NoOutWorker /\ outq' = <<>>
  /\ UNCHANGED <<next, urb, books, inq, inEv, outEv, iw, written>>

(* The tables are cleared, what the device sent before stays in the event  *)
(* channels; then come the reply and the new workers.                      *)
Import ==
  /\ At("stopped") /\ h.then = "import"
  /\ bulkIn' = {} /\ bulkOut' = {} /\ cancelled' = {} /\ pendingOut' = {}
  /\ gen' = gen + 1
  /\ \E ok \in BOOLEAN, outOpens \in OutOpens :
       /\ imported' = ok
       /\ iw' = IF ok THEN [NoInWorker EXCEPT !.pc = "opening"] ELSE NoInWorker
       /\ ow' = IF ok THEN [NoOutWorker EXCEPT !.up = outOpens] ELSE NoOutWorker
  /\ h' = Selecting
  /\ UNCHANGED <<next, urb, inq, outq, inEv, outEv, written>>

(* handler returns: the channels go, and the tasks are aborted.            *)
Closing ==
  /\ h' = [Selecting EXCEPT !.pc = "closed"]
  /\ iw' = NoInWorker /\ ow' = NoOutWorker
  /\ inq' = <<>> /\ outq' = <<>> /\ inEv' = <<>> /\ outEv' = <<>>
  /\ UNCHANGED <<next, urb, books, written>>

Close == At("stopped") /\ h.then = "close" /\ Closing

(* A response cannot be written: `?` leaves the loop at once.              *)
WriteFails ==
  /\ \/ h.pc \in {"select", "sync"}
     \/ At("stopped") /\ h.then = "import"
     \/ At("flushWait") /\ h.reply = "err"
  /\ Closing

(* Mutant: the response of a cancelled request is written.                 *)
InEvent_Unfiltered ==
  /\ At("select") /\ inEv # <<>>
  /\ inEv' = Tail(inEv)
  /\ bulkIn' = bulkIn \ {Head(inEv).seq}
  /\ urb' = Answered(Head(inEv).seq, Head(inEv).ok)
  /\ UNCHANGED <<next, h, gen, imported, bulkOut, cancelled, pendingOut, inq, outq,
                 outEv, iw, ow, written>>

InEvent ==
  LET s == Head(inEv).seq
  IN  /\ At("select") /\ inEv # <<>>
      /\ inEv' = Tail(inEv)
      /\ bulkIn' = bulkIn \ {s}
      /\ cancelled' = cancelled \ {s}
      /\ urb' = IF s \in cancelled THEN urb ELSE Answered(s, Head(inEv).ok)
      /\ UNCHANGED <<next, h, gen, imported, bulkOut, pendingOut, inq, outq, outEv,
                     iw, ow, written>>

(* Mutant: events of an earlier import are not told from those of this.    *)
OutEvent_AnyGeneration ==
  LET s == Head(outEv).seq
  IN  /\ At("select") /\ outEv # <<>>
      /\ outEv' = Tail(outEv)
      /\ bulkOut' = bulkOut \ {s} /\ pendingOut' = pendingOut \ {s}
      /\ urb' = Answered(s, Head(outEv).ok)
      /\ UNCHANGED <<next, h, gen, imported, bulkIn, cancelled, inq, outq, inEv,
                     iw, ow, written>>

(* A completion of an earlier import is dropped, one that was unlinked too.*)
OutEvent ==
  LET s == Head(outEv).seq
      current == urb[s].gen = gen
  IN  /\ At("select") /\ outEv # <<>>
      /\ outEv' = Tail(outEv)
      /\ bulkOut' = IF current THEN bulkOut \ {s} ELSE bulkOut
      /\ pendingOut' = IF current THEN pendingOut \ {s} ELSE pendingOut
      /\ urb' = IF current /\ s \in pendingOut THEN Answered(s, Head(outEv).ok) ELSE urb
      /\ UNCHANGED <<next, h, gen, imported, bulkIn, cancelled, inq, outq, inEv,
                     iw, ow, written>>

----------------------------------------------------------------------------
(* run_bulk_in_worker.  One physical read is in flight at most, for the    *)
(* request at the head of the queue, and only behind a flush barrier of    *)
(* the OUT worker.                                                         *)

InOnly == <<handlerVars, outEv, ow, written>>

(* Mutant: the newest request is served first.                             *)
Queued_Front(pending, c) ==
  IF c.cmd = "submit" THEN <<c.arg>> \o pending ELSE RemoveFirst(pending, c.arg)

(* The top of the loop.                                                    *)
LoopTop(w) ==
  [w EXCEPT !.reply = "none", !.seq = 0,
            !.pc = IF w.active # 0 THEN "read" ELSE IF w.pending # <<>> THEN "bsend" ELSE "recv"]

Queued(pending, c) ==
  IF c.cmd = "submit" THEN Append(pending, c.arg) ELSE RemoveFirst(pending, c.arg)

(* The endpoint opens, or the worker ends and the commands that were sent  *)
(* to it are gone.                                                         *)
InOpen ==
  /\ iw.pc = "opening"
  /\ \E ok \in InOpens :
       /\ iw' = IF ok THEN LoopTop(iw) ELSE NoInWorker
       /\ inq' = IF ok THEN inq ELSE <<>>
  /\ UNCHANGED <<InOnly, outq, inEv>>

(* Any of the select points: a command arrives.  A barrier that was        *)
(* waited for is given up.  An unlink of the active read cancels it.       *)
InCommand ==
  /\ iw.pc \in {"recv", "bsend", "bwait", "read"} /\ inq # <<>>
  /\ inq' = Tail(inq) /\ outq' = Orphaned(outq)
  /\ iw' = LoopTop([iw EXCEPT !.pending = Queued(@, Head(inq))])
  /\ UNCHANGED <<InOnly, inEv>>

(* flush_bulk_out_before_read.                                             *)
InBarrierSend ==
  /\ iw.pc = "bsend" /\ ow.up /\ Len(outq) < OutCap
  /\ outq' = Append(outq, Command("flush", "in"))
  /\ iw' = [iw EXCEPT !.pc = "bwait"]
  /\ UNCHANGED <<InOnly, inq, inEv>>

InBarrierDone ==
  /\ \/ iw.pc = "bsend" /\ ~ow.up
        /\ iw' = [iw EXCEPT !.pc = "drain", !.reply = "ok", !.seq = Head(iw.pending)]
     \/ iw.pc = "bwait" /\ iw.reply # "none"
        /\ iw' = [iw EXCEPT !.pc = "drain", !.seq = Head(iw.pending)]
  /\ UNCHANGED <<InOnly, inq, outq, inEv>>

(* try_recv: the commands that came during the barrier.                    *)
InDrain ==
  /\ iw.pc = "drain" /\ inq # <<>>
  /\ inq' = Tail(inq)
  /\ iw' = [iw EXCEPT !.pending = Queued(@, Head(inq))]
  /\ UNCHANGED <<InOnly, outq, inEv>>

(* The request the barrier was for is read, fails with the barrier, or has *)
(* been unlinked meanwhile.                                                *)
InSubmit ==
  /\ iw.pc = "drain" /\ inq = <<>>
  /\ LET first == iw.pending # <<>> /\ Head(iw.pending) = iw.seq
     IN  \/ /\ ~first
            /\ iw' = LoopTop(iw) /\ UNCHANGED inEv
         \/ /\ first /\ iw.reply = "err"
            /\ iw' = LoopTop([iw EXCEPT !.pending = Tail(@)])
            /\ inEv' = Append(inEv, [seq |-> iw.seq, ok |-> FALSE])
         \/ /\ first /\ iw.reply = "ok"
            /\ iw' = LoopTop([iw EXCEPT !.active = iw.seq]) /\ UNCHANGED inEv
  /\ UNCHANGED <<InOnly, inq, outq>>

(* Mutant: a read that fails is logged, and nobody is told.                *)
InComplete_Lost ==
  /\ iw.pc = "read"
  /\ iw' = LoopTop([iw EXCEPT !.active = 0, !.pending = RemoveFirst(@, iw.active)])
  /\ \/ inEv' = Append(inEv, [seq |-> iw.active, ok |-> TRUE])
     \/ UNCHANGED inEv
  /\ UNCHANGED <<InOnly, inq, outq>>

(* The physical read ends: with data, an error, or cancelled.              *)
InComplete ==
  /\ iw.pc = "read"
  /\ iw' = LoopTop([iw EXCEPT !.active = 0, !.pending = RemoveFirst(@, iw.active)])
  /\ IF Contains(iw.pending, iw.active)
     THEN \E ok \in BOOLEAN : inEv' = Append(inEv, [seq |-> iw.active, ok |-> ok])
     ELSE UNCHANGED inEv
  /\ UNCHANGED <<InOnly, inq, outq>>

----------------------------------------------------------------------------
(* run_bulk_out_worker.  A submit is acknowledged once its bytes are in    *)
(* the writer's buffer; an error of a write or a flush is never forgotten. *)

OutOnly == <<next, urb, books, inq, inEv>>

OutNext(cmd) == ow.up /\ outq # <<>> /\ Head(outq).cmd = cmd

OutSubmit ==
  LET s == Head(outq).arg
  IN  /\ OutNext("submit")
      /\ \/ /\ ~ow.poisoned
            /\ ow' = [ow EXCEPT !.buffered = @ \cup {s}, !.dirty = TRUE]
            /\ outEv' = Append(outEv, [seq |-> s, ok |-> TRUE])
         \/ /\ ow' = [ow EXCEPT !.poisoned = TRUE]
            /\ outEv' = Append(outEv, [seq |-> s, ok |-> FALSE])
      /\ outq' = Tail(outq)
      /\ UNCHANGED <<OutOnly, h, iw, written>>

(* What a flush does to the worker and to the device.                      *)
AfterFlush(ok) ==
  /\ ow' = IF ok THEN [ow EXCEPT !.buffered = {}, !.dirty = FALSE]
                 ELSE [ow EXCEPT !.poisoned = TRUE, !.dirty = FALSE]
  /\ written' = IF ok THEN written \cup ow.buffered ELSE written

FlushResult(ok) == IF ow.poisoned THEN ~ok ELSE ow.dirty \/ ok

(* The answer to a barrier goes to the task that waits for it.             *)
Reply(to, ok) ==
  LET r == IF ok THEN "ok" ELSE "err"
  IN  /\ h' = IF to = "handler" THEN [h EXCEPT !.reply = r] ELSE h
      /\ iw' = IF to = "in" THEN [iw EXCEPT !.reply = r] ELSE iw

(* Mutant: the barrier of a poisoned worker is not answered.               *)
OutFlush_Silent ==
  /\ OutNext("flush")
  /\ \E ok \in BOOLEAN :
       /\ FlushResult(ok) /\ AfterFlush(ok)
       /\ h' = IF ok /\ Head(outq).arg = "handler" THEN [h EXCEPT !.reply = "ok"] ELSE h
       /\ iw' = IF ok /\ Head(outq).arg = "in" THEN [iw EXCEPT !.reply = "ok"] ELSE iw
  /\ outq' = Tail(outq)
  /\ UNCHANGED <<OutOnly, outEv>>

(* Mutant: a flush that fails is not remembered.                           *)
OutFlush_Forgets ==
  /\ OutNext("flush")
  /\ \E ok \in BOOLEAN :
       /\ FlushResult(ok)
       /\ ow' = [ow EXCEPT !.buffered = IF ok THEN {} ELSE @, !.dirty = FALSE]
       /\ written' = IF ok /\ ow.dirty THEN written \cup ow.buffered ELSE written
       /\ Reply(Head(outq).arg, ok)
  /\ outq' = Tail(outq)
  /\ UNCHANGED <<OutOnly, outEv>>

OutFlush ==
  /\ OutNext("flush")
  /\ \E ok \in BOOLEAN :
       FlushResult(ok) /\ AfterFlush(ok) /\ Reply(Head(outq).arg, ok)
  /\ outq' = Tail(outq)
  /\ UNCHANGED <<OutOnly, outEv>>

(* Mutant: the worker leaves without the last flush.                       *)
OutShutdown_Unflushed ==
  /\ OutNext("shutdown")
  /\ Reply("handler", TRUE)
  /\ ow' = NoOutWorker /\ outq' = <<>>
  /\ UNCHANGED <<OutOnly, outEv, written>>

OutShutdown ==
  /\ OutNext("shutdown")
  /\ \E ok \in BOOLEAN :
       /\ FlushResult(ok) /\ Reply(Head(outq).arg, ok)
       /\ written' = IF ok THEN written \cup ow.buffered ELSE written
  /\ ow' = NoOutWorker /\ outq' = <<>>
  /\ UNCHANGED <<OutOnly, outEv>>

(* Bytes in the buffer cannot be taken back: an unlink is ignored.         *)
OutUnlink ==
  /\ OutNext("unlink")
  /\ outq' = Tail(outq)
  /\ UNCHANGED <<OutOnly, h, outEv, iw, ow, written>>

(* Two milliseconds without a command: flush, whatever happened before.    *)
OutIdleFlush ==
  /\ ow.up /\ ow.dirty
  /\ \E ok \in BOOLEAN : AfterFlush(ok)
  /\ UNCHANGED <<OutOnly, h, outq, outEv, iw>>

----------------------------------------------------------------------------

(* The client's commands, and the socket.                                  *)
Peer ==
  \/ \E kind \in Kinds : ReadSubmit(kind)
  \/ \E t \in Urbs : ReadUnlink(t)
  \/ \E then \in {"import", "close"} : ReadStop(then)
  \/ WriteFails

HandlerStep ==
  \/ SendIn \/ SendOut \/ ControlBarrier \/ ControlBarrierDone \/ SyncSubmit
  \/ SendUnlink \/ StopSend \/ StopDone \/ Import \/ Close

InWorkerStep ==
  InOpen \/ InCommand \/ InBarrierSend \/ InBarrierDone \/ InDrain \/ InSubmit

OutWorkerStep ==
  OutSubmit \/ OutFlush \/ OutShutdown \/ OutUnlink \/ OutIdleFlush

Next ==
  \/ Peer \/ HandlerStep \/ InEvent \/ OutEvent \/ StopTimeout
  \/ InWorkerStep \/ InComplete \/ OutWorkerStep

Spec == Init /\ [][Next]_vars

(* A physical read that was cancelled ends; any other waits for data, for  *)
(* as long as the device has none.                                         *)
DeviceSilent == iw.pc = "read" /\ Contains(iw.pending, iw.active)

(* The runtime runs a task that can go on, and every transfer but a read   *)
(* has a timeout.  select! polls its branches in random order, so that a   *)
(* branch which is ready at every turn of the loop is taken in the end;    *)
(* that is strong fairness for the two event channels and for the commands *)
(* of the IN worker.  Nothing makes the client send anything or the device *)
(* produce data; the client reads its socket.                              *)
Fairness ==
  /\ WF_vars(HandlerStep) /\ SF_vars(InEvent) /\ SF_vars(OutEvent)
  /\ WF_vars(InWorkerStep) /\ SF_vars(InCommand)
  /\ WF_vars(InComplete /\ ~DeviceSilent)
  /\ WF_vars(OutWorkerStep)

FairSpec == Spec /\ Fairness

----------------------------------------------------------------------------
(* Properties.                                                             *)

Replies == {"none", "ok", "err"}

UrbState == [kind : Kinds \cup {"none", "ignored"}, gen : 0 .. MaxImports,
             ret : Replies \cup {"twice"}, unl : {"no", "reset", "late"}]

HandlerState ==
  [pc : {"select", "sendIn", "sendOut", "flushSend", "flushWait", "sync", "unlinkIn",
         "unlinkOut", "stopSend", "stopWait", "stopped", "closed"},
   seq : 0 .. MaxUrbs, reply : Replies, then : {"none", "import", "close"}]

InWorker ==
  [pc : {"gone", "opening", "recv", "bsend", "bwait", "drain", "read"},
   pending : Seq(Urbs), seq : 0 .. MaxUrbs, reply : Replies, active : 0 .. MaxUrbs]

OutWorker == [up : BOOLEAN, buffered : SUBSET Urbs, dirty : BOOLEAN, poisoned : BOOLEAN]

Commands ==
  [cmd : {"submit", "unlink"}, arg : Urbs]
    \cup [cmd : {"flush"}, arg : {"handler", "in", "nobody"}]
    \cup {Command("shutdown", "handler")}

Events == [seq : Urbs, ok : BOOLEAN]

(* The shape of the state: the channels stay within their bounds, the two  *)
(* tables of OUT requests agree, and a read is in flight exactly when the  *)
(* IN worker is waiting for one.                                           *)
TypeOK ==
  /\ next \in 1 .. MaxUrbs + 1 /\ urb \in [Urbs -> UrbState] /\ h \in HandlerState
  /\ gen \in 0 .. MaxImports /\ imported \in BOOLEAN
  /\ bulkIn \subseteq Urbs /\ bulkOut \subseteq Urbs /\ cancelled \subseteq Urbs
  /\ pendingOut = bulkOut
  /\ inq \in Seq(Commands) /\ Len(inq) <= InCap
  /\ outq \in Seq(Commands) /\ Len(outq) <= OutCap
  /\ inEv \in Seq(Events) /\ outEv \in Seq(Events)
  /\ iw \in InWorker /\ (iw.pc = "read" <=> iw.active # 0)
  /\ ow \in OutWorker /\ written \subseteq Urbs

(* No URB is answered twice, and none is answered that the client was told *)
(* is taken back, as long as the import it belongs to lasts: the worker,   *)
(* the set of cancelled requests and the two tables close every race of an *)
(* unlink with a completion (mod.rs:1413-1452, 357-411).                   *)
ResponsesExclusive ==
  \A s \in Urbs :
    /\ urb[s].ret # "twice"
    /\ urb[s].gen = gen /\ urb[s].unl = "reset" => urb[s].ret = "none"

(* An unlink that says there was nothing to take back is right: the URB    *)
(* has been answered (mod.rs:1417-1431).                                   *)
UnlinkTruthful ==
  \A s \in Urbs :
    urb[s].gen = gen /\ urb[s].kind # "ignored" /\ urb[s].unl = "late" =>
      urb[s].ret # "none"

(* Reads are answered in the order of their submission, whatever was       *)
(* unlinked, cancelled or failed in between (docs/superpowers/plans/       *)
(* 2026-07-16-persistent-bulk-in-usbip.md:7; mod.rs:265-425).              *)
ReadsInOrder ==
  iw.pc # "gone" =>
    \A s, t \in Urbs :
      /\ s < t /\ urb[s].gen = gen /\ urb[s].kind = "in"
      /\ urb[t].gen = gen /\ urb[t].kind = "in" /\ urb[t].ret # "none"
      => urb[s].ret # "none" \/ urb[s].unl # "no"

(* An OUT URB is out of the way: at the device, or reported as failed.     *)
Settled(t) == t \in written \/ urb[t].ret = "err"

WritesSettledBefore(s) ==
  \A t \in Urbs : t < s /\ urb[t].kind = "out" /\ urb[t].gen = gen => Settled(t)

(* A physical read starts only when every OUT URB the client submitted     *)
(* before it has reached the device, however late the OUT worker is, and   *)
(* never after one of them failed silently: command and answer of a serial *)
(* line keep their order (docs/superpowers/plans/                          *)
(* 2026-07-17-buffered-ch340-bulk-out.md:60; mod.rs:299-353).              *)
ReadAfterWrites ==
  [][iw.active = 0 /\ iw'.active # 0 => WritesSettledBefore(iw'.active)]_vars

(* The same for a control transfer that succeeds, so that a reset or a     *)
(* change of the baud rate cannot overtake data (mod.rs:1383-1399).        *)
ControlAfterWrites ==
  [][\A s \in Urbs :
       urb[s].kind = "ctl" /\ urb[s].ret = "none" /\ urb'[s].ret = "ok" =>
         WritesSettledBefore(s)]_vars

(* An OUT completion of an earlier import is not written after the next    *)
(* one (mod.rs:1445-1451, test 1654).                                      *)
NoStaleOutResponse ==
  [][\A s \in Urbs :
       urb[s].kind = "out" /\ urb'[s].ret # urb[s].ret => urb[s].gen = gen]_vars

(* When the session is stopped in order and the shutdown of the OUT worker *)
(* reports success, everything that was acknowledged has reached the       *)
(* device (mod.rs:500-510, 626-647).                                       *)
ShutdownFlushes ==
  h.pc = "stopped" /\ h.reply = "ok" =>
    \A s \in Urbs : urb[s].gen = gen /\ urb[s].kind = "out" /\ urb[s].ret = "ok" =>
      s \in written

(* handler comes back to its select loop from every command: no channel    *)
(* that is full and no barrier keeps it waiting for ever                   *)
(* (mod.rs:221-244, 1363, 1384, 1420, 1633).                               *)
HandlerReturns ==
  h.pc \notin {"select", "closed"} ~> h.pc \in {"select", "closed"}

(* A request that was handed to a worker leaves the tables again: it is    *)
(* answered or unlinked, or the session ends.  A read may wait for a       *)
(* physical read that waits for data, but for nothing else, although the   *)
(* barrier before a read is given up and begun again whenever a command    *)
(* arrives.  The client sends MaxUrbs requests at most; one that never     *)
(* paused could starve its reads (mod.rs:299-317, 1439-1452).              *)
RequestsEnd ==
  \A s \in Urbs :
    /\ s \in bulkOut ~> s \notin bulkOut \/ h.pc = "closed"
    /\ s \in bulkIn ~> s \notin bulkIn \/ h.pc = "closed" \/ DeviceSilent

(* What became of a URB, for UrbContract.                                  *)
Status(s) ==
  CASE urb[s].kind = "none" -> "new"
    [] urb[s].kind = "ignored" -> "ended"
    [] urb[s].kind \in Kinds /\ urb[s].ret # "none" -> "answered"
    [] urb[s].kind \in Kinds /\ urb[s].ret = "none" /\ urb[s].unl = "reset" -> "cancelled"
    [] OTHER -> IF h.pc = "closed" \/ urb[s].gen # gen THEN "ended" ELSE "open"

Contract == INSTANCE UrbContract WITH status <- [s \in Urbs |-> Status(s)]

(* Within one import the pipeline keeps the contract about URBs.           *)
KeepsUrbContract == Contract!Spec
=============================================================================
