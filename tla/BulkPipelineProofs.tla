--------------------------- MODULE BulkPipelineProofs ---------------------------
(***************************************************************************)
(* Proofs about BulkPipeline, for every number of URBs and imports, every  *)
(* capacity of the channels and every outcome of opening the endpoints.    *)
(***************************************************************************)
EXTENDS BulkPipeline, SequenceTheorems, WellFoundedInduction, TLAPS

(* The URBs in a channel to a worker, in the queue of the IN worker and in *)
(* a channel of events.                                                    *)
Sent(q) == {q[i].arg : i \in {k \in 1 .. Len(q) : q[k].cmd = "submit"}}
Seqs(q) == {q[i].seq : i \in 1 .. Len(q)}

(* They are there in the order of their seqnums.                           *)
SentInOrder(q) ==
  \A i, j \in 1 .. Len(q) :
    i < j /\ q[i].cmd = "submit" /\ q[j].cmd = "submit" => q[i].arg < q[j].arg
SeqsInOrder(q) == \A i, j \in 1 .. Len(q) : i < j => q[i].seq < q[j].seq
Increasing(q) == \A i, j \in 1 .. Len(q) : i < j => q[i] < q[j]

Below(A, B) == \A a \in A, b \in B : a < b

----------------------------------------------------------------------------
(* Lemmas about channels and queues.                                       *)

(* An event that is sent is the last of its channel.                       *)
LEMMA EventSent ==
  ASSUME NEW q \in Seq(Events), NEW e \in Events,
         SeqsInOrder(q), Below(Seqs(q), {e.seq})
  PROVE  /\ Append(q, e) \in Seq(Events)
         /\ SeqsInOrder(Append(q, e))
         /\ Seqs(Append(q, e)) = Seqs(q) \cup {e.seq}
  <1>1. /\ Append(q, e) \in Seq(Events) /\ Len(q) \in Nat
        /\ Len(Append(q, e)) = Len(q) + 1
        /\ \A i \in 1 .. Len(q) : Append(q, e)[i] = q[i]
        /\ Append(q, e)[Len(q) + 1] = e
    OBVIOUS
  <1>2. SeqsInOrder(Append(q, e))
    BY <1>1 DEF SeqsInOrder, Below, Seqs
  <1>3. Seqs(Append(q, e)) = Seqs(q) \cup {e.seq}
    BY <1>1 DEF Seqs
  <1> QED BY <1>1, <1>2, <1>3

(* An event that is taken is the first, and all others come later.         *)
LEMMA EventTaken ==
  ASSUME NEW q \in Seq(Events), q # <<>>, SeqsInOrder(q)
  PROVE  /\ Tail(q) \in Seq(Events) /\ Head(q) \in Events
         /\ SeqsInOrder(Tail(q))
         /\ Seqs(q) = Seqs(Tail(q)) \cup {Head(q).seq}
         /\ Below({Head(q).seq}, Seqs(Tail(q)))
  <1>1. /\ Tail(q) \in Seq(Events) /\ Head(q) \in Events /\ Len(q) \in Nat
        /\ Head(q) = q[1] /\ 1 \in 1 .. Len(q)
        /\ Len(Tail(q)) = Len(q) - 1
        /\ \A i \in 1 .. Len(Tail(q)) : i + 1 \in 1 .. Len(q) /\ Tail(q)[i] = q[i + 1]
    OBVIOUS
  <1>2. SeqsInOrder(Tail(q))
    BY <1>1 DEF SeqsInOrder
  <1>3. \A i \in 1 .. Len(q) : i = 1 \/ (i - 1 \in 1 .. Len(Tail(q)) /\ q[i] = Tail(q)[i - 1])
    BY <1>1
  <1>4. Seqs(q) = Seqs(Tail(q)) \cup {Head(q).seq}
    BY <1>1, <1>3 DEF Seqs
  <1>5. Below({Head(q).seq}, Seqs(Tail(q)))
    BY <1>1 DEF Below, Seqs, SeqsInOrder
  <1> QED BY <1>1, <1>2, <1>4, <1>5

(* The same for the commands of a worker.                                  *)
LEMMA CommandSent ==
  ASSUME NEW q \in Seq(Commands), NEW c \in Commands
  PROVE  /\ Append(q, c) \in Seq(Commands) /\ Len(Append(q, c)) = Len(q) + 1
         /\ Sent(Append(q, c)) = IF c.cmd = "submit" THEN Sent(q) \cup {c.arg} ELSE Sent(q)
         /\ SentInOrder(q) /\ (c.cmd = "submit" => Below(Sent(q), {c.arg})) =>
              SentInOrder(Append(q, c))
  <1>1. /\ Append(q, c) \in Seq(Commands) /\ Len(q) \in Nat
        /\ Len(Append(q, c)) = Len(q) + 1
        /\ \A i \in 1 .. Len(q) : Append(q, c)[i] = q[i]
        /\ Append(q, c)[Len(q) + 1] = c
    OBVIOUS
  <1>2. Sent(Append(q, c)) = IF c.cmd = "submit" THEN Sent(q) \cup {c.arg} ELSE Sent(q)
    BY <1>1 DEF Sent
  <1>3. ASSUME SentInOrder(q), c.cmd = "submit" => Below(Sent(q), {c.arg})
        PROVE  SentInOrder(Append(q, c))
    BY <1>1, <1>3 DEF SentInOrder, Below, Sent
  <1> QED BY <1>1, <1>2, <1>3

(* A command that is taken is the first, and requests behind it come later.*)
LEMMA CommandTaken ==
  ASSUME NEW q \in Seq(Commands), q # <<>>
  PROVE  /\ Tail(q) \in Seq(Commands) /\ Head(q) \in Commands
         /\ Len(Tail(q)) = Len(q) - 1 /\ Len(q) \in Nat
         /\ Sent(q) = IF Head(q).cmd = "submit" THEN Sent(Tail(q)) \cup {Head(q).arg}
                      ELSE Sent(Tail(q))
         /\ SentInOrder(q) =>
              /\ SentInOrder(Tail(q))
              /\ Head(q).cmd = "submit" => Below({Head(q).arg}, Sent(Tail(q)))
  <1>1. /\ Tail(q) \in Seq(Commands) /\ Head(q) \in Commands /\ Len(q) \in Nat
        /\ Head(q) = q[1] /\ 1 \in 1 .. Len(q)
        /\ Len(Tail(q)) = Len(q) - 1
        /\ \A i \in 1 .. Len(Tail(q)) : i + 1 \in 1 .. Len(q) /\ Tail(q)[i] = q[i + 1]
    OBVIOUS
  <1>2. \A i \in 1 .. Len(q) : i = 1 \/ (i - 1 \in 1 .. Len(Tail(q)) /\ q[i] = Tail(q)[i - 1])
    BY <1>1
  <1>3. Sent(q) = IF Head(q).cmd = "submit" THEN Sent(Tail(q)) \cup {Head(q).arg}
                  ELSE Sent(Tail(q))
    BY <1>1, <1>2 DEF Sent
  <1>4. SentInOrder(q) => SentInOrder(Tail(q))
    BY <1>1 DEF SentInOrder
  <1>5. SentInOrder(q) /\ Head(q).cmd = "submit" => Below({Head(q).arg}, Sent(Tail(q)))
    BY <1>1 DEF SentInOrder, Sent, Below
  <1> QED BY <1>1, <1>3, <1>4, <1>5

(* A request is queued behind the others.                                  *)
LEMMA Enqueued ==
  ASSUME NEW p \in Seq(Urbs), NEW s \in Urbs, Increasing(p), Below(ToSet(p), {s})
  PROVE  /\ Append(p, s) \in Seq(Urbs) /\ Increasing(Append(p, s))
         /\ ToSet(Append(p, s)) = ToSet(p) \cup {s}
         /\ Append(p, s) # <<>>
  <1>1. /\ Append(p, s) \in Seq(Urbs) /\ Len(p) \in Nat
        /\ Len(Append(p, s)) = Len(p) + 1
        /\ \A i \in 1 .. Len(p) : Append(p, s)[i] = p[i]
        /\ Append(p, s)[Len(p) + 1] = s
        /\ DOMAIN p = 1 .. Len(p) /\ DOMAIN Append(p, s) = 1 .. Len(p) + 1
    OBVIOUS
  <1>2. Increasing(Append(p, s))
    BY <1>1 DEF Increasing, Below, ToSet
  <1>3. ToSet(Append(p, s)) = ToSet(p) \cup {s}
    BY <1>1 DEF ToSet
  <1> QED BY <1>1, <1>2, <1>3

(* The first request of the queue is the least.                            *)
LEMMA Dequeued ==
  ASSUME NEW p \in Seq(Urbs), p # <<>>, Increasing(p)
  PROVE  /\ Tail(p) \in Seq(Urbs) /\ Head(p) \in Urbs /\ Increasing(Tail(p))
         /\ ToSet(p) = ToSet(Tail(p)) \cup {Head(p)}
         /\ Below({Head(p)}, ToSet(Tail(p)))
  <1>1. /\ Tail(p) \in Seq(Urbs) /\ Head(p) \in Urbs /\ Len(p) \in Nat
        /\ Head(p) = p[1] /\ 1 \in 1 .. Len(p)
        /\ Len(Tail(p)) = Len(p) - 1
        /\ \A i \in 1 .. Len(Tail(p)) : i + 1 \in 1 .. Len(p) /\ Tail(p)[i] = p[i + 1]
        /\ DOMAIN p = 1 .. Len(p) /\ DOMAIN Tail(p) = 1 .. Len(Tail(p))
    OBVIOUS
  <1>2. \A i \in 1 .. Len(p) : i = 1 \/ (i - 1 \in 1 .. Len(Tail(p)) /\ p[i] = Tail(p)[i - 1])
    BY <1>1
  <1>3. Increasing(Tail(p))
    BY <1>1 DEF Increasing
  <1>4. ToSet(p) = ToSet(Tail(p)) \cup {Head(p)}
    <2>1. ASSUME NEW s \in ToSet(p) PROVE s \in ToSet(Tail(p)) \cup {Head(p)}
      <3>1. PICK i \in 1 .. Len(p) : s = p[i]
        BY <1>1 DEF ToSet
      <3> QED BY <1>1, <1>2, <3>1 DEF ToSet
    <2>2. \A s \in ToSet(Tail(p)) \cup {Head(p)} : s \in ToSet(p)
      BY <1>1 DEF ToSet
    <2> QED BY <2>1, <2>2
  <1>5. Below({Head(p)}, ToSet(Tail(p)))
    BY <1>1 DEF Below, ToSet, Increasing
  <1> QED BY <1>1, <1>3, <1>4, <1>5

(* A set of places that is not empty has a first one.                      *)
LEMMA FirstOf ==
  ASSUME NEW I, I \subseteq Nat, I # {}
  PROVE  Min(I) \in I /\ \A i \in I : Min(I) <= i
  <1>1. OpToRel(<, Nat) = {ss \in Nat \X Nat : ss[1] < ss[2]}
    BY Zenon DEF OpToRel
  <1>2. IsWellFoundedOn({ss \in Nat \X Nat : ss[1] < ss[2]}, Nat)
    BY <1>1, NatLessThanWellFounded, Zenon
  <1>3. PICK m \in I : \A i \in I : ~(<<i, m>> \in {ss \in Nat \X Nat : ss[1] < ss[2]})
    BY <1>2, WFMin, Zenon
  <1>4. ASSUME NEW i \in I PROVE m <= i
    <2>1. /\ <<i, m>> \in Nat \X Nat /\ i \in Nat /\ m \in Nat
          /\ <<i, m>>[1] = i /\ <<i, m>>[2] = m
      OBVIOUS
    <2>2. ~(i < m)
      BY <1>3, <2>1, Zenon
    <2> QED BY <2>1, <2>2
  <1> QED BY <1>4, Zenon DEF Min

(* The first occurrence of s is taken out of the queue; the order of the   *)
(* others, and the first of them, stay.                                    *)
LEMMA Withdrawn ==
  ASSUME NEW p \in Seq(Urbs), NEW s, Increasing(p)
  PROVE  /\ RemoveFirst(p, s) \in Seq(Urbs)
         /\ Increasing(RemoveFirst(p, s))
         /\ ToSet(RemoveFirst(p, s)) = ToSet(p) \ {s}
  <1>1. Len(p) \in Nat /\ DOMAIN p = 1 .. Len(p) /\ \A i \in 1 .. Len(p) : p[i] \in Urbs
    OBVIOUS
  <1>2. CASE ~\E i \in 1 .. Len(p) : p[i] = s
    BY <1>1, <1>2 DEF RemoveFirst, ToSet
  <1>3. CASE \E i \in 1 .. Len(p) : p[i] = s
    <2> DEFINE I == {i \in 1 .. Len(p) : p[i] = s}
               k == Min(I)
               r == RemoveAt(p, k)
    <2>1. k \in I
      <3>1. I \subseteq Nat /\ I # {}
        BY <1>1, <1>3
      <3> HIDE DEF I
      <3> QED BY <3>1, FirstOf, Zenon
    <2>2. RemoveFirst(p, s) = r
      BY <1>3, Zenon DEF RemoveFirst, SelectInSeq
    <2> HIDE DEF k
    <2>3. k \in 1 .. Len(p) /\ p[k] = s
      BY <2>1
    <2>4. /\ r \in Seq(Urbs) /\ Len(r) = Len(p) - 1 /\ DOMAIN r = 1 .. Len(r)
          /\ \A i \in 1 .. Len(r) : r[i] = IF i < k THEN p[i] ELSE p[i + 1]
      <3> DEFINE a == SubSeq(p, 1, k - 1)
                 b == SubSeq(p, k + 1, Len(p))
      <3>1. /\ a \in Seq(Urbs) /\ Len(a) = k - 1
            /\ \A i \in 1 .. k - 1 : a[i] = p[i]
        BY <1>1, <2>3
      <3>2. /\ b \in Seq(Urbs) /\ Len(b) = Len(p) - k
            /\ \A i \in 1 .. Len(p) - k : b[i] = p[k + i]
        <4>1. k + 1 \in Int /\ Len(p) \in Int /\ \A i \in k + 1 .. Len(p) : p[i] \in Urbs
          BY <1>1, <2>3
        <4>2. /\ b \in Seq(Urbs)
              /\ Len(b) = IF k + 1 <= Len(p) THEN Len(p) - (k + 1) + 1 ELSE 0
              /\ \A i \in 1 .. Len(p) - (k + 1) + 1 : b[i] = p[k + 1 + i - 1]
          BY <4>1, SubSeqProperties
        <4> HIDE DEF b
        <4>3. Len(p) - (k + 1) + 1 = Len(p) - k /\ \A i \in Nat : k + 1 + i - 1 = k + i
          BY <1>1, <2>3
        <4>4. \A n \in Nat : \A m \in 1 .. n :
                (IF m + 1 <= n THEN n - (m + 1) + 1 ELSE 0) = n - m
          OBVIOUS
        <4>5. Len(b) = Len(p) - k
          BY <1>1, <2>3, <4>2, <4>4, Zenon
        <4> QED BY <4>2, <4>3, <4>5
      <3>3. r = a \o b
        BY DEF RemoveAt
      <3> HIDE DEF a, b, r
      <3>4. /\ r \in Seq(Urbs) /\ Len(r) = Len(p) - 1
            /\ \A i \in 1 .. Len(r) : r[i] = IF i <= k - 1 THEN a[i] ELSE b[i - (k - 1)]
        <4>1. /\ a \o b \in Seq(Urbs) /\ Len(a \o b) = Len(a) + Len(b)
              /\ \A i \in 1 .. Len(a) + Len(b) :
                   (a \o b)[i] = IF i <= Len(a) THEN a[i] ELSE b[i - Len(a)]
          BY <3>1, <3>2, ConcatProperties
        <4> QED BY <1>1, <2>3, <3>1, <3>2, <3>3, <4>1
      <3>5. ASSUME NEW i \in 1 .. Len(r) PROVE r[i] = IF i < k THEN p[i] ELSE p[i + 1]
        <4>1. CASE i < k
          BY <1>1, <2>3, <3>1, <3>4, <4>1
        <4>2. CASE ~(i < k)
          <5>1. i - (k - 1) \in 1 .. Len(p) - k /\ k + (i - (k - 1)) = i + 1
            BY <1>1, <2>3, <3>4, <4>2
          <5> QED BY <1>1, <2>3, <3>2, <3>4, <4>2, <5>1
        <4> QED BY <4>1, <4>2
      <3> QED BY <3>4, <3>5
    <2> HIDE DEF r
    <2>5. Increasing(r)
      BY <1>1, <2>3, <2>4 DEF Increasing
    <2>6. ASSUME NEW t \in ToSet(r) PROVE t \in ToSet(p) \ {s}
      <3>1. PICK i \in 1 .. Len(r) : t = r[i]
        BY <2>4 DEF ToSet
      <3>2. /\ i < k => t = p[i] /\ i \in 1 .. Len(p)
            /\ ~(i < k) => t = p[i + 1] /\ i + 1 \in 1 .. Len(p) /\ k < i + 1
        BY <1>1, <2>3, <2>4, <3>1
      <3>3. t \in ToSet(p)
        BY <1>1, <3>2 DEF ToSet
      <3>4. \A m \in 1 .. Len(p) : p[m] \in Nat
        BY <1>1, PipelineAssumption DEF Urbs
      <3>5. t # s
        BY <1>1, <2>3, <3>2, <3>4 DEF Increasing
      <3> QED BY <3>3, <3>5
    <2>7. ASSUME NEW t \in ToSet(p) \ {s} PROVE t \in ToSet(r)
      <3>1. PICK i \in 1 .. Len(p) : t = p[i]
        BY <1>1 DEF ToSet
      <3>2. i < k \/ i > k
        BY <2>3, <3>1
      <3>3. CASE i < k
        BY <1>1, <2>3, <2>4, <3>1, <3>3, SMTT(30) DEF ToSet
      <3>4. CASE i > k
        <4>1. i - 1 \in 1 .. Len(r) /\ r[i - 1] = p[i]
          BY <1>1, <2>3, <2>4, <3>4
        <4> QED BY <2>4, <3>1, <4>1 DEF ToSet
      <3> QED BY <3>2, <3>3, <3>4
    <2>8. ToSet(r) = ToSet(p) \ {s}
      BY <2>6, <2>7
    <2> QED BY <2>2, <2>4, <2>5, <2>8
  <1> QED BY <1>2, <1>3

(* Only a queue that is empty holds no request.                            *)
LEMMA EmptyQueue ==
  /\ \A p \in Seq(Urbs) : p # <<>> => Head(p) \in ToSet(p)
  /\ ToSet(<<>>) = {} /\ Sent(<<>>) = {} /\ Seqs(<<>>) = {}
  /\ Increasing(<<>>) /\ SentInOrder(<<>>) /\ SeqsInOrder(<<>>)
  <1>1. ASSUME NEW p \in Seq(Urbs), p # <<>> PROVE Head(p) \in ToSet(p)
    <2>1. Head(p) = p[1] /\ 1 \in DOMAIN p
      BY <1>1
    <2> QED BY <2>1 DEF ToSet
  <1>2. Len(<<>>) = 0 /\ DOMAIN <<>> = {}
    OBVIOUS
  <1> QED BY <1>1, <1>2 DEF ToSet, Sent, Seqs, Increasing, SentInOrder, SeqsInOrder

(* A barrier that is answered to nobody leaves the rest of the channel.    *)
LEMMA OrphanedChannel ==
  ASSUME NEW q \in Seq(Commands)
  PROVE  /\ Orphaned(q) \in Seq(Commands) /\ Len(Orphaned(q)) = Len(q)
         /\ \A i \in 1 .. Len(q) :
              Orphaned(q)[i] = IF q[i] = Command("flush", "in")
                               THEN Command("flush", "nobody") ELSE q[i]
  <1>1. Command("flush", "nobody") \in Commands
    BY DEF Command, Commands
  <1>2. Len(q) \in Nat /\ \A i \in 1 .. Len(q) : q[i] \in Commands
    OBVIOUS
  <1> DEFINE e(i) == IF q[i] = Command("flush", "in")
                     THEN Command("flush", "nobody") ELSE q[i]
  <1>3. Orphaned(q) = [i \in 1 .. Len(q) |-> e(i)]
    BY DEF Orphaned, ReplaceAll
  <1>4. \A i \in 1 .. Len(q) : e(i) \in Commands
    BY <1>1, <1>2
  <1> HIDE DEF e
  <1>5. [i \in 1 .. Len(q) |-> e(i)] \in Seq(Commands)
    BY <1>2, <1>4
  <1>6. Len([i \in 1 .. Len(q) |-> e(i)]) = Len(q)
    BY <1>2
  <1> QED BY <1>3, <1>5, <1>6 DEF e
----------------------------------------------------------------------------
(* The inductive invariant.  A request that is not answered yet is in one  *)
(* place: the handler's hands, a channel, the queue of the IN worker, or   *)
(* an event; the places of a read form a line in the order of the seqnums, *)
(* so that it is never in two of them.                                     *)

(* The handler is busy with the URB h.seq, or winds a session up.          *)
Answering == h.pc \in {"sendIn", "sendOut", "flushSend", "flushWait", "sync"}
Mine(s) == Answering /\ s = h.seq
Stopping == h.pc \in {"stopSend", "stopWait", "stopped", "closed"}

Current(s) == urb[s].gen = gen
Live(s) == urb[s].ret = "none" /\ urb[s].unl = "no"

OnLine == Seqs(inEv) \cup ToSet(iw.pending) \cup Sent(inq)

(* URBs are numbered up, and belong to the import of their time.           *)
Numbered ==
  \A s \in Urbs :
    /\ urb[s].gen <= gen
    /\ IF s < next THEN urb[s].kind # "none" ELSE urb[s] = Unsent

(* What the handler holds is the newest URB, and nowhere else.             *)
Busy ==
  /\ Answering => /\ h.seq \in Urbs /\ h.seq + 1 = next
                  /\ Current(h.seq) /\ Live(h.seq)
                  /\ h.seq \notin bulkIn \cup bulkOut
  /\ At("sendIn") => urb[h.seq].kind = "in"
  /\ At("sendOut") => urb[h.seq].kind = "out"
  /\ h.pc \in {"flushSend", "flushWait"} => urb[h.seq].kind = "ctl"
  /\ At("sync") => urb[h.seq].kind \in Kinds
  /\ At("sync") /\ urb[h.seq].kind = "in" => iw.pc = "gone"
  /\ h.pc \in {"unlinkIn", "unlinkOut"} => h.seq \in Urbs /\ urb[h.seq].unl # "no"
  /\ h.pc \in {"stopSend", "stopWait", "stopped"} /\ h.then = "import" => gen < MaxImports

(* The tables hold requests of this import that nobody has heard of yet.   *)
Tables ==
  /\ \A s \in bulkIn : urb[s].kind = "in" /\ Current(s) /\ Live(s)
  /\ \A s \in bulkOut : urb[s].kind = "out" /\ Current(s) /\ Live(s)
  /\ \A s \in cancelled : urb[s].unl # "no"

(* No worker, no requests; a barrier is for a request; an unlink that the  *)
(* worker is told of is one the client knows of.                           *)
Attended ==
  /\ Stopping => iw.pc = "gone"
  /\ iw.pc = "gone" => iw.pending = <<>> /\ inq = <<>>
  /\ iw.pc \in {"bsend", "bwait"} => iw.pending # <<>>
  /\ \A i \in 1 .. Len(inq) :
       \/ inq[i].cmd = "submit"
       \/ inq[i].cmd = "unlink" /\ urb[inq[i].arg].unl # "no"

(* The line of the reads.                                                  *)
LineOrdered ==
  /\ SeqsInOrder(inEv) /\ Increasing(iw.pending) /\ SentInOrder(inq)
  /\ Below(Seqs(inEv), ToSet(iw.pending)) /\ Below(Seqs(inEv), Sent(inq))
  /\ Below(ToSet(iw.pending), Sent(inq))
  /\ iw.active < next
  /\ iw.active # 0 => \A s \in ToSet(iw.pending) \cup Sent(inq) : iw.active <= s
  /\ Answering => Below(OnLine, {h.seq})

LineUnanswered ==
  /\ \A s \in OnLine :
       /\ urb[s].kind = "in" /\ urb[s].ret = "none"
       /\ Current(s) /\ urb[s].unl # "no" => s \in cancelled
  /\ \A s \in ToSet(iw.pending) \cup Sent(inq) : Current(s)

(* Nothing is forgotten: a request that is neither answered nor unlinked   *)
(* is in a table, and a read on the line while there is a worker.          *)
Tracked ==
  ~At("closed") =>
    \A s \in Urbs :
      Current(s) /\ urb[s].kind \in Kinds /\ Live(s) => s \in bulkIn \cup bulkOut \/ Mine(s)

Lined ==
  iw.pc # "gone" =>
    \A s \in Urbs :
      Current(s) /\ urb[s].kind = "in" /\ Live(s) => s \in OnLine \/ Mine(s)

Books == Numbered /\ Busy /\ Tables /\ Tracked
Line == Attended /\ LineOrdered /\ LineUnanswered /\ Lined
Claims == ResponsesExclusive /\ UnlinkTruthful /\ ReadsInOrder
PipelineInv == TypeOK /\ Books /\ Line /\ Claims

----------------------------------------------------------------------------
(* Lemmas about what the actions are made of.                              *)

(* RET_SUBMIT for a URB that has not been answered.                        *)
LEMMA AnsweredOnce ==
  ASSUME urb \in [Urbs -> UrbState], NEW s \in Urbs, NEW ok \in BOOLEAN,
         urb[s].ret = "none"
  PROVE  /\ Answered(s, ok) \in [Urbs -> UrbState]
         /\ \A t \in Urbs : t # s => Answered(s, ok)[t] = urb[t]
         /\ Answered(s, ok)[s].ret = IF ok THEN "ok" ELSE "err"
         /\ Answered(s, ok)[s].kind = urb[s].kind
         /\ Answered(s, ok)[s].gen = urb[s].gen
         /\ Answered(s, ok)[s].unl = urb[s].unl
  <1> DEFINE r == IF ok THEN "ok" ELSE "err"
  <1>1. Answered(s, ok) = [urb EXCEPT ![s] = [urb[s] EXCEPT !.ret = r]]
    BY DEF Answered
  <1>2. r \in Replies
    BY DEF Replies
  <1> HIDE DEF r
  <1>3. /\ [urb[s] EXCEPT !.ret = r] \in UrbState
        /\ [urb[s] EXCEPT !.ret = r].ret = r
        /\ [urb[s] EXCEPT !.ret = r].kind = urb[s].kind
        /\ [urb[s] EXCEPT !.ret = r].gen = urb[s].gen
        /\ [urb[s] EXCEPT !.ret = r].unl = urb[s].unl
    BY <1>2 DEF UrbState
  <1> QED BY <1>1, <1>3 DEF r

(* An answer to CMD_UNLINK.                                                *)
LEMMA UnlinkedOnce ==
  ASSUME urb \in [Urbs -> UrbState], NEW s \in Urbs, NEW u \in {"reset", "late"},
         NEW w, w = [urb EXCEPT ![s].unl = u]
  PROVE  /\ w \in [Urbs -> UrbState]
         /\ \A t \in Urbs : t # s => w[t] = urb[t]
         /\ w[s].unl = u /\ w[s].kind = urb[s].kind
         /\ w[s].gen = urb[s].gen /\ w[s].ret = urb[s].ret
  <1>1. w = [urb EXCEPT ![s] = [urb[s] EXCEPT !.unl = u]]
    OBVIOUS
  <1>2. /\ [urb[s] EXCEPT !.unl = u] \in UrbState
        /\ [urb[s] EXCEPT !.unl = u].ret = urb[s].ret
        /\ [urb[s] EXCEPT !.unl = u].kind = urb[s].kind
        /\ [urb[s] EXCEPT !.unl = u].gen = urb[s].gen
        /\ [urb[s] EXCEPT !.unl = u].unl = u
    BY DEF UrbState
  <1> QED BY <1>1, <1>2

(* The top of the IN worker's loop.                                        *)
LEMMA LoopTopIs ==
  ASSUME NEW w \in InWorker
  PROVE  /\ LoopTop(w) \in InWorker
         /\ LoopTop(w).pending = w.pending /\ LoopTop(w).active = w.active
         /\ LoopTop(w).pc # "gone"
         /\ LoopTop(w).pc = "read" <=> w.active # 0
         /\ LoopTop(w).pc = "bsend" => w.pending # <<>>
         /\ LoopTop(w).pc # "bwait" /\ LoopTop(w).pc # "drain"
         /\ LoopTop(w).reply = "none"
  <1> DEFINE pc == IF w.active # 0 THEN "read" ELSE IF w.pending # <<>> THEN "bsend" ELSE "recv"
  <1>1. LoopTop(w) = [w EXCEPT !.reply = "none", !.seq = 0, !.pc = pc]
    BY Zenon DEF LoopTop
  <1>2. pc \in {"read", "bsend", "recv"} /\ (pc = "read" <=> w.active # 0)
        /\ (pc = "bsend" => w.pending # <<>>)
    OBVIOUS
  <1> HIDE DEF pc
  <1>3. 0 \in 0 .. MaxUrbs /\ "none" \in Replies
    BY PipelineAssumption DEF Replies
  <1>4. /\ [w EXCEPT !.reply = "none", !.seq = 0, !.pc = pc] \in InWorker
        /\ [w EXCEPT !.reply = "none", !.seq = 0, !.pc = pc].pending = w.pending
        /\ [w EXCEPT !.reply = "none", !.seq = 0, !.pc = pc].active = w.active
        /\ [w EXCEPT !.reply = "none", !.seq = 0, !.pc = pc].pc = pc
        /\ [w EXCEPT !.reply = "none", !.seq = 0, !.pc = pc].reply = "none"
    BY <1>2, <1>3 DEF InWorker
  <1> QED BY <1>1, <1>2, <1>4

(* The records that stand for no worker and for a handler that waits.      *)
LEMMA RestingStates ==
  /\ Selecting \in HandlerState /\ Selecting.pc = "select" /\ Selecting.reply = "none"
  /\ NoInWorker \in InWorker /\ NoInWorker.pc = "gone"
  /\ NoInWorker.pending = <<>> /\ NoInWorker.active = 0 /\ NoInWorker.reply = "none"
  /\ NoOutWorker \in OutWorker /\ ~NoOutWorker.up
  /\ Unsent \in UrbState
  <1>1. 0 \in 0 .. MaxUrbs /\ 0 \in 0 .. MaxImports
    BY PipelineAssumption
  <1>2. <<>> \in Seq(Urbs) /\ {} \in SUBSET Urbs
    OBVIOUS
  <1> QED BY <1>1, <1>2 DEF Selecting, HandlerState, NoInWorker, InWorker, NoOutWorker,
            OutWorker, Unsent, UrbState, Replies

----------------------------------------------------------------------------
(* Type correctness: one step per action.                                  *)

(* The shape of the first state.                                           *)
LEMMA InitTypeOK == Init => TypeOK
  <1> SUFFICES ASSUME Init PROVE TypeOK
    OBVIOUS
  <1>1. MaxUrbs \in Nat /\ MaxImports \in Nat /\ InCap \in Nat /\ OutCap \in Nat
    BY PipelineAssumption
  <1>2. urb \in [Urbs -> UrbState] /\ h \in HandlerState
        /\ iw \in InWorker /\ iw.pc # "read" /\ iw.active = 0 /\ ow \in OutWorker
    BY RestingStates DEF Init
  <1>3. <<>> \in Seq(Commands) /\ <<>> \in Seq(Events) /\ Len(<<>>) = 0
    OBVIOUS
  <1>4. 1 \in 1 .. MaxUrbs + 1 /\ 0 \in 0 .. MaxImports /\ 0 <= InCap /\ 0 <= OutCap
    BY <1>1
  <1>5. next = 1 /\ gen = 0 /\ imported = FALSE /\ pendingOut = bulkOut
        /\ bulkIn = {} /\ bulkOut = {} /\ cancelled = {} /\ written = {}
        /\ inq = <<>> /\ outq = <<>> /\ inEv = <<>> /\ outEv = <<>>
    BY DEF Init
  <1> QED BY <1>2, <1>3, <1>4, <1>5 DEF TypeOK

(* The commands that are sent are commands.                                *)
LEMMA CommandsAre ==
  /\ \A s \in Urbs : Command("submit", s) \in Commands /\ Command("unlink", s) \in Commands
  /\ Command("flush", "handler") \in Commands /\ Command("flush", "in") \in Commands
  /\ Command("shutdown", "handler") \in Commands
  /\ \A cmd, arg : Command(cmd, arg).cmd = cmd /\ Command(cmd, arg).arg = arg
  BY DEF Command, Commands

(* The handler reads a command from the socket.                            *)
LEMMA TypeReads ==
  ASSUME PipelineInv, \/ \E kind \in Kinds : ReadSubmit(kind)
                      \/ \E t \in Urbs : ReadUnlink(t)
                      \/ \E then \in {"import", "close"} : ReadStop(then)
  PROVE  TypeOK'
  <1> USE DEF PipelineInv
  <1>1. ASSUME NEW kind \in Kinds, ReadSubmit(kind) PROVE TypeOK'
    <2> DEFINE k == IF imported THEN kind ELSE "ignored"
               new == [Unsent EXCEPT !.kind = k, !.gen = gen]
    <2>1. k \in Kinds \cup {"none", "ignored"} /\ gen \in 0 .. MaxImports
      BY DEF TypeOK
    <2>2. urb' = [urb EXCEPT ![next] = new]
      BY <1>1 DEF ReadSubmit
    <2> HIDE DEF k
    <2>3. new \in UrbState
      BY <2>1 DEF Unsent, UrbState, Replies
    <2> HIDE DEF new
    <2>4. urb' \in [Urbs -> UrbState]
      BY <2>2, <2>3 DEF TypeOK
    <2>5. next \in Urbs /\ next \in Nat /\ next' = next + 1 /\ next' \in 1 .. MaxUrbs + 1
      <3>1. next \in Urbs /\ next' = next + 1
        BY <1>1, Zenon DEF ReadSubmit
      <3> QED BY <3>1, PipelineAssumption DEF Urbs
    <2>6. Route(kind) \in {"sendIn", "sendOut", "flushSend", "sync"}
      BY PipelineAssumption DEF Route
    <2>7. h' \in HandlerState
      <3>1. h' = h \/ h' = [h EXCEPT !.pc = Route(kind), !.seq = next]
        BY <1>1, Zenon DEF ReadSubmit
      <3>2. next \in 0 .. MaxUrbs /\ h \in HandlerState
        BY <2>5 DEF Urbs, TypeOK
      <3> QED BY <2>6, <3>1, <3>2 DEF HandlerState
    <2> QED BY <1>1, <2>4, <2>5, <2>7 DEF ReadSubmit, books, TypeOK
  <1>2. ASSUME NEW t \in Urbs, ReadUnlink(t) PROVE TypeOK'
    <2>1. PICK u \in {"reset", "late"} : urb' = [urb EXCEPT ![t].unl = u]
      BY <1>2, Zenon DEF ReadUnlink
    <2>2. urb' \in [Urbs -> UrbState]
      BY <2>1, UnlinkedOnce DEF TypeOK
    <2>3. h' \in HandlerState
      <3>1. \/ h' = h
            \/ h' = [h EXCEPT !.pc = "unlinkIn", !.seq = t]
            \/ h' = [h EXCEPT !.pc = "unlinkOut", !.seq = t]
        BY <1>2, Zenon DEF ReadUnlink
      <3>2. t \in 0 .. MaxUrbs /\ h \in HandlerState
        BY PipelineAssumption DEF Urbs, TypeOK
      <3> QED BY <3>1, <3>2 DEF HandlerState
    <2>4. /\ bulkIn' \subseteq Urbs /\ bulkOut' \subseteq Urbs /\ cancelled' \subseteq Urbs
          /\ pendingOut' = bulkOut'
      BY <1>2 DEF ReadUnlink, TypeOK
    <2> QED BY <1>2, <2>2, <2>3, <2>4 DEF ReadUnlink, TypeOK
  <1>3. ASSUME NEW then \in {"import", "close"}, ReadStop(then) PROVE TypeOK'
    <2>1. h' \in HandlerState
      <3>1. PICK pc \in {"stopSend", "stopped"} :
              h' = [Selecting EXCEPT !.pc = pc, !.then = then]
        BY <1>3, Zenon DEF ReadStop
      <3> QED BY <3>1, RestingStates DEF HandlerState
    <2>2. iw' \in InWorker /\ iw'.pc # "read" /\ iw'.active = 0
      BY <1>3, RestingStates DEF ReadStop
    <2>3. /\ outq' \in Seq(Commands) /\ Len(outq') <= OutCap
          /\ inq' \in Seq(Commands) /\ Len(inq') <= InCap
      BY <1>3, OrphanedChannel, PipelineAssumption DEF ReadStop, TypeOK
    <2> QED BY <1>3, <2>1, <2>2, <2>3 DEF ReadStop, books, TypeOK
  <1> QED BY <1>1, <1>2, <1>3

(* The handler hands a request or an unlink to a worker, or serves it.     *)
LEMMA TypeServes ==
  ASSUME PipelineInv,
         SendIn \/ SendOut \/ ControlBarrier \/ ControlBarrierDone \/ SyncSubmit \/ SendUnlink
  PROVE  TypeOK'
  <1> USE DEF PipelineInv, Books
  <1>1. h \in HandlerState /\ urb \in [Urbs -> UrbState] /\ Len(inq) \in Nat /\ Len(outq) \in Nat
    BY DEF TypeOK
  <1>2. InCap \in Nat /\ OutCap \in Nat
    BY PipelineAssumption
  <1>3. CASE SendIn
    <2>1. h.seq \in Urbs
      BY <1>3 DEF SendIn, At, Busy, Answering
    <2>2. inq' \in Seq(Commands) /\ Len(inq') <= InCap
      <3>1. Command("submit", h.seq) \in Commands
        BY <2>1, CommandsAre
      <3> DEFINE a == Append(inq, Command("submit", h.seq))
      <3>2. a \in Seq(Commands) /\ Len(a) = Len(inq) + 1
        BY <3>1, CommandSent DEF TypeOK
      <3>3. inq' = inq \/ (Len(inq) < InCap /\ inq' = a)
        BY <1>3, Zenon DEF SendIn
      <3>4. inq \in Seq(Commands) /\ Len(inq) <= InCap
        BY DEF TypeOK
      <3> HIDE DEF a
      <3> QED BY <1>1, <1>2, <3>2, <3>3, <3>4
    <2>3. h' \in HandlerState
      BY <1>1, <1>3, RestingStates DEF SendIn, HandlerState
    <2>4. bulkIn' \subseteq Urbs
      BY <1>3, <2>1 DEF SendIn, TypeOK
    <2> QED BY <1>3, <2>2, <2>3, <2>4 DEF SendIn, TypeOK
  <1>4. CASE SendOut
    <2>1. h.seq \in Urbs
      BY <1>4 DEF SendOut, At, Busy, Answering
    <2>2. outq' \in Seq(Commands) /\ Len(outq') <= OutCap
      BY <1>1, <1>2, <1>4, <2>1, CommandSent, CommandsAre DEF SendOut, TypeOK
    <2> QED BY <1>4, <2>1, <2>2, RestingStates DEF SendOut, TypeOK
  <1>5. CASE ControlBarrier
    <2>1. outq' \in Seq(Commands) /\ Len(outq') <= OutCap
      BY <1>1, <1>2, <1>5, CommandSent, CommandsAre DEF ControlBarrier, TypeOK
    <2>2. h' \in HandlerState
      BY <1>1, <1>5 DEF ControlBarrier, HandlerState
    <2> QED BY <1>5, <2>1, <2>2 DEF ControlBarrier, books, TypeOK
  <1>6. CASE ControlBarrierDone
    <2>1. h.seq \in Urbs /\ urb[h.seq].ret = "none"
      BY <1>6 DEF ControlBarrierDone, At, Busy, Answering, Live
    <2>2. urb' \in [Urbs -> UrbState]
      BY <1>1, <1>6, <2>1, AnsweredOnce, ZenonT(30) DEF ControlBarrierDone
    <2>3. h' \in HandlerState
      BY <1>1, <1>6, RestingStates DEF ControlBarrierDone, HandlerState, Replies
    <2> QED BY <1>6, <2>2, <2>3 DEF ControlBarrierDone, books, TypeOK
  <1>7. CASE SyncSubmit
    <2>1. h.seq \in Urbs /\ urb[h.seq].ret = "none"
      BY <1>7 DEF SyncSubmit, At, Busy, Answering, Live
    <2>2. urb' \in [Urbs -> UrbState] /\ written' \subseteq Urbs
      BY <1>1, <1>7, <2>1, AnsweredOnce DEF SyncSubmit, TypeOK
    <2> QED BY <1>7, <2>2, RestingStates DEF SyncSubmit, books, TypeOK
  <1>8. CASE SendUnlink
    <2>1. h.seq \in Urbs
      BY <1>8 DEF SendUnlink, At, Busy
    <2>2. /\ inq' \in Seq(Commands) /\ Len(inq') <= InCap
          /\ outq' \in Seq(Commands) /\ Len(outq') <= OutCap
      <3>1. Command("unlink", h.seq) \in Commands
        BY <2>1, CommandsAre
      <3> DEFINE a == Append(inq, Command("unlink", h.seq))
                 b == Append(outq, Command("unlink", h.seq))
      <3>2. /\ a \in Seq(Commands) /\ Len(a) = Len(inq) + 1
            /\ b \in Seq(Commands) /\ Len(b) = Len(outq) + 1
        BY <3>1, CommandSent DEF TypeOK
      <3>3. /\ inq' = inq \/ (Len(inq) < InCap /\ inq' = a)
            /\ outq' = outq \/ (Len(outq) < OutCap /\ outq' = b)
        BY <1>8, Zenon DEF SendUnlink
      <3>4. /\ inq \in Seq(Commands) /\ Len(inq) <= InCap
            /\ outq \in Seq(Commands) /\ Len(outq) <= OutCap
        BY DEF TypeOK
      <3> HIDE DEF a, b
      <3> QED BY <1>1, <1>2, <3>2, <3>3, <3>4
    <2> QED BY <1>8, <2>2, RestingStates DEF SendUnlink, books, TypeOK
  <1> QED BY <1>3, <1>4, <1>5, <1>6, <1>7, <1>8

(* A session is wound up, and the next one begins.                         *)
LEMMA TypeStops ==
  ASSUME PipelineInv,
         StopSend \/ StopDone \/ StopTimeout \/ Import \/ Close \/ WriteFails
  PROVE  TypeOK'
  <1> USE DEF PipelineInv
  <1>1. h \in HandlerState /\ Len(outq) \in Nat /\ InCap \in Nat /\ OutCap \in Nat
    BY PipelineAssumption DEF TypeOK
  <1>2. /\ <<>> \in Seq(Commands) /\ <<>> \in Seq(Events)
        /\ Len(<<>>) = 0 /\ 0 <= InCap /\ 0 <= OutCap
    BY <1>1
  <1>3. CASE StopSend
    <2>1. /\ Append(outq, Command("shutdown", "handler")) \in Seq(Commands)
          /\ Len(Append(outq, Command("shutdown", "handler"))) = Len(outq) + 1
      BY CommandSent, CommandsAre DEF TypeOK
    <2>2. outq' \in Seq(Commands) /\ Len(outq') <= OutCap
      BY <1>1, <1>3, <2>1 DEF StopSend
    <2>3. h' \in HandlerState
      BY <1>1, <1>3 DEF StopSend, HandlerState
    <2> QED BY <1>3, <2>2, <2>3 DEF StopSend, books, TypeOK
  <1>4. CASE StopDone
    <2>1. h' \in HandlerState
      BY <1>1, <1>4 DEF StopDone, HandlerState
    <2> QED BY <1>4, <2>1 DEF StopDone, books, TypeOK
  <1>5. CASE StopTimeout
    <2>1. h' \in HandlerState
      BY <1>1, <1>5 DEF StopTimeout, HandlerState
    <2>2. outq' \in Seq(Commands) /\ Len(outq') <= OutCap
      BY <1>2, <1>5 DEF StopTimeout
    <2> QED BY <1>5, <2>1, <2>2, RestingStates DEF StopTimeout, books, TypeOK
  <1>6. CASE Import
    <2>1. gen' \in 0 .. MaxImports
      <3>1. gen < MaxImports /\ gen' = gen + 1 /\ gen \in 0 .. MaxImports
        BY <1>6 DEF Import, At, TypeOK, Books, Busy
      <3> QED BY <1>1, <3>1, PipelineAssumption
    <2>2. PICK ok \in BOOLEAN, outOpens \in OutOpens :
            /\ imported' = ok
            /\ iw' = IF ok THEN [NoInWorker EXCEPT !.pc = "opening"] ELSE NoInWorker
            /\ ow' = IF ok THEN [NoOutWorker EXCEPT !.up = outOpens] ELSE NoOutWorker
      BY <1>6, Zenon DEF Import
    <2>3. outOpens \in BOOLEAN
      BY PipelineAssumption
    <2>4. iw' \in InWorker /\ iw'.pc # "read" /\ iw'.active = 0
      BY <2>2, RestingStates DEF InWorker
    <2>5. ow' \in OutWorker
      BY <2>2, <2>3, RestingStates DEF OutWorker
    <2> QED BY <1>6, <2>1, <2>2, <2>4, <2>5, RestingStates DEF Import, TypeOK
  <1>7. ASSUME Closing PROVE TypeOK'
    <2>1. h' \in HandlerState
      BY <1>7, RestingStates DEF Closing, HandlerState
    <2>2. /\ inq' \in Seq(Commands) /\ Len(inq') <= InCap
          /\ outq' \in Seq(Commands) /\ Len(outq') <= OutCap
          /\ inEv' \in Seq(Events) /\ outEv' \in Seq(Events)
      BY <1>2, <1>7 DEF Closing
    <2>3. /\ iw' \in InWorker /\ iw'.pc # "read" /\ iw'.active = 0
          /\ ow' \in OutWorker
      BY <1>7, RestingStates DEF Closing
    <2> QED BY <1>7, <2>1, <2>2, <2>3 DEF Closing, books, TypeOK
  <1> QED BY <1>3, <1>4, <1>5, <1>6, <1>7 DEF Close, WriteFails

(* A completion is forwarded.                                              *)
LEMMA TypeEvents ==
  ASSUME PipelineInv, InEvent \/ OutEvent
  PROVE  TypeOK'
  <1> USE DEF PipelineInv, Books, Line
  <1>1. urb \in [Urbs -> UrbState]
    BY DEF TypeOK
  <1>2. CASE InEvent
    <2>1. /\ inEv \in Seq(Events) /\ inEv # <<>> /\ SeqsInOrder(inEv)
          /\ Tail(inEv) \in Seq(Events) /\ Head(inEv) \in Events
          /\ Head(inEv).seq \in Seqs(inEv)
      BY <1>2, EventTaken DEF InEvent, TypeOK, LineOrdered
    <2>2. Head(inEv).seq \in Urbs /\ Head(inEv).ok \in BOOLEAN
      BY <2>1 DEF Events
    <2>3. urb[Head(inEv).seq].ret = "none"
      BY <2>1 DEF LineUnanswered, OnLine
    <2>4. urb' \in [Urbs -> UrbState]
      BY <1>1, <1>2, <2>2, <2>3, AnsweredOnce DEF InEvent
    <2> QED BY <1>2, <2>1, <2>4 DEF InEvent, TypeOK
  <1>3. CASE OutEvent
    <2>1. Tail(outEv) \in Seq(Events) /\ Head(outEv) \in Events
      BY <1>3 DEF OutEvent, TypeOK
    <2>2. Head(outEv).seq \in Urbs /\ Head(outEv).ok \in BOOLEAN
      BY <2>1 DEF Events
    <2>3. Head(outEv).seq \in pendingOut => urb[Head(outEv).seq].ret = "none"
      BY DEF TypeOK, Tables, Live
    <2>4. urb' \in [Urbs -> UrbState]
      BY <1>1, <1>3, <2>2, <2>3, AnsweredOnce DEF OutEvent
    <2>5. bulkOut' \subseteq Urbs /\ pendingOut' = bulkOut'
      BY <1>3 DEF OutEvent, TypeOK
    <2> QED BY <1>3, <2>1, <2>4, <2>5 DEF OutEvent, TypeOK
  <1> QED BY <1>2, <1>3

(* The command that the IN worker takes from its channel, and the queue    *)
(* after it.                                                               *)
LEMMA TakenIn ==
  ASSUME PipelineInv, inq # <<>>
  PROVE  /\ Tail(inq) \in Seq(Commands) /\ Len(Tail(inq)) <= InCap
         /\ Head(inq) \in Commands /\ Head(inq).arg \in Urbs
         /\ \/ Head(inq).cmd = "submit" /\ Head(inq).arg \in Sent(inq)
            \/ Head(inq).cmd = "unlink" /\ urb[Head(inq).arg].unl # "no"
         /\ Queued(iw.pending, Head(inq)) \in Seq(Urbs)
         /\ Increasing(Queued(iw.pending, Head(inq)))
         /\ ToSet(Queued(iw.pending, Head(inq))) =
              IF Head(inq).cmd = "submit" THEN ToSet(iw.pending) \cup {Head(inq).arg}
              ELSE ToSet(iw.pending) \ {Head(inq).arg}
  <1> USE DEF PipelineInv, Line
  <1>1. inq \in Seq(Commands) /\ Len(inq) <= InCap /\ iw \in InWorker
    BY DEF TypeOK
  <1>2. iw.pending \in Seq(Urbs) /\ Increasing(iw.pending)
    BY <1>1 DEF InWorker, LineOrdered
  <1>3. /\ Tail(inq) \in Seq(Commands) /\ Head(inq) \in Commands
        /\ Len(Tail(inq)) = Len(inq) - 1 /\ Len(inq) \in Nat
        /\ Head(inq).cmd = "submit" => Head(inq).arg \in Sent(inq)
    BY <1>1, CommandTaken
  <1>4. Len(Tail(inq)) <= InCap
    BY <1>1, <1>3, PipelineAssumption
  <1>5. \/ Head(inq).cmd = "submit"
        \/ Head(inq).cmd = "unlink" /\ urb[Head(inq).arg].unl # "no"
    <2>1. 1 \in 1 .. Len(inq) /\ Head(inq) = inq[1]
      BY <1>1
    <2> QED BY <2>1, Zenon DEF Attended
  <1>6. Head(inq).arg \in Urbs
    BY <1>3, <1>5 DEF Commands, Command
  <1>7. CASE Head(inq).cmd = "submit"
    <2>1. Below(ToSet(iw.pending), {Head(inq).arg})
      BY <1>3, <1>7 DEF LineOrdered, Below
    <2> QED BY <1>2, <1>3, <1>4, <1>6, <1>7, <2>1, Enqueued DEF Queued
  <1>8. CASE Head(inq).cmd # "submit"
    BY <1>2, <1>3, <1>4, <1>5, <1>6, <1>8, Withdrawn DEF Queued
  <1> QED BY <1>7, <1>8

(* run_bulk_in_worker keeps the shape of the state.                        *)
LEMMA TypeInWorker ==
  ASSUME PipelineInv, InWorkerStep \/ InComplete
  PROVE  TypeOK'
  <1> USE DEF PipelineInv, Line
  <1>1. iw \in InWorker /\ (iw.pc = "read" <=> iw.active # 0)
        /\ inq \in Seq(Commands) /\ Len(inq) <= InCap
        /\ outq \in Seq(Commands) /\ Len(outq) <= OutCap /\ inEv \in Seq(Events)
    BY DEF TypeOK
  <1>2. /\ <<>> \in Seq(Commands) /\ Len(<<>>) = 0 /\ 0 <= InCap
        /\ InCap \in Nat /\ OutCap \in Nat /\ Len(inq) \in Nat /\ Len(outq) \in Nat
    BY <1>1, PipelineAssumption
  <1>3. /\ Orphaned(outq) \in Seq(Commands) /\ Len(Orphaned(outq)) <= OutCap
    BY <1>1, OrphanedChannel
  <1>4. SUFFICES /\ inq' \in Seq(Commands) /\ Len(inq') <= InCap
                 /\ outq' \in Seq(Commands) /\ Len(outq') <= OutCap
                 /\ inEv' \in Seq(Events)
                 /\ iw' \in InWorker /\ (iw'.pc = "read" <=> iw'.active # 0)
    <2>1. UNCHANGED InOnly
      BY DEF InWorkerStep, InOpen, InCommand, InBarrierSend, InBarrierDone, InDrain,
             InSubmit, InComplete
    <2> QED BY <1>4, <2>1 DEF InOnly, handlerVars, TypeOK
  <1>5. CASE InOpen
    <2>1. /\ \/ iw' = LoopTop(iw) \/ iw' = NoInWorker
          /\ inq' = inq \/ inq' = <<>>
          /\ UNCHANGED <<outq, inEv>>
      BY <1>5 DEF InOpen
    <2>2. LoopTop(iw) \in InWorker /\ (LoopTop(iw).pc = "read" <=> LoopTop(iw).active # 0)
      BY <1>1, LoopTopIs
    <2>3. NoInWorker \in InWorker /\ NoInWorker.pc # "read" /\ NoInWorker.active = 0
      BY RestingStates
    <2>4. inq' \in Seq(Commands) /\ Len(inq') <= InCap
      BY <1>1, <1>2, <2>1
    <2> QED BY <1>1, <2>1, <2>2, <2>3, <2>4, Zenon
  <1>6. CASE InCommand
    <2> DEFINE w == [iw EXCEPT !.pending = Queued(@, Head(inq))]
    <2>1. Queued(iw.pending, Head(inq)) \in Seq(Urbs)
      BY <1>6, TakenIn DEF InCommand
    <2>2. w \in InWorker
      BY <1>1, <2>1 DEF InWorker
    <2>3. iw' = LoopTop(w) /\ inq' = Tail(inq) /\ outq' = Orphaned(outq) /\ inEv' = inEv
      BY <1>6 DEF InCommand
    <2> HIDE DEF w
    <2>4. inq' \in Seq(Commands) /\ Len(inq') <= InCap
      BY <1>6, <2>3, TakenIn DEF InCommand
    <2>5. LoopTop(w) \in InWorker /\ (LoopTop(w).pc = "read" <=> LoopTop(w).active # 0)
      BY <2>2, LoopTopIs
    <2> QED BY <1>1, <1>3, <2>3, <2>4, <2>5, Zenon
  <1>7. CASE InBarrierSend
    <2> DEFINE a == Append(outq, Command("flush", "in"))
    <2>1. a \in Seq(Commands) /\ Len(a) = Len(outq) + 1
      BY <1>1, CommandSent, CommandsAre
    <2>2. /\ Len(outq) < OutCap /\ outq' = a /\ UNCHANGED <<inq, inEv>>
          /\ iw.pc = "bsend" /\ iw' = [iw EXCEPT !.pc = "bwait"]
      BY <1>7 DEF InBarrierSend
    <2> HIDE DEF a
    <2>3. iw' \in InWorker /\ iw'.pc # "read" /\ iw'.active = iw.active
      BY <1>1, <2>2 DEF InWorker
    <2> QED BY <1>1, <1>2, <2>1, <2>2, <2>3
  <1>8. CASE InBarrierDone
    <2>1. iw.pending # <<>> /\ Head(iw.pending) \in 0 .. MaxUrbs
      <3>1. iw.pending \in Seq(Urbs) /\ iw.pending # <<>>
        BY <1>1, <1>8 DEF InBarrierDone, InWorker, Attended
      <3>2. Head(iw.pending) \in Urbs
        BY <3>1
      <3> QED BY <3>1, <3>2, PipelineAssumption DEF Urbs
    <2>2. /\ iw.pc \in {"bsend", "bwait"}
          /\ \/ iw' = [iw EXCEPT !.pc = "drain", !.reply = "ok", !.seq = Head(iw.pending)]
             \/ iw' = [iw EXCEPT !.pc = "drain", !.seq = Head(iw.pending)]
          /\ UNCHANGED <<inq, outq, inEv>>
      BY <1>8 DEF InBarrierDone
    <2>3. iw' \in InWorker /\ iw'.pc # "read" /\ iw'.active = iw.active
      BY <1>1, <2>1, <2>2 DEF InWorker, Replies
    <2> QED BY <1>1, <2>2, <2>3
  <1>9. CASE InDrain
    <2>1. /\ Queued(iw.pending, Head(inq)) \in Seq(Urbs)
          /\ Tail(inq) \in Seq(Commands) /\ Len(Tail(inq)) <= InCap
      BY <1>9, TakenIn DEF InDrain
    <2>2. /\ inq' = Tail(inq) /\ UNCHANGED <<outq, inEv>> /\ iw.pc = "drain"
          /\ iw' = [iw EXCEPT !.pending = Queued(iw.pending, Head(inq))]
      BY <1>9 DEF InDrain
    <2>3. iw' \in InWorker /\ iw'.pc = iw.pc /\ iw'.active = iw.active
      BY <1>1, <2>1, <2>2 DEF InWorker
    <2> QED BY <1>1, <2>1, <2>2, <2>3
  <1>10. CASE InSubmit
    <2>1. /\ UNCHANGED <<inq, outq>> /\ iw.pc = "drain"
          /\ \/ iw' = LoopTop(iw) /\ inEv' = inEv
             \/ /\ iw.pending # <<>> /\ Head(iw.pending) = iw.seq
                /\ iw' = LoopTop([iw EXCEPT !.pending = Tail(@)])
                /\ inEv' = Append(inEv, [seq |-> iw.seq, ok |-> FALSE])
             \/ /\ iw.pending # <<>> /\ Head(iw.pending) = iw.seq
                /\ iw' = LoopTop([iw EXCEPT !.active = iw.seq]) /\ inEv' = inEv
      BY <1>10, Zenon DEF InSubmit
    <2>2. CASE iw' = LoopTop(iw) /\ inEv' = inEv
      BY <1>1, <2>1, <2>2, LoopTopIs
    <2>3. CASE iw.pending # <<>> /\ Head(iw.pending) = iw.seq
      <3>1. iw.seq \in Urbs /\ Tail(iw.pending) \in Seq(Urbs) /\ iw.seq \in 0 .. MaxUrbs
        BY <1>1, <2>3 DEF InWorker
      <3>2. [seq |-> iw.seq, ok |-> FALSE] \in Events
        BY <3>1 DEF Events
      <3>3. Append(inEv, [seq |-> iw.seq, ok |-> FALSE]) \in Seq(Events)
        BY <1>1, <3>2
      <3>4. [iw EXCEPT !.pending = Tail(@)] \in InWorker
        BY <1>1, <3>1 DEF InWorker
      <3>5. [iw EXCEPT !.active = iw.seq] \in InWorker
        BY <1>1, <3>1 DEF InWorker
      <3>6. \A w \in InWorker :
              LoopTop(w) \in InWorker /\ (LoopTop(w).pc = "read" <=> LoopTop(w).active # 0)
        BY LoopTopIs
      <3>7. iw' \in InWorker /\ (iw'.pc = "read" <=> iw'.active # 0)
        BY <1>1, <2>1, <3>4, <3>5, <3>6, Zenon
      <3>8. inEv' \in Seq(Events)
        BY <1>1, <2>1, <3>3, Zenon
      <3> QED BY <1>1, <2>1, <3>7, <3>8, Zenon
    <2> QED BY <2>1, <2>2, <2>3
  <1>11. CASE InComplete
    <2> DEFINE w == [iw EXCEPT !.active = 0, !.pending = RemoveFirst(@, iw.active)]
    <2>1. RemoveFirst(iw.pending, iw.active) \in Seq(Urbs)
      BY <1>1, Withdrawn DEF InWorker, LineOrdered
    <2>2. w \in InWorker
      <3>1. 0 \in 0 .. MaxUrbs
        BY PipelineAssumption
      <3>2. w = [[iw EXCEPT !.active = 0] EXCEPT !.pending = RemoveFirst(iw.pending, iw.active)]
        BY <1>1 DEF InWorker
      <3> QED BY <1>1, <2>1, <3>1, <3>2 DEF InWorker
    <2>3. iw' = LoopTop(w) /\ UNCHANGED <<inq, outq>>
      BY <1>11 DEF InComplete
    <2>4. inEv' \in Seq(Events)
      <3>1. iw.active \in Urbs
        BY <1>1, <1>11, PipelineAssumption DEF InComplete, InWorker, Urbs
      <3>2. \A ok \in BOOLEAN : Append(inEv, [seq |-> iw.active, ok |-> ok]) \in Seq(Events)
        BY <1>1, <3>1 DEF Events
      <3> QED BY <1>1, <1>11, <3>2 DEF InComplete
    <2> HIDE DEF w
    <2>5. LoopTop(w) \in InWorker /\ (LoopTop(w).pc = "read" <=> LoopTop(w).active # 0)
      BY <2>2, LoopTopIs
    <2> QED BY <1>1, <2>3, <2>4, <2>5, Zenon
  <1> QED BY <1>5, <1>6, <1>7, <1>8, <1>9, <1>10, <1>11 DEF InWorkerStep

(* An answer to a barrier changes nothing but that answer.                 *)
LEMMA ReplyIs ==
  ASSUME h \in HandlerState, iw \in InWorker, NEW to, NEW ok \in BOOLEAN, Reply(to, ok)
  PROVE  /\ h' \in HandlerState /\ iw' \in InWorker
         /\ h'.pc = h.pc /\ h'.seq = h.seq /\ h'.then = h.then
         /\ iw'.pc = iw.pc /\ iw'.pending = iw.pending /\ iw'.seq = iw.seq
         /\ iw'.active = iw.active
         /\ h'.reply = IF to = "handler" THEN IF ok THEN "ok" ELSE "err" ELSE h.reply
         /\ iw'.reply = IF to = "in" THEN IF ok THEN "ok" ELSE "err" ELSE iw.reply
  <1> DEFINE r == IF ok THEN "ok" ELSE "err"
  <1>1. r \in Replies
    BY DEF Replies
  <1>2. /\ h' = IF to = "handler" THEN [h EXCEPT !.reply = r] ELSE h
        /\ iw' = IF to = "in" THEN [iw EXCEPT !.reply = r] ELSE iw
    BY Zenon DEF Reply
  <1> HIDE DEF r
  <1>3. /\ h' \in HandlerState
        /\ h'.pc = h.pc /\ h'.seq = h.seq /\ h'.then = h.then
        /\ h'.reply = IF to = "handler" THEN r ELSE h.reply
    BY <1>1, <1>2 DEF HandlerState
  <1>4. /\ iw' \in InWorker
        /\ iw'.pc = iw.pc /\ iw'.pending = iw.pending /\ iw'.seq = iw.seq
        /\ iw'.active = iw.active
        /\ iw'.reply = IF to = "in" THEN r ELSE iw.reply
    BY <1>1, <1>2 DEF InWorker
  <1> QED BY <1>3, <1>4 DEF r

(* The OUT worker touches only what is its own, and gives answers.         *)
LEMMA OutWorkerFrame ==
  ASSUME TypeOK, OutWorkerStep
  PROVE  /\ UNCHANGED OutOnly
         /\ h' \in HandlerState /\ iw' \in InWorker
         /\ h'.pc = h.pc /\ h'.seq = h.seq /\ h'.then = h.then
         /\ iw'.pc = iw.pc /\ iw'.pending = iw.pending /\ iw'.seq = iw.seq
         /\ iw'.active = iw.active
  <1>1. h \in HandlerState /\ iw \in InWorker
    BY DEF TypeOK
  <1>2. UNCHANGED OutOnly
    BY DEF OutWorkerStep, OutSubmit, OutFlush, OutShutdown, OutUnlink, OutIdleFlush
  <1>3. \/ h' = h /\ iw' = iw
        \/ \E to, ok : ok \in BOOLEAN /\ Reply(to, ok)
    BY DEF OutWorkerStep, OutSubmit, OutFlush, OutShutdown, OutUnlink, OutIdleFlush
  <1>4. CASE \E to, ok : ok \in BOOLEAN /\ Reply(to, ok)
    BY <1>1, <1>2, <1>4, ReplyIs
  <1> QED BY <1>1, <1>2, <1>3, <1>4

(* A flush leaves a worker.                                                *)
LEMMA AfterFlushTyped ==
  ASSUME TypeOK, NEW ok, AfterFlush(ok)
  PROVE  ow' \in OutWorker /\ written' \subseteq Urbs
  <1>1. ow \in OutWorker /\ written \subseteq Urbs /\ ow.buffered \subseteq Urbs
    BY DEF TypeOK, OutWorker
  <1>2. /\ \/ ow' = [ow EXCEPT !.buffered = {}, !.dirty = FALSE]
           \/ ow' = [ow EXCEPT !.poisoned = TRUE, !.dirty = FALSE]
        /\ written' = written \cup ow.buffered \/ written' = written
    BY Zenon DEF AfterFlush
  <1> QED BY <1>1, <1>2 DEF OutWorker

(* run_bulk_out_worker does.                                               *)
LEMMA TypeOutWorker ==
  ASSUME PipelineInv, OutWorkerStep
  PROVE  TypeOK'
  <1> USE DEF PipelineInv
  <1>1. /\ ow \in OutWorker /\ written \subseteq Urbs
        /\ outq \in Seq(Commands) /\ Len(outq) <= OutCap /\ outEv \in Seq(Events)
        /\ InCap \in Nat /\ OutCap \in Nat /\ <<>> \in Seq(Commands) /\ Len(<<>>) = 0
    BY PipelineAssumption DEF TypeOK
  <1>2. SUFFICES /\ ow' \in OutWorker /\ written' \subseteq Urbs
                 /\ outq' \in Seq(Commands) /\ Len(outq') <= OutCap
                 /\ outEv' \in Seq(Events)
    BY <1>2, OutWorkerFrame DEF OutOnly, books, TypeOK
  <1>3. ASSUME outq # <<>>
        PROVE  Tail(outq) \in Seq(Commands) /\ Len(Tail(outq)) <= OutCap
               /\ Head(outq) \in Commands
    <2>1. Tail(outq) \in Seq(Commands) /\ Len(Tail(outq)) = Len(outq) - 1
          /\ Head(outq) \in Commands /\ Len(outq) \in Nat
      BY <1>1, <1>3, CommandTaken
    <2> QED BY <1>1, <2>1
  <1>4. CASE OutSubmit
    <2>1. outq # <<>> /\ Head(outq).cmd = "submit" /\ outq' = Tail(outq) /\ written' = written
      BY <1>4 DEF OutSubmit, OutNext
    <2>2. Head(outq).arg \in Urbs
      BY <1>3, <2>1 DEF Commands, Command
    <2>3. outEv' \in Seq(Events)
      <3>1. \A ok \in BOOLEAN : [seq |-> Head(outq).arg, ok |-> ok] \in Events
        BY <2>2 DEF Events
      <3>2. \E ok \in BOOLEAN : outEv' = Append(outEv, [seq |-> Head(outq).arg, ok |-> ok])
        BY <1>4 DEF OutSubmit
      <3> QED BY <1>1, <3>1, <3>2
    <2>4. ow' \in OutWorker
      <3>1. ow.buffered \cup {Head(outq).arg} \subseteq Urbs
        BY <1>1, <2>2 DEF OutWorker
      <3>2. \/ ow' = [ow EXCEPT !.buffered = ow.buffered \cup {Head(outq).arg}, !.dirty = TRUE]
            \/ ow' = [ow EXCEPT !.poisoned = TRUE]
        BY <1>4 DEF OutSubmit
      <3> QED BY <1>1, <3>1, <3>2 DEF OutWorker
    <2> QED BY <1>1, <1>3, <2>1, <2>3, <2>4
  <1>5. CASE OutFlush
    <2>1. PICK ok \in BOOLEAN : AfterFlush(ok)
      BY <1>5 DEF OutFlush
    <2>2. outq # <<>> /\ outq' = Tail(outq) /\ outEv' = outEv
      BY <1>5 DEF OutFlush, OutNext
    <2> QED BY <1>1, <1>3, <2>1, <2>2, AfterFlushTyped
  <1>6. CASE OutShutdown
    <2>1. written' \subseteq Urbs
      BY <1>1, <1>6 DEF OutShutdown, OutWorker
    <2> QED BY <1>1, <1>6, <2>1, RestingStates DEF OutShutdown
  <1>7. CASE OutUnlink
    BY <1>1, <1>3, <1>7 DEF OutUnlink, OutNext
  <1>8. CASE OutIdleFlush
    <2>1. PICK ok \in BOOLEAN : AfterFlush(ok)
      BY <1>8 DEF OutIdleFlush
    <2> QED BY <1>1, <1>8, <2>1, AfterFlushTyped DEF OutIdleFlush
  <1> QED BY <1>4, <1>5, <1>6, <1>7, <1>8 DEF OutWorkerStep

(* Every step does.                                                        *)
LEMMA TypeNext ==
  ASSUME PipelineInv, [Next]_vars
  PROVE  TypeOK'
  <1>1. CASE UNCHANGED vars
    BY <1>1 DEF PipelineInv, vars, handlerVars, TypeOK
  <1> QED BY <1>1, TypeReads, TypeServes, TypeStops, TypeEvents, TypeInWorker,
             TypeOutWorker DEF Next, Peer, HandlerStep

----------------------------------------------------------------------------
(* The invariant.                                                          *)

(* The first state satisfies the invariant.                                *)
LEMMA InitInv == Init => PipelineInv
  <1> SUFFICES ASSUME Init PROVE PipelineInv
    OBVIOUS
  <1>1. TypeOK
    BY InitTypeOK
  <1>2. /\ h.pc = "select" /\ iw.pc = "gone" /\ iw.pending = <<>> /\ iw.active = 0
        /\ \A s \in Urbs : urb[s] = Unsent
    BY RestingStates DEF Init
  <1>3. \A s \in Urbs : s >= 1 /\ ~(s < 1)
    BY PipelineAssumption DEF Urbs
  <1>4. Unsent.kind = "none" /\ Unsent.gen = 0 /\ Unsent.ret = "none" /\ Unsent.unl = "no"
    BY DEF Unsent
  <1>5. Books
    BY <1>2, <1>3, <1>4, PipelineAssumption
       DEF Books, Numbered, Busy, Tables, Tracked, Answering, At, Init
  <1>6. Line
    <2>1. Seqs(inEv) = {} /\ ToSet(iw.pending) = {} /\ Sent(inq) = {} /\ Len(inq) = 0
          /\ SeqsInOrder(inEv) /\ Increasing(iw.pending) /\ SentInOrder(inq)
      BY <1>2, EmptyQueue DEF Init
    <2> QED BY <1>2, <2>1 DEF Line, Attended, LineOrdered, LineUnanswered, Lined, OnLine,
              Below, Answering, Init
  <1>7. Claims
    BY <1>2, <1>4 DEF Claims, ResponsesExclusive, UnlinkTruthful, ReadsInOrder
  <1> QED BY <1>1, <1>5, <1>6, <1>7 DEF PipelineInv

(* The steps of the OUT worker, and those that change nothing.             *)
LEMMA InvElsewhere ==
  ASSUME PipelineInv, UNCHANGED <<next, urb, books, inq, inEv>>,
         h'.pc = h.pc, h'.seq = h.seq, h'.then = h.then,
         iw'.pc = iw.pc, iw'.pending = iw.pending, iw'.active = iw.active
  PROVE  Books' /\ Line' /\ Claims'
  <1> USE DEF PipelineInv, books
  <1>1. Books'
    BY DEF Books, Numbered, Busy, Tables, Tracked, Answering, Mine, At, Current, Live
  <1>2. OnLine' = OnLine /\ Answering' = Answering /\ Stopping' = Stopping
    BY DEF OnLine, Answering, Stopping
  <1>3. Line'
    BY <1>2 DEF Line, Attended, LineOrdered, LineUnanswered, Lined, Mine, Current, Live
  <1>4. Claims'
    BY DEF Claims, ResponsesExclusive, UnlinkTruthful, ReadsInOrder
  <1> QED BY <1>1, <1>3, <1>4

(* The URBs on the line have been numbered.                                *)
LEMMA LineUrbs ==
  ASSUME PipelineInv
  PROVE  /\ Urbs \subseteq Nat /\ next \in Nat /\ 0 < next /\ iw.active \in Nat
         /\ OnLine \subseteq Urbs /\ \A s \in OnLine : s < next
         /\ \A i \in 1 .. Len(inq) :
              inq[i].cmd = "submit" \/ inq[i].cmd = "unlink" => inq[i].arg \in Urbs
  <1> USE DEF PipelineInv, Books, Line
  <1>1. Urbs \subseteq Nat /\ next \in Nat /\ 0 < next /\ iw.active \in Nat
    BY PipelineAssumption DEF Urbs, TypeOK, InWorker
  <1>2. Seqs(inEv) \subseteq Urbs
    <2>1. \A i \in 1 .. Len(inEv) : inEv[i] \in Events
      BY DEF TypeOK
    <2> QED BY <2>1 DEF Seqs, Events
  <1>3. ToSet(iw.pending) \subseteq Urbs
    <2>1. iw.pending \in Seq(Urbs)
      BY DEF TypeOK, InWorker
    <2> QED BY <2>1 DEF ToSet
  <1>4. \A i \in 1 .. Len(inq) :
          inq[i].cmd = "submit" \/ inq[i].cmd = "unlink" => inq[i].arg \in Urbs
    <2>1. \A i \in 1 .. Len(inq) : inq[i] \in Commands
      BY DEF TypeOK
    <2> QED BY <2>1 DEF Commands, Command
  <1>5. Sent(inq) \subseteq Urbs
    BY <1>4 DEF Sent
  <1>6. OnLine \subseteq Urbs
    BY <1>2, <1>3, <1>5 DEF OnLine
  <1>7. ASSUME NEW s \in OnLine PROVE s < next
    <2>1. s \in Urbs /\ urb[s].kind = "in" /\ Unsent.kind = "none"
      BY <1>6 DEF LineUnanswered, Unsent
    <2> QED BY <2>1 DEF Numbered
  <1> QED BY <1>1, <1>4, <1>6, <1>7

(* Steps that leave the places of the reads alone.                         *)
LEMMA LineSteady ==
  ASSUME PipelineInv, UNCHANGED <<gen, inEv, iw, inq>>, next' \in {next, next + 1},
         \A s \in Urbs : urb[s].unl # "no" => urb'[s].unl # "no",
         \A s \in OnLine :
           /\ urb'[s].kind = urb[s].kind /\ urb'[s].gen = urb[s].gen
           /\ urb'[s].ret = urb[s].ret
           /\ urb[s].gen = gen /\ urb'[s].unl # "no" => s \in cancelled',
         Answering' => Below(OnLine, {h'.seq}),
         Stopping' => Stopping,
         \A s \in Urbs : Current(s)' /\ urb'[s].kind = "in" /\ Live(s)' =>
           \/ Current(s) /\ urb[s].kind = "in" /\ Live(s) /\ ~Mine(s)
           \/ Mine(s)'
  PROVE  Line'
  <1> USE DEF PipelineInv, Line
  <1>1. OnLine' = OnLine
    BY DEF OnLine
  <1>2. Attended'
    BY LineUrbs DEF Attended
  <1>3. LineOrdered'
    BY <1>1, LineUrbs DEF LineOrdered
  <1>4. LineUnanswered'
    <2>1. ToSet(iw.pending) \cup Sent(inq) \subseteq OnLine
      BY DEF OnLine
    <2> QED BY <1>1, <2>1 DEF LineUnanswered, Current
  <1>5. Lined'
    BY <1>1 DEF Lined
  <1> QED BY <1>2, <1>3, <1>4, <1>5

(* USBIP_CMD_SUBMIT is read.                                               *)
LEMMA InvReadSubmit ==
  ASSUME PipelineInv, NEW kind \in Kinds, ReadSubmit(kind)
  PROVE  Books' /\ Line' /\ Claims'
  <1> USE DEF PipelineInv, Books
  <1> DEFINE k == IF imported THEN kind ELSE "ignored"
             new == [Unsent EXCEPT !.kind = k, !.gen = gen]
  <1>1. /\ At("select") /\ next \in Urbs /\ next' = next + 1 /\ urb \in [Urbs -> UrbState]
        /\ urb' = [urb EXCEPT ![next] = new]
        /\ h' = IF imported THEN [h EXCEPT !.pc = Route(kind), !.seq = next] ELSE h
        /\ UNCHANGED <<gen, imported, bulkIn, bulkOut, cancelled, pendingOut, inq, inEv, iw>>
    BY DEF ReadSubmit, books, TypeOK
  <1>2. new.kind = k /\ new.gen = gen /\ new.ret = "none" /\ new.unl = "no"
    BY DEF Unsent
  <1> HIDE DEF new
  <1>3. urb'[next] = new /\ \A s \in Urbs : s # next => urb'[s] = urb[s]
    BY <1>1
  <1>4. kind \in {"in", "out", "ctl"} /\ k # "none" /\ (~imported => k = "ignored")
        /\ "ignored" \notin Kinds /\ (imported => k = kind)
    BY PipelineAssumption
  <1> HIDE DEF k
  <1>5. /\ Route(kind) \in {"sendIn", "sendOut", "flushSend", "sync"}
        /\ Route(kind) = "sendIn" => kind = "in"
        /\ Route(kind) = "sendOut" => kind = "out"
        /\ Route(kind) = "flushSend" => kind = "ctl"
        /\ Route(kind) = "sync" => kind # "in"
    BY <1>4 DEF Route
  <1>6. /\ imported => h'.pc = Route(kind) /\ h'.seq = next /\ h'.then = h.then
        /\ ~imported => h' = h
        /\ h.pc = "select"
    BY <1>1 DEF TypeOK, HandlerState, At
  <1>7. urb[next] = Unsent /\ Unsent.kind = "none" /\ Unsent.gen = 0
    BY <1>1, LineUrbs DEF Numbered, Unsent
  <1>8. next \notin bulkIn /\ next \notin bulkOut /\ next \notin OnLine
        /\ next \notin cancelled /\ Unsent.unl = "no"
    BY <1>7, LineUrbs DEF Tables, Line, LineUnanswered, Unsent
  <1>9. /\ ~Answering /\ ~Stopping
        /\ imported => Answering'
        /\ ~Stopping'
    BY <1>5, <1>6 DEF Answering, Stopping
  <1>10. Numbered'
    <2>1. gen \in Nat /\ Urbs \subseteq Nat /\ next \in Nat
      BY LineUrbs, PipelineAssumption DEF TypeOK
    <2> QED BY <1>1, <1>2, <1>3, <1>4, <2>1 DEF Numbered
  <1>11. Busy'
    BY <1>1, <1>2, <1>3, <1>4, <1>5, <1>6, <1>8, <1>9
       DEF Busy, At, Current, Live, Answering
  <1>12. Tables'
    BY <1>1, <1>3, <1>8 DEF Tables, TypeOK, Current, Live
  <1>13. Tracked'
    BY <1>1, <1>2, <1>3, <1>4, <1>6, <1>9 DEF Tracked, Mine, Current, Live, At
  <1>14. Line'
    <2>1. /\ \A s \in OnLine : urb'[s] = urb[s] /\ s < next
          /\ Answering' => h'.seq = next
      <3>1. \A s \in OnLine : s \in Urbs /\ s # next /\ s < next
        BY <1>8, LineUrbs
      <3>2. ~imported => ~Answering'
        BY <1>6, <1>9 DEF Answering
      <3> QED BY <1>3, <1>6, <3>1, <3>2
    <2>2. Answering' => Below(OnLine, {h'.seq})
      BY <2>1 DEF Below
    <2>3. \A s \in OnLine : urb[s].gen = gen /\ urb'[s].unl # "no" => s \in cancelled'
      BY <1>1, <2>1 DEF Line, LineUnanswered, Current
    <2>4. \A s \in Urbs : urb[s].unl # "no" => urb'[s].unl # "no"
      BY <1>3, <1>7, <1>8
    <2>5. \A s \in Urbs : Current(s)' /\ urb'[s].kind = "in" /\ Live(s)' =>
            \/ Current(s) /\ urb[s].kind = "in" /\ Live(s) /\ ~Mine(s)
            \/ Mine(s)'
      BY <1>1, <1>2, <1>3, <1>4, <1>6, <1>9 DEF Mine, Current, Live
    <2> QED BY <1>1, <1>9, <2>1, <2>2, <2>3, <2>4, <2>5, LineSteady
  <1>15. Claims'
    <2>1. \A t \in Urbs : t > next => urb[t].ret = "none"
      BY LineUrbs DEF Numbered, Unsent
    <2>2. ResponsesExclusive' /\ UnlinkTruthful'
      BY <1>1, <1>2, <1>3, <1>4 DEF Claims, ResponsesExclusive, UnlinkTruthful
    <2>3. ReadsInOrder'
      BY <1>1, <1>2, <1>3, <2>1 DEF Claims, ReadsInOrder
    <2> QED BY <2>2, <2>3 DEF Claims
  <1> QED BY <1>10, <1>11, <1>12, <1>13, <1>14, <1>15

(* USBIP_CMD_UNLINK is read: the request is in a table, or it has been     *)
(* answered.                                                               *)
LEMMA InvReadUnlink ==
  ASSUME PipelineInv, NEW t \in Urbs, ReadUnlink(t)
  PROVE  Books' /\ Line' /\ Claims'
  <1> USE DEF PipelineInv, Books
  <1>1. /\ h.pc = "select" /\ t < next /\ urb[t].unl = "no"
        /\ UNCHANGED <<next, gen, imported, inq, inEv, iw>>
        /\ urb \in [Urbs -> UrbState] /\ h \in HandlerState
        /\ ~Answering /\ ~Stopping
    BY DEF ReadUnlink, At, TypeOK, Answering, Stopping
  <1>2. PICK u \in {"reset", "late"} :
          /\ urb' = [urb EXCEPT ![t].unl = u]
          /\ u = "reset" => t \in bulkIn \cup bulkOut
          /\ u = "late" => t \notin bulkIn \cup bulkOut
    <2>1. pendingOut = bulkOut
      BY DEF TypeOK
    <2> QED BY <2>1, Zenon DEF ReadUnlink
  <1>3. /\ \A s \in Urbs : s # t => urb'[s] = urb[s]
        /\ urb'[t].unl = u /\ urb'[t].kind = urb[t].kind
        /\ urb'[t].gen = urb[t].gen /\ urb'[t].ret = urb[t].ret
    BY <1>1, <1>2, UnlinkedOnce
  <1>4. /\ \/ h' = h
           \/ h' = [h EXCEPT !.pc = "unlinkIn", !.seq = t]
           \/ h' = [h EXCEPT !.pc = "unlinkOut", !.seq = t]
        /\ bulkIn' = bulkIn \ {t}
        /\ bulkOut' = bulkOut \ {t}
        /\ cancelled' = IF t \in bulkIn THEN cancelled \cup {t} ELSE cancelled
    <2>1. t \in bulkIn => t \notin bulkOut
      BY DEF Tables
    <2> QED BY <2>1 DEF ReadUnlink
  <1>5. /\ h'.pc \in {"select", "unlinkIn", "unlinkOut"}
        /\ h'.pc \in {"unlinkIn", "unlinkOut"} => h'.seq = t
        /\ h'.then = h.then
    BY <1>1, <1>4 DEF HandlerState
  <1>6. ~Answering' /\ ~Stopping'
    BY <1>5 DEF Answering, Stopping
  <1>7. Numbered'
    <2>1. urb[t] # Unsent \/ t < next
      BY <1>1
    <2> QED BY <1>1, <1>3 DEF Numbered
  <1>8. Busy'
    BY <1>3, <1>5, <1>6 DEF Busy, At
  <1>9. Tables'
    BY <1>1, <1>3, <1>4 DEF Tables, TypeOK, Current, Live
  <1>10. Tracked'
    <2>1. ~At("closed") /\ \A s \in Urbs : ~Mine(s)
      BY <1>1 DEF At, Mine
    <2> QED BY <1>1, <1>2, <1>3, <1>4, <2>1 DEF Tracked, Current, Live
  <1>11. u = "late" /\ Current(t) /\ urb[t].kind \in Kinds => urb[t].ret # "none"
    <2>1. ~At("closed") /\ ~Mine(t)
      BY <1>1 DEF At, Mine
    <2> QED BY <1>1, <1>2, <2>1 DEF Tracked, Live
  <1>12. Line'
    <2>1. \A s \in OnLine : s \in Urbs /\ urb[s].kind = "in" /\ urb[s].ret = "none"
      BY LineUrbs DEF Line, LineUnanswered
    <2>2. \A s \in OnLine : urb[s].gen = gen /\ urb'[s].unl # "no" => s \in cancelled'
      <3>1. ASSUME t \in OnLine, urb[t].gen = gen PROVE t \in bulkIn
        <4>1. urb[t].kind = "in" /\ urb[t].ret = "none"
          BY <2>1, <3>1
        <4>2. urb[t].kind \in Kinds
          BY <1>1, <4>1 DEF UrbState
        <4>3. t \notin bulkOut
          BY <4>1 DEF Tables
        <4> QED BY <1>2, <1>11, <3>1, <4>1, <4>2, <4>3 DEF Current
      <3> QED BY <1>3, <1>4, <2>1, <3>1 DEF Line, LineUnanswered, Current
    <2>3. \A s \in Urbs : urb[s].unl # "no" => urb'[s].unl # "no"
      BY <1>1, <1>3
    <2>4. \A s \in OnLine : urb'[s].kind = urb[s].kind /\ urb'[s].gen = urb[s].gen
                            /\ urb'[s].ret = urb[s].ret
      BY <1>3, <2>1
    <2>5. \A s \in Urbs : Current(s)' /\ urb'[s].kind = "in" /\ Live(s)' =>
            \/ Current(s) /\ urb[s].kind = "in" /\ Live(s) /\ ~Mine(s)
            \/ Mine(s)'
      BY <1>1, <1>2, <1>3 DEF Mine, Current, Live
    <2> QED BY <1>1, <1>6, <2>2, <2>3, <2>4, <2>5, LineSteady
  <1>13. Claims'
    <2>1. ResponsesExclusive'
      <3>1. u = "reset" => urb[t].ret = "none"
        BY <1>2 DEF Tables, Live
      <3> QED BY <1>1, <1>2, <1>3, <3>1 DEF Claims, ResponsesExclusive
    <2>2. UnlinkTruthful'
      <3>1. urb[t].kind \in Kinds \/ urb[t].kind = "ignored"
        BY <1>1 DEF UrbState, Numbered
      <3> QED BY <1>1, <1>2, <1>3, <1>11, <3>1 DEF Claims, UnlinkTruthful, Current
    <2>3. ReadsInOrder'
      BY <1>1, <1>2, <1>3 DEF Claims, ReadsInOrder
    <2> QED BY <2>1, <2>2, <2>3 DEF Claims
  <1> QED BY <1>7, <1>8, <1>9, <1>10, <1>12, <1>13

(* The session is to end, and the reader with it; what the reader has sent *)
(* before is still forwarded.                                              *)
LEMMA InvReadStop ==
  ASSUME PipelineInv, NEW then \in {"import", "close"}, ReadStop(then)
  PROVE  Books' /\ Line' /\ Claims'
  <1> USE DEF PipelineInv, Books
  <1>1. /\ h.pc = "select" /\ (then = "import" => gen < MaxImports)
        /\ UNCHANGED <<next, urb, gen, imported, bulkIn, bulkOut, cancelled, inEv>>
        /\ iw' = NoInWorker /\ inq' = <<>>
    BY DEF ReadStop, At, books
  <1>2. h'.pc \in {"stopSend", "stopped"} /\ h'.then = then
    BY RestingStates DEF ReadStop, HandlerState
  <1>3. /\ iw'.pc = "gone" /\ iw'.pending = <<>> /\ iw'.active = 0
        /\ ToSet(iw'.pending) = {} /\ Sent(inq') = {} /\ Len(inq') = 0
        /\ Increasing(iw'.pending) /\ SentInOrder(inq')
    BY <1>1, RestingStates, EmptyQueue
  <1>4. ~Answering /\ ~Answering'
    BY <1>1, <1>2 DEF Answering
  <1>5. Numbered' /\ Tables'
    BY <1>1 DEF Numbered, Tables, Current, Live
  <1>6. Busy'
    BY <1>1, <1>2, <1>4 DEF Busy, At
  <1>7. Tracked'
    BY <1>1, <1>2, <1>4 DEF Tracked, Mine, At, Current, Live
  <1>8. Line'
    <2>1. OnLine' = Seqs(inEv) /\ Seqs(inEv) \subseteq OnLine
      BY <1>1, <1>3 DEF OnLine
    <2>2. Attended' /\ Lined'
      BY <1>1, <1>3 DEF Attended, Lined
    <2>3. LineOrdered'
      BY <1>1, <1>3, <1>4, LineUrbs DEF LineOrdered, Below, Line
    <2>4. LineUnanswered'
      BY <1>1, <1>3, <2>1 DEF LineUnanswered, Current, Line
    <2> QED BY <2>2, <2>3, <2>4 DEF Line
  <1>9. Claims'
    BY <1>1, <1>3 DEF Claims, ResponsesExclusive, UnlinkTruthful, ReadsInOrder
  <1> QED BY <1>5, <1>6, <1>7, <1>8, <1>9

(* A request is handed to the IN worker, or is served by the handler when  *)
(* there is no such worker.                                                *)
LEMMA InvSendIn ==
  ASSUME PipelineInv, SendIn
  PROVE  Books' /\ Line' /\ Claims'
  <1> USE DEF PipelineInv, Books
  <1>1. /\ At("sendIn") /\ h.pc = "sendIn" /\ h \in HandlerState
        /\ UNCHANGED <<next, urb, gen, imported, bulkOut, cancelled, inEv, iw>>
    BY DEF SendIn, At, TypeOK
  <1>2. /\ h.seq \in Urbs /\ h.seq + 1 = next /\ Current(h.seq) /\ Live(h.seq)
        /\ h.seq \notin bulkIn \cup bulkOut /\ urb[h.seq].kind = "in"
        /\ Answering /\ ~Stopping
    BY <1>1 DEF Busy, Answering, Stopping
  <1>3. Numbered' /\ Claims'
    BY <1>1 DEF Numbered, Claims, ResponsesExclusive, UnlinkTruthful, ReadsInOrder
  <1>4. CASE iw.pc = "gone" /\ h' = [h EXCEPT !.pc = "sync"] /\ UNCHANGED <<bulkIn, inq>>
    <2>1. h'.pc = "sync" /\ h'.seq = h.seq /\ h'.then = h.then
      BY <1>1, <1>4 DEF HandlerState
    <2>2. Answering' /\ ~Stopping'
      BY <2>1 DEF Answering, Stopping
    <2>3. Tables'
      BY <1>1, <1>4 DEF Tables, Current, Live
    <2>4. "in" \in Kinds
      BY <1>2, SMTT(30) DEF TypeOK, UrbState
    <2>5. Busy'
      BY <1>1, <1>2, <1>4, <2>1, <2>4 DEF Busy, At, Current, Live
    <2>6. Tracked'
      BY <1>1, <1>2, <1>4, <2>1, <2>2 DEF Tracked, Mine, At, Current, Live
    <2>7. Line'
      <3>1. OnLine' = OnLine
        BY <1>1, <1>4 DEF OnLine
      <3> QED BY <1>1, <1>2, <1>4, <2>1, <2>2, <3>1
              DEF Line, Attended, LineOrdered, LineUnanswered, Lined, Current
    <2> QED BY <1>3, <2>3, <2>5, <2>6, <2>7
  <1>5. CASE /\ iw.pc # "gone" /\ inq' = Append(inq, Command("submit", h.seq))
             /\ bulkIn' = bulkIn \cup {h.seq} /\ h' = Selecting
    <2>1. h'.pc = "select"
      BY <1>5, RestingStates
    <2>2. ~Answering' /\ ~Stopping'
      BY <2>1 DEF Answering, Stopping
    <2>3. Tables'
      BY <1>1, <1>2, <1>5 DEF Tables, Current, Live
    <2>4. Busy'
      BY <2>1, <2>2 DEF Busy, At
    <2>5. Tracked'
      BY <1>1, <1>2, <1>5, <2>1, <2>2 DEF Tracked, Mine, At, Current, Live
    <2> DEFINE c == Command("submit", h.seq)
    <2>6. c \in Commands /\ c.cmd = "submit" /\ c.arg = h.seq /\ inq \in Seq(Commands)
      BY <1>2, CommandsAre DEF TypeOK
    <2>7. Below(OnLine, {h.seq})
      BY <1>2 DEF Line, LineOrdered
    <2>8. Below(Sent(inq), {h.seq})
      BY <2>7 DEF Below, OnLine
    <2> HIDE DEF c
    <2>9. /\ inq' = Append(inq, c) /\ inq' \in Seq(Commands) /\ Len(inq') = Len(inq) + 1
          /\ Sent(inq') = Sent(inq) \cup {h.seq} /\ SentInOrder(inq')
      BY <1>5, <2>6, <2>8, CommandSent DEF c, Line, LineOrdered
    <2>10. OnLine' = OnLine \cup {h.seq}
      BY <1>1, <2>9 DEF OnLine
    <2>11. Attended'
      <3>1. \A i \in 1 .. Len(inq') : inq'[i].cmd = "submit" \/ (i \in 1 .. Len(inq) /\ inq'[i] = inq[i])
        BY <2>6, <2>9
      <3> QED BY <1>1, <1>5, <2>2, <3>1 DEF Line, Attended
    <2>12. LineOrdered'
      BY <1>1, <1>2, <2>2, <2>7, <2>9, LineUrbs DEF Line, LineOrdered, Below, OnLine
    <2>13. LineUnanswered'
      BY <1>1, <1>2, <2>9, <2>10 DEF Line, LineUnanswered, Current, Live
    <2>14. Lined'
      BY <1>1, <1>2, <2>2, <2>10 DEF Line, Lined, Mine, Current, Live
    <2> QED BY <1>3, <2>3, <2>4, <2>5, <2>11, <2>12, <2>13, <2>14 DEF Line
  <1> QED BY <1>4, <1>5 DEF SendIn

(* An OUT request is handed to its worker.                                 *)
LEMMA InvSendOut ==
  ASSUME PipelineInv, SendOut
  PROVE  Books' /\ Line' /\ Claims'
  <1> USE DEF PipelineInv, Books
  <1>1. /\ h.pc = "sendOut" /\ bulkOut' = bulkOut \cup {h.seq}
        /\ UNCHANGED <<next, urb, gen, imported, bulkIn, cancelled, inq, inEv, iw>>
    BY DEF SendOut, At
  <1>2. h'.pc = "select"
    BY RestingStates DEF SendOut
  <1>3. /\ h.seq \in Urbs /\ Current(h.seq) /\ Live(h.seq) /\ urb[h.seq].kind = "out"
        /\ Answering /\ ~Answering' /\ ~Stopping'
    BY <1>1, <1>2 DEF Busy, At, Answering, Stopping
  <1>4. Numbered' /\ Claims'
    BY <1>1 DEF Numbered, Claims, ResponsesExclusive, UnlinkTruthful, ReadsInOrder
  <1>5. Tables' /\ Tracked' /\ Busy'
    BY <1>1, <1>2, <1>3 DEF Tables, Tracked, Busy, Mine, At, Current, Live
  <1>6. Line'
    <2>1. \A s \in OnLine : urb[s].gen = gen /\ urb[s].unl # "no" => s \in cancelled
      BY DEF Line, LineUnanswered, Current
    <2>2. \A s \in Urbs : Current(s)' /\ urb'[s].kind = "in" /\ Live(s)' =>
            Current(s) /\ urb[s].kind = "in" /\ Live(s) /\ ~Mine(s)
      BY <1>1, <1>3 DEF Mine, Current, Live
    <2> QED BY <1>1, <1>3, <2>1, <2>2, LineSteady
  <1> QED BY <1>4, <1>5, <1>6

(* Steps in which the handler only waits for another answer.               *)
LEMMA InvWaits ==
  ASSUME PipelineInv, UNCHANGED <<next, urb, books, inq, inEv, iw>>,
         \/ h.pc = "flushSend" /\ h'.pc = "flushWait"
         \/ h.pc = "flushWait" /\ h'.pc = "sync"
         \/ h.pc = "stopSend" /\ h'.pc = "stopWait"
         \/ h.pc = "stopWait" /\ h'.pc = "stopped",
         h'.seq = h.seq, h'.then = h.then
  PROVE  Books' /\ Line' /\ Claims'
  <1> USE DEF PipelineInv, Books, books
  <1>1. /\ Answering' = Answering /\ Stopping' = Stopping
        /\ h.pc # "closed" /\ h'.pc # "closed"
        /\ \A s \in Urbs : Mine(s)' = Mine(s)
    BY DEF Answering, Stopping, Mine
  <1>2. Numbered' /\ Claims' /\ Tables'
    BY DEF Numbered, Claims, ResponsesExclusive, UnlinkTruthful, ReadsInOrder, Tables,
           Current, Live
  <1>3. Tracked'
    BY <1>1 DEF Tracked, At, Current, Live
  <1>4. Busy'
    <2>1. urb[h.seq].kind = "ctl" /\ h.seq \in Urbs => "ctl" \in Kinds
      BY DEF TypeOK, UrbState
    <2> QED BY <1>1, <2>1 DEF Busy, At, Current, Live, Answering
  <1>5. Line'
    <2>1. OnLine' = OnLine
      BY DEF OnLine
    <2> QED BY <1>1, <2>1 DEF Line, Attended, LineOrdered, LineUnanswered, Lined,
              Current, Live
  <1> QED BY <1>2, <1>3, <1>4, <1>5

(* Steps in which the handler answers its own URB.                         *)
LEMMA InvAnswers ==
  ASSUME PipelineInv, NEW ok \in BOOLEAN, h.pc \in {"flushWait", "sync"},
         urb' = Answered(h.seq, ok), h' = Selecting,
         UNCHANGED <<next, books, inq, inEv, iw>>
  PROVE  Books' /\ Line' /\ Claims'
  <1> USE DEF PipelineInv, Books, books
  <1>1. /\ h.seq \in Urbs /\ h.seq + 1 = next /\ Current(h.seq) /\ Live(h.seq)
        /\ h.seq \notin bulkIn \cup bulkOut
        /\ urb[h.seq].kind = "in" => iw.pc = "gone"
        /\ Answering /\ ~Stopping
    BY DEF Busy, At, Answering, Stopping
  <1>2. h'.pc = "select"
    BY RestingStates
  <1>3. ~Answering' /\ ~Stopping'
    BY <1>2 DEF Answering, Stopping
  <1>4. /\ \A s \in Urbs : s # h.seq => urb'[s] = urb[s]
        /\ urb'[h.seq].ret # "none" /\ urb'[h.seq].ret # "twice"
        /\ urb'[h.seq].kind = urb[h.seq].kind /\ urb'[h.seq].gen = urb[h.seq].gen
        /\ urb'[h.seq].unl = urb[h.seq].unl
    BY <1>1, AnsweredOnce DEF TypeOK, Live
  <1>5. Numbered'
    <2>1. h.seq < next
      BY <1>1, LineUrbs
    <2> QED BY <1>1, <1>4, <2>1 DEF Numbered
  <1>6. Busy'
    BY <1>2, <1>3 DEF Busy, At
  <1>7. Tables'
    <2>1. h.seq \notin bulkIn /\ h.seq \notin bulkOut /\ h.seq \notin cancelled
      BY <1>1 DEF Tables, Live
    <2>2. \A s \in bulkIn \cup bulkOut \cup cancelled : urb'[s] = urb[s]
      BY <1>4, <2>1 DEF TypeOK
    <2> QED BY <2>2 DEF Tables, Current, Live
  <1>8. Tracked'
    BY <1>2, <1>3, <1>1, <1>4 DEF Tracked, Mine, At, Current, Live, Answering
  <1>9. Line'
    <2>1. h.seq \notin OnLine
      <3>1. Below(OnLine, {h.seq})
        BY <1>1 DEF Line, LineOrdered
      <3> QED BY <1>1, <3>1, LineUrbs DEF Below
    <2>2. \A s \in OnLine : s \in Urbs /\ urb'[s] = urb[s]
      BY <1>4, <2>1, LineUrbs
    <2>3. \A s \in OnLine : urb[s].gen = gen /\ urb'[s].unl # "no" => s \in cancelled'
      BY <2>2 DEF Line, LineUnanswered, Current
    <2>4. \A s \in Urbs : urb[s].unl # "no" => urb'[s].unl # "no"
      BY <1>1, <1>4
    <2>5. \A s \in Urbs : Current(s)' /\ urb'[s].kind = "in" /\ Live(s)' =>
            Current(s) /\ urb[s].kind = "in" /\ Live(s) /\ ~Mine(s)
      BY <1>1, <1>4 DEF Mine, Current, Live
    <2> QED BY <1>3, <2>2, <2>3, <2>4, <2>5, LineSteady
  <1>10. Claims'
    <2>1. ResponsesExclusive'
      BY <1>1, <1>4 DEF Claims, ResponsesExclusive, Live
    <2>2. UnlinkTruthful'
      BY <1>1, <1>4 DEF Claims, UnlinkTruthful
    <2>3. ReadsInOrder'
      BY <1>1, <1>4 DEF Claims, ReadsInOrder
    <2> QED BY <2>1, <2>2, <2>3 DEF Claims
  <1> QED BY <1>5, <1>6, <1>7, <1>8, <1>9, <1>10

(* An unlink is passed on to the worker of the request.                    *)
LEMMA InvSendUnlink ==
  ASSUME PipelineInv, SendUnlink
  PROVE  Books' /\ Line' /\ Claims'
  <1> USE DEF PipelineInv, Books
  <1>1. /\ h.pc \in {"unlinkIn", "unlinkOut"} /\ h' = Selecting
        /\ UNCHANGED <<next, urb, gen, imported, bulkIn, bulkOut, cancelled, inEv, iw>>
        /\ \/ inq' = inq
           \/ iw.pc # "gone" /\ inq' = Append(inq, Command("unlink", h.seq))
    BY DEF SendUnlink, At, books
  <1>2. h'.pc = "select" /\ h.seq \in Urbs /\ urb[h.seq].unl # "no"
    BY <1>1, RestingStates DEF Busy
  <1>3. ~Answering /\ ~Answering' /\ ~Stopping' /\ h.pc # "closed"
    BY <1>1, <1>2 DEF Answering, Stopping
  <1>4. Numbered' /\ Claims' /\ Tables'
    BY <1>1 DEF Numbered, Claims, ResponsesExclusive, UnlinkTruthful, ReadsInOrder, Tables,
           Current, Live
  <1>5. Busy' /\ Tracked'
    BY <1>1, <1>2, <1>3 DEF Busy, Tracked, Mine, At, Current, Live
  <1>6. Line'
    <2>1. /\ Sent(inq') = Sent(inq) /\ SentInOrder(inq')
          /\ iw.pc = "gone" => inq' = inq
          /\ \A i \in 1 .. Len(inq') :
               \/ i \in 1 .. Len(inq) /\ inq'[i] = inq[i]
               \/ inq'[i].cmd = "unlink" /\ inq'[i].arg = h.seq
      <3>1. CASE inq' = inq
        BY <3>1 DEF Line, LineOrdered
      <3>2. CASE iw.pc # "gone" /\ inq' = Append(inq, Command("unlink", h.seq))
        <4> DEFINE c == Command("unlink", h.seq)
        <4>1. c \in Commands /\ c.cmd = "unlink" /\ c.arg = h.seq /\ inq \in Seq(Commands)
          BY <1>2, CommandsAre DEF TypeOK
        <4> HIDE DEF c
        <4>2. inq' = Append(inq, c)
          BY <3>2 DEF c
        <4>3. Sent(inq') = Sent(inq) /\ SentInOrder(inq')
          BY <4>1, <4>2, CommandSent DEF Line, LineOrdered
        <4> QED BY <3>2, <4>1, <4>2, <4>3
      <3> QED BY <1>1, <3>1, <3>2
    <2>2. OnLine' = OnLine
      BY <1>1, <2>1 DEF OnLine
    <2>3. Attended'
      BY <1>1, <1>2, <1>3, <2>1 DEF Line, Attended
    <2> QED BY <1>1, <1>3, <2>1, <2>2, <2>3
            DEF Line, LineOrdered, LineUnanswered, Lined, Mine, Current, Live
  <1> QED BY <1>4, <1>5, <1>6

(* What the handler does about a request.                                  *)
LEMMA InvServes ==
  ASSUME PipelineInv,
         SendIn \/ SendOut \/ ControlBarrier \/ ControlBarrierDone \/ SyncSubmit \/ SendUnlink
  PROVE  Books' /\ Line' /\ Claims'
  <1>1. h \in HandlerState
    BY DEF PipelineInv, TypeOK
  <1>2. CASE ControlBarrier
    <2>1. /\ h.pc = "flushSend" /\ h'.pc = "flushWait" /\ h'.seq = h.seq /\ h'.then = h.then
          /\ UNCHANGED <<next, urb, books, inq, inEv, iw>>
      BY <1>1, <1>2 DEF ControlBarrier, At, HandlerState
    <2> QED BY <2>1, InvWaits
  <1>3. CASE ControlBarrierDone
    <2>1. /\ h.pc = "flushWait" /\ UNCHANGED <<next, books, inq, inEv, iw>>
          /\ \/ h' = [h EXCEPT !.pc = "sync", !.reply = "none"] /\ UNCHANGED urb
             \/ h' = Selecting /\ urb' = Answered(h.seq, FALSE)
      BY <1>3 DEF ControlBarrierDone, At
    <2>2. CASE h' = [h EXCEPT !.pc = "sync", !.reply = "none"] /\ UNCHANGED urb
      <3>1. h'.pc = "sync" /\ h'.seq = h.seq /\ h'.then = h.then
        BY <1>1, <2>2 DEF HandlerState
      <3> QED BY <2>1, <2>2, <3>1, InvWaits
    <2>3. CASE h' = Selecting /\ urb' = Answered(h.seq, FALSE)
      BY <2>1, <2>3, InvAnswers
    <2> QED BY <2>1, <2>2, <2>3
  <1>4. CASE SyncSubmit
    <2>1. PICK ok \in BOOLEAN : urb' = Answered(h.seq, ok)
      BY <1>4, Zenon DEF SyncSubmit
    <2>2. h.pc = "sync" /\ h' = Selecting /\ UNCHANGED <<next, books, inq, inEv, iw>>
      BY <1>4 DEF SyncSubmit, At
    <2> QED BY <2>1, <2>2, InvAnswers
  <1> QED BY <1>2, <1>3, <1>4, InvSendIn, InvSendOut, InvSendUnlink

(* handler leaves its loop.                                                *)
LEMMA InvClosing ==
  ASSUME PipelineInv, Closing
  PROVE  Books' /\ Line' /\ Claims'
  <1> USE DEF PipelineInv, Books
  <1>1. /\ UNCHANGED <<next, urb, gen, imported, bulkIn, bulkOut, cancelled>>
        /\ iw' = NoInWorker /\ inq' = <<>> /\ inEv' = <<>>
    BY DEF Closing, books
  <1>2. h'.pc = "closed"
    BY RestingStates DEF Closing, HandlerState
  <1>3. /\ iw'.pc = "gone" /\ iw'.pending = <<>> /\ iw'.active = 0
        /\ ToSet(iw'.pending) = {} /\ Sent(inq') = {} /\ Len(inq') = 0 /\ Seqs(inEv') = {}
        /\ Increasing(iw'.pending) /\ SentInOrder(inq') /\ SeqsInOrder(inEv')
    BY <1>1, RestingStates, EmptyQueue
  <1>4. ~Answering'
    BY <1>2 DEF Answering
  <1>5. Numbered' /\ Tables' /\ Busy' /\ Tracked'
    BY <1>1, <1>2, <1>4 DEF Numbered, Tables, Busy, Tracked, At, Current, Live
  <1>6. Line'
    BY <1>1, <1>3, <1>4, LineUrbs DEF Line, Attended, LineOrdered, LineUnanswered, Lined, OnLine, Below
  <1>7. Claims'
    BY <1>1, <1>3 DEF Claims, ResponsesExclusive, UnlinkTruthful, ReadsInOrder
  <1> QED BY <1>5, <1>6, <1>7

(* An import: everything that was pending belongs to an earlier one.       *)
LEMMA InvImport ==
  ASSUME PipelineInv, Import
  PROVE  Books' /\ Line' /\ Claims'
  <1> USE DEF PipelineInv, Books
  <1>1. /\ h.pc = "stopped" /\ gen' = gen + 1 /\ UNCHANGED <<next, urb, inq, inEv>>
        /\ bulkIn' = {} /\ bulkOut' = {} /\ cancelled' = {}
        /\ iw' = [NoInWorker EXCEPT !.pc = "opening"] \/ iw' = NoInWorker
    BY DEF Import, At
  <1>2. h'.pc = "select"
    BY RestingStates DEF Import
  <1>3. iw.pc = "gone" /\ iw.pending = <<>> /\ inq = <<>> /\ ~Answering' /\ ~Stopping'
    BY <1>1, <1>2 DEF Line, Attended, Stopping, Answering
  <1>4. /\ iw'.pc \in {"gone", "opening"} /\ iw'.pending = <<>> /\ iw'.active = 0
        /\ ToSet(iw'.pending) = {} /\ Sent(inq') = {} /\ Len(inq') = 0
        /\ Increasing(iw'.pending) /\ SentInOrder(inq')
    BY <1>1, <1>3, RestingStates, EmptyQueue DEF InWorker
  <1>5. \A s \in Urbs : urb[s].gen < gen' /\ urb[s].gen <= gen'
    <2>1. gen \in Nat
      BY PipelineAssumption DEF TypeOK
    <2>2. \A s \in Urbs : urb[s].gen \in Nat /\ urb[s].gen <= gen
      BY PipelineAssumption DEF TypeOK, UrbState, Numbered
    <2> QED BY <1>1, <2>1, <2>2
  <1>6. \A s \in Urbs : ~Current(s)'
    <2>1. \A s \in Urbs : urb[s].gen # gen'
      <3>1. gen' \in Nat /\ \A s \in Urbs : urb[s].gen \in Nat
        BY <1>1, PipelineAssumption DEF TypeOK, UrbState
      <3> QED BY <1>5, <3>1
    <2> QED BY <1>1, <2>1 DEF Current
  <1>7. Numbered' /\ Tables' /\ Busy' /\ Tracked'
    BY <1>1, <1>2, <1>3, <1>5, <1>6 DEF Numbered, Tables, Busy, Tracked, At
  <1>8. Line'
    <2>1. OnLine' = Seqs(inEv) /\ Seqs(inEv) \subseteq OnLine /\ OnLine \subseteq Urbs
      BY <1>1, <1>4, LineUrbs DEF OnLine
    <2>2. Attended' /\ Lined'
      BY <1>3, <1>4, <1>6 DEF Attended, Lined
    <2>3. LineOrdered'
      BY <1>1, <1>3, <1>4, LineUrbs DEF LineOrdered, Below, Line
    <2>4. LineUnanswered'
      BY <1>1, <1>4, <1>6, <2>1 DEF LineUnanswered, Line
    <2> QED BY <2>2, <2>3, <2>4 DEF Line
  <1>9. Claims'
    BY <1>1, <1>6 DEF Claims, ResponsesExclusive, UnlinkTruthful, ReadsInOrder, Current
  <1> QED BY <1>7, <1>8, <1>9

(* A session is wound up.                                                  *)
LEMMA InvStops ==
  ASSUME PipelineInv,
         StopSend \/ StopDone \/ StopTimeout \/ Import \/ Close \/ WriteFails
  PROVE  Books' /\ Line' /\ Claims'
  <1>1. CASE StopSend \/ StopDone \/ StopTimeout
    <2>1. h \in HandlerState
      BY DEF PipelineInv, TypeOK
    <2>2. /\ \/ h.pc = "stopSend" /\ h'.pc = "stopWait"
             \/ h.pc = "stopWait" /\ h'.pc = "stopped"
          /\ h'.seq = h.seq /\ h'.then = h.then
          /\ UNCHANGED <<next, urb, books, inq, inEv, iw>>
      <3>1. CASE StopSend
        BY <2>1, <3>1 DEF StopSend, At, HandlerState
      <3>2. CASE StopDone
        BY <2>1, <3>2 DEF StopDone, At, HandlerState
      <3>3. CASE StopTimeout
        BY <2>1, <3>3 DEF StopTimeout, At, HandlerState
      <3> QED BY <1>1, <3>1, <3>2, <3>3
    <2> QED BY <2>2, InvWaits
  <1> QED BY <1>1, InvImport, InvClosing DEF Close, WriteFails

(* The completion of a read is forwarded, unless it was unlinked.          *)
LEMMA InvInEvent ==
  ASSUME PipelineInv, InEvent
  PROVE  Books' /\ Line' /\ Claims'
  <1> USE DEF PipelineInv, Books
  <1>0. PICK s, ok : s = Head(inEv).seq /\ ok = Head(inEv).ok
    OBVIOUS
  <1>1. /\ h.pc = "select" /\ inEv # <<>> /\ inEv' = Tail(inEv)
        /\ bulkIn' = bulkIn \ {s} /\ cancelled' = cancelled \ {s}
        /\ urb' = IF s \in cancelled THEN urb ELSE Answered(s, ok)
        /\ UNCHANGED <<next, h, gen, imported, bulkOut, inq, iw>>
    BY <1>0 DEF InEvent, At
  <1>2. /\ SeqsInOrder(inEv') /\ Head(inEv) \in Events
        /\ Seqs(inEv) = Seqs(inEv') \cup {s} /\ Below({s}, Seqs(inEv'))
    BY <1>0, <1>1, EventTaken DEF TypeOK, Line, LineOrdered
  <1>3. s \in Urbs /\ ok \in BOOLEAN /\ s \in OnLine
    BY <1>0, <1>2 DEF Events, OnLine
  <1>4. urb[s].kind = "in" /\ urb[s].ret = "none" /\ (Current(s) /\ urb[s].unl # "no" => s \in cancelled)
    BY <1>3 DEF Line, LineUnanswered
  <1>5. /\ \A t \in Urbs : t # s => urb'[t] = urb[t]
        /\ urb'[s].ret = IF s \in cancelled THEN "none" ELSE IF ok THEN "ok" ELSE "err"
        /\ urb'[s].kind = urb[s].kind /\ urb'[s].gen = urb[s].gen /\ urb'[s].unl = urb[s].unl
    BY <1>1, <1>3, <1>4, AnsweredOnce DEF TypeOK
  <1>6. Seqs(inEv') \subseteq Urbs /\ OnLine' \subseteq OnLine
    BY <1>1, <1>2, LineUrbs DEF OnLine
  <1>7. s \notin OnLine'
    <2>1. Below({s}, ToSet(iw.pending)) /\ Below({s}, Sent(inq))
      BY <1>2 DEF Line, LineOrdered, Below
    <2>2. Below({s}, OnLine')
      BY <1>1, <1>2, <2>1 DEF Below, OnLine
    <2> QED BY <1>3, <2>2, LineUrbs DEF Below
  <1>8. ~Answering /\ ~Answering' /\ ~Stopping' /\ \A t \in Urbs : ~Mine(t)
    BY <1>1 DEF Answering, Stopping, Mine
  <1>9. s < next
    BY <1>3, LineUrbs
  <1>10. Numbered'
    BY <1>1, <1>5, <1>9 DEF Numbered
  <1>11. Busy'
    BY <1>1, <1>8 DEF Busy, At
  <1>12. Tables'
    <2>1. s \notin bulkOut /\ s \notin bulkIn' /\ s \notin cancelled'
      BY <1>1, <1>4 DEF Tables
    <2>2. bulkIn \subseteq Urbs /\ bulkOut \subseteq Urbs /\ cancelled \subseteq Urbs
      BY DEF TypeOK
    <2>3. \A t \in bulkIn' \cup bulkOut' \cup cancelled' : urb'[t] = urb[t]
      BY <1>1, <1>5, <2>1, <2>2
    <2> QED BY <1>1, <2>3 DEF Tables, Current, Live
  <1>13. Tracked'
    <2>1. s \in cancelled => urb[s].unl # "no"
      BY DEF Tables
    <2>2. ~Live(s)'
      BY <1>5, <2>1 DEF Live
    <2> QED BY <1>1, <1>3, <1>5, <1>8, <2>2 DEF Tracked, At, Current, Live
  <1>14. Line'
    <2>1. Attended'
      <3>1. \A t \in Urbs : urb'[t].unl = urb[t].unl
        BY <1>5
      <3> QED BY <1>1, <1>8, <3>1, LineUrbs DEF Line, Attended
    <2>2. LineOrdered'
      BY <1>1, <1>2, <1>8 DEF Line, LineOrdered, Below
    <2>3. LineUnanswered'
      <3>1. \A t \in OnLine' : t \in OnLine /\ urb'[t] = urb[t] /\ (t \in cancelled => t \in cancelled')
        BY <1>1, <1>5, <1>6, <1>7, LineUrbs
      <3>2. ToSet(iw'.pending) \cup Sent(inq') \subseteq OnLine'
        BY DEF OnLine
      <3> QED BY <1>1, <3>1, <3>2 DEF Line, LineUnanswered, Current
    <2>4. Lined'
      <3>1. OnLine = OnLine' \cup {s}
        BY <1>1, <1>2 DEF OnLine
      <3>2. ~Live(s)'
        <4>1. s \in cancelled => urb[s].unl # "no"
          BY DEF Tables
        <4> QED BY <1>5, <4>1 DEF Live
      <3> QED BY <1>1, <1>3, <1>5, <1>8, <3>1, <3>2 DEF Line, Lined, Current, Live
    <2> QED BY <2>1, <2>2, <2>3, <2>4 DEF Line
  <1>15. Claims'
    <2>1. ResponsesExclusive'
      BY <1>1, <1>3, <1>4, <1>5 DEF Claims, ResponsesExclusive, Current
    <2>2. UnlinkTruthful'
      BY <1>1, <1>3, <1>5, <1>4 DEF Claims, UnlinkTruthful
    <2>3. ReadsInOrder'
      <3>1. ASSUME iw.pc # "gone", NEW t \in Urbs, t < s, Current(t), urb[t].kind = "in", Live(t)
            PROVE  FALSE
        <4>1. t \in OnLine
          BY <1>8, <3>1 DEF Line, Lined
        <4>2. t \in Seqs(inEv') \/ t = s \/ t \in ToSet(iw.pending) \/ t \in Sent(inq)
          BY <1>2, <4>1 DEF OnLine
        <4>3. t = s \/ s < t
          BY <1>2, <4>2 DEF Line, LineOrdered, Below
        <4> QED BY <1>3, <3>1, <4>3, LineUrbs
      <3>2. \A t \in Urbs : urb'[t].kind = urb[t].kind /\ urb'[t].gen = urb[t].gen
                            /\ urb'[t].unl = urb[t].unl
                            /\ (urb[t].ret # "none" => urb'[t].ret # "none")
        BY <1>4, <1>5
      <3>3. \A t \in Urbs : t # s => urb'[t].ret = urb[t].ret
        BY <1>5
      <3> QED BY <1>1, <1>3, <3>1, <3>2, <3>3
              DEF Claims, ReadsInOrder, Current, Live
    <2> QED BY <2>1, <2>2, <2>3 DEF Claims
  <1> QED BY <1>10, <1>11, <1>12, <1>13, <1>14, <1>15

(* The completion of a write is forwarded, unless it was unlinked or       *)
(* belongs to an earlier import.                                           *)
LEMMA InvOutEvent ==
  ASSUME PipelineInv, OutEvent
  PROVE  Books' /\ Line' /\ Claims'
  <1> USE DEF PipelineInv, Books
  <1>0. PICK s, ok : s = Head(outEv).seq /\ ok = Head(outEv).ok
    OBVIOUS
  <1>1. /\ h.pc = "select" /\ outEv # <<>>
        /\ bulkOut' = IF Current(s) THEN bulkOut \ {s} ELSE bulkOut
        /\ urb' = IF Current(s) /\ s \in bulkOut THEN Answered(s, ok) ELSE urb
        /\ UNCHANGED <<next, h, gen, imported, bulkIn, cancelled, inq, inEv, iw>>
    BY <1>0 DEF OutEvent, At, TypeOK, Current
  <1>2. ~Answering /\ ~Answering' /\ ~Stopping' /\ \A t \in Urbs : ~Mine(t)
    BY <1>1 DEF Answering, Stopping, Mine
  <1>3. s \in Urbs /\ ok \in BOOLEAN
    <2>1. Head(outEv) \in Events
      BY <1>1 DEF TypeOK
    <2> QED BY <1>0, <2>1 DEF Events
  <1>4. s \in bulkOut => urb[s].kind = "out" /\ Current(s) /\ Live(s)
    BY DEF Tables
  <1>5. /\ \A t \in Urbs : t # s => urb'[t] = urb[t]
        /\ urb'[s].kind = urb[s].kind /\ urb'[s].gen = urb[s].gen /\ urb'[s].unl = urb[s].unl
        /\ s \in bulkOut => urb'[s].ret \in {"ok", "err"}
        /\ s \notin bulkOut => urb' = urb
    BY <1>1, <1>3, <1>4, AnsweredOnce DEF TypeOK, Live
  <1>6. bulkOut' = bulkOut \ {s}
    BY <1>1, <1>4
  <1>7. CASE s \notin bulkOut
    <2>1. UNCHANGED <<next, urb, books, inq, inEv, h, iw>>
      BY <1>1, <1>5, <1>6, <1>7 DEF OutEvent, TypeOK, books
    <2> QED BY <2>1, InvElsewhere
  <1>8. CASE s \in bulkOut
    <2>1. urb[s].kind = "out" /\ Current(s) /\ urb[s].ret = "none" /\ urb[s].unl = "no"
          /\ urb'[s].ret \in {"ok", "err"}
      BY <1>4, <1>5, <1>8 DEF Live
    <2>2. s < next
      <3>1. Unsent.kind = "none"
        BY DEF Unsent
      <3> QED BY <1>3, <2>1, <3>1 DEF Numbered
    <2>3. Numbered'
      BY <1>1, <1>5, <2>2 DEF Numbered
    <2>4. Busy'
      BY <1>1, <1>2 DEF Busy, At
    <2>5. Tables'
      <3>1. s \notin bulkIn /\ s \notin cancelled
        BY <2>1 DEF Tables
      <3>2. \A t \in bulkIn' \cup bulkOut' \cup cancelled' : urb'[t] = urb[t]
        BY <1>1, <1>5, <1>6, <3>1 DEF TypeOK
      <3> QED BY <1>1, <1>6, <3>2 DEF Tables, Current, Live
    <2>6. Tracked'
      BY <1>1, <1>2, <1>5, <1>6, <2>1 DEF Tracked, At, Current, Live
    <2>7. Line'
      <3>1. \A t \in OnLine : t \in Urbs /\ urb'[t] = urb[t]
        BY <1>5, <2>1, LineUrbs DEF Line, LineUnanswered
      <3>2. \A t \in OnLine : urb[t].gen = gen /\ urb'[t].unl # "no" => t \in cancelled'
        BY <1>1, <3>1 DEF Line, LineUnanswered, Current
      <3>3. \A t \in Urbs : urb[t].unl # "no" => urb'[t].unl # "no"
        BY <1>5
      <3>4. \A t \in Urbs : Current(t)' /\ urb'[t].kind = "in" /\ Live(t)' =>
              Current(t) /\ urb[t].kind = "in" /\ Live(t) /\ ~Mine(t)
        BY <1>1, <1>2, <1>5, <2>1 DEF Current, Live
      <3> QED BY <1>1, <1>2, <3>1, <3>2, <3>3, <3>4, LineSteady
    <2>8. Claims'
      <3>1. ResponsesExclusive' /\ UnlinkTruthful'
        BY <1>1, <1>5, <2>1 DEF Claims, ResponsesExclusive, UnlinkTruthful
      <3>2. ReadsInOrder'
        BY <1>1, <1>5, <2>1 DEF Claims, ReadsInOrder
      <3> QED BY <3>1, <3>2 DEF Claims
    <2> QED BY <2>3, <2>4, <2>5, <2>6, <2>7, <2>8
  <1> QED BY <1>7, <1>8

(* The IN worker takes a command: a read comes to the end of its queue, or *)
(* an unlinked one leaves it.                                              *)
LEMMA InvTakes ==
  ASSUME PipelineInv, inq # <<>>, iw.pc # "gone", UNCHANGED <<handlerVars, inEv>>,
         inq' = Tail(inq), iw'.pending = Queued(iw.pending, Head(inq)),
         iw'.active = iw.active, iw'.pc # "gone",
         iw'.pc \in {"bsend", "bwait"} => iw'.pending # <<>>
  PROVE  Line'
  <1> USE DEF PipelineInv, handlerVars
  <1>0. PICK c : c = Head(inq)
    OBVIOUS
  <1>1. /\ c.arg \in Urbs /\ inq' \in Seq(Commands)
        /\ \/ c.cmd = "submit"
           \/ c.cmd = "unlink" /\ urb[c.arg].unl # "no"
        /\ Increasing(iw'.pending)
        /\ ToSet(iw'.pending) = IF c.cmd = "submit" THEN ToSet(iw.pending) \cup {c.arg}
                                ELSE ToSet(iw.pending) \ {c.arg}
    BY <1>0, TakenIn
  <1>2. /\ Sent(inq) = IF c.cmd = "submit" THEN Sent(inq') \cup {c.arg} ELSE Sent(inq')
        /\ SentInOrder(inq')
        /\ c.cmd = "submit" => Below({c.arg}, Sent(inq'))
    BY <1>0, CommandTaken DEF TypeOK, Line, LineOrdered
  <1>3. /\ OnLine' \subseteq OnLine
        /\ \A t \in OnLine : t \in OnLine' \/ urb[t].unl # "no"
        /\ ToSet(iw'.pending) \cup Sent(inq') \subseteq ToSet(iw.pending) \cup Sent(inq)
    BY <1>1, <1>2 DEF OnLine
  <1>4. Answering' = Answering /\ Stopping' = Stopping /\ \A s \in Urbs : Mine(s)' = Mine(s)
    BY DEF Answering, Stopping, Mine
  <1>5. Attended'
    <2>1. \A i \in 1 .. Len(inq') : i + 1 \in 1 .. Len(inq) /\ inq'[i] = inq[i + 1]
      BY DEF TypeOK
    <2> QED BY <1>4, <2>1 DEF Line, Attended
  <1>6. LineOrdered'
    <2>1. Below(Seqs(inEv), ToSet(iw'.pending)) /\ Below(Seqs(inEv), Sent(inq'))
      BY <1>3 DEF Line, LineOrdered, Below
    <2>2. Below(ToSet(iw'.pending), Sent(inq'))
      BY <1>1, <1>2 DEF Line, LineOrdered, Below
    <2>3. Answering' => Below(OnLine', {h.seq})
      BY <1>3, <1>4 DEF Line, LineOrdered, Below
    <2> QED BY <1>1, <1>2, <1>3, <2>1, <2>2, <2>3 DEF Line, LineOrdered
  <1>7. LineUnanswered'
    BY <1>3 DEF Line, LineUnanswered, Current
  <1>8. Lined'
    BY <1>3, <1>4 DEF Line, Lined, Current, Live
  <1> QED BY <1>5, <1>6, <1>7, <1>8 DEF Line

(* The first request of the queue is answered: it becomes an event.        *)
LEMMA InvAnswersRead ==
  ASSUME PipelineInv, iw.pc # "gone", iw'.pc # "gone", UNCHANGED <<handlerVars, inq>>,
         NEW s \in ToSet(iw.pending), NEW ok \in BOOLEAN,
         Below({s}, ToSet(iw'.pending)), Increasing(iw'.pending),
         ToSet(iw.pending) = ToSet(iw'.pending) \cup {s},
         inEv' = Append(inEv, [seq |-> s, ok |-> ok]), iw'.active = 0,
         iw'.pc \in {"bsend", "bwait"} => iw'.pending # <<>>
  PROVE  Line'
  <1> USE DEF PipelineInv, handlerVars
  <1>1. s \in OnLine /\ s \in Urbs
    BY LineUrbs DEF OnLine
  <1> DEFINE e == [seq |-> s, ok |-> ok]
  <1>2. e \in Events /\ e.seq = s
    BY <1>1 DEF Events
  <1> HIDE DEF e
  <1>3. Below(Seqs(inEv), {s})
    BY DEF Line, LineOrdered, Below
  <1>4. SeqsInOrder(inEv') /\ Seqs(inEv') = Seqs(inEv) \cup {s}
    BY <1>2, <1>3, EventSent DEF e, TypeOK, Line, LineOrdered
  <1>5. OnLine' = OnLine
    BY <1>4 DEF OnLine
  <1>6. Answering' = Answering /\ Stopping' = Stopping /\ \A t \in Urbs : Mine(t)' = Mine(t)
    BY DEF Answering, Stopping, Mine
  <1>7. Attended'
    BY <1>6 DEF Line, Attended
  <1>8. LineOrdered'
    <2>1. Below(Seqs(inEv'), ToSet(iw'.pending)) /\ Below(Seqs(inEv'), Sent(inq))
      BY <1>4 DEF Line, LineOrdered, Below
    <2>2. Below(ToSet(iw'.pending), Sent(inq))
      BY DEF Line, LineOrdered, Below
    <2> QED BY <1>4, <1>5, <1>6, <2>1, <2>2, LineUrbs DEF Line, LineOrdered
  <1>9. LineUnanswered'
    BY <1>5 DEF Line, LineUnanswered, Current
  <1>10. Lined'
    BY <1>5, <1>6 DEF Line, Lined, Current, Live
  <1> QED BY <1>7, <1>8, <1>9, <1>10 DEF Line

(* The IN worker goes on with the same requests.                           *)
LEMMA InvGoesOn ==
  ASSUME PipelineInv, iw.pc # "gone", iw'.pc # "gone", UNCHANGED <<handlerVars, inq, inEv>>,
         Increasing(iw'.pending), ToSet(iw'.pending) = ToSet(iw.pending),
         iw'.pc \in {"bsend", "bwait"} => iw'.pending # <<>>,
         iw'.active < next,
         iw'.active # 0 => \A s \in ToSet(iw.pending) \cup Sent(inq) : iw'.active <= s
  PROVE  Line'
  <1> USE DEF PipelineInv, handlerVars
  <1>1. OnLine' = OnLine
    BY DEF OnLine
  <1>2. Answering' = Answering /\ Stopping' = Stopping /\ \A t \in Urbs : Mine(t)' = Mine(t)
    BY DEF Answering, Stopping, Mine
  <1>3. Attended'
    BY <1>2 DEF Line, Attended
  <1>4. LineOrdered'
    BY <1>1, <1>2 DEF Line, LineOrdered
  <1>5. LineUnanswered'
    BY <1>1 DEF Line, LineUnanswered, Current
  <1>6. Lined'
    BY <1>1, <1>2 DEF Line, Lined, Current, Live
  <1> QED BY <1>3, <1>4, <1>5, <1>6 DEF Line

(* The IN worker ends before it has begun: the requests that were sent to  *)
(* it are on the line no more.                                             *)
LEMMA InvNeverOpens ==
  ASSUME PipelineInv, UNCHANGED <<handlerVars, inEv>>, iw' = NoInWorker, inq' = <<>>
  PROVE  Line'
  <1> USE DEF PipelineInv, handlerVars
  <1>1. iw'.pc = "gone" /\ iw'.pending = <<>> /\ iw'.active = 0
    BY RestingStates
  <1>2. ToSet(iw'.pending) = {} /\ Sent(inq') = {} /\ OnLine' \subseteq OnLine
    BY <1>1, EmptyQueue DEF OnLine
  <1>3. Answering' = Answering
    BY DEF Answering
  <1>4. Attended'
    BY <1>1 DEF Attended
  <1>5. LineOrdered'
    BY <1>1, <1>2, <1>3, EmptyQueue, LineUrbs DEF Line, LineOrdered, Below
  <1>6. LineUnanswered'
    BY <1>2 DEF Line, LineUnanswered, Current
  <1>7. Lined'
    BY <1>1 DEF Lined
  <1> QED BY <1>4, <1>5, <1>6, <1>7 DEF Line

(* run_bulk_in_worker.                                                     *)
LEMMA InvInWorker ==
  ASSUME PipelineInv, InWorkerStep \/ InComplete
  PROVE  Books' /\ Line' /\ Claims'
  <1> USE DEF PipelineInv, InOnly, handlerVars
  <1>1. iw \in InWorker /\ iw.pending \in Seq(Urbs) /\ Increasing(iw.pending)
        /\ (iw.pc = "read" <=> iw.active # 0)
        /\ inq \in Seq(Commands) /\ iw.active < next
    BY DEF TypeOK, InWorker, Line, LineOrdered
  <1>2. iw.pc # "gone" /\ UNCHANGED handlerVars
    BY DEF InWorkerStep, InOpen, InCommand, InBarrierSend, InBarrierDone, InDrain, InSubmit,
           InComplete
  <1>3. Books'
    BY <1>2 DEF handlerVars, Books, Numbered, Busy, Tables, Tracked, Answering, Mine, At,
                Current, Live
  <1>4. Claims'
    BY <1>2 DEF handlerVars, Claims, ResponsesExclusive, UnlinkTruthful, ReadsInOrder
  <1> SUFFICES Line'
    BY <1>3, <1>4
  <1>5. CASE InOpen
    <2>1. \/ iw' = LoopTop(iw) /\ inq' = inq
          \/ iw' = NoInWorker /\ inq' = <<>>
      BY <1>5, Zenon DEF InOpen
    <2>2. UNCHANGED inEv
      BY <1>5 DEF InOpen
    <2>3. CASE iw' = LoopTop(iw) /\ inq' = inq
      BY <1>1, <1>2, <2>2, <2>3, LoopTopIs, InvGoesOn DEF Line, LineOrdered
    <2>4. CASE iw' = NoInWorker /\ inq' = <<>>
      BY <1>2, <2>2, <2>4, InvNeverOpens
    <2> QED BY <2>1, <2>3, <2>4
  <1>6. CASE InCommand
    <2>1. inq # <<>> /\ inq' = Tail(inq) /\ UNCHANGED inEv
          /\ iw' = LoopTop([iw EXCEPT !.pending = Queued(@, Head(inq))])
      BY <1>6 DEF InCommand
    <2>2. PICK w : w = [iw EXCEPT !.pending = Queued(@, Head(inq))]
      OBVIOUS
    <2>3. Queued(iw.pending, Head(inq)) \in Seq(Urbs)
      BY <2>1, TakenIn
    <2>4. w \in InWorker /\ w.pending = Queued(iw.pending, Head(inq)) /\ w.active = iw.active
      BY <1>1, <2>2, <2>3 DEF InWorker
    <2> QED BY <1>2, <2>1, <2>2, <2>4, LoopTopIs, InvTakes
  <1>7. CASE InBarrierSend
    <2>1. /\ UNCHANGED <<inq, inEv>> /\ iw.pc = "bsend"
          /\ iw' = [iw EXCEPT !.pc = "bwait"]
      BY <1>7 DEF InBarrierSend
    <2>2. iw'.pc = "bwait" /\ iw'.pending = iw.pending /\ iw'.active = iw.active
      BY <1>1, <2>1 DEF InWorker
    <2> QED BY <1>1, <1>2, <2>1, <2>2, InvGoesOn DEF Line, Attended, LineOrdered
  <1>8. CASE InBarrierDone
    <2>1. /\ UNCHANGED <<inq, inEv>>
          /\ iw'.pc = "drain" /\ iw'.pending = iw.pending /\ iw'.active = iw.active
      BY <1>1, <1>8 DEF InBarrierDone, InWorker
    <2> QED BY <1>1, <1>2, <2>1, InvGoesOn DEF Line, LineOrdered
  <1>9. CASE InDrain
    <2>1. /\ inq # <<>> /\ inq' = Tail(inq) /\ UNCHANGED inEv /\ iw.pc = "drain"
          /\ iw' = [iw EXCEPT !.pending = Queued(@, Head(inq))]
      BY <1>9 DEF InDrain
    <2>2. /\ iw'.pending = Queued(iw.pending, Head(inq)) /\ iw'.active = iw.active
          /\ iw'.pc = "drain"
      BY <1>1, <2>1 DEF InWorker
    <2> QED BY <1>2, <2>1, <2>2, InvTakes
  <1>10. CASE InSubmit
    <2>2. iw.pc = "drain" /\ iw.active = 0 /\ UNCHANGED inq
      BY <1>1, <1>10 DEF InSubmit
    <2>3. \/ iw' = LoopTop(iw) /\ UNCHANGED inEv
          \/ /\ iw.pending # <<>> /\ Head(iw.pending) = iw.seq
             /\ iw' = LoopTop([iw EXCEPT !.pending = Tail(@)])
             /\ inEv' = Append(inEv, [seq |-> iw.seq, ok |-> FALSE])
          \/ /\ iw.pending # <<>> /\ Head(iw.pending) = iw.seq
             /\ iw' = LoopTop([iw EXCEPT !.active = iw.seq]) /\ UNCHANGED inEv
      BY <1>10, Zenon DEF InSubmit
    <2>4. CASE iw' = LoopTop(iw) /\ UNCHANGED inEv
      BY <1>1, <1>2, <2>2, <2>4, LoopTopIs, InvGoesOn DEF Line, LineOrdered
    <2>5. ASSUME iw.pending # <<>>, Head(iw.pending) = iw.seq
          PROVE  /\ Tail(iw.pending) \in Seq(Urbs) /\ Increasing(Tail(iw.pending))
                 /\ iw.seq \in Urbs /\ iw.seq \in ToSet(iw.pending)
                 /\ ToSet(iw.pending) = ToSet(Tail(iw.pending)) \cup {iw.seq}
                 /\ Below({iw.seq}, ToSet(Tail(iw.pending)))
      BY <1>1, <2>5, Dequeued
    <2>6. CASE /\ iw.pending # <<>> /\ Head(iw.pending) = iw.seq
               /\ iw' = LoopTop([iw EXCEPT !.pending = Tail(@)])
               /\ inEv' = Append(inEv, [seq |-> iw.seq, ok |-> FALSE])
      <3>1. PICK w : w = [iw EXCEPT !.pending = Tail(@)]
        OBVIOUS
      <3>2. w \in InWorker /\ w.pending = Tail(iw.pending) /\ w.active = 0
        BY <1>1, <2>2, <2>5, <2>6, <3>1 DEF InWorker
      <3>3. /\ iw'.pending = Tail(iw.pending) /\ iw'.active = 0 /\ iw'.pc # "gone"
            /\ iw'.pc \in {"bsend", "bwait"} => iw'.pending # <<>>
        BY <2>6, <3>1, <3>2, LoopTopIs
      <3> QED BY <1>2, <2>2, <2>5, <2>6, <3>3, InvAnswersRead
    <2>7. CASE /\ iw.pending # <<>> /\ Head(iw.pending) = iw.seq
               /\ iw' = LoopTop([iw EXCEPT !.active = iw.seq]) /\ UNCHANGED inEv
      <3>1. PICK w : w = [iw EXCEPT !.active = iw.seq]
        OBVIOUS
      <3>2. w \in InWorker /\ w.pending = iw.pending /\ w.active = iw.seq
        BY <1>1, <3>1 DEF InWorker
      <3>3. /\ iw'.pending = iw.pending /\ iw'.active = iw.seq /\ iw'.pc # "gone"
            /\ iw'.pc \in {"bsend", "bwait"} => iw'.pending # <<>>
        BY <2>7, <3>1, <3>2, LoopTopIs
      <3>4. /\ iw.seq < next
            /\ \A s \in ToSet(iw.pending) \cup Sent(inq) : iw.seq <= s
        BY <2>5, <2>7, LineUrbs DEF OnLine, Line, LineOrdered, Below
      <3> QED BY <1>1, <1>2, <2>2, <2>7, <3>3, <3>4, InvGoesOn
    <2> QED BY <2>3, <2>4, <2>6, <2>7
  <1>11. CASE InComplete
    <2>1. /\ iw.pc = "read" /\ UNCHANGED inq
          /\ iw' = LoopTop([iw EXCEPT !.active = 0, !.pending = RemoveFirst(@, iw.active)])
          /\ \/ /\ Contains(iw.pending, iw.active)
                /\ \E ok \in BOOLEAN : inEv' = Append(inEv, [seq |-> iw.active, ok |-> ok])
             \/ ~Contains(iw.pending, iw.active) /\ UNCHANGED inEv
      BY <1>11 DEF InComplete
    <2>2. PICK p : p = RemoveFirst(iw.pending, iw.active)
      OBVIOUS
    <2>3. p \in Seq(Urbs) /\ Increasing(p) /\ ToSet(p) = ToSet(iw.pending) \ {iw.active}
      BY <1>1, <2>2, Withdrawn
    <2>4. PICK w : w = [iw EXCEPT !.active = 0, !.pending = p]
      OBVIOUS
    <2>5. w \in InWorker /\ w.pending = p /\ w.active = 0
      <3>1. 0 \in 0 .. MaxUrbs
        BY PipelineAssumption
      <3> QED BY <1>1, <2>3, <2>4, <3>1 DEF InWorker
    <2>6. /\ iw'.pending = p /\ iw'.active = 0 /\ iw'.pc # "gone"
          /\ iw'.pc \in {"bsend", "bwait"} => iw'.pending # <<>>
      BY <2>1, <2>2, <2>4, <2>5, LoopTopIs, ZenonT(30)
    <2>7. Contains(iw.pending, iw.active) <=> iw.active \in ToSet(iw.pending)
      <3>1. DOMAIN iw.pending = 1 .. Len(iw.pending)
        BY <1>1
      <3> QED BY <3>1 DEF Contains, ToSet
    <2>8. CASE iw.active \in ToSet(iw.pending)
      <3>1. PICK ok \in BOOLEAN : inEv' = Append(inEv, [seq |-> iw.active, ok |-> ok])
        BY <2>1, <2>7, <2>8
      <3>2. Below({iw.active}, ToSet(p))
        BY <1>1, <2>1, <2>3, LineUrbs DEF Below, Line, LineOrdered, OnLine
      <3>3. ToSet(iw.pending) = ToSet(p) \cup {iw.active}
        BY <2>3, <2>8
      <3> QED BY <1>2, <2>1, <2>3, <2>6, <2>8, <3>1, <3>2, <3>3, InvAnswersRead
    <2>9. CASE iw.active \notin ToSet(iw.pending)
      <3>1. ToSet(p) = ToSet(iw.pending) /\ UNCHANGED inEv /\ 0 < next
        BY <2>1, <2>3, <2>7, <2>9, LineUrbs
      <3> QED BY <1>2, <2>1, <2>3, <2>6, <3>1, InvGoesOn
    <2> QED BY <2>8, <2>9
  <1> QED BY <1>5, <1>6, <1>7, <1>8, <1>9, <1>10, <1>11 DEF InWorkerStep

----------------------------------------------------------------------------
(* The theorems.                                                           *)

(* Every step keeps the invariant.                                         *)
LEMMA InvNext ==
  ASSUME PipelineInv, [Next]_vars
  PROVE  PipelineInv'
  <1>1. TypeOK'
    BY TypeNext
  <1>2. SUFFICES Books' /\ Line' /\ Claims'
    BY <1>1 DEF PipelineInv
  <1>3. CASE Peer
    BY <1>3, InvReadSubmit, InvReadUnlink, InvReadStop, InvStops DEF Peer
  <1>4. CASE HandlerStep
    BY <1>4, InvServes, InvStops DEF HandlerStep
  <1>5. CASE InEvent \/ OutEvent
    BY <1>5, InvInEvent, InvOutEvent
  <1>6. CASE StopTimeout
    BY <1>6, InvStops
  <1>7. CASE InWorkerStep \/ InComplete
    BY <1>7, InvInWorker
  <1>8. CASE OutWorkerStep
    <2>1. TypeOK
      BY DEF PipelineInv
    <2> QED BY <1>8, <2>1, OutWorkerFrame, InvElsewhere DEF OutOnly
  <1>9. CASE UNCHANGED vars
    BY <1>9, InvElsewhere DEF vars, handlerVars, books
  <1> QED BY <1>3, <1>4, <1>5, <1>6, <1>7, <1>8, <1>9 DEF Next

(* The invariant holds of every state of the pipeline.                     *)
THEOREM PipelineInvariant == Spec => []PipelineInv
  <1> QED BY InitInv, InvNext, PTL DEF Spec

(* Channels never exceed their capacity, the tables of OUT requests agree, *)
(* and a read is in flight exactly when the IN worker waits for one.       *)
THEOREM TypeCorrect == Spec => []TypeOK
  <1>1. PipelineInv => TypeOK
    BY DEF PipelineInv
  <1> QED BY <1>1, PipelineInvariant, PTL

(* No URB is answered twice, and none that the client was told is taken    *)
(* back, whatever races with whatever (mod.rs:1413-1452, 357-411).         *)
THEOREM ResponsesAreExclusive == Spec => []ResponsesExclusive
  <1>1. PipelineInv => ResponsesExclusive
    BY DEF PipelineInv, Claims
  <1> QED BY <1>1, PipelineInvariant, PTL

(* An unlink that finds nothing to take back comes after the answer        *)
(* (mod.rs:1417-1431).                                                     *)
THEOREM UnlinksAreTruthful == Spec => []UnlinkTruthful
  <1>1. PipelineInv => UnlinkTruthful
    BY DEF PipelineInv, Claims
  <1> QED BY <1>1, PipelineInvariant, PTL

(* Reads are answered in the order they were submitted in (mod.rs:265-425).*)
THEOREM ReadsAreInOrder == Spec => []ReadsInOrder
  <1>1. PipelineInv => ReadsInOrder
    BY DEF PipelineInv, Claims
  <1> QED BY <1>1, PipelineInvariant, PTL

(* What a step does to the client's view: nothing, a submission, an unlink *)
(* or one answer, for a URB that has none; an answer to an OUT URB or to a *)
(* control transfer belongs to the import of the moment.                   *)
LEMMA UrbSteps ==
  ASSUME PipelineInv, [Next]_vars
  PROVE  \/ UNCHANGED <<urb, next>>
         \/ \E kind \in Kinds : ReadSubmit(kind)
         \/ \E t \in Urbs : ReadUnlink(t)
         \/ /\ UNCHANGED next
            /\ \E s \in Urbs, ok \in BOOLEAN :
                 /\ s < next /\ urb[s].ret = "none" /\ urb' = Answered(s, ok)
                 /\ urb[s].kind # "ignored" /\ (urb[s].kind = "in" \/ Current(s))
                 /\ urb[s].kind = "ctl" /\ ok => SyncSubmit /\ s = h.seq
  <1> USE DEF PipelineInv, Books
  <1>1. CASE ControlBarrierDone \/ SyncSubmit
    <2>1. /\ h.seq \in Urbs /\ h.seq + 1 = next /\ urb[h.seq].kind # "ignored"
          /\ Current(h.seq) /\ urb[h.seq].ret = "none"
      BY <1>1, PipelineAssumption
         DEF ControlBarrierDone, SyncSubmit, At, Busy, Answering, Live
    <2>2. h.seq < next
      BY <2>1, LineUrbs
    <2>3. \/ UNCHANGED <<urb, next>>
          \/ UNCHANGED next /\ urb' = Answered(h.seq, FALSE)
          \/ UNCHANGED next /\ SyncSubmit /\ \E ok \in BOOLEAN : urb' = Answered(h.seq, ok)
      BY <1>1, Zenon DEF ControlBarrierDone, SyncSubmit
    <2> QED BY <2>1, <2>2, <2>3
  <1>2. CASE InEvent
    <2>1. PICK s, ok : s = Head(inEv).seq /\ ok = Head(inEv).ok
      OBVIOUS
    <2>2. inEv # <<>> /\ SeqsInOrder(inEv) /\ inEv \in Seq(Events) /\ UNCHANGED next
          /\ (urb' = urb \/ urb' = Answered(s, ok))
      BY <1>2, <2>1 DEF InEvent, TypeOK, Line, LineOrdered
    <2>3. Head(inEv) \in Events /\ s \in OnLine
      BY <2>1, <2>2, EventTaken DEF OnLine
    <2>4. /\ s \in Urbs /\ ok \in BOOLEAN /\ s < next
          /\ urb[s].kind = "in" /\ urb[s].ret = "none"
      BY <2>1, <2>3, LineUrbs DEF Events, Line, LineUnanswered
    <2> QED BY <2>2, <2>4
  <1>3. CASE OutEvent
    <2>1. PICK t, ok : t = Head(outEv).seq /\ ok = Head(outEv).ok
      OBVIOUS
    <2>2. outEv # <<>> /\ UNCHANGED next
          /\ (urb' = urb \/ (t \in bulkOut /\ urb' = Answered(t, ok)))
      BY <1>3, <2>1 DEF OutEvent, TypeOK
    <2>3. t \in Urbs /\ ok \in BOOLEAN
      <3>1. Head(outEv) \in Events
        BY <2>2 DEF TypeOK
      <3> QED BY <2>1, <3>1 DEF Events
    <2>4. t \in bulkOut => Current(t) /\ urb[t].ret = "none" /\ urb[t].kind = "out" /\ t < next
      <3>1. Unsent.kind = "none"
        BY DEF Unsent
      <3> QED BY <2>3, <3>1 DEF Tables, Live, Numbered
    <2> QED BY <2>2, <2>3, <2>4
  <1> QED BY <1>1, <1>2, <1>3
          DEF Next, vars, Peer, ReadStop, WriteFails, Closing, HandlerStep, SendIn, SendOut,
              ControlBarrier, SendUnlink, StopSend, StopDone, Import, Close, StopTimeout,
              InWorkerStep, InOpen, InCommand, InBarrierSend, InBarrierDone, InDrain, InSubmit,
              InComplete, InOnly, handlerVars,
              OutWorkerStep, OutSubmit, OutFlush, OutShutdown, OutUnlink, OutIdleFlush, OutOnly

(* The client's history is not rewritten: a URB that was submitted keeps   *)
(* its kind, its import and its answer.                                    *)
LEMMA History ==
  ASSUME PipelineInv, [Next]_vars
  PROVE  /\ next \in Nat /\ next' \in {next, next + 1}
         /\ \A s \in Urbs : s < next =>
              /\ urb'[s].kind = urb[s].kind /\ urb'[s].gen = urb[s].gen
              /\ urb[s].ret # "none" => urb'[s].ret = urb[s].ret
              /\ urb[s].unl # "no" => urb'[s].unl = urb[s].unl
         /\ \A s \in Urbs : ~(s < next) => urb'[s] = Unsent \/ \E kind \in Kinds : ReadSubmit(kind)
  <1> USE DEF PipelineInv, Books
  <1>1. urb \in [Urbs -> UrbState] /\ next \in Nat /\ Urbs \subseteq Nat
    BY LineUrbs DEF TypeOK
  <1>2. \A s \in Urbs : ~(s < next) => urb[s] = Unsent
    BY DEF Numbered
  <1>3. CASE UNCHANGED <<urb, next>>
    BY <1>1, <1>2, <1>3
  <1>4. CASE \E kind \in Kinds : ReadSubmit(kind)
    <2>1. next' = next + 1 /\ \A t \in Urbs : t # next => urb'[t] = urb[t]
      BY <1>1, <1>4 DEF ReadSubmit
    <2> QED BY <1>1, <1>4, <2>1
  <1>5. CASE \E t \in Urbs : ReadUnlink(t)
    <2>1. PICK t \in Urbs : ReadUnlink(t)
      BY <1>5
    <2>2. PICK u \in {"reset", "late"} : urb' = [urb EXCEPT ![t].unl = u]
      BY <2>1, Zenon DEF ReadUnlink
    <2>3. t < next /\ urb[t].unl = "no" /\ UNCHANGED next
      BY <2>1 DEF ReadUnlink
    <2> QED BY <1>1, <1>2, <2>2, <2>3, UnlinkedOnce
  <1>6. CASE UNCHANGED next /\ \E s \in Urbs, ok \in BOOLEAN :
               s < next /\ urb[s].ret = "none" /\ urb' = Answered(s, ok)
    BY <1>1, <1>2, <1>6, AnsweredOnce
  <1> QED BY <1>3, <1>4, <1>5, <1>6, UrbSteps

(* A step answers an OUT URB only within the import it belongs to.         *)
LEMMA AnswersAreCurrent ==
  ASSUME PipelineInv, [Next]_vars,
         NEW s \in Urbs, urb[s].kind = "out", urb'[s].ret # urb[s].ret
  PROVE  urb[s].gen = gen
  <1>1. urb \in [Urbs -> UrbState]
    BY DEF PipelineInv, TypeOK
  <1>2. CASE \E kind \in Kinds : ReadSubmit(kind)
    <2>1. next \in Urbs /\ \A t \in Urbs : t # next => urb'[t] = urb[t]
      BY <1>1, <1>2 DEF ReadSubmit
    <2>2. urb[next] = Unsent
      BY <2>1, LineUrbs DEF PipelineInv, Books, Numbered
    <2> QED BY <2>1, <2>2 DEF Unsent
  <1>3. CASE \E t \in Urbs : ReadUnlink(t)
    <2>1. PICK t \in Urbs : ReadUnlink(t)
      BY <1>3
    <2>2. PICK u \in {"reset", "late"} : urb' = [urb EXCEPT ![t].unl = u]
      BY <2>1, Zenon DEF ReadUnlink
    <2> QED BY <1>1, <2>2, UnlinkedOnce
  <1>4. CASE \E t \in Urbs, ok \in BOOLEAN :
               /\ urb[t].ret = "none" /\ urb' = Answered(t, ok)
               /\ urb[t].kind = "in" \/ Current(t)
    BY <1>1, <1>4, AnsweredOnce DEF Current
  <1> QED BY <1>2, <1>3, <1>4, UrbSteps

(* A completion that comes from an earlier import is not written in this   *)
(* one (mod.rs:1445-1451).                                                 *)
THEOREM NoStaleResponse == Spec => NoStaleOutResponse
  <1>1. PipelineInv /\ [Next]_vars =>
          [\A s \in Urbs :
             urb[s].kind = "out" /\ urb'[s].ret # urb[s].ret => urb[s].gen = gen]_vars
    BY AnswersAreCurrent
  <1> QED BY <1>1, PipelineInvariant, PTL DEF Spec, NoStaleOutResponse

----------------------------------------------------------------------------
(* The contract about URBs, within one import.                             *)

(* Status(s), of what the client knows of a URB and of its session.        *)
StatusOf(u, over) ==
  CASE u.kind = "none" -> "new"
    [] u.kind = "ignored" -> "ended"
    [] u.kind \in Kinds /\ u.ret # "none" -> "answered"
    [] u.kind \in Kinds /\ u.ret = "none" /\ u.unl = "reset" -> "cancelled"
    [] OTHER -> IF over THEN "ended" ELSE "open"

Over(s) == h.pc = "closed" \/ urb[s].gen # gen

Statuses == [s \in Urbs |-> Status(s)]

(* Only with a device imported are URBs taken in.                          *)
Imported ==
  /\ imported => 0 < gen
  /\ \A s \in Urbs : urb[s].kind \in Kinds => 0 < urb[s].gen

(* Status is a function of these two, before a step and after it.          *)
LEMMA StatusIs ==
  /\ \A s \in Urbs : Statuses[s] = StatusOf(urb[s], Over(s))
  /\ \A s \in Urbs : Statuses'[s] = StatusOf(urb'[s], Over(s)')
  BY Zenon DEF Statuses, Status, StatusOf, Over

(* What each status says of a URB.                                         *)
LEMMA StatusCases ==
  ASSUME NEW u \in UrbState, NEW over
  PROVE  /\ StatusOf(u, over) = "new" <=> u.kind = "none"
         /\ u.kind = "ignored" => StatusOf(u, over) = "ended"
         /\ u.kind \in Kinds /\ u.ret # "none" => StatusOf(u, over) = "answered"
         /\ u.kind \in Kinds /\ u.ret = "none" /\ u.unl = "reset" =>
              StatusOf(u, over) = "cancelled"
         /\ u.kind \in Kinds /\ u.ret = "none" /\ u.unl # "reset" =>
              StatusOf(u, over) = IF over THEN "ended" ELSE "open"
  <1>1. u.kind \in Kinds \cup {"none", "ignored"} /\ "none" \notin Kinds /\ "ignored" \notin Kinds
    BY PipelineAssumption DEF UrbState
  <1> QED BY <1>1 DEF StatusOf

(* A step that changes what the client knows leaves the session as it is;  *)
(* any other leaves it as well, or ends it, or is an import.               *)

(* A session that has ended stays so.  What the client knows changes only  *)
(* while the session lasts and apart from imports.                         *)
LEMMA SessionSteps ==
  ASSUME PipelineInv, [Next]_vars
  PROVE  /\ Import \/ UNCHANGED <<gen, imported>>
         /\ h.pc = "closed" => h'.pc = "closed"
         /\ urb' # urb => h.pc # "closed" /\ h'.pc # "closed" /\ UNCHANGED gen
  <1>1. h \in HandlerState /\ Selecting.pc = "select"
    BY RestingStates DEF PipelineInv, TypeOK
  <1>2. CASE \E kind \in Kinds : ReadSubmit(kind)
    <2>1. PICK kind \in Kinds : ReadSubmit(kind)
      BY <1>2
    <2>2. Route(kind) # "closed"
      BY PipelineAssumption DEF Route
    <2> QED BY <1>1, <2>1, <2>2 DEF ReadSubmit, At, HandlerState, books
  <1>3. CASE \E t \in Urbs : ReadUnlink(t)
    BY <1>1, <1>3 DEF ReadUnlink, At, HandlerState
  <1>4. CASE InEvent \/ OutEvent
    BY <1>4 DEF InEvent, OutEvent, At
  <1>5. CASE ControlBarrierDone \/ SyncSubmit
    BY <1>1, <1>5 DEF ControlBarrierDone, SyncSubmit, At, HandlerState, books
  <1>6. CASE OutWorkerStep
    BY <1>6, OutWorkerFrame DEF PipelineInv, OutOnly, books
  <1>7. CASE Import
    BY <1>1, <1>7 DEF Import, At
  <1>8. CASE \/ SendIn \/ SendOut \/ ControlBarrier \/ SendUnlink \/ StopSend \/ StopDone
             \/ StopTimeout \/ Close \/ WriteFails
             \/ \E then \in {"import", "close"} : ReadStop(then)
    BY <1>1, <1>8 DEF SendIn, SendOut, ControlBarrier, SendUnlink, StopSend, StopDone,
         StopTimeout, Close, WriteFails, Closing, ReadStop, At, books
  <1>9. CASE InWorkerStep \/ InComplete \/ UNCHANGED vars
    BY <1>9 DEF InWorkerStep, InOpen, InCommand, InBarrierSend, InBarrierDone, InDrain,
         InSubmit, InComplete, InOnly, vars, handlerVars, books
  <1> QED BY <1>2, <1>3, <1>4, <1>5, <1>6, <1>7, <1>8, <1>9 DEF Next, Peer, HandlerStep

(* No device is imported at first.                                         *)
LEMMA InitImported == Init => Imported
  <1>1. \A u \in {Unsent} : u.kind = "none"
    BY DEF Unsent
  <1> QED BY <1>1, PipelineAssumption DEF Init, Imported

LEMMA ImportedNext ==
  ASSUME PipelineInv, Imported, [Next]_vars
  PROVE  Imported'
  <1>1. gen \in Nat /\ urb \in [Urbs -> UrbState]
    BY PipelineAssumption DEF PipelineInv, TypeOK
  <1>2. gen' \in Nat /\ (imported' => 0 < gen')
    BY <1>1, SessionSteps DEF Imported, Import
  <1>3. ASSUME NEW s \in Urbs, urb'[s].kind \in Kinds PROVE 0 < urb'[s].gen
    <2>1. CASE s < next
      BY <1>3, <2>1, History DEF Imported
    <2>2. CASE ~(s < next) /\ urb'[s] = Unsent
      BY <1>3, <2>2, PipelineAssumption DEF Unsent
    <2>3. CASE ~(s < next) /\ \E kind \in Kinds : ReadSubmit(kind)
      <3>0. PICK kind \in Kinds : ReadSubmit(kind)
        BY <2>3
      <3>1. PICK k : k = (IF imported THEN kind ELSE "ignored")
        OBVIOUS
      <3>2. next \in Urbs /\ urb' = [urb EXCEPT ![next] = [Unsent EXCEPT !.kind = k, !.gen = gen]]
        BY <3>0, <3>1 DEF ReadSubmit
      <3>3. urb[s] = Unsent
        BY <2>3 DEF PipelineInv, Books, Numbered
      <3>4. s = next
        BY <1>1, <1>3, <3>2, <3>3, PipelineAssumption DEF Unsent
      <3>5. urb'[s].kind = k /\ urb'[s].gen = gen
        BY <1>1, <3>2, <3>4 DEF Unsent
      <3> QED BY <1>3, <3>1, <3>5, PipelineAssumption DEF Imported
    <2> QED BY <2>1, <2>2, <2>3, History
  <1> QED BY <1>2, <1>3 DEF Imported

(* Within one import every URB that was taken in belongs to it, so that    *)
(* its status depends on the session and on what the client knows.         *)
LEMMA OneImport ==
  ASSUME MaxImports <= 1, PipelineInv, Imported
  PROVE  /\ \A s \in Urbs : urb[s] \in UrbState
         /\ \A s \in Urbs : urb[s].kind \in Kinds => (Over(s) <=> h.pc = "closed")
  <1>1. gen \in Nat /\ gen <= MaxImports /\ \A s \in Urbs : urb[s] \in UrbState
    BY PipelineAssumption DEF PipelineInv, TypeOK
  <1>2. \A s \in Urbs : urb[s].gen \in Nat
    BY <1>1, PipelineAssumption DEF UrbState
  <1>3. \A s \in Urbs : urb[s].kind \in Kinds => urb[s].gen = gen
    BY <1>1, <1>2, PipelineAssumption DEF Imported, PipelineInv, Books, Numbered
  <1> QED BY <1>1, <1>3 DEF Over

(* The same after a step.                                                  *)
LEMMA OneImportNext ==
  ASSUME MaxImports <= 1, PipelineInv', Imported'
  PROVE  /\ \A s \in Urbs : urb'[s] \in UrbState
         /\ \A s \in Urbs : urb'[s].kind \in Kinds => (Over(s)' <=> h'.pc = "closed")
  <1>1. gen' \in Nat /\ gen' <= MaxImports /\ \A s \in Urbs : urb'[s] \in UrbState
    BY PipelineAssumption DEF PipelineInv, TypeOK
  <1>2. \A s \in Urbs : urb'[s].gen \in Nat
    BY <1>1, PipelineAssumption DEF UrbState
  <1>3. \A s \in Urbs : urb'[s].kind \in Kinds => urb'[s].gen = gen'
    BY <1>1, <1>2, PipelineAssumption DEF Imported, PipelineInv, Books, Numbered
  <1> QED BY <1>1, <1>3 DEF Over

(* A URB about which nothing changed keeps its status while the session    *)
(* lasts, and an open one ends with it.                                    *)
LEMMA StatusKept ==
  ASSUME MaxImports <= 1, PipelineInv, Imported, PipelineInv', Imported',
         NEW s \in Urbs, urb'[s] = urb[s]
  PROVE  /\ (h'.pc = "closed" <=> h.pc = "closed") => Statuses'[s] = Statuses[s]
         /\ h.pc # "closed" /\ h'.pc = "closed" =>
              Statuses'[s] = IF Statuses[s] = "open" THEN "ended" ELSE Statuses[s]
  <1>1. urb[s] \in UrbState
    BY OneImport
  <1>2. Statuses[s] = StatusOf(urb[s], Over(s)) /\ Statuses'[s] = StatusOf(urb[s], Over(s)')
    BY StatusIs
  <1>3. urb[s].kind \in Kinds =>
          (Over(s) <=> h.pc = "closed") /\ (Over(s)' <=> h'.pc = "closed")
    BY OneImport, OneImportNext
  <1>4. urb[s].kind \in Kinds \cup {"none", "ignored"}
    BY <1>1 DEF UrbState
  <1> QED BY <1>1, <1>2, <1>3, <1>4, PipelineAssumption DEF StatusOf

(* When one URB at most changed, one status at most does.                  *)
LEMMA OneStatus ==
  ASSUME MaxImports <= 1, PipelineInv, Imported, PipelineInv', Imported',
         NEW s \in Urbs, \A t \in Urbs : t # s => urb'[t] = urb[t],
         h.pc # "closed", h'.pc # "closed"
  PROVE  Statuses' = [Statuses EXCEPT ![s] = Statuses'[s]]
  <1>1. \A t \in Urbs : t # s => Statuses'[t] = Statuses[t]
    BY StatusKept
  <1>2. Statuses = [t \in Urbs |-> Statuses[t]] /\ Statuses' = [t \in Urbs |-> Statuses'[t]]
    BY DEF Statuses
  <1> QED BY <1>1, <1>2

(* A new URB is open, or ends at once.                                     *)
LEMMA SubmitKeeps ==
  ASSUME MaxImports <= 1, PipelineInv, Imported, PipelineInv', Imported', [Next]_vars,
         NEW kind \in Kinds, ReadSubmit(kind)
  PROVE  /\ next \in Urbs /\ Statuses[next] = "new"
         /\ \A t \in Urbs : t < next => Statuses[t] # "new"
         /\ Statuses'[next] \in {"open", "ended"}
         /\ Statuses' = [Statuses EXCEPT ![next] = Statuses'[next]]
  <1>1. PICK k : k = (IF imported THEN kind ELSE "ignored")
    OBVIOUS
  <1>2. /\ next \in Urbs /\ urb \in [Urbs -> UrbState] /\ Urbs \subseteq Nat
        /\ urb' = [urb EXCEPT ![next] = [Unsent EXCEPT !.kind = k, !.gen = gen]]
    BY <1>1, LineUrbs DEF ReadSubmit, PipelineInv, TypeOK
  <1>3. /\ urb'[next].kind = k /\ urb'[next].ret = "none" /\ urb'[next].unl = "no"
        /\ \A t \in Urbs : t # next => urb'[t] = urb[t]
    BY <1>2 DEF Unsent
  <1>4. urb[next].kind = "none" /\ \A t \in Urbs : t < next => urb[t].kind # "none"
    <2>1. ~(next < next)
      BY <1>2
    <2> QED BY <1>2, <2>1 DEF Unsent, PipelineInv, Books, Numbered
  <1>5. h.pc # "closed" /\ h'.pc # "closed"
    BY <1>1, <1>3, <1>4, SessionSteps, PipelineAssumption
  <1>6. Statuses[next] = "new" /\ \A t \in Urbs : t < next => Statuses[t] # "new"
    BY <1>2, <1>4, StatusIs, StatusCases
  <1>7. Statuses'[next] \in {"open", "ended"}
    <2>1. urb'[next] \in UrbState /\ (k \in Kinds \/ k = "ignored")
      BY <1>1, <1>2, OneImportNext
    <2>2. PICK over : Statuses'[next] = StatusOf(urb'[next], over)
      BY <1>2, StatusIs
    <2> QED BY <1>3, <2>1, <2>2, StatusCases
  <1> QED BY <1>2, <1>3, <1>5, <1>6, <1>7, OneStatus

(* An unlink takes an open URB back, or changes nothing.                   *)
LEMMA UnlinkKeeps ==
  ASSUME MaxImports <= 1, PipelineInv, Imported, PipelineInv', Imported', [Next]_vars,
         NEW t \in Urbs, ReadUnlink(t)
  PROVE  \/ Statuses' = Statuses
         \/ Statuses[t] = "open" /\ Statuses' = [Statuses EXCEPT ![t] = "cancelled"]
  <1>1. urb \in [Urbs -> UrbState]
    BY DEF PipelineInv, TypeOK
  <1>2. PICK u \in {"reset", "late"} : urb' = [urb EXCEPT ![t].unl = u]
    BY Zenon DEF ReadUnlink
  <1>3. u = "reset" => t \in bulkIn \cup bulkOut
    <2>1. urb'[t].unl = u
      BY <1>1, <1>2, UnlinkedOnce
    <2>2. u = "late" \/ t \in bulkIn \cup bulkOut
      <3>1. CASE t \notin bulkIn \cup bulkOut
        <4>1. urb' = [urb EXCEPT ![t].unl = "late"]
          BY <3>1 DEF ReadUnlink
        <4>2. urb'[t].unl = "late"
          BY <1>1, <4>1, UnlinkedOnce
        <4> QED BY <2>1, <4>2
      <3> QED BY <3>1
    <2> QED BY <2>2
  <1>4. /\ urb'[t].kind = urb[t].kind /\ urb'[t].ret = urb[t].ret /\ urb'[t].unl = u
        /\ urb[t].unl = "no" /\ \A s \in Urbs : s # t => urb'[s] = urb[s]
    BY <1>1, <1>2, UnlinkedOnce DEF ReadUnlink
  <1>5. h.pc # "closed" /\ h'.pc # "closed"
    BY <1>4, SessionSteps
  <1>6. Statuses' = [Statuses EXCEPT ![t] = Statuses'[t]]
    BY <1>4, <1>5, OneStatus
  <1>7. /\ urb[t] \in UrbState /\ urb'[t] \in UrbState
        /\ urb[t].kind \in Kinds => ~Over(t) /\ ~Over(t)'
        /\ Statuses[t] = StatusOf(urb[t], Over(t)) /\ Statuses'[t] = StatusOf(urb'[t], Over(t)')
    BY <1>4, <1>5, OneImport, OneImportNext, StatusIs
  <1>8. CASE u = "reset"
    <2>1. urb[t].kind \in {"in", "out"} /\ urb[t].ret = "none"
      BY <1>3, <1>8 DEF PipelineInv, Books, Tables, Live
    <2>2. urb[t].kind \in Kinds
      BY <1>7, <2>1 DEF UrbState
    <2>3. Statuses[t] = "open" /\ Statuses'[t] = "cancelled"
      BY <1>4, <1>7, <1>8, <2>1, <2>2, StatusCases
    <2> QED BY <1>6, <2>3
  <1>9. CASE u = "late"
    <2>1. urb[t].kind \in Kinds \cup {"none", "ignored"}
      BY <1>7 DEF UrbState
    <2>2. Statuses'[t] = Statuses[t]
      BY <1>4, <1>7, <1>9, <2>1, StatusCases
    <2>3. Statuses = [s \in Urbs |-> Statuses[s]]
      BY DEF Statuses
    <2> QED BY <1>6, <2>2, <2>3
  <1> QED BY <1>8, <1>9

(* Only an open URB is answered.                                           *)
LEMMA AnswerKeeps ==
  ASSUME MaxImports <= 1, PipelineInv, Imported, PipelineInv', Imported', [Next]_vars,
         NEW s \in Urbs, NEW ok \in BOOLEAN, s < next,
         urb[s].ret = "none", urb' = Answered(s, ok), urb[s].kind # "ignored"
  PROVE  Statuses[s] = "open" /\ Statuses' = [Statuses EXCEPT ![s] = "answered"]
  <1>1. urb \in [Urbs -> UrbState]
    BY DEF PipelineInv, TypeOK
  <1>2. /\ \A t \in Urbs : t # s => urb'[t] = urb[t]
        /\ urb'[s].ret \in {"ok", "err"} /\ urb'[s].kind = urb[s].kind
        /\ urb'[s].gen = urb[s].gen /\ urb'[s].unl = urb[s].unl
    BY <1>1, AnsweredOnce
  <1>3. h.pc # "closed" /\ h'.pc # "closed"
    BY <1>2, SessionSteps
  <1>4. urb[s].kind \in Kinds
    BY <1>1 DEF UrbState, PipelineInv, Books, Numbered
  <1>5. /\ urb[s] \in UrbState /\ urb'[s] \in UrbState
        /\ ~Over(s) /\ ~Over(s)'
        /\ Statuses[s] = StatusOf(urb[s], Over(s)) /\ Statuses'[s] = StatusOf(urb'[s], Over(s)')
    BY <1>2, <1>3, <1>4, OneImport, OneImportNext, StatusIs
  <1>6. urb'[s].unl # "reset"
    <2>1. urb'[s].gen = gen'
      BY <1>5 DEF Over
    <2> QED BY <1>2, <2>1 DEF PipelineInv, Claims, ResponsesExclusive
  <1>7. Statuses[s] = "open" /\ Statuses'[s] = "answered"
    BY <1>2, <1>4, <1>5, <1>6, StatusCases
  <1> QED BY <1>2, <1>3, <1>7, OneStatus

(* The end of the session ends the open URBs; an import changes nothing.   *)
LEMMA SessionKeeps ==
  ASSUME MaxImports <= 1, PipelineInv, Imported, PipelineInv', Imported', [Next]_vars,
         UNCHANGED urb
  PROVE  \/ Statuses' = Statuses
         \/ /\ \E s \in Urbs : Statuses[s] = "open"
            /\ Statuses' = [s \in Urbs |-> IF Statuses[s] = "open" THEN "ended" ELSE Statuses[s]]
  <1>1. Statuses = [s \in Urbs |-> Statuses[s]] /\ Statuses' = [s \in Urbs |-> Statuses'[s]]
    BY DEF Statuses
  <1>2. CASE h'.pc = "closed" <=> h.pc = "closed"
    <2>1. \A s \in Urbs : Statuses'[s] = Statuses[s]
      BY <1>2, StatusKept
    <2> QED BY <1>1, <2>1
  <1>3. CASE h.pc # "closed" /\ h'.pc = "closed"
    <2>1. \A s \in Urbs : Statuses'[s] = IF Statuses[s] = "open" THEN "ended" ELSE Statuses[s]
      BY <1>3, StatusKept
    <2> QED BY <1>1, <2>1
  <1> QED BY <1>2, <1>3, SessionSteps

(* Every step of the pipeline is one that the contract allows.             *)
LEMMA ContractNext ==
  ASSUME MaxImports <= 1, PipelineInv, Imported, PipelineInv', Imported', [Next]_vars
  PROVE  Contract!Next \/ Statuses' = Statuses
  <1>1. CASE UNCHANGED urb
    BY <1>1, SessionKeeps DEF Contract!Next, Contract!EndSession, Statuses
  <1>2. CASE \E kind \in Kinds : ReadSubmit(kind)
    <2>1. PICK s, to : s = next /\ to = Statuses'[s]
      OBVIOUS
    <2>2. /\ s \in Urbs /\ Statuses[s] = "new" /\ to \in {"open", "ended"}
          /\ \A t \in Urbs : t < s => Statuses[t] # "new"
          /\ Statuses' = [Statuses EXCEPT ![s] = to]
      BY <1>2, <2>1, SubmitKeeps
    <2>3. Contract!Submit(s)
      BY <2>2 DEF Contract!Submit, Statuses
    <2> QED BY <2>2, <2>3 DEF Contract!Next
  <1>3. CASE \E t \in Urbs : ReadUnlink(t)
    <2>1. PICK t \in Urbs : \/ Statuses' = Statuses
                            \/ /\ Statuses[t] = "open"
                               /\ Statuses' = [Statuses EXCEPT ![t] = "cancelled"]
      BY <1>3, UnlinkKeeps
    <2>2. Statuses' = Statuses \/ Contract!Cancel(t)
      BY <2>1 DEF Contract!Cancel, Statuses
    <2> QED BY <2>1, <2>2 DEF Contract!Next
  <1>4. CASE \E s \in Urbs, ok \in BOOLEAN :
               /\ s < next /\ urb[s].ret = "none" /\ urb' = Answered(s, ok)
               /\ urb[s].kind # "ignored"
    <2>1. PICK s \in Urbs : /\ Statuses[s] = "open"
                            /\ Statuses' = [Statuses EXCEPT ![s] = "answered"]
      BY <1>4, AnswerKeeps
    <2>2. Contract!Answer(s)
      BY <2>1 DEF Contract!Answer, Statuses
    <2> QED BY <2>1, <2>2 DEF Contract!Next
  <1> QED BY <1>1, <1>2, <1>3, <1>4, UrbSteps

(* At first no URB has been submitted.                                     *)
LEMMA ContractInit == Init => Contract!Init
  <1> SUFFICES ASSUME Init PROVE Contract!Init
    OBVIOUS
  <1>1. \A s \in Urbs : urb[s] = Unsent /\ urb[s] \in UrbState /\ urb[s].kind = "none"
    BY RestingStates DEF Init, Unsent
  <1>2. \A s \in Urbs : Statuses[s] = "new"
    BY <1>1, StatusIs, StatusCases
  <1> QED BY <1>2 DEF Contract!Init, Statuses

(* Within one import each URB is answered once, taken back once, or ends   *)
(* with the session, whatever races with whatever: the pipeline implements *)
(* UrbContract (mod.rs:1355-1452).                                         *)
THEOREM UrbContractKept == MaxImports <= 1 => (Spec => KeepsUrbContract)
  <1> SUFFICES ASSUME MaxImports <= 1 PROVE Spec => KeepsUrbContract
    OBVIOUS
  <1>1. PipelineInv /\ Imported /\ [Next]_vars => Imported'
    BY ImportedNext
  <1>2. PipelineInv /\ Imported /\ PipelineInv' /\ Imported' /\ [Next]_vars
          => [Contract!Next]_[s \in Urbs |-> Status(s)]
    BY ContractNext DEF Statuses
  <1> QED BY <1>1, <1>2, InitImported, ContractInit, PipelineInvariant, PTL
          DEF Spec, KeepsUrbContract, Contract!Spec
=============================================================================
