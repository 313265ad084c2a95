------------------------- MODULE PresenceQueueProofs -------------------------
(***************************************************************************)
(* Proofs about PresenceQueue, for every set of messages, every number of  *)
(* attempts and every limit of the query.                                  *)
(***************************************************************************)
EXTENDS PresenceQueue, FiniteSetTheorems, TLAPS

\* Nothing refers to a message before its document is written: no trigger past
\* its first step, no retry time, no device, no webhook and no sweep.
Written ==
    \A m \in Msg :
        doc[m] = None => /\ trigger[m] = "idle" /\ late[m] = 0
                         /\ device[m] = "nothing" /\ hook[m] = None
SweepWritten ==
    sweep # Off => doc[Cur.msg] # None /\ \A e \in sweep.rest : doc[e.msg] # None

\* The query asks for pending and sent messages, and only they have a rank.
RankedIsAskedFor == \A m \in Msg : late[m] # 0 => Is(m, "pending") \/ Is(m, "sent")

\* The sweep keeps a good answer only if the device gave one.
FoundIsAnswered == At("found") => device[Cur.msg] \in {"ok", "recanted"}

IInv == /\ TypeOK /\ Written /\ SweepWritten /\ RankedIsAskedFor
        /\ FoundIsAnswered /\ PendingIsRetryable /\ AckedWasAnswered

-----------------------------------------------------------------------------
(* What one write of a document leaves *)

Good == {"ok", "recanted"}

\* Message m gets status s and count a; no other message gets a rank.
Writes(m, s, a) ==
    /\ s \in Status /\ a \in Count
    /\ doc' = [doc EXCEPT ![m] = [status |-> s, attempts |-> a]]
    /\ late' \in [Msg -> Nat]
    /\ \A n \in Msg : late'[n] # 0 => late[n] # 0 \/ n = m
    /\ late'[m] # 0 => s = "pending"
    /\ s = "pending" => a < MaxAttempts
    /\ s = "failed" => a = MaxAttempts
    /\ s = "acked" => device[m] \in Good

LEMMA DueRanks ==
    ASSUME TypeOK, NEW m \in Msg
    PROVE  /\ Due(m) \in [Msg -> Nat]
           /\ \A n \in Msg : Due(m)[n] # 0 => late[n] # 0 \/ n = m
BY DEF TypeOK, Due

LEMMA PostponedRanks ==
    ASSUME TypeOK, NEW m \in Msg
    PROVE  /\ Postponed(m) \in [Msg -> Nat] /\ Postponed(m)[m] = 0
           /\ \A n \in Msg : Postponed(m)[n] # 0 => late[n] # 0
BY DEF TypeOK, Postponed

LEMMA CountsInRange ==
    ASSUME NEW a \in Count
    PROVE  /\ OneMore(a) \in Count
           /\ StatusAfter(a) \in Status
           /\ StatusAfter(a) = "pending" => a < MaxAttempts
           /\ StatusAfter(a) = "failed" => a = MaxAttempts
           /\ StatusAfter(a) # "acked"
BY AttemptsAssumption DEF Count, OneMore, StatusAfter, Status

LEMMA EnqueueWrites ==
    ASSUME TypeOK, NEW m \in Msg, Enqueue(m)
    PROVE  Writes(m, "pending", 0)
BY DueRanks, AttemptsAssumption DEF Enqueue, Writes, Count, Status

LEMMA MarkRetryWrites ==
    ASSUME TypeOK, NEW m \in Msg, NEW a \in Count, MarkRetry(m, a)
    PROVE  Writes(m, StatusAfter(a), a)
BY PostponedRanks, CountsInRange DEF MarkRetry, Writes

LEMMA MarkSentWrites ==
    ASSUME TypeOK, NEW m \in Msg, doc[m] # None, MarkSent(m)
    PROVE  Writes(m, "sent", doc[m].attempts)
<1>1. doc[m] \in Document
    BY DEF TypeOK
<1>2. [doc[m] EXCEPT !.status = "sent"] = [status |-> "sent", attempts |-> doc[m].attempts]
    BY <1>1 DEF Document
<1>3. doc' = [doc EXCEPT ![m] = [status |-> "sent", attempts |-> doc[m].attempts]]
    BY <1>2 DEF MarkSent, TypeOK
<1> QED
    BY <1>1, <1>3, PostponedRanks DEF MarkSent, Writes, Document, Status

LEMMA MarkAckedWrites ==
    ASSUME TypeOK, NEW m \in Msg, doc[m] # None, device[m] \in Good, MarkAcked(m)
    PROVE  Writes(m, "acked", doc[m].attempts)
<1>1. doc[m] \in Document
    BY DEF TypeOK
<1>2. [doc[m] EXCEPT !.status = "acked"] = [status |-> "acked", attempts |-> doc[m].attempts]
    BY <1>1 DEF Document
<1>3. doc' = [doc EXCEPT ![m] = [status |-> "acked", attempts |-> doc[m].attempts]]
    BY <1>2 DEF MarkAcked, TypeOK
<1> QED
    BY <1>1, <1>3, PostponedRanks DEF MarkAcked, Writes, Document, Status

\* The conjuncts of IInv about documents and ranks.
Documents ==
    /\ doc \in [Msg -> Document \cup {None}] /\ late \in [Msg -> Nat]
    /\ RankedIsAskedFor /\ PendingIsRetryable /\ AckedWasAnswered

\* A device that has answered well has always done so once.
Steady == \A m \in Msg : device[m] \in Good => device'[m] \in Good

LEMMA WriteKeepsDocuments ==
    ASSUME IInv, NEW m \in Msg, NEW s, NEW a, Writes(m, s, a), Steady
    PROVE  Documents' /\ \A n \in Msg : doc'[n] = None => doc[n] = None /\ n # m
<1>1. [status |-> s, attempts |-> a] \in Document
    BY DEF Writes, Document
<1>2. doc' \in [Msg -> Document \cup {None}] /\ late' \in [Msg -> Nat]
    BY <1>1 DEF Writes, IInv, TypeOK
<1>3. doc'[m] # None /\ doc'[m].status = s /\ doc'[m].attempts = a
    BY <1>1, NoneAssumption DEF Writes, IInv, TypeOK
<1>4. \A n \in Msg : n # m => doc'[n] = doc[n]
    BY DEF Writes, IInv, TypeOK
<1>5. RankedIsAskedFor'
    BY <1>3, <1>4 DEF Writes, IInv, RankedIsAskedFor, Is
<1>6. PendingIsRetryable'
    BY <1>3, <1>4 DEF Writes, IInv, PendingIsRetryable, Retryable, Is
<1>7. AckedWasAnswered'
    BY <1>3, <1>4 DEF Writes, IInv, AckedWasAnswered, Is, Steady, Good
<1> QED
    BY <1>2, <1>3, <1>4, <1>5, <1>6, <1>7 DEF Documents

LEMMA NoWriteKeepsDocuments ==
    ASSUME IInv, UNCHANGED <<doc, late>>, Steady
    PROVE  Documents'
BY DEF Documents, IInv, TypeOK, RankedIsAskedFor, PendingIsRetryable, AckedWasAnswered,
       Retryable, Is, Steady, Good

-----------------------------------------------------------------------------
(* The sweep's message and those after it *)

Sweeping == (sweep = Off \/ sweep \in Run) /\ SweepWritten /\ FoundIsAnswered

\* No document is removed.
Kept == \A m \in Msg : doc'[m] = None => doc[m] = None

LEMMA SnapshotItems ==
    ASSUME IInv
    PROVE  Snapshot \subseteq Item /\ \A e \in Snapshot : doc[e.msg] # None
<1> SUFFICES ASSUME NEW m \in Retried
             PROVE  [msg |-> m, attempts |-> doc[m].attempts, after |-> After(m)] \in Item
                    /\ doc[m] # None
    BY DEF Snapshot
<1>1. m \in Msg /\ late[m] # 0
    BY DEF Retried, Found
<1>2. doc[m] # None
    BY <1>1 DEF IInv, Written
<1>3. doc[m].attempts \in Count
    BY <1>1, <1>2 DEF IInv, TypeOK, Document
<1>4. {n \in Retried : Earlier(m, n)} \in SUBSET Msg
    BY DEF Retried, Found
<1>5. After(m) \in Nat
    BY <1>4, MsgAssumption, FS_Subset, FS_CardinalityType DEF After
<1> QED
    BY <1>1, <1>2, <1>3, <1>5 DEF Item

LEMMA SweepStays ==
    ASSUME IInv, UNCHANGED sweep, Kept, Steady
    PROVE  Sweeping'
<1> SUFFICES ASSUME sweep # Off
             PROVE  SweepWritten' /\ FoundIsAnswered'
    BY DEF IInv, TypeOK, Sweeping, SweepWritten, FoundIsAnswered, At, Off
<1>1. sweep \in Run /\ Cur.msg \in Msg /\ \A e \in sweep.rest : e.msg \in Msg
    BY DEF IInv, TypeOK, Run, Item, Cur
<1> QED
    BY <1>1 DEF IInv, SweepWritten, FoundIsAnswered, At, Cur, Kept, Steady, Good

LEMMA TakeFirstSweeps ==
    ASSUME NEW items \in SUBSET Item, TakeFirst(items), Kept,
           \A e \in items : doc[e.msg] # None
    PROVE  Sweeping'
<1>1. PICK e \in items : sweep' = [step |-> "send", cur |-> e, rest |-> items \ {e}]
    BY DEF TakeFirst
<1>2. sweep' \in Run
    BY <1>1 DEF Run
<1>3. SweepWritten'
    BY <1>1 DEF SweepWritten, Cur, Kept, Item
<1>4. FoundIsAnswered'
    BY <1>1 DEF FoundIsAnswered, At
<1> QED
    BY <1>2, <1>3, <1>4 DEF Sweeping

LEMMA OffSweeps ==
    ASSUME sweep' = Off
    PROVE  Sweeping'
BY DEF Sweeping, SweepWritten, FoundIsAnswered, At, Off

LEMMA NextMessageSweeps ==
    ASSUME IInv, sweep # Off, NextMessage, Kept
    PROVE  Sweeping'
<1>1. sweep.rest \in SUBSET Item /\ \A e \in sweep.rest : doc[e.msg] # None
    BY DEF IInv, TypeOK, Run, SweepWritten
<1> QED
    BY <1>1, OffSweeps, TakeFirstSweeps DEF NextMessage

LEMMA GotoSweeps ==
    ASSUME IInv, sweep # Off, Kept,
           NEW s \in {"accepted", "refused", "poll", "found"}, Goto(s),
           s = "found" => device'[Cur.msg] \in Good
    PROVE  Sweeping'
<1>1. sweep \in Run
    BY DEF IInv, TypeOK
<1>2. sweep' \in Run /\ Cur' = Cur /\ sweep'.rest = sweep.rest /\ sweep'.step = s
    BY <1>1 DEF Goto, Run, Cur
<1>3. Cur.msg \in Msg /\ \A e \in sweep.rest : e.msg \in Msg
    BY <1>1 DEF Run, Item, Cur
<1>4. SweepWritten'
    BY <1>2, <1>3 DEF IInv, SweepWritten, Kept
<1>5. FoundIsAnswered'
    BY <1>2 DEF FoundIsAnswered, At, Good
<1> QED
    BY <1>2, <1>4, <1>5 DEF Sweeping

-----------------------------------------------------------------------------
(* Triggers, webhooks and devices *)

Others ==
    /\ trigger \in [Msg -> {"idle", "enqueued", "accepted", "refused", "done"}]
    /\ hook \in [Msg -> Count \cup {None}]
    /\ device \in [Msg -> Device]
    /\ Written

LEMMA PartsLater == Documents' /\ Sweeping' /\ Others' => IInv'
BY DEF IInv, TypeOK, Documents, Sweeping, Others

LEMMA SentDevice ==
    ASSUME IInv, NEW m \in Msg, doc[m] # None, NEW answer, Sent(m, answer)
    PROVE  /\ device' \in [Msg -> Device] /\ Steady
           /\ \A n \in Msg : doc[n] = None => device'[n] = "nothing"
<1>1. device \in [Msg -> Device]
    BY DEF IInv, TypeOK
<1>2. device' = device \/ (device[m] = "nothing" /\ device' = [device EXCEPT ![m] = "note"])
    BY DEF Sent, NoteTaken
<1> QED
    BY <1>1, <1>2 DEF Device, Steady, Good, IInv, Written

LEMMA OnItsWay ==
    ASSUME IInv, sweep # Off
    PROVE  Cur \in Item /\ Cur.msg \in Msg /\ Cur.attempts \in Count /\ doc[Cur.msg] # None
BY DEF IInv, TypeOK, SweepWritten, Run, Item, Cur

-----------------------------------------------------------------------------
(* Every step keeps the invariant *)

LEMMA TriggerStep ==
    ASSUME IInv, NEW m \in Msg, Trigger(m)
    PROVE  IInv'
<1> USE DEF IInv, TypeOK
<1>1. CASE TriggerEnqueue(m)
    <2>1. UNCHANGED <<sweep, hook, device>> /\ trigger' = [trigger EXCEPT ![m] = "enqueued"]
        BY <1>1 DEF TriggerEnqueue
    <2>2. Documents' /\ Kept /\ \A n \in Msg : doc'[n] = None => n # m /\ doc[n] = None
        BY <1>1, <2>1, EnqueueWrites, WriteKeepsDocuments DEF TriggerEnqueue, Kept, Steady
    <2>3. Sweeping'
        BY <2>1, <2>2, SweepStays DEF Steady
    <2>4. Written'
        <3> SUFFICES ASSUME NEW n \in Msg, doc'[n] = None
                     PROVE  trigger'[n] = "idle" /\ late'[n] = 0
                            /\ device'[n] = "nothing" /\ hook'[n] = None
            BY DEF Written
        <3>1. n # m /\ doc[n] = None
            BY <2>2
        <3> QED
            BY <1>1, <2>1, <3>1, EnqueueWrites DEF TriggerEnqueue, Writes, Written
    <2> QED
        BY <2>1, <2>2, <2>3, <2>4, PartsLater DEF Others
<1>2. CASE TriggerSend(m)
    <2>1. /\ UNCHANGED <<doc, late, sweep, hook>> /\ trigger[m] = "enqueued"
          /\ \E answer \in {"accepted", "refused"} :
                Sent(m, answer) /\ trigger' = [trigger EXCEPT ![m] = answer]
        BY <1>2 DEF TriggerSend
    <2>2. doc[m] # None
        BY <2>1 DEF Written
    <2>3. /\ device' \in [Msg -> Device] /\ Steady
          /\ \A n \in Msg : doc[n] = None => device'[n] = "nothing"
        BY <2>1, <2>2, SentDevice
    <2>4. Documents' /\ Sweeping'
        BY <2>1, <2>3, NoWriteKeepsDocuments, SweepStays DEF Kept
    <2>5. Others'
        BY <2>1, <2>2, <2>3 DEF Others, Written
    <2> QED
        BY <2>4, <2>5, PartsLater
<1>3. CASE TriggerBook(m)
    <2>1. /\ UNCHANGED <<sweep, hook, device>> /\ trigger' = [trigger EXCEPT ![m] = "done"]
          /\ trigger[m] # "idle"
        BY <1>3 DEF TriggerBook
    <2>2. doc[m] # None /\ 1 \in Count
        BY <2>1, AttemptsAssumption DEF Written, Count
    <2>3. \E s, a : Writes(m, s, a)
        BY <1>3, <2>2, MarkSentWrites, MarkRetryWrites DEF TriggerBook
    <2>4. Documents' /\ Kept
        BY <2>1, <2>3, WriteKeepsDocuments DEF Kept, Steady
    <2>5. Sweeping'
        BY <2>1, <2>4, SweepStays DEF Steady
    <2>6. \A n \in Msg : late'[n] # 0 => late[n] # 0 \/ n = m
        BY <2>3 DEF Writes
    <2>7. Others'
        BY <2>1, <2>2, <2>4, <2>6 DEF Others, Written, Kept
    <2> QED
        BY <2>4, <2>5, <2>7, PartsLater
<1>4. CASE TriggerDies(m)
    <2>1. /\ UNCHANGED <<doc, late, sweep, hook, device>> /\ trigger[m] # "idle"
          /\ trigger' = [trigger EXCEPT ![m] = "done"]
        BY <1>4 DEF TriggerDies
    <2>2. Documents' /\ Sweeping'
        BY <2>1, NoWriteKeepsDocuments, SweepStays DEF Kept, Steady
    <2>3. Others'
        BY <2>1 DEF Others, Written
    <2> QED
        BY <2>2, <2>3, PartsLater
<1> QED
    BY <1>1, <1>2, <1>3, <1>4 DEF Trigger

LEMMA WriteKeepsOthers ==
    ASSUME IInv, NEW m \in Msg, doc[m] # None, NEW s, NEW a, Writes(m, s, a),
           UNCHANGED <<trigger, device>>,
           hook' = hook \/ hook' = [hook EXCEPT ![m] = None]
    PROVE  Documents' /\ Kept /\ Steady /\ Others'
<1>1. Documents' /\ Kept /\ Steady
    BY WriteKeepsDocuments DEF Kept, Steady
<1>2. \A n \in Msg : late'[n] # 0 => late[n] # 0 \/ n = m
    BY DEF Writes
<1>3. Written'
    BY <1>1, <1>2 DEF IInv, TypeOK, Written, Kept
<1> QED
    BY <1>1, <1>3 DEF Others, IInv, TypeOK

LEMMA SweepStep ==
    ASSUME IInv, Sweep
    PROVE  IInv'
<1>1. CASE SweepStart
    <2>1. UNCHANGED <<doc, late, trigger, hook, device>> /\ TakeFirst(Snapshot)
        BY <1>1 DEF SweepStart
    <2>2. Sweeping'
        BY <2>1, SnapshotItems, TakeFirstSweeps DEF Kept
    <2>3. Documents'
        BY <2>1, NoWriteKeepsDocuments DEF Steady
    <2>4. Others'
        BY <2>1 DEF Others, Written, IInv, TypeOK
    <2> QED
        BY <2>2, <2>3, <2>4, PartsLater
<1>2. CASE SweepSend
    <2>1. /\ UNCHANGED <<doc, late, trigger, hook>> /\ sweep # Off
          /\ \E answer \in {"accepted", "refused"} : Sent(Cur.msg, answer) /\ Goto(answer)
        BY <1>2 DEF SweepSend, At, Off
    <2>2. /\ device' \in [Msg -> Device] /\ Steady
          /\ \A n \in Msg : doc[n] = None => device'[n] = "nothing"
        BY <2>1, OnItsWay, SentDevice
    <2>3. Sweeping'
        BY <2>1, GotoSweeps DEF Kept
    <2>4. Documents'
        BY <2>1, <2>2, NoWriteKeepsDocuments
    <2>5. Others'
        BY <2>1, <2>2 DEF Others, Written, IInv, TypeOK
    <2> QED
        BY <2>3, <2>4, <2>5, PartsLater
<1>3. CASE SweepRefused
    <2>1. /\ UNCHANGED <<trigger, hook, device>> /\ sweep # Off
          /\ MarkRetry(Cur.msg, OneMore(Cur.attempts)) /\ NextMessage
        BY <1>3 DEF SweepRefused, At, Off
    <2>2. Documents' /\ Kept /\ Others'
        BY <2>1, OnItsWay, CountsInRange, MarkRetryWrites, WriteKeepsOthers DEF IInv
    <2> QED
        BY <2>1, <2>2, NextMessageSweeps, PartsLater
<1>4. CASE SweepAccepted
    <2>1. /\ UNCHANGED <<trigger, hook, device>> /\ sweep # Off
          /\ MarkSent(Cur.msg) /\ Goto("poll")
        BY <1>4 DEF SweepAccepted, At, Off
    <2>2. Documents' /\ Kept /\ Others'
        BY <2>1, OnItsWay, MarkSentWrites, WriteKeepsOthers DEF IInv
    <2> QED
        BY <2>1, <2>2, GotoSweeps, PartsLater
<1>5. CASE PollFinds \/ PollMisses
    <2>1. /\ UNCHANGED <<doc, late, trigger, hook, device>> /\ sweep # Off
          /\ NextMessage \/ (Goto("found") /\ device[Cur.msg] \in Good)
        BY <1>5 DEF PollFinds, PollMisses, GoodAnswer, At, Off, Good
    <2>2. Documents' /\ Kept
        BY <2>1, NoWriteKeepsDocuments DEF Steady, Kept
    <2>3. Sweeping'
        <3>1. CASE NextMessage
            BY <2>1, <2>2, <3>1, NextMessageSweeps
        <3>2. CASE Goto("found") /\ device[Cur.msg] \in Good
            BY <2>1, <2>2, <3>2, GotoSweeps
        <3> QED
            BY <2>1, <3>1, <3>2
    <2>4. Others'
        BY <2>1 DEF Others, Written, IInv, TypeOK
    <2> QED
        BY <2>2, <2>3, <2>4, PartsLater
<1>6. CASE SweepAcked
    <2>1. /\ UNCHANGED <<trigger, hook, device>> /\ sweep # Off /\ At("found")
          /\ MarkAcked(Cur.msg) /\ NextMessage
        BY <1>6 DEF SweepAcked, At, Off
    <2>2. device[Cur.msg] \in Good
        BY <2>1 DEF IInv, FoundIsAnswered, Good
    <2>3. Documents' /\ Kept /\ Others'
        BY <2>1, <2>2, OnItsWay, MarkAckedWrites, WriteKeepsOthers DEF IInv
    <2> QED
        BY <2>1, <2>3, NextMessageSweeps, PartsLater
<1>7. CASE SweepDies
    <2>1. UNCHANGED <<doc, late, trigger, hook, device>> /\ sweep' = Off
        BY <1>7 DEF SweepDies
    <2> QED
        BY <2>1, OffSweeps, NoWriteKeepsDocuments, PartsLater
           DEF Steady, Others, Written, IInv, TypeOK
<1> QED
    BY <1>1, <1>2, <1>3, <1>4, <1>5, <1>6, <1>7 DEF Sweep

LEMMA OutsideStep ==
    ASSUME IInv, NEW m \in Msg, Outside(m)
    PROVE  IInv'
<1>1. CASE AnswerGood(m) \/ AnswerBad(m)
    <2>1. /\ UNCHANGED <<doc, late, trigger, sweep>> /\ device[m] # "nothing"
          /\ \E d \in Device \ {"nothing"} : device' = [device EXCEPT ![m] = d]
                                       /\ (device[m] \in Good => d \in Good)
          /\ hook' = hook \/ hook' = [hook EXCEPT ![m] = doc[m].attempts]
        BY <1>1 DEF AnswerGood, AnswerBad, Device, Good
    <2>2. doc[m] # None /\ doc[m].attempts \in Count
        BY <2>1 DEF IInv, Written, TypeOK, Document
    <2>3. device' \in [Msg -> Device] /\ Steady
        BY <2>1 DEF IInv, TypeOK, Steady
    <2>4. Documents' /\ Sweeping'
        BY <2>1, <2>3, NoWriteKeepsDocuments, SweepStays DEF Kept
    <2>5. Others'
        BY <2>1, <2>2, <2>3 DEF Others, Written, IInv, TypeOK
    <2> QED
        BY <2>4, <2>5, PartsLater
<1>2. CASE WebhookGood(m)
    <2>1. UNCHANGED <<trigger, sweep, hook, device>> /\ MarkAcked(m) /\ device[m] \in Good
        BY <1>2 DEF WebhookGood, Good
    <2>2. doc[m] # None
        BY <2>1 DEF IInv, Written, Good
    <2>3. Documents' /\ Kept /\ Steady /\ Others'
        BY <2>1, <2>2, MarkAckedWrites, WriteKeepsOthers DEF IInv
    <2> QED
        BY <2>1, <2>3, SweepStays, PartsLater
<1>3. CASE WebhookBad(m)
    <2>1. /\ UNCHANGED <<trigger, sweep, device>> /\ MarkRetry(m, OneMore(hook[m]))
          /\ hook[m] # None /\ hook' = [hook EXCEPT ![m] = None]
        BY <1>3 DEF WebhookBad
    <2>2. doc[m] # None /\ hook[m] \in Count
        BY <2>1 DEF IInv, Written, TypeOK
    <2>3. Documents' /\ Kept /\ Steady /\ Others'
        BY <2>1, <2>2, CountsInRange, MarkRetryWrites, WriteKeepsOthers DEF IInv
    <2> QED
        BY <2>1, <2>3, SweepStays, PartsLater
<1>4. CASE WebhookDies(m)
    <2>1. /\ UNCHANGED <<doc, late, trigger, sweep, device>>
          /\ hook' = [hook EXCEPT ![m] = None]
        BY <1>4 DEF WebhookDies
    <2>2. Documents' /\ Sweeping'
        BY <2>1, NoWriteKeepsDocuments, SweepStays DEF Kept, Steady
    <2>3. Others'
        BY <2>1 DEF Others, Written, IInv, TypeOK
    <2> QED
        BY <2>2, <2>3, PartsLater
<1>5. CASE FallsDue(m)
    <2>1. /\ UNCHANGED <<doc, trigger, sweep, hook, device>> /\ late' = Due(m)
          /\ Is(m, "pending") \/ Is(m, "sent")
        BY <1>5 DEF FallsDue
    <2>2. /\ late' \in [Msg -> Nat]
          /\ \A n \in Msg : late'[n] # 0 => late[n] # 0 \/ n = m
        BY <2>1, DueRanks DEF IInv
    <2>3. Documents'
        BY <2>1, <2>2 DEF Documents, IInv, TypeOK, RankedIsAskedFor, PendingIsRetryable,
                          AckedWasAnswered, Retryable, Is
    <2>4. Sweeping'
        BY <2>1, SweepStays DEF Kept, Steady
    <2>5. Others'
        BY <2>1, <2>2 DEF Others, Written, IInv, TypeOK, Is
    <2> QED
        BY <2>3, <2>4, <2>5, PartsLater
<1> QED
    BY <1>1, <1>2, <1>3, <1>4, <1>5 DEF Outside

LEMMA NextIInv == IInv /\ [Next]_vars => IInv'
<1> SUFFICES ASSUME IInv, [Next]_vars PROVE IInv'
    OBVIOUS
<1>1. CASE UNCHANGED vars
    BY <1>1 DEF vars, IInv, TypeOK, Written, SweepWritten, RankedIsAskedFor, FoundIsAnswered,
                PendingIsRetryable, AckedWasAnswered, Retryable, Is, At, Cur
<1> QED
    BY <1>1, TriggerStep, SweepStep, OutsideStep DEF Next

LEMMA InitIInv == Init => IInv
<1> SUFFICES ASSUME Init PROVE IInv
    OBVIOUS
<1>1. TypeOK
    BY DEF Init, TypeOK, Device
<1>2. Written /\ RankedIsAskedFor /\ PendingIsRetryable /\ AckedWasAnswered
    BY DEF Init, Written, RankedIsAskedFor, PendingIsRetryable, AckedWasAnswered, Is
<1>3. SweepWritten /\ FoundIsAnswered
    BY DEF Init, SweepWritten, FoundIsAnswered, At, Off
<1> QED
    BY <1>1, <1>2, <1>3 DEF IInv

\* The inductive invariant of the queue holds in every reachable state, whatever
\* the three functions write over each other.
THEOREM QueueInvariant == Spec => []IInv
BY InitIInv, NextIInv, PTL DEF Spec

\* Type correctness of the queue and of the counts its writers carry across awaits.
THEOREM TypeCorrect == Spec => []TypeOK
<1>1. IInv => TypeOK
    BY DEF IInv
<1> QED
    BY <1>1, QueueInvariant, PTL

\* A pending message is always below its attempts and a failed one has used them
\* up, whoever wrote last (markRetry).
THEOREM PendingStaysRetryable == Spec => []PendingIsRetryable
<1>1. IInv => PendingIsRetryable
    BY DEF IInv
<1> QED
    BY <1>1, QueueInvariant, PTL

\* Only what a device has answered well is marked acked (handlePresenceAckWebhook,
\* retryPendingPresenceMessages).
THEOREM AckIsReal == Spec => []AckedWasAnswered
<1>1. IInv => AckedWasAnswered
    BY DEF IInv
<1> QED
    BY <1>1, QueueInvariant, PTL
=============================================================================
