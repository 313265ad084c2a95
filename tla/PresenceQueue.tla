--------------------------- MODULE PresenceQueue ---------------------------
(***************************************************************************)
(* The outbound queue of presence messages in backend/functions: one       *)
(* Firestore document per message, written without transactions by three   *)
(* cloud functions that run at the same time.  The trigger of a presence   *)
(* change enqueues a message and sends it (deliverPresenceMessage), the    *)
(* scheduled sweep sends again what is pending or unacknowledged           *)
(* (retryPendingPresenceMessages), and a webhook books what the device     *)
(* answers (handlePresenceAckWebhook).  An action ends at each await: one  *)
(* write or read of a document, or one call of Notehub.                    *)
(*                                                                         *)
(* Notehub and the device are outside.  A call may be refused, may fail    *)
(* although the note was taken, and a note the device has seen may be      *)
(* answered any number of times, well or badly.                            *)
(*                                                                         *)
(* Time.  late ranks the messages whose nextRetryAt has passed, the later  *)
(* it was the lower: the query of the sweep returns them from the highest  *)
(* rank down.  A message that no query asks for (acked, failed) has no     *)
(* rank, as it gets a new nextRetryAt before one does again.               *)
(* Attempt counts are compared with maxAttempts only: counts beyond it are *)
(* not told apart.                                                         *)
(***************************************************************************)
EXTENDS Naturals, FiniteSets

CONSTANTS
    Msg,          \* message identifiers; each names its device too
    MaxAttempts,  \* MAX_PRESENCE_MESSAGE_ATTEMPTS
    Limit,        \* limit of each query of listRetryableMessages
    Nacking,      \* bound: the messages whose device may answer badly
    None          \* no document, no webhook

ASSUME MsgAssumption == IsFiniteSet(Msg)
ASSUME AttemptsAssumption == MaxAttempts \in Nat \ {0}
ASSUME LimitAssumption == Limit \in Nat \ {0}

VARIABLES
    doc,      \* the message's document, or None
    late,     \* rank of pending and sent messages whose nextRetryAt has passed: 1 the
              \* latest; 0 for the others
    trigger,  \* deliverPresenceMessage of each message
    sweep,    \* the run of the sweep: its step, its message and the messages after it
    hook,     \* the count a webhook has read and not yet written, at most one a message
    device    \* what Notehub and the device hold: see Device

vars == <<doc, late, trigger, sweep, hook, device>>

Count == 0..MaxAttempts
Status == {"pending", "sent", "acked", "failed"}
Document == [status: Status, attempts: Count]
Item == [msg: Msg, attempts: Count, after: Nat]

\* No note of the message, a note unanswered, or the latest answer; "recanted" is
\* a bad answer after a good one.
Device == {"nothing", "note", "ok", "nack", "recanted"}

ASSUME NoneAssumption == None \notin Document \cup Count \cup Item

Run == [step: {"send", "accepted", "refused", "poll", "found"}, cur: Item, rest: SUBSET Item]
Off == [step |-> "off", cur |-> None, rest |-> {}]

\* Every variable has its type.
TypeOK ==
    /\ doc \in [Msg -> Document \cup {None}]
    /\ late \in [Msg -> Nat]
    /\ trigger \in [Msg -> {"idle", "enqueued", "accepted", "refused", "done"}]
    /\ sweep = Off \/ sweep \in Run
    /\ hook \in [Msg -> Count \cup {None}]
    /\ device \in [Msg -> Device]

Init ==
    /\ doc = [m \in Msg |-> None] /\ late = [m \in Msg |-> 0]
    /\ trigger = [m \in Msg |-> "idle"]
    /\ sweep = Off
    /\ hook = [m \in Msg |-> None]
    /\ device = [m \in Msg |-> "nothing"]

Is(m, s) == doc[m] # None /\ doc[m].status = s

-----------------------------------------------------------------------------
(* The document's writers: each merges some fields *)

\* The message gets a nextRetryAt of now, and one in the future.
Due(m) == [n \in Msg |-> IF n = m THEN 1 ELSE IF late[n] = 0 THEN 0 ELSE late[n] + 1]
Postponed(m) ==
    [n \in Msg |-> IF n = m THEN 0
                   ELSE IF late[m] # 0 /\ late[n] > late[m] THEN late[n] - 1 ELSE late[n]]

\* enqueueMessage: due at once.
Enqueue(m) ==
    /\ doc' = [doc EXCEPT ![m] = [status |-> "pending", attempts |-> 0]]
    /\ late' = Due(m)

\* markSent: the status is written unread and the attempts stay.
MarkSent(m) ==
    /\ doc' = [doc EXCEPT ![m].status = "sent"]
    /\ late' = Postponed(m)

MarkAcked(m) ==
    /\ doc' = [doc EXCEPT ![m].status = "acked"]
    /\ late' = Postponed(m)

\* markRetry with a count the caller read earlier.
OneMore(a) == IF a = MaxAttempts THEN a ELSE a + 1
StatusAfterLax(a) == IF a > MaxAttempts THEN "failed" ELSE "pending"   \* mutant
StatusAfter(a) == IF a >= MaxAttempts THEN "failed" ELSE "pending"
MarkRetry(m, a) ==
    /\ doc' = [doc EXCEPT ![m] = [status |-> StatusAfter(a), attempts |-> a]]
    /\ late' = Postponed(m)

-----------------------------------------------------------------------------
(* Notehub: sendPresenceNotification *)

\* The answer step' is "accepted" or, the note taken or not, "refused".
NoteTaken(m) == IF device[m] = "nothing" THEN [device EXCEPT ![m] = "note"] ELSE device
Sent(m, answer) ==
    \/ answer = "accepted" /\ device' = NoteTaken(m)
    \/ answer = "refused" /\ device' \in {device, NoteTaken(m)}

-----------------------------------------------------------------------------
(* deliverPresenceMessage *)

TriggerEnqueue(m) ==
    /\ trigger[m] = "idle"
    /\ Enqueue(m)
    /\ trigger' = [trigger EXCEPT ![m] = "enqueued"]
    /\ UNCHANGED <<sweep, hook, device>>

TriggerSend(m) ==
    /\ trigger[m] = "enqueued"
    /\ \E answer \in {"accepted", "refused"} :
        Sent(m, answer) /\ trigger' = [trigger EXCEPT ![m] = answer]
    /\ UNCHANGED <<doc, late, sweep, hook>>

\* After a refusal the count is 1, whatever the sweep has counted meanwhile.
TriggerBook(m) ==
    /\ \/ trigger[m] = "accepted" /\ MarkSent(m)
       \/ trigger[m] = "refused" /\ MarkRetry(m, 1)
    /\ trigger' = [trigger EXCEPT ![m] = "done"]
    /\ UNCHANGED <<sweep, hook, device>>

\* The function is stopped, or a write fails, between two of its steps.
TriggerDies(m) ==
    /\ trigger[m] \in {"enqueued", "accepted", "refused"}
    /\ trigger' = [trigger EXCEPT ![m] = "done"]
    /\ UNCHANGED <<doc, late, sweep, hook, device>>

-----------------------------------------------------------------------------
(* retryPendingPresenceMessages *)

\* listRetryableMessages: the oldest Limit of each status, pending before sent,
\* those whose attempts are used up dropped only then.
Earlier(n, m) ==
    \/ Is(n, "pending") /\ Is(m, "sent")
    \/ doc[n].status = doc[m].status /\ late[n] > late[m]
Ahead(m) == {n \in Msg : late[n] > late[m] /\ doc[n].status = doc[m].status}
Found == {m \in Msg : late[m] # 0 /\ Cardinality(Ahead(m)) < Limit}
Retried == {m \in Found : doc[m].attempts < MaxAttempts}
After(m) == Cardinality({n \in Retried : Earlier(m, n)})
Snapshot == {[msg |-> m, attempts |-> doc[m].attempts, after |-> After(m)] : m \in Retried}

\* The sweep's present message, and the step to the next one: the first of those left.
At(s) == sweep.step = s
Cur == sweep.cur
Goto(s) == sweep' = [sweep EXCEPT !.step = s]
TakeFirst(items) ==
    \E e \in items : /\ \A f \in items : e.after >= f.after
                     /\ sweep' = [step |-> "send", cur |-> e, rest |-> items \ {e}]
NextAlways ==   \* mutant: the loop's end is missed
    IF sweep.rest = {} THEN sweep' = [sweep EXCEPT !.step = "send", !.cur = None]
    ELSE TakeFirst(sweep.rest)
NextMessage == IF sweep.rest = {} THEN sweep' = Off ELSE TakeFirst(sweep.rest)

SweepStart ==
    /\ At("off")
    /\ TakeFirst(Snapshot)
    /\ UNCHANGED <<doc, late, trigger, hook, device>>

SweepSend ==
    /\ At("send")
    /\ \E answer \in {"accepted", "refused"} : Sent(Cur.msg, answer) /\ Goto(answer)
    /\ UNCHANGED <<doc, late, trigger, hook>>

\* The count written is that of the snapshot, not of the document.
SweepRefused ==
    /\ At("refused")
    /\ MarkRetry(Cur.msg, OneMore(Cur.attempts))
    /\ NextMessage
    /\ UNCHANGED <<trigger, hook, device>>

SweepAccepted ==
    /\ At("accepted")
    /\ MarkSent(Cur.msg)
    /\ Goto("poll")
    /\ UNCHANGED <<trigger, hook, device>>

\* fetchLatestPresenceAck: the latest answer, or none if the call fails.
AnyAnswer(m) == device[m] \in {"ok", "nack", "recanted"}   \* mutant: ok is not looked at
GoodAnswer(m) == device[m] = "ok"
PollFinds ==
    /\ At("poll")
    /\ GoodAnswer(Cur.msg) /\ Goto("found")
    /\ UNCHANGED <<doc, late, trigger, hook, device>>
PollMisses ==
    /\ At("poll")
    /\ NextMessage
    /\ UNCHANGED <<doc, late, trigger, hook, device>>

SweepForgets ==   \* mutant: the answer is found and not booked
    /\ At("found") /\ NextMessage
    /\ UNCHANGED <<doc, late, trigger, hook, device>>
SweepAcked ==
    /\ At("found")
    /\ MarkAcked(Cur.msg)
    /\ NextMessage
    /\ UNCHANGED <<trigger, hook, device>>

SweepDies ==
    /\ sweep # Off /\ sweep' = Off
    /\ UNCHANGED <<doc, late, trigger, hook, device>>

-----------------------------------------------------------------------------
(* The device's answers and handlePresenceAckWebhook *)

\* The device answers a note well.  The webhook writes nothing that it has read
\* and arrives at any later time, once, more often or never.
AnswerGood(m) ==
    /\ device[m] # "nothing"
    /\ device' = [device EXCEPT ![m] = "ok"]
    /\ UNCHANGED <<doc, late, trigger, sweep, hook>>

WebhookGood(m) ==
    /\ device[m] \in {"ok", "recanted"}
    /\ MarkAcked(m)
    /\ UNCHANGED <<trigger, sweep, hook, device>>

\* It answers badly: the webhook reads the count, and writes it or dies.
AnswerBad(m) ==
    /\ device[m] # "nothing" /\ hook[m] = None /\ m \in Nacking
    /\ device' = [device EXCEPT ![m] = IF @ \in {"ok", "recanted"} THEN "recanted" ELSE "nack"]
    /\ hook' = [hook EXCEPT ![m] = doc[m].attempts]
    /\ UNCHANGED <<doc, late, trigger, sweep>>

WebhookBad(m) ==
    /\ hook[m] # None
    /\ MarkRetry(m, OneMore(hook[m]))
    /\ hook' = [hook EXCEPT ![m] = None]
    /\ UNCHANGED <<trigger, sweep, device>>

WebhookDies(m) ==
    /\ hook[m] # None /\ hook' = [hook EXCEPT ![m] = None]
    /\ UNCHANGED <<doc, late, trigger, sweep, device>>

\* computeNextRetryAt: the retry time of a message passes.
FallsDue(m) ==
    /\ Is(m, "pending") \/ Is(m, "sent")
    /\ late[m] = 0
    /\ late' = Due(m)
    /\ UNCHANGED <<doc, trigger, sweep, hook, device>>

-----------------------------------------------------------------------------
Trigger(m) == TriggerEnqueue(m) \/ TriggerSend(m) \/ TriggerBook(m) \/ TriggerDies(m)
Sweep == \/ SweepStart \/ SweepSend \/ SweepRefused \/ SweepAccepted
         \/ PollFinds \/ PollMisses \/ SweepAcked \/ SweepDies
Outside(m) == \/ AnswerGood(m) \/ AnswerBad(m) \/ WebhookGood(m)
              \/ WebhookBad(m) \/ WebhookDies(m) \/ FallsDue(m)

Next == Sweep \/ \E m \in Msg : Trigger(m) \/ Outside(m)

Spec == Init /\ [][Next]_vars

-----------------------------------------------------------------------------
(* Safety *)

Retryable(m) == (Is(m, "pending") \/ Is(m, "sent")) /\ doc[m].attempts < MaxAttempts

\* A pending message can always be retried and a failed one has used up its
\* attempts, although four unsynchronised writers merge parts of the document
\* and take the count from an earlier read (markRetry, markSent).
PendingIsRetryable ==
    \A m \in Msg : /\ Is(m, "pending") => Retryable(m)
                   /\ Is(m, "failed") => doc[m].attempts = MaxAttempts

\* No message is marked acked that its device never answered well, although bad
\* answers and answers to earlier copies reach both the webhook and the sweep's
\* poll (ack?.ok, body.ok).
AckedWasAnswered == \A m \in Msg : Is(m, "acked") => device[m] \in {"ok", "recanted"}

-----------------------------------------------------------------------------
(* Liveness *)

\* The scheduler starts the sweep every five minutes, retry times come, a sweep may
\* be stopped any number of times but not each time before the same step, and of
\* the polls that could find an answer one does.  Triggers and webhooks may all die.
Fairness ==
    /\ WF_vars(SweepStart \/ PollMisses) /\ SF_vars(SweepSend)
    /\ SF_vars(SweepRefused \/ SweepAccepted)
    /\ SF_vars(PollFinds) /\ SF_vars(SweepAcked)
    /\ \A m \in Msg : WF_vars(FallsDue(m))

LiveSpec == Init /\ [][Next]_vars /\ Fairness

\* An enqueued message reaches Notehub or is given up after its attempts, even
\* when the trigger dies before it sent it and although a sweep takes only the
\* Limit oldest (nextRetryAt = now in enqueueMessage, listRetryableMessages).
EnqueuedIsSent ==
    \A m \in Msg : doc[m] # None ~> (device[m] # "nothing" \/ Is(m, "failed"))

\* Sent, attempts used up: markSent ran after the markRetry that failed the
\* message.  It is never retried and stays at the head of the query for ever.
Stuck(m) == Is(m, "sent") /\ doc[m].attempts = MaxAttempts

\* A message whose device has answered well for good is sent again only finitely
\* often, although markSent overwrites acked: the sweep's own poll heals what the
\* webhook's race lost, as long as no stuck message fills the query.
AnsweredSettles ==
    \A m \in Msg :
        <>[](device[m] = "ok" /\ \A n \in Msg : ~Stuck(n)) => <>[]~Retryable(m)

=============================================================================
