-------------------------- MODULE RangeCallProofs --------------------------
(***************************************************************************)
(* Proofs about RangeCall, for every set of grants, limit of attempts and  *)
(* number of answers under way: the types, RangeIsOfThisGrant and          *)
(* AttemptsAreUsed.                                                        *)
(*                                                                         *)
(* The two properties speak of the moment a call returns.  What carries    *)
(* them there is, for a clean call, what the dwmac task is busy with: a    *)
(* result it holds was measured under the context of this grant, since the *)
(* task had nothing in hand when the call began (CallInv); and the Polls   *)
(* sent, the one the boat's task still has to send and the retry counter   *)
(* move together (CountInv).                                               *)
(***************************************************************************)
EXTENDS RangeCall, FiniteSetTheorems, TLAPS

-----------------------------------------------------------------------------
(* The inductive invariant *)

\* dw3000_range_to is under way, up to its wait; twr_start is behind it.
InCall == pc \in {"start", "send", "expect", "wait"}
Running == pc \in {"send", "expect", "wait"}

\* A Poll of the dwmac task is about to be sent.
PollDue == task.step = "sleep" \/ (task.step = "send" /\ tx.kind = "poll")

\* What dw3000_range_to waits for is registered until the result is given, and the
\* signal says that it was given (s_pending_active, s_done_sem).
WaitsOrSignalled == InCall => pending \in {leg, None} /\ (sem <=> pending = None)

\* A result on its way to a clean call is of its grant, and of its mark once
\* twr_observer let it through.
ResultIsAsked ==
    clean /\ InCall =>
        /\ result \in {None, [mark |-> leg, grant |-> context]}
        /\ task.step \in {"result", "give"}
               => task.dist \in {None, [mark |-> task.mark, grant |-> context]}
        /\ task.step = "give" => task.mark = leg

\* twr_retry sends a Poll only while attempts are left.
DueHasAttempt == PollDue => retry < MaxAttempts

\* Whatever exchange the Polls of a clean grant belong to, each but one was
\* counted by twr_retry before it was sent.
PollsAreCounted ==
    clean /\ pc # "idle" =>
        /\ polls <= MaxAttempts /\ polls <= retry + 1
        /\ PollDue => polls <= retry

\* In a clean call nothing is counted that is not sent: the first Poll, which the
\* boat's task still has to send while pc is "send", and one for each retry.
Owed == IF pc = "send" THEN polls + 1 ELSE polls
RetriesAreSent ==
    clean /\ Running =>
        /\ retry = MaxAttempts => Owed = MaxAttempts
        /\ retry < MaxAttempts /\ PollDue => Owed = retry
        /\ retry < MaxAttempts /\ ~PollDue => Owed = retry + 1

\* A failure on its way to a clean call is the one that twr_retry reports when the
\* attempts are used up.
FailureIsLast ==
    clean /\ Running =>
        /\ sem /\ result = None => retry = MaxAttempts
        /\ task.step \in {"result", "give"} /\ task.dist = None => retry = MaxAttempts

Shape == TypeOK /\ IsFiniteSet(air)
CallInv == WaitsOrSignalled /\ ResultIsAsked
CountInv == DueHasAttempt /\ PollsAreCounted /\ RetriesAreSent /\ FailureIsLast
IInv == Shape /\ CallInv /\ CountInv

-----------------------------------------------------------------------------
(* Types *)

\* What the dwmac task has in hand, by the step it is at.
LEMMA TaskShape ==
    ASSUME NEW t \in Task
    PROVE  /\ t.step \in {"send", "expect"} =>
                  /\ t.msg \in {"response", "report"} /\ t.mark \in Mark
                  /\ [t EXCEPT !.step = "expect"] \in Task
           /\ t.step \in {"result", "give"} =>
                  /\ t.mark \in Mark /\ t.dist \in Distance \cup {None}
                  /\ [t EXCEPT !.step = "give"] \in Task
BY DEF Task, Idle

\* The values that the actions store.
LEMMA Stored ==
    /\ \A m \in Mark : Poll(m) = [kind |-> "poll", mark |-> m, grant |-> context]
    /\ context \in Grant => \A m \in Mark : Poll(m) \in Frame /\ Final(m) \in Frame
    /\ Idle \in Task /\ [step |-> "sleep"] \in Task /\ [step |-> "end"] \in Task
    /\ \A m \in Mark : /\ [step |-> "send", msg |-> "report", mark |-> m] \in Task
                       /\ [step |-> "send", msg |-> "response", mark |-> m] \in Task
                       /\ \A d \in Distance \cup {None} :
                              [step |-> "result", mark |-> m, dist |-> d] \in Task
    /\ [step |-> "sleep"].step = "sleep" /\ [step |-> "end"].step = "end" /\ Idle.step = "idle"
BY DEF Poll, Final, Frame, Task, Idle

\* An answer under way names a mark and a grant.
LEMMA ReplyShape ==
    ASSUME NEW a \in Reply
    PROVE  /\ a.mark \in Mark /\ a.grant \in Grant /\ a.kind \in {"response", "report"}
           /\ [mark |-> a.mark, grant |-> a.grant] \in Distance
BY DEF Reply, Distance

\* Marks answer what is sent to them, and Polls are counted up to the limit.
LEMMA TransmitTypes ==
    ASSUME Shape, Transmit
    PROVE  /\ air' \subseteq Reply /\ IsFiniteSet(air') /\ Cardinality(air') <= AirMax
           /\ polls' \in 0..(MaxAttempts + 1)
<1>1. polls' \in 0..(MaxAttempts + 1)
    BY AttemptsAssumption DEF Shape, TypeOK, Transmit
<1>2. CASE UNCHANGED air
    BY <1>1, <1>2 DEF Shape, TypeOK
<1>3. CASE \E a \in Answers(tx) : air' = air \cup {a} /\ Cardinality(air') <= AirMax
    <2>1. PICK a \in Answers(tx) : air' = air \cup {a} /\ Cardinality(air') <= AirMax
        BY <1>3
    <2>2. Answers(tx) \subseteq Reply
        BY DEF Shape, TypeOK, Answers, Frame, Reply
    <2>3. IsFiniteSet(air \cup {a})
        BY FS_AddElement DEF Shape
    <2> QED
        BY <1>1, <2>1, <2>2, <2>3 DEF Shape, TypeOK
<1> QED
    BY <1>2, <1>3 DEF Transmit

\* Handling an answer takes it off the air.
LEMMA ReceivedTypes ==
    ASSUME Shape, NEW a \in air, Received(a)
    PROVE  air' \subseteq Reply /\ IsFiniteSet(air') /\ Cardinality(air') <= AirMax
<1>1. IsFiniteSet(air \ {a}) /\ Cardinality(air \ {a}) <= Cardinality(air)
    <2>1. (air \ {a}) \in SUBSET air
        OBVIOUS
    <2> QED
        BY <2>1, FS_Subset DEF Shape
<1>2. Cardinality(air) \in Nat /\ Cardinality(air \ {a}) \in Nat
    BY <1>1, FS_CardinalityType DEF Shape
<1> QED
    BY <1>1, <1>2, AirAssumption DEF Received, Shape, TypeOK

\* twr_retry counts up to the limit, and what follows it.
LEMMA RetryTypes ==
    ASSUME Shape, Retry
    PROVE  /\ retry' \in 0..MaxAttempts /\ task' \in Task
           /\ task'.step = "sleep" => retry' < MaxAttempts
<1>1. Attempt \in 0..MaxAttempts /\ dst \in Mark
    BY AttemptsAssumption DEF Shape, TypeOK, Attempt
<1>2. CASE Attempt < MaxAttempts
    BY <1>1, <1>2, Stored DEF Retry, GoesOn
<1>3. CASE ~(Attempt < MaxAttempts)
    <2>1. task' = [step |-> "result", mark |-> dst, dist |-> None]
        BY <1>3 DEF Retry, GoesOn
    <2>2. task' \in Task
        BY <1>1, <2>1, Stored
    <2>3. task'.step # "sleep" /\ retry' = Attempt
        BY <2>1 DEF Retry
    <2> QED
        BY <1>1, <2>2, <2>3
<1> QED
    BY <1>2, <1>3

LEMMA ShapeInit == Init => Shape
<1> SUFFICES ASSUME Init PROVE Shape
    OBVIOUS
<1>1. IsFiniteSet({}) /\ Cardinality({}) = 0
    BY FS_EmptySet
<1>2. tx \in Frame /\ task \in Task /\ task.step # "sleep"
    BY Stored DEF Init, Frame, Mark
<1>3. Cardinality(air) <= AirMax /\ IsFiniteSet(air) /\ air \subseteq Reply
    BY <1>1, AirAssumption DEF Init
<1>4. retry \in 0..MaxAttempts /\ polls \in 0..(MaxAttempts + 1)
    BY AttemptsAssumption DEF Init
<1>5. pc \in {"idle"} /\ leg \in Mark /\ dst \in Mark /\ expected \in {"nothing"}
    BY DEF Init, Mark
<1>6. /\ pending \in Mark \cup {None} /\ result \in Distance \cup {None} /\ context \in Grant
      /\ sem \in BOOLEAN /\ busy \in BOOLEAN /\ clean \in BOOLEAN
    BY DEF Init
<1> QED
    BY <1>2, <1>3, <1>4, <1>5, <1>6 DEF Shape, TypeOK

LEMMA ShapeStep ==
    ASSUME Shape, [Next]_vars
    PROVE  Shape'
<1> USE DEF Shape, TypeOK
<1>1. ASSUME NEW g \in Grant, TakeGrant(g) PROVE Shape'
    BY <1>1, AttemptsAssumption DEF TakeGrant, callVars, Mark
<1>2. ASSUME StartCall PROVE Shape'
    BY <1>2 DEF StartCall, twrVars, Taken
<1>3. ASSUME SlotIsOver PROVE Shape'
    BY <1>3 DEF SlotIsOver, callVars, twrVars, history
<1>4. ASSUME Start PROVE Shape'
    BY <1>4, Stored, AttemptsAssumption DEF Start, callVars, Idle
<1>5. ASSUME Send PROVE Shape'
    <2>1. Transmit
        BY <1>5 DEF Send
    <2> QED
        BY <1>5, <2>1, TransmitTypes DEF Send, callVars, twrVars
<1>6. ASSUME Expect PROVE Shape'
    BY <1>6 DEF Expect, callVars, history
<1>7. ASSUME Return PROVE Shape'
    BY <1>7 DEF Return, twrVars, history, Mark
<1>8. ASSUME TimeOut PROVE Shape'
    BY <1>8 DEF TimeOut, twrVars, history
<1>9. ASSUME Cancel PROVE Shape'
    <2>1. busy' \in BOOLEAN
        BY <1>9 DEF Cancel, NotBusy
    <2>2. retry' = 0 /\ 0 \in 0..MaxAttempts /\ 0 < MaxAttempts
        BY <1>9, AttemptsAssumption DEF Cancel
    <2> QED
        BY <1>9, <2>1, <2>2 DEF Cancel, callVars, history
<1>10. ASSUME WakeUp PROVE Shape'
    BY <1>10, Stored DEF WakeUp, callVars, twrVars, history
<1>11. ASSUME TaskSends PROVE Shape'
    <2>1. Transmit
        BY <1>11 DEF TaskSends
    <2>2. task' \in Task /\ task'.step # "sleep"
        BY <1>11, TaskShape DEF TaskSends, Task, Idle
    <2> QED
        BY <1>11, <2>1, <2>2, TransmitTypes DEF TaskSends, callVars, twrVars
<1>12. ASSUME TaskSendsTooLate PROVE Shape'
    BY <1>12, RetryTypes DEF TaskSendsTooLate, callVars, history
<1>13. ASSUME TaskExpects PROVE Shape'
    BY <1>13, TaskShape, Stored DEF TaskExpects, callVars, history
<1>14. ASSUME Observe PROVE Shape'
    <2>1. task' \in Task /\ task'.step # "sleep"
        BY <1>14, TaskShape, Stored DEF Observe, Task, Idle
    <2> QED
        BY <1>14, <2>1 DEF Observe, callVars, twrVars, history
<1>15. ASSUME Give PROVE Shape'
    BY <1>15, TaskShape, Stored DEF Give, twrVars, history
<1>16. ASSUME WindUp PROVE Shape'
    BY <1>16, Stored DEF WindUp, callVars, history
<1>17. ASSUME ReceiveTimeout PROVE Shape'
    BY <1>17, RetryTypes DEF ReceiveTimeout, callVars, history
<1>18. ASSUME NEW a \in air, Drop(a) PROVE Shape'
    BY <1>18, ReceivedTypes DEF Drop, callVars, twrVars, history
<1>19. ASSUME NEW a \in air, AnswerResponse(a) PROVE Shape'
    <2>1. Received(a) /\ a \in Reply
        BY <1>19 DEF AnswerResponse
    <2> QED
        BY <1>19, <2>1, ReceivedTypes, ReplyShape, Stored
        DEF AnswerResponse, callVars, twrVars, history
<1>20. ASSUME NEW a \in air, TakeReport(a) PROVE Shape'
    <2>1. Received(a) /\ a \in Reply
        BY <1>20 DEF TakeReport
    <2>2. /\ retry' \in 0..MaxAttempts /\ task' \in Task
          /\ task'.step = "sleep" => retry' < MaxAttempts
        <3>1. CASE Retry
            BY <3>1, RetryTypes
        <3>2. CASE ~Retry
            <4>1. /\ task' = [step |-> "result", mark |-> a.mark,
                              dist |-> [mark |-> a.mark, grant |-> a.grant]]
                  /\ retry' = retry
                BY <1>20, <3>2 DEF TakeReport
            <4> QED
                BY <2>1, <4>1, ReplyShape, Stored
        <3> QED
            BY <3>1, <3>2
    <2> QED
        BY <1>20, <2>1, <2>2, ReceivedTypes DEF TakeReport, callVars, history
<1>21. ASSUME UNCHANGED vars PROVE Shape'
    BY <1>21 DEF vars, callVars, twrVars, history
<1> QED
    BY <1>1, <1>2, <1>3, <1>4, <1>5, <1>6, <1>7, <1>8, <1>9, <1>10, <1>11, <1>12, <1>13,
       <1>14, <1>15, <1>16, <1>17, <1>18, <1>19, <1>20, <1>21
    DEF Next, BoatTask, Handler, Events

-----------------------------------------------------------------------------
(* A range is of its call *)

LEMMA CallInit == Init => CallInv
BY DEF Init, CallInv, WaitsOrSignalled, ResultIsAsked, InCall

\* The steps of the boat's task.  A call is clean only if the dwmac task has
\* nothing in hand when it begins.
LEMMA CallStepBoat ==
    ASSUME Shape, CallInv, BoatTask
    PROVE  CallInv'
<1> USE DEF CallInv, WaitsOrSignalled, ResultIsAsked, InCall
<1>1. ASSUME NEW g \in Grant, TakeGrant(g) PROVE CallInv'
    BY <1>1 DEF TakeGrant
<1>2. ASSUME StartCall PROVE CallInv'
    <2>1. leg # None
        BY NoneAssumption DEF Shape, TypeOK
    <2>2. clean' => task = Idle
        BY <1>2 DEF StartCall
    <2>3. Idle.step = "idle"
        BY Stored
    <2> QED
        BY <1>2, <2>1, <2>2, <2>3 DEF StartCall, Taken, twrVars
<1>3. ASSUME SlotIsOver PROVE CallInv'
    BY <1>3 DEF SlotIsOver
<1>4. ASSUME Start PROVE CallInv'
    BY <1>4 DEF Start, callVars
<1>5. ASSUME Send PROVE CallInv'
    BY <1>5 DEF Send, callVars, twrVars
<1>6. ASSUME Expect PROVE CallInv'
    BY <1>6 DEF Expect, callVars, history
<1>7. ASSUME Return PROVE CallInv'
    BY <1>7 DEF Return
<1>8. ASSUME TimeOut PROVE CallInv'
    BY <1>8 DEF TimeOut
<1>9. ASSUME Cancel PROVE CallInv'
    BY <1>9 DEF Cancel
<1> QED
    BY <1>1, <1>2, <1>3, <1>4, <1>5, <1>6, <1>7, <1>8, <1>9 DEF BoatTask

\* A retry reports nothing, or the failure of the exchange that twr_dst names.
LEMMA RetryReports ==
    ASSUME Retry
    PROVE  \/ task'.step = "sleep"
           \/ task'.step = "result" /\ task'.mark = dst /\ task'.dist = None
BY DEF Retry, GoesOn

\* The steps of the dwmac task: its results carry the context they were accepted
\* under, and twr_observer gives them to a call for their mark.
LEMMA CallStepTask ==
    ASSUME Shape, CallInv, Handler \/ Events
    PROVE  CallInv'
<1> USE DEF CallInv, WaitsOrSignalled, ResultIsAsked, InCall
<1>1. ASSUME WakeUp PROVE CallInv'
    BY <1>1 DEF WakeUp, callVars, twrVars, history
<1>2. ASSUME TaskSends PROVE CallInv'
    <2>1. task'.step = "expect"
        BY <1>2 DEF TaskSends, Shape, TypeOK, Task, Idle
    <2> QED
        BY <1>2, <2>1 DEF TaskSends, callVars, twrVars
<1>3. ASSUME TaskSendsTooLate PROVE CallInv'
    BY <1>3, RetryReports DEF TaskSendsTooLate, callVars, history
<1>4. ASSUME TaskExpects PROVE CallInv'
    BY <1>4, Stored DEF TaskExpects, callVars, history
<1>5. ASSUME Observe PROVE CallInv'
    <2>1. task.mark \in Mark /\ task.mark # None
        BY <1>5, TaskShape, NoneAssumption DEF Observe, Shape, TypeOK
    <2>2. CASE pending = task.mark
        <3>1. /\ task'.step = "give" /\ task'.mark = task.mark /\ task'.dist = task.dist
              /\ task.step = "result"
            BY <1>5, <2>2 DEF Observe, Shape, TypeOK, Task, Idle
        <3> QED
            BY <1>5, <2>1, <2>2, <3>1 DEF Observe, callVars, twrVars, history
    <2>3. CASE pending # task.mark
        <3>1. task'.step = "end"
            BY <1>5, <2>3 DEF Observe
        <3> QED
            BY <1>5, <3>1 DEF Observe, callVars, twrVars, history
    <2> QED
        BY <2>2, <2>3
<1>6. ASSUME Give PROVE CallInv'
    BY <1>6, Stored DEF Give, twrVars, history
<1>7. ASSUME WindUp PROVE CallInv'
    BY <1>7, Stored DEF WindUp, callVars, history
<1>8. ASSUME ReceiveTimeout PROVE CallInv'
    BY <1>8, RetryReports DEF ReceiveTimeout, callVars, history
<1>9. ASSUME NEW a \in air, Drop(a) PROVE CallInv'
    BY <1>9 DEF Drop, callVars, twrVars, history
<1>10. ASSUME NEW a \in air, AnswerResponse(a) PROVE CallInv'
    <2>1. task'.step = "send"
        BY <1>10 DEF AnswerResponse
    <2> QED
        BY <1>10, <2>1 DEF AnswerResponse, callVars, twrVars, history
<1>11. ASSUME NEW a \in air, TakeReport(a) PROVE CallInv'
    <2>1. \/ task'.step = "sleep"
          \/ /\ task'.step = "result"
             /\ task'.dist \in {None, [mark |-> task'.mark, grant |-> context]}
        <3>1. CASE Retry
            BY <3>1, RetryReports
        <3>2. CASE ~Retry
            BY <1>11, <3>2 DEF TakeReport, Accepts
        <3> QED
            BY <3>1, <3>2
    <2> QED
        BY <1>11, <2>1 DEF TakeReport, callVars, history
<1> QED
    BY <1>1, <1>2, <1>3, <1>4, <1>5, <1>6, <1>7, <1>8, <1>9, <1>10, <1>11 DEF Handler, Events

LEMMA CallStep ==
    ASSUME Shape, CallInv, [Next]_vars
    PROVE  CallInv'
<1>1. CASE UNCHANGED vars
    BY <1>1 DEF vars, callVars, twrVars, history, CallInv, WaitsOrSignalled, ResultIsAsked, InCall
<1> QED
    BY <1>1, CallStepBoat, CallStepTask DEF Next

-----------------------------------------------------------------------------
(* The attempts of a call *)

LEMMA CountInit == Init => CountInv
<1> SUFFICES ASSUME Init PROVE CountInv
    OBVIOUS
<1>1. ~PollDue
    BY Stored DEF Init, PollDue
<1> QED
    BY <1>1 DEF Init, CountInv, DueHasAttempt, PollsAreCounted, RetriesAreSent, FailureIsLast,
                Running

\* The types that the arithmetic needs, before and after a step.
LEMMA CountTypes ==
    ASSUME Shape, Shape'
    PROVE  /\ MaxAttempts \in Nat /\ MaxAttempts > 0
           /\ retry \in Nat /\ retry <= MaxAttempts /\ polls \in Nat
           /\ retry' \in Nat /\ retry' <= MaxAttempts /\ polls' \in Nat
BY AttemptsAssumption DEF Shape, TypeOK

\* A transmission counts the Poll that it sends, when the grant is clean.
LEMMA TransmitCounts ==
    ASSUME Transmit
    PROVE  polls' = IF clean /\ pc # "idle" /\ tx.kind = "poll" /\ polls <= MaxAttempts
                    THEN polls + 1 ELSE polls
BY DEF Transmit

\* A step after which the same Polls are due, with the same counters, in the same
\* grant, and with no new failure on its way, keeps the counts.
LEMMA CountsStay ==
    ASSUME CountInv, UNCHANGED <<retry, polls>>,
           PollDue' <=> PollDue,
           clean' => clean,
           pc' # "idle" => pc # "idle",
           Running' => Running /\ (pc' = "send" <=> pc = "send"),
           clean' /\ Running' => FailureIsLast'
    PROVE  CountInv'
BY DEF CountInv, DueHasAttempt, PollsAreCounted, RetriesAreSent, FailureIsLast, Owed

LEMMA CountStepBoat ==
    ASSUME Shape, Shape', CallInv, CountInv, BoatTask
    PROVE  CountInv'
<1>0. /\ MaxAttempts \in Nat /\ MaxAttempts > 0
      /\ retry \in Nat /\ retry <= MaxAttempts /\ polls \in Nat
      /\ retry' \in Nat /\ retry' <= MaxAttempts /\ polls' \in Nat
    BY CountTypes
<1> USE DEF CountInv, DueHasAttempt, PollsAreCounted, RetriesAreSent, FailureIsLast, Owed,
            Running, PollDue
<1>1. ASSUME NEW g \in Grant, TakeGrant(g) PROVE CountInv'
    BY <1>0, <1>1 DEF TakeGrant
<1>2. ASSUME StartCall PROVE CountInv'
    BY <1>0, <1>2 DEF StartCall, twrVars
<1>3. ASSUME SlotIsOver PROVE CountInv'
    BY <1>3 DEF SlotIsOver, history, twrVars
<1>4. ASSUME Start PROVE CountInv'
    <2>1. leg # None
        BY NoneAssumption DEF Shape, TypeOK
    <2>2. clean' => task'.step = "idle" /\ ~sem'
        BY <1>4, <2>1, Stored DEF Start, callVars, CallInv, WaitsOrSignalled, InCall
    <2>3. retry' = 0 /\ polls' = 0 /\ pc' = "send"
        BY <1>4 DEF Start
    <2> QED
        BY <1>0, <2>2, <2>3
<1>5. ASSUME Send PROVE CountInv'
    <2>1. clean' => clean /\ task.step = "idle" /\ tx.kind = "poll"
        <3>1. clean' => clean /\ task = Idle /\ tx = Poll(leg)
            BY <1>5 DEF Send
        <3>2. Poll(leg).kind = "poll" /\ Idle.step = "idle"
            BY Stored DEF Poll
        <3> QED
            BY <3>1, <3>2
    <2>2. polls' = IF clean /\ pc # "idle" /\ tx.kind = "poll" /\ polls <= MaxAttempts
                   THEN polls + 1 ELSE polls
        BY <1>5, TransmitCounts DEF Send
    <2>3. UNCHANGED <<retry, task, tx, sem, result>> /\ pc = "send" /\ pc' = "expect"
        BY <1>5 DEF Send, twrVars, callVars
    <2> QED
        BY <1>0, <2>1, <2>2, <2>3
<1>6. ASSUME Expect PROVE CountInv'
    BY <1>0, <1>6 DEF Expect, callVars, history
<1>7. ASSUME Return PROVE CountInv'
    BY <1>0, <1>7 DEF Return, twrVars, history
<1>8. ASSUME TimeOut PROVE CountInv'
    BY <1>0, <1>8 DEF TimeOut, twrVars, history
<1>9. ASSUME Cancel PROVE CountInv'
    BY <1>0, <1>9 DEF Cancel
<1> QED
    BY <1>1, <1>2, <1>3, <1>4, <1>5, <1>6, <1>7, <1>8, <1>9 DEF BoatTask

\* twr_retry counts the Poll that it will send.
LEMMA RetryCounts ==
    ASSUME Shape, Shape', CountInv, Retry, ~PollDue,
           UNCHANGED <<pc, clean, polls, sem, result>>
    PROVE  CountInv'
<1>0. /\ MaxAttempts \in Nat /\ MaxAttempts > 0
      /\ retry \in Nat /\ retry <= MaxAttempts /\ polls \in Nat
      /\ retry' \in Nat /\ retry' <= MaxAttempts /\ polls' \in Nat
    BY CountTypes
<1>1. \/ retry' < MaxAttempts /\ retry' = retry + 1 /\ task'.step = "sleep"
      \/ retry' = MaxAttempts /\ retry' <= retry + 1 /\ retry <= retry'
         /\ task'.step = "result"
    BY <1>0 DEF Retry, Attempt, GoesOn
<1> QED
    BY <1>0, <1>1 DEF CountInv, DueHasAttempt, PollsAreCounted, RetriesAreSent,
                      FailureIsLast, Owed, Running, PollDue

LEMMA CountStepTask ==
    ASSUME Shape, Shape', CountInv, Handler \/ Events
    PROVE  CountInv'
<1>0. /\ MaxAttempts \in Nat /\ MaxAttempts > 0
      /\ retry \in Nat /\ retry <= MaxAttempts /\ polls \in Nat
      /\ retry' \in Nat /\ retry' <= MaxAttempts /\ polls' \in Nat
    BY CountTypes
<1> USE DEF FailureIsLast, Running, PollDue
<1>1. ASSUME WakeUp PROVE CountInv'
    <2>1. task'.step = "send" /\ tx'.kind = "poll" /\ task.step = "sleep"
        BY <1>1 DEF WakeUp, Poll
    <2> QED
        BY <1>1, <2>1, CountsStay DEF WakeUp, CountInv, callVars, twrVars, history
<1>2. ASSUME TaskSends PROVE CountInv'
    <2>1. task'.step = "expect" /\ task.step = "send"
        BY <1>2 DEF TaskSends, Shape, TypeOK, Task, Idle
    <2>2. polls' = IF clean /\ pc # "idle" /\ tx.kind = "poll" /\ polls <= MaxAttempts
                   THEN polls + 1 ELSE polls
        BY <1>2, TransmitCounts DEF TaskSends
    <2> QED
        BY <1>0, <1>2, <2>1, <2>2
        DEF TaskSends, callVars, twrVars, CountInv, DueHasAttempt, PollsAreCounted,
            RetriesAreSent, Owed
<1>3. ASSUME TaskSendsTooLate PROVE CountInv'
    BY <1>3, RetryCounts DEF TaskSendsTooLate, callVars, history
<1>4. ASSUME TaskExpects PROVE CountInv'
    BY <1>4, CountsStay, Stored DEF TaskExpects, CountInv, callVars, history
<1>5. ASSUME Observe PROVE CountInv'
    <2>1. \/ task'.step = "end"
          \/ task'.step = "give" /\ task'.dist = task.dist
        BY <1>5 DEF Observe, Shape, TypeOK, Task, Idle
    <2> QED
        BY <1>5, <2>1, CountsStay DEF Observe, CountInv, callVars, twrVars, history
<1>6. ASSUME Give PROVE CountInv'
    BY <1>6, CountsStay, Stored DEF Give, CountInv, twrVars, history
<1>7. ASSUME WindUp PROVE CountInv'
    BY <1>7, CountsStay, Stored DEF WindUp, CountInv, callVars, history
<1>8. ASSUME ReceiveTimeout PROVE CountInv'
    BY <1>8, RetryCounts, Stored DEF ReceiveTimeout, callVars, history
<1>9. ASSUME NEW a \in air, Drop(a) PROVE CountInv'
    BY <1>9, CountsStay DEF Drop, CountInv, callVars, twrVars, history
<1>10. ASSUME NEW a \in air, AnswerResponse(a) PROVE CountInv'
    <2>1. task'.step = "send" /\ tx'.kind = "final" /\ task.step = "idle"
        BY <1>10, Stored DEF AnswerResponse, Final, Received
    <2> QED
        BY <1>10, <2>1, CountsStay DEF AnswerResponse, CountInv, callVars, twrVars, history
<1>11. ASSUME NEW a \in air, TakeReport(a) PROVE CountInv'
    <2>1. task.step = "idle"
        BY <1>11, Stored DEF TakeReport, Received
    <2>2. CASE Retry
        BY <1>11, <2>1, <2>2, RetryCounts DEF TakeReport, callVars, history
    <2>3. CASE ~Retry
        <3>1. task'.step = "result" /\ task'.dist # None /\ retry' = retry
            <4>1. a \in Reply
                BY DEF Shape, TypeOK
            <4> QED
                BY <1>11, <2>3, <4>1, ReplyShape, NoneAssumption DEF TakeReport
        <3> QED
            BY <1>11, <2>1, <3>1, CountsStay DEF TakeReport, CountInv, callVars, history
    <2> QED
        BY <2>2, <2>3
<1> QED
    BY <1>1, <1>2, <1>3, <1>4, <1>5, <1>6, <1>7, <1>8, <1>9, <1>10, <1>11 DEF Handler, Events

LEMMA CountStep ==
    ASSUME Shape, Shape', CallInv, CountInv, [Next]_vars
    PROVE  CountInv'
<1>1. CASE UNCHANGED vars
    BY <1>1 DEF vars, callVars, twrVars, history, CountInv, DueHasAttempt, PollsAreCounted,
                RetriesAreSent, FailureIsLast, Owed, Running, PollDue
<1> QED
    BY <1>1, CountStepBoat, CountStepTask DEF Next

-----------------------------------------------------------------------------
(* Theorems *)

\* The tasks of the Boat keep the types, which result a clean call may be given,
\* and the counts of its Polls (dw3000_range_to, twr_retry, twr_observer).
THEOREM CallInvariant == Spec => []IInv
<1>1. Init => IInv
    BY ShapeInit, CallInit, CountInit DEF IInv
<1>2. IInv /\ [Next]_vars => IInv'
    <2> SUFFICES ASSUME IInv, [Next]_vars PROVE IInv'
        OBVIOUS
    <2>1. Shape'
        BY ShapeStep DEF IInv
    <2>2. CallInv'
        BY CallStep DEF IInv
    <2>3. CountInv'
        BY <2>1, CountStep DEF IInv
    <2> QED
        BY <2>1, <2>2, <2>3 DEF IInv
<1> QED
    BY <1>1, <1>2, PTL DEF Spec

\* Every variable has its type, and a retry that pauses has an attempt left.
THEOREM TypeCorrect == Spec => []TypeOK
<1>1. IInv => TypeOK
    BY DEF IInv, Shape
<1> QED
    BY <1>1, CallInvariant, PTL

\* A range that dw3000_range_to returns was measured with its mark and under its
\* grant, when the dwmac task was between two events as the call began.
THEOREM RangeBelongs == Spec => []RangeIsOfThisGrant
<1>1. IInv => RangeIsOfThisGrant
    BY DEF IInv, CallInv, ResultIsAsked, InCall, RangeIsOfThisGrant, Returned
<1> QED
    BY <1>1, CallInvariant, PTL

\* Such a call sends no more Polls than its attempts, and fails only after it sent
\* them all (twr_start, twr_retry).
THEOREM AttemptsAllUsed == Spec => []AttemptsAreUsed
<1>1. IInv => AttemptsAreUsed
    <2> SUFFICES ASSUME IInv PROVE AttemptsAreUsed
        OBVIOUS
    <2>1. clean /\ pc # "idle" => polls <= MaxAttempts
        BY DEF IInv, CountInv, PollsAreCounted
    <2>2. Returned /\ result = None => polls = MaxAttempts
        BY DEF IInv, CountInv, FailureIsLast, RetriesAreSent, Running, Owed, Returned
    <2> QED
        BY <2>1, <2>2 DEF AttemptsAreUsed
<1> QED
    BY <1>1, CallInvariant, PTL

=============================================================================
