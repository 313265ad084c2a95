----------------------------- MODULE RangeCall -----------------------------
(***************************************************************************)
(* How a Boat ranges within a grant: boat_run_grant and the blocking       *)
(* dw3000_range_to (main) on one core, the initiator of libdeca's ranging  *)
(* in the dwmac task on the other.  They share without a lock what waits   *)
(* for a result (dw3000_ranging.c), the state of the exchange (ranging.c)  *)
(* and the one transmit buffer (dwmac.c), so an action is a run of         *)
(* statements during which neither task depends on the other.              *)
(*                                                                         *)
(* Radio.  A frame on air that this Boat transmits may draw an answer; an  *)
(* answer is handled later, in any order with others, or never.  Bound:    *)
(* AirMax answers are under way.  A receive timeout is handled at any      *)
(* moment: an erroneous frame of anyone queues one as well, as long as     *)
(* current_tx holds a preamble timeout (dwmac_irq_err_cb).                 *)
(*                                                                         *)
(* Data.  A grant stands for the context made from it.  A distance is what *)
(* it was measured with: the mark and the grant.                           *)
(***************************************************************************)
EXTENDS Integers, FiniteSets

CONSTANTS
    Grant,        \* contexts
    MaxAttempts,  \* boat_range_retries + 1
    AirMax,       \* bound: answers under way
    None

ASSUME AttemptsAssumption == MaxAttempts \in Nat \ {0}
ASSUME AirAssumption == AirMax \in Nat

Mark == {"starboard", "port"}

VARIABLES
    \* boat_task
    pc,        \* where it is in dw3000_range_to; "idle" outside a grant
    leg,       \* the mark it ranges to
    \* dw3000_ranging.c
    pending,   \* s_pending_addr while s_pending_active
    sem,       \* s_done_sem
    result,    \* s_result_cm and s_result_ok: a distance, or None for a failure
    \* ranging.c
    context,   \* twr_tx_context
    dst,       \* twr_dst
    retry,     \* retry
    expected,  \* expected_msg
    busy,      \* in_progress
    \* dwmac.c
    tx,        \* tx_buffer
    \* the dwmac task
    task,      \* where it is in its handler, and what for
    \* the radio
    air,       \* answers under way
    \* history
    clean,     \* the dwmac task was between two events when each call of the grant began
    polls      \* Polls transmitted in a clean call

callVars == <<pending, sem, result>>
twrVars == <<context, dst, retry, expected, busy>>
history == <<clean, polls>>
vars == <<pc, leg, callVars, twrVars, tx, task, air, history>>

-----------------------------------------------------------------------------
(* Types *)

Distance == [mark: Mark, grant: Grant]
ASSUME NoneAssumption == None \notin Mark \cup Distance

Frame == [kind: {"poll", "final"}, mark: Mark, grant: Grant]
Reply == [kind: {"response"}, mark: Mark, grant: Grant]
         \cup [kind: {"report"}, mark: Mark, grant: Grant, good: BOOLEAN]

Idle == [step |-> "idle"]
Task == {Idle, [step |-> "sleep"]}
        \cup [step: {"fill", "send", "expect"}, msg: {"response", "report"}, mark: Mark]
        \cup [step: {"result", "give"}, mark: Mark, dist: Distance \cup {None}]
        \cup [step: {"end"}]

\* Every variable has its type, and a retry that pauses has an attempt left.
TypeOK ==
    /\ pc \in {"idle", "ready", "start", "send", "expect", "wait", "cancel"}
    /\ leg \in Mark
    /\ pending \in Mark \cup {None} /\ sem \in BOOLEAN /\ result \in Distance \cup {None}
    /\ context \in Grant /\ dst \in Mark /\ retry \in 0..MaxAttempts
    /\ expected \in {"nothing", "response", "report"} /\ busy \in BOOLEAN
    /\ tx \in Frame /\ task \in Task /\ (task.step = "sleep" => retry < MaxAttempts)
    /\ air \subseteq Reply /\ Cardinality(air) <= AirMax
    /\ clean \in BOOLEAN /\ polls \in 0..(MaxAttempts + 1)

Init ==
    /\ pc = "idle" /\ leg = "starboard"
    /\ pending = None /\ sem = FALSE /\ result = None
    /\ context \in Grant /\ dst = "starboard" /\ retry = 0 /\ expected = "nothing"
    /\ busy = FALSE
    /\ tx = [kind |-> "poll", mark |-> "starboard", grant |-> context]
    /\ task = Idle /\ air = {} /\ clean = TRUE /\ polls = 0

-----------------------------------------------------------------------------
(* Transmission *)

Poll(m) == [kind |-> "poll", mark |-> m, grant |-> context]
Final(m) == [kind |-> "final", mark |-> m, grant |-> context]

\* What a mark answers.  A distance it could not compute or that is 0 is not good.
Answers(f) ==
    IF f.kind = "poll" THEN {[kind |-> "response", mark |-> f.mark, grant |-> f.grant]}
    ELSE [kind: {"report"}, mark: {f.mark}, grant: {f.grant}, good: BOOLEAN]

\* dwmac_transmit sends what the one buffer holds by now.
Transmit ==
    /\ \/ UNCHANGED air
       \/ \E a \in Answers(tx) : air' = air \cup {a} /\ Cardinality(air') <= AirMax
    /\ polls' = IF clean /\ pc # "idle" /\ tx.kind = "poll" /\ polls <= MaxAttempts
                THEN polls + 1 ELSE polls

-----------------------------------------------------------------------------
(* boat_task *)

\* boat_run_grant: a nonce that no frame under way carries.
TakeGrant(g) ==
    /\ pc = "idle"
    /\ \A a \in air : a.grant # g
    /\ context' = g /\ leg' = "starboard" /\ pc' = "ready"
    /\ clean' = TRUE /\ polls' = 0
    /\ UNCHANGED <<callVars, dst, retry, expected, busy, tx, task, air>>

\* now_ms() < deadline, and dw3000_range_to up to twr_start.
KeepSignal(s) == s   \* mutant
Taken(s) == FALSE
StartCall ==
    /\ pc = "ready" /\ pc' = "start"
    /\ sem' = Taken(sem) /\ pending' = leg /\ result' = None
    /\ clean' = (clean /\ task = Idle)
    /\ UNCHANGED <<leg, twrVars, tx, task, air, polls>>

SlotIsOver ==
    /\ pc = "ready" /\ pc' = "idle"
    /\ UNCHANGED <<leg, callVars, twrVars, tx, task, air, history>>

\* twr_start, twr_send_poll: the frame is built, sent, and its answer expected.
Start ==
    /\ pc = "start" /\ pc' = "send"
    /\ dst' = leg /\ retry' = 0 /\ busy' = TRUE /\ tx' = Poll(leg)
    /\ clean' = (clean /\ task = Idle /\ pending = leg) /\ polls' = 0
    /\ UNCHANGED <<leg, callVars, context, expected, task, air>>

Send ==
    /\ pc = "send" /\ pc' = "expect"
    /\ Transmit
    /\ clean' = (clean /\ task = Idle /\ tx = Poll(leg))
    /\ UNCHANGED <<leg, callVars, twrVars, tx, task>>

Expect ==
    /\ pc = "expect" /\ pc' = "wait"
    /\ expected' = "response"
    /\ UNCHANGED <<leg, callVars, context, dst, retry, busy, tx, task, air, history>>

\* The completion is signalled: after a range to Starboard comes one to Port.
Return ==
    /\ pc = "wait" /\ sem
    /\ sem' = FALSE
    /\ IF result # None /\ leg = "starboard" THEN pc' = "ready" /\ leg' = "port"
       ELSE pc' = "idle" /\ UNCHANGED leg
    /\ UNCHANGED <<pending, result, twrVars, tx, task, air, history>>

\* The wait ends without: s_pending_active is cleared, then twr_cancel.
TimeOut ==
    /\ pc = "wait" /\ ~sem /\ pc' = "cancel"
    /\ pending' = None
    /\ UNCHANGED <<leg, sem, result, twrVars, tx, task, air, history>>

StaysBusy(b) == b   \* mutant
NotBusy(b) == FALSE
Cancel ==
    /\ pc = "cancel" /\ pc' = "idle"
    /\ busy' = NotBusy(busy) /\ retry' = 0 /\ expected' = "nothing"
    /\ UNCHANGED <<leg, callVars, context, dst, tx, task, air, history>>

-----------------------------------------------------------------------------
(* The dwmac task *)

Received(a) == task = Idle /\ a \in air /\ air' = air \ {a}

\* twr_handle_message drops what is not expected; the context is compared next.
\* When nothing is expected, everything is let in.
AnyContext(a) == expected \in {"nothing", a.kind}   \* mutant
Accepts(a) == expected \in {"nothing", a.kind} /\ a.grant = context

Drop(a) ==
    /\ Received(a) /\ ~Accepts(a)
    /\ UNCHANGED <<pc, leg, callVars, twrVars, tx, task, history>>

\* twr_send_final: built at once, sent in its time.
AnswerResponse(a) ==
    /\ Received(a) /\ a.kind = "response" /\ Accepts(a)
    /\ tx' = Final(a.mark)
    /\ task' = [step |-> "send", msg |-> "report", mark |-> a.mark]
    /\ UNCHANGED <<pc, leg, callVars, twrVars, history>>

\* twr_retry: after a pause, a Poll to whatever twr_dst is then; or it gives up.
Attempt == IF retry < MaxAttempts THEN retry + 1 ELSE retry   \* beyond the limit all are alike
OnceMore(r) == r <= MaxAttempts   \* mutant
GoesOn(r) == r < MaxAttempts
Retry ==
    /\ retry' = Attempt
    /\ task' = IF GoesOn(Attempt) THEN [step |-> "sleep"]
               ELSE [step |-> "result", mark |-> dst, dist |-> None]

WakeUp ==
    /\ task.step = "sleep"
    /\ tx' = Poll(dst)
    /\ task' = [step |-> "send", msg |-> "response", mark |-> dst]
    /\ UNCHANGED <<pc, leg, callVars, twrVars, air, history>>

TaskSends ==
    /\ task.step = "send"
    /\ Transmit
    /\ task' = [task EXCEPT !.step = "expect"]
    /\ UNCHANGED <<pc, leg, callVars, twrVars, tx, clean>>

\* A delayed transmission whose time has passed.
TaskSendsTooLate ==
    /\ task.step = "send" /\ tx.kind = "final" /\ task.msg = "report"
    /\ Retry
    /\ UNCHANGED <<pc, leg, callVars, context, dst, expected, busy, tx, air, history>>

TaskExpects ==
    /\ task.step = "expect"
    /\ expected' = task.msg /\ task' = Idle
    /\ UNCHANGED <<pc, leg, callVars, context, dst, retry, busy, tx, air, history>>

\* twr_handle_report, twr_handle_result.
TakeReport(a) ==
    /\ Received(a) /\ a.kind = "report" /\ Accepts(a)
    /\ expected' = "nothing"
    /\ \/ /\ a.good
          /\ task' = [step |-> "result", mark |-> a.mark,
                      dist |-> [mark |-> a.mark, grant |-> a.grant]]
          /\ UNCHANGED retry
       \/ ~a.good /\ Retry
    /\ UNCHANGED <<pc, leg, callVars, context, dst, busy, tx, history>>

\* twr_handle_timeout.
ReceiveTimeout ==
    /\ task = Idle /\ expected # "nothing"
    /\ Retry
    /\ UNCHANGED <<pc, leg, callVars, context, dst, expected, busy, tx, air, history>>

\* twr_observer: the test, and what it lets through.
Observe ==
    /\ task.step = "result"
    /\ task' = IF pending = task.mark THEN [task EXCEPT !.step = "give"] ELSE [step |-> "end"]
    /\ UNCHANGED <<pc, leg, callVars, twrVars, tx, air, history>>

Give ==
    /\ task.step = "give" /\ task' = [step |-> "end"]
    /\ result' = task.dist /\ pending' = None /\ sem' = TRUE
    /\ UNCHANGED <<pc, leg, twrVars, tx, air, history>>

\* The last line of twr_handle_result, or of twr_retry.
WindUp ==
    /\ task.step = "end" /\ task' = Idle
    /\ busy' = FALSE
    /\ UNCHANGED <<pc, leg, callVars, context, dst, retry, expected, tx, air, history>>

-----------------------------------------------------------------------------
BoatTask == \/ (\E g \in Grant : TakeGrant(g)) \/ StartCall \/ SlotIsOver \/ Start \/ Send
            \/ Expect \/ Return \/ TimeOut \/ Cancel

Handler == \/ WakeUp \/ TaskSends \/ TaskSendsTooLate \/ TaskExpects
           \/ Observe \/ Give \/ WindUp

Events == ReceiveTimeout \/ \E a \in air : Drop(a) \/ AnswerResponse(a) \/ TakeReport(a)

Next == BoatTask \/ Handler \/ Events

Spec == Init /\ [][Next]_vars

-----------------------------------------------------------------------------
(* Safety *)

Returned == pc = "wait" /\ sem /\ clean

\* A range that dw3000_range_to returns was measured with the mark it was asked
\* for and in the grant it was asked under, whatever exchanges, answers and
\* signals earlier calls left behind: both ranges of a position come from one
\* grant.  Only for calls that began while the dwmac task was between two events:
\* twr_observer matches by the address alone, and a Report it is just handling
\* when a call times out is given to the next call (dw3000_ranging.c).
RangeIsOfThisGrant ==
    Returned /\ result # None => result = [mark |-> leg, grant |-> context]

\* A call, under the same condition, sends no more than its attempts, and fails
\* only after it sent them all, although the counter and the expected message are
\* shared with retries and answers of other exchanges (twr_retry).
AttemptsAreUsed ==
    /\ clean /\ pc # "idle" => polls <= MaxAttempts
    /\ Returned /\ result = None => polls = MaxAttempts

-----------------------------------------------------------------------------
(* Liveness *)

\* Both tasks run, and a call's wait ends.
LiveSpec ==
    /\ Spec
    /\ WF_vars(Start \/ Send \/ Expect \/ Return \/ TimeOut \/ Cancel) /\ WF_vars(Handler)

\* An exchange is wound up or cancelled, whatever is lost and whichever task ends
\* it, so that twr_in_progress, which keeps other frames from being sent, does not
\* stay true for ever.  Again only for clean calls: one that is given the failure
\* of an earlier exchange returns without twr_cancel (dw3000_range_to).
RadioIsFreed == pc = "wait" /\ clean /\ busy ~> ~busy

=============================================================================
