----------------------------- MODULE StartLine -----------------------------
(***************************************************************************)
(* The UWB start-line protocol of main/start_line_ranging.c: the Port mark *)
(* keeps a volatile table of registered Boats and grants them, one after   *)
(* the other, a slot in which to range to Starboard and then to Port.      *)
(*                                                                         *)
(* Two tasks act on the Port (port_task and the dwmac receive task) and    *)
(* two on each Boat (boat_task and its dwmac task).  An action is one      *)
(* critical section, one radio call or one frame handler of one task; the  *)
(* tasks interleave between actions.                                       *)
(*                                                                         *)
(* Time.  A deadline or an age is one bit, "has it passed", which a clock  *)
(* action may set at any moment and which the code resets.  The one        *)
(* relation between clocks that is kept: port_task starts its wait for a   *)
(* slot after it computed the slot's deadline, so the wait ends later.     *)
(*                                                                         *)
(* Radio.  A frame is handled by its one interested receiver or is lost.   *)
(* Boats drop a frame whose UUID is not theirs without any effect, so a    *)
(* broadcast is modelled by what the Boat it names does.  A frame waits    *)
(* for its dwmac task a few milliseconds, less than the 20 ms the sender   *)
(* then sleeps (send_message), so sending and handling are one action; the *)
(* delays that matter, of a response that waits for port_task and of a     *)
(* grant that waits for boat_task, are states.                             *)
(*                                                                         *)
(* Data.  A UUID is the Boat itself.  The four fields that tie a ranging   *)
(* exchange to its grant (session, nonce, sequence, protocol version) are  *)
(* written and compared together: one GrantNonce stands for the tuple.     *)
(* The pair (Port session, configuration version), stored at registration  *)
(* and compared with each grant, is one Epoch.                             *)
(***************************************************************************)
EXTENDS Integers, FiniteSets

CONSTANTS
    Boat,        \* the Boats, each standing for its UUID
    NumSlots,    \* SL_MAX_BOATS, the size of s_boats
    LastAddr,    \* assignable short addresses are 1..LastAddr (0x0100..0xFFFE)
    MaxMissed,   \* max_missed_grants
    GrantNonce,  \* contexts a grant may carry
    RegNonce,    \* registration nonces a Boat may draw
    Epoch,       \* values of (session, configuration version)
    None         \* no message, no entry, no context

ASSUME SlotsAssumption == NumSlots \in Nat \ {0}
ASSUME AddrAssumption == LastAddr \in Nat \ {0}
ASSUME MissedAssumption == MaxMissed \in Nat \ {0}   \* valid_config refuses 0

Slot == 1..NumSlots
Addr == 1..LastAddr
Unassigned == 0    \* START_LINE_UNASSIGNED_ADDR, also "no active Boat"

VARIABLES
    \* Port, shared by its tasks
    table,       \* s_boats: Slot -> an entry or None
    cursor,      \* s_queue_cursor
    epoch,       \* s_session_id with s_config_version
    rsp,         \* s_pending_register_rsp, or None
    active,      \* s_active_boat
    grantNonce,  \* s_active_nonce and what goes with it
    open,        \* now_ms() <= s_grant_deadline_ms
    done,        \* s_port_done_sem
    auth,        \* s_authorized_twr_peer while its deadline is ahead
    exch,        \* libdeca's twr_exchange_context while a Final may follow
    busy,        \* twr_in_progress(): Port's own exchange is not wound up
    report,      \* the Boat whose Report is programmed but not yet on air
    \* Port, local to port_task
    pc,          \* where it is in its loop
    left,        \* count - visited
    target,      \* target_uuid of the grant being served
    \* Boats
    reg,         \* s_boat's registration
    pgrant,      \* s_pending_grant while s_pending_grant_valid
    leg,         \* where boat_run_grant is
    run,         \* the context boat_run_grant works under
    \* History, read by properties only
    credit,      \* the Boat credited in this slot and the context it ranged under
    unmeasured   \* from a baseline refresh that failed to the first grant after it

slotVars  == <<active, grantNonce, open, target>>
creditVars == <<done, credit>>
taskVars  == <<pc, left, unmeasured>>
twrVars   == <<auth, exch, busy, report>>
runVars   == <<leg, run>>
vars == <<table, cursor, epoch, rsp, slotVars, creditVars, taskVars, twrVars,
          reg, pgrant, runVars>>

-----------------------------------------------------------------------------
(* Types *)

Entry == [uuid: Boat, addr: Addr, missed: 0..MaxMissed,
          success: {"never", "recent", "old"}]
Response == [uuid: Boat, nonce: RegNonce, addr: Addr, epoch: Epoch]
Registration == [on: BOOLEAN, addr: Addr \cup {Unassigned}, nonce: RegNonce,
                 epoch: Epoch \cup {None}, heard: BOOLEAN]
Credit == [uuid: Boat, nonce: GrantNonce]

ASSUME NoneAssumption ==
    None \notin Boat \cup GrantNonce \cup Epoch \cup Entry \cup Response \cup Credit

PortSteps == {"top", "sweep", "refresh", "select", "send", "wait", "done", "miss", "clean"}

\* Every variable has its type: in particular a count of missed grants stays
\* within its limit and every address handed out is an assignable one.
TypeOK ==
    /\ table \in [Slot -> Entry \cup {None}]
    /\ cursor \in Slot
    /\ epoch \in Epoch
    /\ rsp \in Response \cup {None}
    /\ active \in Addr \cup {Unassigned}
    /\ grantNonce \in GrantNonce \cup {None}
    /\ open \in BOOLEAN /\ done \in BOOLEAN /\ busy \in BOOLEAN /\ unmeasured \in BOOLEAN
    /\ auth \in Addr \cup {Unassigned}
    /\ exch \in GrantNonce \cup {None}
    /\ report \in Boat \cup {None}
    /\ pc \in PortSteps
    /\ left \in Nat
    /\ target \in Boat \cup {None}
    /\ reg \in [Boat -> Registration]
    /\ pgrant \in [Boat -> GrantNonce \cup {None}]
    /\ leg \in [Boat -> {"off", "starboard", "ready", "admitted", "reported"}]
    /\ run \in [Boat -> GrantNonce \cup {None}]
    /\ credit \in Credit \cup {None}

-----------------------------------------------------------------------------
(* The table *)

Active(i) == table[i] # None
Holds(i, b) == Active(i) /\ table[i].uuid = b
HasAddr(i, a) == Active(i) /\ table[i].addr = a
Listed(b) == \E i \in Slot : Holds(i, b)
Used(a) == \E i \in Slot : HasAddr(i, a)

\* The slot and the address port_register gives a new UUID: the first of each.
FirstFreeSlot(i) == ~Active(i) /\ \A j \in Slot : j < i => Active(j)
CountedAddr(a) == a = Cardinality({i \in Slot : Active(i)}) + 1   \* mutant
LowestFreeAddr(a) == ~Used(a) /\ \A c \in Addr : c < a => Used(c)

\* Position of slot i in the circular scan that starts at the cursor.
Ahead(i) == (i + NumSlots - cursor) % NumSlots
FirstActive(i) == Active(i) /\ \A j \in Slot : Active(j) => i <= j   \* mutant
NextInQueue(i) == Active(i) /\ \A j \in Slot : Active(j) => Ahead(i) <= Ahead(j)

\* The slot after i, where the next scan starts.
StayAt(i) == i   \* mutant
CursorAfter(i) == (i % NumSlots) + 1

\* mark_missed_locked.
Miss(a) ==
    [i \in Slot |-> IF HasAddr(i, a) THEN [table[i] EXCEPT !.missed = @ + 1] ELSE table[i]]

\* expire_boats: too many missed grants in a row, or no range for too long.
ExpiresLate(e) == e.missed > MaxMissed \/ e.success = "old"   \* mutant
Expires(e) == e.missed >= MaxMissed \/ e.success = "old"
Expire ==
    LET gone == {i \in Slot : Active(i) /\ Expires(table[i])}
    IN table' = [i \in Slot |-> IF i \in gone THEN None ELSE table[i]]

-----------------------------------------------------------------------------
(* Random draws: a value that no live copy of an earlier one equals *)

FreshGrantNonces ==
    GrantNonce \ ({grantNonce, exch} \cup {run[b] : b \in Boat} \cup {pgrant[b] : b \in Boat})

FreshRegNonces(b) ==
    {n \in RegNonce : n # reg[b].nonce /\ ~(rsp # None /\ rsp.uuid = b /\ rsp.nonce = n)}

FreshEpochs ==
    {e \in Epoch \ {epoch} : e \notin {reg[b].epoch : b \in Boat}
                            /\ ~(rsp # None /\ rsp.epoch = e)}

-----------------------------------------------------------------------------
\* A Boat without registration.  Fields the code leaves at their old value but
\* does not read until it registers again have a fixed one here.
Unregistered(n) == [on |-> FALSE, addr |-> Unassigned, nonce |-> n, epoch |-> None,
                    heard |-> FALSE]

Init ==
    /\ table = [i \in Slot |-> None]
    /\ cursor = 1 /\ epoch \in Epoch /\ rsp = None
    /\ active = Unassigned /\ grantNonce = None /\ open = FALSE /\ target = None
    /\ done = FALSE /\ credit = None
    /\ auth = Unassigned /\ exch = None /\ busy = FALSE /\ report = None
    /\ pc = "top" /\ left = 0 /\ unmeasured = FALSE
    /\ reg \in [Boat -> {Unregistered(n) : n \in RegNonce}]
    /\ pgrant = [b \in Boat |-> None]
    /\ leg = [b \in Boat |-> "off"] /\ run = [b \in Boat |-> None]

-----------------------------------------------------------------------------
(* Registration *)

\* The single pending response: a later one overwrites an earlier one.
QueueResponse(b, a) ==
    rsp' = [uuid |-> b, nonce |-> reg[b].nonce, addr |-> a, epoch |-> epoch]

\* port_register, in Port's dwmac task.  A known UUID keeps its address and its
\* time of last success; a new one gets the first free slot and address.
RegisterMoved(b) ==   \* mutant: the address is allocated anew
    \E i \in Slot, a \in Addr :
        /\ Holds(i, b) /\ LowestFreeAddr(a)
        /\ table' = [table EXCEPT ![i] = [@ EXCEPT !.missed = 0, !.addr = a]]
        /\ QueueResponse(b, a)

RegisterKnown(b) ==
    \E i \in Slot :
        /\ Holds(i, b)
        /\ table' = [table EXCEPT ![i].missed = 0]
        /\ QueueResponse(b, table[i].addr)

RegisterNew(b) ==
    /\ ~Listed(b)
    /\ \E i \in Slot, a \in Addr :
        /\ FirstFreeSlot(i) /\ LowestFreeAddr(a)
        /\ table' = [table EXCEPT ![i] =
                        [uuid |-> b, addr |-> a, missed |-> 0, success |-> "never"]]
        /\ QueueResponse(b, a)

RegisterAlways(b) ==   \* mutant: also while it is registered
    /\ leg[b] = "off" /\ ~busy
    /\ RegisterKnown(b) \/ RegisterNew(b)
    /\ UNCHANGED <<cursor, epoch, slotVars, creditVars, taskVars, twrVars, reg, pgrant, runVars>>

\* boat_task broadcasts REGISTER_REQUEST with its current nonce and Port hears
\* it.  A request that is lost, or finds the table full, changes nothing.
Register(b) ==
    /\ ~reg[b].on /\ leg[b] = "off" /\ ~busy
    /\ RegisterKnown(b) \/ RegisterNew(b)
    /\ UNCHANGED <<cursor, epoch, slotVars, creditVars, taskVars, twrVars, reg, pgrant, runVars>>

\* boat_accept_registration, in the Boat's dwmac task.
AcceptRegistration(m) ==
    reg' = IF m.nonce = reg[m.uuid].nonce
           THEN [reg EXCEPT ![m.uuid] = [@ EXCEPT !.on = TRUE, !.addr = m.addr,
                                                  !.epoch = m.epoch, !.heard = FALSE]]
           ELSE reg

RenewNonce(b) == \E n \in FreshRegNonces(b) : reg' = [reg EXCEPT ![b].nonce = n]   \* mutant
Unregister(b) ==
    \E n \in FreshRegNonces(b) : reg' = [reg EXCEPT ![b] = Unregistered(n)]

\* boat_task gives up a registration after Port has been silent for the
\* effective timeout, but only once a grant was heard.
BoatTimeout(b) ==
    /\ reg[b].on /\ reg[b].heard /\ leg[b] = "off"
    /\ Unregister(b)
    /\ UNCHANGED <<table, cursor, epoch, rsp, slotVars, creditVars, taskVars, twrVars,
                   pgrant, runVars>>

-----------------------------------------------------------------------------
(* port_task *)

\* Every transmission starts with dwt_forcetrxoff: it drops a Report that is
\* programmed for later.
Transmit == report' = None

\* flush_pending_register_response: a response that cannot be sent is put back.
FlushResponse ==
    /\ pc = "top" /\ pc' = "sweep"
    /\ \/ /\ rsp # None /\ ~busy
          /\ rsp' = None /\ Transmit
          /\ AcceptRegistration(rsp) \/ UNCHANGED reg
       \/ /\ rsp = None \/ busy
          /\ UNCHANGED <<rsp, report, reg>>
    /\ UNCHANGED <<table, cursor, epoch, slotVars, creditVars, left, unmeasured, auth, exch,
                   busy, pgrant, runVars>>

\* expire_boats, then the pause and empty-table tests.
StartRotation ==
    /\ pc = "sweep"
    /\ Expire
    /\ LET count == Cardinality({i \in Slot : table'[i] # None})
       IN \/ pc' = "top" /\ UNCHANGED left
          \/ count > 0 /\ pc' = "refresh" /\ left' = count
    /\ UNCHANGED <<cursor, epoch, rsp, slotVars, creditVars, unmeasured, twrVars,
                   reg, pgrant, runVars>>

\* port_refresh_baseline.  The cached baseline is young enough, or Port ranges
\* to Starboard, which may fail: the rotation goes on all the same.  A Final
\* comes one response delay after Port's Response and the baseline takes at least
\* as long, so an outstanding one arrives meanwhile and is dropped (expected_msg).
\* The result wakes port_task before the dwmac task has wound the exchange up.
RefreshBaseline ==
    /\ pc = "refresh" /\ pc' = "select"
    /\ \/ UNCHANGED <<unmeasured, twrVars>>
       \/ /\ ~busy
          /\ unmeasured' \in BOOLEAN /\ busy' = TRUE /\ exch' = None /\ Transmit
          /\ UNCHANGED auth
    /\ UNCHANGED <<table, cursor, epoch, rsp, slotVars, creditVars, left,
                   reg, pgrant, runVars>>

\* The last line of the dwmac task's handler of the settled exchange.
WindUp ==
    /\ busy /\ busy' = FALSE
    /\ UNCHANGED <<table, cursor, epoch, rsp, slotVars, creditVars, taskVars, auth, exch, report,
                   reg, pgrant, runVars>>

\* A completion that was signalled too late for its slot is dropped.
KeepDone == UNCHANGED done   \* mutant
ClearDone == done' = FALSE

\* The grant's critical section and what follows before the grant is sent.
SelectBoat ==
    /\ pc = "select" /\ left > 0 /\ pc' = "send"
    /\ \E i \in Slot, n \in FreshGrantNonces :
        /\ NextInQueue(i)
        /\ cursor' = CursorAfter(i)
        /\ target' = table[i].uuid /\ active' = table[i].addr /\ grantNonce' = n
    /\ open' = TRUE /\ ClearDone /\ credit' = None /\ unmeasured' = FALSE
    /\ UNCHANGED <<table, epoch, rsp, left, twrVars, reg, pgrant, runVars>>

EndRotation ==
    /\ pc = "select" /\ (left = 0 \/ \A i \in Slot : ~Active(i))
    /\ pc' = "top" /\ left' = 0 /\ unmeasured' = FALSE
    /\ UNCHANGED <<table, cursor, epoch, rsp, slotVars, creditVars, twrVars,
                   reg, pgrant, runVars>>

\* accept_grant, in the Boat's dwmac task.  Another address means the grant is
\* not for this registration, another epoch that the registration is void.
AcceptGrant(b, a) ==
    LET mine == reg[b].on /\ reg[b].addr = a
    IN \/ /\ mine /\ epoch = reg[b].epoch
          /\ pgrant' = [pgrant EXCEPT ![b] = grantNonce]
          /\ reg' = [reg EXCEPT ![b].heard = TRUE]
       \/ /\ mine /\ epoch # reg[b].epoch
          /\ Unregister(b)
          /\ UNCHANGED pgrant
       \/ ~mine /\ UNCHANGED <<reg, pgrant>>

\* The grant is sent, and heard or lost.  While Port's own exchange is not wound
\* up it is not sent, and the slot is given away.
SendGrant ==
    /\ pc = "send"
    /\ \/ /\ ~busy /\ pc' = "wait" /\ Transmit
          /\ AcceptGrant(target, active) \/ UNCHANGED <<reg, pgrant>>
       \/ busy /\ pc' = "miss" /\ UNCHANGED <<report, reg, pgrant>>
    /\ UNCHANGED <<table, cursor, epoch, rsp, slotVars, creditVars, left, unmeasured,
                   auth, exch, busy, runVars>>

\* xSemaphoreTake(s_port_done_sem, grant_duration_ms).  The wait started after
\* the deadline was set, so it only runs out when the deadline has passed.
WaitForResult ==
    /\ pc = "wait"
    /\ \/ done /\ done' = FALSE /\ pc' = "done"
       \/ ~done /\ ~open /\ pc' = "miss" /\ UNCHANGED done
    /\ UNCHANGED <<table, cursor, epoch, rsp, slotVars, credit, left, unmeasured, twrVars,
                   reg, pgrant, runVars>>

\* The slot is closed, and counted as missed if it was.  The code leaves the old
\* nonce, which admits nothing without a deadline ahead.
CloseSlot ==
    /\ pc \in {"done", "miss"} /\ pc' = "clean"
    /\ table' = IF pc = "miss" THEN Miss(active) ELSE table
    /\ active' = Unassigned /\ grantNonce' = None /\ open' = FALSE /\ target' = None
    /\ credit' = None
    /\ UNCHANGED <<cursor, epoch, rsp, done, left, unmeasured, twrVars,
                   reg, pgrant, runVars>>

\* expire_boats after each slot.
SweepTable ==
    /\ pc = "clean" /\ pc' = "select" /\ left' = left - 1
    /\ Expire
    /\ UNCHANGED <<cursor, epoch, rsp, slotVars, creditVars, unmeasured, twrVars,
                   reg, pgrant, runVars>>

-----------------------------------------------------------------------------
(* boat_run_grant *)

\* boat_task takes the pending grant, whatever became of the registration since.
TakeGrant(b) ==
    /\ leg[b] = "off" /\ pgrant[b] # None
    /\ pgrant' = [pgrant EXCEPT ![b] = None]
    /\ leg' = [leg EXCEPT ![b] = "starboard"] /\ run' = [run EXCEPT ![b] = pgrant[b]]
    /\ UNCHANGED <<table, cursor, epoch, rsp, slotVars, creditVars, taskVars, twrVars, reg>>

\* The Boat-Starboard range succeeded and slot time is left.
StarboardDone(b) ==
    /\ leg[b] = "starboard"
    /\ leg' = [leg EXCEPT ![b] = "ready"]
    /\ UNCHANGED <<table, cursor, epoch, rsp, slotVars, creditVars, taskVars, twrVars,
                   reg, pgrant, run>>

EndRun(b) == leg' = [leg EXCEPT ![b] = "off"] /\ run' = [run EXCEPT ![b] = None]

\* A range failed for good or the Boat's own slot deadline passed.
GiveUp(b) ==
    /\ leg[b] # "off"
    /\ EndRun(b)
    /\ UNCHANGED <<table, cursor, epoch, rsp, slotVars, creditVars, taskVars, twrVars,
                   reg, pgrant>>

\* twr_retry after a receive timeout: Response, Final or Report did not arrive.
Retry(b) ==
    /\ leg[b] = "admitted" \/ (leg[b] = "reported" /\ report # b)
    /\ leg' = [leg EXCEPT ![b] = "ready"]
    /\ UNCHANGED <<table, cursor, epoch, rsp, slotVars, creditVars, taskVars, twrVars,
                   reg, pgrant, run>>

-----------------------------------------------------------------------------
(* The Boat-Port exchange, as Port's dwmac task answers it *)

\* start_line_ranging_allow_twr on a Poll of Boat b.
AdmitsPoll(b) == reg[b].addr = active /\ open /\ run[b] = grantNonce

\* The Poll is heard and answered with a Response that carries its context back.
\* A Poll that is lost, or not admitted, changes nothing.
AnswerPoll(b) ==
    /\ leg[b] = "ready"
    /\ AdmitsPoll(b) /\ ~busy
    /\ auth' = active /\ exch' = run[b] /\ Transmit
    /\ leg' = [leg EXCEPT ![b] = "admitted"]
    /\ UNCHANGED <<table, cursor, epoch, rsp, slotVars, creditVars, taskVars, busy,
                   reg, pgrant, run>>

\* Once the deadline is past, neither the peer nor its context lets anything in.
Deauthorize == auth' = Unassigned /\ exch' = None

\* allow_twr on a later message, then the context test of twr_handle_final.
AdmitsAnyFinal(b) == auth # Unassigned /\ reg[b].addr = auth /\ exch # None   \* mutant
AdmitsFinal(b) == auth # Unassigned /\ reg[b].addr = auth /\ exch # None /\ run[b] = exch

\* start_line_ranging_on_twr_result: the entry with the source address is
\* credited and port_task is woken.
Credits(b) ==
    /\ reg[b].addr = active /\ open
    /\ table' = [i \in Slot |-> IF HasAddr(i, active)
                    THEN [table[i] EXCEPT !.success = "recent", !.missed = 0] ELSE table[i]]
    /\ done' = TRUE /\ credit' = [uuid |-> b, nonce |-> exch]
    /\ UNCHANGED <<open, auth, exch>>

\* The deadline passes between the admission of the Final and its result.
CreditTooLate ==
    /\ open /\ open' = FALSE /\ Deauthorize
    /\ UNCHANGED <<table, done, credit>>

\* Boat b got the Response and its Final is heard: the Report is programmed for
\* later, and the range is credited without waiting for it to leave.
AnswerFinal(b) ==
    /\ leg[b] = "admitted"
    /\ AdmitsFinal(b) /\ ~busy
    /\ report' = b
    /\ Credits(b) \/ CreditTooLate
    /\ leg' = [leg EXCEPT ![b] = "reported"]
    /\ UNCHANGED <<cursor, epoch, rsp, active, grantNonce, target, taskVars, busy,
                   reg, pgrant, run>>

\* The programmed Report goes on air and reaches the Boat, or is lost.
ReportLeaves ==
    /\ report # None /\ report' = None
    /\ \/ leg[report] = "reported" /\ EndRun(report)
       \/ UNCHANGED runVars
    /\ UNCHANGED <<table, cursor, epoch, rsp, slotVars, creditVars, taskVars, auth, exch, busy,
                   reg, pgrant>>

-----------------------------------------------------------------------------
(* Clocks *)

\* The slot's deadline passes, and with it every earlier one.
DeadlinePasses ==
    /\ open /\ open' = FALSE /\ Deauthorize
    /\ UNCHANGED <<table, cursor, epoch, rsp, active, grantNonce, target, creditVars,
                   taskVars, busy, report, reg, pgrant, runVars>>

\* The deadline of a slot that ended early passes.
AuthDeadlinePasses ==
    /\ auth # Unassigned /\ (~open \/ exch # grantNonce)
    /\ Deauthorize
    /\ UNCHANGED <<table, cursor, epoch, rsp, slotVars, creditVars, taskVars, busy, report,
                   reg, pgrant, runVars>>

\* Longer than the inactivity timeout since entry i's last range.  That is at
\* least three grant durations: not before the slot it was credited in is closed
\* and that slot's deadline has passed.  To age while an exchange of a later slot
\* is admitted changes nothing before the deadline of that slot either.
SuccessAges(i) ==
    /\ Active(i) /\ table[i].success = "recent"
    /\ auth # table[i].addr /\ (credit = None \/ active # table[i].addr)
    /\ table' = [table EXCEPT ![i].success = "old"]
    /\ UNCHANGED <<cursor, epoch, rsp, slotVars, creditVars, taskVars, twrVars,
                   reg, pgrant, runVars>>

-----------------------------------------------------------------------------
(* Restarts and configuration *)

\* start_line_ranging_start on Port after a reboot, with a new session.
PortReboot ==
    /\ epoch' \in FreshEpochs
    /\ table' = [i \in Slot |-> None]
    /\ cursor' = 1 /\ rsp' = None
    /\ active' = Unassigned /\ grantNonce' = None /\ open' = FALSE /\ target' = None
    /\ done' = FALSE /\ credit' = None
    /\ auth' = Unassigned /\ exch' = None /\ busy' = FALSE /\ report' = None
    /\ pc' = "top" /\ left' = 0 /\ unmeasured' = FALSE
    /\ UNCHANGED <<reg, pgrant, runVars>>

BoatReboot(b) ==
    /\ Unregister(b)
    /\ pgrant' = [pgrant EXCEPT ![b] = None]
    /\ EndRun(b)
    /\ UNCHANGED <<table, cursor, epoch, rsp, slotVars, creditVars, taskVars, twrVars>>

ConfigClears ==   \* mutant: the table is emptied as well
    /\ epoch' \in FreshEpochs /\ table' = [i \in Slot |-> None]
    /\ UNCHANGED <<cursor, rsp, slotVars, creditVars, taskVars, twrVars, reg, pgrant, runVars>>

\* start_line_ranging_config_changed: a new configuration version.
ConfigChange ==
    /\ epoch' \in FreshEpochs
    /\ UNCHANGED <<table, cursor, rsp, slotVars, creditVars, taskVars, twrVars,
                   reg, pgrant, runVars>>

-----------------------------------------------------------------------------
PortTask == \/ FlushResponse \/ StartRotation \/ RefreshBaseline \/ SelectBoat \/ EndRotation
            \/ SendGrant \/ WaitForResult \/ CloseSlot \/ SweepTable

BoatTask(b) == \/ Register(b) \/ BoatTimeout(b) \/ TakeGrant(b)
               \/ StarboardDone(b) \/ GiveUp(b) \/ Retry(b)

PortFrames == WindUp \/ ReportLeaves \/ \E b \in Boat : AnswerPoll(b) \/ AnswerFinal(b)

Clock == DeadlinePasses \/ AuthDeadlinePasses \/ \E i \in Slot : SuccessAges(i)

Fault == PortReboot \/ ConfigChange \/ \E b \in Boat : BoatReboot(b)

Step == \/ PortTask
        \/ \E b \in Boat : BoatTask(b)
        \/ PortFrames
        \/ Clock

Next == Step \/ Fault

Spec == Init /\ [][Next]_vars

-----------------------------------------------------------------------------
(* Safety *)

\* Registration is idempotent by UUID and no address is handed out twice: no
\* two entries share a UUID or an address, whatever is requested, expired and
\* registered again in any order (port_register, allocate_addr_locked).
TableUnique ==
    \A i, j \in Slot : Active(i) /\ Active(j) /\ i # j =>
        table[i].uuid # table[j].uuid /\ table[i].addr # table[j].addr

\* While port_task serves a slot, the entry it granted stays in the table under
\* the granted address, although port_register changes the table meanwhile: the
\* result or the miss, looked up by address, is booked on the granted Boat.
SlotEntry ==
    pc \in {"send", "wait", "done", "miss"} =>
        \E i \in Slot : Holds(i, target) /\ HasAddr(i, active)

\* A registered Boat that Port lists uses the address Port lists it under, and
\* a queued response carries the address of its Boat's entry: the Boat and Port
\* never drift apart over removals, re-registrations and overwritten responses.
AddressAgreement ==
    \A i \in Slot, b \in Boat : Holds(i, b) =>
        /\ reg[b].on => reg[b].addr = table[i].addr
        /\ rsp # None /\ rsp.uuid = b => rsp.addr = table[i].addr

\* Only the Boat the slot is granted to is ever credited in it, even when a
\* removed Boat still ranges under an address that now belongs to the grantee.
CreditIsGrantee == credit # None => credit.uuid = target

\* A slot port_task closes as completed had a Final credited in it, and one it
\* counts as missed had none, late Finals of an earlier slot and completions that
\* were signalled after their slot included (on_twr_result, s_port_done_sem).
VerdictMatchesCredit ==
    /\ pc = "done" => credit # None
    /\ pc = "miss" => credit = None

\* Port lets at most one Boat go on with an exchange, late Boats included.
OneAdmitted ==
    \A b, c \in Boat :
        /\ leg[b] = "admitted" /\ AdmitsFinal(b)
        /\ leg[c] = "admitted" /\ AdmitsFinal(c)
        => b = c

\* Round robin: every grant brings each waiting entry nearer to its turn, and
\* nothing else moves the cursor, so no Boat is overtaken more than NumSlots
\* times, however the table changes (port_task's scan from s_queue_cursor).
QueueAdvances ==
    [][IF pc = "select" /\ pc' = "send"
       THEN \A j \in Slot : Active(j) /\ table[j].uuid # target' => Ahead(j)' < Ahead(j)
       ELSE cursor' = cursor \/ epoch' # epoch]_vars

-----------------------------------------------------------------------------
(* Liveness, without restarts and configuration changes *)

\* port_task and the dwmac task keep running, deadlines come, a range ends or
\* times out and boat_task returns to its loop, the scheduler is not paused for
\* ever, a Boat Port is silent to measures that silence, and of the requests a
\* Boat repeats one is heard in the end.  Any response, grant or range may be lost.
Fairness ==
    /\ WF_vars(PortTask) /\ SF_vars(StartRotation /\ pc' = "refresh")
    /\ WF_vars(WindUp) /\ WF_vars(DeadlinePasses)
    /\ \A b \in Boat :
        /\ WF_vars(TakeGrant(b)) /\ WF_vars(GiveUp(b))
        /\ WF_vars(BoatTimeout(b) /\ ~Listed(b))
        /\ SF_vars(Register(b))

LiveSpec == Init /\ [][Step]_vars /\ Fairness

\* Every listed Boat gets a slot or is removed: neither other Boats' requests,
\* nor results, misses and removals that change the table during a rotation,
\* nor a radio that is busy keep it waiting for ever (port_task).
EveryBoatServed == \A b \in Boat : Listed(b) ~> (target = b \/ ~Listed(b))

\* A Boat that heard a grant and was removed since does not stay registered for
\* ever: it times out, asks again and is listed again (boat_task, expire_boats).
RemovedBoatReturns ==
    \A b \in Boat : reg[b].on /\ reg[b].heard /\ ~Listed(b) ~> Listed(b)

-----------------------------------------------------------------------------
(* What docs/uwb-start-line-ranging-protocol.md says and the code does not do *)

\* Line 91: "A removed Boat eventually times out locally, returns to 0x0000, and
\* registers again."  The timeout of boat_task asks for a grant heard first.
EveryRemovedBoatReturns ==
    \A b \in Boat : reg[b].on /\ ~Listed(b) ~> Listed(b)

\* Line 54: "Port does not issue Boat grants without a valid baseline newer than
\* the configured maximum baseline age."  port_refresh_baseline goes on without.
GrantsHaveBaseline == [][pc = "select" /\ pc' = "send" => ~unmeasured]_vars

\* Line 136: "Registration responses, baseline ranging, grants, and Boat ranging
\* must not transmit concurrently."  Port completes the slot when the Report of
\* the Boat's range is programmed; its next frame turns the transmitter off first.
ReportIsNotCutOff ==
    [][report # None /\ report' = None => UNCHANGED pc]_vars

=============================================================================
