----------------------- MODULE StartLineCreditProofs -----------------------
(***************************************************************************)
(* Proofs about the exchanges of StartLine: whom Port admits, whom it      *)
(* credits, and that its verdict on a slot agrees with the credit.         *)
(***************************************************************************)
EXTENDS StartLineTableProofs

-----------------------------------------------------------------------------
(* The inductive invariant *)

Serving == pc \in {"send", "wait", "done", "miss"}

\* Boat b holds the context n, taken or still pending.
Carries(b, n) == run[b] = n \/ pgrant[b] = n
Carried(n) == \E b \in Boat : Carries(b, n)

\* A context belongs to one Boat, and that of the running slot to its grantee.
Private ==
    /\ \A b \in Boat : leg[b] # "off" => run[b] # None
    /\ \A n \in GrantNonce, b, c \in Boat : Carries(b, n) /\ Carries(c, n) => b = c
    /\ \A b \in Boat : grantNonce # None /\ Carries(b, grantNonce) => b = target

\* Outside a slot nothing is open or credited.
Quiet == ~Serving => ~open /\ grantNonce = None /\ credit = None

\* An exchange is dropped when Port ranges itself and when its deadline passes;
\* a slot that is missed ends with none, and no grant that was not sent is used.
Exchange ==
    /\ busy => exch = None
    /\ pc \in {"send", "wait"} /\ ~open => exch = None
    /\ pc = "miss" => exch = None
    /\ pc = "send" \/ (pc = "miss" /\ open) => ~Carried(grantNonce)
    /\ pc = "send" => exch # grantNonce
    /\ Serving => grantNonce # None
    /\ grantNonce # None /\ exch = grantNonce => auth = active

\* The semaphore says whether this slot has its credit.
Verdict ==
    /\ pc \in {"send", "wait"} => (done <=> credit # None)
    /\ pc = "send" /\ busy => credit = None
    /\ pc = "done" => credit # None
    /\ pc = "miss" => credit = None

\* Entry i has just been credited: no sweep removes it.
Credited(i, a) == HasAddr(i, a) /\ table[i].success = "recent" /\ table[i].missed = 0

CreditedEntry == credit # None => \E i \in Slot : Credited(i, active)

\* An exchange outlives its slot only if the slot was completed: the Boat it
\* belongs to is then still listed under the address Port admits.
Outlives ==
    exch # None /\ auth # Unassigned /\ exch # grantNonce =>
        \E i \in Slot : Credited(i, auth) /\ \A b \in Boat : Carries(b, exch) => Holds(i, b)

CreditInv == /\ Private /\ Quiet /\ Exchange /\ Verdict
             /\ CreditedEntry /\ Outlives /\ CreditIsGrantee

-----------------------------------------------------------------------------
(* Contexts are private *)


\* No Boat gets a context it did not carry, and the grant stays.
CarriesLess ==
    /\ \A b \in Boat, n \in GrantNonce : Carries(b, n)' => Carries(b, n)
    /\ \A b \in Boat : leg'[b] # "off" => run'[b] # None
    /\ grantNonce' \in {grantNonce, None}
    /\ grantNonce' # None => target' = target

LEMMA LessIsPrivate == TypeInv /\ Private /\ CarriesLess => Private'
BY DEF TypeInv, TypeOK, Private, CarriesLess, Carries

LEMMA EndRunLess ==
    ASSUME TypeInv, Private, NEW b \in Boat, EndRun(b),
           pgrant' = pgrant \/ pgrant' = [pgrant EXCEPT ![b] = None],
           UNCHANGED <<grantNonce, target>>
    PROVE  CarriesLess
<1>1. /\ run' = [run EXCEPT ![b] = None] /\ leg' = [leg EXCEPT ![b] = "off"]
    BY DEF EndRun
<1>2. /\ run \in [Boat -> GrantNonce \cup {None}] /\ pgrant \in [Boat -> GrantNonce \cup {None}]
      /\ leg \in [Boat -> {"off", "starboard", "ready", "admitted", "reported"}]
    BY DEF TypeInv, TypeOK
<1>3. None \notin GrantNonce
    BY NoneAssumption
<1> QED
    BY <1>1, <1>2, <1>3 DEF CarriesLess, Carries, Private

LEMMA NextPrivate == TypeInv /\ Private /\ Exchange /\ [Next]_vars => Private'
<1> SUFFICES ASSUME TypeInv, Private, Exchange, [Next]_vars PROVE Private'
    OBVIOUS
<1> USE DEF slotVars, creditVars, taskVars, twrVars, runVars
<1>0. /\ run \in [Boat -> GrantNonce \cup {None}] /\ pgrant \in [Boat -> GrantNonce \cup {None}]
      /\ leg \in [Boat -> {"off", "starboard", "ready", "admitted", "reported"}]
      /\ grantNonce \in GrantNonce \cup {None} /\ None \notin GrantNonce
    BY NoneAssumption DEF TypeInv, TypeOK
<1>1. ASSUME UNCHANGED <<leg, run, pgrant, grantNonce, target>> PROVE Private'
    BY <1>1 DEF Private, Carries
<1>2. CASE SelectBoat
    <2>1. UNCHANGED <<leg, run, pgrant>> /\ grantNonce' \in FreshGrantNonces
        BY <1>2 DEF SelectBoat
    <2>2. \A b \in Boat : ~Carries(b, grantNonce')
        BY <2>1 DEF FreshGrantNonces, Carries
    <2> QED
        BY <2>1, <2>2 DEF Private, Carries
<1>3. CASE CloseSlot \/ PortReboot
    BY <1>3 DEF CloseSlot, PortReboot, Private, Carries
<1>4. CASE SendGrant
    <2>1. UNCHANGED <<leg, run, grantNonce, target>>
        BY <1>4 DEF SendGrant
    <2>2. CASE pgrant' = pgrant
        BY <1>1, <2>1, <2>2
    <2>3. CASE pc = "send" /\ pgrant' = [pgrant EXCEPT ![target] = grantNonce]
        <3>1. ~Carried(grantNonce) /\ grantNonce # None
            BY <2>3 DEF Exchange, Serving
        <3> QED
            BY <1>0, <2>1, <2>3, <3>1 DEF Private, Carries, Carried
    <2> QED
        BY <1>4, <2>2, <2>3 DEF SendGrant, AcceptGrant
<1>5. ASSUME NEW b \in Boat, TakeGrant(b) PROVE Private'
    <2>1. /\ run' = [run EXCEPT ![b] = pgrant[b]] /\ pgrant' = [pgrant EXCEPT ![b] = None]
          /\ leg' = [leg EXCEPT ![b] = "starboard"] /\ pgrant[b] # None
          /\ UNCHANGED <<grantNonce, target>>
        BY <1>5 DEF TakeGrant
    <2>2. CarriesLess
        BY <1>0, <2>1 DEF CarriesLess, Carries, Private
    <2> QED
        BY <2>2, LessIsPrivate
<1>6. ASSUME NEW b \in Boat, GiveUp(b) \/ BoatReboot(b) PROVE Private'
    BY <1>6, EndRunLess, LessIsPrivate DEF GiveUp, BoatReboot
<1>7. CASE ReportLeaves
    <2>1. report \in Boat
        BY <1>7 DEF ReportLeaves, TypeInv, TypeOK
    <2> QED
        BY <1>1, <1>7, <2>1, EndRunLess, LessIsPrivate DEF ReportLeaves
<1>8. ASSUME NEW b \in Boat, StarboardDone(b) \/ Retry(b) \/ AnswerPoll(b) \/ AnswerFinal(b)
      PROVE  Private'
    <2>1. /\ leg[b] # "off" /\ \E l \in {"ready", "admitted", "reported"} : leg' = [leg EXCEPT ![b] = l]
          /\ UNCHANGED <<run, pgrant, grantNonce, target>>
        BY <1>8 DEF StarboardDone, Retry, AnswerPoll, AnswerFinal, Credits, CreditTooLate
    <2> QED
        BY <1>0, <2>1 DEF Private, Carries
<1>9. CASE FlushResponse \/ StartRotation \/ RefreshBaseline \/ EndRotation \/ WaitForResult
           \/ SweepTable \/ WindUp \/ DeadlinePasses \/ AuthDeadlinePasses \/ ConfigChange
           \/ UNCHANGED vars
    BY <1>1, <1>9 DEF FlushResponse, StartRotation, RefreshBaseline, EndRotation, WaitForResult,
       SweepTable, WindUp, DeadlinePasses, AuthDeadlinePasses, ConfigChange, vars
<1>10. ASSUME NEW b \in Boat, Register(b) \/ BoatTimeout(b) PROVE Private'
    BY <1>1, <1>10 DEF Register, BoatTimeout
<1>11. ASSUME NEW i \in Slot, SuccessAges(i) PROVE Private'
    BY <1>1, <1>11 DEF SuccessAges
<1> QED
    BY <1>2, <1>3, <1>4, <1>5, <1>6, <1>7, <1>8, <1>9, <1>10, <1>11
       DEF Next, Step, Fault, PortTask, BoatTask, PortFrames, Clock

-----------------------------------------------------------------------------
(* Exchanges and slots *)

\* An admitted Poll carries the context of a slot whose grant was sent.
LEMMA PollIsGranted ==
    ASSUME TypeInv, Private, Quiet, Exchange, NEW b \in Boat, AnswerPoll(b)
    PROVE  pc \in {"wait", "done"} /\ run[b] = grantNonce /\ grantNonce # None
<1>1. open /\ run[b] = grantNonce
    BY DEF AnswerPoll, AdmitsPoll
<1>2. Serving /\ Carried(grantNonce)
    BY <1>1 DEF Quiet, Carried, Carries
<1> QED
    BY <1>1, <1>2 DEF Exchange, Serving

LEMMA NextQuiet == Quiet /\ [Next]_vars => Quiet'
<1> SUFFICES ASSUME Quiet, [Next]_vars PROVE Quiet'
    OBVIOUS
<1> USE DEF slotVars, creditVars, taskVars, twrVars, runVars
<1>1. CASE PortTask
    BY <1>1 DEF PortTask, FlushResponse, StartRotation, RefreshBaseline, SelectBoat, EndRotation,
       SendGrant, WaitForResult, CloseSlot, SweepTable, Quiet, Serving
<1>2. ASSUME NEW b \in Boat, BoatTask(b) PROVE Quiet'
    BY <1>2 DEF BoatTask, Register, BoatTimeout, TakeGrant, StarboardDone, GiveUp, Retry, Quiet, Serving
<1>3. CASE PortFrames \/ Clock \/ UNCHANGED vars
    BY <1>3 DEF PortFrames, Clock, WindUp, ReportLeaves, AnswerPoll, AnswerFinal, Credits,
       CreditTooLate, DeadlinePasses, AuthDeadlinePasses, SuccessAges, vars, Quiet, Serving
<1>4. CASE Fault
    BY <1>4 DEF Fault, PortReboot, ConfigChange, BoatReboot, Quiet, Serving
<1> QED
    BY <1>1, <1>2, <1>3, <1>4 DEF Next, Step

LEMMA NextExchange == TypeInv /\ Private /\ Quiet /\ Exchange /\ [Next]_vars => Exchange'
<1> SUFFICES ASSUME TypeInv, Private, Quiet, Exchange, [Next]_vars PROVE Exchange'
    OBVIOUS
<1> USE DEF slotVars, creditVars, taskVars, twrVars, runVars
<1>0. /\ run \in [Boat -> GrantNonce \cup {None}] /\ pgrant \in [Boat -> GrantNonce \cup {None}]
      /\ grantNonce \in GrantNonce \cup {None} /\ None \notin GrantNonce
    BY NoneAssumption DEF TypeInv, TypeOK
\* Steps that leave the exchange and the slot, or drop the exchange.
<1>1. ASSUME UNCHANGED <<pc, open, grantNonce, active>>,
             exch' = None \/ UNCHANGED <<exch, auth>>,
             busy' => busy,
             \A b \in Boat : Carries(b, grantNonce)' /\ grantNonce # None => Carries(b, grantNonce)
      PROVE  Exchange'
    BY <1>1 DEF Exchange, Serving, Carried, Carries
<1>2. CASE FlushResponse \/ StartRotation \/ EndRotation \/ SweepTable \/ RefreshBaseline
    BY <1>2 DEF FlushResponse, StartRotation, EndRotation, SweepTable, RefreshBaseline,
       Exchange, Serving, Quiet
<1>3. CASE SelectBoat
    <2>1. /\ pc' = "send" /\ open' /\ grantNonce' \in FreshGrantNonces
          /\ UNCHANGED <<run, pgrant, exch, busy>>
        BY <1>3 DEF SelectBoat
    <2>2. ~Carried(grantNonce)' /\ exch' # grantNonce' /\ grantNonce' # None
        BY <1>0, <2>1 DEF FreshGrantNonces, Carried, Carries
    <2> QED
        BY <2>1, <2>2 DEF Exchange, Serving
<1>4. CASE SendGrant
    <2>1. /\ pc = "send" /\ UNCHANGED <<open, grantNonce, active, run, exch, auth, busy>>
          /\ \/ pc' = "wait"
             \/ busy /\ pc' = "miss" /\ UNCHANGED pgrant
        BY <1>4 DEF SendGrant
    <2> QED
        BY <2>1 DEF Exchange, Serving, Carried, Carries
<1>5. CASE WaitForResult
    BY <1>5 DEF WaitForResult, Exchange, Serving
<1>6. CASE CloseSlot \/ PortReboot
    BY <1>6 DEF CloseSlot, PortReboot, Exchange, Serving
<1>7. CASE DeadlinePasses
    BY <1>7 DEF DeadlinePasses, Deauthorize, Exchange, Serving, Carried, Carries
<1>8. CASE AuthDeadlinePasses
    BY <1>1, <1>8 DEF AuthDeadlinePasses, Deauthorize, Carries
<1>9. ASSUME NEW b \in Boat, AnswerPoll(b) PROVE Exchange'
    <2>1. pc \in {"wait", "done"} /\ run[b] = grantNonce /\ grantNonce # None
        BY <1>9, PollIsGranted
    <2> QED
        BY <1>9, <2>1 DEF AnswerPoll, AdmitsPoll, Exchange, Serving
<1>10. ASSUME NEW b \in Boat, AnswerFinal(b) PROVE Exchange'
    <2>1. CASE UNCHANGED <<open, auth, exch>>
        BY <1>1, <1>10, <2>1 DEF AnswerFinal, Carries
    <2>2. CASE CreditTooLate
        BY <1>10, <2>2 DEF AnswerFinal, CreditTooLate, Deauthorize, Exchange, Serving, Carried, Carries
    <2> QED
        BY <1>10, <2>1, <2>2 DEF AnswerFinal, Credits
<1>11. ASSUME NEW b \in Boat, TakeGrant(b) PROVE Exchange'
    <2>1. \A c \in Boat, n \in GrantNonce : Carries(c, n)' => Carries(c, n)
        BY <1>0, <1>11 DEF TakeGrant, Carries
    <2> QED
        BY <1>0, <1>1, <1>11, <2>1 DEF TakeGrant
<1>12. ASSUME NEW b \in Boat, GiveUp(b) \/ BoatReboot(b) PROVE Exchange'
    <2>1. \A c \in Boat, n \in GrantNonce : Carries(c, n)' => Carries(c, n)
        BY <1>0, <1>12 DEF GiveUp, BoatReboot, EndRun, Carries
    <2> QED
        BY <1>0, <1>1, <1>12, <2>1 DEF GiveUp, BoatReboot
<1>13. CASE ReportLeaves
    <2>1. report \in Boat
        BY <1>13 DEF ReportLeaves, TypeInv, TypeOK
    <2>2. \A c \in Boat, n \in GrantNonce : Carries(c, n)' => Carries(c, n)
        BY <1>0, <1>13, <2>1 DEF ReportLeaves, EndRun, Carries
    <2> QED
        BY <1>0, <1>1, <1>13, <2>2 DEF ReportLeaves
<1>14. CASE WindUp \/ ConfigChange \/ UNCHANGED vars
    BY <1>1, <1>14 DEF WindUp, ConfigChange, vars, Carries
<1>15. ASSUME NEW b \in Boat, Register(b) \/ BoatTimeout(b) \/ StarboardDone(b) \/ Retry(b)
       PROVE  Exchange'
    BY <1>1, <1>15 DEF Register, BoatTimeout, StarboardDone, Retry, Carries
<1>16. ASSUME NEW i \in Slot, SuccessAges(i) PROVE Exchange'
    BY <1>1, <1>16 DEF SuccessAges, Carries
<1> QED
    BY <1>2, <1>3, <1>4, <1>5, <1>6, <1>7, <1>8, <1>9, <1>10, <1>11, <1>12, <1>13, <1>14,
       <1>15, <1>16 DEF Next, Step, Fault, PortTask, BoatTask, PortFrames, Clock

LEMMA NextVerdict == TypeInv /\ Quiet /\ Exchange /\ Verdict /\ [Next]_vars => Verdict'
<1> SUFFICES ASSUME TypeInv, Quiet, Exchange, Verdict, [Next]_vars PROVE Verdict'
    OBVIOUS
<1> USE DEF slotVars, creditVars, taskVars, twrVars, runVars
<1>1. CASE FlushResponse \/ StartRotation \/ RefreshBaseline \/ EndRotation \/ CloseSlot
           \/ SweepTable \/ PortReboot
    BY <1>1 DEF FlushResponse, StartRotation, RefreshBaseline, EndRotation, CloseSlot, SweepTable,
       PortReboot, Verdict
<1>2. CASE SelectBoat
    BY <1>2 DEF SelectBoat, ClearDone, Verdict
<1>3. CASE SendGrant \/ WaitForResult
    BY <1>3 DEF SendGrant, WaitForResult, Verdict
<1>4. ASSUME NEW b \in Boat, AnswerFinal(b) PROVE Verdict'
    <2>1. exch # None /\ ~busy /\ UNCHANGED <<pc, busy>>
        BY <1>4 DEF AnswerFinal, AdmitsFinal
    <2>2. CASE Credits(b)
        <3>1. done' /\ credit' # None
            <4>1. credit' = [uuid |-> b, nonce |-> exch] /\ exch \in GrantNonce
                BY <2>1, <2>2 DEF Credits, TypeInv, TypeOK
            <4>2. credit' \in Credit
                BY <4>1 DEF Credit
            <4>3. None \notin Credit
                BY NoneAssumption
            <4> QED
                BY <2>2, <4>2, <4>3 DEF Credits
        <3> QED
            BY <2>1, <3>1 DEF Verdict, Exchange
    <2>3. CASE CreditTooLate
        BY <2>1, <2>3 DEF CreditTooLate, Verdict
    <2> QED
        BY <1>4, <2>2, <2>3 DEF AnswerFinal
<1>5. CASE WindUp \/ ReportLeaves \/ DeadlinePasses \/ AuthDeadlinePasses \/ ConfigChange
           \/ UNCHANGED vars
    BY <1>5 DEF WindUp, ReportLeaves, DeadlinePasses, AuthDeadlinePasses, ConfigChange, vars, Verdict
<1>6. ASSUME NEW b \in Boat, BoatTask(b) \/ AnswerPoll(b) \/ BoatReboot(b) PROVE Verdict'
    BY <1>6 DEF BoatTask, Register, BoatTimeout, TakeGrant, StarboardDone, GiveUp, Retry,
       AnswerPoll, BoatReboot, Verdict
<1>7. ASSUME NEW i \in Slot, SuccessAges(i) PROVE Verdict'
    BY <1>7 DEF SuccessAges, Verdict
<1> QED
    BY <1>1, <1>2, <1>3, <1>4, <1>5, <1>6, <1>7
       DEF Next, Step, Fault, PortTask, PortFrames, Clock

-----------------------------------------------------------------------------
(* Credited entries stay *)

\* Only the miss of its own slot, its age and a restart of Port undo a credit.
LEMMA StepCredited ==
    ASSUME TypeInv, [Next]_vars, NEW a, NEW i \in Slot, Credited(i, a)
    PROVE  \/ Credited(i, a)' /\ table'[i].uuid = table[i].uuid
           \/ PortReboot
           \/ pc = "miss" /\ CloseSlot
           \/ SuccessAges(i)
<1> DEFINE Kept == Credited(i, a)' /\ table'[i].uuid = table[i].uuid
<1> USE DEF slotVars, creditVars, taskVars, twrVars, runVars
<1>0. /\ table \in [Slot -> Entry \cup {None}] /\ \A e \in Entry : e # None
      /\ table[i] \in Entry
    BY NoneAssumption DEF TypeInv, TypeOK, Credited, HasAddr, Active
<1>1. ASSUME table'[i] = table[i] PROVE Kept
    BY <1>1 DEF Credited, HasAddr, Active
<1>2. CASE StartRotation \/ SweepTable
    <2>1. ~Expires(table[i])
        BY MissedAssumption DEF Expires, Credited
    <2> QED
        BY <1>1, <1>2, <2>1 DEF StartRotation, SweepTable, Expire
<1>3. CASE CloseSlot
    BY <1>1, <1>3 DEF CloseSlot
<1>4. ASSUME NEW b \in Boat, Register(b) PROVE Kept
    <2>1. CASE RegisterKnown(b)
        <3>1. PICK j \in Slot : table' = [table EXCEPT ![j].missed = 0]
            BY <2>1 DEF RegisterKnown
        <3>2. [table[i] EXCEPT !.missed = 0] = table[i]
            BY <1>0 DEF Credited, Entry
        <3> QED
            BY <1>0, <1>1, <3>1, <3>2
    <2>2. CASE RegisterNew(b)
        BY <1>0, <1>1, <2>2 DEF RegisterNew, FirstFreeSlot, Credited, HasAddr
    <2> QED
        BY <1>4, <2>1, <2>2 DEF Register
<1>5. ASSUME NEW b \in Boat, AnswerFinal(b) PROVE Kept
    <2>1. table'[i] = table[i] \/ table'[i] = [table[i] EXCEPT !.success = "recent", !.missed = 0]
        BY <1>0, <1>5 DEF AnswerFinal, Credits, CreditTooLate
    <2>2. [table[i] EXCEPT !.success = "recent", !.missed = 0] = table[i]
        BY <1>0 DEF Credited, Entry
    <2> QED
        BY <1>1, <2>1, <2>2
<1>6. ASSUME NEW j \in Slot, SuccessAges(j), j # i PROVE Kept
    BY <1>0, <1>1, <1>6 DEF SuccessAges
<1>7. CASE FlushResponse \/ RefreshBaseline \/ SelectBoat \/ EndRotation \/ SendGrant
           \/ WaitForResult \/ WindUp \/ ReportLeaves \/ DeadlinePasses \/ AuthDeadlinePasses
           \/ ConfigChange \/ UNCHANGED vars
    BY <1>1, <1>7 DEF FlushResponse, RefreshBaseline, SelectBoat, EndRotation, SendGrant,
       WaitForResult, WindUp, ReportLeaves, DeadlinePasses, AuthDeadlinePasses, ConfigChange, vars
<1>8. ASSUME NEW b \in Boat, BoatTimeout(b) \/ TakeGrant(b) \/ StarboardDone(b) \/ GiveUp(b)
                             \/ Retry(b) \/ AnswerPoll(b) \/ BoatReboot(b)
      PROVE  Kept
    BY <1>1, <1>8 DEF BoatTimeout, TakeGrant, StarboardDone, GiveUp, Retry, AnswerPoll, BoatReboot
<1> QED
    BY <1>2, <1>3, <1>4, <1>5, <1>6, <1>7, <1>8
       DEF Next, Step, Fault, PortTask, BoatTask, PortFrames, Clock

\* A credit is given by a Final and taken back with its slot.
LEMMA StepCredit ==
    ASSUME [Next]_vars
    PROVE  \/ credit' = None
           \/ UNCHANGED <<credit, active, target>>
           \/ \E b \in Boat : AnswerFinal(b) /\ Credits(b)
<1> USE DEF slotVars, creditVars, taskVars, twrVars, runVars
<1>1. CASE PortTask
    BY <1>1 DEF PortTask, FlushResponse, StartRotation, RefreshBaseline, SelectBoat, EndRotation,
       SendGrant, WaitForResult, CloseSlot, SweepTable
<1>2. ASSUME NEW b \in Boat, BoatTask(b) PROVE UNCHANGED <<credit, active, target>>
    BY <1>2 DEF BoatTask, Register, BoatTimeout, TakeGrant, StarboardDone, GiveUp, Retry
<1>3. CASE PortFrames \/ Clock \/ UNCHANGED vars
    BY <1>3 DEF PortFrames, Clock, WindUp, ReportLeaves, AnswerPoll, AnswerFinal,
       CreditTooLate, DeadlinePasses, AuthDeadlinePasses, SuccessAges, vars
<1>4. CASE Fault
    BY <1>4 DEF Fault, PortReboot, ConfigChange, BoatReboot
<1> QED
    BY <1>1, <1>2, <1>3, <1>4 DEF Next, Step

LEMMA NextCreditedEntry ==
    TypeInv /\ SlotEntry /\ Quiet /\ CreditedEntry /\ [Next]_vars => CreditedEntry'
<1> SUFFICES ASSUME TypeInv, SlotEntry, Quiet, CreditedEntry, [Next]_vars, credit' # None
             PROVE  \E i \in Slot : Credited(i, active)'
    BY DEF CreditedEntry, Credited, HasAddr, Active
<1>1. ASSUME NEW b \in Boat, AnswerFinal(b), Credits(b)
      PROVE  \E i \in Slot : Credited(i, active)'
    <2>1. Serving /\ active' = active
        BY <1>1 DEF Credits, Quiet, AnswerFinal
    <2>2. PICK i \in Slot : HasAddr(i, active)
        BY <2>1 DEF SlotEntry, Serving
    <2>3. table[i] \in Entry
        BY <2>2 DEF TypeInv, TypeOK, HasAddr, Active
    <2>4. table'[i] = [table[i] EXCEPT !.success = "recent", !.missed = 0]
        BY <1>1, <2>2 DEF Credits
    <2>5. table'[i] \in Entry
        BY <2>3, <2>4, EntryTypes
    <2> QED
        BY <2>1, <2>2, <2>3, <2>4, <2>5, NoneAssumption DEF Credited, HasAddr, Active, Entry
<1>2. CASE UNCHANGED <<credit, active>>
    <2>1. PICK i \in Slot : Credited(i, active)
        BY <1>2 DEF CreditedEntry
    <2>2. ~PortReboot /\ ~CloseSlot
        BY DEF PortReboot, CloseSlot
    <2>3. ~SuccessAges(i)
        BY <1>2, <2>1 DEF SuccessAges, Credited, HasAddr
    <2>4. Credited(i, active)'
        BY <1>2, <2>1, <2>2, <2>3, StepCredited DEF Credited, HasAddr, Active
    <2> QED
        BY <2>4
<1> QED
    BY <1>1, <1>2, StepCredit

\* Whose late or current exchange is credited holds the granted entry.
LEMMA CreditsGrantee ==
    ASSUME TypeInv, TableUnique, SlotEntry, Private, Quiet, Exchange, Outlives,
           NEW b \in Boat, AnswerFinal(b), Credits(b)
    PROVE  b = target
<1>1. /\ exch # None /\ run[b] = exch /\ auth # Unassigned
      /\ auth = active /\ Serving
    BY DEF AnswerFinal, AdmitsFinal, Credits, Quiet
<1>2. CASE exch = grantNonce
    BY <1>1, <1>2 DEF Private, Carries
<1>3. CASE exch # grantNonce
    <2>1. PICK i \in Slot : HasAddr(i, active) /\ Holds(i, b)
        BY <1>1, <1>3 DEF Outlives, Credited, Carries
    <2>2. PICK j \in Slot : Holds(j, target) /\ HasAddr(j, active)
        BY <1>1 DEF SlotEntry, Serving
    <2>3. i = j
        BY <2>1, <2>2 DEF TableUnique, Holds, HasAddr
    <2> QED
        BY <2>1, <2>2, <2>3 DEF Holds
<1> QED
    BY <1>2, <1>3

LEMMA NextCreditIsGrantee ==
    /\ TypeInv /\ TableUnique /\ SlotEntry /\ Private /\ Quiet /\ Exchange /\ Outlives
    /\ CreditIsGrantee /\ [Next]_vars
    => CreditIsGrantee'
<1> SUFFICES ASSUME TypeInv, TableUnique, SlotEntry, Private, Quiet, Exchange, Outlives,
                    CreditIsGrantee, [Next]_vars
             PROVE  CreditIsGrantee'
    OBVIOUS
<1>1. ASSUME NEW b \in Boat, AnswerFinal(b), Credits(b) PROVE CreditIsGrantee'
    <2>1. credit'.uuid = b /\ target' = target
        BY <1>1 DEF Credits, AnswerFinal
    <2>2. b = target
        BY <1>1, CreditsGrantee
    <2> QED
        BY <2>1, <2>2 DEF CreditIsGrantee
<1>2. CASE credit' = None \/ UNCHANGED <<credit, active, target>>
    BY <1>2 DEF CreditIsGrantee
<1> QED
    BY <1>1, <1>2, StepCredit

-----------------------------------------------------------------------------
(* Exchanges that outlive their slot *)

\* No other Boat gets the context of an exchange that outlives its slot.
LEMMA StepCarries ==
    ASSUME TypeInv, Private, Exchange, [Next]_vars,
           NEW n \in GrantNonce, n # grantNonce \/ UNCHANGED pgrant,
           NEW b \in Boat, Carries(b, n)'
    PROVE  Carries(b, n)
<1> USE DEF slotVars, creditVars, taskVars, twrVars, runVars
<1>0. /\ run \in [Boat -> GrantNonce \cup {None}] /\ pgrant \in [Boat -> GrantNonce \cup {None}]
      /\ n # None
    BY NoneAssumption DEF TypeInv, TypeOK
<1>1. ASSUME UNCHANGED <<run, pgrant>> PROVE Carries(b, n)
    BY <1>1 DEF Carries
<1>2. CASE SendGrant
    BY <1>0, <1>2 DEF SendGrant, AcceptGrant, Carries
<1>3. ASSUME NEW c \in Boat, TakeGrant(c) PROVE Carries(b, n)
    BY <1>0, <1>3 DEF TakeGrant, Carries
<1>4. ASSUME NEW c \in Boat, GiveUp(c) \/ BoatReboot(c) PROVE Carries(b, n)
    BY <1>0, <1>4 DEF GiveUp, BoatReboot, EndRun, Carries
<1>5. CASE ReportLeaves
    BY <1>0, <1>5 DEF ReportLeaves, EndRun, Carries
<1>6. CASE FlushResponse \/ StartRotation \/ RefreshBaseline \/ SelectBoat \/ EndRotation
           \/ WaitForResult \/ CloseSlot \/ SweepTable \/ WindUp \/ Clock \/ PortReboot
           \/ ConfigChange \/ UNCHANGED vars
    BY <1>1, <1>6 DEF FlushResponse, StartRotation, RefreshBaseline, SelectBoat, EndRotation,
       WaitForResult, CloseSlot, SweepTable, WindUp, Clock, DeadlinePasses, AuthDeadlinePasses,
       SuccessAges, PortReboot, ConfigChange, vars
<1>7. ASSUME NEW c \in Boat, Register(c) \/ BoatTimeout(c) \/ StarboardDone(c) \/ Retry(c)
                             \/ AnswerPoll(c) \/ AnswerFinal(c)
      PROVE  Carries(b, n)
    BY <1>1, <1>7 DEF Register, BoatTimeout, StarboardDone, Retry, AnswerPoll, AnswerFinal
<1> QED
    BY <1>2, <1>3, <1>4, <1>5, <1>6, <1>7
       DEF Next, Step, Fault, PortTask, BoatTask, PortFrames

\* The exchange starts with a Poll of the running slot.
LEMMA StepExch ==
    ASSUME TypeInv, Private, Quiet, Exchange, [Next]_vars
    PROVE  \/ exch' = None
           \/ exch' = grantNonce'
           \/ UNCHANGED <<exch, auth>> /\ (grantNonce' = grantNonce \/ SelectBoat \/ CloseSlot)
<1> USE DEF slotVars, creditVars, taskVars, twrVars, runVars
<1>1. CASE PortTask
    BY <1>1 DEF PortTask, FlushResponse, StartRotation, RefreshBaseline, EndRotation,
       SendGrant, WaitForResult, SweepTable, SelectBoat, CloseSlot
<1>2. ASSUME NEW b \in Boat, BoatTask(b) PROVE UNCHANGED <<exch, auth, grantNonce>>
    BY <1>2 DEF BoatTask, Register, BoatTimeout, TakeGrant, StarboardDone, GiveUp, Retry
<1>3. ASSUME NEW b \in Boat, AnswerPoll(b) PROVE exch' = grantNonce'
    BY <1>3, PollIsGranted DEF AnswerPoll
<1>4. ASSUME NEW b \in Boat, AnswerFinal(b)
      PROVE  exch' = None \/ UNCHANGED <<exch, auth, grantNonce>>
    BY <1>4 DEF AnswerFinal, Credits, CreditTooLate, Deauthorize
<1>5. CASE WindUp \/ ReportLeaves \/ Clock \/ UNCHANGED vars
    BY <1>5 DEF WindUp, ReportLeaves, Clock, DeadlinePasses, AuthDeadlinePasses, Deauthorize,
       SuccessAges, vars
<1>6. CASE Fault
    BY <1>6 DEF Fault, PortReboot, ConfigChange, BoatReboot
<1> QED
    BY <1>1, <1>2, <1>3, <1>4, <1>5, <1>6 DEF Next, Step, PortFrames

LEMMA NextOutlives ==
    /\ TypeInv /\ TableUnique /\ SlotEntry /\ Private /\ Quiet /\ Exchange /\ Verdict
    /\ CreditedEntry /\ Outlives /\ [Next]_vars
    => Outlives'
<1> SUFFICES ASSUME TypeInv, TableUnique, SlotEntry, Private, Quiet, Exchange, Verdict,
                    CreditedEntry, Outlives, [Next]_vars,
                    exch' # None, auth' # Unassigned, exch' # grantNonce'
             PROVE  \E i \in Slot : /\ Credited(i, auth)'
                                   /\ \A b \in Boat : Carries(b, exch)' => Holds(i, b)'
    BY DEF Outlives, Credited, HasAddr, Active, Carries, Holds
<1>1. /\ UNCHANGED <<exch, auth>>
      /\ grantNonce' = grantNonce \/ SelectBoat \/ CloseSlot
    BY StepExch
<1>2. exch \in GrantNonce /\ exch # None
    BY <1>1 DEF TypeInv, TypeOK
<1>3. ~PortReboot /\ pc # "miss"
    BY <1>1 DEF PortReboot, Exchange
\* An entry that answers for the exchange before the step does so after it.
<1>4. ASSUME NEW i \in Slot, Credited(i, auth),
             \A b \in Boat : Carries(b, exch) => Holds(i, b),
             exch # grantNonce \/ CloseSlot
      PROVE  Credited(i, auth)' /\ \A b \in Boat : Carries(b, exch)' => Holds(i, b)'
    <2>1. ~SuccessAges(i)
        BY <1>4 DEF SuccessAges, Credited, HasAddr
    <2>2. Credited(i, auth)' /\ table'[i].uuid = table[i].uuid
        BY <1>1, <1>3, <1>4, <2>1, StepCredited DEF Credited, HasAddr, Active
    <2>3. CloseSlot => UNCHANGED pgrant
        BY DEF CloseSlot
    <2>4. \A b \in Boat : Carries(b, exch)' => Carries(b, exch)
        BY <1>1, <1>2, <1>4, <2>3, StepCarries DEF Carries
    <2> QED
        BY <1>4, <2>2, <2>4 DEF Holds, Credited, HasAddr
<1>5. CASE exch # grantNonce
    <2>1. PICK i \in Slot : Credited(i, auth) /\ \A b \in Boat : Carries(b, exch) => Holds(i, b)
        BY <1>1, <1>2, <1>5 DEF Outlives
    <2> QED
        BY <1>4, <1>5, <2>1
<1>6. CASE exch = grantNonce
    <2>1. CloseSlot
        BY <1>1, <1>2, <1>6 DEF SelectBoat, Quiet, Serving
    <2>2. pc = "done" /\ auth = active
        BY <1>2, <1>3, <1>6, <2>1 DEF CloseSlot, Exchange
    <2>3. PICK i \in Slot : Credited(i, active)
        BY <2>2 DEF Verdict, CreditedEntry
    <2>4. PICK j \in Slot : Holds(j, target) /\ HasAddr(j, active)
        BY <2>2 DEF SlotEntry
    <2>5. i = j
        BY <2>3, <2>4 DEF TableUnique, Credited, HasAddr
    <2>6. \A b \in Boat : Carries(b, exch) => Holds(i, b)
        BY <1>2, <1>6, <2>4, <2>5 DEF Private
    <2> QED
        BY <1>4, <2>1, <2>2, <2>3, <2>6
<1> QED
    BY <1>5, <1>6

-----------------------------------------------------------------------------
(* The theorems *)

Inv == TypeInv /\ TableUnique /\ SlotEntry /\ CreditInv

LEMMA InitInv == Init => Inv
<1> SUFFICES ASSUME Init PROVE Inv
    OBVIOUS
<1>1. TypeInv /\ TableUnique /\ SlotEntry
    BY InitTypeInv DEF Init, TableUnique, SlotEntry, Active
<1>2. Private /\ Quiet
    BY NoneAssumption DEF Init, Private, Carries, Quiet
<1>3. Exchange /\ Verdict
    BY DEF Init, Exchange, Verdict, Serving
<1>4. CreditedEntry /\ Outlives /\ CreditIsGrantee
    BY DEF Init, CreditedEntry, Outlives, CreditIsGrantee
<1> QED
    BY <1>1, <1>2, <1>3, <1>4 DEF Inv, CreditInv

LEMMA NextInv == Inv /\ [Next]_vars => Inv'
BY NextTypeInv, NextTableUnique, NextSlotEntry, NextPrivate, NextQuiet, NextExchange, NextVerdict,
   NextCreditedEntry, NextOutlives, NextCreditIsGrantee
   DEF Inv, CreditInv

LEMMA InvHolds == Spec => []Inv
BY InitInv, NextInv, PTL DEF Spec

\* Only the granted Boat is credited in a slot, for any number of Boats, slots
\* and addresses, whatever is lost, delayed, removed, reassigned and restarted.
THEOREM CreditGoesToGrantee == Spec => []CreditIsGrantee
<1>1. Inv => CreditIsGrantee
    BY DEF Inv, CreditInv
<1> QED
    BY <1>1, InvHolds, PTL

\* A slot counts as completed exactly when a range was credited in it.
THEOREM VerdictIsRight == Spec => []VerdictMatchesCredit
<1>1. Inv => VerdictMatchesCredit
    BY DEF Inv, CreditInv, Verdict, VerdictMatchesCredit
<1> QED
    BY <1>1, InvHolds, PTL

\* No two Boats are in an exchange with Port that it would let go on.
THEOREM OneExchange == Spec => []OneAdmitted
<1>1. Inv => OneAdmitted
    <2> SUFFICES ASSUME Inv, NEW b \in Boat, NEW c \in Boat, AdmitsFinal(b), AdmitsFinal(c)
                 PROVE  b = c
        BY DEF OneAdmitted
    <2>1. exch \in GrantNonce /\ Carries(b, exch) /\ Carries(c, exch)
        BY DEF Inv, TypeInv, TypeOK, AdmitsFinal, Carries
    <2> QED
        BY <2>1 DEF Inv, CreditInv, Private
<1> QED
    BY <1>1, InvHolds, PTL

=============================================================================
