----------------------- MODULE StartLineTableProofs -----------------------
(***************************************************************************)
(* Proofs about Port's table of Boats: its keys are unique, a Boat and     *)
(* Port agree on the Boat's address, the entry being served stays, and the *)
(* queue is served round robin.  They rest on the type invariant.          *)
(***************************************************************************)
EXTENDS StartLineProofs

-----------------------------------------------------------------------------
(* What a step does to the keys of the table *)

\* No entry is added and none changes its UUID or its address.
KeysKept ==
    \A i \in Slot : Active(i)' => /\ Active(i)
                                  /\ table'[i].uuid = table[i].uuid
                                  /\ table'[i].addr = table[i].addr

\* Neither a registration nor a credit changes the keys of an entry.
LEMMA EntryKeys ==
    ASSUME NEW e \in Entry
    PROVE  /\ [e EXCEPT !.missed = 0].uuid = e.uuid
           /\ [e EXCEPT !.missed = 0].addr = e.addr
           /\ [e EXCEPT !.success = "recent", !.missed = 0].uuid = e.uuid
           /\ [e EXCEPT !.success = "recent", !.missed = 0].addr = e.addr
BY DEF Entry

LEMMA ExpireKeepsKeys == TypeOK /\ Expire => KeysKept
BY ExpireType DEF KeysKept, Active

\* Only the registration of a new Boat adds a key.
LEMMA StepKeys ==
    ASSUME TypeInv, [Next]_vars
    PROVE  KeysKept \/ \E b \in Boat : Register(b) /\ RegisterNew(b)
<1> USE DEF TypeInv, TypeOK
<1>1. ASSUME UNCHANGED table PROVE KeysKept
    BY <1>1 DEF KeysKept, Active
<1>2. CASE StartRotation \/ SweepTable
    BY <1>2, ExpireKeepsKeys DEF StartRotation, SweepTable
<1>3. CASE CloseSlot
    BY <1>3 DEF CloseSlot, Miss, HasAddr, KeysKept, Active, Entry
<1>4. ASSUME NEW b \in Boat, Register(b), RegisterKnown(b) PROVE KeysKept
    BY <1>4 DEF RegisterKnown, Holds, KeysKept, Active, Entry
<1>5. ASSUME NEW b \in Boat, AnswerFinal(b) PROVE KeysKept
    <2>1. \A i \in Slot : Active(i)' =>
              /\ Active(i) /\ table[i] \in Entry
              /\ \/ table'[i] = table[i]
                 \/ table'[i] = [table[i] EXCEPT !.success = "recent", !.missed = 0]
        BY <1>5 DEF AnswerFinal, Credits, CreditTooLate, HasAddr, Active
    <2> QED
        BY <2>1, EntryKeys DEF KeysKept
<1>6. ASSUME NEW i \in Slot, SuccessAges(i) PROVE KeysKept
    BY <1>6 DEF SuccessAges, KeysKept, Active, Entry
<1>7. CASE PortReboot
    BY <1>7 DEF PortReboot, KeysKept, Active
<1>8. CASE FlushResponse \/ RefreshBaseline \/ SelectBoat \/ EndRotation \/ SendGrant
           \/ WaitForResult \/ WindUp \/ ReportLeaves \/ DeadlinePasses
           \/ AuthDeadlinePasses \/ ConfigChange \/ UNCHANGED vars
    BY <1>1, <1>8 DEF FlushResponse, RefreshBaseline, SelectBoat, EndRotation, SendGrant,
       WaitForResult, WindUp, ReportLeaves, DeadlinePasses, AuthDeadlinePasses, ConfigChange, vars
<1>9. ASSUME NEW b \in Boat, BoatTimeout(b) \/ TakeGrant(b) \/ StarboardDone(b) \/ GiveUp(b)
                             \/ Retry(b) \/ AnswerPoll(b) \/ BoatReboot(b)
      PROVE  KeysKept
    BY <1>1, <1>9 DEF BoatTimeout, TakeGrant, StarboardDone, GiveUp, Retry, AnswerPoll, BoatReboot
<1> QED
    BY <1>2, <1>3, <1>4, <1>5, <1>6, <1>7, <1>8, <1>9
       DEF Next, Step, Fault, PortTask, BoatTask, PortFrames, Clock, Register

-----------------------------------------------------------------------------
(* Unique keys *)

LEMMA NextTableUnique == TypeInv /\ TableUnique /\ [Next]_vars => TableUnique'
<1> SUFFICES ASSUME TypeInv, TableUnique, [Next]_vars PROVE TableUnique'
    OBVIOUS
<1>1. CASE KeysKept
    BY <1>1 DEF KeysKept, TableUnique, Active
<1>2. ASSUME NEW b \in Boat, RegisterNew(b) PROVE TableUnique'
    <2>1. PICK i \in Slot, a \in Addr :
              /\ LowestFreeAddr(a)
              /\ table' = [table EXCEPT ![i] =
                              [uuid |-> b, addr |-> a, missed |-> 0, success |-> "never"]]
        BY <1>2 DEF RegisterNew
    <2>2. \A j \in Slot : Active(j) => table[j].uuid # b /\ table[j].addr # a
        BY <1>2, <2>1 DEF RegisterNew, Listed, Holds, LowestFreeAddr, Used, HasAddr
    <2>3. /\ table'[i].uuid = b /\ table'[i].addr = a
          /\ \A j \in Slot : j # i => table'[j] = table[j]
        BY <2>1 DEF TypeInv, TypeOK
    <2> QED
        BY <2>2, <2>3 DEF TableUnique, Active
<1> QED
    BY <1>1, <1>2, StepKeys

\* No two entries share a UUID or an address, for any size of the table.
THEOREM TableAlwaysUnique == Spec => []TableUnique
<1>1. Init => TypeInv /\ TableUnique
    BY InitTypeInv DEF Init, TableUnique, Active
<1>2. TypeInv /\ TableUnique /\ [Next]_vars => (TypeInv /\ TableUnique)'
    BY NextTypeInv, NextTableUnique
<1> QED
    BY <1>1, <1>2, PTL DEF Spec

-----------------------------------------------------------------------------
(* Agreement on addresses *)

\* No Boat gets a registration and no response is queued.
RegistrationsKept ==
    /\ \A b \in Boat : reg'[b].on => reg[b].on /\ reg'[b].addr = reg[b].addr
    /\ rsp' \in {rsp, None}

LEMMA UnregisterKeeps ==
    ASSUME TypeInv, NEW b \in Boat, Unregister(b), rsp' = rsp
    PROVE  RegistrationsKept
<1>1. PICK n \in RegNonce : reg' = [reg EXCEPT ![b] = Unregistered(n)]
    BY DEF Unregister, FreshRegNonces
<1>2. ~Unregistered(n).on
    BY DEF Unregistered
<1> QED
    BY <1>1, <1>2 DEF RegistrationsKept, TypeInv, TypeOK

LEMMA StepRegistrations ==
    ASSUME TypeInv, [Next]_vars
    PROVE  RegistrationsKept \/ FlushResponse \/ \E b \in Boat : Register(b)
<1>1. ASSUME UNCHANGED <<reg, rsp>> PROVE RegistrationsKept
    BY <1>1 DEF RegistrationsKept
<1>2. CASE SendGrant
    <2>1. reg \in [Boat -> Registration] /\ target \in Boat \cup {None}
        BY DEF TypeInv, TypeOK
    <2>2. CASE target \in Boat /\ Unregister(target)
        BY <1>2, <2>2, UnregisterKeeps DEF SendGrant
    <2>3. CASE reg' = reg
        BY <1>1, <1>2, <2>3 DEF SendGrant
    <2>4. CASE reg' = [reg EXCEPT ![target].heard = TRUE]
        BY <1>2, <2>1, <2>4 DEF SendGrant, RegistrationsKept, Registration
    <2>5. CASE target \notin Boat /\ Unregister(target)
        BY <1>2, <2>1, <2>5 DEF SendGrant, RegistrationsKept, Unregister
    <2> QED
        BY <1>2, <2>1, <2>2, <2>3, <2>4, <2>5 DEF SendGrant, AcceptGrant
<1>3. ASSUME NEW b \in Boat, BoatTimeout(b) \/ BoatReboot(b) PROVE RegistrationsKept
    BY <1>3, UnregisterKeeps DEF BoatTimeout, BoatReboot
<1>4. CASE PortReboot
    BY <1>4 DEF PortReboot, RegistrationsKept
<1>5. CASE StartRotation \/ RefreshBaseline \/ SelectBoat \/ EndRotation \/ WaitForResult
           \/ CloseSlot \/ SweepTable \/ WindUp \/ ReportLeaves \/ DeadlinePasses
           \/ AuthDeadlinePasses \/ ConfigChange \/ UNCHANGED vars
    BY <1>1, <1>5 DEF StartRotation, RefreshBaseline, SelectBoat, EndRotation, WaitForResult,
       CloseSlot, SweepTable, WindUp, ReportLeaves, DeadlinePasses, AuthDeadlinePasses,
       ConfigChange, vars
<1>6. ASSUME NEW b \in Boat, TakeGrant(b) \/ StarboardDone(b) \/ GiveUp(b) \/ Retry(b)
                             \/ AnswerPoll(b) \/ AnswerFinal(b)
      PROVE  RegistrationsKept
    BY <1>1, <1>6 DEF TakeGrant, StarboardDone, GiveUp, Retry, AnswerPoll, AnswerFinal
<1>7. ASSUME NEW i \in Slot, SuccessAges(i) PROVE RegistrationsKept
    BY <1>1, <1>7 DEF SuccessAges
<1> QED
    BY <1>2, <1>3, <1>4, <1>5, <1>6, <1>7
       DEF Next, Step, Fault, PortTask, BoatTask, PortFrames, Clock

LEMMA NextAgreement ==
    TypeInv /\ TableUnique /\ AddressAgreement /\ [Next]_vars => AddressAgreement'
<1> SUFFICES ASSUME TypeInv, TableUnique, AddressAgreement, [Next]_vars PROVE AddressAgreement'
    OBVIOUS
<1>0. /\ reg \in [Boat -> Registration] /\ table \in [Slot -> Entry \cup {None}]
      /\ rsp # None => rsp \in Response
    BY DEF TypeInv, TypeOK
<1>1. CASE KeysKept /\ RegistrationsKept
    BY <1>1 DEF KeysKept, RegistrationsKept, AddressAgreement, Holds, Active
<1>2. CASE FlushResponse
    <2>1. UNCHANGED table /\ rsp' \in {rsp, None}
        BY <1>2 DEF FlushResponse
    <2>2. CASE reg' = reg
        BY <2>1, <2>2 DEF AddressAgreement, Holds, Active
    <2>3. CASE rsp # None /\ reg' # reg
        <3>1. rsp.uuid \in Boat /\ AcceptRegistration(rsp)
            BY <1>0, <1>2, <2>3 DEF FlushResponse, Response
        <3>2. /\ reg'[rsp.uuid].addr = rsp.addr
              /\ \A b \in Boat : b # rsp.uuid => reg'[b] = reg[b]
            BY <1>0, <2>3, <3>1 DEF AcceptRegistration, Registration
        <3> QED
            BY <2>1, <2>3, <3>2 DEF AddressAgreement, Holds, Active
    <2> QED
        BY <1>2, <2>2, <2>3 DEF FlushResponse
<1>3. ASSUME NEW b \in Boat, Register(b) PROVE AddressAgreement'
    <2>1. reg' = reg /\ ~reg[b].on
        BY <1>3 DEF Register
    <2>2. CASE RegisterKnown(b)
        <3>1. PICK i \in Slot : /\ Holds(i, b)
                                /\ table' = [table EXCEPT ![i].missed = 0]
                                /\ QueueResponse(b, table[i].addr)
            BY <2>2 DEF RegisterKnown
        <3>2. \A j \in Slot : Active(j)' => /\ Active(j)
                                            /\ table'[j].uuid = table[j].uuid
                                            /\ table'[j].addr = table[j].addr
            BY <1>0, <3>1, EntryKeys DEF Holds, Active
        <3>3. \A j \in Slot : Holds(j, b) => j = i
            BY <3>1 DEF TableUnique, Holds
        <3>4. rsp'.uuid = b /\ rsp'.addr = table[i].addr
            BY <3>1 DEF QueueResponse
        <3> QED
            BY <2>1, <3>2, <3>3, <3>4 DEF AddressAgreement, Holds
    <2>3. CASE RegisterNew(b)
        <3>1. PICK i \in Slot, a \in Addr :
                  /\ table' = [table EXCEPT ![i] =
                                  [uuid |-> b, addr |-> a, missed |-> 0, success |-> "never"]]
                  /\ QueueResponse(b, a)
            BY <2>3 DEF RegisterNew
        <3>2. /\ table'[i].uuid = b /\ table'[i].addr = a
              /\ \A j \in Slot : j # i => table'[j] = table[j]
            BY <1>0, <3>1
        <3>3. \A j \in Slot : Active(j) => table[j].uuid # b
            BY <2>3 DEF RegisterNew, Listed, Holds
        <3>4. rsp'.uuid = b /\ rsp'.addr = a
            BY <3>1 DEF QueueResponse
        <3> QED
            BY <2>1, <3>2, <3>3, <3>4 DEF AddressAgreement, Holds, Active
    <2> QED
        BY <1>3, <2>2, <2>3 DEF Register
<1> QED
    BY <1>1, <1>2, <1>3, StepKeys, StepRegistrations

\* A Boat Port lists never uses another address than the listed one, however
\* requests, responses, removals and restarts interleave.
THEOREM AddressesAgree == Spec => []AddressAgreement
<1> DEFINE Inv == TypeInv /\ TableUnique /\ AddressAgreement
<1>1. Init => Inv
    BY InitTypeInv DEF Init, TableUnique, AddressAgreement, Holds, Active
<1>2. Inv /\ [Next]_vars => Inv'
    BY NextTypeInv, NextTableUnique, NextAgreement
<1>3. Inv => AddressAgreement
    OBVIOUS
<1> QED
    BY <1>1, <1>2, <1>3, PTL DEF Spec

-----------------------------------------------------------------------------
(* The entry being served *)

\* The entry of the granted Boat is where it was.
ServedEntryKept ==
    /\ pc \in {"send", "wait", "done", "miss"}
    /\ target' = target /\ active' = active
    /\ \A i \in Slot : Active(i) => /\ Active(i)'
                                    /\ table'[i].uuid = table[i].uuid
                                    /\ table'[i].addr = table[i].addr

LEMMA NextSlotEntry == TypeInv /\ SlotEntry /\ [Next]_vars => SlotEntry'
<1> SUFFICES ASSUME TypeInv, SlotEntry, [Next]_vars,
                    pc' \in {"send", "wait", "done", "miss"}
             PROVE  SlotEntry'
    BY DEF SlotEntry
<1> USE DEF slotVars, taskVars
<1>0. /\ table \in [Slot -> Entry \cup {None}]
      /\ \A e \in Entry : e # None
    BY NoneAssumption DEF TypeInv, TypeOK
<1>1. ServedEntryKept => SlotEntry'
    BY DEF ServedEntryKept, SlotEntry, Holds, HasAddr, Active
<1>2. CASE SelectBoat
    BY <1>2 DEF SelectBoat, SlotEntry, NextInQueue, Holds, HasAddr, Active
<1>3. CASE FlushResponse \/ StartRotation \/ RefreshBaseline \/ EndRotation \/ CloseSlot
           \/ SweepTable \/ PortReboot
    BY <1>3 DEF FlushResponse, StartRotation, RefreshBaseline, EndRotation, CloseSlot,
       SweepTable, PortReboot
<1>4. ASSUME pc \in {"send", "wait", "done", "miss"}, UNCHANGED <<table, target, active>>
      PROVE  ServedEntryKept
    BY <1>4 DEF ServedEntryKept, Active
<1>5. CASE SendGrant \/ WaitForResult
    BY <1>1, <1>4, <1>5 DEF SendGrant, WaitForResult
<1>6. CASE WindUp \/ ReportLeaves \/ DeadlinePasses \/ AuthDeadlinePasses \/ ConfigChange
           \/ UNCHANGED vars
    BY <1>1, <1>4, <1>6
       DEF WindUp, ReportLeaves, DeadlinePasses, AuthDeadlinePasses, ConfigChange, vars
<1>7. ASSUME NEW b \in Boat, BoatTimeout(b) \/ TakeGrant(b) \/ StarboardDone(b) \/ GiveUp(b)
                             \/ Retry(b) \/ AnswerPoll(b) \/ BoatReboot(b)
      PROVE  SlotEntry'
    BY <1>1, <1>4, <1>7
       DEF BoatTimeout, TakeGrant, StarboardDone, GiveUp, Retry, AnswerPoll, BoatReboot
<1>8. ASSUME NEW b \in Boat, Register(b) PROVE SlotEntry'
    <2>1. CASE RegisterKnown(b)
        <3>1. PICK i \in Slot : Active(i) /\ table' = [table EXCEPT ![i].missed = 0]
            BY <2>1 DEF RegisterKnown, Holds
        <3>2. \A k \in Slot : Active(k) => Active(k)' /\ table'[k].uuid = table[k].uuid
                                                     /\ table'[k].addr = table[k].addr
            BY <1>0, <3>1, EntryTypes, EntryKeys DEF Active
        <3> QED
            BY <1>1, <1>8, <3>2 DEF Register, ServedEntryKept
    <2>2. CASE RegisterNew(b)
        BY <1>0, <1>1, <1>8, <2>2
           DEF Register, RegisterNew, FirstFreeSlot, ServedEntryKept, Active
    <2> QED
        BY <1>8, <2>1, <2>2 DEF Register
<1>9. ASSUME NEW b \in Boat, AnswerFinal(b) PROVE SlotEntry'
    <2>1. \A i \in Slot : Active(i) =>
              /\ table[i] \in Entry
              /\ \/ table'[i] = table[i]
                 \/ table'[i] = [table[i] EXCEPT !.success = "recent", !.missed = 0]
        BY <1>0, <1>9 DEF AnswerFinal, Credits, CreditTooLate, HasAddr, Active
    <2>2. \A i \in Slot : Active(i) => Active(i)' /\ table'[i].uuid = table[i].uuid
                                                 /\ table'[i].addr = table[i].addr
        BY <1>0, <2>1, EntryTypes, EntryKeys DEF Active
    <2> QED
        BY <1>1, <1>9, <2>2 DEF AnswerFinal, ServedEntryKept, Credits, CreditTooLate
<1>10. ASSUME NEW i \in Slot, SuccessAges(i) PROVE SlotEntry'
    BY <1>0, <1>1, <1>10 DEF SuccessAges, ServedEntryKept, Active, Entry
<1> QED
    BY <1>2, <1>3, <1>5, <1>6, <1>7, <1>8, <1>9, <1>10
       DEF Next, Step, Fault, PortTask, BoatTask, PortFrames, Clock

\* The entry of the Boat whose slot it is stays in the table, for any size.
THEOREM ServedEntryStays == Spec => []SlotEntry
<1>1. Init => TypeInv /\ SlotEntry
    BY InitTypeInv DEF Init, SlotEntry
<1>2. TypeInv /\ SlotEntry /\ [Next]_vars => (TypeInv /\ SlotEntry)'
    BY NextTypeInv, NextSlotEntry
<1> QED
    BY <1>1, <1>2, PTL DEF Spec

-----------------------------------------------------------------------------
(* Round robin *)

\* The distance of a slot from the cursor, without the modulus.
LEMMA AheadValue ==
    ASSUME NEW c \in Slot, NEW j \in Slot
    PROVE  (j + NumSlots - c) % NumSlots = IF j >= c THEN j - c ELSE j + NumSlots - c
<1>1. NumSlots \in Nat \ {0} /\ c \in 1..NumSlots /\ j \in 1..NumSlots
    BY SlotsAssumption DEF Slot
<1>2. CASE j >= c
    <2>1. j + NumSlots - c = 1 * NumSlots + (j - c) /\ j - c \in 0..(NumSlots - 1)
        BY <1>1, <1>2
    <2> QED
        BY <1>1, <1>2, <2>1
<1>3. CASE j < c
    BY <1>1, <1>3
<1> QED
    BY <1>1, <1>2, <1>3

LEMMA GrantAdvancesQueue ==
    ASSUME TypeInv, SelectBoat,
           NEW j \in Slot, Active(j), table[j].uuid # target'
    PROVE  Ahead(j)' < Ahead(j)
<1>1. PICK i \in Slot :
          NextInQueue(i) /\ cursor' = CursorAfter(i) /\ target' = table[i].uuid
    BY DEF SelectBoat
<1>2. i # j /\ Ahead(i) <= Ahead(j)
    BY <1>1 DEF NextInQueue
<1>3. cursor \in Slot /\ cursor' \in Slot
    BY <1>1, CursorType DEF TypeInv, TypeOK
<1>4. NumSlots \in Nat /\ i \in 1..NumSlots /\ j \in 1..NumSlots /\ cursor \in 1..NumSlots
    BY <1>3, SlotsAssumption DEF Slot
<1>5. cursor' = IF i = NumSlots THEN 1 ELSE i + 1
    <2>1. i % NumSlots = IF i = NumSlots THEN 0 ELSE i
        BY <1>4
    <2> QED
        BY <1>1, <1>4, <2>1 DEF CursorAfter
<1>6. /\ Ahead(i) = IF i >= cursor THEN i - cursor ELSE i + NumSlots - cursor
      /\ Ahead(j) = IF j >= cursor THEN j - cursor ELSE j + NumSlots - cursor
      /\ Ahead(j)' = IF j >= cursor' THEN j - cursor' ELSE j + NumSlots - cursor'
    BY <1>3, AheadValue DEF Ahead
<1> QED
    BY <1>2, <1>4, <1>5, <1>6

\* Only a grant and a restart move the cursor.
LEMMA CursorMoves ==
    ASSUME [Next]_vars, ~(pc = "select" /\ pc' = "send")
    PROVE  cursor' = cursor \/ epoch' # epoch
<1>1. CASE PortTask
    BY <1>1 DEF PortTask, FlushResponse, StartRotation, RefreshBaseline, SelectBoat,
       EndRotation, SendGrant, WaitForResult, CloseSlot, SweepTable
<1>2. ASSUME NEW b \in Boat, BoatTask(b) PROVE cursor' = cursor
    BY <1>2 DEF BoatTask, Register, BoatTimeout, TakeGrant, StarboardDone, GiveUp, Retry
<1>3. CASE PortFrames \/ Clock \/ UNCHANGED vars
    BY <1>3 DEF PortFrames, Clock, WindUp, ReportLeaves, AnswerPoll, AnswerFinal,
       DeadlinePasses, AuthDeadlinePasses, SuccessAges, vars
<1>4. CASE Fault
    BY <1>4 DEF Fault, PortReboot, ConfigChange, BoatReboot, FreshEpochs
<1> QED
    BY <1>1, <1>2, <1>3, <1>4 DEF Next, Step

\* Round robin for any number of slots: with each grant every waiting entry is
\* strictly nearer to its own, so it is overtaken less than NumSlots times.
THEOREM RoundRobin == Spec => QueueAdvances
<1> DEFINE A == IF pc = "select" /\ pc' = "send"
                THEN \A j \in Slot : Active(j) /\ table[j].uuid # target' => Ahead(j)' < Ahead(j)
                ELSE cursor' = cursor \/ epoch' # epoch
<1>1. TypeInv /\ [Next]_vars => [A]_vars
    <2> SUFFICES ASSUME TypeInv, [Next]_vars PROVE A
        OBVIOUS
    <2>1. CASE pc = "select" /\ pc' = "send"
        <3>1. SelectBoat
            BY <2>1 DEF Next, Step, Fault, PortTask, BoatTask, PortFrames, Clock, taskVars,
               FlushResponse, StartRotation, RefreshBaseline, EndRotation, SendGrant,
               WaitForResult, CloseSlot, SweepTable, Register, BoatTimeout, TakeGrant,
               StarboardDone, GiveUp, Retry, WindUp, ReportLeaves, AnswerPoll, AnswerFinal,
               DeadlinePasses, AuthDeadlinePasses, SuccessAges, PortReboot, ConfigChange,
               BoatReboot, vars
        <3> QED
            BY <2>1, <3>1, GrantAdvancesQueue
    <2>2. CASE ~(pc = "select" /\ pc' = "send")
        BY <2>2, CursorMoves
    <2> QED
        BY <2>1, <2>2
<1>2. Init => TypeInv
    BY InitTypeInv
<1>3. TypeInv /\ [Next]_vars => TypeInv'
    BY NextTypeInv
<1> QED
    BY <1>1, <1>2, <1>3, PTL DEF Spec, QueueAdvances

=============================================================================
