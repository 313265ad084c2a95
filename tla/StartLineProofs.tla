-------------------------- MODULE StartLineProofs --------------------------
(***************************************************************************)
(* Proofs about StartLine, for every number of Boats, slots, addresses,    *)
(* allowed misses and values of the nonces and epochs.                     *)
(***************************************************************************)
EXTENDS StartLine, FiniteSetTheorems, TLAPS

-----------------------------------------------------------------------------
(* Type correctness *)

\* What TypeOK needs to be inductive: a slot is served only when the rotation
\* has slots left, and an entry reaches the limit of missed grants only where
\* the sweep that removes it comes next.
Sweeping ==
    /\ pc \in {"send", "wait", "done", "miss", "clean"} => left > 0
    /\ pc # "clean" => \A i \in Slot : Active(i) => table[i].missed < MaxMissed

TypeInv == TypeOK /\ Sweeping

\* Each entry is an entry, and of the entries outside the sweep none is due.
LEMMA ExpireType ==
    ASSUME TypeOK, Expire
    PROVE  /\ table' \in [Slot -> Entry \cup {None}]
           /\ \A i \in Slot : table'[i] # None => /\ table'[i] = table[i]
                                                 /\ table[i].missed < MaxMissed
<1>1. \A i \in Slot : table'[i] = IF Active(i) /\ Expires(table[i]) THEN None ELSE table[i]
    BY DEF Expire
<1>2. \A i \in Slot : Active(i) => table[i] \in Entry
    BY DEF TypeOK, Active
<1>3. \A i \in Slot : table'[i] # None => table'[i] = table[i] /\ table[i].missed < MaxMissed
    BY <1>1, <1>2, MissedAssumption DEF Active, Expires, Entry
<1> QED
    BY <1>1, <1>3 DEF Expire, TypeOK

\* The number of entries a rotation starts with is a natural number.
LEMMA CountType ==
    ASSUME NEW t, NEW n, n = Cardinality({i \in Slot : t[i] # None})
    PROVE  n \in Nat
<1>1. IsFiniteSet(Slot)
    BY FS_Interval, SlotsAssumption DEF Slot
<1>2. IsFiniteSet({i \in Slot : t[i] # None})
    BY <1>1, FS_Subset, {i \in Slot : t[i] # None} \subseteq Slot
<1> QED
    BY <1>2, FS_CardinalityType

\* What a registration, a credit and the clock do to an entry.
LEMMA EntryTypes ==
    ASSUME NEW e \in Entry
    PROVE  /\ [e EXCEPT !.missed = 0] \in Entry
           /\ [e EXCEPT !.missed = 0].missed = 0
           /\ [e EXCEPT !.success = "recent", !.missed = 0] \in Entry
           /\ [e EXCEPT !.success = "recent", !.missed = 0].missed = 0
           /\ [e EXCEPT !.success = "old"] \in Entry
           /\ [e EXCEPT !.success = "old"].missed = e.missed
<1>1. 0 \in 0..MaxMissed
    BY MissedAssumption
<1> QED
    BY <1>1 DEF Entry

LEMMA CursorType == \A i \in Slot : CursorAfter(i) \in Slot
<1> SUFFICES ASSUME NEW i \in Slot PROVE (i % NumSlots) + 1 \in 1..NumSlots
    BY DEF CursorAfter, Slot
<1>1. i \in Nat /\ NumSlots \in Nat /\ NumSlots > 0
    BY SlotsAssumption DEF Slot
<1>2. i % NumSlots \in 0..(NumSlots - 1)
    BY <1>1
<1> QED
    BY <1>1, <1>2

\* The registrations the handlers of a Boat make are registrations.
LEMMA RegistrationTypes ==
    ASSUME NEW r \in Registration
    PROVE  /\ \A n \in RegNonce : Unregistered(n) \in Registration
           /\ [r EXCEPT !.heard = TRUE] \in Registration
           /\ \A m \in Response : [r EXCEPT !.on = TRUE, !.addr = m.addr, !.epoch = m.epoch,
                                            !.heard = FALSE] \in Registration
BY DEF Registration, Unregistered, Response

LEMMA InitTypeInv == Init => TypeInv
<1> SUFFICES ASSUME Init PROVE TypeInv
    OBVIOUS
<1>1. \A n \in RegNonce : Unregistered(n) \in Registration
    BY DEF Unregistered, Registration
<1>2. 1 \in Slot
    BY SlotsAssumption DEF Slot
<1> QED
    BY <1>1, <1>2 DEF Init, TypeInv, TypeOK, Sweeping, Active, PortSteps

\* The parts of the type invariant: the Boolean variables, Port's table and
\* task, the rest of Port, and the Boats.
FlagTypes == open \in BOOLEAN /\ done \in BOOLEAN /\ busy \in BOOLEAN /\ unmeasured \in BOOLEAN

TaskTypes ==
    /\ table \in [Slot -> Entry \cup {None}] /\ cursor \in Slot
    /\ pc \in PortSteps /\ left \in Nat

PortTypes ==
    /\ epoch \in Epoch /\ rsp \in Response \cup {None}
    /\ active \in Addr \cup {Unassigned} /\ grantNonce \in GrantNonce \cup {None}
    /\ auth \in Addr \cup {Unassigned} /\ exch \in GrantNonce \cup {None}
    /\ report \in Boat \cup {None} /\ target \in Boat \cup {None}
    /\ credit \in Credit \cup {None}

BoatTypes ==
    /\ reg \in [Boat -> Registration]
    /\ pgrant \in [Boat -> GrantNonce \cup {None}]
    /\ leg \in [Boat -> {"off", "starboard", "ready", "admitted", "reported"}]
    /\ run \in [Boat -> GrantNonce \cup {None}]

LEMMA NextTypeInv == TypeInv /\ [Next]_vars => TypeInv'
<1> SUFFICES ASSUME TypeInv, [Next]_vars PROVE TypeInv'
    OBVIOUS
<1>0. FlagTypes /\ TaskTypes /\ PortTypes /\ BoatTypes /\ Sweeping
    BY DEF TypeInv, TypeOK, FlagTypes, TaskTypes, PortTypes, BoatTypes
<1> USE DEF slotVars, creditVars, taskVars, twrVars, runVars
<1>1. CASE FlushResponse
  <2>1. FlagTypes'
    BY <1>0, <1>1 DEF FlushResponse, FlagTypes
  <2>2. TaskTypes'
    BY <1>0, <1>1 DEF FlushResponse, TaskTypes, PortSteps
  <2>3. PortTypes'
    BY <1>0, <1>1 DEF FlushResponse, PortTypes, Transmit
  <2>4. BoatTypes'
    <3>1. CASE UNCHANGED reg
        BY <1>0, <1>1, <3>1 DEF FlushResponse, BoatTypes
    <3>2. CASE rsp # None /\ AcceptRegistration(rsp)
        <4>1. rsp \in Response /\ reg[rsp.uuid] \in Registration
            BY <1>0, <3>2 DEF PortTypes, BoatTypes, Response
        <4> QED
            BY <1>0, <1>1, <3>2, <4>1, RegistrationTypes
               DEF FlushResponse, BoatTypes, AcceptRegistration
    <3> QED
        BY <1>1, <3>1, <3>2 DEF FlushResponse
  <2>5. Sweeping'
    BY <1>0, <1>1 DEF FlushResponse, Sweeping, Active, TaskTypes
  <2> QED
    BY <2>1, <2>2, <2>3, <2>4, <2>5 DEF TypeInv, TypeOK, FlagTypes, TaskTypes, PortTypes, BoatTypes
<1>2. CASE StartRotation
  <2>1. FlagTypes'
    BY <1>0, <1>2 DEF StartRotation, FlagTypes
  <2>2. TaskTypes'
    <3>1. table' \in [Slot -> Entry \cup {None}]
        BY <1>2, ExpireType DEF StartRotation, TypeInv
    <3>2. Cardinality({i \in Slot : table'[i] # None}) \in Nat
        BY CountType
    <3> QED
        BY <1>0, <1>2, <3>1, <3>2 DEF StartRotation, TaskTypes, PortSteps
  <2>3. PortTypes'
    BY <1>0, <1>2 DEF StartRotation, PortTypes
  <2>4. BoatTypes'
    BY <1>0, <1>2 DEF StartRotation, BoatTypes
  <2>5. Sweeping'
    BY <1>2, ExpireType DEF StartRotation, Sweeping, Active, TypeInv
  <2> QED
    BY <2>1, <2>2, <2>3, <2>4, <2>5 DEF TypeInv, TypeOK, FlagTypes, TaskTypes, PortTypes, BoatTypes
<1>3. CASE RefreshBaseline
  <2>1. FlagTypes'
    BY <1>0, <1>3 DEF RefreshBaseline, FlagTypes
  <2>2. TaskTypes'
    BY <1>0, <1>3 DEF RefreshBaseline, TaskTypes, PortSteps
  <2>3. PortTypes'
    BY <1>0, <1>3 DEF RefreshBaseline, PortTypes, Transmit
  <2>4. BoatTypes'
    BY <1>0, <1>3 DEF RefreshBaseline, BoatTypes, Transmit
  <2>5. Sweeping'
    BY <1>0, <1>3 DEF RefreshBaseline, Sweeping, Active, TaskTypes
  <2> QED
    BY <2>1, <2>2, <2>3, <2>4, <2>5 DEF TypeInv, TypeOK, FlagTypes, TaskTypes, PortTypes, BoatTypes
<1>4. CASE SelectBoat
  <2>1. FlagTypes'
    BY <1>0, <1>4 DEF SelectBoat, FlagTypes, ClearDone
  <2>2. TaskTypes'
    BY <1>0, <1>4, CursorType DEF SelectBoat, TaskTypes, PortSteps
  <2>3. PortTypes'
    <3>1. \A i \in Slot : NextInQueue(i) => table[i].uuid \in Boat /\ table[i].addr \in Addr
        BY <1>0 DEF NextInQueue, Active, TaskTypes, Entry
    <3> QED
        BY <1>0, <1>4, <3>1 DEF SelectBoat, PortTypes, FreshGrantNonces
  <2>4. BoatTypes'
    BY <1>0, <1>4 DEF SelectBoat, BoatTypes
  <2>5. Sweeping'
    BY <1>0, <1>4 DEF SelectBoat, Sweeping, Active, TaskTypes
  <2> QED
    BY <2>1, <2>2, <2>3, <2>4, <2>5 DEF TypeInv, TypeOK, FlagTypes, TaskTypes, PortTypes, BoatTypes
<1>5. CASE EndRotation
  <2>1. FlagTypes'
    BY <1>0, <1>5 DEF EndRotation, FlagTypes
  <2>2. TaskTypes'
    BY <1>0, <1>5 DEF EndRotation, TaskTypes, PortSteps
  <2>3. PortTypes'
    BY <1>0, <1>5 DEF EndRotation, PortTypes
  <2>4. BoatTypes'
    BY <1>0, <1>5 DEF EndRotation, BoatTypes
  <2>5. Sweeping'
    BY <1>0, <1>5 DEF EndRotation, Sweeping, Active, TaskTypes
  <2> QED
    BY <2>1, <2>2, <2>3, <2>4, <2>5 DEF TypeInv, TypeOK, FlagTypes, TaskTypes, PortTypes, BoatTypes
<1>6. CASE SendGrant
  <2>1. FlagTypes'
    BY <1>0, <1>6 DEF SendGrant, FlagTypes
  <2>2. TaskTypes'
    BY <1>0, <1>6 DEF SendGrant, TaskTypes, PortSteps
  <2>3. PortTypes'
    BY <1>0, <1>6 DEF SendGrant, PortTypes, Transmit
  <2>4. BoatTypes'
    <3>1. CASE UNCHANGED <<reg, pgrant>>
        BY <1>0, <1>6, <3>1 DEF SendGrant, BoatTypes
    <3>2. CASE AcceptGrant(target, active) /\ target \in Boat
        <4>1. reg[target] \in Registration
            BY <1>0, <3>2 DEF BoatTypes
        <4> QED
            BY <1>0, <1>6, <3>2, <4>1, RegistrationTypes
               DEF SendGrant, BoatTypes, PortTypes, AcceptGrant, Unregister, FreshRegNonces
    <3>3. CASE target \notin Boat
        BY <1>0, <1>6, <3>3 DEF SendGrant, BoatTypes, PortTypes, AcceptGrant, Unregister
    <3> QED
        BY <1>6, <3>1, <3>2, <3>3 DEF SendGrant
  <2>5. Sweeping'
    BY <1>0, <1>6 DEF SendGrant, Sweeping, Active, TaskTypes
  <2> QED
    BY <2>1, <2>2, <2>3, <2>4, <2>5 DEF TypeInv, TypeOK, FlagTypes, TaskTypes, PortTypes, BoatTypes
<1>7. CASE WaitForResult
  <2>1. FlagTypes'
    BY <1>0, <1>7 DEF WaitForResult, FlagTypes
  <2>2. TaskTypes'
    BY <1>0, <1>7 DEF WaitForResult, TaskTypes, PortSteps
  <2>3. PortTypes'
    BY <1>0, <1>7 DEF WaitForResult, PortTypes
  <2>4. BoatTypes'
    BY <1>0, <1>7 DEF WaitForResult, BoatTypes
  <2>5. Sweeping'
    BY <1>0, <1>7 DEF WaitForResult, Sweeping, Active, TaskTypes
  <2> QED
    BY <2>1, <2>2, <2>3, <2>4, <2>5 DEF TypeInv, TypeOK, FlagTypes, TaskTypes, PortTypes, BoatTypes
<1>8. CASE CloseSlot
  <2>1. FlagTypes'
    BY <1>0, <1>8 DEF CloseSlot, FlagTypes
  <2>2. TaskTypes'
    <3>1. \A i \in Slot : Active(i) =>
              /\ table[i] \in Entry
              /\ [table[i] EXCEPT !.missed = @ + 1] \in Entry
        BY <1>0, <1>8, MissedAssumption DEF CloseSlot, Sweeping, TaskTypes, Active, Entry
    <3> QED
        BY <1>0, <1>8, <3>1 DEF CloseSlot, TaskTypes, PortSteps, Miss, HasAddr
  <2>3. PortTypes'
    BY <1>0, <1>8 DEF CloseSlot, PortTypes
  <2>4. BoatTypes'
    BY <1>0, <1>8 DEF CloseSlot, BoatTypes
  <2>5. Sweeping'
    BY <1>0, <1>8 DEF CloseSlot, Sweeping, Active, TaskTypes
  <2> QED
    BY <2>1, <2>2, <2>3, <2>4, <2>5 DEF TypeInv, TypeOK, FlagTypes, TaskTypes, PortTypes, BoatTypes
<1>9. CASE SweepTable
  <2>1. FlagTypes'
    BY <1>0, <1>9 DEF SweepTable, FlagTypes
  <2>2. TaskTypes'
    BY <1>0, <1>9, ExpireType DEF SweepTable, TaskTypes, PortSteps, Sweeping, TypeInv
  <2>3. PortTypes'
    BY <1>0, <1>9 DEF SweepTable, PortTypes
  <2>4. BoatTypes'
    BY <1>0, <1>9 DEF SweepTable, BoatTypes
  <2>5. Sweeping'
    BY <1>0, <1>9, ExpireType DEF SweepTable, Sweeping, Active, TypeInv
  <2> QED
    BY <2>1, <2>2, <2>3, <2>4, <2>5 DEF TypeInv, TypeOK, FlagTypes, TaskTypes, PortTypes, BoatTypes
<1>10. CASE WindUp
  <2>1. FlagTypes'
    BY <1>0, <1>10 DEF WindUp, FlagTypes
  <2>2. TaskTypes'
    BY <1>0, <1>10 DEF WindUp, TaskTypes, PortSteps
  <2>3. PortTypes'
    BY <1>0, <1>10 DEF WindUp, PortTypes
  <2>4. BoatTypes'
    BY <1>0, <1>10 DEF WindUp, BoatTypes
  <2>5. Sweeping'
    BY <1>0, <1>10 DEF WindUp, Sweeping, Active, TaskTypes
  <2> QED
    BY <2>1, <2>2, <2>3, <2>4, <2>5 DEF TypeInv, TypeOK, FlagTypes, TaskTypes, PortTypes, BoatTypes
<1>11. CASE ReportLeaves
  <2>1. FlagTypes'
    BY <1>0, <1>11 DEF ReportLeaves, FlagTypes
  <2>2. TaskTypes'
    BY <1>0, <1>11 DEF ReportLeaves, TaskTypes, PortSteps
  <2>3. PortTypes'
    BY <1>0, <1>11 DEF ReportLeaves, PortTypes
  <2>4. BoatTypes'
    BY <1>0, <1>11 DEF ReportLeaves, BoatTypes, EndRun
  <2>5. Sweeping'
    BY <1>0, <1>11 DEF ReportLeaves, Sweeping, Active, TaskTypes
  <2> QED
    BY <2>1, <2>2, <2>3, <2>4, <2>5 DEF TypeInv, TypeOK, FlagTypes, TaskTypes, PortTypes, BoatTypes
<1>12. CASE DeadlinePasses
  <2>1. FlagTypes'
    BY <1>0, <1>12 DEF DeadlinePasses, FlagTypes
  <2>2. TaskTypes'
    BY <1>0, <1>12 DEF DeadlinePasses, TaskTypes, PortSteps
  <2>3. PortTypes'
    BY <1>0, <1>12 DEF DeadlinePasses, PortTypes, Deauthorize
  <2>4. BoatTypes'
    BY <1>0, <1>12 DEF DeadlinePasses, BoatTypes
  <2>5. Sweeping'
    BY <1>0, <1>12 DEF DeadlinePasses, Sweeping, Active, TaskTypes
  <2> QED
    BY <2>1, <2>2, <2>3, <2>4, <2>5 DEF TypeInv, TypeOK, FlagTypes, TaskTypes, PortTypes, BoatTypes
<1>13. CASE AuthDeadlinePasses
  <2>1. FlagTypes'
    BY <1>0, <1>13 DEF AuthDeadlinePasses, FlagTypes
  <2>2. TaskTypes'
    BY <1>0, <1>13 DEF AuthDeadlinePasses, TaskTypes, PortSteps
  <2>3. PortTypes'
    BY <1>0, <1>13 DEF AuthDeadlinePasses, PortTypes, Deauthorize
  <2>4. BoatTypes'
    BY <1>0, <1>13 DEF AuthDeadlinePasses, BoatTypes
  <2>5. Sweeping'
    BY <1>0, <1>13 DEF AuthDeadlinePasses, Sweeping, Active, TaskTypes
  <2> QED
    BY <2>1, <2>2, <2>3, <2>4, <2>5 DEF TypeInv, TypeOK, FlagTypes, TaskTypes, PortTypes, BoatTypes
<1>14. CASE PortReboot
  <2>1. FlagTypes'
    BY <1>0, <1>14 DEF PortReboot, FlagTypes
  <2>2. TaskTypes'
    BY <1>0, <1>14, SlotsAssumption DEF PortReboot, TaskTypes, PortSteps, Slot
  <2>3. PortTypes'
    BY <1>0, <1>14 DEF PortReboot, PortTypes, FreshEpochs
  <2>4. BoatTypes'
    BY <1>0, <1>14 DEF PortReboot, BoatTypes
  <2>5. Sweeping'
    BY <1>0, <1>14 DEF PortReboot, Sweeping, Active, TaskTypes
  <2> QED
    BY <2>1, <2>2, <2>3, <2>4, <2>5 DEF TypeInv, TypeOK, FlagTypes, TaskTypes, PortTypes, BoatTypes
<1>15. CASE ConfigChange
  <2>1. FlagTypes'
    BY <1>0, <1>15 DEF ConfigChange, FlagTypes
  <2>2. TaskTypes'
    BY <1>0, <1>15 DEF ConfigChange, TaskTypes, PortSteps
  <2>3. PortTypes'
    BY <1>0, <1>15 DEF ConfigChange, PortTypes, FreshEpochs
  <2>4. BoatTypes'
    BY <1>0, <1>15 DEF ConfigChange, BoatTypes
  <2>5. Sweeping'
    BY <1>0, <1>15 DEF ConfigChange, Sweeping, Active, TaskTypes
  <2> QED
    BY <2>1, <2>2, <2>3, <2>4, <2>5 DEF TypeInv, TypeOK, FlagTypes, TaskTypes, PortTypes, BoatTypes
<1>16. ASSUME NEW b \in Boat, Register(b) PROVE TypeInv'
  <2>1. FlagTypes'
    BY <1>0, <1>16 DEF Register, FlagTypes
  <2>2. TaskTypes'
    <3>1. \A i \in Slot : Active(i) => [table[i] EXCEPT !.missed = 0] \in Entry
        BY <1>0, EntryTypes DEF TaskTypes, Active
    <3>2. \A a \in Addr : [uuid |-> b, addr |-> a, missed |-> 0, success |-> "never"] \in Entry
        BY MissedAssumption DEF Entry
    <3>3. CASE RegisterKnown(b)
        <4>1. PICK i \in Slot : Active(i) /\ table' = [table EXCEPT ![i].missed = 0]
            BY <3>3 DEF RegisterKnown, Holds
        <4> QED
            BY <1>0, <1>16, <3>1, <4>1 DEF Register, TaskTypes, taskVars
    <3>4. CASE RegisterNew(b)
        BY <1>0, <1>16, <3>2, <3>4 DEF Register, RegisterNew, TaskTypes
    <3> QED
        BY <1>16, <3>3, <3>4 DEF Register
  <2>3. PortTypes'
    BY <1>0, <1>16 DEF Register, PortTypes, RegisterKnown, RegisterNew, QueueResponse, Holds, Active, Entry, Response, BoatTypes, TaskTypes, Registration
  <2>4. BoatTypes'
    BY <1>0, <1>16 DEF Register, BoatTypes
  <2>5. Sweeping'
    <3>1. \A i \in Slot : Active(i) => table[i] \in Entry
        BY <1>0 DEF TaskTypes, Active
    <3>2. \A i \in Slot : Active(i)' =>
              \/ Active(i) /\ table'[i] = table[i]
              \/ Active(i) /\ table'[i] = [table[i] EXCEPT !.missed = 0]
              \/ table'[i].missed = 0
        BY <1>0, <1>16 DEF Register, RegisterKnown, RegisterNew, Holds, Active, TaskTypes
    <3>3. ASSUME NEW i \in Slot, Active(i)', pc # "clean" PROVE table'[i].missed < MaxMissed
        <4>1. 0 < MaxMissed
            BY MissedAssumption
        <4>2. CASE Active(i)
            <5>1. table[i].missed < MaxMissed /\ [table[i] EXCEPT !.missed = 0].missed = 0
                BY <1>0, <3>1, <3>3, <4>2, EntryTypes DEF Sweeping
            <5> QED
                BY <3>2, <3>3, <4>1, <5>1
        <4>3. CASE ~Active(i)
            BY <3>2, <3>3, <4>1, <4>3
        <4> QED
            BY <4>2, <4>3
    <3> QED
        BY <1>0, <1>16, <3>3 DEF Register, Sweeping
  <2> QED
    BY <2>1, <2>2, <2>3, <2>4, <2>5 DEF TypeInv, TypeOK, FlagTypes, TaskTypes, PortTypes, BoatTypes
<1>17. ASSUME NEW b \in Boat, BoatTimeout(b) PROVE TypeInv'
  <2>1. FlagTypes'
    BY <1>0, <1>17 DEF BoatTimeout, FlagTypes
  <2>2. TaskTypes'
    BY <1>0, <1>17 DEF BoatTimeout, TaskTypes, PortSteps
  <2>3. PortTypes'
    BY <1>0, <1>17 DEF BoatTimeout, PortTypes
  <2>4. BoatTypes'
    BY <1>0, <1>17 DEF BoatTimeout, BoatTypes, Unregister, Unregistered, FreshRegNonces, Registration
  <2>5. Sweeping'
    BY <1>0, <1>17 DEF BoatTimeout, Sweeping, Active, TaskTypes
  <2> QED
    BY <2>1, <2>2, <2>3, <2>4, <2>5 DEF TypeInv, TypeOK, FlagTypes, TaskTypes, PortTypes, BoatTypes
<1>18. ASSUME NEW b \in Boat, TakeGrant(b) PROVE TypeInv'
  <2>1. FlagTypes'
    BY <1>0, <1>18 DEF TakeGrant, FlagTypes
  <2>2. TaskTypes'
    BY <1>0, <1>18 DEF TakeGrant, TaskTypes, PortSteps
  <2>3. PortTypes'
    BY <1>0, <1>18 DEF TakeGrant, PortTypes
  <2>4. BoatTypes'
    BY <1>0, <1>18 DEF TakeGrant, BoatTypes
  <2>5. Sweeping'
    BY <1>0, <1>18 DEF TakeGrant, Sweeping, Active, TaskTypes
  <2> QED
    BY <2>1, <2>2, <2>3, <2>4, <2>5 DEF TypeInv, TypeOK, FlagTypes, TaskTypes, PortTypes, BoatTypes
<1>19. ASSUME NEW b \in Boat, StarboardDone(b) PROVE TypeInv'
  <2>1. FlagTypes'
    BY <1>0, <1>19 DEF StarboardDone, FlagTypes
  <2>2. TaskTypes'
    BY <1>0, <1>19 DEF StarboardDone, TaskTypes, PortSteps
  <2>3. PortTypes'
    BY <1>0, <1>19 DEF StarboardDone, PortTypes
  <2>4. BoatTypes'
    BY <1>0, <1>19 DEF StarboardDone, BoatTypes
  <2>5. Sweeping'
    BY <1>0, <1>19 DEF StarboardDone, Sweeping, Active, TaskTypes
  <2> QED
    BY <2>1, <2>2, <2>3, <2>4, <2>5 DEF TypeInv, TypeOK, FlagTypes, TaskTypes, PortTypes, BoatTypes
<1>20. ASSUME NEW b \in Boat, GiveUp(b) PROVE TypeInv'
  <2>1. FlagTypes'
    BY <1>0, <1>20 DEF GiveUp, FlagTypes
  <2>2. TaskTypes'
    BY <1>0, <1>20 DEF GiveUp, TaskTypes, PortSteps
  <2>3. PortTypes'
    BY <1>0, <1>20 DEF GiveUp, PortTypes
  <2>4. BoatTypes'
    BY <1>0, <1>20 DEF GiveUp, BoatTypes, EndRun
  <2>5. Sweeping'
    BY <1>0, <1>20 DEF GiveUp, Sweeping, Active, TaskTypes
  <2> QED
    BY <2>1, <2>2, <2>3, <2>4, <2>5 DEF TypeInv, TypeOK, FlagTypes, TaskTypes, PortTypes, BoatTypes
<1>21. ASSUME NEW b \in Boat, Retry(b) PROVE TypeInv'
  <2>1. FlagTypes'
    BY <1>0, <1>21 DEF Retry, FlagTypes
  <2>2. TaskTypes'
    BY <1>0, <1>21 DEF Retry, TaskTypes, PortSteps
  <2>3. PortTypes'
    BY <1>0, <1>21 DEF Retry, PortTypes
  <2>4. BoatTypes'
    BY <1>0, <1>21 DEF Retry, BoatTypes
  <2>5. Sweeping'
    BY <1>0, <1>21 DEF Retry, Sweeping, Active, TaskTypes
  <2> QED
    BY <2>1, <2>2, <2>3, <2>4, <2>5 DEF TypeInv, TypeOK, FlagTypes, TaskTypes, PortTypes, BoatTypes
<1>22. ASSUME NEW b \in Boat, AnswerPoll(b) PROVE TypeInv'
  <2>1. FlagTypes'
    BY <1>0, <1>22 DEF AnswerPoll, FlagTypes
  <2>2. TaskTypes'
    BY <1>0, <1>22 DEF AnswerPoll, TaskTypes, PortSteps
  <2>3. PortTypes'
    BY <1>0, <1>22 DEF AnswerPoll, PortTypes, Transmit, AdmitsPoll
  <2>4. BoatTypes'
    BY <1>0, <1>22 DEF AnswerPoll, BoatTypes
  <2>5. Sweeping'
    BY <1>0, <1>22 DEF AnswerPoll, Sweeping, Active, TaskTypes
  <2> QED
    BY <2>1, <2>2, <2>3, <2>4, <2>5 DEF TypeInv, TypeOK, FlagTypes, TaskTypes, PortTypes, BoatTypes
<1>23. ASSUME NEW b \in Boat, AnswerFinal(b) PROVE TypeInv'
  <2>1. FlagTypes'
    BY <1>0, <1>23 DEF AnswerFinal, FlagTypes, Credits, CreditTooLate, Deauthorize
  <2>2. TaskTypes'
    <3>1. \A i \in Slot : Active(i) =>
              [table[i] EXCEPT !.success = "recent", !.missed = 0] \in Entry
        BY <1>0, EntryTypes DEF TaskTypes, Active
    <3> QED
        BY <1>0, <1>23, <3>1
           DEF AnswerFinal, TaskTypes, PortSteps, Credits, CreditTooLate, HasAddr
  <2>3. PortTypes'
    <3>1. exch \in GrantNonce
        BY <1>0, <1>23 DEF AnswerFinal, AdmitsFinal, PortTypes
    <3>2. credit' \in Credit \cup {None}
        <4>1. credit' = [uuid |-> b, nonce |-> exch] \/ credit' = credit
            BY <1>23 DEF AnswerFinal, Credits, CreditTooLate
        <4>2. [uuid |-> b, nonce |-> exch] \in Credit
            BY <3>1 DEF Credit
        <4> QED
            BY <1>0, <4>1, <4>2 DEF PortTypes
    <3>3. auth' \in {auth, Unassigned} /\ exch' \in {exch, None}
        BY <1>23 DEF AnswerFinal, Credits, CreditTooLate, Deauthorize
    <3> QED
        BY <1>0, <1>23, <3>2, <3>3 DEF AnswerFinal, PortTypes
  <2>4. BoatTypes'
    BY <1>0, <1>23 DEF AnswerFinal, BoatTypes
  <2>5. Sweeping'
    <3>1. \A i \in Slot : Active(i)' =>
              /\ Active(i) /\ table[i] \in Entry
              /\ \/ table'[i] = table[i]
                 \/ table'[i] = [table[i] EXCEPT !.success = "recent", !.missed = 0]
        BY <1>0, <1>23 DEF AnswerFinal, Credits, CreditTooLate, HasAddr, Active, TaskTypes
    <3>2. ASSUME NEW i \in Slot, Active(i)', pc # "clean" PROVE table'[i].missed < MaxMissed
        <4>1. 0 < MaxMissed
            BY MissedAssumption
        <4>2. /\ table[i].missed < MaxMissed
              /\ [table[i] EXCEPT !.success = "recent", !.missed = 0].missed = 0
            BY <1>0, <3>1, <3>2, EntryTypes DEF Sweeping
        <4> QED
            BY <3>1, <3>2, <4>1, <4>2
    <3> QED
        BY <1>0, <1>23, <3>2 DEF AnswerFinal, Sweeping
  <2> QED
    BY <2>1, <2>2, <2>3, <2>4, <2>5 DEF TypeInv, TypeOK, FlagTypes, TaskTypes, PortTypes, BoatTypes
<1>24. ASSUME NEW b \in Boat, BoatReboot(b) PROVE TypeInv'
  <2>1. FlagTypes'
    BY <1>0, <1>24 DEF BoatReboot, FlagTypes
  <2>2. TaskTypes'
    BY <1>0, <1>24 DEF BoatReboot, TaskTypes, PortSteps
  <2>3. PortTypes'
    BY <1>0, <1>24 DEF BoatReboot, PortTypes
  <2>4. BoatTypes'
    BY <1>0, <1>24 DEF BoatReboot, BoatTypes, Unregister, Unregistered, FreshRegNonces, Registration, EndRun
  <2>5. Sweeping'
    BY <1>0, <1>24 DEF BoatReboot, Sweeping, Active, TaskTypes
  <2> QED
    BY <2>1, <2>2, <2>3, <2>4, <2>5 DEF TypeInv, TypeOK, FlagTypes, TaskTypes, PortTypes, BoatTypes
<1>25. ASSUME NEW i \in Slot, SuccessAges(i) PROVE TypeInv'
  <2>1. FlagTypes'
    BY <1>0, <1>25 DEF SuccessAges, FlagTypes
  <2>2. TaskTypes'
    <3>1. [table[i] EXCEPT !.success = "old"] \in Entry
        BY <1>0, <1>25, EntryTypes DEF SuccessAges, TaskTypes, Active
    <3> QED
        BY <1>0, <1>25, <3>1 DEF SuccessAges, TaskTypes, PortSteps
  <2>3. PortTypes'
    BY <1>0, <1>25 DEF SuccessAges, PortTypes
  <2>4. BoatTypes'
    BY <1>0, <1>25 DEF SuccessAges, BoatTypes
  <2>5. Sweeping'
    BY <1>0, <1>25 DEF SuccessAges, Sweeping, Active, TaskTypes
  <2> QED
    BY <2>1, <2>2, <2>3, <2>4, <2>5 DEF TypeInv, TypeOK, FlagTypes, TaskTypes, PortTypes, BoatTypes
<1>26. CASE UNCHANGED vars
  <2>1. FlagTypes'
    BY <1>0, <1>26 DEF vars, FlagTypes
  <2>2. TaskTypes'
    BY <1>0, <1>26 DEF vars, TaskTypes, PortSteps
  <2>3. PortTypes'
    BY <1>0, <1>26 DEF vars, PortTypes
  <2>4. BoatTypes'
    BY <1>0, <1>26 DEF vars, BoatTypes
  <2>5. Sweeping'
    BY <1>0, <1>26 DEF vars, Sweeping, Active, TaskTypes
  <2> QED
    BY <2>1, <2>2, <2>3, <2>4, <2>5 DEF TypeInv, TypeOK, FlagTypes, TaskTypes, PortTypes, BoatTypes
<1> QED
    BY <1>1, <1>2, <1>3, <1>4, <1>5, <1>6, <1>7, <1>8, <1>9, <1>10, <1>11, <1>12, <1>13, <1>14, <1>15, <1>16, <1>17, <1>18, <1>19, <1>20, <1>21, <1>22, <1>23, <1>24, <1>25, <1>26 DEF Next, Step, Fault, PortTask, BoatTask, PortFrames, Clock

\* The type invariant, for the start line of any size.
THEOREM TypeCorrect == Spec => []TypeOK
<1>1. Init => TypeInv
    BY InitTypeInv
<1>2. TypeInv /\ [Next]_vars => TypeInv'
    BY NextTypeInv
<1>3. TypeInv => TypeOK
    BY DEF TypeInv
<1> QED
    BY <1>1, <1>2, <1>3, PTL DEF Spec

=============================================================================
