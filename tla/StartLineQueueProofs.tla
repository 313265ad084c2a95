------------------------ MODULE StartLineQueueProofs ------------------------
(***************************************************************************)
(* StartLine implements GrantQueue: every step of the protocol, mapped to  *)
(* the queue's places, misses, served Boat and credit, is a step of the    *)
(* queue or leaves the queue alone.                                        *)
(***************************************************************************)
EXTENDS StartLineQueue, StartLineCreditProofs

-----------------------------------------------------------------------------
(* The refinement mapping, one variable of the queue at a time *)

placeBar == [b \in Boat |-> IF Listed(b) THEN Ahead(EntryOf(b)) ELSE None]
missesBar == [b \in Boat |-> IF Listed(b) THEN table[EntryOf(b)].missed ELSE 0]
creditedBar == IF credit = None THEN None ELSE credit.uuid
WaitingBar == {b \in Boat : placeBar[b] # None}

\* Between slots nobody is served.
Between == ~Serving => target = None

QueueInv == Inv /\ Between

LEMMA NextBetween == Between /\ [Next]_vars => Between'
<1> SUFFICES ASSUME Between, [Next]_vars PROVE Between'
    OBVIOUS
<1> USE DEF slotVars, creditVars, taskVars, twrVars, runVars
<1>1. CASE PortTask
    BY <1>1 DEF PortTask, FlushResponse, StartRotation, RefreshBaseline, SelectBoat, EndRotation,
       SendGrant, WaitForResult, CloseSlot, SweepTable, Between, Serving
<1>2. CASE UNCHANGED <<pc, target>>
    BY <1>2 DEF Between, Serving
<1>3. CASE PortReboot
    BY <1>3 DEF PortReboot, Between
<1>4. CASE \E b \in Boat : BoatTask(b)
    BY <1>2, <1>4 DEF BoatTask, Register, BoatTimeout, TakeGrant, StarboardDone, GiveUp, Retry
<1>5. CASE PortFrames \/ Clock
    BY <1>2, <1>5 DEF PortFrames, WindUp, ReportLeaves, AnswerPoll, AnswerFinal,
       Clock, DeadlinePasses, AuthDeadlinePasses, SuccessAges
<1>6. CASE ConfigChange \/ (\E b \in Boat : BoatReboot(b)) \/ UNCHANGED vars
    BY <1>2, <1>6 DEF ConfigChange, BoatReboot, vars
<1> QED
    BY <1>1, <1>3, <1>4, <1>5, <1>6 DEF Next, Step, Fault

LEMMA QueueInvHolds == Spec => []QueueInv
<1>1. Init => QueueInv
    BY InitInv DEF Init, QueueInv, Between
<1>2. QueueInv /\ [Next]_vars => QueueInv'
    BY NextInv, NextBetween DEF QueueInv
<1> QED
    BY <1>1, <1>2, PTL DEF Spec

-----------------------------------------------------------------------------
(* Places *)

\* A listed Boat has one entry, whose place and misses are the Boat's.
PlacesRight ==
    \A b \in Boat :
        /\ \A i \in Slot : Holds(i, b) => /\ EntryOf(b) = i
                                          /\ placeBar[b] = Ahead(i)
                                          /\ missesBar[b] = table[i].missed
        /\ ~Listed(b) => placeBar[b] = None /\ missesBar[b] = 0

LEMMA Places == TableUnique => PlacesRight
<1> SUFFICES ASSUME TableUnique, NEW b \in Boat
             PROVE  /\ \A i \in Slot : Holds(i, b) => /\ EntryOf(b) = i
                                                      /\ placeBar[b] = Ahead(i)
                                                      /\ missesBar[b] = table[i].missed
                    /\ ~Listed(b) => placeBar[b] = None /\ missesBar[b] = 0
    BY DEF PlacesRight
<1>1. ASSUME NEW i \in Slot, Holds(i, b) PROVE EntryOf(b) = i
    <2>1. \A j \in Slot : Holds(j, b) => j = i
        BY <1>1 DEF TableUnique, Holds
    <2>2. EntryOf(b) \in Slot /\ Holds(EntryOf(b), b)
        BY <1>1 DEF EntryOf
    <2> QED
        BY <2>1, <2>2
<1>2. ASSUME NEW i \in Slot, Holds(i, b) PROVE Listed(b)
    BY <1>2 DEF Listed
<1> QED
    BY <1>1, <1>2 DEF placeBar, missesBar

LEMMA PlacesLater == TableUnique' => PlacesRight'
BY Places, PTL

\* The distance of a slot from the cursor is a place, and no two slots share it.
LEMMA AheadIsPlace ==
    ASSUME NEW i \in Slot, cursor \in Slot
    PROVE  /\ Ahead(i) \in 0..NumSlots - 1 /\ Ahead(i) # None
           /\ \A j \in Slot : Ahead(j) = Ahead(i) => j = i
<1>1. NumSlots \in Nat \ {0} /\ cursor \in 1..NumSlots /\ i \in 1..NumSlots
    BY SlotsAssumption DEF Slot
<1>2. \A j \in Slot : Ahead(j) = IF j >= cursor THEN j - cursor ELSE j + NumSlots - cursor
    BY AheadValue DEF Ahead
<1> QED
    BY <1>1, <1>2, PlaceAssumption DEF Slot

\* Who is listed where, and the cursor, settle the places; the counts, the misses.
SameHolders == \A i \in Slot, b \in Boat : Holds(i, b)' <=> Holds(i, b)

LEMMA SamePlaces ==
    ASSUME TableUnique, TableUnique', SameHolders, cursor' = cursor
    PROVE  /\ placeBar' = placeBar
           /\ (\A i \in Slot : Active(i) => table'[i].missed = table[i].missed)
                  => missesBar' = missesBar
<1>1. PlacesRight /\ PlacesRight'
    BY Places, PlacesLater
<1>2. ASSUME NEW b \in Boat
      PROVE  /\ (placeBar[b])' = placeBar[b]
             /\ (\A i \in Slot : Active(i) => table'[i].missed = table[i].missed)
                    => (missesBar[b])' = missesBar[b]
    <2>1. CASE Listed(b)
        <3>1. PICK i \in Slot : Holds(i, b)
            BY <2>1 DEF Listed
        <3>2. Holds(i, b)' /\ Ahead(i)' = Ahead(i) /\ Active(i)
            BY <3>1 DEF SameHolders, Ahead, Holds
        <3> QED
            BY <1>1, <3>1, <3>2 DEF PlacesRight
    <2>2. CASE ~Listed(b)
        <3>1. ~Listed(b)'
            BY <2>2 DEF SameHolders, Listed
        <3> QED
            BY <1>1, <2>2, <3>1 DEF PlacesRight
    <2> QED
        BY <2>1, <2>2
<1> QED
    BY <1>2 DEF placeBar, missesBar

\* A step that changes neither table, cursor, served Boat nor credit.
LEMMA Stutters ==
    ASSUME UNCHANGED <<table, cursor, target, credit>>
    PROVE  UNCHANGED Queue!vars
BY DEF Queue!vars, EntryOf, Listed, Holds, Active, Ahead

LEMMA ListedHasPlace ==
    ASSUME QueueInv
    PROVE  \A b \in Boat : Listed(b) <=> placeBar[b] # None
<1>1. PlacesRight /\ cursor \in Slot
    BY Places DEF QueueInv, Inv, TypeInv, TypeOK
<1> QED
    BY <1>1, AheadIsPlace DEF PlacesRight, Listed

-----------------------------------------------------------------------------
(* The steps of the queue *)

LEMMA RegisterKnownRejoins ==
    ASSUME QueueInv, QueueInv', NEW b \in Boat, RegisterKnown(b),
           UNCHANGED <<cursor, target, credit>>
    PROVE  Queue!Rejoin(b)
<1>1. PICK i \in Slot : Holds(i, b) /\ table' = [table EXCEPT ![i].missed = 0]
    BY DEF RegisterKnown
<1>2. table \in [Slot -> Entry \cup {None}] /\ table[i] \in Entry
    BY <1>1 DEF QueueInv, Inv, TypeInv, TypeOK, Holds, Active
<1>3. table' = [table EXCEPT ![i] = [table[i] EXCEPT !.missed = 0]]
    BY <1>1, <1>2
<1>4. [table[i] EXCEPT !.missed = 0] \in Entry
    BY <1>2, EntryTypes
<1>5. table'[i] \in Entry /\ table'[i].uuid = table[i].uuid /\ table'[i].missed = 0
    BY <1>2, <1>3, <1>4, EntryTypes, EntryKeys
<1>6. SameHolders /\ \A j \in Slot : j # i => table'[j] = table[j]
    BY <1>1, <1>2, <1>3, <1>5, NoneAssumption DEF SameHolders, Holds, Active
<1>7. PlacesRight /\ PlacesRight' /\ placeBar' = placeBar
    BY <1>6, Places, PlacesLater, SamePlaces DEF QueueInv, Inv
<1>8. missesBar' = [missesBar EXCEPT ![b] = 0]
    <2> SUFFICES ASSUME NEW c \in Boat
                 PROVE  (missesBar[c])' = IF c = b THEN 0 ELSE missesBar[c]
        BY DEF missesBar
    <2>1. CASE c = b
        BY <1>1, <1>5, <1>6, <1>7, <2>1 DEF PlacesRight, SameHolders
    <2>2. CASE c # b /\ Listed(c)
        <3>1. PICK j \in Slot : Holds(j, c)
            BY <2>2 DEF Listed
        <3>2. j # i /\ Holds(j, c)'
            BY <1>1, <1>6, <2>2, <3>1 DEF Holds, SameHolders
        <3> QED
            BY <1>6, <1>7, <2>2, <3>1, <3>2 DEF PlacesRight
    <2>3. CASE c # b /\ ~Listed(c)
        <3>1. ~Listed(c)'
            BY <1>6, <2>3 DEF SameHolders, Listed
        <3> QED
            BY <1>7, <2>3, <3>1 DEF PlacesRight
    <2> QED
        BY <2>1, <2>2, <2>3
<1>9. b \in WaitingBar
    BY <1>1, ListedHasPlace DEF WaitingBar, Listed
<1> QED
    BY <1>7, <1>8, <1>9 DEF Queue!Rejoin, Queue!Waiting, WaitingBar, placeBar, missesBar

LEMMA RegisterNewJoins ==
    ASSUME QueueInv, QueueInv', NEW b \in Boat, RegisterNew(b),
           UNCHANGED <<cursor, target, credit>>
    PROVE  Queue!Join(b)
<1>1. PICK i \in Slot, a \in Addr :
          /\ FirstFreeSlot(i)
          /\ table' = [table EXCEPT ![i] =
                          [uuid |-> b, addr |-> a, missed |-> 0, success |-> "never"]]
    BY DEF RegisterNew
<1>2. ~Listed(b) /\ ~Active(i) /\ cursor \in Slot /\ table \in [Slot -> Entry \cup {None}]
    BY <1>1 DEF RegisterNew, FirstFreeSlot, QueueInv, Inv, TypeInv, TypeOK
<1>3. [uuid |-> b, addr |-> a, missed |-> 0, success |-> "never"] \in Entry
    BY MissedAssumption DEF Entry
<1>4. /\ table'[i] # None /\ table'[i].uuid = b /\ table'[i].missed = 0
      /\ \A j \in Slot : j # i => table'[j] = table[j]
    BY <1>1, <1>2, <1>3, NoneAssumption
<1>5. PlacesRight /\ PlacesRight'
    BY Places, PlacesLater DEF QueueInv, Inv
<1>6. Holds(i, b)' /\ (placeBar[b])' = Ahead(i) /\ (missesBar[b])' = 0
    BY <1>4, <1>5 DEF Holds, Active, PlacesRight, Ahead
<1>7. ASSUME NEW c \in Boat, c # b
      PROVE  (placeBar[c])' = placeBar[c] /\ (missesBar[c])' = missesBar[c]
    <2>1. \A j \in Slot : Holds(j, c)' <=> Holds(j, c)
        BY <1>2, <1>4, <1>7 DEF Holds, Active
    <2>2. CASE Listed(c)
        <3>1. PICK j \in Slot : Holds(j, c)
            BY <2>2 DEF Listed
        <3>2. j # i /\ Holds(j, c)' /\ Ahead(j)' = Ahead(j)
            BY <1>2, <2>1, <3>1 DEF Holds, Ahead
        <3> QED
            BY <1>4, <1>5, <3>1, <3>2 DEF PlacesRight
    <2>3. CASE ~Listed(c)
        BY <1>5, <2>1, <2>3 DEF PlacesRight, Listed
    <2> QED
        BY <2>2, <2>3
<1>8. placeBar[b] = None /\ missesBar[b] = 0
    BY <1>2, <1>5 DEF PlacesRight
<1>9. /\ placeBar' = [placeBar EXCEPT ![b] = Ahead(i)]
      /\ missesBar' = missesBar
    BY <1>6, <1>7, <1>8 DEF placeBar, missesBar
<1>10. Ahead(i) \in 0..NumSlots - 1 /\ \A c \in WaitingBar : placeBar[c] # Ahead(i)
    <2> SUFFICES ASSUME NEW c \in Boat, placeBar[c] # None PROVE placeBar[c] # Ahead(i)
        BY <1>2, AheadIsPlace DEF WaitingBar
    <2>1. PICK j \in Slot : Holds(j, c)
        BY ListedHasPlace DEF Listed
    <2>2. j # i /\ placeBar[c] = Ahead(j)
        BY <1>2, <1>5, <2>1 DEF Holds, PlacesRight
    <2> QED
        BY <1>2, <2>2, AheadIsPlace
<1> QED
    BY <1>8, <1>9, <1>10 DEF Queue!Join, Queue!Waiting, Queue!Place, WaitingBar, placeBar, missesBar

LEMMA ExpireLeaves ==
    ASSUME QueueInv, QueueInv', Expire, ~Serving, UNCHANGED <<cursor, target, credit>>
    PROVE  Queue!Leave
<1> DEFINE gone == {b \in Boat : Listed(b) /\ ~Listed(b)'}
<1>1. \A i \in Slot : table'[i] = IF Active(i) /\ Expires(table[i]) THEN None ELSE table[i]
    BY DEF Expire
<1>2. PlacesRight /\ PlacesRight'
    BY Places, PlacesLater DEF QueueInv, Inv
<1>3. \A b \in Boat : Listed(b)' => Listed(b)
    BY <1>1 DEF Listed, Holds, Active
<1>4. ASSUME NEW b \in Boat, Listed(b), Listed(b)'
      PROVE  (placeBar[b])' = placeBar[b] /\ (missesBar[b])' = missesBar[b]
    <2>1. PICK i \in Slot : Holds(i, b)'
        BY <1>4 DEF Listed
    <2>2. Holds(i, b) /\ table'[i] = table[i] /\ Ahead(i)' = Ahead(i)
        BY <1>1, <2>1 DEF Holds, Active, Ahead
    <2> QED
        BY <1>2, <2>1, <2>2 DEF PlacesRight
<1>5. placeBar' = [b \in Boat |-> IF b \in gone THEN None ELSE placeBar[b]]
    <2> SUFFICES ASSUME NEW b \in Boat
                 PROVE  (placeBar[b])' = IF b \in gone THEN None ELSE placeBar[b]
        BY DEF placeBar
    <2> QED
        BY <1>2, <1>3, <1>4 DEF PlacesRight
<1>6. missesBar' = [b \in Boat |-> IF b \in gone THEN 0 ELSE missesBar[b]]
    <2> SUFFICES ASSUME NEW b \in Boat
                 PROVE  (missesBar[b])' = IF b \in gone THEN 0 ELSE missesBar[b]
        BY DEF missesBar
    <2> QED
        BY <1>2, <1>3, <1>4 DEF PlacesRight
<1>7. gone \subseteq WaitingBar
    BY ListedHasPlace DEF WaitingBar
<1>8. ASSUME NEW b \in WaitingBar, missesBar[b] >= MaxMissed PROVE b \in gone
    <2>1. PICK i \in Slot : Holds(i, b)
        BY ListedHasPlace DEF WaitingBar, Listed
    <2>2. table'[i] = None
        BY <1>1, <1>2, <1>8, <2>1 DEF PlacesRight, WaitingBar, Expires, Holds
    <2>3. \A j \in Slot : Holds(j, b)' => Holds(j, b) /\ j # i
        BY <1>1, <2>2 DEF Holds, Active
    <2>4. \A j \in Slot : Holds(j, b) => j = i
        BY <2>1 DEF QueueInv, Inv, TableUnique, Holds
    <2> QED
        BY <2>1, <2>3, <2>4 DEF Listed, WaitingBar
<1>9. target = None
    BY DEF QueueInv, Between
<1>10. Queue!Waiting = WaitingBar
    BY DEF Queue!Waiting, WaitingBar, placeBar
<1>11. /\ creditedBar' = creditedBar /\ target' = target
    BY DEF creditedBar
<1>12. \E g \in SUBSET WaitingBar :
          /\ \A b \in WaitingBar : missesBar[b] >= MaxMissed => b \in g
          /\ placeBar' = [b \in Boat |-> IF b \in g THEN None ELSE placeBar[b]]
          /\ missesBar' = [b \in Boat |-> IF b \in g THEN 0 ELSE missesBar[b]]
    BY <1>5, <1>6, <1>7, <1>8
<1> HIDE DEF gone
<1> QED
    BY <1>9, <1>10, <1>11, <1>12 DEF Queue!Leave, placeBar, missesBar, creditedBar

LEMMA SelectBoatServes ==
    ASSUME QueueInv, QueueInv', SelectBoat
    PROVE  Queue!Serve(target')
<1>1. PICK i \in Slot :
          NextInQueue(i) /\ cursor' = CursorAfter(i) /\ target' = table[i].uuid
    BY DEF SelectBoat
<1>2. UNCHANGED table /\ credit' = None /\ pc = "select"
    BY DEF SelectBoat
<1>3. table \in [Slot -> Entry \cup {None}] /\ cursor \in Slot /\ cursor' \in Slot
    BY <1>1, CursorType DEF QueueInv, Inv, TypeInv, TypeOK
<1>4. Holds(i, target') /\ target' \in Boat
    BY <1>1, <1>3 DEF NextInQueue, Holds, Active, Entry
<1>5. PlacesRight /\ PlacesRight'
    BY Places, PlacesLater DEF QueueInv, Inv
<1>6. \A j \in Slot, b \in Boat : Holds(j, b)' <=> Holds(j, b)
    BY <1>2 DEF Holds, Active
<1>7. NumSlots \in Nat \ {0} /\ i \in 1..NumSlots /\ cursor \in 1..NumSlots
    BY <1>3, SlotsAssumption DEF Slot
<1>8. cursor' = IF i = NumSlots THEN 1 ELSE i + 1
    <2>1. i % NumSlots = IF i = NumSlots THEN 0 ELSE i
        BY <1>7
    <2> QED
        BY <1>1, <1>7, <2>1 DEF CursorAfter
<1>9. ASSUME NEW j \in Slot, Active(j)
      PROVE  Ahead(j)' = IF j = i THEN NumSlots - 1 ELSE Ahead(j) - Ahead(i) - 1
    <2>1. /\ Ahead(i) = IF i >= cursor THEN i - cursor ELSE i + NumSlots - cursor
          /\ Ahead(j) = IF j >= cursor THEN j - cursor ELSE j + NumSlots - cursor
          /\ Ahead(j)' = IF j >= cursor' THEN j - cursor' ELSE j + NumSlots - cursor'
        BY <1>3, AheadValue DEF Ahead
    <2>2. Ahead(i) <= Ahead(j) /\ j \in 1..NumSlots
        BY <1>1, <1>9 DEF NextInQueue, Slot
    <2> QED
        BY <1>7, <1>8, <2>1, <2>2
<1>10. ASSUME NEW c \in Boat
       PROVE  (placeBar[c])' = IF c = target' THEN NumSlots - 1
                               ELSE IF c \in WaitingBar
                                    THEN placeBar[c] - placeBar[target'] - 1 ELSE None
    <2>1. CASE c = target'
        BY <1>4, <1>5, <1>6, <1>9, <2>1 DEF PlacesRight, Holds
    <2>2. CASE c # target' /\ Listed(c)
        <3>1. PICK j \in Slot : Holds(j, c)
            BY <2>2 DEF Listed
        <3>2. j # i /\ Active(j) /\ Holds(j, c)'
            BY <1>4, <1>6, <2>2, <3>1 DEF Holds
        <3>3. placeBar[c] = Ahead(j) /\ placeBar[target'] = Ahead(i) /\ (placeBar[c])' = Ahead(j)'
            BY <1>4, <1>5, <3>1, <3>2 DEF PlacesRight
        <3>4. c \in WaitingBar
            BY <2>2, ListedHasPlace DEF WaitingBar
        <3> QED
            BY <1>9, <2>2, <3>2, <3>3, <3>4
    <2>3. CASE c # target' /\ ~Listed(c)
        <3>1. ~Listed(c)'
            BY <1>6, <2>3 DEF Listed
        <3>2. c \notin WaitingBar
            BY <2>3, ListedHasPlace DEF WaitingBar
        <3> QED
            BY <1>5, <2>3, <3>1, <3>2 DEF PlacesRight
    <2> QED
        BY <2>1, <2>2, <2>3
<1>11. placeBar' = [c \in Boat |-> IF c = target' THEN NumSlots - 1
                                   ELSE IF c \in WaitingBar
                                        THEN placeBar[c] - placeBar[target'] - 1 ELSE None]
    BY <1>10 DEF placeBar
<1>12. missesBar' = missesBar
    BY <1>2 DEF missesBar, EntryOf, Listed, Holds, Active
<1>13. target' \in WaitingBar /\ missesBar[target'] < MaxMissed
    <2>1. table[i].missed < MaxMissed
        BY <1>1, <1>2 DEF QueueInv, Inv, TypeInv, Sweeping, NextInQueue
    <2> QED
        BY <1>4, <1>5, <2>1, ListedHasPlace DEF WaitingBar, PlacesRight, Listed
<1>14. ASSUME NEW c \in WaitingBar PROVE placeBar[target'] <= placeBar[c]
    <2>1. PICK j \in Slot : Holds(j, c)
        BY ListedHasPlace DEF WaitingBar, Listed
    <2>2. Ahead(i) <= Ahead(j)
        BY <1>1, <2>1 DEF NextInQueue, Holds
    <2> QED
        BY <1>4, <1>5, <2>1, <2>2 DEF PlacesRight, WaitingBar
<1>15. target = None /\ creditedBar' = None
    BY <1>2 DEF QueueInv, Between, Serving, creditedBar
<1>16. Queue!Waiting = WaitingBar
    BY DEF Queue!Waiting, WaitingBar, placeBar
<1> QED
    BY <1>11, <1>12, <1>13, <1>14, <1>15, <1>16
       DEF Queue!Serve, placeBar, missesBar, creditedBar

\* The served Boat's entry is the one under the served address.
LEMMA ServedEntry ==
    ASSUME QueueInv, Serving
    PROVE  /\ target \in Boat
           /\ \E i \in Slot : Holds(i, target) /\ \A j \in Slot : HasAddr(j, active) <=> j = i
<1>1. PICK i \in Slot : Holds(i, target) /\ HasAddr(i, active)
    BY DEF QueueInv, Inv, SlotEntry, Serving
<1>2. \A j \in Slot : HasAddr(j, active) => j = i
    BY <1>1 DEF QueueInv, Inv, TableUnique, HasAddr
<1>3. target \in Boat
    BY <1>1 DEF QueueInv, Inv, TypeInv, TypeOK, Holds, Active, Entry
<1> QED
    BY <1>1, <1>2, <1>3

LEMMA TargetIsBoat ==
    ASSUME QueueInv, Serving
    PROVE  target # None
BY ServedEntry, NoneAssumption

\* A step that changes the count of the served Boat's entry and nobody's key.
LEMMA ServedCount ==
    ASSUME QueueInv, QueueInv', Serving, cursor' = cursor, SameHolders,
           NEW i \in Slot, Holds(i, target), NEW m, table'[i].missed = m,
           \A j \in Slot : j # i => table'[j] = table[j]
    PROVE  /\ placeBar' = placeBar
           /\ missesBar' = [missesBar EXCEPT ![target] = m]
           /\ missesBar[target] = table[i].missed
<1>1. PlacesRight /\ PlacesRight' /\ placeBar' = placeBar /\ target \in Boat
    BY Places, PlacesLater, SamePlaces, ServedEntry DEF QueueInv, Inv
<1>2. ASSUME NEW c \in Boat
      PROVE  (missesBar[c])' = IF c = target THEN m ELSE missesBar[c]
    <2>1. CASE c = target
        <3>1. Holds(i, c)'
            BY <2>1 DEF SameHolders
        <3> QED
            BY <1>1, <2>1, <3>1 DEF PlacesRight
    <2>2. CASE c # target /\ Listed(c)
        <3>1. PICK j \in Slot : Holds(j, c)
            BY <2>2 DEF Listed
        <3>2. j # i /\ Holds(j, c)'
            BY <2>2, <3>1 DEF Holds, SameHolders
        <3> QED
            BY <1>1, <2>2, <3>1, <3>2 DEF PlacesRight
    <2>3. CASE c # target /\ ~Listed(c)
        <3>1. ~Listed(c)'
            BY <2>3 DEF SameHolders, Listed
        <3> QED
            BY <1>1, <2>3, <3>1 DEF PlacesRight
    <2> QED
        BY <2>1, <2>2, <2>3
<1>3. missesBar' = [missesBar EXCEPT ![target] = m]
    BY <1>2 DEF missesBar
<1> QED
    BY <1>1, <1>3 DEF PlacesRight

LEMMA FinalCredits ==
    ASSUME QueueInv, QueueInv', NEW b \in Boat, AnswerFinal(b), Credits(b)
    PROVE  Queue!Credit
<1>1. b = target /\ Serving
    <2>1. b = target
        BY CreditsGrantee DEF QueueInv, Inv, CreditInv
    <2>2. open
        BY DEF Credits
    <2> QED
        BY <2>1, <2>2 DEF QueueInv, Inv, CreditInv, Quiet
<1>2. PICK i \in Slot : Holds(i, target) /\ \A j \in Slot : HasAddr(j, active) <=> j = i
    BY <1>1, ServedEntry
<1>3. /\ table' = [j \in Slot |-> IF HasAddr(j, active)
                    THEN [table[j] EXCEPT !.success = "recent", !.missed = 0] ELSE table[j]]
      /\ credit' = [uuid |-> b, nonce |-> exch] /\ UNCHANGED <<cursor, target>>
    BY DEF Credits, AnswerFinal
<1>4. table[i] \in Entry
    BY <1>2 DEF QueueInv, Inv, TypeInv, TypeOK, Holds, Active
<1>5. /\ table'[i] \in Entry /\ table'[i].uuid = table[i].uuid /\ table'[i].missed = 0
      /\ \A j \in Slot : j # i => table'[j] = table[j]
    BY <1>2, <1>3, <1>4, EntryTypes, EntryKeys
<1>6. SameHolders
    BY <1>2, <1>4, <1>5, NoneAssumption DEF SameHolders, Holds, Active
<1>7. placeBar' = placeBar /\ missesBar' = [missesBar EXCEPT ![target] = 0]
    BY <1>1, <1>2, <1>3, <1>5, <1>6, ServedCount
<1>8. creditedBar' = target
    <2>1. exch \in GrantNonce
        BY DEF AnswerFinal, AdmitsFinal, QueueInv, Inv, TypeInv, TypeOK
    <2>2. credit' \in Credit
        BY <1>3, <2>1 DEF Credit
    <2> QED
        BY <1>1, <1>3, <2>2, NoneAssumption DEF creditedBar
<1>9. target # None
    BY <1>1, TargetIsBoat
<1> QED
    BY <1>3, <1>7, <1>8, <1>9 DEF Queue!Credit, placeBar, missesBar, creditedBar

LEMMA CloseSlotCloses ==
    ASSUME QueueInv, QueueInv', CloseSlot
    PROVE  Queue!Close
<1>1. Serving /\ target # None
    BY TargetIsBoat DEF CloseSlot, Serving
<1>2. UNCHANGED cursor /\ target' = None /\ credit' = None
    BY DEF CloseSlot
<1>3. credit # None => creditedBar # None
    <2>1. credit # None => credit.uuid \in Boat
        BY DEF QueueInv, Inv, TypeInv, TypeOK, Credit
    <2> QED
        BY <2>1, NoneAssumption DEF creditedBar
<1>4. credit = None => creditedBar = None
    BY DEF creditedBar
<1>5. creditedBar' = None
    BY <1>2 DEF creditedBar
<1>6. CASE pc = "done"
    <2>1. creditedBar # None /\ UNCHANGED table
        BY <1>3, <1>6 DEF CloseSlot, QueueInv, Inv, CreditInv, Verdict
    <2>2. UNCHANGED <<placeBar, missesBar>>
        BY <1>2, <2>1, SamePlaces DEF QueueInv, Inv, SameHolders, Holds, Active
    <2> QED
        BY <1>1, <1>2, <1>5, <2>1, <2>2 DEF Queue!Close, placeBar, missesBar, creditedBar
<1>7. CASE pc = "miss"
    <2>1. creditedBar = None /\ table' = Miss(active)
        BY <1>4, <1>7 DEF CloseSlot, QueueInv, Inv, CreditInv, Verdict
    <2>2. PICK i \in Slot : Holds(i, target) /\ \A j \in Slot : HasAddr(j, active) <=> j = i
        BY <1>1, ServedEntry
    <2>3. table[i] \in Entry
        BY <2>2 DEF QueueInv, Inv, TypeInv, TypeOK, Holds, Active
    <2>4. /\ table'[i] = [table[i] EXCEPT !.missed = @ + 1]
          /\ \A j \in Slot : j # i => table'[j] = table[j]
        BY <2>1, <2>2 DEF Miss
    <2>5. table'[i].uuid = table[i].uuid /\ table'[i].missed = table[i].missed + 1
        BY <2>3, <2>4 DEF Entry
    <2>6. table'[i] # None
        <3>1. table[i].missed < MaxMissed
            BY <1>7, <2>2 DEF QueueInv, Inv, TypeInv, Sweeping, Holds
        <3>2. table'[i] \in Entry
            BY <2>3, <2>4, <3>1, MissedAssumption DEF Entry
        <3> QED
            BY <3>2, NoneAssumption
    <2>7. SameHolders
        BY <2>2, <2>4, <2>5, <2>6 DEF SameHolders, Holds, Active
    <2>8. /\ placeBar' = placeBar /\ missesBar[target] = table[i].missed
          /\ missesBar' = [missesBar EXCEPT ![target] = table[i].missed + 1]
        BY <1>1, <1>2, <2>2, <2>4, <2>5, <2>7, ServedCount
    <2>9. missesBar' = [missesBar EXCEPT ![target] = @ + 1]
        BY <2>8
    <2> QED
        BY <1>1, <1>2, <1>5, <2>1, <2>8, <2>9 DEF Queue!Close, placeBar, missesBar, creditedBar
<1> QED
    BY <1>6, <1>7 DEF CloseSlot

LEMMA PortRebootRestarts ==
    ASSUME PortReboot
    PROVE  Queue!Restart
<1>1. table' = [i \in Slot |-> None] /\ target' = None /\ credit' = None
    BY DEF PortReboot
<1>2. \A b \in Boat : ~Listed(b)'
    BY <1>1 DEF Listed, Holds, Active
<1>3. placeBar' = [b \in Boat |-> None] /\ missesBar' = [b \in Boat |-> 0]
    BY <1>2 DEF placeBar, missesBar
<1>4. creditedBar' = None
    BY <1>1 DEF creditedBar
<1> QED
    BY <1>1, <1>3, <1>4 DEF Queue!Restart, placeBar, missesBar, creditedBar

LEMMA AgeingStutters ==
    ASSUME QueueInv, QueueInv', NEW i \in Slot, SuccessAges(i)
    PROVE  UNCHANGED Queue!vars
<1>1. /\ table' = [table EXCEPT ![i].success = "old"] /\ Active(i)
      /\ UNCHANGED <<cursor, target, credit>>
    BY DEF SuccessAges, slotVars, creditVars
<1>2. table \in [Slot -> Entry \cup {None}] /\ table[i] \in Entry
    BY <1>1 DEF QueueInv, Inv, TypeInv, TypeOK, Active
<1>3. table' = [table EXCEPT ![i] = [table[i] EXCEPT !.success = "old"]]
    BY <1>1, <1>2
<1>4. /\ table'[i] \in Entry /\ table'[i].uuid = table[i].uuid
      /\ table'[i].missed = table[i].missed
      /\ \A j \in Slot : j # i => table'[j] = table[j]
    <2>1. table'[i] = [table[i] EXCEPT !.success = "old"]
        BY <1>2, <1>3
    <2>2. [table[i] EXCEPT !.success = "old"] \in Entry
        BY <1>2, EntryTypes
    <2>3. [table[i] EXCEPT !.success = "old"].uuid = table[i].uuid
        BY <1>2 DEF Entry
    <2> QED
        BY <1>2, <1>3, <2>1, <2>2, <2>3, EntryTypes
<1>5. SameHolders
    BY <1>1, <1>4, NoneAssumption DEF SameHolders, Holds, Active
<1>6. UNCHANGED <<placeBar, missesBar>>
    BY <1>1, <1>4, <1>5, SamePlaces DEF QueueInv, Inv
<1> QED
    BY <1>1, <1>6 DEF Queue!vars, placeBar, missesBar

-----------------------------------------------------------------------------
(* The refinement *)

LEMMA StepImplements == QueueInv /\ QueueInv' /\ [Next]_vars => [Queue!Next]_(Queue!vars)
<1> SUFFICES ASSUME QueueInv, QueueInv', [Next]_vars
             PROVE  Queue!Next \/ UNCHANGED Queue!vars
    OBVIOUS
<1> USE DEF slotVars, creditVars, taskVars, twrVars, runVars
<1>1. CASE StartRotation \/ SweepTable
    <2>1. Expire /\ ~Serving /\ UNCHANGED <<cursor, target, credit>>
        BY <1>1 DEF StartRotation, SweepTable, Serving
    <2> QED
        BY <2>1, ExpireLeaves DEF Queue!Next
<1>2. CASE SelectBoat
    <2>1. target' \in Boat
        BY <1>2 DEF SelectBoat, NextInQueue, Active, QueueInv, Inv, TypeInv, TypeOK, Entry
    <2> QED
        BY <1>2, <2>1, SelectBoatServes DEF Queue!Next
<1>3. CASE CloseSlot
    BY <1>3, CloseSlotCloses DEF Queue!Next
<1>4. CASE FlushResponse \/ RefreshBaseline \/ EndRotation \/ SendGrant \/ WaitForResult
    BY <1>4, Stutters DEF FlushResponse, RefreshBaseline, EndRotation, SendGrant, WaitForResult
<1>5. ASSUME NEW b \in Boat, Register(b) PROVE Queue!Next
    BY <1>5, RegisterKnownRejoins, RegisterNewJoins DEF Register, Queue!Next
<1>6. CASE \E b \in Boat : \/ BoatTimeout(b) \/ TakeGrant(b) \/ StarboardDone(b)
                           \/ GiveUp(b) \/ Retry(b) \/ BoatReboot(b) \/ AnswerPoll(b)
    BY <1>6, Stutters DEF BoatTimeout, TakeGrant, StarboardDone, GiveUp, Retry, BoatReboot, AnswerPoll
<1>7. ASSUME NEW b \in Boat, AnswerFinal(b) PROVE Queue!Next \/ UNCHANGED Queue!vars
    <2>1. CASE Credits(b)
        BY <1>7, <2>1, FinalCredits DEF Queue!Next
    <2>2. CASE CreditTooLate
        BY <1>7, <2>2, Stutters DEF AnswerFinal, CreditTooLate
    <2> QED
        BY <1>7, <2>1, <2>2 DEF AnswerFinal
<1>8. CASE \E i \in Slot : SuccessAges(i)
    BY <1>8, AgeingStutters
<1>9. CASE PortReboot
    BY <1>9, PortRebootRestarts DEF Queue!Next
<1>10. CASE \/ WindUp \/ ReportLeaves \/ DeadlinePasses \/ AuthDeadlinePasses
            \/ ConfigChange \/ UNCHANGED vars
    BY <1>10, Stutters DEF WindUp, ReportLeaves, DeadlinePasses, AuthDeadlinePasses, ConfigChange, vars
<1> QED
    BY <1>1, <1>2, <1>3, <1>4, <1>5, <1>6, <1>7, <1>8, <1>9, <1>10
       DEF Next, Step, Fault, PortTask, BoatTask, PortFrames, Clock

\* The start-line protocol implements the queue GrantQueue specifies, for any
\* number of Boats, slots and addresses: what the tasks, frames and restarts do to
\* the table never adds up to anything but a queue step (port_task, port_register,
\* start_line_ranging_on_twr_result, expire_boats).
THEOREM QueueImplemented == Spec => ImplementsQueue
<1>1. Init => Queue!Init
    BY DEF Init, Queue!Init, Listed, Holds, Active
<1> QED
    BY <1>1, QueueInvHolds, StepImplements, PTL DEF Spec, ImplementsQueue, Queue!Spec
=============================================================================
