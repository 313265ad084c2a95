----------------------------- MODULE GrantQueue -----------------------------
(***************************************************************************)
(* What the Port mark's scheduler promises to its Boats, without the table *)
(* of slots, the addresses, the frames and the tasks of StartLine: a       *)
(* circular queue in which a Boat has a place, one Boat is served at a     *)
(* time, a slot ends credited to the Boat it was given to or as a miss of  *)
(* that Boat, and misses in a row cost a Boat its place.                   *)
(***************************************************************************)
EXTENDS Integers

CONSTANTS Boat, NumSlots, MaxMissed, None

VARIABLES
    place,      \* how many places of the circle are ahead of a Boat, or None
    misses,     \* slots a Boat missed in a row
    serving,    \* the Boat whose slot it is, or None
    credited    \* the Boat a range was booked for in this slot, or None

vars == <<place, misses, serving, credited>>

Place == 0..NumSlots - 1
Waiting == {b \in Boat : place[b] # None}

Init ==
    /\ place = [b \in Boat |-> None] /\ misses = [b \in Boat |-> 0]
    /\ serving = None /\ credited = None

\* A new Boat gets a place nobody has; one that has a place keeps it, and its
\* misses are forgiven.
Join(b) ==
    /\ place[b] = None
    /\ \E p \in Place \ {place[c] : c \in Waiting} : place' = [place EXCEPT ![b] = p]
    /\ UNCHANGED <<misses, serving, credited>>

Rejoin(b) ==
    /\ b \in Waiting /\ misses' = [misses EXCEPT ![b] = 0]
    /\ UNCHANGED <<place, serving, credited>>

\* Between slots Boats lose their places: all that used up their misses, and
\* others that Port has not measured for long.
Leave ==
    /\ serving = None
    /\ \E gone \in SUBSET Waiting :
        /\ \A b \in Waiting : misses[b] >= MaxMissed => b \in gone
        /\ place' = [b \in Boat |-> IF b \in gone THEN None ELSE place[b]]
        /\ misses' = [b \in Boat |-> IF b \in gone THEN 0 ELSE misses[b]]
    /\ UNCHANGED <<serving, credited>>

\* The Boat with the fewest places ahead of it is served and goes to the end;
\* every other one moves up.
Serve(b) ==
    /\ serving = None /\ b \in Waiting /\ misses[b] < MaxMissed
    /\ \A c \in Waiting : place[b] <= place[c]
    /\ place' = [c \in Boat |-> IF c = b THEN NumSlots - 1
                                ELSE IF c \in Waiting THEN place[c] - place[b] - 1 ELSE None]
    /\ serving' = b /\ credited' = None
    /\ UNCHANGED misses

\* A range is booked for the Boat whose slot it is.
Credit ==
    /\ serving # None
    /\ credited' = serving /\ misses' = [misses EXCEPT ![serving] = 0]
    /\ UNCHANGED <<place, serving>>

\* The slot ends: a miss exactly when no range was booked in it.
Close ==
    /\ serving # None /\ serving' = None /\ credited' = None
    /\ misses' = IF credited # None THEN misses ELSE [misses EXCEPT ![serving] = @ + 1]
    /\ UNCHANGED place

\* Port keeps nothing over a restart.
Restart ==
    /\ place' = [b \in Boat |-> None] /\ misses' = [b \in Boat |-> 0]
    /\ serving' = None /\ credited' = None

Next == \/ \E b \in Boat : Join(b) \/ Rejoin(b) \/ Serve(b)
        \/ Leave \/ Credit \/ Close \/ Restart

Spec == Init /\ [][Next]_vars
=============================================================================
