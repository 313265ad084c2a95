--------------------------- MODULE StartLineQueue ---------------------------
(* The start-line protocol implements the queue of GrantQueue.  A Boat's     *)
(* place is the distance of its entry from the cursor in the scan of         *)
(* port_task, its misses are those of its entry.                             *)
EXTENDS StartLine

\* "No place" is none of the places.
ASSUME PlaceAssumption == None \notin 0..NumSlots - 1

EntryOf(b) == CHOOSE i \in Slot : Holds(i, b)

Queue == INSTANCE GrantQueue WITH
    place <- [b \in Boat |-> IF Listed(b) THEN Ahead(EntryOf(b)) ELSE None],
    misses <- [b \in Boat |-> IF Listed(b) THEN table[EntryOf(b)].missed ELSE 0],
    serving <- target,
    credited <- IF credit = None THEN None ELSE credit.uuid

\* Tables, addresses, lost, late and overwritten frames, removals in mid-rotation
\* and restarts add up to the queue Port promises: every step of the protocol is
\* a step of the queue or leaves the queue alone (port_task, port_register,
\* start_line_ranging_on_twr_result, expire_boats).
ImplementsQueue == Queue!Spec
=============================================================================
