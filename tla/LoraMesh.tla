------------------------------ MODULE LoraMesh ------------------------------
(***************************************************************************)
(* The LoRa mesh of main/lora_mesh.c: a node claims a random 16-bit id     *)
(* after listening, announces it in heartbeats, gives it up when it hears  *)
(* it from another node, and sends unicast messages that are acknowledged, *)
(* retried and expired.                                                    *)
(*                                                                         *)
(* Three tasks of a node act on the same state without a lock: the mesh    *)
(* task (lora_mesh_tick), the receive task (lora_mesh_on_rx) and the BLE   *)
(* host task (switching, new messages).  A step that transmits is split    *)
(* where it waits for the radio: the packet is built with the id of the    *)
(* moment (Beat, Control, Transmit) and what follows its transmission      *)
(* comes later (Sent, Busy).  Bound: one packet of a node waits at a time. *)
(* Handlers of the receive task are one step each, at the moment the       *)
(* packet is on air: the radio hands a packet over within 25 ms.           *)
(*                                                                         *)
(* Time.  Listening ends, a heartbeat or a retry falls due and a message   *)
(* expires at any moment; a NACK, which makes a retry due at once, changes *)
(* nothing then.  The one relation kept: a peer is forgotten 60 s after it *)
(* was last heard and a message lives 30 s (Forget).  Each Msg is sent     *)
(* once, fewer than half of the sequence numbers.                          *)
(***************************************************************************)
EXTENDS Integers, Sequences, FiniteSets

CONSTANTS
    Node,
    LastId,   \* ids are 1..LastId (LORA_MESH_ID_MIN..LORA_MESH_ID_MAX)
    Slots,    \* LORA_MESH_TX_QUEUE_MAX
    CtrlMax,  \* LORA_MESH_CTRL_QUEUE_MAX
    SeqMod,   \* 2^16
    Msg,      \* the texts sent
    Switch,   \* bound: the nodes that are switched off or restarted
    None      \* empty slot, no packet

ASSUME SizeAssumption ==
    LastId \in Nat \ {0} /\ Slots \in Nat \ {0} /\ CtrlMax \in Nat \ {0}
ASSUME SeqAssumption == SeqMod \in Nat /\ SeqMod > 2 * Cardinality(Msg)
ASSUME MsgAssumption == IsFiniteSet(Msg)

Id == 1..LastId
NoId == 0
SeqNo == 0..(SeqMod - 1)
Slot == 1..Slots

\* last_rx_seq of an entry of s_peers, or one of:
Unknown == -2   \* no entry
Silent == -1    \* heard, without a sequence number

VARIABLES
    node,       \* the static state of each node
    out,        \* the packet each node has built and not yet transmitted
    enqueued,   \* history: messages handed to the mesh
    delivered,  \* history: messages pushed to the receiver's list
    twice,      \* history: messages pushed more than once
    acked,      \* history: messages removed by an acknowledgement
    claimed,    \* history: ids claimed so far
    steady      \* history: each claimed once, and no node that has sent claimed again

history == <<enqueued, delivered, twice, acked, claimed, steady>>
vars == <<node, out, history>>

-----------------------------------------------------------------------------
(* Types *)

Pending == [dest: Id, seq: SeqNo, msg: Msg]
Ctrl == [kind: {"ack", "nack"}, dst: Id, seq: SeqNo]
Packet == [kind: {"beat", "unicast", "ack", "nack"}, src: Id, dst: Id \cup {NoId},
           seq: SeqNo, msg: Msg \cup {None}]
ASSUME NoneAssumption == None \notin Pending \cup Packet

\* Every variable has its type, the control queue stays within its array, and
\* exactly a locked node has an id.
TypeOK ==
    /\ \A n \in Node :
        /\ node[n].mode \in {"off", "listening", "locked"}
        /\ node[n].id \in Id \cup {NoId} /\ (node[n].id \in Id <=> node[n].mode = "locked")
        /\ \A i \in Id : node[n].peers[i] \in Unknown..(SeqMod - 1)
        /\ \A i \in Slot : node[n].queue[i] \in Pending \cup {None}
        /\ node[n].ctrl \in Seq(Ctrl) /\ Len(node[n].ctrl) <= CtrlMax
        /\ node[n].next \in SeqNo
        /\ out[n] \in Packet \cup {None}
    /\ enqueued \subseteq Msg /\ delivered \subseteq enqueued
    /\ twice \subseteq delivered /\ acked \subseteq enqueued
    /\ claimed \subseteq Id /\ steady \in BOOLEAN

Empty == [mode |-> "off", id |-> NoId, peers |-> [i \in Id |-> Unknown],
          queue |-> [i \in Slot |-> None], ctrl |-> <<>>, next |-> 0]

Init ==
    /\ node = [n \in Node |-> Empty] /\ out = [n \in Node |-> None]
    /\ enqueued = {} /\ delivered = {} /\ twice = {} /\ acked = {}
    /\ claimed = {} /\ steady = TRUE

-----------------------------------------------------------------------------
(* The queues of a node, s being its state *)

Locked(s) == s.mode = "locked"
Queued(s, i) == s.queue[i] # None
FreeSlot(s, i) == ~Queued(s, i) /\ \A j \in Slot : j < i => Queued(s, j)
Matches(s, i, d, q) == Queued(s, i) /\ s.queue[i].dest = d /\ s.queue[i].seq = q

\* tx_queue_find: the first match.
Found(s, d, q, i) == Matches(s, i, d, q) /\ \A j \in Slot : j < i => ~Matches(s, j, d, q)

UncappedCtrl(s, c) == [s EXCEPT !.ctrl = Append(@, c)]   \* mutant
\* ctrl_queue_push: no duplicates, and a full queue loses its oldest item.
PushCtrl(s, c) ==
    IF \E i \in DOMAIN s.ctrl : s.ctrl[i] = c THEN s
    ELSE [s EXCEPT !.ctrl = Append(IF Len(@) = CtrlMax THEN Tail(@) ELSE @, c)]

\* mesh_peer_touch: a new entry has no sequence number.
Touch(s, i) == IF s.peers[i] = Unknown THEN [s EXCEPT !.peers[i] = Silent] ELSE s

\* seq_cmp: the difference as a signed number.
SeqCmp(a, b) ==
    LET d == (a - b) % SeqMod IN IF 2 * d >= SeqMod THEN d - SeqMod ELSE d

-----------------------------------------------------------------------------
(* lora_mesh_on_rx *)

\* yield_and_repick: the id is given up, the queues stay.
Yield(s) == [s EXCEPT !.mode = "listening", !.id = NoId]

KeepId(s, p) == Touch(s, p.src)   \* mutant
OnHeartbeat(s, p) == IF Locked(s) /\ s.id = p.src THEN Yield(s) ELSE Touch(s, p.src)

\* A new sequence number is kept and acknowledged, the last one acknowledged
\* again, an older one dropped.
NotLast(s, p) == s.peers[p.src] # p.seq   \* mutant
Fresh(s, p) == s.peers[p.src] \in {Unknown, Silent} \/ SeqCmp(p.seq, s.peers[p.src]) > 0
Again(s, p) == s.peers[p.src] = p.seq
OnAnyUnicast(s, p) ==   \* mutant: an older number is acknowledged as well
    LET ack == [kind |-> "ack", dst |-> p.src, seq |-> p.seq]
    IN PushCtrl(IF Fresh(s, p) THEN [s EXCEPT !.peers[p.src] = p.seq] ELSE s, ack)
OnUnicast(s, p) ==
    LET ack == [kind |-> "ack", dst |-> p.src, seq |-> p.seq]
    IN IF Fresh(s, p) THEN PushCtrl([s EXCEPT !.peers[p.src] = p.seq], ack)
       ELSE IF Again(s, p) THEN PushCtrl(s, ack) ELSE s

OnBadUnicast(s, p) == PushCtrl(s, [kind |-> "nack", dst |-> p.src, seq |-> p.seq])

OnAck(s, p) ==
    IF \E i \in Slot : Matches(s, i, p.src, p.seq)
    THEN LET i == CHOOSE j \in Slot : Found(s, p.src, p.seq, j)
         IN [Touch(s, p.src) EXCEPT !.queue[i] = None]
    ELSE s

OnNack(s, p) == IF \E i \in Slot : Matches(s, i, p.src, p.seq) THEN Touch(s, p.src) ELSE s

\* A packet other than a heartbeat is for the locked node it names.
ForMe(s, p) == Locked(s) /\ p.dst = s.id
OnRx(s, p, bad) ==
    CASE p.kind = "beat" /\ s.mode # "off" -> OnHeartbeat(s, p)
      [] p.kind = "unicast" /\ ForMe(s, p) -> IF bad THEN OnBadUnicast(s, p) ELSE OnUnicast(s, p)
      [] p.kind = "ack" /\ ForMe(s, p) -> OnAck(s, p)
      [] p.kind = "nack" /\ ForMe(s, p) -> OnNack(s, p)
      [] OTHER -> s

-----------------------------------------------------------------------------
(* Transmission *)

Build(n, p) == out[n] = None /\ out' = [out EXCEPT ![n] = p]
Heartbeat(s) == [kind |-> "beat", src |-> s.id, dst |-> NoId, seq |-> 0, msg |-> None]
Answer(s, c) == [kind |-> c.kind, src |-> s.id, dst |-> c.dst, seq |-> c.seq, msg |-> None]
Unicast(s, e) ==
    [kind |-> "unicast", src |-> s.id, dst |-> e.dest, seq |-> e.seq, msg |-> e.msg]

IsCtrl(p) == p.kind \in {"ack", "nack"}

\* After a control packet the head is popped without a look: if the queue was
\* cleared meanwhile its count wraps and the copy that follows it overruns the
\* memory of the node, which restarts.
Overruns(n) == out[n] # None /\ IsCtrl(out[n]) /\ node[n].ctrl = <<>>
Popped(s, p) == IF IsCtrl(p) THEN [s EXCEPT !.ctrl = Tail(@)] ELSE s

Records(h, p, bad) == p.kind = "unicast" /\ ForMe(node[h], p) /\ ~bad /\ Fresh(node[h], p)
Settles(h, p) ==
    IF p.kind = "ack" /\ ForMe(node[h], p)
    THEN {node[h].queue[i].msg : i \in {j \in Slot : Found(node[h], p.src, p.seq, j)}} ELSE {}

\* The packet goes on air and is heard, with errors if bad, by the nodes heard.
OnAir(n, heard, bad) ==
    LET p == out[n]
        new == IF \E h \in heard : Records(h, p, bad) THEN {p.msg} ELSE {}
    IN /\ p # None /\ ~Overruns(n)
       /\ node' = [h \in Node |-> IF h = n THEN Popped(node[n], p)
                                  ELSE IF h \in heard THEN OnRx(node[h], p, bad) ELSE node[h]]
       /\ out' = [out EXCEPT ![n] = None]
       /\ twice' = twice \cup (delivered \cap new) /\ delivered' = delivered \cup new
       /\ acked' = acked \cup UNION {Settles(h, p) : h \in heard}
       /\ UNCHANGED <<enqueued, claimed, steady>>

Sent(n) == \E heard \in SUBSET (Node \ {n}), bad \in BOOLEAN : OnAir(n, heard, bad)

\* Channel busy, radio error or no mutex.
Busy(n) ==
    /\ out[n] # None /\ out' = [out EXCEPT ![n] = None]
    /\ UNCHANGED <<node, history>>

-----------------------------------------------------------------------------
(* The mesh task *)

\* try_claim_after_listen, lock_id: an id no known peer has, the first if there
\* is none.  The sequence numbers start again, the queues stay.
Free(s) == {i \in Id : s.peers[i] = Unknown}
Candidates(s) == IF Free(s) = {} THEN {1} ELSE Free(s)
Claim(n, i) ==
    /\ node[n].mode = "listening" /\ out[n] = None
    /\ i \in Candidates(node[n])
    /\ node' = [node EXCEPT ![n].mode = "locked", ![n].id = i, ![n].next = 0]
    /\ claimed' = claimed \cup {i}
    /\ steady' = (steady /\ i \notin claimed /\ \A j \in Slot : ~Queued(node[n], j))
    /\ UNCHANGED <<out, enqueued, delivered, twice, acked>>

\* lora_mesh_tick, heartbeat.
Beat(n) ==
    /\ Locked(node[n])
    /\ Build(n, Heartbeat(node[n]))
    /\ UNCHANGED <<node, history>>

\* ctrl_queue_tick: the head stays until it was transmitted.
Control(n) ==
    /\ Locked(node[n]) /\ node[n].ctrl # <<>>
    /\ Build(n, Answer(node[n], Head(node[n].ctrl)))
    /\ UNCHANGED <<node, history>>

\* tx_queue_tick: a message that is due, under the id of the moment.
Transmit(n, i) ==
    /\ Locked(node[n]) /\ Queued(node[n], i)
    /\ Build(n, Unicast(node[n], node[n].queue[i]))
    /\ UNCHANGED <<node, history>>

Expire(n, i) ==
    /\ Locked(node[n]) /\ Queued(node[n], i) /\ out[n] = None
    /\ node' = [node EXCEPT ![n].queue[i] = None]
    /\ UNCHANGED <<out, history>>

\* peer_prune_stale.  A peer one message of which is still sent under its id was
\* heard since that message was made, half as long ago as it takes to forget it.
StillSent(i) ==
    \E n \in Node :
        \/ node[n].id = i /\ \E j \in Slot : Queued(node[n], j) /\ node[n].queue[j].msg \in delivered
        \/ out[n] # None /\ out[n].src = i /\ out[n].msg \in delivered
Forget(n, i) ==
    /\ node[n].peers[i] # Unknown /\ ~StillSent(i)
    /\ node' = [node EXCEPT ![n].peers[i] = Unknown]
    /\ UNCHANGED <<out, history>>

-----------------------------------------------------------------------------
(* The BLE host task *)

\* send_unicast, tx_queue_enqueue: a free slot, and a first transmission.
Enqueue(n, m, d) ==
    /\ Locked(node[n]) /\ m \notin enqueued
    /\ \E i \in Slot :
        LET e == [dest |-> d, seq |-> node[n].next, msg |-> m] IN
        /\ FreeSlot(node[n], i)
        /\ node' = [node EXCEPT ![n].queue[i] = e, ![n].next = (@ + 1) % SeqMod]
        /\ Build(n, Unicast(node[n], e))
    /\ enqueued' = enqueued \cup {m}
    /\ UNCHANGED <<delivered, twice, acked, claimed, steady>>

\* lora_mesh_set_active.
Activate(n) ==
    /\ node[n].mode = "off"
    /\ node' = [node EXCEPT ![n].mode = "listening"]
    /\ UNCHANGED <<out, history>>

Deactivate(n) ==
    /\ n \in Switch /\ node[n].mode # "off"
    /\ node' = [node EXCEPT ![n] = Empty]
    /\ UNCHANGED <<out, history>>

\* A restart, of itself or because the control queue was overrun.
Restart(n) ==
    /\ n \in Switch \/ Overruns(n)
    /\ node' = [node EXCEPT ![n] = Empty] /\ out' = [out EXCEPT ![n] = None]
    /\ UNCHANGED history

-----------------------------------------------------------------------------
MeshTask(n) == \/ Beat(n) \/ Control(n)
               \/ \E i \in Id : Claim(n, i)
               \/ \E i \in Slot : Transmit(n, i) \/ Expire(n, i)
BleTask(n) == \/ \E m \in Msg, d \in Id : Enqueue(n, m, d)
              \/ Activate(n) \/ Deactivate(n)

Next == \E n \in Node :
    \/ MeshTask(n) \/ BleTask(n) \/ Sent(n) \/ Busy(n) \/ Restart(n)
    \/ \E i \in Id : Forget(n, i)

Spec == Init /\ [][Next]_vars

-----------------------------------------------------------------------------
(* Safety *)

\* What the sender takes as acknowledged, its receiver has in its list: whatever
\* is lost, repeated, refused, expired or queued twice for control, as long as no
\* claim shares an id or restarts the numbers of messages still queued (lock_id).
AckedIsDelivered == steady => acked \subseteq delivered

\* Under the same condition no message is put into the list twice, although a
\* message is sent again when its acknowledgement is late (on_rx_unicast).
DeliveredOnce == steady => twice = {}

-----------------------------------------------------------------------------
(* Liveness *)

\* Ids are drawn at random from 65535, so a node that draws again and again while
\* the others keep theirs draws one that nobody holds or is about to announce.
Unused(i) == \A n \in Node : node[n].id # i /\ (out[n] # None => out[n].src # i)
Roomy == \A n \in Node : \E i \in Free(node[n]) : Unused(i)
DrawUnused(n) ==
    /\ \A o \in Node \ {n} : Locked(node[o])
    /\ \E i \in Id : Unused(i) /\ Claim(n, i)

\* A back-off lasts 1..5 s at random and a packet rarely waits that long, so a
\* packet left from before a yield does not outlast the back-offs every time.
Heard(n) == OnAir(n, Node \ {n}, FALSE)
HeardByListeners(n) == (\A o \in Node : ~Locked(node[o])) /\ Heard(n)

\* The mesh is switched on, listening ends, heartbeats fall due, are jittered and
\* heard by everyone now and then, and an id nobody holds is not heard for long.
LiveSpec ==
    /\ Spec
    /\ \A n \in Node :
        /\ WF_vars(Activate(n)) /\ WF_vars(\E i \in Id : Claim(n, i)) /\ SF_vars(DrawUnused(n))
        /\ WF_vars(Beat(n)) /\ SF_vars(Heard(n)) /\ SF_vars(HeardByListeners(n))
        /\ \A i \in Id : WF_vars(Unused(i) /\ Forget(n, i))

\* Nodes that claimed the same id end up with an id each and keep it: a node that
\* hears its own id yields and draws again, although the other may do the same at
\* the same time and may yield to a packet built before (yield_and_repick).
IdsConverge ==
    []Roomy =>
        <>[](\A n \in Node : Locked(node[n]) /\ \A o \in Node \ {n} : node[o].id # node[n].id)

=============================================================================
