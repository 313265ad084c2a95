-------------------------- MODULE LoraMeshProofs ---------------------------
(***************************************************************************)
(* Proofs about LoraMesh, for every set of nodes, number of ids, size of   *)
(* the queues and set of messages: the types, AckedIsDelivered and         *)
(* DeliveredOnce.                                                          *)
(*                                                                         *)
(* A message travels as a text: the id it is sent under, a number, the id  *)
(* it is for and what it says.  Two sets carry the argument.  Carried is   *)
(* what may still be sent: the queues of the nodes that hold an id, and    *)
(* the unicasts built.  Vouched is what a receiver keeps of a text: the    *)
(* last number in its table of peers, and the acknowledgements queued or   *)
(* built.  As long as each id is claimed once, a number stands for one     *)
(* text; what is vouched for was delivered; and what was delivered and is  *)
(* still carried, its receiver still knows (SteadyInv).                    *)
(***************************************************************************)
EXTENDS LoraMesh, FiniteSetTheorems, TLAPS

-----------------------------------------------------------------------------
(* The inductive invariant *)

NodeState ==
    [mode: {"off", "listening", "locked"}, id: Id \cup {NoId},
     peers: [Id -> Unknown..(SeqMod - 1)], queue: [Slot -> Pending \cup {None}],
     ctrl: Seq(Ctrl), next: SeqNo]

\* A node's queues fit, and it has an id exactly when it is locked.
Sound(s) ==
    /\ s \in NodeState /\ Len(s.ctrl) <= CtrlMax
    /\ s.id \in Id <=> s.mode = "locked"

\* What is queued or built was handed to the mesh, and all but heartbeats name a
\* receiver.
Written ==
    /\ \A n \in Node, i \in Slot : Queued(node[n], i) => node[n].queue[i].msg \in enqueued
    /\ \A n \in Node : out[n] # None =>
           /\ out[n].kind = "unicast" => out[n].msg \in enqueued
           /\ out[n].kind # "beat" => out[n].dst \in Id

Shape ==
    /\ node \in [Node -> NodeState] /\ out \in [Node -> Packet \cup {None}]
    /\ \A n \in Node : Sound(node[n])
    /\ enqueued \subseteq Msg /\ delivered \subseteq enqueued
    /\ twice \subseteq delivered /\ acked \subseteq enqueued
    /\ claimed \subseteq Id /\ steady \in BOOLEAN
    /\ Written

\* The texts that may still be sent.
Text == [src: Id, seq: SeqNo, dst: Id, msg: Msg]
QueueHas(s, t) ==
    /\ s.id = t.src
    /\ \E i \in Slot : /\ Queued(s, i)
                       /\ s.queue[i] = [dest |-> t.dst, seq |-> t.seq, msg |-> t.msg]
Sends(p, t) ==
    /\ p # None /\ p.kind = "unicast"
    /\ p.src = t.src /\ p.seq = t.seq /\ p.dst = t.dst /\ p.msg = t.msg
Carried == {t \in Text : \E n \in Node : QueueHas(node[n], t) \/ Sends(out[n], t)}

\* The numbers that receivers keep, by the id that used them.
Receipt == [src: Id, seq: SeqNo]
Acks(c, r) == c.kind = "ack" /\ c.dst = r.src /\ c.seq = r.seq
Keeps(s, r) ==
    \/ s.peers[r.src] = r.seq
    \/ \E k \in 1..Len(s.ctrl) : Acks(s.ctrl[k], r)
Vouched ==
    {r \in Receipt : \E n \in Node : Keeps(node[n], r) \/ (out[n] # None /\ Acks(out[n], r))}

\* An id is held by one node, which claimed it.
IdsAreOwned ==
    /\ \A n \in Node : node[n].id \in Id => node[n].id \in claimed
    /\ \A n, o \in Node : node[n].id \in Id /\ node[n].id = node[o].id => n = o

\* Numbers in use are below the next one of their id, and none has wrapped.
Counted == Cardinality(enqueued)
NumbersAreUsed ==
    /\ \A n \in Node : node[n].next <= Counted
    /\ \A r \in Carried \cup Vouched :
           /\ r.src \in claimed /\ r.seq < Counted
           /\ \A n \in Node : node[n].id = r.src => r.seq < node[n].next

\* A number of an id stands for one text, and a message for one.
TextsAreUnique ==
    \A t, u \in Carried : (t.src = u.src /\ t.seq = u.seq) \/ t.msg = u.msg => t = u

\* What is vouched for was delivered.
VouchedIsDelivered ==
    \A r \in Vouched, t \in Carried : t.src = r.src /\ t.seq = r.seq => t.msg \in delivered

\* What was delivered and may come again, its receiver knows.
DeliveredIsKnown ==
    \A t \in Carried : t.msg \in delivered =>
        /\ t.dst \in claimed
        /\ \A h \in Node : node[h].id = t.dst => t.seq <= node[h].peers[t.src]

SteadyInv ==
    steady => /\ IdsAreOwned /\ NumbersAreUsed /\ TextsAreUnique
              /\ VouchedIsDelivered /\ DeliveredIsKnown
              /\ acked \subseteq delivered /\ twice = {}

IInv == Shape /\ SteadyInv

-----------------------------------------------------------------------------
(* Types *)

LEMMA Sizes ==
    /\ SeqMod \in Nat /\ SeqMod > 0 /\ SeqMod > 2 * Cardinality(Msg) /\ Cardinality(Msg) \in Nat
    /\ CtrlMax \in Nat /\ CtrlMax > 0
    /\ NoId \notin Id /\ Id \subseteq Nat /\ 0 \in SeqNo
BY MsgAssumption, FS_CardinalityType, SizeAssumption, SeqAssumption DEF NoId, Id, SeqNo

\* ctrl_queue_push touches the control queue alone and adds one item.
Pushed(s, r, c) ==
    /\ r.mode = s.mode /\ r.id = s.id /\ r.peers = s.peers /\ r.queue = s.queue /\ r.next = s.next
    /\ \A k \in 1..Len(r.ctrl) : r.ctrl[k] = c \/ \E j \in 1..Len(s.ctrl) : r.ctrl[k] = s.ctrl[j]

LEMMA PushKeeps ==
    ASSUME NEW s, Sound(s), NEW c \in Ctrl
    PROVE  Sound(PushCtrl(s, c)) /\ Pushed(s, PushCtrl(s, c), c)
<1>1. CASE \E i \in DOMAIN s.ctrl : s.ctrl[i] = c
    BY <1>1 DEF PushCtrl, Pushed, Sound, NodeState
<1>2. CASE ~\E i \in DOMAIN s.ctrl : s.ctrl[i] = c
    <2> DEFINE kept == IF Len(s.ctrl) = CtrlMax THEN Tail(s.ctrl) ELSE s.ctrl
               q == Append(kept, c)
               r == [s EXCEPT !.ctrl = q]
    <2>1. PushCtrl(s, c) = r
        BY <1>2 DEF PushCtrl
    <2>2. s.ctrl \in Seq(Ctrl) /\ Len(s.ctrl) \in Nat /\ Len(s.ctrl) <= CtrlMax
        BY DEF Sound, NodeState
    <2>3. /\ kept \in Seq(Ctrl) /\ Len(kept) < CtrlMax
          /\ \A k \in 1..Len(kept) : \E j \in 1..Len(s.ctrl) : kept[k] = s.ctrl[j]
        <3>1. CASE Len(s.ctrl) = CtrlMax
            <4>1. s.ctrl # <<>> /\ kept = Tail(s.ctrl)
                BY <2>2, <3>1, Sizes
            <4>2. /\ Tail(s.ctrl) \in Seq(Ctrl) /\ Len(Tail(s.ctrl)) = Len(s.ctrl) - 1
                  /\ \A k \in 1..Len(s.ctrl) - 1 : Tail(s.ctrl)[k] = s.ctrl[k + 1]
                BY <2>2, <4>1
            <4>3. \A k \in 1..Len(s.ctrl) - 1 : k + 1 \in 1..Len(s.ctrl)
                BY <2>2
            <4> QED
                BY <2>2, <3>1, <4>1, <4>2, <4>3, Sizes
        <3>2. CASE Len(s.ctrl) # CtrlMax
            BY <2>2, <3>2, Sizes
        <3> QED
            BY <3>1, <3>2
    <2> HIDE DEF kept
    <2>4. /\ q \in Seq(Ctrl) /\ Len(q) = Len(kept) + 1 /\ Len(q) <= CtrlMax
          /\ \A k \in 1..Len(q) : q[k] = c \/ (k \in 1..Len(kept) /\ q[k] = kept[k])
        BY <2>3, Sizes
    <2> HIDE DEF q
    <2>5. /\ r \in NodeState /\ r.ctrl = q
          /\ r.mode = s.mode /\ r.id = s.id /\ r.peers = s.peers /\ r.queue = s.queue
          /\ r.next = s.next
        BY <2>4 DEF Sound, NodeState
    <2> HIDE DEF r
    <2> QED
        BY <2>1, <2>3, <2>4, <2>5 DEF Sound, Pushed
<1> QED
    BY <1>1, <1>2

\* A new text that the receiver s records.
New(s, p, bad) == p.kind = "unicast" /\ ForMe(s, p) /\ ~bad /\ Fresh(s, p)

\* What lora_mesh_on_rx may make of a node's state s, r being the result: the id is
\* kept or given up, queued messages stay or go, an entry of the table of peers is
\* made or gets the number of a new text, and only a new text, or the last one
\* again, is acknowledged.
Took(s, r, p, bad) ==
    /\ r.next = s.next /\ r.id \in {s.id, NoId}
    /\ \A i \in Slot : r.queue[i] \in {s.queue[i], None}
    /\ \A i \in Id : \/ r.peers[i] = s.peers[i]
                     \/ s.peers[i] = Unknown /\ r.peers[i] = Silent
                     \/ i = p.src /\ r.peers[i] = p.seq /\ New(s, p, bad)
    /\ New(s, p, bad) => r.peers[p.src] = p.seq
    /\ \A k \in 1..Len(r.ctrl) : r.ctrl[k].kind = "ack" =>
           \/ \E j \in 1..Len(s.ctrl) : r.ctrl[k] = s.ctrl[j]
           \/ /\ r.ctrl[k] = [kind |-> "ack", dst |-> p.src, seq |-> p.seq]
              /\ New(s, p, bad) \/ s.peers[p.src] = p.seq

LEMMA TouchKeeps ==
    ASSUME NEW s, Sound(s), NEW i \in Id
    PROVE  /\ Sound(Touch(s, i))
           /\ Touch(s, i).mode = s.mode /\ Touch(s, i).id = s.id /\ Touch(s, i).next = s.next
           /\ Touch(s, i).queue = s.queue /\ Touch(s, i).ctrl = s.ctrl
           /\ \A j \in Id : \/ Touch(s, i).peers[j] = s.peers[j]
                            \/ s.peers[j] = Unknown /\ Touch(s, i).peers[j] = Silent
<1>1. Silent \in Unknown..(SeqMod - 1)
    BY Sizes DEF Silent, Unknown
<1> QED
    BY <1>1 DEF Touch, Sound, NodeState

LEMMA RxKeeps ==
    ASSUME NEW s, Sound(s), NEW p \in Packet, NEW bad \in BOOLEAN
    PROVE  Sound(OnRx(s, p, bad)) /\ Took(s, OnRx(s, p, bad), p, bad)
<1>0. /\ p.src \in Id /\ p.seq \in SeqNo /\ p.kind \in {"beat", "unicast", "ack", "nack"}
      /\ p.seq \in Unknown..(SeqMod - 1)
    BY Sizes DEF Packet, SeqNo, Unknown
<1>1. CASE p.kind = "beat" /\ s.mode # "off"
    <2>1. OnRx(s, p, bad) = OnHeartbeat(s, p) /\ ~New(s, p, bad)
        BY <1>1 DEF OnRx, New
    <2>2. CASE Locked(s) /\ s.id = p.src
        <3>1. OnHeartbeat(s, p) = [s EXCEPT !.mode = "listening", !.id = NoId]
            BY <2>2 DEF OnHeartbeat, Yield
        <3> DEFINE r == [s EXCEPT !.mode = "listening", !.id = NoId]
        <3>2. Sound(r)
            BY Sizes DEF Sound, NodeState
        <3>3. /\ r.next = s.next /\ r.id = NoId /\ r.queue = s.queue
              /\ r.peers = s.peers /\ r.ctrl = s.ctrl
            BY DEF Sound, NodeState
        <3>4. OnRx(s, p, bad) = r
            BY <2>1, <3>1
        <3> HIDE DEF r
        <3> QED
            BY <2>1, <3>2, <3>3, <3>4 DEF Took
    <2>3. CASE ~(Locked(s) /\ s.id = p.src)
        BY <1>0, <2>1, <2>3, TouchKeeps DEF OnHeartbeat, Took
    <2> QED
        BY <2>2, <2>3
<1>2. CASE p.kind = "unicast" /\ ForMe(s, p)
    <2> DEFINE ack == [kind |-> "ack", dst |-> p.src, seq |-> p.seq]
               nack == [kind |-> "nack", dst |-> p.src, seq |-> p.seq]
    <2>1. ack \in Ctrl /\ nack \in Ctrl /\ nack.kind = "nack" /\ ack.kind = "ack"
        BY <1>0 DEF Ctrl
    <2>2. CASE bad
        <3>1. OnRx(s, p, bad) = PushCtrl(s, nack) /\ ~New(s, p, bad)
            BY <1>2, <2>2 DEF OnRx, OnBadUnicast, New
        <3> HIDE DEF nack
        <3>2. Sound(PushCtrl(s, nack)) /\ Pushed(s, PushCtrl(s, nack), nack)
            BY <2>1, PushKeeps
        <3> QED
            BY <2>1, <3>1, <3>2 DEF Pushed, Took
    <2>3. CASE ~bad
        <3>1. OnRx(s, p, bad) = OnUnicast(s, p) /\ (New(s, p, bad) <=> Fresh(s, p))
            BY <1>2, <2>3 DEF OnRx, New
        <3>2. CASE Fresh(s, p)
            <4> DEFINE u == [s EXCEPT !.peers[p.src] = p.seq]
            <4>1. OnRx(s, p, bad) = PushCtrl(u, ack)
                BY <3>1, <3>2 DEF OnUnicast
            <4>2. /\ Sound(u) /\ u.mode = s.mode /\ u.id = s.id /\ u.queue = s.queue
                  /\ u.next = s.next /\ u.ctrl = s.ctrl
                  /\ \A i \in Id : u.peers[i] = IF i = p.src THEN p.seq ELSE s.peers[i]
                BY <1>0 DEF Sound, NodeState
            <4> HIDE DEF u, ack
            <4>3. Sound(PushCtrl(u, ack)) /\ Pushed(u, PushCtrl(u, ack), ack)
                BY <2>1, <4>2, PushKeeps
            <4> QED
                BY <1>0, <3>1, <3>2, <4>1, <4>2, <4>3 DEF Pushed, Took, ack
        <3>3. CASE ~Fresh(s, p) /\ Again(s, p)
            <4>1. OnRx(s, p, bad) = PushCtrl(s, ack)
                BY <3>1, <3>3 DEF OnUnicast
            <4>2. s.peers[p.src] = p.seq /\ ~New(s, p, bad)
                BY <3>1, <3>3 DEF Again
            <4> QED
                BY <2>1, <4>1, <4>2, PushKeeps DEF Pushed, Took
        <3>4. CASE ~Fresh(s, p) /\ ~Again(s, p)
            BY <3>1, <3>4 DEF OnUnicast, Took
        <3> QED
            BY <3>2, <3>3, <3>4
    <2> QED
        BY <2>2, <2>3
<1>3. CASE p.kind = "ack" /\ ForMe(s, p)
    <2>1. OnRx(s, p, bad) = OnAck(s, p) /\ ~New(s, p, bad)
        BY <1>3 DEF OnRx, New
    <2>2. CASE \E i \in Slot : Matches(s, i, p.src, p.seq)
        <3> DEFINE i == CHOOSE j \in Slot : Found(s, p.src, p.seq, j)
                   u == Touch(s, p.src)
        <3>1. OnRx(s, p, bad) = [u EXCEPT !.queue[i] = None]
            BY <2>1, <2>2 DEF OnAck
        <3> HIDE DEF i, u
        <3>2. /\ Sound(u) /\ u.id = s.id /\ u.next = s.next /\ u.queue = s.queue /\ u.ctrl = s.ctrl
              /\ \A j \in Id : u.peers[j] = s.peers[j] \/ (s.peers[j] = Unknown /\ u.peers[j] = Silent)
            BY <1>0, TouchKeeps DEF u
        <3>3. /\ Sound([u EXCEPT !.queue[i] = None])
              /\ [u EXCEPT !.queue[i] = None].id = u.id
              /\ [u EXCEPT !.queue[i] = None].next = u.next
              /\ [u EXCEPT !.queue[i] = None].ctrl = u.ctrl
              /\ [u EXCEPT !.queue[i] = None].peers = u.peers
              /\ \A j \in Slot : [u EXCEPT !.queue[i] = None].queue[j] \in {u.queue[j], None}
            BY <3>2 DEF Sound, NodeState
        <3> QED
            BY <2>1, <3>1, <3>2, <3>3 DEF Took
    <2>3. CASE ~\E i \in Slot : Matches(s, i, p.src, p.seq)
        BY <2>1, <2>3 DEF OnAck, Took
    <2> QED
        BY <2>2, <2>3
<1>4. CASE p.kind = "nack" /\ ForMe(s, p)
    <2>1. OnRx(s, p, bad) = OnNack(s, p) /\ ~New(s, p, bad)
        BY <1>4 DEF OnRx, New
    <2>2. OnNack(s, p) \in {s, Touch(s, p.src)}
        BY DEF OnNack
    <2> QED
        BY <1>0, <2>1, <2>2, TouchKeeps DEF Took
<1>5. CASE /\ ~(p.kind = "beat" /\ s.mode # "off") /\ ~(p.kind = "unicast" /\ ForMe(s, p))
           /\ ~(p.kind = "ack" /\ ForMe(s, p)) /\ ~(p.kind = "nack" /\ ForMe(s, p))
    <2>1. OnRx(s, p, bad) = s /\ ~New(s, p, bad)
        BY <1>5 DEF OnRx, New
    <2> QED
        BY <2>1 DEF Took
<1> QED
    BY <1>1, <1>2, <1>3, <1>4, <1>5

\* What is transmitted is a packet, and popping its head leaves the control queue
\* shorter.
LEMMA PopKeeps ==
    ASSUME NEW s, Sound(s), NEW p, IsCtrl(p) => s.ctrl # <<>>
    PROVE  /\ Sound(Popped(s, p))
           /\ Popped(s, p).id = s.id /\ Popped(s, p).peers = s.peers
           /\ Popped(s, p).queue = s.queue /\ Popped(s, p).next = s.next
           /\ \A k \in 1..Len(Popped(s, p).ctrl) :
                  \E j \in 1..Len(s.ctrl) : Popped(s, p).ctrl[k] = s.ctrl[j]
<1>1. CASE ~IsCtrl(p)
    BY <1>1 DEF Popped
<1>2. CASE IsCtrl(p)
    <2> DEFINE q == Tail(s.ctrl)
    <2>1. s.ctrl \in Seq(Ctrl) /\ s.ctrl # <<>> /\ Len(s.ctrl) <= CtrlMax
        BY <1>2 DEF Sound, NodeState
    <2>2. /\ q \in Seq(Ctrl) /\ Len(q) = Len(s.ctrl) - 1
          /\ \A k \in 1..Len(q) : q[k] = s.ctrl[k + 1] /\ k + 1 \in 1..Len(s.ctrl)
        BY <2>1
    <2>3. Popped(s, p) = [s EXCEPT !.ctrl = q]
        BY <1>2 DEF Popped
    <2>4. Len(q) <= CtrlMax
        BY <2>1, <2>2, Sizes
    <2> HIDE DEF q
    <2> DEFINE r == [s EXCEPT !.ctrl = q]
    <2>5. Sound(r)
        BY <2>2, <2>4 DEF Sound, NodeState
    <2>6. /\ r.id = s.id /\ r.peers = s.peers /\ r.queue = s.queue /\ r.next = s.next
          /\ r.ctrl = q
        BY DEF Sound, NodeState
    <2>7. Popped(s, p) = r
        BY <2>3
    <2> HIDE DEF r
    <2> QED
        BY <2>2, <2>5, <2>6, <2>7
<1> QED
    BY <1>1, <1>2

\* A packet built by a locked node is of the right shape.
LEMMA BuiltTypes ==
    ASSUME NEW s, Sound(s), Locked(s)
    PROVE  /\ s.id \in Id /\ Heartbeat(s) \in Packet /\ Heartbeat(s).kind = "beat"
           /\ \A c \in Ctrl : /\ Answer(s, c) \in Packet /\ Answer(s, c).kind = c.kind
                              /\ Answer(s, c).kind \in {"ack", "nack"}
           /\ \A e \in Pending : Unicast(s, e) \in Packet /\ Unicast(s, e).kind = "unicast"
<1>1. s.id \in Id
    BY DEF Sound, Locked
<1>2. 0 \in SeqNo
    BY Sizes
<1> QED
    BY <1>1, <1>2 DEF Heartbeat, Answer, Unicast, Packet, Ctrl, Pending

LEMMA EmptySound == Sound(Empty)
<1>1. <<>> \in Seq(Ctrl) /\ Len(<<>>) = 0 /\ Unknown \in Unknown..(SeqMod - 1)
    BY Sizes DEF Unknown
<1>2. Empty \in NodeState
    BY <1>1, Sizes DEF Empty, NodeState
<1> QED
    BY <1>1, <1>2, Sizes DEF Sound, Empty

LEMMA ShapeInit == Init => Shape
BY EmptySound DEF Init, Shape, Written, Queued, Empty, Sound

\* A transmission leaves each node as it was, or as handling the packet makes it.
LEMMA AirNodes ==
    ASSUME Shape, NEW n \in Node, NEW heard \in SUBSET (Node \ {n}), NEW bad \in BOOLEAN,
           OnAir(n, heard, bad)
    PROVE  /\ out[n] \in Packet /\ out' = [out EXCEPT ![n] = None]
           /\ node' \in [Node -> NodeState]
           /\ node'[n] = Popped(node[n], out[n])
           /\ IsCtrl(out[n]) => node[n].ctrl # <<>>
           /\ \A h \in Node : Sound(node'[h])
           /\ \A h \in heard : Took(node[h], node'[h], out[n], bad)
           /\ \A h \in Node \ {n} : h \notin heard => node'[h] = node[h]
<1>1. out[n] # None /\ out[n] \in Packet /\ out' = [out EXCEPT ![n] = None]
    BY DEF OnAir, Shape
<1>2. IsCtrl(out[n]) => node[n].ctrl # <<>>
    BY DEF OnAir, Overruns
<1>3. node' = [h \in Node |-> IF h = n THEN Popped(node[n], out[n])
                              ELSE IF h \in heard THEN OnRx(node[h], out[n], bad) ELSE node[h]]
    BY DEF OnAir
<1>4. Sound(node'[n]) /\ node'[n] = Popped(node[n], out[n])
    <2>1. Sound(Popped(node[n], out[n]))
        BY <1>2, PopKeeps DEF Shape
    <2> QED
        BY <1>3, <2>1
<1>5. ASSUME NEW h \in heard PROVE Sound(node'[h]) /\ Took(node[h], node'[h], out[n], bad)
    <2>1. h \in Node /\ h # n /\ Sound(node[h])
        BY DEF Shape
    <2>2. Sound(OnRx(node[h], out[n], bad)) /\ Took(node[h], OnRx(node[h], out[n], bad), out[n], bad)
        BY <1>1, <2>1, RxKeeps
    <2> QED
        BY <1>3, <2>1, <2>2
<1>6. ASSUME NEW h \in Node \ {n}, h \notin heard PROVE Sound(node'[h]) /\ node'[h] = node[h]
    BY <1>3, <1>6 DEF Shape
<1>7. \A h \in Node : Sound(node'[h])
    BY <1>4, <1>5, <1>6
<1>8. node' \in [Node -> NodeState]
    BY <1>3, <1>7 DEF Sound
<1> QED
    BY <1>1, <1>2, <1>4, <1>5, <1>6, <1>7, <1>8

\* A step that changes one node's state leaves the others'.
LEMMA OneNode ==
    ASSUME Shape, NEW n \in Node, NEW r, Sound(r), node' = [node EXCEPT ![n] = r]
    PROVE  /\ node' \in [Node -> NodeState] /\ \A h \in Node : Sound(node'[h])
           /\ node'[n] = r /\ \A h \in Node \ {n} : node'[h] = node[h]
BY DEF Shape, Sound

LEMMA ShapeStep ==
    ASSUME Shape, [Next]_vars
    PROVE  Shape'
<1>0. NoId \notin Id /\ Id \subseteq Nat /\ 0 \in SeqNo
    BY Sizes
<1>1. ASSUME NEW n \in Node, Beat(n) PROVE Shape'
    <2>1. Heartbeat(node[n]) \in Packet /\ Heartbeat(node[n]).kind = "beat"
        BY <1>1, BuiltTypes DEF Beat, Shape
    <2> QED
        BY <1>1, <2>1 DEF Beat, Build, history, Shape, Written
<1>2. ASSUME NEW n \in Node, Control(n) PROVE Shape'
    <2> DEFINE c == Head(node[n].ctrl)
    <2>1. c \in Ctrl
        BY <1>2 DEF Control, Shape, Sound, NodeState
    <2>2. /\ Answer(node[n], c) \in Packet /\ Answer(node[n], c).kind \in {"ack", "nack"}
          /\ Answer(node[n], c).dst \in Id
        BY <1>2, <2>1, BuiltTypes DEF Control, Shape, Answer, Ctrl
    <2>3. out' = [out EXCEPT ![n] = Answer(node[n], c)] /\ UNCHANGED <<node, history>>
        BY <1>2 DEF Control, Build
    <2> HIDE DEF c
    <2> QED
        BY <2>2, <2>3 DEF history, Shape, Written
<1>3. ASSUME NEW n \in Node, NEW i \in Id, Claim(n, i) PROVE Shape'
    <2> DEFINE r == [node[n] EXCEPT !.mode = "locked", !.id = i, !.next = 0]
    <2>1. node' = [node EXCEPT ![n] = r]
        BY <1>3 DEF Claim, Shape
    <2>2. Sound(r) /\ r.queue = node[n].queue
        BY <1>0 DEF Shape, Sound, NodeState
    <2> HIDE DEF r
    <2>3. /\ node' \in [Node -> NodeState] /\ \A h \in Node : Sound(node'[h])
          /\ \A h \in Node : node'[h].queue = node[h].queue
        BY <2>1, <2>2, OneNode
    <2> QED
        BY <1>3, <2>3 DEF Claim, Shape, Written, Queued
<1>4. ASSUME NEW n \in Node, NEW i \in Slot, Transmit(n, i) PROVE Shape'
    <2> DEFINE e == node[n].queue[i]
    <2>1. e \in Pending /\ e.msg \in enqueued /\ e.dest \in Id
        BY <1>4 DEF Transmit, Queued, Shape, Written, Sound, NodeState, Pending
    <2>2. /\ Unicast(node[n], e) \in Packet /\ Unicast(node[n], e).kind = "unicast"
          /\ Unicast(node[n], e).dst = e.dest /\ Unicast(node[n], e).msg = e.msg
        BY <1>4, <2>1, BuiltTypes DEF Transmit, Shape, Unicast
    <2>3. out' = [out EXCEPT ![n] = Unicast(node[n], e)] /\ UNCHANGED <<node, history>>
        BY <1>4 DEF Transmit, Build
    <2> HIDE DEF e
    <2> QED
        BY <2>1, <2>2, <2>3 DEF history, Shape, Written
<1>5. ASSUME NEW n \in Node, NEW i \in Slot, Expire(n, i) PROVE Shape'
    <2> DEFINE r == [node[n] EXCEPT !.queue[i] = None]
    <2>1. Sound(node[n])
        BY DEF Shape
    <2>2. Sound(r) /\ \A j \in Slot : r.queue[j] \in {node[n].queue[j], None}
        BY <2>1 DEF Sound, NodeState
    <2>3. node' = [node EXCEPT ![n] = r]
        BY <1>5 DEF Expire
    <2> HIDE DEF r
    <2>4. /\ node' \in [Node -> NodeState] /\ \A h \in Node : Sound(node'[h])
          /\ node'[n] = r /\ \A h \in Node \ {n} : node'[h] = node[h]
        BY <2>2, <2>3, OneNode
    <2>5. \A h \in Node, j \in Slot : node'[h].queue[j] \in {node[h].queue[j], None}
        BY <2>2, <2>4
    <2> QED
        BY <1>5, <2>4, <2>5 DEF Expire, history, Shape, Written, Queued
<1>6. ASSUME NEW n \in Node, NEW m \in Msg, NEW d \in Id, Enqueue(n, m, d) PROVE Shape'
    <2> DEFINE e == [dest |-> d, seq |-> node[n].next, msg |-> m]
    <2>1. PICK i \in Slot :
              /\ node' = [node EXCEPT ![n].queue[i] = e, ![n].next = (@ + 1) % SeqMod]
              /\ Build(n, Unicast(node[n], e))
        BY <1>6 DEF Enqueue
    <2>2. node[n].next \in SeqNo /\ e \in Pending /\ e.msg = m /\ e.dest = d
        BY DEF Shape, Sound, NodeState, Pending
    <2>3. ((node[n].next + 1) % SeqMod) \in SeqNo
        BY <2>2, Sizes DEF SeqNo
    <2>4. /\ Unicast(node[n], e) \in Packet /\ Unicast(node[n], e).kind = "unicast"
          /\ Unicast(node[n], e).dst = d /\ Unicast(node[n], e).msg = m
        BY <1>6, <2>2, BuiltTypes DEF Enqueue, Shape, Unicast
    <2> HIDE DEF e
    <2> DEFINE r == [node[n] EXCEPT !.queue[i] = e, !.next = (@ + 1) % SeqMod]
    <2>5. node' = [node EXCEPT ![n] = r]
        BY <2>1 DEF Shape
    <2>6. Sound(r) /\ \A j \in Slot : r.queue[j] \in {node[n].queue[j], e}
        BY <2>2, <2>3 DEF Shape, Sound, NodeState
    <2> HIDE DEF r
    <2>7. /\ node' \in [Node -> NodeState] /\ \A h \in Node : Sound(node'[h])
          /\ \A h \in Node, j \in Slot : node'[h].queue[j] \in {node[h].queue[j], e}
        BY <2>5, <2>6, OneNode
    <2>8. /\ out' = [out EXCEPT ![n] = Unicast(node[n], e)] /\ enqueued' = enqueued \cup {m}
          /\ UNCHANGED <<delivered, twice, acked, claimed, steady>>
        BY <1>6, <2>1 DEF Build, Enqueue
    <2>9. Written'
        BY <2>2, <2>4, <2>7, <2>8 DEF Shape, Written, Queued
    <2> QED
        BY <2>4, <2>7, <2>8, <2>9 DEF Shape
<1>7. ASSUME NEW n \in Node, Activate(n) PROVE Shape'
    <2> DEFINE r == [node[n] EXCEPT !.mode = "listening"]
    <2>1. node' = [node EXCEPT ![n] = r] /\ node[n].mode = "off"
        BY <1>7 DEF Activate, Shape
    <2>2. Sound(r) /\ r.queue = node[n].queue
        BY <2>1 DEF Shape, Sound, NodeState
    <2> HIDE DEF r
    <2>3. /\ node' \in [Node -> NodeState] /\ \A h \in Node : Sound(node'[h])
          /\ \A h \in Node : node'[h].queue = node[h].queue
        BY <2>1, <2>2, OneNode
    <2> QED
        BY <1>7, <2>3 DEF Activate, history, Shape, Written, Queued
<1>8. ASSUME NEW n \in Node, Deactivate(n) \/ Restart(n) PROVE Shape'
    <2>1. /\ node' = [node EXCEPT ![n] = Empty] /\ UNCHANGED history
          /\ out' = out \/ out' = [out EXCEPT ![n] = None]
        BY <1>8 DEF Deactivate, Restart
    <2>2. /\ node' \in [Node -> NodeState] /\ \A h \in Node : Sound(node'[h])
          /\ \A h \in Node, j \in Slot : node'[h].queue[j] \in {node[h].queue[j], None}
        BY <2>1, EmptySound DEF Shape, Sound, Empty
    <2> QED
        BY <2>1, <2>2 DEF history, Shape, Written, Queued
<1>9. ASSUME NEW n \in Node, Sent(n) PROVE Shape'
    <2>1. PICK heard \in SUBSET (Node \ {n}), bad \in BOOLEAN : OnAir(n, heard, bad)
        BY <1>9 DEF Sent
    <2>2. /\ out[n] \in Packet /\ out[n] # None /\ out' = [out EXCEPT ![n] = None]
          /\ node' \in [Node -> NodeState] /\ \A h \in Node : Sound(node'[h])
          /\ node'[n] = Popped(node[n], out[n])
          /\ \A h \in heard : Took(node[h], node'[h], out[n], bad)
          /\ \A h \in Node \ {n} : h \notin heard => node'[h] = node[h]
        <3>1. out[n] # None
            BY <2>1 DEF OnAir
        <3> QED
            BY <2>1, <3>1, AirNodes, ZenonT(40)
    <2>3. \A h \in Node, j \in Slot : node'[h].queue[j] \in {node[h].queue[j], None}
        <3> SUFFICES ASSUME NEW h \in Node, NEW j \in Slot
                     PROVE  node'[h].queue[j] \in {node[h].queue[j], None}
            OBVIOUS
        <3>1. CASE h = n
            <4>1. Popped(node[n], out[n]).queue = node[n].queue
                BY DEF Popped
            <4> QED
                BY <2>2, <3>1, <4>1
        <3>2. CASE h \in heard
            <4>1. Took(node[h], node'[h], out[n], bad)
                BY <2>2, <3>2
            <4> QED
                BY <4>1 DEF Took
        <3>3. CASE h # n /\ h \notin heard
            BY <2>2, <3>3
        <3> QED
            BY <3>1, <3>2, <3>3
    <2>4. Written'
        BY <2>1, <2>2, <2>3 DEF OnAir, Shape, Written, Queued
    <2>5. delivered' \subseteq enqueued /\ twice' \subseteq delivered'
        <3>1. \A h \in Node : Records(h, out[n], bad) => out[n].msg \in enqueued
            BY <2>2 DEF Records, Shape, Written
        <3> QED
            BY <2>1, <3>1 DEF OnAir, Shape
    <2>6. acked' \subseteq enqueued
        <3>1. \A h \in Node : Settles(h, out[n]) \subseteq enqueued
            BY DEF Settles, Found, Matches, Shape, Written
        <3> QED
            BY <2>1, <3>1 DEF OnAir, Shape
    <2> QED
        BY <2>1, <2>2, <2>4, <2>5, <2>6 DEF OnAir, Shape
<1>10. ASSUME NEW n \in Node, Busy(n) PROVE Shape'
    BY <1>10 DEF Busy, history, Shape, Written, Queued
<1>11. ASSUME NEW n \in Node, NEW i \in Id, Forget(n, i) PROVE Shape'
    <2> DEFINE r == [node[n] EXCEPT !.peers[i] = Unknown]
    <2>1. Unknown \in Unknown..(SeqMod - 1)
        BY Sizes DEF Unknown
    <2>2. Sound(node[n])
        BY DEF Shape
    <2>3. Sound(r) /\ r.queue = node[n].queue
        BY <2>1, <2>2 DEF Sound, NodeState
    <2>4. node' = [node EXCEPT ![n] = r]
        BY <1>11 DEF Forget
    <2> HIDE DEF r
    <2>5. /\ node' \in [Node -> NodeState] /\ \A h \in Node : Sound(node'[h])
          /\ node'[n] = r /\ \A h \in Node \ {n} : node'[h] = node[h]
        BY <2>2, <2>3, <2>4, OneNode
    <2>6. \A h \in Node : node'[h].queue = node[h].queue
        BY <2>3, <2>5
    <2> QED
        BY <1>11, <2>5, <2>6 DEF Forget, history, Shape, Written, Queued
<1>12. ASSUME UNCHANGED vars PROVE Shape'
    BY <1>12 DEF vars, history, Shape, Written, Queued
<1> QED
    BY <1>1, <1>2, <1>3, <1>4, <1>5, <1>6, <1>7, <1>8, <1>9, <1>10, <1>11, <1>12
    DEF Next, MeshTask, BleTask

-----------------------------------------------------------------------------
(* What is carried and what is vouched for *)

\* Numbers are integers.
LEMMA NodeNumbers ==
    ASSUME NEW s, Sound(s)
    PROVE  s.next \in Nat /\ s.next < SeqMod /\ \A i \in Id : s.peers[i] \in Int
<1>1. s.next \in SeqNo /\ s.peers \in [Id -> Unknown..(SeqMod - 1)]
    BY DEF Sound, NodeState
<1>2. Unknown..(SeqMod - 1) \subseteq Int
    BY Sizes DEF Unknown
<1> QED
    BY <1>1, <1>2, Sizes DEF SeqNo

\* A node that keeps or loses its id and its messages carries nothing new.
LEMMA QueueStays ==
    ASSUME NEW s, NEW r, r.id \in {s.id, NoId}, \A j \in Slot : r.queue[j] \in {s.queue[j], None},
           NEW t \in Text, QueueHas(r, t)
    PROVE  QueueHas(s, t)
<1>1. t.src # NoId
    BY Sizes DEF Text
<1> QED
    BY <1>1 DEF QueueHas, Queued

\* So nothing new is carried when what is built comes from the queues.
LEMMA CarriedStays ==
    ASSUME \A h \in Node : /\ node'[h].id \in {node[h].id, NoId}
                           /\ \A j \in Slot : node'[h].queue[j] \in {node[h].queue[j], None},
           \A h \in Node, t \in Text : Sends(out'[h], t) => Sends(out[h], t) \/ QueueHas(node[h], t)
    PROVE  Carried' \subseteq Carried
<1> SUFFICES ASSUME NEW t \in Text, NEW h \in Node, QueueHas(node'[h], t) \/ Sends(out'[h], t)
             PROVE  QueueHas(node[h], t) \/ Sends(out[h], t)
    BY DEF Carried
<1> QED
    BY QueueStays

LEMMA VouchedStays ==
    ASSUME \A h \in Node, r \in Receipt : Keeps(node'[h], r) => Keeps(node[h], r),
           \A h \in Node, r \in Receipt :
               out'[h] # None /\ Acks(out'[h], r)
                   => (out[h] # None /\ Acks(out[h], r)) \/ Keeps(node[h], r)
    PROVE  Vouched' \subseteq Vouched
BY DEF Vouched

\* A node that keeps or loses its table of peers and its control queue vouches for
\* nothing new: no number is below 0.
LEMMA KeepsStays ==
    ASSUME NEW s, NEW u, NEW r \in Receipt, Keeps(u, r),
           u.peers[r.src] = s.peers[r.src] \/ u.peers[r.src] \in {Unknown, Silent},
           \A k \in 1..Len(u.ctrl) :
               u.ctrl[k].kind = "ack" => \E j \in 1..Len(s.ctrl) : u.ctrl[k] = s.ctrl[j]
    PROVE  Keeps(s, r)
<1>1. r.seq \in Nat
    BY Sizes DEF Receipt, SeqNo
<1> QED
    BY <1>1 DEF Keeps, Acks, Unknown, Silent

\* A step that adds nothing to either set, in which nodes keep or lose their ids
\* and receivers keep what they know of the texts delivered, keeps the invariant.
LEMMA QuietStep ==
    ASSUME Shape, Shape', SteadyInv, steady' => steady,
           Carried' \subseteq Carried, Vouched' \subseteq Vouched,
           UNCHANGED <<enqueued, delivered, twice, acked, claimed>>,
           \A h \in Node : /\ node'[h].next <= node[h].next
                           /\ \/ node'[h].id = NoId
                              \/ node'[h].id = node[h].id /\ node'[h].next = node[h].next,
           \A h \in Node, t \in Carried :
               t.msg \in delivered /\ node'[h].id = t.dst
                   => node[h].peers[t.src] <= node'[h].peers[t.src]
    PROVE  SteadyInv'
<1> SUFFICES ASSUME steady' PROVE SteadyInv'
    BY DEF SteadyInv
<1>0. /\ IdsAreOwned /\ NumbersAreUsed /\ TextsAreUnique /\ VouchedIsDelivered /\ DeliveredIsKnown
      /\ acked \subseteq delivered /\ twice = {}
    BY DEF SteadyInv
<1>1. NoId \notin Id
    BY Sizes
<1>2. IdsAreOwned'
    BY <1>0, <1>1 DEF IdsAreOwned
<1>3. NumbersAreUsed'
    <2>1. Counted' = Counted /\ Counted \in Nat
        <3>1. IsFiniteSet(enqueued)
            BY MsgAssumption, FS_Subset DEF Shape
        <3> QED
            BY <3>1, FS_CardinalityType DEF Counted
    <2>2. \A h \in Node : node[h].next \in Nat /\ node'[h].next \in Nat
        BY NodeNumbers DEF Shape
    <2>3. \A r \in Carried \cup Vouched : r.src # NoId
        BY <1>1 DEF Carried, Vouched, Text, Receipt
    <2> QED
        BY <1>0, <2>1, <2>2, <2>3 DEF NumbersAreUsed
<1>4. TextsAreUnique' /\ VouchedIsDelivered'
    BY <1>0 DEF TextsAreUnique, VouchedIsDelivered
<1>5. DeliveredIsKnown'
    <2> SUFFICES ASSUME NEW t \in Carried', t.msg \in delivered
                 PROVE  /\ t.dst \in claimed'
                        /\ \A h \in Node : node'[h].id = t.dst => t.seq <= node'[h].peers[t.src]
        BY DEF DeliveredIsKnown
    <2>1. t \in Carried /\ t \in Text
        BY DEF Carried
    <2>2. t.dst \in claimed
        BY <1>0, <2>1 DEF DeliveredIsKnown
    <2>3. ASSUME NEW h \in Node, node'[h].id = t.dst PROVE t.seq <= node'[h].peers[t.src]
        <3>1. t.dst # NoId /\ t.src \in Id /\ t.seq \in Int
            BY <1>1, <2>1, Sizes DEF Text, SeqNo
        <3>2. t.seq <= node[h].peers[t.src]
            BY <1>0, <2>1, <2>3, <3>1 DEF DeliveredIsKnown
        <3>3. node[h].peers[t.src] \in Int /\ node'[h].peers[t.src] \in Int
            BY <3>1, NodeNumbers DEF Shape
        <3> QED
            BY <2>1, <2>3, <3>1, <3>2, <3>3
    <2> QED
        BY <2>2, <2>3
<1> QED
    BY <1>0, <1>2, <1>3, <1>4, <1>5 DEF SteadyInv

-----------------------------------------------------------------------------
(* The invariant is kept *)

LEMMA SteadyInit == Init => SteadyInv
<1> SUFFICES ASSUME Init PROVE SteadyInv
    OBVIOUS
<1>1. Carried = {}
    BY DEF Init, Carried, QueueHas, Sends, Queued, Empty
<1>2. Vouched = {}
    <2> SUFFICES ASSUME NEW r \in Receipt, NEW n \in Node, Keeps(node[n], r) PROVE FALSE
        BY DEF Vouched, Init
    <2>1. r.seq \in Nat /\ r.src \in Id
        BY Sizes DEF Receipt, SeqNo
    <2>2. node[n] = Empty /\ Len(<<>>) = 0
        BY DEF Init
    <2> QED
        BY <2>1, <2>2 DEF Keeps, Empty, Unknown
<1>3. \A n \in Node : node[n].id \notin Id /\ node[n].next = 0
    BY Sizes DEF Init, Empty
<1>4. Counted = 0
    BY FS_EmptySet DEF Init, Counted
<1>5. IdsAreOwned /\ NumbersAreUsed
    BY <1>1, <1>2, <1>3, <1>4 DEF IdsAreOwned, NumbersAreUsed
<1> QED
    BY <1>1, <1>2, <1>5
    DEF Init, SteadyInv, TextsAreUnique, VouchedIsDelivered, DeliveredIsKnown

\* What is built comes from the node's queues.
LEMMA BuildStep ==
    ASSUME Shape, Shape', SteadyInv, NEW n \in Node,
           Beat(n) \/ Control(n) \/ (\E i \in Slot : Transmit(n, i)) \/ Busy(n)
    PROVE  SteadyInv'
<1>1. UNCHANGED node /\ UNCHANGED history
    BY DEF Beat, Control, Transmit, Busy, history
<1>2. PICK p : out' = [out EXCEPT ![n] = p]
    BY DEF Beat, Control, Transmit, Busy, Build
<1>3. out'[n] = p /\ \A h \in Node \ {n} : out'[h] = out[h]
    BY <1>2 DEF Shape
<1>4. \/ p = None
      \/ p = Heartbeat(node[n])
      \/ p = Answer(node[n], Head(node[n].ctrl)) /\ node[n].ctrl # <<>>
      \/ \E i \in Slot : p = Unicast(node[n], node[n].queue[i]) /\ Queued(node[n], i)
    <2>1. CASE Beat(n)
        BY <1>3, <2>1 DEF Beat, Build, Shape
    <2>2. CASE Control(n)
        BY <1>3, <2>2 DEF Control, Build, Shape
    <2>3. CASE \E i \in Slot : Transmit(n, i)
        BY <1>3, <2>3 DEF Transmit, Build, Shape
    <2>4. CASE Busy(n)
        BY <1>3, <2>4 DEF Busy, Shape
    <2> QED
        BY <2>1, <2>2, <2>3, <2>4
<1>5. node[n].ctrl # <<>> => /\ Head(node[n].ctrl) \in Ctrl /\ 1 \in 1..Len(node[n].ctrl)
                             /\ Head(node[n].ctrl) = node[n].ctrl[1]
    BY DEF Shape, Sound, NodeState
<1>6. Carried' \subseteq Carried
    <2>1. ASSUME NEW t \in Text, Sends(p, t) PROVE QueueHas(node[n], t)
        <3>1. p.kind = "unicast" /\ p # None
            BY <2>1 DEF Sends
        <3>2. ~(p = Heartbeat(node[n]))
            BY <3>1 DEF Heartbeat
        <3>3. ~(p = Answer(node[n], Head(node[n].ctrl)) /\ node[n].ctrl # <<>>)
            BY <3>1, <1>5 DEF Answer, Ctrl
        <3>4. PICK i \in Slot : p = Unicast(node[n], node[n].queue[i]) /\ Queued(node[n], i)
            BY <1>4, <3>1, <3>2, <3>3
        <3>5. node[n].queue[i] \in Pending
            BY <3>4 DEF Queued, Shape, Sound, NodeState
        <3> QED
            BY <2>1, <3>4, <3>5 DEF Sends, Unicast, QueueHas, Pending
    <2>2. \A h \in Node : /\ node'[h].id \in {node[h].id, NoId}
                          /\ \A j \in Slot : node'[h].queue[j] \in {node[h].queue[j], None}
        BY <1>1
    <2>3. \A h \in Node, t \in Text : Sends(out'[h], t) => Sends(out[h], t) \/ QueueHas(node[h], t)
        BY <1>3, <2>1
    <2> QED
        BY <2>2, <2>3, CarriedStays
<1>7. Vouched' \subseteq Vouched
    <2>1. ASSUME NEW r \in Receipt, p # None, Acks(p, r) PROVE Keeps(node[n], r)
        <3>1. p.kind = "ack"
            BY <2>1 DEF Acks
        <3>2. ~(p = Heartbeat(node[n]))
            BY <3>1 DEF Heartbeat
        <3>3. ~(\E i \in Slot : p = Unicast(node[n], node[n].queue[i]))
            BY <3>1 DEF Unicast
        <3>4. p = Answer(node[n], Head(node[n].ctrl)) /\ node[n].ctrl # <<>>
            BY <1>4, <2>1, <3>2, <3>3
        <3>5. Acks(Head(node[n].ctrl), r)
            BY <2>1, <3>4 DEF Answer, Acks
        <3> QED
            BY <1>5, <3>4, <3>5 DEF Keeps
    <2>2. \A h \in Node, r \in Receipt : Keeps(node'[h], r) => Keeps(node[h], r)
        BY <1>1
    <2>3. \A h \in Node, r \in Receipt :
              out'[h] # None /\ Acks(out'[h], r)
                  => (out[h] # None /\ Acks(out[h], r)) \/ Keeps(node[h], r)
        BY <1>3, <2>1
    <2> QED
        BY <2>2, <2>3, VouchedStays
<1>8. \A h \in Node : /\ node'[h].next <= node[h].next
                      /\ node'[h].id = node[h].id /\ node'[h].next = node[h].next
    BY <1>1, NodeNumbers DEF Shape
<1>9. \A h \in Node, t \in Carried : node[h].peers[t.src] <= node'[h].peers[t.src]
    BY <1>1, NodeNumbers DEF Shape, Carried, Text
<1> QED
    BY <1>1, <1>6, <1>7, <1>8, <1>9, QuietStep DEF history

\* A node loses messages, peers, control items or its id.
LEMMA LoseStep ==
    ASSUME Shape, Shape', SteadyInv, UNCHANGED history, NEW n \in Node, NEW r, Sound(r),
           node' = [node EXCEPT ![n] = r],
           out' = out \/ out' = [out EXCEPT ![n] = None],
           \A j \in Slot : r.queue[j] \in {node[n].queue[j], None},
           \A i \in Id : r.peers[i] \in {node[n].peers[i], Unknown},
           r.ctrl \in {node[n].ctrl, <<>>},
           r.next <= node[n].next,
           r.id = NoId \/ (r.id = node[n].id /\ r.next = node[n].next),
           \A t \in Carried : t.msg \in delivered /\ r.id = t.dst
                                  => r.peers[t.src] = node[n].peers[t.src]
    PROVE  SteadyInv'
<1>1. node'[n] = r /\ \A h \in Node \ {n} : node'[h] = node[h]
    BY OneNode
<1>2. \A h \in Node : out'[h] = out[h] \/ out'[h] = None
    BY DEF Shape
<1>3. Carried' \subseteq Carried
    <2>1. \A h \in Node : /\ node'[h].id \in {node[h].id, NoId}
                          /\ \A j \in Slot : node'[h].queue[j] \in {node[h].queue[j], None}
        BY <1>1
    <2>2. \A h \in Node, t \in Text : Sends(out'[h], t) => Sends(out[h], t)
        BY <1>2 DEF Sends
    <2> QED
        BY <2>1, <2>2, CarriedStays
<1>4. Vouched' \subseteq Vouched
    <2>1. ASSUME NEW v \in Receipt, Keeps(r, v) PROVE Keeps(node[n], v)
        <3>1. r.peers[v.src] = node[n].peers[v.src] \/ r.peers[v.src] \in {Unknown, Silent}
            BY DEF Receipt
        <3>2. \A k \in 1..Len(r.ctrl) : \E j \in 1..Len(node[n].ctrl) : r.ctrl[k] = node[n].ctrl[j]
            <4>1. CASE r.ctrl = node[n].ctrl
                BY <4>1
            <4>2. CASE r.ctrl = <<>>
                BY <4>2
            <4> QED
                BY <4>1, <4>2
        <3> QED
            BY <2>1, <3>1, <3>2, KeepsStays
    <2>2. \A h \in Node, v \in Receipt : Keeps(node'[h], v) => Keeps(node[h], v)
        BY <1>1, <2>1
    <2> QED
        BY <1>2, <2>2, VouchedStays
<1>5. \A h \in Node : /\ node'[h].next <= node[h].next
                      /\ \/ node'[h].id = NoId
                         \/ node'[h].id = node[h].id /\ node'[h].next = node[h].next
    BY <1>1, NodeNumbers DEF Shape
<1>6. \A h \in Node, t \in Carried :
          t.msg \in delivered /\ node'[h].id = t.dst
              => node[h].peers[t.src] <= node'[h].peers[t.src]
    BY <1>1, NodeNumbers DEF Shape, Carried, Text
<1> QED
    BY <1>3, <1>4, <1>5, <1>6, QuietStep DEF history

LEMMA NodeStep ==
    ASSUME Shape, Shape', SteadyInv, NEW n \in Node,
           \/ \E i \in Slot : Expire(n, i)
           \/ Activate(n) \/ Deactivate(n) \/ Restart(n)
           \/ \E i \in Id : Forget(n, i)
    PROVE  SteadyInv'
<1>0. /\ Sound(node[n]) /\ node[n].next \in Nat
      /\ \A t \in Carried : t.src \in Id /\ t.dst \in Id /\ t.dst # NoId
    BY NodeNumbers, Sizes DEF Shape, Carried, Text
<1>1. ASSUME NEW i \in Slot, Expire(n, i) PROVE SteadyInv'
    <2> DEFINE r == [node[n] EXCEPT !.queue[i] = None]
    <2>1. node' = [node EXCEPT ![n] = r] /\ UNCHANGED history /\ out' = out
        BY <1>1 DEF Expire, Shape
    <2>2. /\ Sound(r) /\ r.peers = node[n].peers /\ r.ctrl = node[n].ctrl
          /\ r.next = node[n].next /\ r.id = node[n].id
          /\ \A j \in Slot : r.queue[j] \in {node[n].queue[j], None}
        BY <1>0 DEF Sound, NodeState
    <2> HIDE DEF r
    <2>3. /\ \A j \in Slot : r.queue[j] \in {node[n].queue[j], None}
          /\ \A j \in Id : r.peers[j] \in {node[n].peers[j], Unknown}
          /\ r.ctrl \in {node[n].ctrl, <<>>} /\ r.next <= node[n].next
          /\ \A t \in Carried : t.msg \in delivered /\ r.id = t.dst
                                    => r.peers[t.src] = node[n].peers[t.src]
        BY <1>0, <2>2
    <2> QED
        BY <2>1, <2>2, <2>3, LoseStep
<1>2. ASSUME Activate(n) PROVE SteadyInv'
    <2> DEFINE r == [node[n] EXCEPT !.mode = "listening"]
    <2>1. node' = [node EXCEPT ![n] = r] /\ UNCHANGED history /\ out' = out
        BY <1>2 DEF Activate, Shape
    <2>2. /\ Sound(r) /\ r.peers = node[n].peers /\ r.ctrl = node[n].ctrl
          /\ r.next = node[n].next /\ r.id = node[n].id /\ r.queue = node[n].queue
        BY <1>0, <1>2 DEF Activate, Sound, NodeState
    <2> HIDE DEF r
    <2>3. /\ \A j \in Slot : r.queue[j] \in {node[n].queue[j], None}
          /\ \A j \in Id : r.peers[j] \in {node[n].peers[j], Unknown}
          /\ r.ctrl \in {node[n].ctrl, <<>>} /\ r.next <= node[n].next
          /\ \A t \in Carried : t.msg \in delivered /\ r.id = t.dst
                                    => r.peers[t.src] = node[n].peers[t.src]
        BY <1>0, <2>2
    <2> QED
        BY <2>1, <2>2, <2>3, LoseStep
<1>3. ASSUME Deactivate(n) \/ Restart(n) PROVE SteadyInv'
    <2>1. /\ node' = [node EXCEPT ![n] = Empty] /\ UNCHANGED history
          /\ out' = out \/ out' = [out EXCEPT ![n] = None]
        BY <1>3 DEF Deactivate, Restart
    <2>2. /\ \A i \in Id : Empty.peers[i] = Unknown
          /\ \A j \in Slot : Empty.queue[j] = None
          /\ Empty.ctrl = <<>> /\ Empty.next = 0 /\ Empty.id = NoId
        BY DEF Empty
    <2>3. Empty.next <= node[n].next
        BY <1>0, <2>2
    <2> QED
        BY <1>0, <2>1, <2>2, <2>3, EmptySound, LoseStep
<1>4. ASSUME NEW i \in Id, Forget(n, i) PROVE SteadyInv'
    <2> DEFINE r == [node[n] EXCEPT !.peers[i] = Unknown]
    <2>1. node' = [node EXCEPT ![n] = r] /\ UNCHANGED history /\ out' = out /\ ~StillSent(i)
        BY <1>4 DEF Forget, Shape
    <2>2. /\ Sound(r) /\ r.queue = node[n].queue /\ r.ctrl = node[n].ctrl
          /\ r.next = node[n].next /\ r.id = node[n].id
          /\ \A j \in Id : r.peers[j] = IF j = i THEN Unknown ELSE node[n].peers[j]
        <3>1. Unknown \in Unknown..(SeqMod - 1)
            BY Sizes DEF Unknown
        <3> QED
            BY <1>0, <3>1 DEF Sound, NodeState
    <2>3. \A t \in Carried : t.msg \in delivered => t.src # i
        BY <2>1 DEF StillSent, Carried, QueueHas, Sends
    <2> HIDE DEF r
    <2>4. /\ \A j \in Slot : r.queue[j] \in {node[n].queue[j], None}
          /\ \A j \in Id : r.peers[j] \in {node[n].peers[j], Unknown}
          /\ r.ctrl \in {node[n].ctrl, <<>>} /\ r.next <= node[n].next
          /\ \A t \in Carried : t.msg \in delivered /\ r.id = t.dst
                                    => r.peers[t.src] = node[n].peers[t.src]
        BY <1>0, <2>2, <2>3
    <2> QED
        BY <2>1, <2>2, <2>4, LoseStep
<1> QED
    BY <1>1, <1>2, <1>3, <1>4

\* An id claimed for the first time is not in use anywhere, and its number 0 is the
\* first, when the node has no messages left from another id.
LEMMA ClaimStep ==
    ASSUME Shape, Shape', SteadyInv, NEW n \in Node, NEW i \in Id, Claim(n, i)
    PROVE  SteadyInv'
<1> SUFFICES ASSUME steady' PROVE SteadyInv'
    BY DEF SteadyInv
<1>0. /\ IdsAreOwned /\ NumbersAreUsed /\ TextsAreUnique /\ VouchedIsDelivered /\ DeliveredIsKnown
      /\ acked \subseteq delivered /\ twice = {}
    BY DEF SteadyInv, Claim
<1>1. /\ i \notin claimed /\ claimed' = claimed \cup {i}
      /\ \A j \in Slot : ~Queued(node[n], j)
      /\ UNCHANGED <<out, enqueued, delivered, twice, acked>>
    BY DEF Claim, Shape
<1> DEFINE r == [node[n] EXCEPT !.mode = "locked", !.id = i, !.next = 0]
<1>2. node' = [node EXCEPT ![n] = r]
    BY DEF Claim, Shape
<1>3. /\ r.queue = node[n].queue /\ r.peers = node[n].peers /\ r.ctrl = node[n].ctrl
      /\ r.id = i /\ r.next = 0
    BY DEF Shape, Sound, NodeState
<1> HIDE DEF r
<1>4. node'[n] = r /\ \A h \in Node \ {n} : node'[h] = node[h]
    BY <1>2 DEF Shape
<1>5. Carried' \subseteq Carried
    <2>1. \A t \in Text : ~QueueHas(node'[n], t)
        BY <1>1, <1>3, <1>4 DEF QueueHas, Queued
    <2> QED
        BY <1>1, <1>4, <2>1 DEF Carried
<1>6. Vouched' \subseteq Vouched
    <2>1. \A h \in Node, v \in Receipt : Keeps(node'[h], v) => Keeps(node[h], v)
        BY <1>3, <1>4 DEF Keeps
    <2> QED
        BY <1>1, <2>1, VouchedStays
<1>7. \A v \in Carried \cup Vouched : v.src # i
    BY <1>0, <1>1 DEF NumbersAreUsed
<1>8. IdsAreOwned'
    BY <1>0, <1>1, <1>3, <1>4 DEF IdsAreOwned
<1>9. NumbersAreUsed'
    <2>1. Counted' = Counted /\ Counted \in Nat
        <3>1. IsFiniteSet(enqueued)
            BY MsgAssumption, FS_Subset DEF Shape
        <3> QED
            BY <1>1, <3>1, FS_CardinalityType DEF Counted
    <2> QED
        BY <1>0, <1>1, <1>3, <1>4, <1>5, <1>6, <1>7, <2>1 DEF NumbersAreUsed
<1>10. TextsAreUnique' /\ VouchedIsDelivered'
    BY <1>0, <1>1, <1>5, <1>6 DEF TextsAreUnique, VouchedIsDelivered
<1>11. DeliveredIsKnown'
    BY <1>0, <1>1, <1>3, <1>4, <1>5 DEF DeliveredIsKnown
<1> QED
    BY <1>0, <1>1, <1>8, <1>9, <1>10, <1>11 DEF SteadyInv

\* What is carried was handed to the mesh.
LEMMA CarriedWritten ==
    ASSUME Shape
    PROVE  \A t \in Carried : t.msg \in enqueued /\ t.src \in Id /\ t.dst \in Id /\ t.seq \in Nat
<1> SUFFICES ASSUME NEW t \in Carried
             PROVE  t.msg \in enqueued /\ t.src \in Id /\ t.dst \in Id /\ t.seq \in Nat
    OBVIOUS
<1>1. t.src \in Id /\ t.dst \in Id /\ t.seq \in Nat
    BY Sizes DEF Carried, Text, SeqNo
<1>2. PICK n \in Node : QueueHas(node[n], t) \/ Sends(out[n], t)
    BY DEF Carried
<1>3. CASE QueueHas(node[n], t)
    BY <1>1, <1>3 DEF QueueHas, Shape, Written
<1>4. CASE Sends(out[n], t)
    BY <1>1, <1>4 DEF Sends, Shape, Written
<1> QED
    BY <1>2, <1>3, <1>4

\* The messages handed to the mesh are fewer than half of the numbers.
LEMMA CountedBounds ==
    ASSUME Shape
    PROVE  IsFiniteSet(enqueued) /\ Counted \in Nat /\ Counted <= Cardinality(Msg)
BY MsgAssumption, FS_Subset, FS_CardinalityType DEF Shape, Counted

\* A new message takes a number that its id did not use.
LEMMA EnqueueStep ==
    ASSUME Shape, Shape', SteadyInv, NEW n \in Node, NEW m \in Msg, NEW d \in Id, Enqueue(n, m, d)
    PROVE  SteadyInv'
<1> SUFFICES ASSUME steady' PROVE SteadyInv'
    BY DEF SteadyInv
<1>0. /\ IdsAreOwned /\ NumbersAreUsed /\ TextsAreUnique /\ VouchedIsDelivered /\ DeliveredIsKnown
      /\ acked \subseteq delivered /\ twice = {}
    BY DEF SteadyInv, Enqueue
<1>1. /\ m \notin enqueued /\ enqueued' = enqueued \cup {m}
      /\ UNCHANGED <<delivered, twice, acked, claimed>> /\ node[n].id \in Id
    BY DEF Enqueue, Shape, Sound, Locked
<1>2. Counted \in Nat /\ Counted' = Counted + 1 /\ Counted' <= Cardinality(Msg)
    <2>1. Counted' = Counted + 1
        BY <1>1, CountedBounds, FS_AddElement DEF Counted
    <2>2. Counted' <= Cardinality(Msg)
        <3>1. enqueued' \subseteq Msg
            BY DEF Shape
        <3> QED
            BY <3>1, MsgAssumption, FS_Subset DEF Counted
    <2> QED
        BY <2>1, <2>2, CountedBounds
<1> DEFINE q == node[n].next
           e == [dest |-> d, seq |-> q, msg |-> m]
           new == [src |-> node[n].id, seq |-> q, dst |-> d, msg |-> m]
<1>3. q \in SeqNo /\ q \in Nat /\ q <= Counted
    BY <1>0, NodeNumbers DEF Shape, Sound, NodeState, NumbersAreUsed
<1>4. ((q + 1) % SeqMod) = q + 1
    <2>1. q + 1 < SeqMod
        BY <1>2, <1>3, Sizes
    <2> QED
        BY <1>3, <2>1, Sizes
<1>5. PICK i \in Slot :
          /\ node' = [node EXCEPT ![n].queue[i] = e, ![n].next = (@ + 1) % SeqMod]
          /\ Build(n, Unicast(node[n], e))
    BY DEF Enqueue
<1> DEFINE r == [node[n] EXCEPT !.queue[i] = e, !.next = (@ + 1) % SeqMod]
<1>6. node' = [node EXCEPT ![n] = r] /\ out' = [out EXCEPT ![n] = Unicast(node[n], e)]
    BY <1>5 DEF Build, Shape
<1>7. /\ r.peers = node[n].peers /\ r.ctrl = node[n].ctrl /\ r.id = node[n].id /\ r.next = q + 1
      /\ \A j \in Slot : r.queue[j] \in {node[n].queue[j], e}
    BY <1>4 DEF Shape, Sound, NodeState
<1> HIDE DEF r
<1>8. /\ node'[n] = r /\ \A h \in Node \ {n} : node'[h] = node[h]
      /\ out'[n] = Unicast(node[n], e) /\ \A h \in Node \ {n} : out'[h] = out[h]
    BY <1>6 DEF Shape
<1>9. new \in Text /\ new.src = node[n].id /\ new.seq = q /\ new.msg = m
    BY <1>1, <1>3 DEF Text
<1>10. Carried' \subseteq Carried \cup {new}
    <2> SUFFICES ASSUME NEW t \in Text, NEW h \in Node, QueueHas(node'[h], t) \/ Sends(out'[h], t),
                        t # new
                 PROVE  QueueHas(node[h], t) \/ Sends(out[h], t)
        BY DEF Carried
    <2>1. CASE h # n
        BY <1>8, <2>1
    <2>2. CASE h = n /\ QueueHas(node'[h], t)
        <3>1. PICK j \in Slot :
                  /\ Queued(r, j) /\ r.queue[j] = [dest |-> t.dst, seq |-> t.seq, msg |-> t.msg]
                  /\ r.id = t.src
            BY <1>8, <2>2 DEF QueueHas
        <3>2. r.queue[j] # e
            BY <1>7, <3>1 DEF Text
        <3> QED
            BY <1>7, <2>2, <3>1, <3>2 DEF QueueHas, Queued
    <2>3. CASE h = n /\ Sends(out'[h], t)
        BY <1>8, <2>3 DEF Sends, Unicast, Text
    <2> QED
        BY <2>1, <2>2, <2>3
<1>11. Vouched' \subseteq Vouched
    <2>1. \A h \in Node, v \in Receipt : Keeps(node'[h], v) => Keeps(node[h], v)
        BY <1>7, <1>8 DEF Keeps
    <2>2. \A h \in Node, v \in Receipt : Acks(out'[h], v) => out'[h] = out[h]
        BY <1>8 DEF Acks, Unicast
    <2> QED
        BY <2>1, <2>2, VouchedStays
<1>12. \A h \in Node : node'[h].id = node[h].id /\ node'[h].peers = node[h].peers
    BY <1>7, <1>8
<1>13. \A h \in Node : node[h].next \in Nat /\ node'[h].next = IF h = n THEN q + 1 ELSE node[h].next
    BY <1>7, <1>8, NodeNumbers DEF Shape
<1>14. \A v \in Carried \cup Vouched : v.seq \in Nat
    BY CarriedWritten, Sizes DEF Vouched, Receipt, SeqNo
<1> HIDE DEF q, e, new
<1>15. IdsAreOwned'
    BY <1>0, <1>1, <1>12 DEF IdsAreOwned
<1>16. NumbersAreUsed'
    <2>1. \A h \in Node : node'[h].next <= Counted'
        BY <1>0, <1>2, <1>3, <1>13 DEF NumbersAreUsed
    <2>2. ASSUME NEW v \in Carried \cup Vouched
          PROVE  /\ v.src \in claimed' /\ v.seq < Counted'
                 /\ \A h \in Node : node'[h].id = v.src => v.seq < node'[h].next
        <3>1. /\ v.src \in claimed /\ v.seq < Counted /\ v.seq \in Nat
              /\ \A h \in Node : node[h].id = v.src => v.seq < node[h].next
            BY <1>0, <1>14 DEF NumbersAreUsed
        <3>2. \A h \in Node : node[h].next <= node'[h].next /\ node'[h].next \in Nat
            BY <1>3, <1>13 DEF q
        <3> QED
            BY <1>1, <1>2, <1>12, <1>13, <3>1, <3>2
    <2>3. /\ new.src \in claimed' /\ new.seq < Counted'
          /\ \A h \in Node : node'[h].id = new.src => new.seq < node'[h].next
        BY <1>0, <1>1, <1>2, <1>3, <1>9, <1>12, <1>13 DEF IdsAreOwned
    <2> QED
        BY <1>10, <1>11, <2>1, <2>2, <2>3 DEF NumbersAreUsed
<1>17. \A v \in Carried \cup Vouched : ~(v.src = new.src /\ v.seq = new.seq)
    BY <1>0, <1>3, <1>9, <1>14 DEF NumbersAreUsed, q
<1>18. \A t \in Carried : t.msg # m
    BY <1>1, CarriedWritten
<1>19. TextsAreUnique'
    BY <1>0, <1>9, <1>10, <1>17, <1>18 DEF TextsAreUnique
<1>20. VouchedIsDelivered'
    BY <1>0, <1>1, <1>10, <1>11, <1>17 DEF VouchedIsDelivered
<1>21. DeliveredIsKnown'
    <2>1. m \notin delivered
        BY <1>1 DEF Shape
    <2> QED
        BY <1>0, <1>1, <1>9, <1>10, <1>12, <2>1 DEF DeliveredIsKnown
<1> QED
    BY <1>0, <1>1, <1>15, <1>16, <1>19, <1>20, <1>21 DEF SteadyInv

\* Among numbers that have not wrapped, seq_cmp is the order of the numbers.
LEMMA SeqOrder ==
    ASSUME NEW a \in Nat, NEW b \in Nat, 2 * a < SeqMod, 2 * b < SeqMod
    PROVE  SeqCmp(a, b) > 0 <=> a > b
<1>1. CASE a >= b
    <2>1. a - b \in 0..SeqMod - 1 /\ 2 * (a - b) < SeqMod
        BY <1>1, Sizes
    <2>2. ((a - b) % SeqMod) = a - b
        BY <2>1, Sizes
    <2>3. SeqCmp(a, b) = a - b
        BY <2>1, <2>2, Sizes DEF SeqCmp
    <2> QED
        BY <1>1, <2>3
<1>2. CASE a < b
    <2> DEFINE d == (a - b) + SeqMod
    <2>1. d \in 0..SeqMod - 1 /\ 2 * d >= SeqMod
        BY <1>2, Sizes
    <2>2. ((a - b) % SeqMod) = d
        BY <1>2, <2>1, Sizes
    <2>3. SeqCmp(a, b) = d - SeqMod
        BY <2>1, <2>2, Sizes DEF SeqCmp
    <2> QED
        BY <1>2, <2>3, Sizes
<1> QED
    BY <1>1, <1>2

\* What a receiver knows of an id and what is carried have not wrapped.
LEMMA Unwrapped ==
    ASSUME Shape, NumbersAreUsed
    PROVE  /\ \A t \in Carried : 2 * t.seq < SeqMod
           /\ \A h \in Node, i \in Id : node[h].peers[i] >= 0 =>
                  node[h].peers[i] \in Nat /\ 2 * node[h].peers[i] < SeqMod
<1>1. \A v \in Carried \cup Vouched : v.seq \in Nat
    BY CarriedWritten, Sizes DEF Vouched, Receipt, SeqNo
<1>2. \A v \in Carried \cup Vouched : 2 * v.seq < SeqMod
    BY <1>1, CountedBounds, Sizes DEF NumbersAreUsed
<1>3. ASSUME NEW h \in Node, NEW i \in Id, node[h].peers[i] >= 0
      PROVE  node[h].peers[i] \in Nat /\ 2 * node[h].peers[i] < SeqMod
    <2> DEFINE v == [src |-> i, seq |-> node[h].peers[i]]
    <2>1. node[h].peers[i] \in SeqNo
        BY <1>3, Sizes DEF Shape, Sound, NodeState, Unknown, SeqNo
    <2>2. v \in Vouched
        BY <2>1 DEF Vouched, Receipt, Keeps
    <2> QED
        BY <1>1, <1>2, <2>2
<1> QED
    BY <1>2, <1>3

\* A text that its receiver knows is not new to it (on_rx_unicast).
LEMMA KnownIsNotNew ==
    ASSUME Shape, IdsAreOwned, NumbersAreUsed, DeliveredIsKnown, NEW t \in Carried,
           t.msg \in delivered, NEW h \in Node, node[h].id = t.dst,
           NEW p \in Packet, p.src = t.src, p.seq = t.seq
    PROVE  ~Fresh(node[h], p)
<1> DEFINE k == node[h].peers[t.src]
<1>1. t.seq \in Nat /\ t.src \in Id
    BY CarriedWritten
<1>2. t.seq <= k /\ k \in Int
    BY <1>1, NodeNumbers DEF DeliveredIsKnown, Shape
<1>3. k \in Nat /\ 2 * k < SeqMod /\ 2 * t.seq < SeqMod
    BY <1>1, <1>2, Unwrapped
<1>4. ~(SeqCmp(t.seq, k) > 0)
    BY <1>1, <1>2, <1>3, SeqOrder
<1> QED
    BY <1>3, <1>4 DEF Fresh, Unknown, Silent

\* A packet on air: its receiver records a new text, whose number is then vouched
\* for, and other nodes keep or lose what they have.
LEMMA AirStep ==
    ASSUME Shape, Shape', SteadyInv, NEW n \in Node, Sent(n)
    PROVE  SteadyInv'
<1> SUFFICES ASSUME steady' PROVE SteadyInv'
    BY DEF SteadyInv
<1>1. PICK heard \in SUBSET (Node \ {n}), bad \in BOOLEAN : OnAir(n, heard, bad)
    BY DEF Sent
<1> DEFINE p == out[n]
           text == [src |-> p.src, seq |-> p.seq, dst |-> p.dst, msg |-> p.msg]
           receipt == [src |-> p.src, seq |-> p.seq]
<1>0. /\ IdsAreOwned /\ NumbersAreUsed /\ TextsAreUnique /\ VouchedIsDelivered /\ DeliveredIsKnown
      /\ acked \subseteq delivered /\ twice = {}
    BY <1>1 DEF SteadyInv, OnAir
<1>2. /\ p \in Packet /\ p # None /\ out'[n] = None /\ \A h \in Node \ {n} : out'[h] = out[h]
      /\ UNCHANGED <<enqueued, claimed, steady>>
    BY <1>1, AirNodes DEF OnAir, Shape
<1>3. \A h \in heard : h \in Node /\ Took(node[h], node'[h], p, bad)
    BY <1>1, AirNodes
<1>4. /\ node'[n].id = node[n].id /\ node'[n].peers = node[n].peers
      /\ node'[n].queue = node[n].queue /\ node'[n].next = node[n].next
      /\ \A k \in 1..Len(node'[n].ctrl) :
             \E j \in 1..Len(node[n].ctrl) : node'[n].ctrl[k] = node[n].ctrl[j]
    <2>1. node'[n] = Popped(node[n], p) /\ (IsCtrl(p) => node[n].ctrl # <<>>)
        BY <1>1, AirNodes
    <2>2. Sound(node[n])
        BY DEF Shape
    <2> HIDE DEF p
    <2> QED
        BY <2>1, <2>2, PopKeeps
<1>5. \A h \in Node : h # n /\ h \notin heard => node'[h] = node[h]
    <2>1. node' = [h \in Node |-> IF h = n THEN Popped(node[n], out[n])
                                  ELSE IF h \in heard THEN OnRx(node[h], out[n], bad) ELSE node[h]]
        BY <1>1 DEF OnAir
    <2> QED
        BY <2>1
<1>6. \A h \in Node : /\ node'[h].next = node[h].next /\ node'[h].id \in {node[h].id, NoId}
                      /\ \A j \in Slot : node'[h].queue[j] \in {node[h].queue[j], None}
    BY <1>3, <1>4, <1>5 DEF Took
<1>7. Carried' \subseteq Carried
    <2>1. \A h \in Node, t \in Text : Sends(out'[h], t) => Sends(out[h], t)
        BY <1>2 DEF Sends
    <2> QED
        BY <1>6, <2>1, CarriedStays
    \* what a new text means, at the node that records it
<1>8. ASSUME NEW h \in heard, New(node[h], p, bad)
      PROVE  /\ text \in Carried /\ text.src = p.src /\ text.seq = p.seq /\ text.msg = p.msg
             /\ text.dst = p.dst /\ node[h].id = p.dst /\ p.dst \in Id /\ Fresh(node[h], p)
             /\ receipt \in Receipt /\ node'[h].peers[p.src] = p.seq
    <2>1. /\ p.kind = "unicast" /\ Locked(node[h]) /\ p.dst = node[h].id /\ h \in Node
          /\ Fresh(node[h], p)
        BY <1>8 DEF New, ForMe
    <2>2. p.dst \in Id
        BY <2>1 DEF Locked, Shape, Sound
    <2>3. p.msg \in Msg /\ p.src \in Id /\ p.seq \in SeqNo
        BY <1>2, <2>1 DEF Shape, Written, Packet
    <2>4. text \in Text /\ receipt \in Receipt
        BY <2>2, <2>3 DEF Text, Receipt
    <2>5. Sends(p, text)
        BY <1>2, <2>1 DEF Sends
    <2>6. node'[h].peers[p.src] = p.seq
        BY <1>3, <1>8 DEF Took
    <2> QED
        BY <2>1, <2>2, <2>4, <2>5, <2>6 DEF Carried
<1>9. ASSUME NEW v \in Vouched'
      PROVE  v \in Vouched \/ (v = receipt /\ \E h \in heard : New(node[h], p, bad))
    <2> SUFFICES ASSUME v \notin Vouched, ~(v = receipt /\ \E h \in heard : New(node[h], p, bad))
                 PROVE  FALSE
        OBVIOUS
    <2>1. v \in Receipt /\ v.seq \in Nat /\ v.src \in Id
        BY Sizes DEF Vouched, Receipt, SeqNo
    <2>2. PICK h \in Node : Keeps(node'[h], v) \/ (out'[h] # None /\ Acks(out'[h], v))
        BY DEF Vouched
    <2>3. ~Keeps(node[h], v) /\ ~(out[h] # None /\ Acks(out[h], v))
        BY <2>1 DEF Vouched
    <2>4. Keeps(node'[h], v)
        BY <1>2, <2>2, <2>3
    <2>5. CASE h = n
        BY <1>4, <2>1, <2>3, <2>4, <2>5, KeepsStays
    <2>6. CASE h \in heard
        <3>1. Took(node[h], node'[h], p, bad)
            BY <1>3, <2>6
        <3>2. CASE New(node[h], p, bad)
            <4>1. v # receipt
                BY <2>6, <3>2
            <4>2. ~(v.src = p.src /\ v.seq = p.seq)
                BY <2>1, <4>1 DEF Receipt
            <4>3. \/ node'[h].peers[v.src] = node[h].peers[v.src]
                  \/ node'[h].peers[v.src] \in {Unknown, Silent}
                  \/ v.src = p.src /\ node'[h].peers[v.src] = p.seq
                BY <2>1, <3>1 DEF Took
            <4>4. node'[h].peers[v.src] # v.seq
                BY <2>1, <2>3, <4>2, <4>3 DEF Keeps, Unknown, Silent
            <4>5. PICK k \in 1..Len(node'[h].ctrl) : Acks(node'[h].ctrl[k], v)
                BY <2>4, <4>4 DEF Keeps
            <4>6. ~\E j \in 1..Len(node[h].ctrl) : node'[h].ctrl[k] = node[h].ctrl[j]
                BY <2>3, <4>5 DEF Keeps
            <4>7. node'[h].ctrl[k] = [kind |-> "ack", dst |-> p.src, seq |-> p.seq]
                BY <3>1, <4>5, <4>6 DEF Took, Acks
            <4> QED
                BY <4>2, <4>5, <4>7 DEF Acks
        <3>3. CASE ~New(node[h], p, bad)
            <4>1. \/ node'[h].peers[v.src] = node[h].peers[v.src]
                  \/ node'[h].peers[v.src] \in {Unknown, Silent}
                BY <2>1, <3>1, <3>3 DEF Took
            <4>2. node'[h].peers[v.src] # v.seq
                BY <2>1, <2>3, <4>1 DEF Keeps, Unknown, Silent
            <4>3. PICK k \in 1..Len(node'[h].ctrl) : Acks(node'[h].ctrl[k], v)
                BY <2>4, <4>2 DEF Keeps
            <4>4. ~\E j \in 1..Len(node[h].ctrl) : node'[h].ctrl[k] = node[h].ctrl[j]
                BY <2>3, <4>3 DEF Keeps
            <4>5. /\ node'[h].ctrl[k] = [kind |-> "ack", dst |-> p.src, seq |-> p.seq]
                  /\ node[h].peers[p.src] = p.seq
                BY <3>1, <3>3, <4>3, <4>4 DEF Took, Acks
            <4> QED
                BY <2>3, <4>3, <4>5 DEF Acks, Keeps
        <3> QED
            BY <3>2, <3>3
    <2>7. CASE h # n /\ h \notin heard
        BY <1>5, <2>3, <2>4, <2>7
    <2> QED
        BY <2>5, <2>6, <2>7
<1>10. /\ delivered \subseteq delivered'
       /\ (\E h \in heard : New(node[h], p, bad)) => delivered' = delivered \cup {p.msg}
       /\ ~(\E h \in heard : New(node[h], p, bad)) => delivered' = delivered
       /\ twice' = twice \cup (IF \E h \in heard : New(node[h], p, bad)
                               THEN delivered \cap {p.msg} ELSE {})
    <2>1. \A h \in heard : Records(h, p, bad) <=> New(node[h], p, bad)
        BY DEF Records, New
    <2>2. /\ delivered' = delivered \cup (IF \E h \in heard : Records(h, p, bad) THEN {p.msg} ELSE {})
          /\ twice' = twice \cup (delivered \cap (IF \E h \in heard : Records(h, p, bad)
                                                  THEN {p.msg} ELSE {}))
        BY <1>1 DEF OnAir
    <2> QED
        BY <2>1, <2>2
<1>11. acked' \subseteq delivered'
    <2>1. ASSUME NEW h \in heard, NEW x \in Settles(h, p) PROVE x \in delivered
        <3>1. p.kind = "ack" /\ Locked(node[h]) /\ p.dst = node[h].id /\ h \in Node
            BY <2>1 DEF Settles, ForMe
        <3>2. PICK j \in Slot : Matches(node[h], j, p.src, p.seq) /\ x = node[h].queue[j].msg
            BY <2>1, <3>1 DEF Settles, Found
        <3> DEFINE t == [src |-> node[h].id, seq |-> p.seq, dst |-> p.src, msg |-> x]
                   v == [src |-> p.dst, seq |-> p.seq]
        <3>3. node[h].queue[j] \in Pending /\ Queued(node[h], j) /\ node[h].id \in Id
            BY <3>1, <3>2 DEF Matches, Queued, Shape, Sound, NodeState, Locked
        <3>4. node[h].queue[j] = [dest |-> t.dst, seq |-> t.seq, msg |-> t.msg]
            BY <3>2, <3>3 DEF Matches, Pending
        <3>5. t \in Text
            BY <1>2, <3>2, <3>3 DEF Text, Packet, Pending
        <3>6. t \in Carried
            BY <3>1, <3>3, <3>4, <3>5 DEF Carried, QueueHas
        <3>7. v \in Vouched
            BY <1>2, <3>1, <3>3 DEF Vouched, Receipt, Acks, Packet
        <3>8. t.src = v.src /\ t.seq = v.seq /\ t.msg = x
            BY <3>1
        <3> QED
            BY <1>0, <3>6, <3>7, <3>8 DEF VouchedIsDelivered
    <2>2. acked' = acked \cup UNION {Settles(h, p) : h \in heard}
        BY <1>1 DEF OnAir
    <2> QED
        BY <1>0, <1>10, <2>1, <2>2
<1> HIDE DEF text, receipt
<1>12. \A h \in Node : node'[h].id # NoId => node'[h].id = node[h].id
    BY <1>6
<1>13. IdsAreOwned'
    <2>1. \A h \in Node : node'[h].id \in Id => node'[h].id = node[h].id
        BY <1>12, Sizes
    <2> QED
        BY <1>0, <1>2, <2>1 DEF IdsAreOwned
<1>14. NumbersAreUsed'
    <2>1. Counted' = Counted
        BY <1>2 DEF Counted
    <2>2. \A v \in Vouched' \cup Carried' :
              /\ v.src \in claimed /\ v.seq < Counted /\ v.src # NoId
              /\ \A h \in Node : node[h].id = v.src => v.seq < node[h].next
        <3> SUFFICES ASSUME NEW v \in Vouched' \cup Carried'
                     PROVE  /\ v.src \in claimed /\ v.seq < Counted /\ v.src # NoId
                            /\ \A h \in Node : node[h].id = v.src => v.seq < node[h].next
            OBVIOUS
        <3>1. v \in Vouched \cup Carried \/ (v = receipt /\ text \in Carried)
            BY <1>7, <1>8, <1>9
        <3>2. v.src # NoId
            BY Sizes DEF Vouched, Carried, Text, Receipt
        <3>3. CASE v \in Vouched \cup Carried
            BY <1>0, <3>2, <3>3 DEF NumbersAreUsed
        <3>4. CASE v = receipt /\ text \in Carried
            <4>1. v.src = text.src /\ v.seq = text.seq
                BY <3>4 DEF receipt, text
            <4> QED
                BY <1>0, <3>2, <3>4, <4>1 DEF NumbersAreUsed
        <3> QED
            BY <3>1, <3>3, <3>4
    <2> QED
        BY <1>0, <1>2, <1>6, <1>12, <2>1, <2>2 DEF NumbersAreUsed
<1>15. TextsAreUnique'
    BY <1>0, <1>7 DEF TextsAreUnique
<1>16. VouchedIsDelivered'
    <2> SUFFICES ASSUME NEW v \in Vouched', NEW t \in Carried', t.src = v.src, t.seq = v.seq
                 PROVE  t.msg \in delivered'
        BY DEF VouchedIsDelivered
    <2>1. t \in Carried
        BY <1>7
    <2>2. CASE v \in Vouched
        BY <1>0, <1>10, <2>1, <2>2 DEF VouchedIsDelivered
    <2>3. CASE v = receipt /\ \E h \in heard : New(node[h], p, bad)
        <3>1. text \in Carried /\ t.src = text.src /\ t.seq = text.seq /\ text.msg = p.msg
            BY <1>8, <2>3 DEF receipt
        <3>2. t.msg = p.msg
            BY <1>0, <2>1, <3>1 DEF TextsAreUnique
        <3> QED
            BY <1>10, <2>3, <3>2
    <2> QED
        BY <1>9, <2>2, <2>3
<1>17. DeliveredIsKnown'
    <2> SUFFICES ASSUME NEW t \in Carried', t.msg \in delivered'
                 PROVE  /\ t.dst \in claimed'
                        /\ \A h \in Node : node'[h].id = t.dst => t.seq <= node'[h].peers[t.src]
        BY DEF DeliveredIsKnown
    <2>1. t \in Carried /\ t.src \in Id /\ t.dst \in Id /\ t.dst # NoId /\ t.seq \in Nat
        BY <1>7, CarriedWritten, Sizes
    <2>2. CASE t.msg \in delivered
        <3>1. t.dst \in claimed'
            BY <1>0, <1>2, <2>1, <2>2 DEF DeliveredIsKnown
        <3>2. ASSUME NEW h \in Node, node'[h].id = t.dst
              PROVE  t.seq <= node'[h].peers[t.src]
            <4>1. node[h].id = t.dst
                BY <1>12, <2>1, <3>2
            <4>2. t.seq <= node[h].peers[t.src] /\ node[h].peers[t.src] \in Int
                BY <1>0, <2>1, <2>2, <4>1, NodeNumbers DEF DeliveredIsKnown, Shape
            <4>3. CASE node'[h].peers[t.src] = node[h].peers[t.src]
                BY <4>2, <4>3
            <4>4. CASE node'[h].peers[t.src] # node[h].peers[t.src]
                <5>1. h \in heard
                    BY <1>4, <1>5, <4>4
                <5>2. t.src = p.src /\ node'[h].peers[t.src] = p.seq /\ New(node[h], p, bad)
                    BY <1>3, <2>1, <4>2, <4>4, <5>1 DEF Took, Unknown
                <5> DEFINE k == node[h].peers[t.src]
                <5>3. k \in Nat /\ 2 * k < SeqMod
                    BY <1>0, <2>1, <4>2, Unwrapped
                <5>4. SeqCmp(p.seq, k) > 0
                    <6>1. Fresh(node[h], p)
                        BY <5>2 DEF New
                    <6> QED
                        BY <5>2, <5>3, <6>1 DEF Fresh, Unknown, Silent
                <5>5. p.seq \in Nat /\ 2 * p.seq < SeqMod
                    <6>1. text \in Carried /\ text.seq = p.seq
                        BY <1>8, <5>1, <5>2
                    <6> QED
                        BY <1>0, <6>1, CarriedWritten, Unwrapped
                <5>6. p.seq > k
                    BY <5>3, <5>4, <5>5, SeqOrder
                <5> QED
                    BY <2>1, <4>2, <5>2, <5>5, <5>6
            <4> QED
                BY <4>3, <4>4
        <3> QED
            BY <3>1, <3>2
    <2>3. CASE t.msg \notin delivered
        <3>1. PICK g \in heard : New(node[g], p, bad)
            BY <1>10, <2>3
        <3>2. t.msg = p.msg
            BY <1>10, <2>3, <3>1
        <3>3. /\ text \in Carried /\ text.src = p.src /\ text.seq = p.seq /\ text.msg = p.msg
              /\ text.dst = p.dst /\ node[g].id = p.dst /\ p.dst \in Id
              /\ node'[g].peers[p.src] = p.seq /\ g \in Node
            BY <1>8, <3>1
        <3>4. t = text
            BY <1>0, <2>1, <3>2, <3>3 DEF TextsAreUnique
        <3>5. t.dst \in claimed'
            BY <1>0, <1>2, <3>3, <3>4 DEF IdsAreOwned
        <3>6. ASSUME NEW h \in Node, node'[h].id = t.dst
              PROVE  t.seq <= node'[h].peers[t.src]
            <4>1. node[h].id = t.dst
                BY <1>12, <2>1, <3>6
            <4>2. h = g
                BY <1>0, <3>3, <3>4, <4>1 DEF IdsAreOwned
            <4> QED
                BY <2>1, <3>3, <3>4, <4>2
        <3> QED
            BY <3>5, <3>6
    <2> QED
        BY <2>2, <2>3
<1>18. twice' = {}
    <2>1. ASSUME NEW h \in heard, New(node[h], p, bad) PROVE p.msg \notin delivered
        <3>1. /\ text \in Carried /\ text.src = p.src /\ text.seq = p.seq /\ text.msg = p.msg
              /\ text.dst = p.dst /\ node[h].id = p.dst /\ Fresh(node[h], p) /\ h \in Node
            BY <1>8, <2>1
        <3> QED
            BY <1>0, <1>2, <3>1, KnownIsNotNew
    <2> QED
        BY <1>0, <1>10, <2>1
<1> QED
    BY <1>11, <1>13, <1>14, <1>15, <1>16, <1>17, <1>18 DEF SteadyInv

LEMMA SteadyStep ==
    ASSUME Shape, Shape', SteadyInv, [Next]_vars
    PROVE  SteadyInv'
<1>1. CASE UNCHANGED vars
    BY <1>1
    DEF vars, history, SteadyInv, IdsAreOwned, NumbersAreUsed, Counted, TextsAreUnique,
        VouchedIsDelivered, DeliveredIsKnown, Carried, Vouched
<1>2. ASSUME NEW n \in Node, MeshTask(n) \/ BleTask(n) \/ Sent(n) \/ Busy(n) \/ Restart(n)
                             \/ \E i \in Id : Forget(n, i)
      PROVE  SteadyInv'
    <2>1. CASE Beat(n) \/ Control(n) \/ (\E i \in Slot : Transmit(n, i)) \/ Busy(n)
        BY <2>1, BuildStep
    <2>2. CASE \/ \E i \in Slot : Expire(n, i)
               \/ Activate(n) \/ Deactivate(n) \/ Restart(n)
               \/ \E i \in Id : Forget(n, i)
        BY <2>2, NodeStep
    <2>3. CASE \E i \in Id : Claim(n, i)
        BY <2>3, ClaimStep
    <2>4. CASE \E m \in Msg, d \in Id : Enqueue(n, m, d)
        BY <2>4, EnqueueStep
    <2>5. CASE Sent(n)
        BY <2>5, AirStep
    <2> QED
        BY <1>2, <2>1, <2>2, <2>3, <2>4, <2>5 DEF MeshTask, BleTask
<1> QED
    BY <1>1, <1>2 DEF Next

-----------------------------------------------------------------------------
(* Theorems *)

\* The nodes keep their types, and what they carry and vouch for fits together.
THEOREM MeshInvariant == Spec => []IInv
<1>1. Init => IInv
    BY ShapeInit, SteadyInit DEF IInv
<1>2. IInv /\ [Next]_vars => IInv'
    BY ShapeStep, SteadyStep DEF IInv
<1> QED
    BY <1>1, <1>2, PTL DEF Spec

\* Every variable has its type, the control queue stays within its array, and
\* exactly a locked node has an id (lora_mesh.c).
THEOREM TypeCorrect == Spec => []TypeOK
<1>1. IInv => TypeOK
    BY DEF IInv, Shape, Sound, NodeState, TypeOK
<1> QED
    BY <1>1, MeshInvariant, PTL

\* As long as each id is claimed once, what a sender takes as acknowledged is in
\* its receiver's list (on_rx_ack, on_rx_unicast).
THEOREM AcknowledgedArrived == Spec => []AckedIsDelivered
<1>1. IInv => AckedIsDelivered
    BY DEF IInv, SteadyInv, AckedIsDelivered
<1> QED
    BY <1>1, MeshInvariant, PTL

\* Under the same condition no message is put into the list twice (on_rx_unicast,
\* seq_cmp).
THEOREM ArrivesOnce == Spec => []DeliveredOnce
<1>1. IInv => DeliveredOnce
    BY DEF IInv, SteadyInv, DeliveredOnce
<1> QED
    BY <1>1, MeshInvariant, PTL

=============================================================================
