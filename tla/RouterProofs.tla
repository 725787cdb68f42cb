---------------------------- MODULE RouterProofs ----------------------------
(***************************************************************************)
(* The reservation of a flow, the route of a connection and the proxies it *)
(* tries, for any number of flows, tasks, proxies, tries and openings.     *)
(***************************************************************************)
EXTENDS Router, SequenceTheorems, FiniteSetTheorems, TLAPS

Vias == Proxies \cup {Direct}
Packets ==
    [flow : Flows, kind : {"syn"}, isn : 1 .. MaxOpens]
    \cup [flow : Flows, kind : {"data", "end"}, isn : 0 .. MaxOpens]
Sockets ==
    [st : {"closed"}, isn : 0 .. MaxOpens]
    \cup [st : {"waiting", "open"}, isn : 1 .. MaxOpens]
Syns == [flow : Flows, kind : {"syn"}, isn : 1 .. MaxOpens]
Answers == [flow : Flows, kind : {"synack", "rst"}, isn : 1 .. MaxOpens]
Running ==
    [stage : {"connecting", "replacing", "opened", "failed"}, via : Vias,
     decision : {"proxy", "direct"}, attempt : 0 .. MaxTries, avoided : SUBSET Proxies,
     for : 1 .. MaxOpens]

\* The sockets, the two queues and the loop.
WireTypes ==
    /\ client \in [Flows -> Sockets]
    /\ device \in Seq(Packets)
    /\ answers \in Seq(Answers)
    /\ loop.at \in {"read", "reserve", "decide", "write", "drain", "ended"}
    /\ loop.at \in {"reserve", "decide"} => loop.packet \in Syns

\* What the tasks and the rest of the engine share.
TaskTypes ==
    /\ tasks \in [Flows -> [Slots -> Running \cup {NoTask}]]
    /\ pending \subseteq Flows
    /\ tracker \in [Flows -> Tunnels \cup {NoTunnel}]
    /\ active \in Vias /\ failing \subseteq Proxies

\* One holder for each reservation.
Holding(f) == loop.at = "decide" /\ loop.packet.flow = f
Reserved ==
    \A f \in Flows :
        /\ f \in pending <=> Holding(f) \/ Opening(f) # {}
        /\ \A s, t \in Opening(f) : s = t
        /\ Holding(f) => Opening(f) = {}

\* The way a connection takes is the one that was decided.
Honest(record) == record.via = Direct <=> record.decision = "direct"
Routed(record) == Honest(record) /\ (record.stage = "replacing" => record.via # Direct)
Straight ==
    /\ \A t \in Tasks : Task(t) # NoTask => Routed(Task(t))
    /\ \A f \in Flows : tracker[f] # NoTunnel => Honest(tracker[f])

\* Each try that failed is noted down, each under another name.
Counted(record) ==
    /\ IsFiniteSet(record.avoided)
    /\ Cardinality(record.avoided) = record.attempt
    /\ record.stage \in {"connecting", "opened"} => record.via \notin record.avoided
Tried == \A t \in Tasks : Task(t) # NoTask => Counted(Task(t))

IndInv == WireTypes /\ TaskTypes /\ Reserved /\ Straight /\ Tried

-----------------------------------------------------------------------------
(* Tasks.                                                                  *)

LEMMA Stages ==
    ASSUME NEW record \in Running \cup {NoTask}
    PROVE  /\ record = NoTask <=> record.stage = "none"
           /\ record # NoTask => record \in Running
  BY DEF Running, NoTask

\* What a step of one task does to the others.
LEMMA SetTask ==
    ASSUME TaskTypes, NEW t \in Tasks, NEW record \in Running \cup {NoTask},
           tasks' = Set(t, record)
    PROVE  /\ tasks' \in [Flows -> [Slots -> Running \cup {NoTask}]]
           /\ Task(t)' = record
           /\ \A u \in Tasks : u # t => Task(u)' = Task(u)
           /\ Task(t) \in Running \cup {NoTask}
  BY DEF TaskTypes, Tasks, Set, Task

LEMMA InitInv == RouterInit => IndInv
<1> SUFFICES ASSUME RouterInit PROVE IndInv
  OBVIOUS
<1>1. \A t \in Tasks : Task(t) = NoTask
  BY DEF RouterInit, Tasks, Task
<1>2. WireTypes
  BY RouterAssumption DEF RouterInit, WireTypes, Sockets, Idle
<1>3. TaskTypes
  BY RouterAssumption DEF RouterInit, TaskTypes, Vias
<1>4. \A f \in Flows : Opening(f) = {}
  BY DEF RouterInit, Opening, NoTask
<1>5. Reserved
  BY <1>4 DEF RouterInit, Reserved, Holding, Idle
<1>6. Straight /\ Tried
  BY <1>1 DEF RouterInit, Straight, Tried
<1> QED
  BY <1>2, <1>3, <1>5, <1>6 DEF IndInv

-----------------------------------------------------------------------------
(* The types of the wire.                                                  *)

LEMMA PacketType ==
    ASSUME WireTypes, NEW f \in Flows
    PROVE  /\ \A kind \in {"data", "end"} : Packet(f, kind) \in Packets
           /\ client[f].st = "waiting" => Packet(f, "syn") \in Packets
  BY DEF WireTypes, Packet, Packets, Sockets

LEMMA SocketType ==
    ASSUME WireTypes, NEW f \in Flows, client[f].st \in {"waiting", "open"},
           NEW st \in {"closed", "open"}, client' = [client EXCEPT ![f].st = st]
    PROVE  client' \in [Flows -> Sockets]
<1>1. client[f] \in Sockets /\ client[f].isn \in 1 .. MaxOpens
  BY DEF WireTypes, Sockets
<1>2. [client[f] EXCEPT !.st = st] = [st |-> st, isn |-> client[f].isn]
  BY <1>1 DEF Sockets
<1>3. [st |-> st, isn |-> client[f].isn] \in Sockets
  BY <1>1, RouterAssumption DEF Sockets
<1> QED
  BY <1>2, <1>3 DEF WireTypes

LEMMA ReceivesType ==
    ASSUME WireTypes, NEW f \in Flows, NEW kind, NEW isn, NEW queue \in Seq(Packets),
           Receives(f, kind, isn, queue)
    PROVE  device' \in Seq(Packets) /\ client' \in [Flows -> Sockets]
<1>1. Packet(f, "end") \in Packets
  BY PacketType
<1>2. <<Packet(f, "end")>> \in Seq(Packets) /\ <<>> \in Seq(Packets)
  BY <1>1
<1>3. PICK reply \in {<<>>, <<Packet(f, "end")>>} : device' = queue \o reply
  BY DEF Receives
<1>4. device' \in Seq(Packets)
  BY <1>2, <1>3, ConcatProperties
<1>5. CASE client' = client
  BY <1>4, <1>5 DEF WireTypes
<1>6. CASE /\ client[f].st = "waiting"
           /\ \E st \in {"closed", "open"} : client' = [client EXCEPT ![f].st = st]
  <2>1. PICK st \in {"closed", "open"} : client' = [client EXCEPT ![f].st = st]
    BY <1>6
  <2> QED
    BY <1>4, <1>6, <2>1, SocketType
<1> QED
  BY <1>5, <1>6 DEF Receives

LEMMA ArrivesType ==
    ASSUME WireTypes, NEW packet \in Packets, Arrives(packet)
    PROVE  device' \in Seq(Packets)
<1>1. Append(device, packet) \in Seq(Packets)
  BY AppendProperties DEF WireTypes
<1> QED
  BY <1>1 DEF Arrives, WireTypes

LEMMA ClientWire ==
    ASSUME WireTypes, NEW f \in Flows,
           Open(f) \/ Retransmit(f) \/ GiveUp(f) \/ SendData(f) \/ Close(f)
    PROVE  WireTypes'
<1>1. UNCHANGED <<answers, loop>>
  BY DEF Open, Retransmit, GiveUp, SendData, Close, task_vars
<1>2. client' \in [Flows -> Sockets]
  <2>1. CASE Open(f)
    <3>1. client[f] \in Sockets /\ client[f].isn + 1 \in 1 .. MaxOpens
      BY <2>1, RouterAssumption DEF Open, WireTypes, Sockets
    <3>2. [st |-> "waiting", isn |-> client[f].isn + 1] \in Sockets
      BY <3>1 DEF Sockets
    <3> QED
      BY <2>1, <3>2 DEF Open, WireTypes
  <2>2. CASE GiveUp(f) \/ Close(f)
    BY <2>2, SocketType DEF GiveUp, Close
  <2>3. CASE Retransmit(f) \/ SendData(f)
    BY <2>3 DEF Retransmit, SendData, WireTypes
  <2> QED
    BY <2>1, <2>2, <2>3
<1>3. device' \in Seq(Packets)
  <2>1. CASE Open(f)
    <3>1. [flow |-> f, kind |-> "syn", isn |-> client[f].isn + 1] \in Packets
      BY <2>1, RouterAssumption DEF Open, WireTypes, Packets, Sockets
    <3> QED
      BY <2>1, <3>1, ArrivesType DEF Open
  <2>2. CASE Retransmit(f)
    BY <2>2, PacketType, ArrivesType DEF Retransmit
  <2>3. CASE GiveUp(f)
    BY <2>3 DEF GiveUp, WireTypes
  <2>4. CASE SendData(f)
    BY <2>4, PacketType, ArrivesType DEF SendData
  <2>5. CASE Close(f)
    BY <2>5, PacketType, ArrivesType DEF Close
  <2> QED
    BY <2>1, <2>2, <2>3, <2>4, <2>5
<1> QED
  BY <1>1, <1>2, <1>3 DEF WireTypes

LEMMA LoopWire ==
    ASSUME WireTypes, TaskTypes, LoopStep
    PROVE  WireTypes'
<1>1. ASSUME device # <<>>
      PROVE  Head(device) \in Packets /\ Tail(device) \in Seq(Packets)
  BY <1>1, HeadTailProperties DEF WireTypes
<1>2. CASE ReadSyn
  <2>1. device # <<>> /\ Head(device).kind = "syn"
    BY <1>2 DEF ReadSyn
  <2>2. Head(device) \in Syns /\ Tail(device) \in Seq(Packets)
    BY <1>1, <2>1 DEF Packets, Syns
  <2>3. CASE /\ Receives(Head(device).flow, "synack", tracker[Head(device).flow].for, Tail(device))
             /\ loop' = [at |-> "drain"]
    <3>1. Head(device).flow \in Flows
      BY <2>2 DEF Syns
    <3>2. device' \in Seq(Packets) /\ client' \in [Flows -> Sockets]
      BY <2>2, <2>3, <3>1, ReceivesType
    <3> QED
      BY <1>2, <2>3, <3>2 DEF ReadSyn, WireTypes, task_vars
  <2>4. CASE /\ loop' = [at |-> "reserve", packet |-> Head(device)]
             /\ device' = Tail(device)
             /\ UNCHANGED client
    BY <1>2, <2>2, <2>4 DEF ReadSyn, WireTypes, task_vars
  <2> QED
    BY <1>2, <2>3, <2>4 DEF ReadSyn
<1>3. CASE HandleData
  <2>1. device' \in Seq(Packets) /\ UNCHANGED <<client, answers>>
    BY <1>1, <1>3 DEF HandleData, task_vars
  <2>2. loop'.at \in {"write", "drain"}
    BY <1>3 DEF HandleData
  <2> QED
    BY <2>1, <2>2 DEF WireTypes
<1>4. CASE Reserve
  BY <1>4 DEF Reserve, WireTypes, client_vars
<1>5. CASE Dispatch
  <2>1. [flow |-> loop.packet.flow, kind |-> "rst", isn |-> loop.packet.isn] \in Answers
    BY <1>5 DEF Dispatch, WireTypes, Syns, Answers
  <2>2. answers' \in Seq(Answers)
    BY <1>5, <2>1, AppendProperties DEF Dispatch, WireTypes
  <2> QED
    BY <1>5, <2>2 DEF Dispatch, WireTypes, client_vars
<1>6. CASE Drain
  <2>1. Head(answers) \in Answers /\ Tail(answers) \in Seq(Answers)
    BY <1>6, HeadTailProperties DEF Drain, WireTypes
  <2>2. Head(answers).flow \in Flows
    BY <2>1 DEF Answers
  <2>3. device' \in Seq(Packets) /\ client' \in [Flows -> Sockets]
    BY <1>6, <2>2, ReceivesType DEF Drain, WireTypes
  <2> QED
    BY <1>6, <2>1, <2>3 DEF Drain, WireTypes
<1>7. CASE Pump
  <2>1. PICK strangers \in SUBSET Flows :
          \E order \in SetToSeqs(strangers) :
             device' = device \o [i \in 1 .. Cardinality(strangers) |-> Packet(order[i], "end")]
    BY <1>7 DEF Pump
  <2>2. PICK order \in SetToSeqs(strangers) :
             device' = device \o [i \in 1 .. Cardinality(strangers) |-> Packet(order[i], "end")]
    BY <2>1
  <2>3. Cardinality(strangers) \in Nat
    BY RouterAssumption, FS_Subset, FS_CardinalityType
  <2>4. order \in [1 .. Cardinality(strangers) -> strangers]
    BY DEF SetToSeqs
  <2>5. \A i \in 1 .. Cardinality(strangers) : Packet(order[i], "end") \in Packets
    BY <2>4, PacketType
  <2>6. [i \in 1 .. Cardinality(strangers) |-> Packet(order[i], "end")] \in Seq(Packets)
    BY <2>3, <2>5, IsASeq
  <2>7. device' \in Seq(Packets)
    BY <2>2, <2>6, ConcatProperties DEF WireTypes
  <2> QED
    BY <1>7, <2>7 DEF Pump, WireTypes, Idle, task_vars
<1>8. CASE EndWrite
  BY <1>8 DEF EndWrite, WireTypes, client_vars, task_vars
<1>9. CASE EndLoop
  BY <1>9 DEF EndLoop, WireTypes
<1> QED
  BY <1>2, <1>3, <1>4, <1>5, <1>6, <1>7, <1>8, <1>9 DEF LoopStep, Forward

LEMMA TaskWire ==
    ASSUME WireTypes, TaskTypes, NEW t \in Tasks, TaskStep(t)
    PROVE  WireTypes'
<1>1. UNCHANGED <<client, device, loop>>
  BY DEF TaskStep, Connects, Fails, Replace, Track, Refuse, client_vars
<1>2. CASE UNCHANGED answers
  BY <1>1, <1>2 DEF WireTypes
<1>3. CASE Track(t) \/ Refuse(t)
  <2>1. Task(t) \in Running \cup {NoTask} /\ t[1] \in Flows
    BY DEF TaskTypes, Tasks, Task
  <2>2. Task(t) \in Running
    BY <1>3, <2>1 DEF Track, Refuse, NoTask
  <2>3. \A kind \in {"synack", "rst"} :
           [flow |-> t[1], kind |-> kind, isn |-> Task(t).for] \in Answers
    BY <2>1, <2>2 DEF Running, Answers
  <2>4. PICK kind \in {"synack", "rst"} :
           Respond([flow |-> t[1], kind |-> kind, isn |-> Task(t).for])
    BY <1>3 DEF Track, Refuse
  <2>5. answers' \in Seq(Answers)
    <3> DEFINE answer == [flow |-> t[1], kind |-> kind, isn |-> Task(t).for]
    <3>1. Append(answers, answer) \in Seq(Answers)
      BY <2>3, AppendProperties DEF WireTypes
    <3> QED
      BY <2>4, <3>1 DEF Respond, WireTypes
  <2> QED
    BY <1>1, <2>5 DEF WireTypes
<1> QED
  BY <1>2, <1>3 DEF TaskStep, Connects, Fails, Replace

-----------------------------------------------------------------------------
(* Steps that leave the tasks alone.                                       *)

LEMMA OpeningIs ==
    ASSUME NEW f \in Flows
    PROVE  Opening(f) = {s \in Slots : Task(<<f, s>>).stage \in {"connecting", "replacing"}}
  BY DEF Opening, Task

\* The loop is not about to open a tunnel, before and after.
LEMMA Undisturbed ==
    ASSUME Reserved, Straight, Tried, UNCHANGED <<tasks, pending>>,
           \A f \in Flows : tracker'[f] \in {tracker[f], NoTunnel},
           loop' = loop \/ (loop.at # "decide" /\ loop'.at # "decide")
    PROVE  Reserved' /\ Straight' /\ Tried'
<1>1. \A f \in Flows : Opening(f)' = Opening(f)
  BY DEF Opening
<1>2. \A f \in Flows : Holding(f)' <=> Holding(f)
  BY DEF Holding
<1>3. Reserved'
  BY <1>1, <1>2 DEF Reserved
<1>4. \A t \in Tasks : Task(t)' = Task(t)
  BY DEF Task
<1>5. Straight' /\ Tried'
  BY <1>4 DEF Straight, Tried
<1> QED
  BY <1>3, <1>5

\* The wire, the clients and the engine.
LEMMA OthersInv ==
    ASSUME IndInv,
           \/ \E f \in Flows : Open(f) \/ Retransmit(f) \/ GiveUp(f) \/ SendData(f) \/ Close(f)
           \/ Engine
           \/ UNCHANGED router_vars
    PROVE  IndInv'
<1>1. UNCHANGED <<tasks, pending, tracker, loop>>
  BY DEF Open, Retransmit, GiveUp, SendData, Close, Engine, router_vars, task_vars
<1>2. WireTypes'
  <2>1. CASE \E f \in Flows : Open(f) \/ Retransmit(f) \/ GiveUp(f) \/ SendData(f) \/ Close(f)
    BY <2>1, ClientWire DEF IndInv
  <2>2. CASE UNCHANGED <<client, device, answers, loop>>
    BY <2>2 DEF IndInv, WireTypes
  <2> QED
    BY <2>1, <2>2 DEF Engine, router_vars, client_vars, task_vars
<1>3. active' \in Vias /\ failing' \subseteq Proxies
  BY DEF IndInv, TaskTypes, Vias, Open, Retransmit, GiveUp, SendData, Close, Engine, SetRouted,
         Learn, SelectProxy, ProveWorking, router_vars, engine_vars
<1>4. TaskTypes'
  BY <1>1, <1>3 DEF IndInv, TaskTypes
<1>5. Reserved' /\ Straight' /\ Tried'
  BY <1>1, Undisturbed DEF IndInv
<1> QED
  BY <1>2, <1>4, <1>5 DEF IndInv

-----------------------------------------------------------------------------
(* One task.                                                               *)

LEMMA InTasks ==
    ASSUME NEW t \in Tasks
    PROVE  /\ t[1] \in Flows /\ t[2] \in Slots
           /\ \A s \in Slots : <<t[1], s>> \in Tasks /\ (<<t[1], s>> = t <=> s = t[2])
           /\ \A f \in Flows, s \in Slots : f # t[1] => <<f, s>> \in Tasks /\ <<f, s>> # t
  BY DEF Tasks

\* What a step of one task does to the tasks of a flow that are opening.
LEMMA OpeningAfter ==
    ASSUME TaskTypes, NEW t \in Tasks, NEW record \in Running \cup {NoTask},
           tasks' = Set(t, record)
    PROVE  /\ \A f \in Flows : f # t[1] => Opening(f)' = Opening(f)
           /\ Opening(t[1])' = IF record.stage \in {"connecting", "replacing"}
                               THEN Opening(t[1]) \cup {t[2]} ELSE Opening(t[1]) \ {t[2]}
           /\ t[2] \in Opening(t[1]) <=> Task(t).stage \in {"connecting", "replacing"}
<1>1. \A f \in Flows : /\ Opening(f) = {s \in Slots : Task(<<f, s>>).stage \in {"connecting", "replacing"}}
                       /\ Opening(f)' = {s \in Slots : Task(<<f, s>>)'.stage \in {"connecting", "replacing"}}
  BY DEF Opening, Task
<1>2. ASSUME NEW f \in Flows, f # t[1]
      PROVE  Opening(f)' = Opening(f)
  <2>1. \A s \in Slots : Task(<<f, s>>)' = Task(<<f, s>>)
    BY <1>2, SetTask, InTasks
  <2> QED
    BY <1>1, <2>1
<1>3. \A s \in Slots : s # t[2] => Task(<<t[1], s>>)' = Task(<<t[1], s>>)
  BY SetTask, InTasks
<1>4. Task(<<t[1], t[2]>>)' = record /\ <<t[1], t[2]>> = t
  BY SetTask, InTasks
<1>5. t[1] \in Flows /\ t[2] \in Slots
  BY InTasks
<1> QED
  BY <1>1, <1>2, <1>3, <1>4, <1>5

\* A task that goes on, or that had given its reservation back.
LEMMA KeepsReservation ==
    ASSUME TaskTypes, Reserved, NEW t \in Tasks, NEW record \in Running \cup {NoTask},
           tasks' = Set(t, record), UNCHANGED <<pending, loop>>,
           record.stage \in {"connecting", "replacing"}
              <=> Task(t).stage \in {"connecting", "replacing"}
    PROVE  Reserved'
<1>1. \A f \in Flows : Opening(f)' = Opening(f)
  BY OpeningAfter
<1>2. \A f \in Flows : Holding(f)' <=> Holding(f)
  BY DEF Holding
<1> QED
  BY <1>1, <1>2 DEF Reserved

\* A task that is done gives it back.
LEMMA ReturnsReservation ==
    ASSUME TaskTypes, Reserved, NEW t \in Tasks, NEW record \in Running \cup {NoTask},
           tasks' = Set(t, record), UNCHANGED loop, pending' = pending \ {t[1]},
           Task(t).stage \in {"connecting", "replacing"},
           record.stage \notin {"connecting", "replacing"}
    PROVE  Reserved'
<1>1. t[1] \in Flows /\ t[2] \in Opening(t[1])
  BY OpeningAfter, InTasks
<1>2. Opening(t[1])' = Opening(t[1]) \ {t[2]} /\ \A f \in Flows : f # t[1] => Opening(f)' = Opening(f)
  BY OpeningAfter
<1>3. Opening(t[1])' = {}
  BY <1>1, <1>2 DEF Reserved
<1>4. \A f \in Flows : Holding(f)' <=> Holding(f)
  BY DEF Holding
<1>5. ~Holding(t[1])
  BY <1>1 DEF Reserved
<1>6. ASSUME NEW f \in Flows, f # t[1]
      PROVE  /\ (f \in pending)' <=> (Holding(f) \/ Opening(f) # {})'
             /\ (\A r, s \in Opening(f) : r = s)'
             /\ (Holding(f) => Opening(f) = {})'
  <2>1. Opening(f)' = Opening(f) /\ (Holding(f)' <=> Holding(f))
    BY <1>2, <1>4, <1>6
  <2>2. f \in pending' <=> f \in pending
    BY <1>6
  <2> QED
    BY <2>1, <2>2 DEF Reserved
<1>7. t[1] \notin pending' /\ ~Holding(t[1])'
  BY <1>1, <1>4, <1>5
<1> QED
  BY <1>3, <1>6, <1>7 DEF Reserved

\* Where the record goes and what it says of its tries.
LEMMA KeepsRecords ==
    ASSUME TaskTypes, Straight, Tried, NEW t \in Tasks, NEW record \in Running \cup {NoTask},
           tasks' = Set(t, record),
           record # NoTask => Routed(record) /\ Counted(record),
           \A f \in Flows : tracker'[f] = tracker[f] \/ Honest(tracker'[f])
    PROVE  Straight' /\ Tried'
<1>1. \A u \in Tasks : Task(u)' = Task(u) \/ (u = t /\ Task(u)' = record)
  BY SetTask
<1> QED
  BY <1>1 DEF Straight, Tried

LEMMA RunningIs ==
    ASSUME TaskTypes, NEW t \in Tasks, Task(t).stage # "none"
    PROVE  Task(t) \in Running /\ Task(t) # NoTask
<1>1. Task(t) \in Running \cup {NoTask}
  BY DEF TaskTypes, Tasks, Task
<1> QED
  BY <1>1 DEF NoTask

\* Connects, and every way to fail, leave the record as it is but for its stage.
LEMMA LeaveInv ==
    ASSUME TaskTypes, Reserved, Straight, Tried, NEW t \in Tasks,
           Task(t).stage \in {"connecting", "replacing"}, NEW stage \in {"opened", "failed"},
           stage = "opened" => Task(t).stage = "connecting",
           Leave(t, stage), UNCHANGED <<loop, tracker>>, active' \in Vias, failing' \subseteq Proxies
    PROVE  TaskTypes' /\ Reserved' /\ Straight' /\ Tried'
<1> DEFINE record == [Task(t) EXCEPT !.stage = stage]
<1>1. Task(t) \in Running /\ Task(t) # NoTask
  BY RunningIs
<1>2. record \in Running
  BY <1>1 DEF Running
<1>3. /\ record.stage = stage /\ record.via = Task(t).via /\ record.decision = Task(t).decision
      /\ record.avoided = Task(t).avoided /\ record.attempt = Task(t).attempt
  BY <1>1 DEF Running
<1>4. Routed(record) /\ Counted(record)
  BY <1>1, <1>3 DEF Straight, Tried, Routed, Honest, Counted
<1>5. tasks' = Set(t, record) /\ pending' = pending \ {t[1]}
  BY DEF Leave
<1> HIDE DEF record
<1>6. TaskTypes'
  BY <1>2, <1>5, SetTask DEF TaskTypes
<1>7. Reserved'
  BY <1>2, <1>3, <1>5, ReturnsReservation
<1>8. Straight' /\ Tried'
  BY <1>2, <1>4, <1>5, KeepsRecords
<1> QED
  BY <1>6, <1>7, <1>8

\* Another proxy is to be asked, or one is.
LEMMA GoesOnInv ==
    ASSUME TaskTypes, Reserved, Straight, Tried, NEW t \in Tasks,
           Task(t).stage \in {"connecting", "replacing"},
           NEW record \in Running, record.stage \in {"connecting", "replacing"},
           Routed(record), Counted(record), tasks' = Set(t, record),
           UNCHANGED <<loop, tracker, pending>>, active' \in Vias, failing' \subseteq Proxies
    PROVE  TaskTypes' /\ Reserved' /\ Straight' /\ Tried'
<1>1. TaskTypes'
  BY SetTask DEF TaskTypes
<1>2. Reserved'
  BY KeepsReservation
<1>3. Straight' /\ Tried'
  BY KeepsRecords
<1> QED
  BY <1>1, <1>2, <1>3

LEMMA FailsInv ==
    ASSUME TaskTypes, Reserved, Straight, Tried, NEW t \in Tasks, Fails(t)
    PROVE  TaskTypes' /\ Reserved' /\ Straight' /\ Tried'
<1>1. Task(t).stage = "connecting" /\ UNCHANGED <<loop, tracker, active>>
  BY DEF Fails
<1>2. Task(t) \in Running /\ Task(t) # NoTask
  BY <1>1, RunningIs
<1>3. Routed(Task(t)) /\ Counted(Task(t)) /\ active \in Vias /\ failing \subseteq Proxies
  BY <1>2 DEF TaskTypes, Straight, Tried
<1>4. CASE Leave(t, "failed") /\ UNCHANGED failing
  BY <1>1, <1>3, <1>4, LeaveInv
<1>5. CASE /\ ~(Task(t).via = Direct \/ Task(t).attempt >= MaxTries)
           /\ failing' = failing \cup {Task(t).via}
           /\ tasks' = Set(t, [Task(t) EXCEPT !.stage = "replacing", !.attempt = @ + 1,
                                              !.avoided = @ \cup {Task(t).via}])
           /\ UNCHANGED pending
  <2> DEFINE record == [Task(t) EXCEPT !.stage = "replacing", !.attempt = @ + 1,
                                       !.avoided = @ \cup {Task(t).via}]
  <2>1. Task(t).via \in Proxies /\ Task(t).attempt + 1 \in 0 .. MaxTries
    BY <1>2, <1>5, RouterAssumption DEF Running, Vias
  <2>2. /\ record.stage = "replacing" /\ record.via = Task(t).via
        /\ record.decision = Task(t).decision /\ record.for = Task(t).for
        /\ record.attempt = Task(t).attempt + 1
        /\ record.avoided = Task(t).avoided \cup {Task(t).via}
    BY <1>2 DEF Running
  <2>3. record \in Running
    BY <1>2, <2>1 DEF Running
  <2>4. Routed(record)
    BY <1>3, <1>5, <2>2 DEF Routed, Honest
  <2>5. Counted(record)
    <3>1. Task(t).via \notin Task(t).avoided /\ IsFiniteSet(Task(t).avoided)
      BY <1>1, <1>3 DEF Counted
    <3>2. /\ IsFiniteSet(Task(t).avoided \cup {Task(t).via})
          /\ Cardinality(Task(t).avoided \cup {Task(t).via}) = Cardinality(Task(t).avoided) + 1
      BY <3>1, FS_AddElement
    <3> QED
      BY <1>3, <2>2, <3>2 DEF Counted
  <2>6. tasks' = Set(t, record) /\ failing' \subseteq Proxies
    BY <1>3, <1>5, <2>1
  <2> HIDE DEF record
  <2> QED
    BY <1>1, <1>3, <1>5, <2>2, <2>3, <2>4, <2>5, <2>6, GoesOnInv
<1> QED
  BY <1>4, <1>5 DEF Fails

LEMMA ReplaceInv ==
    ASSUME TaskTypes, Reserved, Straight, Tried, NEW t \in Tasks, Replace(t)
    PROVE  TaskTypes' /\ Reserved' /\ Straight' /\ Tried'
<1>1. Task(t).stage = "replacing" /\ UNCHANGED <<loop, tracker, failing>>
  BY DEF Replace
<1>2. Task(t) \in Running /\ Task(t) # NoTask
  BY <1>1, RunningIs
<1>3. Routed(Task(t)) /\ Counted(Task(t)) /\ active \in Vias /\ failing \subseteq Proxies
  BY <1>2 DEF TaskTypes, Straight, Tried
<1>4. CASE Leave(t, "failed") /\ UNCHANGED active
  BY <1>1, <1>3, <1>4, LeaveInv
<1>5. CASE \E p \in Proxies \ (Task(t).avoided \cup failing) :
             /\ active' = p
             /\ tasks' = Set(t, [Task(t) EXCEPT !.stage = "connecting", !.via = p])
             /\ UNCHANGED pending
  <2>1. PICK p \in Proxies \ (Task(t).avoided \cup failing) :
             /\ active' = p
             /\ tasks' = Set(t, [Task(t) EXCEPT !.stage = "connecting", !.via = p])
             /\ UNCHANGED pending
    BY <1>5
  <2> DEFINE record == [Task(t) EXCEPT !.stage = "connecting", !.via = p]
  <2>2. /\ record.stage = "connecting" /\ record.via = p
        /\ record.decision = Task(t).decision /\ record.for = Task(t).for
        /\ record.attempt = Task(t).attempt /\ record.avoided = Task(t).avoided
    BY <1>2 DEF Running
  <2>3. record \in Running
    BY <1>2 DEF Running, Vias
  <2>4. Routed(record) /\ Counted(record)
    BY <1>1, <1>3, <2>1, <2>2, RouterAssumption DEF Routed, Honest, Counted
  <2>5. tasks' = Set(t, record) /\ active' \in Vias
    BY <2>1 DEF Vias
  <2> HIDE DEF record
  <2> QED
    BY <1>1, <1>3, <2>1, <2>2, <2>3, <2>4, <2>5, GoesOnInv
<1> QED
  BY <1>4, <1>5 DEF Replace

LEMMA EndsInv ==
    ASSUME TaskTypes, Reserved, Straight, Tried, NEW t \in Tasks, Track(t) \/ Refuse(t)
    PROVE  TaskTypes' /\ Reserved' /\ Straight' /\ Tried'
<1>1. /\ Task(t).stage \in {"opened", "failed"} /\ tasks' = Set(t, NoTask)
      /\ UNCHANGED <<loop, pending, active, failing>>
  BY DEF Track, Refuse, engine_vars
<1>2. Task(t) \in Running /\ Task(t) # NoTask /\ t[1] \in Flows
  BY <1>1, RunningIs, InTasks
<1>3. NoTask.stage = "none"
  BY DEF NoTask
<1>4. Reserved'
  BY <1>1, <1>3, KeepsReservation
<1>5. /\ tracker' \in [Flows -> Tunnels \cup {NoTunnel}]
      /\ \A f \in Flows : tracker'[f] = tracker[f] \/ Honest(tracker'[f])
  <2> DEFINE tunnel == [for |-> Task(t).for, via |-> Task(t).via, decision |-> Task(t).decision]
  <2>1. tunnel \in Tunnels
    BY <1>2 DEF Running, Tunnels, Vias
  <2>2. Honest(tunnel)
    BY <1>2 DEF Straight, Routed, Honest
  <2>3. CASE Track(t)
    <3>1. tracker' = [tracker EXCEPT ![t[1]] = tunnel]
      BY <2>3 DEF Track
    <3> HIDE DEF tunnel
    <3> QED
      BY <1>2, <2>1, <2>2, <3>1 DEF TaskTypes
  <2>4. CASE Refuse(t)
    BY <2>4 DEF Refuse, TaskTypes
  <2> QED
    BY <2>3, <2>4
<1>6. Straight' /\ Tried'
  BY <1>1, <1>5, KeepsRecords
<1>7. TaskTypes'
  BY <1>1, <1>5, SetTask DEF TaskTypes
<1> QED
  BY <1>4, <1>6, <1>7

LEMMA TaskInv ==
    ASSUME IndInv, NEW t \in Tasks, TaskStep(t)
    PROVE  IndInv'
<1>1. WireTypes'
  BY TaskWire DEF IndInv
<1>2. CASE Connects(t)
  <2>1. /\ Task(t).stage = "connecting" /\ Leave(t, "opened")
        /\ UNCHANGED <<loop, tracker, active, failing>>
    BY <1>2 DEF Connects, engine_vars
  <2>2. active' \in Vias /\ failing' \subseteq Proxies
    BY <2>1 DEF IndInv, TaskTypes
  <2>3. TaskTypes' /\ Reserved' /\ Straight' /\ Tried'
    BY <2>1, <2>2, LeaveInv DEF IndInv
  <2> QED
    BY <1>1, <2>3 DEF IndInv
<1>3. CASE Fails(t)
  BY <1>1, <1>3, FailsInv DEF IndInv
<1>4. CASE Replace(t)
  BY <1>1, <1>4, ReplaceInv DEF IndInv
<1>5. CASE Track(t) \/ Refuse(t)
  BY <1>1, <1>5, EndsInv DEF IndInv
<1> QED
  BY <1>2, <1>3, <1>4, <1>5 DEF TaskStep

-----------------------------------------------------------------------------
(* The forwarding loop.                                                    *)

LEMMA LoopPlaces ==
    ASSUME WireTypes
    PROVE  loop.at = "decide" => loop.packet.flow \in Flows /\ loop.packet.isn \in 1 .. MaxOpens
  BY DEF WireTypes, Syns

\* The loop takes the reservation only when nobody has it.
LEMMA ReserveInv ==
    ASSUME IndInv, Reserve
    PROVE  TaskTypes' /\ Reserved' /\ Straight' /\ Tried'
<1>0. PICK f \in Flows : loop.at = "reserve" => f = loop.packet.flow
  BY DEF Reserve, IndInv, WireTypes, Syns
<1>1. /\ loop.at = "reserve" /\ f = loop.packet.flow
      /\ UNCHANGED <<tracker, tasks, active, failing>>
  BY <1>0 DEF Reserve, engine_vars
<1>2. CASE f \in pending /\ loop' = [at |-> "drain"] /\ UNCHANGED pending
  <2>1. Reserved' /\ Straight' /\ Tried'
    BY <1>1, <1>2, Undisturbed DEF IndInv
  <2> QED
    BY <1>1, <1>2, <2>1 DEF IndInv, TaskTypes
<1>3. CASE /\ f \notin pending /\ pending' = pending \cup {f}
           /\ loop' = [at |-> "decide", packet |-> loop.packet, host |-> names[DstOf[f]]]
  <2>1. \A g \in Flows : Opening(g)' = Opening(g)
    BY <1>1 DEF Opening
  <2>2. \A g \in Flows : ~Holding(g) /\ (Holding(g)' <=> g = f)
    BY <1>1, <1>3 DEF Holding
  <2>3. Reserved'
    BY <1>3, <2>1, <2>2 DEF IndInv, Reserved
  <2>4. \A t \in Tasks : Task(t)' = Task(t)
    BY <1>1 DEF Task
  <2>5. Straight' /\ Tried'
    BY <1>1, <2>4 DEF IndInv, Straight, Tried
  <2>6. TaskTypes'
    BY <1>1, <1>3 DEF IndInv, TaskTypes
  <2> QED
    BY <2>3, <2>5, <2>6
<1> QED
  BY <1>1, <1>2, <1>3 DEF Reserve

\* The reservation ends with a refusal or passes to the new task.
LEMMA DispatchInv ==
    ASSUME IndInv, Dispatch
    PROVE  TaskTypes' /\ Reserved' /\ Straight' /\ Tried'
<1>0. PICK f \in Flows : f = loop.packet.flow
  BY LoopPlaces DEF Dispatch, IndInv
<1> DEFINE decision == Decision(f, loop.host)
           via == IF decision = "direct" THEN Direct ELSE active
           record(s) == [stage |-> "connecting", via |-> via, decision |-> decision,
                         attempt |-> 0, avoided |-> {}, for |-> loop.packet.isn]
<1>1. /\ Holding(f) /\ loop.packet.isn \in 1 .. MaxOpens
      /\ loop' = [at |-> "drain"]
      /\ UNCHANGED <<tracker, active, failing>>
  BY <1>0, LoopPlaces DEF Dispatch, Holding, IndInv, engine_vars
<1>2. Opening(f) = {} /\ \A g \in Flows : (Holding(g) <=> g = f) /\ ~Holding(g)'
  BY <1>1 DEF IndInv, Reserved, Holding
<1>3. decision \in {"proxy", "direct"}
  BY DEF Decision, Decide
<1>4. CASE UNCHANGED tasks /\ pending' = pending \ {f}
  <2>1. \A g \in Flows : Opening(g)' = Opening(g)
    BY <1>4 DEF Opening
  <2>2. Reserved'
    BY <1>2, <1>4, <2>1 DEF IndInv, Reserved
  <2>3. \A t \in Tasks : Task(t)' = Task(t)
    BY <1>4 DEF Task
  <2>4. Straight' /\ Tried' /\ TaskTypes'
    BY <1>1, <1>4, <2>3 DEF IndInv, Straight, Tried, TaskTypes
  <2> QED
    BY <2>2, <2>4
<1>5. CASE /\ ~(decision = "proxy" /\ active = Direct)
           /\ \E s \in Slots : tasks[f][s] = NoTask /\ tasks' = Set(<<f, s>>, record(s))
           /\ UNCHANGED pending
  <2>1. PICK s \in Slots : tasks[f][s] = NoTask /\ tasks' = Set(<<f, s>>, record(s))
    BY <1>5
  <2> DEFINE t == <<f, s>>
  <2>2. t \in Tasks /\ t[1] = f /\ t[2] = s
    BY <1>1 DEF Tasks
  <2>3. via \in Vias /\ (via = Direct <=> decision = "direct")
    BY <1>3, <1>5 DEF IndInv, TaskTypes, Vias
  <2>4. record(s) \in Running
    BY <1>1, <1>3, <2>3, RouterAssumption DEF Running
  <2>5. record(s).stage = "connecting" /\ Routed(record(s)) /\ Counted(record(s))
    BY <2>3, FS_EmptySet DEF Routed, Honest, Counted
  <2> HIDE DEF record, t
  <2>6. tasks' = Set(t, record(s))
    BY <2>1 DEF t
  <2>7. Opening(f)' = {s} /\ \A g \in Flows : g # f => Opening(g)' = Opening(g)
    <3>1. /\ \A g \in Flows : g # t[1] => Opening(g)' = Opening(g)
          /\ Opening(t[1])' = Opening(t[1]) \cup {t[2]}
      BY <2>2, <2>4, <2>5, <2>6, OpeningAfter DEF IndInv
    <3> QED
      BY <1>2, <2>2, <3>1
  <2>8. Reserved'
    <3>1. f \in pending'
      BY <1>1, <1>5 DEF IndInv, Reserved
    <3>2. ASSUME NEW g \in Flows, g # f
          PROVE  /\ (g \in pending)' <=> (Holding(g) \/ Opening(g) # {})'
                 /\ (\A q, r \in Opening(g) : q = r)'
                 /\ (Holding(g) => Opening(g) = {})'
      <4>1. Opening(g)' = Opening(g) /\ ~Holding(g)' /\ ~Holding(g) /\ pending' = pending
        BY <1>2, <1>5, <2>7, <3>2
      <4> QED
        BY <4>1 DEF IndInv, Reserved
    <3>3. /\ (f \in pending)' <=> (Holding(f) \/ Opening(f) # {})'
          /\ (\A q, r \in Opening(f) : q = r)'
          /\ (Holding(f) => Opening(f) = {})'
      BY <1>1, <1>2, <2>7, <3>1
    <3> QED
      BY <3>2, <3>3 DEF Reserved
  <2>9. Straight' /\ Tried'
    BY <1>1, <2>2, <2>4, <2>5, <2>6, KeepsRecords DEF IndInv
  <2>10. TaskTypes'
    BY <1>1, <1>5, <2>2, <2>4, <2>6, SetTask DEF IndInv, TaskTypes
  <2> QED
    BY <2>8, <2>9, <2>10
<1> QED
  BY <1>0, <1>4, <1>5 DEF Dispatch

LEMMA LoopInv ==
    ASSUME IndInv, LoopStep
    PROVE  IndInv'
<1>1. WireTypes'
  BY LoopWire DEF IndInv
<1>2. CASE ReadSyn \/ HandleData \/ EndWrite \/ EndLoop \/ Drain \/ Pump
  <2>1. /\ UNCHANGED <<tasks, pending, active, failing>>
        /\ loop' = loop \/ (loop.at # "decide" /\ loop'.at # "decide")
    BY <1>2 DEF ReadSyn, HandleData, EndWrite, EndLoop, Drain, Pump, Idle, task_vars, engine_vars
  <2>2. /\ tracker' \in [Flows -> Tunnels \cup {NoTunnel}]
        /\ \A f \in Flows : tracker'[f] \in {tracker[f], NoTunnel}
    <3>1. CASE UNCHANGED tracker
      BY <3>1 DEF IndInv, TaskTypes
    <3>2. CASE HandleData \/ EndWrite
      BY <3>2 DEF HandleData, EndWrite, IndInv, TaskTypes
    <3>3. CASE Pump
      BY <3>3 DEF Pump, IndInv, TaskTypes
    <3> QED
      BY <1>2, <3>1, <3>2, <3>3 DEF ReadSyn, Drain, EndLoop
  <2>3. Reserved' /\ Straight' /\ Tried'
    BY <2>1, <2>2, Undisturbed DEF IndInv
  <2>4. TaskTypes'
    BY <2>1, <2>2 DEF IndInv, TaskTypes
  <2> QED
    BY <1>1, <2>3, <2>4 DEF IndInv
<1>3. CASE Reserve
  BY <1>1, <1>3, ReserveInv DEF IndInv
<1>4. CASE Dispatch
  BY <1>1, <1>4, DispatchInv DEF IndInv
<1> QED
  BY <1>2, <1>3, <1>4 DEF LoopStep, Forward

-----------------------------------------------------------------------------
(* Theorems.                                                               *)

\* The invariant the other theorems rest on (router/mod.rs, with the loop of
\* tun_manager/mod.rs).
THEOREM Invariance == RouterSpec => []IndInv
<1>1. IndInv /\ [RouterNext]_router_vars => IndInv'
  <2> SUFFICES ASSUME IndInv, [RouterNext]_router_vars
               PROVE  IndInv'
    OBVIOUS
  <2>1. CASE LoopStep
    BY <2>1, LoopInv
  <2>2. CASE \E t \in Tasks : TaskStep(t)
    BY <2>2, TaskInv
  <2>3. CASE \/ \E f \in Flows : Open(f) \/ Retransmit(f) \/ GiveUp(f) \/ SendData(f) \/ Close(f)
             \/ Engine
             \/ UNCHANGED router_vars
    BY <2>3, OthersInv
  <2> QED
    BY <2>1, <2>2, <2>3 DEF RouterNext
<1> QED
  BY <1>1, InitInv, PTL DEF RouterSpec

\* The shape of the state, for every flow and every number of tasks.
THEOREM TypeCorrect == RouterSpec => []RouterTypeOK
<1>1. IndInv => RouterTypeOK
  <2> SUFFICES ASSUME IndInv PROVE RouterTypeOK
    OBVIOUS
  <2>1. client \in [Flows -> [st : {"closed", "waiting", "open"}, isn : 0 .. MaxOpens]]
    BY RouterAssumption DEF IndInv, WireTypes, Sockets
  <2>2. \A t \in Tasks : Task(t) \in Running \cup {NoTask}
    BY DEF IndInv, TaskTypes, Tasks, Task
  <2> QED
    BY <2>1, <2>2 DEF IndInv, WireTypes, TaskTypes, RouterTypeOK, Running, Vias
<1> QED
  BY <1>1, Invariance, PTL

\* A connection that was covered never leaves direct, and one that was not never
\* enters a proxy, however many proxies it tries (open_tunnel's retries).
THEOREM NeverDirect == RouterSpec => []CoveredNeverGoDirect
<1>1. IndInv => CoveredNeverGoDirect
  BY DEF IndInv, Straight, Routed, Honest, CoveredNeverGoDirect
<1> QED
  BY <1>1, Invariance, PTL

\* A reservation has one holder, and a holder a reservation (`pending` of
\* Router), however many handshakes are on their way.
THEOREM ReservationIsHeld == RouterSpec => []PendingIsHeld
<1>1. IndInv => PendingIsHeld
  <2> SUFFICES ASSUME IndInv, NEW f \in Flows
               PROVE  Cardinality(Opening(f)) <= 1
    BY DEF IndInv, Reserved, Holding, PendingIsHeld
  <2>1. CASE Opening(f) = {}
    BY <2>1, FS_EmptySet
  <2>2. CASE Opening(f) # {}
    <3>1. PICK s \in Opening(f) : Opening(f) = {s}
      BY <2>2 DEF IndInv, Reserved
    <3> QED
      BY <3>1, FS_Singleton
  <2> QED
    BY <2>1, <2>2
<1> QED
  BY <1>1, Invariance, PTL

\* No connection asks a proxy twice, and no try is forgotten
\* (activate_best_avoiding with what the task has noted down).
THEOREM EachTryAnother == RouterSpec => []NoProxyTwice
<1>1. IndInv => NoProxyTwice
  <2> SUFFICES ASSUME IndInv, NEW t \in Tasks, Task(t).stage \in {"connecting", "opened"}
               PROVE  /\ Task(t).via \notin Task(t).avoided
                      /\ Cardinality(Task(t).avoided) = Task(t).attempt
    BY DEF NoProxyTwice
  <2>1. Task(t) # NoTask
    BY RunningIs DEF IndInv
  <2> QED
    BY <2>1 DEF IndInv, Tried, Counted
<1> QED
  BY <1>1, Invariance, PTL
=============================================================================
