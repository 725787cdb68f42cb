------------------------------- MODULE Router -------------------------------
(***************************************************************************)
(* The TCP half of the device: `Router` and `ConnectionTracker` of         *)
(* crates/proxy-core/src/router, driven by `run_forwarding_loop` of        *)
(* tun_manager/mod.rs.                                                     *)
(*                                                                         *)
(* One thread owns the device: it reads a packet, handles it, writes what  *)
(* the background tasks answered and pumps the tunnels; on an idle device  *)
(* it does nothing.  It waits for each write into a tunnel, without a      *)
(* timeout, and ends on shutdown, at the end of the device and on an error *)
(* of a read.  Each new handshake gets a task that opens its tunnel.       *)
(* A client is the TCP of an application behind the device: it repeats its *)
(* SYN until it is answered.  Bytes are left out: a segment either reaches *)
(* its tunnel or finds it broken.                                          *)
(***************************************************************************)
EXTENDS RoutePolicy, FiniteSets, SequencesExt

CONSTANTS
    Flows,          \* FlowKeys: one per client connection
    DstOf, PortOf,  \* the destination of each flow
    Policy,         \* the RoutePolicy the router was built with
    Hosts,          \* names the DNS cache may learn
    Routings,       \* sets of addresses the engine may route into the device
    Proxies,
    Direct,         \* no proxy
    Starts,         \* bound: what the pool has selected when the loop starts
    Slots,          \* bound: tasks of one flow at a time
    MaxTries,       \* the attempt after which no other proxy is tried
    MaxOpens,       \* bound: connections a client opens on one flow
    MaxEvents       \* bound: changes made by the rest of the engine

ASSUME RouterAssumption ==
    /\ IsFiniteSet(Flows) /\ IsFiniteSet(Slots)
    /\ DstOf \in [Flows -> Addresses]
    /\ Direct \notin Proxies /\ Starts \subseteq Proxies \cup {Direct}
    /\ Routings \subseteq SUBSET Addresses
    /\ MaxTries \in Nat /\ MaxOpens \in Nat /\ MaxEvents \in Nat

VARIABLES
    client,     \* per flow: the socket of the client
    device,     \* packets the loop has not read, in order
    loop,       \* where the forwarding loop is
    pending,    \* flows whose tunnel is being opened
    tracker,    \* per flow: its tunnel, or none
    tasks,      \* per flow and slot: the task that opens a tunnel
    answers,    \* the responder channel
    routed,     \* the addresses the engine routed into the device
    names,      \* the DNS cache
    active,     \* the proxy the pool has selected
    failing,    \* proxies with failures on record
    events      \* changes made so far

client_vars == <<client, device>>
task_vars == <<tasks, pending, answers>>
engine_vars == <<routed, names, active, failing, events>>
router_vars == <<client_vars, loop, tracker, task_vars, engine_vars>>

NoTunnel == [for |-> 0]
NoTask == [stage |-> "none"]
Idle == [at |-> "read"]

Tasks == Flows \X Slots
Task(t) == tasks[t[1]][t[2]]
Set(t, record) == [tasks EXCEPT ![t[1]][t[2]] = record]

RouterInit ==
    /\ client = [f \in Flows |-> [st |-> "closed", isn |-> 0]]
    /\ device = <<>> /\ answers = <<>>
    /\ loop = Idle
    /\ pending = {}
    /\ tracker = [f \in Flows |-> NoTunnel]
    /\ tasks = [f \in Flows |-> [s \in Slots |-> NoTask]]
    /\ routed \in Routings
    /\ names = [a \in Addresses |-> NoName]
    /\ active \in Starts
    /\ failing = {}
    /\ events = 0

-----------------------------------------------------------------------------
(* The clients.                                                            *)

Packet(f, kind) == [flow |-> f, kind |-> kind, isn |-> client[f].isn]

\* The device goes with the loop, and so does the channel of the answers.
Ended == loop.at = "ended"
Arrives(packet) == device' = IF Ended THEN device ELSE Append(device, packet)
Respond(answer) == answers' = IF Ended THEN answers ELSE Append(answers, answer)

Quiet(f) == \A i \in 1 .. Len(device) : device[i].flow # f

Open(f) ==
    /\ client[f].st = "closed" /\ client[f].isn < MaxOpens
    /\ client' = [client EXCEPT ![f] = [st |-> "waiting", isn |-> @.isn + 1]]
    /\ Arrives([flow |-> f, kind |-> "syn", isn |-> client[f].isn + 1])
    /\ UNCHANGED <<loop, tracker, task_vars, engine_vars>>

Retransmit(f) ==
    /\ client[f].st = "waiting" /\ Quiet(f)
    /\ Arrives(Packet(f, "syn"))
    /\ UNCHANGED <<client, loop, tracker, task_vars, engine_vars>>

GiveUp(f) ==
    /\ client[f].st = "waiting"
    /\ client' = [client EXCEPT ![f].st = "closed"]
    /\ UNCHANGED <<device, loop, tracker, task_vars, engine_vars>>

SendData(f) ==
    /\ client[f].st = "open" /\ Quiet(f)
    /\ Arrives(Packet(f, "data"))
    /\ UNCHANGED <<client, loop, tracker, task_vars, engine_vars>>

Close(f) ==
    /\ client[f].st = "open"
    /\ client' = [client EXCEPT ![f].st = "closed"]
    /\ Arrives(Packet(f, "end"))
    /\ UNCHANGED <<loop, tracker, task_vars, engine_vars>>

\* What the client's TCP does with a packet written to the device.  A SYN-ACK
\* it is not waiting for is answered with a reset unless it is open; bare
\* acknowledgements, which the router only reads past, are left out.
Receives(f, kind, isn, queue) ==
    LET c == client[f]
        mine == c.st = "waiting" /\ c.isn = isn
        reply == IF kind = "rst" \/ c.st = "open" \/ mine THEN <<>> ELSE <<Packet(f, "end")>>
    IN  /\ device' = queue \o reply
        /\ client' = IF ~mine THEN client
                     ELSE [client EXCEPT ![f].st = IF kind = "rst" THEN "closed" ELSE "open"]

-----------------------------------------------------------------------------
(* The forwarding loop.                                                    *)

\* A SYN of a flow that has a tunnel gets the SYN-ACK of that tunnel.
ReadSyn ==
    LET packet == Head(device)
        f == packet.flow
    IN  /\ loop.at = "read" /\ device # <<>> /\ packet.kind = "syn"
        /\ IF tracker[f] # NoTunnel
           THEN /\ Receives(f, "synack", tracker[f].for, Tail(device))
                /\ loop' = [at |-> "drain"]
           ELSE /\ loop' = [at |-> "reserve", packet |-> packet]
                /\ device' = Tail(device)
                /\ UNCHANGED client
        /\ UNCHANGED <<tracker, task_vars, engine_vars>>

\* Data of a flow that has a tunnel is written into it; a FIN or a RST of the
\* client, which carries no data here, closes the tunnel.
HandleData ==
    LET packet == Head(device)
        f == packet.flow
    IN  /\ loop.at = "read" /\ device # <<>> /\ packet.kind # "syn"
        /\ IF packet.kind = "data" /\ tracker[f] # NoTunnel
           THEN loop' = [at |-> "write", flow |-> f]
           ELSE loop' = [at |-> "drain"]
        /\ tracker' = IF packet.kind = "end" THEN [tracker EXCEPT ![f] = NoTunnel] ELSE tracker
        /\ device' = Tail(device)
        /\ UNCHANGED <<client, task_vars, engine_vars>>

\* The write ends once the proxy has room for the data or the connection breaks,
\* which closes whatever tunnel the flow has by then.
EndWrite ==
    /\ loop.at = "write"
    /\ tracker' \in {tracker, [tracker EXCEPT ![loop.flow] = NoTunnel]}
    /\ loop' = [at |-> "drain"]
    /\ UNCHANGED <<client_vars, task_vars, engine_vars>>

\* A bug: the result of the insertion is not looked at.
ReserveBlindly ==
    LET f == loop.packet.flow
    IN  /\ loop.at = "reserve"
        /\ pending' = pending \cup {f}
        /\ loop' = [at |-> "decide", packet |-> loop.packet, host |-> names[DstOf[f]]]
        /\ UNCHANGED <<client_vars, tracker, tasks, answers, engine_vars>>

\* One opener per flow; the name of the destination is looked up on the way.
Reserve ==
    LET f == loop.packet.flow
    IN  /\ loop.at = "reserve"
        /\ IF f \in pending
           THEN /\ loop' = [at |-> "drain"]
                /\ UNCHANGED pending
           ELSE /\ pending' = pending \cup {f}
                /\ loop' = [at |-> "decide", packet |-> loop.packet, host |-> names[DstOf[f]]]
        /\ UNCHANGED <<client_vars, tracker, tasks, answers, engine_vars>>

\* What the engine routed into the device comes before the policy and after
\* its exemptions.
Decision(f, host) ==
    LET ip == DstOf[f]
    IN  IF is_local(ip) \/ AlwaysDirect(Policy, ip, PortOf[f]) THEN "direct"
        ELSE IF ip \in routed THEN "proxy"
        ELSE Decide(Policy, ip, PortOf[f], host)

\* A covered connection without a proxy is refused, never let out direct.
Dispatch ==
    LET f == loop.packet.flow
        decision == Decision(f, loop.host)
        via == IF decision = "direct" THEN Direct ELSE active
    IN  /\ loop.at = "decide"
        /\ IF decision = "proxy" /\ active = Direct
           THEN /\ pending' = pending \ {f}
                /\ answers' = Append(answers, [flow |-> f, kind |-> "rst", isn |-> loop.packet.isn])
                /\ UNCHANGED tasks
           ELSE /\ \E s \in Slots :
                     /\ tasks[f][s] = NoTask
                     /\ tasks' = Set(<<f, s>>, [stage |-> "connecting", via |-> via,
                            decision |-> decision, attempt |-> 0, avoided |-> {},
                            for |-> loop.packet.isn])
                /\ UNCHANGED <<pending, answers>>
        /\ loop' = [at |-> "drain"]
        /\ UNCHANGED <<client_vars, tracker, engine_vars>>

Drain ==
    /\ loop.at = "drain" /\ answers # <<>>
    /\ LET a == Head(answers) IN Receives(a.flow, a.kind, a.isn, device)
    /\ answers' = Tail(answers)
    /\ UNCHANGED <<loop, tracker, tasks, pending, engine_vars>>

\* Each tunnel is read once: nothing there, bytes, or its end, of which the
\* client hears nothing.  A client that is gone answers bytes with a reset.
Pump ==
    /\ loop.at = "drain" /\ answers = <<>>
    /\ \E read \in [{f \in Flows : tracker[f] # NoTunnel} -> {"nothing", "bytes", "end"}] :
         LET ended == {f \in DOMAIN read : read[f] = "end"}
             strangers == {f \in DOMAIN read : read[f] = "bytes" /\ client[f].st = "closed"}
         IN  /\ tracker' = [f \in Flows |-> IF f \in ended THEN NoTunnel ELSE tracker[f]]
             /\ \E order \in SetToSeqs(strangers) :
                  device' = device \o [i \in 1 .. Cardinality(strangers) |-> Packet(order[i], "end")]
    /\ loop' = Idle
    /\ UNCHANGED <<client, task_vars, engine_vars>>

EndLoop ==
    /\ loop.at = "read"
    /\ loop' = [at |-> "ended"]
    /\ device' = <<>> /\ answers' = <<>>
    /\ UNCHANGED <<client, tracker, tasks, pending, engine_vars>>

\* What the loop does by itself, and with what depends on others.
Forward == ReadSyn \/ HandleData \/ Reserve \/ Dispatch \/ Drain \/ Pump
LoopStep == Forward \/ EndWrite \/ EndLoop

-----------------------------------------------------------------------------
(* The tasks that open tunnels.                                            *)

\* The task is done connecting: its flow is no longer pending.
Leave(t, stage) ==
    /\ tasks' = Set(t, [Task(t) EXCEPT !.stage = stage])
    /\ pending' = pending \ {t[1]}

Connects(t) ==
    /\ Task(t).stage = "connecting"
    /\ Leave(t, "opened")
    /\ UNCHANGED <<client_vars, loop, tracker, answers, engine_vars>>

\* A bug: the tries are not counted against their limit.
FailsForEver(t) ==
    LET task == Task(t)
    IN  /\ task.stage = "connecting"
        /\ IF task.via = Direct
           THEN /\ Leave(t, "failed")
                /\ UNCHANGED failing
           ELSE /\ failing' = failing \cup {task.via}
                /\ tasks' = Set(t, [task EXCEPT !.stage = "replacing", !.attempt = @ + 1,
                                                !.avoided = @ \cup {task.via}])
                /\ UNCHANGED pending
        /\ UNCHANGED <<client_vars, loop, tracker, answers, routed, names, active, events>>

\* The failure of the last try is reported to nobody.
Fails(t) ==
    LET task == Task(t)
    IN  /\ task.stage = "connecting"
        /\ IF task.via = Direct \/ task.attempt >= MaxTries
           THEN /\ Leave(t, "failed")
                /\ UNCHANGED failing
           ELSE /\ failing' = failing \cup {task.via}
                /\ tasks' = Set(t, [task EXCEPT !.stage = "replacing", !.attempt = @ + 1,
                                                !.avoided = @ \cup {task.via}])
                /\ UNCHANGED pending
        /\ UNCHANGED <<client_vars, loop, tracker, answers, routed, names, active, events>>

\* A bug: with nobody left the connection goes out direct.
ReplaceOrGoDirect(t) ==
    LET candidates == Proxies \ (Task(t).avoided \cup failing)
    IN  /\ Task(t).stage = "replacing"
        /\ IF candidates = {}
           THEN /\ tasks' = Set(t, [Task(t) EXCEPT !.stage = "connecting", !.via = Direct])
                /\ UNCHANGED <<active, pending>>
           ELSE \E p \in candidates :
                  /\ active' = p
                  /\ tasks' = Set(t, [Task(t) EXCEPT !.stage = "connecting", !.via = p])
                  /\ UNCHANGED pending
        /\ UNCHANGED <<client_vars, loop, tracker, answers, routed, names, failing, events>>

\* A bug: a proxy that failed is left out only while its failure is on record.
ReplaceForgetfully(t) ==
    LET candidates == Proxies \ failing
    IN  /\ Task(t).stage = "replacing"
        /\ IF candidates = {}
           THEN /\ Leave(t, "failed")
                /\ UNCHANGED active
           ELSE \E p \in candidates :
                  /\ active' = p
                  /\ tasks' = Set(t, [Task(t) EXCEPT !.stage = "connecting", !.via = p])
                  /\ UNCHANGED pending
        /\ UNCHANGED <<client_vars, loop, tracker, answers, routed, names, failing, events>>

\* activate_best_avoiding: the best of the proxies without failures, which
\* becomes the active one of the whole engine.
Replace(t) ==
    LET candidates == Proxies \ (Task(t).avoided \cup failing)
    IN  /\ Task(t).stage = "replacing"
        /\ IF candidates = {}
           THEN /\ Leave(t, "failed")
                /\ UNCHANGED active
           ELSE \E p \in candidates :
                  /\ active' = p
                  /\ tasks' = Set(t, [Task(t) EXCEPT !.stage = "connecting", !.via = p])
                  /\ UNCHANGED pending
        /\ UNCHANGED <<client_vars, loop, tracker, answers, routed, names, failing, events>>

\* The tunnel enters the tracker, over whatever the flow had there.
Track(t) ==
    /\ Task(t).stage = "opened"
    /\ tracker' = [tracker EXCEPT ![t[1]] =
                     [for |-> Task(t).for, via |-> Task(t).via, decision |-> Task(t).decision]]
    /\ Respond([flow |-> t[1], kind |-> "synack", isn |-> Task(t).for])
    /\ tasks' = Set(t, NoTask)
    /\ UNCHANGED <<client_vars, loop, pending, engine_vars>>

\* A bug: the client of a tunnel that could not be opened is told nothing.
RefuseSilently(t) ==
    /\ Task(t).stage = "failed"
    /\ tasks' = Set(t, NoTask)
    /\ UNCHANGED <<client_vars, loop, tracker, pending, answers, engine_vars>>

Refuse(t) ==
    /\ Task(t).stage = "failed"
    /\ Respond([flow |-> t[1], kind |-> "rst", isn |-> Task(t).for])
    /\ tasks' = Set(t, NoTask)
    /\ UNCHANGED <<client_vars, loop, tracker, pending, engine_vars>>

TaskStep(t) == Connects(t) \/ Fails(t) \/ Replace(t) \/ Track(t) \/ Refuse(t)

-----------------------------------------------------------------------------
(* The rest of the engine.                                                 *)

SetRouted ==
    /\ routed' \in Routings \ {routed}
    /\ UNCHANGED <<names, active, failing>>

\* A DNS answer, or the policy loop, names an address or forgets its name.
Learn(a) ==
    /\ names' \in {[names EXCEPT ![a] = h] : h \in (Hosts \cup {NoName}) \ {names[a]}}
    /\ UNCHANGED <<routed, active, failing>>

\* The operator, rotation and the probes.
SelectProxy ==
    /\ active' \in (Proxies \cup {Direct}) \ {active}
    /\ UNCHANGED <<routed, names, failing>>

ProveWorking(p) ==
    /\ p \in failing
    /\ failing' = failing \ {p}
    /\ UNCHANGED <<routed, names, active>>

Engine ==
    /\ events < MaxEvents /\ events' = events + 1
    /\ \/ SetRouted
       \/ \E f \in Flows : Learn(DstOf[f])
       \/ SelectProxy
       \/ \E p \in Proxies : ProveWorking(p)
    /\ UNCHANGED <<client_vars, loop, tracker, task_vars>>

RouterNext ==
    \/ \E f \in Flows : Open(f) \/ Retransmit(f) \/ GiveUp(f) \/ SendData(f) \/ Close(f)
    \/ LoopStep
    \/ \E t \in Tasks : TaskStep(t)
    \/ Engine

\* The thread of the loop goes on, but nothing bounds a write into a proxy that
\* does not read: EndWrite has no fairness.  A task ends because the forwarder
\* puts a timeout on every connector; a client's TCP repeats its SYN.
RouterSpec ==
    /\ RouterInit /\ [][RouterNext]_router_vars
    /\ WF_router_vars(Forward)
    /\ \A t \in Tasks : WF_router_vars(TaskStep(t))
    /\ \A f \in Flows : WF_router_vars(Retransmit(f))

-----------------------------------------------------------------------------
(* Properties.                                                             *)

Tunnels == [for : 1 .. MaxOpens, via : Proxies \cup {Direct}, decision : {"proxy", "direct"}]

\* The shape of the state.
RouterTypeOK ==
    /\ client \in [Flows -> [st : {"closed", "waiting", "open"}, isn : 0 .. MaxOpens]]
    /\ pending \subseteq Flows /\ failing \subseteq Proxies
    /\ tracker \in [Flows -> Tunnels \cup {NoTunnel}]
    /\ \A t \in Tasks :
         Task(t) \in [stage : {"connecting", "replacing", "opened", "failed"},
                      via : Proxies \cup {Direct}, decision : {"proxy", "direct"},
                      attempt : 0 .. MaxTries, avoided : SUBSET Proxies,
                      for : 1 .. MaxOpens] \cup {NoTask}
    /\ loop.at \in {"read", "reserve", "decide", "write", "drain", "ended"}
    /\ active \in Proxies \cup {Direct}

\* A connection the policy covered when it arrived never leaves direct, through
\* any number of dead proxies, and one it did not cover never enters a proxy.
CoveredNeverGoDirect ==
    \A record \in ({Task(t) : t \in Tasks} \cup {tracker[f] : f \in Flows}) \ {NoTask, NoTunnel} :
        record.via = Direct <=> record.decision = "direct"

Opening(f) == {s \in Slots : tasks[f][s].stage \in {"connecting", "replacing"}}

\* A flow is reserved exactly while the loop or one task is about to open its
\* tunnel: no two tasks ask proxies for one handshake at the same time, and no
\* flow is locked out by a reservation nobody holds.
PendingIsHeld ==
    \A f \in Flows :
        LET held == loop.at = "decide" /\ loop.packet.flow = f
        IN  /\ f \in pending <=> held \/ Opening(f) # {}
            /\ Cardinality(Opening(f)) <= 1
            /\ held => Opening(f) = {}

\* Each try of a connection goes through another proxy, even when a probe
\* clears a dead one's record in between: as many are noted down as tries failed.
NoProxyTwice ==
    \A t \in Tasks : Task(t).stage \in {"connecting", "opened"} =>
        /\ Task(t).via \notin Task(t).avoided
        /\ Cardinality(Task(t).avoided) = Task(t).attempt

Answered(f) == client[f].st = "waiting" ~> client[f].st # "waiting"

\* While the loop lasts and no write holds it for ever, a client that waits for
\* its handshake is answered, with a tunnel or with a refusal, however many
\* proxies fail under it and however often it repeats its SYN.
EveryHandshakeIsAnswered ==
    []~Ended /\ []<>(loop.at # "write") => \A f \in Flows : Answered(f)

\* router/mod.rs, handle_outgoing: "The tunnel is opened in the background. A
\* proxy that does not answer would otherwise hold the whole device still".  A
\* proxy that does not read holds it: handle_data waits in the loop's thread.
TheDeviceIsNotHeldStill == []~Ended => \A f \in Flows : Answered(f)

\* router/mod.rs, handle_outgoing: "A handshake that is already on its way must
\* not start a second tunnel".
OneTunnelPerHandshake ==
    \A f \in Flows : \A isn \in 1 .. MaxOpens :
        LET opening == {s \in Slots : /\ tasks[f][s].stage \in {"connecting", "replacing", "opened"}
                                     /\ tasks[f][s].for = isn}
        IN  Cardinality(opening) <= IF tracker[f].for = isn THEN 0 ELSE 1
=============================================================================
