------------------------------- MODULE Probe --------------------------------
(***************************************************************************)
(* One probe of the health checker: crates/proxy-core/src/health/mod.rs    *)
(* with the connectors under it, from the target it resolves to the        *)
(* verdict.  Probes follow one another over the cached target.             *)
(*                                                                         *)
(* `coming` holds what was sent to the prober and has not arrived; it      *)
(* arrives unit by unit, at any time, in order.                            *)
(***************************************************************************)
EXTENDS Connectors

CONSTANTS
    Targets,        \* the targets' ports and kinds of answer, in order
    MaxTargets,     \* max_targets_per_proxy
    ConnectTimeout, \* ticks for a tunnel to be open
    InnerTimeout,   \* ticks the forwarder gives a connector
    Timeout,        \* ticks for a whole attempt
    Ttl,            \* ticks a resolved target is good for
    Addresses,      \* the engine's own address is one of these
    Elsewhere,      \* the address of a proxy
    Traces,         \* what proxies leave in a request: sets of headers
    NoAddress

Least(a, b) == IF a <= b THEN a ELSE b

\* The headers that are looked for, and one that is passed over.
Identifying == {"via", "x-forwarded-for", "forwarded"}
Headers == Identifying \cup {"x-real-ip"}

ASSUME ProbeAssumption ==
    /\ ConnectTimeout \in Nat \ {0} /\ Timeout \in Nat \ {0} /\ InnerTimeout \in Nat \ {0}
    /\ Ttl \in Nat \ {0} /\ MaxTargets \in Nat \ {0}
    /\ Targets \in Seq([port : Nat, echo : {"json", "bare"}]) /\ Targets # <<>>
    /\ Traces \subseteq SUBSET Headers
    /\ Elsewhere \notin Addresses /\ NoAddress \notin Addresses \cup {Elsewhere}

VARIABLES
    own,        \* the engine's address
    slot,       \* active_target: the address it was resolved with, and its age
    stage,      \* where the probe is
    endpoint,   \* the proxy being probed
    known,      \* own_exit_ip: what the probe takes for its own address
    target,     \* which target
    step,       \* which step of the connector's dialogue
    sealed,     \* what a Shadowsocks stream has read
    age,        \* ticks since the attempt began
    expires,    \* the age at which the timer of the current phase fires
    wire,       \* what has arrived and was not read
    coming,     \* what has not arrived
    said,       \* the HTTP response on its way
    result      \* the verdict

world_vars == <<own, slot>>
attempt_vars == <<stage, step, sealed, age, expires, wire, coming, said>>
vars == <<world_vars, endpoint, known, target, attempt_vars, result>>

NoResult == [verdict |-> "none"]
Unheard == [from |-> "nobody"]
Unsealed == [salt |-> FALSE, answer |-> FALSE]

Port == Targets[target].port
Fresh == slot.age < Ttl

-----------------------------------------------------------------------------
(* Verdicts.                                                               *)

Working(tunneled, anonymity) ==
    [verdict |-> "working", tunneled |-> tunneled, exit |-> said.exit, anonymity |-> anonymity]
Failed == [verdict |-> "failed"]
Inconclusive == [verdict |-> "inconclusive"]

\* Two timers run while a tunnel is opened, the prober's and the forwarder's.
Patience == Least(ConnectTimeout, Timeout)

\* A tunnel of an attempt at `t` is being opened.
Attempt(t) ==
    /\ stage' = "dial" /\ target' = t /\ step' = 0 /\ sealed' = Unsealed
    /\ age' = 0 /\ expires' = Least(Patience, InnerTimeout)
    /\ wire' = <<>> /\ coming' = <<>> /\ said' = Unheard

\* A verdict that proves nothing moves the probe on to the next target.
Conclude(verdict) ==
    IF verdict = Inconclusive /\ target < Least(MaxTargets, Len(Targets))
    THEN /\ Attempt(target + 1)
         /\ UNCHANGED result
    ELSE /\ result' = verdict
         /\ stage' = "idle" /\ wire' = <<>> /\ coming' = <<>>
         /\ UNCHANGED <<target, step, sealed, age, expires, said>>

\* What the proxy added to the request, as far as the target's echo tells; a
\* header that carries an address carries the one the endpoint was dialled from.
classify_anonymity(shows) ==
    IF "x-forwarded-for" \in shows /\ known # NoAddress /\ said.seen = known
    THEN "transparent"
    ELSE IF shows \cap Identifying # {} THEN "anonymous" ELSE "elite"

Echoed == IF Targets[target].echo = "json" THEN said.shows ELSE {}

\* A bug: a page without an address is taken for the target's answer.
ViewAnyPage ==
    IF said.code = 407 THEN Failed
    ELSE IF said.code # 200 THEN Inconclusive
    ELSE IF said.exit = known /\ known # NoAddress THEN Failed
    ELSE Working(TRUE, classify_anonymity(Echoed))

\* A bug: the address of the answer is not compared with the engine's own.
ViewAnyAddress ==
    IF said.code = 407 THEN Failed
    ELSE IF said.code # 200 THEN Inconclusive
    ELSE IF said.exit = NoAddress THEN Failed
    ELSE Working(TRUE, classify_anonymity(Echoed))

\* What the response of a tunnel proves.
View ==
    IF said.code = 407 THEN Failed
    ELSE IF said.code # 200 THEN Inconclusive
    ELSE IF said.exit = NoAddress \/ said.exit = known THEN Failed
    ELSE Working(TRUE, classify_anonymity(Echoed))

\* What was read until the end of the stream: nothing, a response, or bytes
\* that are none, the rest of a CONNECT reply among them.  A stream that ends in
\* an error is judged by that alone.
Judge(read) ==
    IF Holds(read, "reset") THEN Failed
    ELSE IF Head(read) \in {"fin", "blank"} THEN Inconclusive
    ELSE IF Head(read) = "response" THEN View
    ELSE Failed

-----------------------------------------------------------------------------
(* resolve_target.                                                         *)

Begin(e) ==
    /\ stage = "idle"
    /\ endpoint' = e /\ result' = NoResult
    /\ IF Fresh
       THEN Attempt(1) /\ known' = slot.own
       ELSE /\ stage' = "resolve" /\ target' = 1
            /\ UNCHANGED <<known, age, expires, step, sealed, wire, coming, said>>
    /\ UNCHANGED world_vars

Resolved(address) ==
    /\ slot' = [own |-> address, age |-> 0]
    /\ known' = address
    /\ Attempt(1)

\* A target answers a direct request with the engine's address, or does not;
\* when none does, the probe runs against the first and knows no address.
Resolve ==
    /\ stage = "resolve"
    /\ \/ Resolved(own)
       \/ IF target = Len(Targets)
          THEN Resolved(NoAddress)
          ELSE /\ target' = target + 1
               /\ UNCHANGED <<slot, known, attempt_vars>>
    /\ UNCHANGED <<own, endpoint, result>>

-----------------------------------------------------------------------------
(* The tunnel.                                                             *)

\* The step of the dialogue that comes next is taken: its message is sent.
Take(n, left) ==
    /\ stage' = "dialogue" /\ step' = n
    /\ wire' = left
    /\ \E reply \in Replies(endpoint, Dialogue(endpoint.protocol)[n].send) :
         coming' = coming \o reply
    /\ UNCHANGED <<endpoint, known, target, sealed, age, expires, said, result>>

\* The tunnel failed.  On plain HTTP the proxy may still forward; its address
\* has to be numeric for that.
NoTunnel ==
    IF is_plain_http(Port) /\ endpoint.numeric
    THEN /\ stage' = "plain_dial" /\ expires' = age + Timeout
         /\ wire' = <<>> /\ coming' = <<>>
         /\ UNCHANGED <<target, step, sealed, age, said, result>>
    ELSE Conclude(Failed)

Dial ==
    /\ stage = "dial"
    /\ IF endpoint.kind = "shut"
       THEN NoTunnel /\ UNCHANGED <<endpoint, known>>
       ELSE endpoint.kind # "blackhole" /\ Take(1, <<>>)
    /\ UNCHANGED world_vars

Converse ==
    LET dialogue == Dialogue(endpoint.protocol)
        exchange == dialogue[step]
    IN  /\ stage = "dialogue" /\ ReadEnds(exchange, wire)
        /\ IF ~Satisfied(exchange, wire)
           THEN NoTunnel /\ UNCHANGED <<endpoint, known>>
           ELSE IF step < Len(dialogue) THEN Take(step + 1, LeftOver(exchange, wire))
           ELSE /\ stage' = "open"
                /\ wire' = LeftOver(exchange, wire)
                /\ UNCHANGED <<endpoint, known, target, step, sealed, age, expires,
                               coming, said, result>>
        /\ UNCHANGED world_vars

\* A bug: the prober waits longer than the forwarder does.
ConnectTimesOutLate ==
    /\ stage \in {"dial", "dialogue"} /\ age >= ConnectTimeout
    /\ NoTunnel
    /\ UNCHANGED <<world_vars, endpoint, known>>

\* The prober's timer says that nothing is known of the proxy, the forwarder's
\* that it failed.
ConnectTimesOut ==
    /\ stage \in {"dial", "dialogue"} /\ age >= expires
    /\ IF InnerTimeout <= Patience THEN NoTunnel ELSE Conclude(Inconclusive)
    /\ UNCHANGED <<world_vars, endpoint, known>>

-----------------------------------------------------------------------------
(* The request and the response.                                           *)

\* How a stream ends: in order, or in an error of the read, as where the
\* connection is reset or TLS goes away without its close_notify.
Ends == {"fin", "reset"}

Responses(from, code, exits, traces) ==
    {[from |-> from, code |-> code, exit |-> exit, shows |-> shows, seen |-> own, end |-> end] :
        exit \in exits, shows \in traces, end \in Ends}

Answers(exit) ==
    Responses("target", 200, {exit}, Traces) \cup Responses("target", 503, {NoAddress}, {{}})

\* A page of its own may show an address, somebody's or the visitor's.
Pages ==
    Responses("endpoint", 200, {NoAddress, Elsewhere, own}, {{}})
    \cup Responses("endpoint", 407, {NoAddress}, {{}})

\* What an endpoint may answer to the request in its tunnel.
Carried ==
    CASE endpoint.kind = "relay" -> Answers(Elsewhere)
      [] endpoint.kind = "mirror" -> Answers(own)
      [] endpoint.kind = "captive" -> Pages
      [] OTHER -> {}

\* What it may answer to a plain request.  The request line has no absolute
\* URI, whatever the name of the method that writes it.
Forwarded ==
    CASE endpoint.kind = "forwarder" -> Answers(Elsewhere)
      [] endpoint.kind = "relay" /\ endpoint.protocol = "http" -> Answers(Elsewhere)
      [] endpoint.kind = "mirror" /\ endpoint.protocol = "http" -> Answers(own)
      [] endpoint.kind = "captive" -> Pages
      [] endpoint.kind = "strict" -> Responses("endpoint", 400, {NoAddress}, {{}})
      [] endpoint.kind = "locked" -> Responses("endpoint", 407, {NoAddress}, {{}})
      [] OTHER -> {}

Framed == IF endpoint.protocol = "shadowsocks"
          THEN <<"salt", "length", "payload">> ELSE <<"response">>

\* The answer, or a stream that ends without one, or silence.
Hears(answers, framed, otherwise) ==
    \/ \E answer \in answers :
         said' = answer /\ coming' = coming \o framed \o <<answer.end>>
    \/ /\ coming' \in {coming, coming \o otherwise}
       /\ UNCHANGED said

\* An endpoint that says nothing may still close; one that talks may break off.
Closings == IF endpoint.kind \in {"deaf", "blackhole"} THEN {"fin"} ELSE Ends

\* A bug: the read starts a budget of its own.
SendRequestAnew ==
    /\ stage = "open"
    /\ \/ /\ Holds(wire, "fin")
          /\ Conclude(Failed)
       \/ /\ stage' = "read" /\ expires' = age + Timeout
          /\ \E end \in Closings : Hears(Carried, Framed, <<end>>)
          /\ UNCHANGED <<target, step, sealed, age, wire, result>>
    /\ UNCHANGED <<world_vars, endpoint, known>>

SendRequest ==
    /\ stage = "open"
    /\ \/ /\ Holds(wire, "fin")
          /\ Conclude(Failed)
       \/ /\ stage' = "read" /\ expires' = Timeout
          /\ \E end \in Closings : Hears(Carried, Framed, <<end>>)
          /\ UNCHANGED <<target, step, sealed, age, wire, result>>
    /\ UNCHANGED <<world_vars, endpoint, known>>

ReadResponse ==
    /\ stage = "read" /\ endpoint.protocol # "shadowsocks"
    /\ \E end \in Ends : Holds(wire, end)
    /\ Conclude(Judge(wire))
    /\ UNCHANGED <<world_vars, endpoint, known>>

\* One poll of a Shadowsocks stream.  A length whose payload has not arrived is
\* dropped with the poll, and so is its place in the stream.
PollSealed ==
    LET salted == ~sealed.salt /\ Head(wire) = "salt"
        rest == IF salted THEN Tail(wire) ELSE wire
        readable == sealed.salt \/ salted
    IN  /\ stage = "read" /\ endpoint.protocol = "shadowsocks" /\ wire # <<>>
        /\ IF rest # <<>> /\ Head(rest) = "fin"
           THEN Conclude(IF sealed.answer THEN View ELSE Inconclusive)
           ELSE IF rest # <<>> /\ (~readable \/ Head(rest) # "length")
           THEN Conclude(Failed)
           ELSE IF Len(rest) >= 2 /\ rest[2] \in Ends THEN Conclude(Failed)
           ELSE /\ sealed' = [salt |-> readable,
                              answer |-> sealed.answer \/ Len(rest) >= 2]
                /\ wire' = IF Len(rest) >= 2 THEN SubSeq(rest, 3, Len(rest)) ELSE <<>>
                /\ UNCHANGED <<stage, target, step, age, expires, coming, said, result>>
        /\ UNCHANGED <<world_vars, endpoint, known>>

ReadTimesOut ==
    /\ stage = "read" /\ age >= expires
    /\ Conclude(Inconclusive)
    /\ UNCHANGED <<world_vars, endpoint, known>>

-----------------------------------------------------------------------------
(* check_plain_forwarding: every error is the proxy's.                     *)

\* The request has no timeout of its own; it fits into an empty send buffer.
PlainDial ==
    /\ stage = "plain_dial"
    /\ IF endpoint.kind = "shut"
       THEN Conclude(Failed)
       ELSE /\ endpoint.kind # "blackhole"
            /\ stage' = "plain_read" /\ expires' = age + Timeout
            /\ Hears(Forwarded, <<"response">>, Junk)
            /\ UNCHANGED <<target, step, sealed, age, wire, result>>
    /\ UNCHANGED <<world_vars, endpoint, known>>

PlainRead ==
    /\ stage = "plain_read" /\ \E end \in Ends : Holds(wire, end)
    /\ Conclude(IF /\ Head(wire) = "response" /\ ~Holds(wire, "reset")
                   /\ said.code = 200 /\ said.exit # NoAddress
                THEN Working(FALSE, "unknown") ELSE Failed)
    /\ UNCHANGED <<world_vars, endpoint, known>>

\* A bug: the read of a plain response has no timeout.
PlainTimesOutOnDial ==
    /\ stage = "plain_dial" /\ age >= expires
    /\ Conclude(Failed)
    /\ UNCHANGED <<world_vars, endpoint, known>>

PlainTimesOut ==
    /\ stage \in {"plain_dial", "plain_read"} /\ age >= expires
    /\ Conclude(Failed)
    /\ UNCHANGED <<world_vars, endpoint, known>>

-----------------------------------------------------------------------------
(* The network and time.                                                   *)

Arrive ==
    /\ coming # <<>>
    /\ wire' = Append(wire, Head(coming)) /\ coming' = Tail(coming)
    /\ UNCHANGED <<world_vars, endpoint, known, target, stage, step, sealed, age, expires,
                   said, result>>

Waiting == {"dial", "dialogue", "read", "plain_dial", "plain_read"}

Tick ==
    /\ IF stage = "idle" THEN Fresh /\ UNCHANGED age
       ELSE stage \in Waiting /\ age < expires /\ age' = age + 1
    /\ slot' = [slot EXCEPT !.age = Least(@ + 1, Ttl)]
    /\ UNCHANGED <<own, endpoint, known, target, stage, step, sealed, expires, wire, coming,
                   said, result>>

\* The engine's address changes: a new lease, another uplink.
Renumber ==
    /\ own' \in Addresses \ {own}
    /\ UNCHANGED <<slot, endpoint, known, target, attempt_vars, result>>

ProbeInit ==
    /\ own \in Addresses /\ slot = [own |-> NoAddress, age |-> Ttl]
    /\ stage = "idle" /\ endpoint \in Endpoints /\ known = NoAddress
    /\ target = 1 /\ step = 0 /\ sealed = Unsealed /\ age = 0 /\ expires = 0
    /\ wire = <<>> /\ coming = <<>> /\ said = Unheard /\ result = NoResult

ProbeStep ==
    \/ Resolve \/ Dial \/ Converse \/ ConnectTimesOut
    \/ SendRequest \/ ReadResponse \/ PollSealed \/ ReadTimesOut
    \/ PlainDial \/ PlainRead \/ PlainTimesOut

ProbeNext ==
    \/ \E e \in Endpoints : Begin(e)
    \/ ProbeStep \/ Arrive \/ Tick \/ Renumber

\* The runtime polls a task that is ready and time passes; the network and the
\* endpoints owe nothing.
ProbeSpec ==
    ProbeInit /\ [][ProbeNext]_vars /\ WF_vars(ProbeStep) /\ WF_vars(Tick)

-----------------------------------------------------------------------------
(* Properties.                                                             *)

Verdicts == {Failed, Inconclusive, NoResult} \cup
    [verdict : {"working"}, tunneled : BOOLEAN, exit : Addresses \cup {Elsewhere},
     anonymity : {"elite", "anonymous", "transparent", "unknown"}]

\* The shape of the state.
ProbeTypeOK ==
    /\ own \in Addresses
    /\ slot \in [own : Addresses \cup {NoAddress}, age : 0 .. Ttl]
    /\ stage \in {"idle", "resolve", "open"} \cup Waiting
    /\ endpoint \in Endpoints /\ known \in Addresses \cup {NoAddress}
    /\ target \in 1 .. Len(Targets) /\ age \in Nat /\ expires \in Nat
    /\ stage = "dialogue" => step \in 1 .. Len(Dialogue(endpoint.protocol))
    /\ result \in Verdicts
    /\ stage # "idle" => result = NoResult

\* What is called working answered with an address, and called a tunnel it is a
\* proxy that opens tunnels, or a page that poses as the target, and the address
\* is not the one the engine took for its own at the start of the probe.
WorkingIsProved ==
    result.verdict = "working" =>
        /\ said.code = 200 /\ result.exit # NoAddress
        /\ result.tunneled => endpoint.kind \in Tunnels \cup {"captive"} /\ result.exit # known

\* health/mod.rs:333-338: an answer without an address "did not come from the
\* target", as "a captive portal, an intercepting middlebox and a proxy that serves its
\* own page all answer with a status of 200 [...] The address is what tells them
\* apart".
PagesAreToldApart == result.verdict = "working" => said.from = "target"

\* health/mod.rs:658: "a proxy that reports the same address is not proxying",
\* and :370-371, of the plain question: "the same proof a tunnel gives, reached
\* the other way".
TheSameAddressIsNoProxy == result.verdict = "working" => result.exit # known

\* A proxy that says nothing is never counted as failed, whatever its protocol,
\* its target and the phase the silence falls in.
SilenceIsNotBlamed ==
    endpoint.kind \in {"deaf", "blackhole"} => result # Failed

\* When a tunnel that was negotiated in binary is handed over, nothing of the
\* negotiation is in front of the target's bytes, read or on its way.
TheTargetSpeaksFirst ==
    stage = "open" /\ endpoint.protocol \notin {"http", "https", "shadowsocks"} =>
        \A unit \in {"granted", "bound", "port", "version", "free", "certificate"} :
            ~Holds(wire \o coming, unit)

Honest == endpoint.kind = "relay" /\ endpoint.protocol \in {"socks4", "socks5", "trojan"}
Answered == said.from = "target" /\ said.code = 200

\* The answer of a target that ends in order counts for the honest proxy that
\* carried it: whatever the pieces the handshake and the answer arrive in, a SOCKS
\* or Trojan proxy is not called failed over it.
TheAnswerCounts == Honest /\ Answered /\ said.end = "fin" => result # Failed

\* health/mod.rs:195-197: "What proves a proxy works is the ability to carry a
\* request to the target and bring a valid HTTP response back".
AnAnswerIsProof == Honest /\ Answered => result # Failed

\* health/mod.rs:843-845: "a target that is genuinely down produces inconclusive
\* verdicts, which change nothing in the pool".  The honest proxy of such a target
\* refuses the tunnel.
HonestNeverFailed == endpoint.kind = "relay" => result # Failed

\* The phases of a tunnel share one budget.  The plain question that follows a
\* tunnel that failed does not: it takes up to two more.
TheBudgetHolds ==
    /\ \/ stage \in {"dial", "dialogue", "open", "read"} \/ result = Inconclusive
       \/ result.verdict = "working" /\ result.tunneled
         => age <= Timeout
    /\ age <= Patience + 2 * Timeout

\* health/mod.rs:216-222: "One deadline for the whole probe, not one per phase.
\* [...] The phases now share what is left of the budget, so a probe costs what
\* it is allowed to cost."
OneDeadline == age <= Timeout

\* health/mod.rs:509-512: "transparent: the proxy passed the client's own address
\* on", "elite: the proxy left no trace at all".  Of a tunnel and a target that
\* echoes the headers it got.
LeaksAreNoticed ==
    result.verdict = "working" /\ result.tunneled /\ Targets[target].echo = "json" =>
        /\ result.anonymity = "elite" <=> said.shows = {}
        /\ said.shows \ {"via"} # {} /\ said.seen = known => result.anonymity = "transparent"

\* Every probe ends with a verdict, whatever the network withholds.
EveryProbeEnds == stage # "idle" ~> stage = "idle" /\ result # NoResult
=============================================================================
