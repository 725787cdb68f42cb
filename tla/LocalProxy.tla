----------------------------- MODULE LocalProxy -----------------------------
(***************************************************************************)
(* The local proxy of crates/proxy-core/src/local_proxy.rs: which proxy a  *)
(* client's request is carried by, the failover when it dies, and the      *)
(* operator turning a session over.                                        *)
(*                                                                         *)
(* One task serves one request; the tasks share four maps, each behind its *)
(* own lock.  A choice holds the lock of its map from the lookup to the    *)
(* insertion, so a choice is one step; opening a tunnel, recording its     *)
(* failure, releasing the sessions, replacing the proxy and pinning are    *)
(* steps of their own, and anything may happen between them.               *)
(*                                                                         *)
(* The pool is seen through its readers: `known` is what `get` finds,      *)
(* `working` what the filters of best_matching and best_avoiding let       *)
(* through, and any of several candidates may be the best.  A window that  *)
(* runs out is a flag that turns.  The scores and countries a policy asks  *)
(* for are the set Allowed.  The addresses used lately are read with the   *)
(* choice, the push to the list of used proxies is part of it.             *)
(***************************************************************************)
EXTENDS Integers, Sequences, FiniteSets

CONSTANTS
    Ids, NoProxy, HostOf, ExitOf,   \* the pool's entries, as in ProxyPool
    Requests,       \* the tasks
    Clients,        \* session keys: credential and session name
    CredentialOf,   \* the credential of a session key
    Policies,
    PolicyOf,       \* the policy a client's credential carries
    RotationOf,     \* "sticky", "time" or "per_request"
    Allowed,        \* the proxies a policy allows
    Dead,           \* the proxies that died: no connection through them succeeds
    Kinds,          \* of requests: CONNECT, or an absolute URI on port 80 or another
    Selections,     \* the active proxy when the listener starts
    MaxAttempts,    \* config.max_attempts
    RecentSize,     \* how many used proxies are remembered: 16 in the code
    MaxArrivals,    \* bound: requests that arrive
    MaxEvents       \* bound: windows ending, rotations and changes of the pool

ASSUME LocalAssumption ==
    /\ NoProxy \notin Ids
    /\ PolicyOf \in [Clients -> Policies]
    /\ RotationOf \in [Policies -> {"sticky", "time", "per_request"}]
    /\ Allowed \in [Policies -> SUBSET Ids] /\ Dead \subseteq Ids
    /\ Kinds \subseteq {"connect", "plain", "other_port"}
    /\ Selections \subseteq Ids \cup {NoProxy}
    /\ MaxAttempts \in Nat \ {0} /\ RecentSize \in Nat
    /\ MaxArrivals \in Nat /\ MaxEvents \in Nat
    /\ Clients \cap Policies = {}

VARIABLES
    known, working, active,     \* the pool
    sessions,       \* HashMap<String, Session>
    slots,          \* HashMap<String, Slot>
    avoided,        \* per client or policy: the proxies it was turned away from
    recent,         \* the proxies used lately
    request,        \* per task: where it is
    arrivals, events    \* requests and environment steps so far

pool_view == <<known, working, active>>
local_vars == <<known, working, active, sessions, slots, avoided, recent,
                request, arrivals, events>>

Nothing == [proxy |-> NoProxy, live |-> FALSE]      \* no entry in the map
Pinned(p) == [proxy |-> p, live |-> TRUE]

Idle == [stage |-> "idle", client |-> NoProxy, kind |-> "connect",
         first |-> NoProxy, proxy |-> NoProxy, tried |-> {}, exits |-> {},
         left |-> 0]

LocalInit ==
    /\ known = Ids
    /\ working = Ids
    /\ active \in Selections
    /\ sessions = [c \in Clients |-> Nothing]
    /\ slots = [q \in Policies |-> Nothing]
    /\ avoided = [k \in Clients \cup Policies |-> {}]
    /\ recent = <<>>
    /\ request = [r \in Requests |-> Idle]
    /\ arrivals = 0 /\ events = 0

-----------------------------------------------------------------------------
(* What the choices read.                                                  *)

HostsOf(ids) == {HostOf[p] : p \in ids}
ExitsOf(ids) == {ExitOf[p] : p \in ids}

\* best_avoiding: the working proxies off an avoided entry, server and exit.
BestAvoiding(ids, hosts, exits) ==
    {p \in working : p \notin ids /\ HostOf[p] \notin hosts /\ ExitOf[p] \notin exits}

\* best_matching: of these, the ones the policy allows.
BestMatching(ids, hosts, exits, q) == BestAvoiding(ids, hosts, exits) \cap Allowed[q]

\* When nothing matches: the device's own proxy, if the policy allows it.
Fallback(q) == IF active \in Allowed[q] THEN active ELSE NoProxy

Used == {recent[i] : i \in DOMAIN recent}

\* A bug: the oldest of the used proxies is never dropped.
RememberedForEver(p) == Append(recent, p)

Remembered(p) ==
    LET all == Append(recent, p)
    IN  SubSeq(all, IF Len(all) > RecentSize THEN Len(all) - RecentSize + 1 ELSE 1,
               Len(all))

\* A bug: a session that a failover pinned is kept, whatever the policy says.
HoldsUnderAnyPolicy(entry, q) == entry.live /\ entry.proxy \in known

\* A map's entry still holds: its window is open, the pool has the proxy and
\* the policy allows it.
Holds(entry, q) == entry.live /\ entry.proxy \in known /\ entry.proxy \in Allowed[q]

\* Where a request goes with the proxy it was given: a tunnel when the proxy
\* can carry one, plain forwarding on port 80, a refusal otherwise.  A proxy
\* outside `working` may or may not carry tunnels.
Serve(kind, p) ==
    IF p = NoProxy THEN {"idle"}
    ELSE IF kind = "connect" \/ p \in working THEN {"opening"}
    ELSE {"opening", IF kind = "plain" THEN "forwarding" ELSE "idle"}

\* Task r takes the request up; open_tunnel reads the addresses used lately.
Take(r, c, kind, p, used) ==
    /\ request[r] = Idle
    /\ arrivals < MaxArrivals /\ arrivals' = arrivals + 1
    /\ \E stage \in Serve(kind, p) :
         request' = [request EXCEPT ![r] =
                       IF stage = "idle" THEN Idle
                       ELSE [stage |-> stage, client |-> c, kind |-> kind,
                             first |-> p, proxy |-> p, tried |-> {},
                             exits |-> ExitsOf(used), left |-> MaxAttempts]]

-----------------------------------------------------------------------------
(* Choosing: proxy_for.                                                    *)

\* sticky_proxy.  A client without a pin that holds is given a proxy off the
\* entries, servers and exits of every other session, and off the ones it was
\* turned away from.
StickyProxy(r, c, kind) ==
    LET q == PolicyOf[c]
        others == {sessions[d].proxy : d \in Clients \ {c}} \ {NoProxy}
        found == BestMatching(others \cup avoided[c], HostsOf(others),
                              ExitsOf(others), q)
    IN  /\ RotationOf[q] = "sticky"
        /\ \/ /\ Holds(sessions[c], q)
              /\ Take(r, c, kind, sessions[c].proxy, Used)
              /\ UNCHANGED <<sessions, avoided>>
           \/ /\ ~Holds(sessions[c], q)
              /\ avoided' = [avoided EXCEPT ![c] = {}]
              /\ \/ \E p \in found :
                      /\ sessions' = [sessions EXCEPT ![c] = Pinned(p)]
                      /\ Take(r, c, kind, p, Used)
                 \/ /\ found = {}
                    /\ sessions' = [sessions EXCEPT ![c] = Nothing]
                    /\ Take(r, c, kind, Fallback(q), Used)
        /\ UNCHANGED <<pool_view, slots, recent, events>>

\* timed_proxy.  The proxy in front of the policy, or another one once its
\* window is over.
TimedProxy(r, c, kind) ==
    LET q == PolicyOf[c]
        found == BestMatching(Used \cup avoided[q], {}, ExitsOf(Used), q)
    IN  /\ RotationOf[q] = "time"
        /\ \/ /\ Holds(slots[q], q)
              /\ Take(r, c, kind, slots[q].proxy, Used)
              /\ UNCHANGED <<slots, avoided, recent>>
           \/ /\ ~Holds(slots[q], q)
              /\ avoided' = [avoided EXCEPT ![q] = {}]
              /\ \/ \E p \in found :
                      /\ slots' = [slots EXCEPT ![q] = Pinned(p)]
                      /\ recent' = Remembered(p)
                      /\ Take(r, c, kind, p, Used \cup {p})
                 \/ /\ found = {}
                    /\ Take(r, c, kind, Fallback(q), Used)
                    /\ UNCHANGED <<slots, recent>>
        /\ UNCHANGED <<pool_view, sessions, events>>

\* per_request_proxy.
PerRequestProxy(r, c, kind) ==
    LET q == PolicyOf[c]
        found == BestMatching(Used, {}, ExitsOf(Used), q)
    IN  /\ RotationOf[q] = "per_request"
        /\ \/ \E p \in found :
                /\ recent' = Remembered(p)
                /\ Take(r, c, kind, p, Used \cup {p})
           \/ /\ found = {}
              /\ Take(r, c, kind, Fallback(q), Used)
              /\ UNCHANGED recent
        /\ UNCHANGED <<pool_view, sessions, slots, avoided, events>>

-----------------------------------------------------------------------------
(* Carrying: open_tunnel, serve_tunnel and serve_request.                  *)

At(r, stage) == request[r].stage = stage

\* The connection is made; the session has not been written down yet.
Connects(r) ==
    /\ At(r, "opening") /\ request[r].proxy \notin Dead
    /\ request' = [request EXCEPT ![r].stage = "carried"]
    /\ UNCHANGED <<pool_view, sessions, slots, avoided, recent, arrivals, events>>

\* pin_session, in every rotation: the session belongs to the proxy that
\* carried the connection.  What follows is TunnelPipe.
PinSession(r) ==
    /\ At(r, "carried")
    /\ sessions' = [sessions EXCEPT ![request[r].client] = Pinned(request[r].proxy)]
    /\ request' = [request EXCEPT ![r] = Idle]
    /\ UNCHANGED <<pool_view, slots, avoided, recent, arrivals, events>>

\* A bug: the sessions are released, the pool is not told.
FailureUnreported(r) ==
    UNCHANGED <<pool_view, sessions, slots, avoided, recent, arrivals, events>>

\* record_failure, its first half: report_failure to the pool.
ReportFailure(r) ==
    /\ working' = working \ {request[r].proxy}
    /\ UNCHANGED <<known, active, sessions, slots, avoided, recent, arrivals, events>>

ConnectFails(r) ==
    /\ At(r, "opening")
    /\ ReportFailure(r)
    /\ request' = [request EXCEPT ![r].stage = "failed",
                                  ![r].left = @ - 1,
                                  ![r].tried = @ \cup {request[r].proxy}]

\* The second half: the sessions and slots on the proxy are released.
Released(entry, p) == IF entry.proxy = p THEN Nothing ELSE entry

Release(p) ==
    /\ sessions' = [c \in Clients |-> Released(sessions[c], p)]
    /\ slots' = [q \in Policies |->
                   IF slots[q].proxy = p THEN [slots[q] EXCEPT !.proxy = NoProxy]
                   ELSE slots[q]]

ReleaseThenReplace(r) ==
    /\ At(r, "failed")
    /\ Release(request[r].proxy)
    /\ request' = [request EXCEPT ![r].stage = "replacing"]
    /\ UNCHANGED <<pool_view, avoided, recent, arrivals, events>>

\* No more attempts: a plain request falls back to forwarding through the
\* proxy it was given first, any other is refused.
GivenUp(rq) ==
    IF rq.kind = "plain" THEN [rq EXCEPT !.stage = "forwarding", !.proxy = rq.first]
    ELSE Idle

\* A bug: the server behind another name is asked again.
OtherNames(r) == BestAvoiding(request[r].tried, {}, request[r].exits)

\* The next candidate, off the servers that failed, while attempts and budget
\* are left.
Replacements(r) ==
    BestAvoiding(request[r].tried, HostsOf(request[r].tried), request[r].exits)

Replace(r) ==
    /\ At(r, "replacing") /\ request[r].left > 0
    /\ \E p \in Replacements(r) :
         request' = [request EXCEPT ![r].stage = "opening", ![r].proxy = p]
    /\ UNCHANGED <<pool_view, sessions, slots, avoided, recent, arrivals, events>>

\* A bug: with attempts left and no candidate, the request waits for one.
WaitForOne(r) ==
    /\ At(r, "replacing") /\ request[r].left = 0
    /\ request' = [request EXCEPT ![r] = GivenUp(request[r])]
    /\ UNCHANGED <<pool_view, sessions, slots, avoided, recent, arrivals, events>>

GiveUp(r) ==
    /\ At(r, "replacing")
    /\ request' = [request EXCEPT ![r] = GivenUp(request[r])]
    /\ UNCHANGED <<pool_view, sessions, slots, avoided, recent, arrivals, events>>

\* Plain forwarding: the answer comes, or the client or the upstream breaks off
\* while it is written to; nothing is pinned, and nothing recorded.
Forwards(r) ==
    /\ At(r, "forwarding") /\ request[r].proxy \notin Dead
    /\ request' = [request EXCEPT ![r] = Idle]
    /\ UNCHANGED <<pool_view, sessions, slots, avoided, recent, arrivals, events>>

\* Or it does not, within the budget.
ForwardFails(r) ==
    /\ At(r, "forwarding")
    /\ ReportFailure(r)
    /\ request' = [request EXCEPT ![r].stage = "forward_failed"]

ReleaseThenRefuse(r) ==
    /\ At(r, "forward_failed")
    /\ Release(request[r].proxy)
    /\ request' = [request EXCEPT ![r] = Idle]
    /\ UNCHANGED <<pool_view, avoided, recent, arrivals, events>>

-----------------------------------------------------------------------------
(* The operator and the environment.                                       *)

Event == events < MaxEvents /\ events' = events + 1

\* rotate_credential: every session of the credential, under one lock.
RotateCredential(credential) ==
    LET held == {c \in Clients : CredentialOf[c] = credential /\ sessions[c] # Nothing}
    IN  /\ Event /\ held # {}
        /\ sessions' = [c \in Clients |-> IF c \in held THEN Nothing ELSE sessions[c]]
        /\ avoided' = [k \in DOMAIN avoided |->
                         IF k \in held THEN avoided[k] \cup {sessions[k].proxy}
                         ELSE avoided[k]]
        /\ UNCHANGED <<pool_view, slots, recent, request, arrivals>>

\* rotate_policy.  The code takes the two locks one after the other; a choice that
\* is made in between may take the proxy again, as one made before may keep it.
RotatePolicy(q) ==
    /\ Event /\ slots[q] # Nothing
    /\ slots' = [slots EXCEPT ![q] = Nothing]
    /\ avoided' = [avoided EXCEPT ![q] = @ \cup ({slots[q].proxy} \ {NoProxy})]
    /\ UNCHANGED <<pool_view, sessions, recent, request, arrivals>>

\* A window runs out.
SessionExpires(c) ==
    /\ Event /\ sessions[c].live
    /\ sessions' = [sessions EXCEPT ![c].live = FALSE]
    /\ UNCHANGED <<pool_view, slots, avoided, recent, request, arrivals>>

SlotExpires(q) ==
    /\ Event /\ slots[q].live
    /\ slots' = [slots EXCEPT ![q].live = FALSE]
    /\ UNCHANGED <<pool_view, sessions, avoided, recent, request, arrivals>>

\* What the engine does to the pool meanwhile: a probe settles a proxy, the
\* sweep drops one, the selection changes.
PoolChanges(p) ==
    /\ Event
    /\ \/ /\ p \notin Dead
          /\ known' = known \cup {p} /\ working' = working \cup {p}
          /\ UNCHANGED active
       \/ p \in working /\ working' = working \ {p} /\ UNCHANGED <<known, active>>
       \/ /\ p \in known
          /\ known' = known \ {p} /\ working' = working \ {p}
          /\ active' = IF active = p THEN NoProxy ELSE active
       \/ p \in known /\ active' = p /\ UNCHANGED <<known, working>>
    /\ UNCHANGED <<sessions, slots, avoided, recent, request, arrivals>>

-----------------------------------------------------------------------------

ProxyFor(r, c, kind) ==
    StickyProxy(r, c, kind) \/ TimedProxy(r, c, kind) \/ PerRequestProxy(r, c, kind)

Carry(r) ==
    \/ Connects(r) \/ PinSession(r)
    \/ ConnectFails(r) \/ ReleaseThenReplace(r) \/ Replace(r) \/ GiveUp(r)
    \/ Forwards(r) \/ ForwardFails(r) \/ ReleaseThenRefuse(r)

LocalNext ==
    \/ \E r \in Requests, c \in Clients, kind \in Kinds : ProxyFor(r, c, kind)
    \/ \E r \in Requests : Carry(r)
    \/ \E c \in Clients : RotateCredential(CredentialOf[c]) \/ SessionExpires(c)
    \/ \E q \in Policies : RotatePolicy(q) \/ SlotExpires(q)
    \/ \E p \in Ids : PoolChanges(p)

\* The runtime polls every task, and each step of a request ends.  The forwarder
\* has a timeout; connect_plain and the answer to the client have none, and end
\* when the operating system gives the connection up.
LocalSpec ==
    /\ LocalInit /\ [][LocalNext]_local_vars
    /\ \A r \in Requests : WF_local_vars(Carry(r))

-----------------------------------------------------------------------------
(* Properties.                                                             *)

Entries == [proxy: Ids \cup {NoProxy}, live: BOOLEAN]

LocalTypeOK ==
    /\ working \subseteq known /\ known \subseteq Ids
    /\ active \in known \cup {NoProxy}
    /\ sessions \in [Clients -> Entries]
    /\ slots \in [Policies -> Entries]
    /\ avoided \in [Clients \cup Policies -> SUBSET Ids]
    /\ recent \in Seq(Ids) /\ Len(recent) <= RecentSize
    /\ \A r \in Requests :
         request[r] # Idle => /\ request[r].client \in Clients
                              /\ request[r].proxy \in Ids
                              /\ request[r].first \in Ids
                              /\ request[r].tried \subseteq Ids
                              /\ request[r].left \in 0..MaxAttempts

\* Each attempt of one request to open a tunnel goes to another server: the pool
\* is full of one server under many names, and a server that did not answer is
\* not asked for another (local_proxy.rs:984-987).  The plain fallback, after the
\* last of them, goes back to the proxy the request began with.
AnotherServerEachTime ==
    \A r \in Requests :
      At(r, "opening") => HostOf[request[r].proxy] \notin HostsOf(request[r].tried)

\* Every request is carried or refused in the end, whatever fails on the way.  How
\* soon is not said: the budget of the search (local_proxy.rs:935-938) does not
\* bound connect_plain, which leaves the timeout of its options alone.
EveryRequestEnds ==
    \A r \in Requests : request[r] # Idle ~> request[r] = Idle

\* Once a request has found a dead proxy dead, no session is pinned to it, and
\* none is pinned to it again, whatever the other requests of its client or of
\* another were doing: the failure is recorded before the sessions are
\* released (local_proxy.rs:716-718 and 1047-1052).
NoSessionOnADeadProxy ==
    \A r \in Requests, p \in Dead, c \in Clients :
      p \in request[r].tried /\ ~(At(r, "failed") /\ request[r].proxy = p)
        => sessions[c].proxy # p

\* A request starts from a proxy its client's policy allows, and falls back to
\* plain forwarding through no other, although a failover pins sessions to proxies
\* chosen without the policy (pool/mod.rs:731-734, "the pool does not hand out a
\* proxy the policy would refuse").
TheFirstChoiceIsAllowed ==
    \A r \in Requests :
      LET allowed == Allowed[PolicyOf[request[r].client]]
      IN  request[r] # Idle =>
            /\ request[r].first \in allowed
            /\ At(r, "forwarding") => request[r].proxy \in allowed

\* No traffic leaves from a proxy the client's policy refuses (pool/mod.rs:
\* 731-734, "so the pool does not hand out a proxy the policy would refuse").
PolicyRespected ==
    \A r \in Requests :
      At(r, "carried") => request[r].proxy \in Allowed[PolicyOf[request[r].client]]
=============================================================================
