---------------------------- MODULE PolicyRoutes ----------------------------
(***************************************************************************)
(* How a routing policy reaches the kernel: the policy loop of             *)
(* proxy-daemon/src/main.rs with proxy-daemon/src/policy.rs, the routes    *)
(* that `sync_policy_routes` of tun_manager/mod.rs puts into the main      *)
(* table, and the two things the router is told, the names in its cache    *)
(* and the addresses that were routed.                                     *)
(*                                                                         *)
(* Every round resolves the names of the policy, one question at a time,   *)
(* and calls `ip` once for each route; either may fail.  A route has the   *)
(* shape of an address rule; a rule of full length is a bare address.      *)
(* Both families share one space of addresses, and no rule spans the two.  *)
(* The routes are of both; what the router is told, and what the device's  *)
(* loop can read, is IPv4 alone.                                           *)
(***************************************************************************)
EXTENDS RoutePolicy, FiniteSets

CONSTANTS
    Policy,         \* the RoutePolicy of the configuration
    Port,           \* the port of the traffic that is looked at
    Six,            \* the addresses that are IPv6
    Zones,          \* what the names of the policy may come to
    OtherHosts,     \* hosts the policy does not name
    MaxChanges,     \* bound: changes of the zone
    MaxFailures,    \* bound: lookups and commands that fail
    MaxRestarts     \* bound: restarts of the engine

hosts == {rule.labels : rule \in Policy.domains}

ASSUME PolicyRoutesAssumption ==
    /\ Zones \subseteq [hosts -> SUBSET Addresses]
    /\ Six \subseteq Addresses
    /\ \A rule \in Policy.cidrs \cup Policy.always_direct : \A a, b \in Addresses :
         matches_cidr(rule, a) /\ matches_cidr(rule, b) => (a \in Six <=> b \in Six)
    /\ OtherHosts \cap hosts = {} /\ NoName \notin hosts \cup OtherHosts
    /\ MaxChanges \in Nat /\ MaxFailures \in Nat /\ MaxRestarts \in Nat

VARIABLES
    zone,       \* the addresses behind each name of the policy
    at,         \* where the round is
    left,       \* names, addresses or routes the round has still to see to
    resolved,   \* PolicyRoutes: the destinations, and the name of each
    known,      \* addresses whose names the last round put into the cache
    cache,      \* the DNS cache of the router
    heard,      \* history: addresses a client's DNS answer spoke of
    routed,     \* the addresses the router takes for routed
    table,      \* the routes into the device
    wanted,     \* routes of this round that are in place
    installed,  \* installed_routes
    changes, failures, restarts

router_vars == <<cache, heard, routed>>
kernel_vars == <<table, wanted, installed>>
bounds == <<changes, failures, restarts>>
vars == <<zone, at, left, resolved, known, router_vars, kernel_vars, bounds>>

Host(a) == [net |-> a, prefix |-> Width]
Bare == {a \in Addresses : Host(a) \in Policy.cidrs}
Destinations == DOMAIN resolved
Fail == failures < MaxFailures /\ failures' = failures + 1

-----------------------------------------------------------------------------
(* resolve_policy.                                                         *)

Begin ==
    /\ at = "sleep"
    /\ at' = "resolve" /\ left' = hosts
    /\ resolved' = [a \in Bare |-> NoName]
    /\ UNCHANGED <<zone, known, router_vars, kernel_vars, bounds>>

\* A bug: a local address behind a name is covered too.
LookupLocalToo(h) ==
    /\ at = "resolve" /\ h \in left
    /\ left' = left \ {h}
    /\ resolved' = [a \in Destinations \cup zone[h] |-> IF a \in zone[h] THEN h ELSE resolved[a]]
    /\ UNCHANGED <<zone, at, known, router_vars, kernel_vars, bounds>>

\* Every address behind the name is covered, a local one excepted.
Lookup(h) ==
    /\ at = "resolve" /\ h \in left
    /\ left' = left \ {h}
    /\ LET found == {a \in zone[h] : ~is_local(a)}
       IN  resolved' = [a \in Destinations \cup found |-> IF a \in found THEN h ELSE resolved[a]]
    /\ UNCHANGED <<zone, at, known, router_vars, kernel_vars, bounds>>

\* A name that does not resolve covers nothing in this round.
LookupFails(h) ==
    /\ at = "resolve" /\ h \in left
    /\ Fail
    /\ left' = left \ {h}
    /\ UNCHANGED <<zone, at, resolved, known, router_vars, kernel_vars, changes, restarts>>

\* The names go into the cache, which knows IPv4 addresses only.
Named == {a \in Destinations \ Six : resolved[a] # NoName}

-----------------------------------------------------------------------------
(* The router is told.                                                     *)

Resolved ==
    /\ at = "resolve" /\ left = {}
    /\ at' = "names" /\ left' = Named
    /\ UNCHANGED <<zone, resolved, known, router_vars, kernel_vars, bounds>>

InsertName(a) ==
    /\ at = "names" /\ a \in left
    /\ cache' = [cache EXCEPT ![a] = resolved[a]]
    /\ left' = left \ {a}
    /\ UNCHANGED <<zone, at, resolved, known, heard, routed, kernel_vars, bounds>>

\* A bug: the names of this round are not remembered for the next one.
NamesInsertedOnce ==
    /\ at = "names" /\ left = {}
    /\ at' = "forget" /\ left' = known \ Named
    /\ known' = {}
    /\ UNCHANGED <<zone, resolved, router_vars, kernel_vars, bounds>>

NamesInserted ==
    /\ at = "names" /\ left = {}
    /\ at' = "forget" /\ left' = known \ Named
    /\ known' = Named
    /\ UNCHANGED <<zone, resolved, router_vars, kernel_vars, bounds>>

ForgetName(a) ==
    /\ at = "forget" /\ a \in left
    /\ cache' = [cache EXCEPT ![a] = NoName]
    /\ left' = left \ {a}
    /\ UNCHANGED <<zone, at, resolved, known, heard, routed, kernel_vars, bounds>>

\* routes_for: the address rules as they stand, the destinations one by one,
\* of either family.
routes_for == Policy.cidrs \cup {Host(a) : a \in Destinations}

\* A bug: the router keeps what it was told before.
TellRouterLess ==
    /\ at = "forget" /\ left = {}
    /\ routed' = routed \cap Destinations
    /\ at' = "replace" /\ left' = routes_for /\ wanted' = {}
    /\ UNCHANGED <<zone, resolved, known, cache, heard, table, installed, bounds>>

TellRouter ==
    /\ at = "forget" /\ left = {}
    /\ routed' = Destinations \ Six
    /\ at' = "replace" /\ left' = routes_for /\ wanted' = {}
    /\ UNCHANGED <<zone, resolved, known, cache, heard, table, installed, bounds>>

-----------------------------------------------------------------------------
(* sync_policy_routes.                                                     *)

\* A refusal because the very route exists counts as in place, and leaves the
\* table as it is: the same step.
ReplaceRoute(r) ==
    /\ at = "replace" /\ r \in left
    /\ table' = table \cup {r} /\ wanted' = wanted \cup {r}
    /\ left' = left \ {r}
    /\ UNCHANGED <<zone, at, resolved, known, router_vars, installed, bounds>>

\* A bug: a route the kernel refused is taken for installed.
RouteRefusedUnseen(r) ==
    /\ at = "replace" /\ r \in left
    /\ Fail
    /\ wanted' = wanted \cup {r}
    /\ left' = left \ {r}
    /\ UNCHANGED <<zone, at, resolved, known, router_vars, table, installed, changes, restarts>>

\* The kernel refuses the route; the others are tried.
RouteRefused(r) ==
    /\ at = "replace" /\ r \in left
    /\ Fail
    /\ left' = left \ {r}
    /\ UNCHANGED <<zone, at, resolved, known, router_vars, kernel_vars, changes, restarts>>

\* The command cannot be run: the round ends there and records nothing.
CommandFails ==
    /\ at = "replace" /\ left # {}
    /\ Fail
    /\ at' = "sleep" /\ left' = {}
    /\ UNCHANGED <<zone, resolved, known, router_vars, kernel_vars, changes, restarts>>

RoutesReplaced ==
    /\ at = "replace" /\ left = {}
    /\ at' = "remove" /\ left' = installed \ wanted
    /\ UNCHANGED <<zone, resolved, known, router_vars, kernel_vars, bounds>>

\* Whether the deletion worked is not looked at.
RemoveRoute(r) ==
    /\ at = "remove" /\ r \in left
    /\ \/ table' = table \ {r} /\ UNCHANGED failures
       \/ Fail /\ UNCHANGED table
    /\ left' = left \ {r}
    /\ UNCHANGED <<zone, at, resolved, known, router_vars, wanted, installed, changes, restarts>>

\* A bug: the list of the installed routes is not kept.
RecordNothing ==
    /\ at = "remove" /\ left = {}
    /\ at' = "sleep"
    /\ UNCHANGED <<zone, left, resolved, known, router_vars, kernel_vars, bounds>>

Record ==
    /\ at = "remove" /\ left = {}
    /\ installed' = wanted
    /\ at' = "sleep"
    /\ UNCHANGED <<zone, left, resolved, known, router_vars, table, wanted, bounds>>

Round ==
    \/ Begin \/ Resolved \/ NamesInserted \/ TellRouter \/ RoutesReplaced \/ Record
    \/ \E h \in hosts : Lookup(h)
    \/ \E a \in Addresses : InsertName(a) \/ ForgetName(a)
    \/ \E r \in routes_for : ReplaceRoute(r)
    \/ \E r \in installed : RemoveRoute(r)

Trouble ==
    \/ \E h \in hosts : LookupFails(h)
    \/ \E r \in routes_for : RouteRefused(r)
    \/ CommandFails

-----------------------------------------------------------------------------
(* Everybody else.                                                         *)

\* The owner of a name moves it.
ZoneChanges ==
    /\ changes < MaxChanges /\ changes' = changes + 1
    /\ zone' \in Zones \ {zone}
    /\ UNCHANGED <<at, left, resolved, known, router_vars, kernel_vars, failures, restarts>>

\* pump_udp: the answer to a client's question goes into the same cache.
DnsAnswer(a, h) ==
    /\ cache' = [cache EXCEPT ![a] = h]
    /\ heard' = heard \cup {a}
    /\ UNCHANGED <<zone, at, left, resolved, known, routed, kernel_vars, bounds>>

\* The device goes with the process, and its routes with the device.
Restart ==
    /\ restarts < MaxRestarts /\ restarts' = restarts + 1
    /\ at' = "sleep" /\ left' = {} /\ resolved' = [a \in {} |-> NoName]
    /\ known' = {} /\ heard' = {} /\ routed' = {}
    /\ cache' = [a \in Addresses |-> NoName]
    /\ table' = {} /\ wanted' = {} /\ installed' = {}
    /\ UNCHANGED <<zone, changes, failures>>

Init ==
    /\ zone \in Zones
    /\ at = "sleep" /\ left = {} /\ resolved = [a \in {} |-> NoName]
    /\ known = {} /\ heard = {} /\ routed = {}
    /\ cache = [a \in Addresses |-> NoName]
    /\ table = {} /\ wanted = {} /\ installed = {}
    /\ changes = 0 /\ failures = 0 /\ restarts = 0

Next ==
    \/ Round \/ Trouble \/ ZoneChanges \/ Restart
    \/ \E a \in Addresses \ Six :
         \E h \in OtherHosts \cup {h \in hosts : a \in zone[h]} : DnsAnswer(a, h)

\* The loop sleeps five minutes and goes on; a failure is nobody's due.
Spec == Init /\ [][Next]_vars /\ WF_vars(Round)

-----------------------------------------------------------------------------
(* Properties.                                                             *)

\* The shape of the state; no name covers a local address.
RoutesTypeOK ==
    /\ at \in {"sleep", "resolve", "names", "forget", "replace", "remove"}
    /\ Destinations \subseteq Addresses
    /\ \A a \in Destinations : a \in Bare \/ (resolved[a] \in hosts /\ ~is_local(a))
    /\ known \subseteq Addresses /\ routed \subseteq Addresses
    /\ cache \in [Addresses -> hosts \cup OtherHosts \cup {NoName}]
    /\ installed \subseteq Policy.cidrs \cup {Host(a) : a \in Addresses}

Exempt(a) == is_local(a) \/ AlwaysDirect(Policy, a, Port)
Enters(a) == \E r \in table : matches_cidr(r, a)

\* What the device's loop makes of a connection to an address: it passes over
\* a packet that is not IPv4, and asks Router::decide about the rest.
Verdict(a) ==
    IF a \in Six THEN "dropped"
    ELSE IF Exempt(a) THEN "direct"
    ELSE IF a \in routed THEN "proxy"
    ELSE Decide(Policy, a, Port, cache[a])

Informed ==
    /\ Policy.mode = "allowlist"
    /\ at \in {"replace", "remove", "sleep"} \/ (failures = 0 /\ Policy.ports = {})

\* Of an allow list: a covered IPv4 address the kernel sends into the device
\* is proxied, whatever the cache was told meanwhile: from the first route of a
\* round on, and, without ports and while nothing failed, always.
WhatEntersIsProxied ==
    Informed =>
        \A a \in Destinations \ Six : Enters(a) /\ ~Exempt(a) => Verdict(a) = "proxy"

\* main.rs:946-948, of the addresses handed to the router: "The router is told
\* what the device is carrying, so a connection that arrives there is proxied
\* even when the router never learned the name behind the address."  Of either
\* family.
WhatTheDeviceCarriesIsProxied ==
    Informed =>
        \A a \in Destinations : Enters(a) /\ ~Exempt(a) => Verdict(a) = "proxy"

\* What the engine believes it routed is in the kernel's table between rounds,
\* through refused routes, rounds cut short and deletions that failed.
RecordedRoutesAreThere == at = "sleep" => installed \subseteq table

\* Between rounds the cache names no address the policy has left, unless a
\* client's own DNS answer spoke of it.
StaleNamesAreForgotten ==
    at = "sleep" => \A a \in Addresses \ heard :
        cache[a] = IF a \in Destinations \ Six THEN resolved[a] ELSE NoName

Covered ==
    Policy.cidrs \cup {Host(a) : a \in {b \in Addresses : ~is_local(b) /\ \E h \in hosts : b \in zone[h]}}

\* Once names stop moving and failures stop, what the policy covers is in the
\* table for good; and where nothing ever failed, nothing else is.  (A deletion
\* that failed is not repeated: its route stays until the device goes.)
TheTableCatchesUp ==
    /\ <>[](Covered \subseteq table)
    /\ [](failures = 0) => <>[](table = Covered)

\* config/proxy-switcher.toml, of the rules: "The mode has to be "allowlist" for
\* these to matter. While the mode is "none" nothing is proxied".
NoneProxiesNothing == Policy.mode = "none" => \A a \in Addresses : Verdict(a) # "proxy"
=============================================================================
