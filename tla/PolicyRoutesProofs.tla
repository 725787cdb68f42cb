------------------------- MODULE PolicyRoutesProofs -------------------------
(***************************************************************************)
(* The cache, the router and the kernel's table under the policy loop, for *)
(* every policy, every width of an address, either family and every number *)
(* of failures.                                                            *)
(***************************************************************************)
EXTENDS PolicyRoutes, TLAPS

Routes == Policy.cidrs \cup {Host(a) : a \in Addresses}

\* What the places of the loop leave in the variables.
Types ==
    /\ at \in {"sleep", "resolve", "names", "forget", "replace", "remove"}
    /\ zone \in [hosts -> SUBSET Addresses]
    /\ Destinations \subseteq Addresses
    /\ \A a \in Destinations :
         \/ resolved[a] = NoName /\ a \in Bare
         \/ resolved[a] \in hosts /\ ~is_local(a)
    /\ known \subseteq Addresses /\ routed \subseteq Addresses
    /\ cache \in [Addresses -> hosts \cup OtherHosts \cup {NoName}]
    /\ installed \subseteq Routes
    /\ failures \in Nat

\* What is recorded, and what is about to be recorded, is in the table.
Tables ==
    /\ at \in {"replace", "remove"} => wanted \subseteq routes_for \cap table
    /\ at = "remove" => left \cap wanted = {}
    /\ at # "remove" => installed \subseteq table

\* The router is told before the table changes; without failures nothing else
\* is in the table.
Told ==
    /\ at \in {"replace", "remove", "sleep"} => routed = Destinations \ Six
    /\ failures = 0 =>
         /\ at \notin {"replace", "remove"} =>
              /\ table \subseteq installed
              /\ installed \subseteq Policy.cidrs \cup {Host(a) : a \in routed \cup Six}
         /\ at = "replace" => table \subseteq installed \cup wanted
         /\ at = "remove" => table \subseteq wanted \cup left

\* How far the names of the round are in the cache, and those of the last one
\* out of it.
Cached ==
    /\ at = "resolve" => \A a \in Addresses \ heard : cache[a] # NoName => a \in known
    /\ at = "names" =>
         /\ left \subseteq Named
         /\ \A a \in Addresses \ heard :
              /\ a \in Named \ left => cache[a] = resolved[a]
              /\ a \notin Named \cup known => cache[a] = NoName
    /\ at = "forget" =>
         /\ known = Named /\ left \cap Named = {}
         /\ \A a \in Addresses \ heard :
              /\ a \in Named => cache[a] = resolved[a]
              /\ a \notin Named \cup left => cache[a] = NoName
    /\ at \in {"replace", "remove", "sleep"} =>
         /\ known = Named
         /\ \A a \in Addresses \ heard :
              cache[a] = IF a \in Named THEN resolved[a] ELSE NoName

IndInv == Types /\ Tables /\ Told /\ Cached

-----------------------------------------------------------------------------
(* The invariant is inductive.                                             *)

LEMMA InitInv == Init => IndInv
<1> SUFFICES ASSUME Init PROVE IndInv
  OBVIOUS
<1>1. Destinations = {} /\ Named = {}
  BY DEF Init, Destinations, Named
<1>2. Types
  BY <1>1, PolicyRoutesAssumption DEF Init, Types
<1>3. Tables /\ Told /\ Cached
  BY <1>1 DEF Init, Tables, Told, Cached
<1> QED
  BY <1>2, <1>3 DEF IndInv

\* The steps of the loop that resolve the names.
LEMMA ResolveInv ==
    ASSUME IndInv,
           Begin \/ Resolved \/ \E h \in hosts : Lookup(h) \/ LookupFails(h)
    PROVE  IndInv'
<1> USE DEF IndInv, router_vars, kernel_vars, bounds
<1>1. CASE Begin
  <2>1. Destinations' = Bare /\ \A a \in Bare : resolved'[a] = NoName
    BY <1>1 DEF Begin, Destinations
  <2>2. Types'
    BY <1>1, <2>1 DEF Begin, Types, Bare
  <2>3. Tables' /\ Told' /\ Cached'
    BY <1>1 DEF Begin, Tables, Told, Cached, Named
  <2> QED
    BY <2>2, <2>3
<1>2. CASE Resolved
  <2>1. Destinations' = Destinations /\ Named' = Named /\ left' = Named
    BY <1>2 DEF Resolved, Destinations, Named
  <2>2. Types'
    BY <1>2, <2>1 DEF Resolved, Types
  <2>3. Tables' /\ Told' /\ Cached'
    BY <1>2, <2>1 DEF Resolved, Tables, Told, Cached
  <2> QED
    BY <2>2, <2>3
<1>3. ASSUME NEW h \in hosts, Lookup(h) PROVE IndInv'
  <2> DEFINE found == {a \in zone[h] : ~is_local(a)}
  <2>1. /\ Destinations' = Destinations \cup found
        /\ \A a \in Destinations' : resolved'[a] = IF a \in found THEN h ELSE resolved[a]
    BY <1>3 DEF Lookup, Destinations
  <2>2. found \subseteq Addresses
    BY DEF Types
  <2>3. Types'
    BY <1>3, <2>1, <2>2 DEF Lookup, Types
  <2>4. Tables' /\ Told' /\ Cached'
    BY <1>3 DEF Lookup, Tables, Told, Cached
  <2> QED
    BY <2>3, <2>4
<1>4. ASSUME NEW h \in hosts, LookupFails(h) PROVE IndInv'
  <2>1. Destinations' = Destinations
    BY <1>4 DEF LookupFails, Destinations
  <2>2. Types'
    BY <1>4, <2>1 DEF LookupFails, Fail, Types
  <2>3. Tables' /\ Told' /\ Cached'
    BY <1>4 DEF LookupFails, Fail, Types, Tables, Told, Cached
  <2> QED
    BY <2>2, <2>3
<1> QED
  BY <1>1, <1>2, <1>3, <1>4

\* The steps that tell the router.
LEMMA TellInv ==
    ASSUME IndInv,
           \/ NamesInserted \/ TellRouter
           \/ \E a \in Addresses : InsertName(a) \/ ForgetName(a)
    PROVE  IndInv'
<1> USE DEF IndInv, router_vars, kernel_vars, bounds
<1>1. Destinations' = Destinations /\ Named' = Named /\ resolved' = resolved
  BY DEF NamesInserted, TellRouter, InsertName, ForgetName, Destinations, Named
<1>2. Named \subseteq Destinations
  BY DEF Named
<1>3. CASE NamesInserted
  <2>1. Types'
    BY <1>1, <1>2, <1>3 DEF NamesInserted, Types
  <2>2. Tables' /\ Told'
    BY <1>3 DEF NamesInserted, Tables, Told
  <2>3. Cached'
    BY <1>1, <1>3 DEF NamesInserted, Cached
  <2> QED
    BY <2>1, <2>2, <2>3
<1>4. CASE TellRouter
  <2>1. Types'
    BY <1>1, <1>4 DEF TellRouter, Types
  <2>2. Tables' /\ Told'
    BY <1>1, <1>4 DEF TellRouter, Tables, Told
  <2>3. Cached'
    BY <1>1, <1>4 DEF TellRouter, Cached
  <2> QED
    BY <2>1, <2>2, <2>3
<1>5. ASSUME NEW a \in Addresses, InsertName(a) PROVE IndInv'
  <2>1. a \in Named
    BY <1>5 DEF InsertName, Cached
  <2>2. resolved[a] \in hosts
    BY <2>1 DEF Types, Named
  <2>3. Types'
    BY <1>1, <1>5, <2>2 DEF InsertName, Types
  <2>4. Tables' /\ Told'
    BY <1>5 DEF InsertName, Tables, Told
  <2>5. Cached'
    BY <1>1, <1>5, <2>1 DEF InsertName, Cached, Types
  <2> QED
    BY <2>3, <2>4, <2>5
<1>6. ASSUME NEW a \in Addresses, ForgetName(a) PROVE IndInv'
  <2>1. Types'
    BY <1>1, <1>6 DEF ForgetName, Types
  <2>2. Tables' /\ Told'
    BY <1>6 DEF ForgetName, Tables, Told
  <2>3. Cached'
    BY <1>1, <1>6 DEF ForgetName, Cached, Types
  <2> QED
    BY <2>1, <2>2, <2>3
<1> QED
  BY <1>3, <1>4, <1>5, <1>6

\* The steps that change the table.
LEMMA SyncInv ==
    ASSUME IndInv,
           \/ RoutesReplaced \/ Record \/ CommandFails
           \/ \E r \in routes_for : ReplaceRoute(r) \/ RouteRefused(r)
           \/ \E r \in installed : RemoveRoute(r)
    PROVE  IndInv'
<1> USE DEF IndInv, router_vars, kernel_vars, bounds
<1>1. /\ Destinations' = Destinations /\ Named' = Named /\ resolved' = resolved
      /\ routes_for' = routes_for /\ cache' = cache /\ heard' = heard /\ known' = known
      /\ routed' = routed /\ zone' = zone
      /\ at \in {"replace", "remove"} /\ at' \in {"replace", "remove", "sleep"}
  BY DEF RoutesReplaced, Record, CommandFails, ReplaceRoute, RouteRefused, RemoveRoute,
         Destinations, Named, routes_for
<1>2. Cached'
  BY <1>1 DEF Cached
<1>3. routes_for \subseteq Routes
  BY DEF routes_for, Routes, Types
<1>4. ASSUME installed' \subseteq Routes, failures' \in Nat PROVE Types'
  BY <1>1, <1>4 DEF Types
<1>5. CASE RoutesReplaced
  <2>1. Types'
    BY <1>4, <1>5 DEF RoutesReplaced, Types
  <2>2. Tables' /\ Told'
    BY <1>1, <1>5 DEF RoutesReplaced, Tables, Told
  <2> QED
    BY <1>2, <2>1, <2>2
<1>6. CASE Record
  <2>1. Types'
    BY <1>3, <1>4, <1>6 DEF Record, Types, Tables
  <2>2. Tables'
    BY <1>6 DEF Record, Tables
  <2>3. Told'
    BY <1>1, <1>6 DEF Record, Told, Tables, routes_for
  <2> QED
    BY <1>2, <2>1, <2>2, <2>3
<1>7. CASE CommandFails
  <2>1. failures' \in Nat \ {0}
    BY <1>7 DEF CommandFails, Fail, Types
  <2>2. Types'
    BY <1>4, <1>7, <2>1 DEF CommandFails, Types
  <2>3. Tables' /\ Told'
    BY <1>1, <1>7, <2>1 DEF CommandFails, Tables, Told
  <2> QED
    BY <1>2, <2>2, <2>3
<1>8. ASSUME NEW r \in routes_for, ReplaceRoute(r) PROVE IndInv'
  <2>1. Types'
    BY <1>4, <1>8 DEF ReplaceRoute, Types
  <2>2. Tables' /\ Told'
    BY <1>1, <1>8 DEF ReplaceRoute, Tables, Told
  <2> QED
    BY <1>2, <2>1, <2>2
<1>9. ASSUME NEW r \in routes_for, RouteRefused(r) PROVE IndInv'
  <2>1. failures' \in Nat \ {0}
    BY <1>9 DEF RouteRefused, Fail, Types
  <2>2. Types'
    BY <1>4, <1>9, <2>1 DEF RouteRefused, Types
  <2>3. Tables' /\ Told'
    BY <1>1, <1>9, <2>1 DEF RouteRefused, Tables, Told
  <2> QED
    BY <1>2, <2>2, <2>3
<1>10. ASSUME NEW r \in installed, RemoveRoute(r) PROVE IndInv'
  <2>1. failures' \in Nat /\ (table' = table => failures' # 0 \/ r \notin table)
    BY <1>10 DEF RemoveRoute, Fail, Types
  <2>2. Types'
    BY <1>4, <1>10, <2>1 DEF RemoveRoute, Types
  <2>3. Tables' /\ Told'
    BY <1>1, <1>10 DEF RemoveRoute, Fail, Types, Tables, Told
  <2> QED
    BY <1>2, <2>2, <2>3
<1> QED
  BY <1>5, <1>6, <1>7, <1>8, <1>9, <1>10

\* The steps of everybody else.
LEMMA WorldInv ==
    ASSUME IndInv,
           \/ ZoneChanges \/ Restart
           \/ \E a \in Addresses \ Six :
                \E h \in OtherHosts \cup {n \in hosts : a \in zone[n]} : DnsAnswer(a, h)
    PROVE  IndInv'
<1> USE DEF IndInv, router_vars, kernel_vars, bounds
<1>1. CASE ZoneChanges
  <2>1. Destinations' = Destinations /\ Named' = Named /\ routes_for' = routes_for
    BY <1>1 DEF ZoneChanges, Destinations, Named, routes_for
  <2>2. zone' \in [hosts -> SUBSET Addresses]
    BY <1>1, PolicyRoutesAssumption DEF ZoneChanges
  <2>3. Types'
    BY <1>1, <2>1, <2>2 DEF ZoneChanges, Types
  <2>4. Tables' /\ Told' /\ Cached'
    BY <1>1, <2>1 DEF ZoneChanges, Tables, Told, Cached
  <2> QED
    BY <2>3, <2>4
<1>2. CASE Restart
  <2>1. Destinations' = {} /\ Named' = {}
    BY <1>2 DEF Restart, Destinations, Named
  <2>2. Types'
    BY <1>2, <2>1 DEF Restart, Types
  <2>3. Tables' /\ Told' /\ Cached'
    BY <1>2, <2>1 DEF Restart, Tables, Told, Cached
  <2> QED
    BY <2>2, <2>3
<1>3. ASSUME NEW a \in Addresses \ Six, NEW h \in OtherHosts \cup hosts, DnsAnswer(a, h)
      PROVE  IndInv'
  <2>1. Destinations' = Destinations /\ Named' = Named /\ routes_for' = routes_for
    BY <1>3 DEF DnsAnswer, Destinations, Named, routes_for
  <2>2. Types'
    BY <1>3, <2>1 DEF DnsAnswer, Types
  <2>3. Tables' /\ Told'
    BY <1>3, <2>1 DEF DnsAnswer, Tables, Told
  <2>4. \A b \in Addresses \ heard' : b \in Addresses \ heard /\ cache'[b] = cache[b]
    BY <1>3 DEF DnsAnswer, Types
  <2>5. Cached'
    BY <1>3, <2>1, <2>4 DEF DnsAnswer, Cached
  <2> QED
    BY <2>2, <2>3, <2>5
<1> QED
  BY <1>1, <1>2, <1>3

\* The invariant the other theorems rest on.
THEOREM Invariance == Spec => []IndInv
<1>1. IndInv /\ [Next]_vars => IndInv'
  <2> SUFFICES ASSUME IndInv, [Next]_vars PROVE IndInv'
    OBVIOUS
  <2>1. CASE Next
    BY <2>1, ResolveInv, TellInv, SyncInv, WorldInv DEF Next, Round, Trouble
  <2>2. CASE UNCHANGED vars
    BY <2>2 DEF vars, router_vars, kernel_vars, bounds, IndInv, Types, Tables, Told, Cached,
                Destinations, Named, routes_for
  <2> QED
    BY <2>1, <2>2
<1> QED
  BY InitInv, <1>1, PTL DEF Spec

-----------------------------------------------------------------------------
(* What follows from it.                                                   *)

\* The shape of the state: in particular no name covers a local address.
THEOREM TypeCorrect == Spec => []RoutesTypeOK
<1>1. IndInv => RoutesTypeOK
  BY DEF IndInv, Types, RoutesTypeOK, Routes
<1> QED
  BY Invariance, <1>1, PTL

\* Refused routes, commands that cannot be run and deletions that failed never
\* make the engine believe in a route that is not there.
THEOREM RecordIsTrue == Spec => []RecordedRoutesAreThere
<1>1. IndInv => RecordedRoutesAreThere
  BY DEF IndInv, Tables, RecordedRoutesAreThere
<1> QED
  BY Invariance, <1>1, PTL

\* Whatever moved and whatever failed, a round leaves no name behind that the
\* policy does not cover any more.
THEOREM NamesAreCurrent == Spec => []StaleNamesAreForgotten
<1>1. IndInv => StaleNamesAreForgotten
  BY DEF IndInv, Cached, StaleNamesAreForgotten, Named
<1> QED
  BY Invariance, <1>1, PTL

\* A route of one address is for that address alone.
LEMMA HostRoute ==
    ASSUME NEW a \in Addresses, NEW b \in Addresses, matches_cidr(Host(b), a)
    PROVE  a = b
<1>1. Width - Width = 0 /\ 2^0 = 1
  BY RoutePolicyAssumption
<1>2. b \div 1 = a \div 1
  BY <1>1 DEF matches_cidr, Host
<1>3. a \in Nat /\ b \in Nat
  BY DEF Addresses
<1> QED
  BY <1>2, <1>3

\* In a policy without ports, whatever an address rule matches is listed.
LEMMA RuleIsProxied ==
    ASSUME NEW a \in Addresses, NEW rule \in Policy.cidrs, matches_cidr(rule, a),
           Policy.ports = {}, Policy.mode = "allowlist", ~Exempt(a),
           a \notin Six
    PROVE  Verdict(a) = "proxy"
  BY DEF Verdict, Decide, MatchesAny, Exempt

\* A covered IPv4 address the kernel sends into the device is proxied: the
\* router knows of it before the kernel does, and forgets it no earlier.
THEOREM CoveredTrafficIsProxied == Spec => []WhatEntersIsProxied
<1>1. IndInv => WhatEntersIsProxied
  <2> SUFFICES ASSUME IndInv, Policy.mode = "allowlist",
                      \/ at \in {"replace", "remove", "sleep"}
                      \/ failures = 0 /\ Policy.ports = {},
                      NEW a \in Destinations \ Six, Enters(a), ~Exempt(a)
               PROVE  Verdict(a) = "proxy"
    BY DEF WhatEntersIsProxied, Informed
  <2>1. CASE a \in routed
    BY <2>1 DEF Verdict
  <2>2. CASE a \notin routed
    <3>1. failures = 0 /\ Policy.ports = {} /\ at \notin {"replace", "remove"}
      BY <2>2 DEF IndInv, Told
    <3>2. PICK r \in table : matches_cidr(r, a)
      BY DEF Enters
    <3>3. r \in Policy.cidrs \cup {Host(b) : b \in routed \cup Six}
      BY <3>1 DEF IndInv, Told
    <3>4. a \in Addresses \ Six /\ routed \cup Six \subseteq Addresses
      BY PolicyRoutesAssumption DEF IndInv, Types
    <3>5. r \in Policy.cidrs
      BY <2>2, <3>2, <3>3, <3>4, HostRoute
    <3> QED
      BY <3>1, <3>2, <3>4, <3>5, RuleIsProxied
  <2> QED
    BY <2>1, <2>2
<1> QED
  BY Invariance, <1>1, PTL
=============================================================================
