------------------------------ MODULE PoolSpec ------------------------------
(***************************************************************************)
(* What the proxy pool promises to the rest of the engine, with nothing of *)
(* how it is stored: a set of proxies, at most one of which is the active  *)
(* one, and the set of proxies that were removed for good.  The vector,    *)
(* the id index and the active slot of ProxyPool implement it.             *)
(***************************************************************************)

CONSTANTS
    Ids,        \* the identifiers a proxy may have
    NoProxy     \* "no proxy is active"

ASSUME NoProxyAssumption == NoProxy \notin Ids

VARIABLES
    members,    \* the proxies the pool holds
    active,     \* the proxy the traffic is routed through, or NoProxy
    barred      \* the proxies that must not be discovered again

vars == <<members, active, barred>>

TypeOK ==
    /\ members \in SUBSET Ids
    /\ active \in members \cup {NoProxy}
    /\ barred \in SUBSET Ids

Init ==
    /\ members = {}
    /\ active = NoProxy
    /\ barred = {}

\* The selection survives a removal unless the selected proxy is removed.
StillActive(kept) == IF active \in kept THEN active ELSE NoProxy

\* A pool restored at boot, before anything else is known.
Boot(S) ==
    /\ barred = {}
    /\ members' = members \cup S
    /\ UNCHANGED <<active, barred>>

\* A scrape found proxies: never one that was removed for good.
Discover(S) ==
    /\ S \cap barred = {}
    /\ members' = members \cup S
    /\ UNCHANGED <<active, barred>>

\* The operator names a proxy: taken whatever was known about it.
Vouch(id) ==
    /\ members' = members \cup {id}
    /\ UNCHANGED <<active, barred>>

\* Proxies leave: the capacity was exceeded, or the operator removed one.
Drop(S) ==
    /\ members' = members \ S
    /\ active' = StillActive(members \ S)
    /\ UNCHANGED barred

\* Proxies leave for good.
Evict(S) ==
    /\ members' = members \ S
    /\ active' = StillActive(members \ S)
    /\ barred' = barred \cup S

\* The proxies removed before the last restart are remembered.
Bar(S) ==
    /\ barred' = barred \cup S
    /\ UNCHANGED <<members, active>>

Select(id) ==
    /\ id \in members
    /\ active' = id
    /\ UNCHANGED <<members, barred>>

Deselect ==
    /\ active' = NoProxy
    /\ UNCHANGED <<members, barred>>

Next ==
    \/ \E S \in SUBSET Ids :
         Boot(S) \/ Discover(S) \/ Drop(S) \/ Evict(S) \/ Bar(S)
    \/ \E id \in Ids : Vouch(id) \/ Select(id)
    \/ Deselect

Spec == Init /\ [][Next]_vars
=============================================================================
