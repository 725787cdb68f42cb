----------------------------- MODULE ProxyPool -----------------------------
(***************************************************************************)
(* The proxy pool of crates/proxy-core/src/pool/mod.rs.                    *)
(*                                                                         *)
(* PoolInner is one structure behind one RwLock and every method holds the *)
(* lock from its first read to its last write, so a method is one action.  *)
(* The records live in a vector; `index` maps an id to its slot;           *)
(* `active_index` is the slot of the proxy the traffic is routed through.  *)
(*                                                                         *)
(* Instants are kept relative to now: `last_success` and `first_seen` are  *)
(* ages, `next_probe_at` is the time left until the proxy is due, and Tick *)
(* is the passage of time.  An age that no comparison tells apart any more *)
(* (MaxAge, UnverifiedTtl) stops growing.                                  *)
(***************************************************************************)
EXTENDS Integers, Sequences, FiniteSets

CONSTANTS
    Ids,                \* the proxies the world publishes
    NoProxy,            \* no proxy selected
    Hosts, HostOf,      \* the server behind each entry
    Exits, ExitOf,      \* the address traffic leaves from, once measured
    NoExit,             \* the exit address is not known yet
    Countries, CountryOf,   \* what the geo database says of an exit
    NoCountry,          \* the country is not known
    Latencies,          \* latency classes a probe can measure; smaller is faster
    TopScore,           \* the score of a proxy of latency class 1
    MinScore,           \* the score floor of a selection
    MaxFailures,        \* EvictionPolicy.max_consecutive_failures
    FailureCap,         \* streaks longer than this are not told apart
    UnverifiedTtl,      \* EvictionPolicy.unverified_ttl_secs, in ticks
    MaxAge,             \* ages of a success beyond this are not told apart
    WorkingInterval,    \* ProbeSchedule.working_interval_secs, in ticks
    InconclusiveBackoff,\* ProbeSchedule.inconclusive_backoff_secs, in ticks
    ProbeBackoff,       \* ProbeSchedule.failed_backoff_secs of the daemon
    TrafficBackoff,     \* failed_backoff_secs of the pool's own schedule
    DefaultBackoff,     \* the wait when the backoff list is empty
    MaxProxies,         \* pool.max_proxies
    SavedPools          \* what the proxies table may hold at boot

ASSUME ConstantsAssumption ==
    /\ NoProxy \notin Ids
    /\ HostOf \in [Ids -> Hosts]
    /\ ExitOf \in [Ids -> Exits] /\ NoExit \notin Exits
    /\ CountryOf \in [Exits -> Countries \cup {NoCountry}]
    /\ NoCountry \notin Countries
    /\ Latencies \subseteq Nat
    /\ TopScore \in Nat /\ MinScore \in Nat
    /\ MaxFailures \in Nat \ {0} /\ FailureCap \in Nat /\ MaxFailures <= FailureCap
    /\ UnverifiedTtl \in Nat /\ MaxAge \in Nat
    /\ WorkingInterval \in Nat /\ InconclusiveBackoff \in Nat
    /\ DefaultBackoff \in Nat
    /\ ProbeBackoff \in Seq(Nat) /\ TrafficBackoff \in Seq(Nat)
    /\ MaxProxies \in Nat

VARIABLES
    proxies,            \* Vec<ProxyInfo>, in slot order
    index,              \* HashMap<String, usize>: the slot of an id
    active_index,       \* Option<usize>: a slot, or NoSlot
    pending_eviction,   \* condemned by a probe, not removed yet
    condemned           \* removed, and not to come back

pool_vars == <<proxies, index, active_index, pending_eviction, condemned>>

NoSlot == 0
NoLatency == 0
Never == MaxAge + 1     \* the age of the last success of a proxy without one

-----------------------------------------------------------------------------
(* Records.                                                                *)

ProxyInfo ==
    [id: Ids, last_success: Nat, first_seen: Nat, next_probe_at: Nat,
     consecutive_failures: 0..FailureCap, score: Nat, latency_ms: Nat,
     supports_tunnel: BOOLEAN, exit_ip: Exits \cup {NoExit},
     country: Countries \cup {NoCountry}]

\* A freshly discovered proxy: due at once, proven by nothing, assumed to
\* tunnel until a probe says otherwise.
Discovered(id) ==
    [id |-> id, last_success |-> Never, first_seen |-> 0, next_probe_at |-> 0,
     consecutive_failures |-> 0, score |-> 0, latency_ms |-> NoLatency,
     supports_tunnel |-> TRUE, exit_ip |-> NoExit, country |-> NoCountry]

\* score_for: inversely proportional to the latency, and nothing at all for a
\* latency that rounds to zero milliseconds.
ScoreFor(latency) == IF latency = 0 THEN 0 ELSE TopScore \div latency

\* ProbeSchedule::failed_backoff: the last entry applies to every further
\* failure.
FailedBackoff(schedule, failures) ==
    IF schedule = <<>> THEN DefaultBackoff
    ELSE schedule[IF failures <= Len(schedule) THEN failures ELSE Len(schedule)]

HasWorked(p) == p.last_success # Never
Works(p) == HasWorked(p) /\ p.consecutive_failures = 0
Due(p) == p.next_probe_at = 0

\* A probe proved the proxy works.
Proved(p, latency, tunneled) ==
    [p EXCEPT !.latency_ms = latency, !.score = ScoreFor(latency),
              !.last_success = 0, !.consecutive_failures = 0,
              !.exit_ip = ExitOf[p.id], !.supports_tunnel = tunneled,
              !.next_probe_at = WorkingInterval]

\* A bug: an unreachable target counts as an answer.
UnsettledClearsStreak(p) ==
    [p EXCEPT !.next_probe_at = InconclusiveBackoff, !.consecutive_failures = 0]

\* A probe proved nothing: only the schedule moves.
Unsettled(p) == [p EXCEPT !.next_probe_at = InconclusiveBackoff]

OneMoreFailure(p) ==
    IF p.consecutive_failures < FailureCap THEN p.consecutive_failures + 1
    ELSE FailureCap

\* A failure, found by a probe or by the traffic: streak, score and backoff
\* move together.
Failing(p, schedule) ==
    [p EXCEPT !.consecutive_failures = OneMoreFailure(p),
              !.score = @ \div 2,
              !.next_probe_at = FailedBackoff(schedule, OneMoreFailure(p))]

\* The eviction policy, asked after the failure is recorded.
Exhausted(p) == p.consecutive_failures >= MaxFailures
StaleUnverified(p) == ~HasWorked(p) /\ p.first_seen >= UnverifiedTtl

\* The country of a record whose exit address the database knows.
Located(p) ==
    IF p.exit_ip # NoExit /\ CountryOf[p.exit_ip] # NoCountry
    THEN [p EXCEPT !.country = CountryOf[p.exit_ip]]
    ELSE p

Older(p) ==
    [p EXCEPT
       !.last_success = IF @ < MaxAge THEN @ + 1 ELSE @,
       !.first_seen = IF @ < UnverifiedTtl THEN @ + 1 ELSE @,
       !.next_probe_at = IF @ > 0 THEN @ - 1 ELSE 0]

ASSUME SavedPoolsAssumption ==
    \A saved \in SavedPools :
      /\ saved \in Seq(ProxyInfo)
      /\ \A i, j \in DOMAIN saved : saved[i].id = saved[j].id => i = j

-----------------------------------------------------------------------------
(* Reading the pool.                                                       *)

Slots == DOMAIN proxies
Known == DOMAIN index
Members == {proxies[i].id : i \in Slots}
Get(id) == proxies[index[id]]
Active == IF active_index \in Slots THEN proxies[active_index].id ELSE NoProxy

DueSlots == {i \in Slots : Due(proxies[i])}

\* due_batch: the first `max` due records in slot order.
DueBatch(max) ==
    {proxies[i].id : i \in {j \in DueSlots :
                              Cardinality({k \in DueSlots : k < j}) < max}}

\* working, tunnel_capable, unverified: the filters the engine selects by.
WorkingIds == {proxies[i].id : i \in {j \in Slots : Works(proxies[j])}}
Selectable(p) == Works(p) /\ p.supports_tunnel /\ p.score >= MinScore
TunnelCapable == {proxies[i].id : i \in {j \in Slots : Selectable(proxies[j])}}
Unverified == {proxies[i].id : i \in {j \in Slots : ~HasWorked(proxies[j])}}

\* best_avoiding and activate_best_avoiding: an avoided id, server or exit
\* address is left out.
Candidates(avoid, avoidHosts, avoidExits) ==
    {i \in Slots : /\ proxies[i].id \notin avoid
                   /\ HostOf[proxies[i].id] \notin avoidHosts
                   /\ proxies[i].exit_ip \notin avoidExits
                   /\ Selectable(proxies[i])}

\* A score loses half its weight with each tick since the last success.
EffectiveScore(p) == p.score * 2^(Never - p.last_success)

\* max_by returns the last of equal maxima.
IsBest(i, slots) ==
    /\ i \in slots
    /\ \A j \in slots \ {i} :
         \/ EffectiveScore(proxies[j]) < EffectiveScore(proxies[i])
         \/ EffectiveScore(proxies[j]) = EffectiveScore(proxies[i]) /\ j < i

-----------------------------------------------------------------------------
(* Helpers of the operations that change the vector.                       *)

\* Every listing of the set S, each element once: the order a list of
\* proxies may arrive in.
Listings(S) ==
    {f \in UNION {[1..n -> S] : n \in 0..Cardinality(S)} :
       /\ \A x \in S : \E i \in DOMAIN f : f[i] = x
       /\ \A i, j \in DOMAIN f : f[i] = f[j] => i = j}

\* The slots of S in increasing order: what retain_mut leaves in place.
Compactions(S) ==
    {f \in UNION {[1..n -> S] : n \in 0..Len(proxies)} :
       /\ \A x \in S : \E i \in DOMAIN f : f[i] = x
       /\ \A i, j \in DOMAIN f : i < j => f[i] < f[j]}

\* Append records, each given the next free slot.
Push(records) ==
    /\ proxies' = proxies \o records
    /\ index' = [id \in Known \cup {records[k].id : k \in DOMAIN records} |->
                   IF id \in Known THEN index[id]
                   ELSE Len(proxies) +
                        CHOOSE k \in DOMAIN records : records[k].id = id]

\* A bug: the index keeps the slots the records had.
RetainKeepsIndex(kept) ==
    \E f \in Compactions(kept) :
      /\ proxies' = [i \in DOMAIN f |-> proxies[f[i]]]
      /\ index' = [id \in {proxies[s].id : s \in kept} |-> index[id]]
      /\ active_index' = IF active_index \in kept
                         THEN CHOOSE i \in DOMAIN f : f[i] = active_index
                         ELSE NoSlot

\* A bug: the active slot stays where it was.
RetainKeepsActiveSlot(kept) ==
    \E f \in Compactions(kept) :
      /\ proxies' = [i \in DOMAIN f |-> proxies[f[i]]]
      /\ index' = [id \in {proxies[s].id : s \in kept} |->
                     CHOOSE i \in DOMAIN f : proxies[f[i]].id = id]
      /\ UNCHANGED active_index

\* retain: the kept records close up, the index is rebuilt, and the active
\* slot follows the active record's id, or is dropped with it.
Retain(kept) ==
    \E f \in Compactions(kept) :
      /\ proxies' = [i \in DOMAIN f |-> proxies[f[i]]]
      /\ index' = [id \in {proxies[s].id : s \in kept} |->
                     CHOOSE i \in DOMAIN f : proxies[f[i]].id = id]
      /\ active_index' = IF active_index \in kept
                         THEN CHOOSE i \in DOMAIN f : f[i] = active_index
                         ELSE NoSlot

\* Replace one record in its slot.
Rewrite(id, record) ==
    /\ proxies' = [proxies EXCEPT ![index[id]] = record]
    /\ UNCHANGED <<index, active_index>>

-----------------------------------------------------------------------------
(* The operations.                                                         *)

Init ==
    /\ proxies = <<>>
    /\ index = [id \in {} |-> NoSlot]
    /\ active_index = NoSlot
    /\ pending_eviction = {}
    /\ condemned = {}

\* A bug: the condemned are not skipped.
MergeForgetsCondemned(found) ==
    /\ \E fresh \in Listings(found \ Known) :
         Push([k \in DOMAIN fresh |-> Discovered(fresh[k])])
    /\ UNCHANGED <<active_index, pending_eviction, condemned>>

\* merge: a scrape's proxies are folded in.  A condemned one is skipped, a
\* known one keeps all the health checker learned, a new one is appended.  The
\* anonymity and the country a source may fill in are no part of the model.
Merge(found) ==
    /\ \E fresh \in Listings((found \ condemned) \ Known) :
         Push([k \in DOMAIN fresh |-> Discovered(fresh[k])])
    /\ UNCHANGED <<active_index, pending_eviction, condemned>>

\* The order enforce_capacity sorts in: the latest success first, then the
\* lowest latency (none first), then the highest score; the sort is
\* stable.
SortsBefore(i, j) ==
    LET p == proxies[i]
        q == proxies[j]
        key(r) == <<r.last_success, r.latency_ms, TopScore - r.score>>
    IN  \/ key(p)[1] < key(q)[1]
        \/ key(p)[1] = key(q)[1] /\ key(p)[2] < key(q)[2]
        \/ key(p)[1] = key(q)[1] /\ key(p)[2] = key(q)[2] /\ key(p)[3] < key(q)[3]
        \/ key(p) = key(q) /\ i < j

\* The first `overflow` of that order are the ones dropped.
Doomed(overflow) ==
    {i \in Slots : Cardinality({j \in Slots : SortsBefore(j, i)}) < overflow}

EnforceCapacity ==
    /\ Len(proxies) > MaxProxies
    /\ Retain(Slots \ Doomed(Len(proxies) - MaxProxies))
    /\ UNCHANGED <<pending_eviction, condemned>>

\* geolocate: every record with a known exit address, in one pass.
Geolocate ==
    /\ proxies' = [i \in Slots |-> Located(proxies[i])]
    /\ UNCHANGED <<index, active_index, pending_eviction, condemned>>

GeolocateOne(id) ==
    /\ id \in Known
    /\ Rewrite(id, Located(Get(id)))
    /\ UNCHANGED <<pending_eviction, condemned>>

\* evict_pending: the sweep at the end of a batch.
EvictPending ==
    /\ pending_eviction # {}
    /\ condemned' = condemned \cup pending_eviction
    /\ Retain({i \in Slots : proxies[i].id \notin pending_eviction})
    /\ pending_eviction' = {}

RememberCondemned(ids) ==
    /\ condemned' = condemned \cup ids
    /\ UNCHANGED <<proxies, index, active_index, pending_eviction>>

\* restore: saved records go in exactly as they were, unless the id is known.
\* The saved ids are distinct (PRIMARY KEY of the proxies table).
Restore(saved) ==
    /\ \E f \in Listings({k \in DOMAIN saved : saved[k].id \notin Known}) :
         /\ \A i, j \in DOMAIN f : i < j => f[i] < f[j]
         /\ Push([k \in DOMAIN f |-> saved[f[k]]])
    /\ UNCHANGED <<active_index, pending_eviction, condemned>>

\* apply_health_result, one action per verdict.  A result for a proxy that is
\* gone changes nothing.
ApplyWorking(id, latency, tunneled) ==
    /\ id \in Known
    /\ Rewrite(id, Proved(Get(id), latency, tunneled))
    /\ UNCHANGED <<pending_eviction, condemned>>

ApplyInconclusive(id) ==
    /\ id \in Known
    /\ Rewrite(id, Unsettled(Get(id)))
    /\ UNCHANGED <<pending_eviction, condemned>>

ApplyFailed(id) ==
    /\ id \in Known
    /\ LET after == Failing(Get(id), ProbeBackoff)
       IN  /\ Rewrite(id, after)
           /\ pending_eviction' = IF Exhausted(after) \/ StaleUnverified(after)
                                  THEN pending_eviction \cup {id}
                                  ELSE pending_eviction
    /\ UNCHANGED condemned

ApplyHealthResult(id) ==
    \/ \E latency \in Latencies, tunneled \in BOOLEAN :
         ApplyWorking(id, latency, tunneled)
    \/ ApplyInconclusive(id)
    \/ ApplyFailed(id)

\* report_failure: the traffic found the proxy dead.  Nothing is condemned.
ReportFailure(id) ==
    /\ id \in Known
    /\ Rewrite(id, Failing(Get(id), TrafficBackoff))
    /\ UNCHANGED <<pending_eviction, condemned>>

SetActive(id) ==
    /\ id \in Known
    /\ active_index' = index[id]
    /\ UNCHANGED <<proxies, index, pending_eviction, condemned>>

ClearActive ==
    /\ active_index' = NoSlot
    /\ UNCHANGED <<proxies, index, pending_eviction, condemned>>

\* activate_best_avoiding: the best candidate becomes the active proxy; no
\* candidate, no change.
ActivateBestAvoiding(avoid, avoidHosts, avoidExits) ==
    /\ \E i \in Candidates(avoid, avoidHosts, avoidExits) :
         /\ IsBest(i, Candidates(avoid, avoidHosts, avoidExits))
         /\ active_index' = index[proxies[i].id]
    /\ UNCHANGED <<proxies, index, pending_eviction, condemned>>

\* rotate: the slot after the active one, or the first, whatever it holds.
Rotate ==
    /\ proxies # <<>>
    /\ active_index' = IF active_index = NoSlot THEN 1
                       ELSE (active_index % Len(proxies)) + 1
    /\ UNCHANGED <<proxies, index, pending_eviction, condemned>>

\* add: the operator asserts the endpoint; a known one is reset in its slot.
Add(id) ==
    /\ \/ id \in Known /\ Rewrite(id, Discovered(id))
       \/ id \notin Known /\ Push(<<Discovered(id)>>) /\ UNCHANGED active_index
    /\ UNCHANGED <<pending_eviction, condemned>>

Remove(id) ==
    /\ id \in Known
    /\ Retain({i \in Slots : proxies[i].id # id})
    /\ UNCHANGED <<pending_eviction, condemned>>

\* Time passes by one unit.
Tick ==
    /\ proxies' = [i \in Slots |-> Older(proxies[i])]
    /\ UNCHANGED <<index, active_index, pending_eviction, condemned>>

\* The steps of the pool after it was restored.
Step ==
    \/ \E found \in SUBSET Ids : Merge(found)
    \/ EnforceCapacity
    \/ Geolocate
    \/ EvictPending
    \/ \E id \in Ids :
         \/ GeolocateOne(id)
         \/ ApplyHealthResult(id)
         \/ ReportFailure(id)
         \/ SetActive(id)
         \/ Add(id)
         \/ Remove(id)
         \/ ActivateBestAvoiding({id}, {}, {})
         \/ ActivateBestAvoiding({id}, {HostOf[id]}, {ExitOf[id]})
    \/ ActivateBestAvoiding({}, {}, {})
    \/ ClearActive
    \/ Rotate
    \/ Tick

\* The daemon restores the pool and then the condemned ids at boot, before any
\* other call (main.rs:247-293).
Boot ==
    /\ condemned = {}
    /\ \/ proxies = <<>> /\ \E saved \in SavedPools : Restore(saved)
       \/ \E ids \in SUBSET Ids : RememberCondemned(ids)

Next == Step \/ Boot

Spec == Init /\ [][Next]_pool_vars

-----------------------------------------------------------------------------
(* Properties.                                                             *)

TypeOK ==
    /\ proxies \in Seq(ProxyInfo)
    /\ index \in [Known -> Nat] /\ Known \subseteq Ids
    /\ active_index \in Slots \cup {NoSlot}
    /\ pending_eviction \subseteq Ids
    /\ condemned \subseteq Ids

\* The index and the vector agree: every record is found under its id, at its
\* slot, and nothing else is.  So no id is held twice, and no lookup reads a
\* record that moved or left (pool/mod.rs: every method that pushes, and
\* retain).
IndexConsistent ==
    /\ Known = Members
    /\ \A i \in Slots : index[proxies[i].id] = i

\* The pool is a set of proxies with at most one selected.  A removal keeps
\* the selection on the same proxy or drops it with that proxy; a scrape never
\* brings back one that was evicted (pool/mod.rs:581-583 and 55-61).
Promise == INSTANCE PoolSpec WITH
    members <- Members, active <- Active, barred <- condemned
ImplementsPoolSpec == Promise!Spec

\* What the health checker learned of a proxy outlives scrapes, sweeps and
\* rotations for as long as the proxy is in the pool, which a boot restores into
\* an empty one: a failure streak is cut short, and a success forgotten, only by
\* a probe that proves the proxy works or by the operator adding it anew
\* (pool/mod.rs:138-143, merge "replaces nothing").
HealthStateKept ==
    [][\A id \in Members \cap Members' :
          \/ Add(id)
          \/ \E latency \in Latencies, tunneled \in BOOLEAN :
               ApplyWorking(id, latency, tunneled)
          \/ /\ Get(id)'.consecutive_failures >= Get(id).consecutive_failures
             /\ HasWorked(Get(id)) => HasWorked(Get(id)')]_pool_vars

\* enforce_capacity keeps the working set: no proxy that has worked is dropped
\* while one that never has is kept (pool/mod.rs:193-195).
KeepsTheWorkingSet ==
    [][EnforceCapacity =>
         \A dropped, kept \in Slots :
            /\ proxies[dropped].id \notin Members'
            /\ proxies[kept].id \in Members'
            /\ HasWorked(proxies[dropped])
            => HasWorked(proxies[kept])]_pool_vars
=============================================================================
