-------------------------- MODULE ProxyPoolProofs --------------------------
(***************************************************************************)
(* The vector, the id index and the active slot of ProxyPool stay in       *)
(* agreement, together they implement the set of PoolSpec, and what was    *)
(* learned of a proxy is kept, for every set of proxies, every schedule    *)
(* and every capacity.                                                     *)
(***************************************************************************)
EXTENDS ProxyPool, SequenceTheorems, TLAPS

\* The part of the invariant that is about the vector, its index and the
\* active slot, which every operation on the vector must preserve together.
VecInv ==
    /\ proxies \in Seq(ProxyInfo)
    /\ index \in [Known -> Nat]
    /\ Known \subseteq Ids
    /\ active_index \in Slots \cup {NoSlot}
    /\ Known = Members
    /\ \A i \in Slots : index[proxies[i].id] = i

SetInv ==
    /\ pending_eviction \subseteq Ids
    /\ condemned \subseteq Ids

IndInv == VecInv /\ SetInv

-----------------------------------------------------------------------------
(* Records.                                                                *)

LEMMA DiscoveredType ==
    ASSUME NEW id \in Ids
    PROVE  Discovered(id) \in ProxyInfo /\ Discovered(id).id = id
  BY ConstantsAssumption DEF Discovered, ProxyInfo, Never, NoLatency

LEMMA BackoffType ==
    ASSUME NEW schedule \in Seq(Nat), NEW n \in Nat \ {0}
    PROVE  FailedBackoff(schedule, n) \in Nat
<1>1. CASE schedule = <<>>
  BY <1>1, ConstantsAssumption DEF FailedBackoff
<1>2. CASE schedule # <<>>
  <2>1. Len(schedule) \in Nat \ {0}
    BY <1>2
  <2>2. \A k \in 1..Len(schedule) : schedule[k] \in Nat
    OBVIOUS
  <2> QED
    BY <1>2, <2>1, <2>2 DEF FailedBackoff
<1> QED
  BY <1>1, <1>2

LEMMA FailingType ==
    ASSUME NEW p \in ProxyInfo, NEW schedule \in Seq(Nat)
    PROVE  Failing(p, schedule) \in ProxyInfo /\ Failing(p, schedule).id = p.id
<1>1. OneMoreFailure(p) \in 1..FailureCap
  BY ConstantsAssumption DEF OneMoreFailure, ProxyInfo
<1>2. FailedBackoff(schedule, OneMoreFailure(p)) \in Nat
  BY <1>1, BackoffType
<1>3. p.score \div 2 \in Nat
  BY DEF ProxyInfo
<1>4. OneMoreFailure(p) \in 0..FailureCap
  BY <1>1
<1> QED
  BY <1>2, <1>3, <1>4 DEF Failing, ProxyInfo

LEMMA ProvedType ==
    ASSUME NEW p \in ProxyInfo, NEW latency \in Latencies, NEW tunneled \in BOOLEAN
    PROVE  Proved(p, latency, tunneled) \in ProxyInfo /\ Proved(p, latency, tunneled).id = p.id
<1>1. latency \in Nat /\ TopScore \in Nat
  BY ConstantsAssumption
<1>2. ScoreFor(latency) \in Nat
  <2>1. CASE latency = 0
    BY <2>1 DEF ScoreFor
  <2>2. CASE latency # 0
    <3>1. latency \in Nat /\ latency > 0
      BY <1>1, <2>2
    <3>2. TopScore \div latency \in Nat
      BY <1>1, <3>1
    <3> QED
      BY <2>2, <3>2 DEF ScoreFor
  <2> QED
    BY <2>1, <2>2
<1>3. ExitOf[p.id] \in Exits
  BY ConstantsAssumption DEF ProxyInfo
<1>4. 0 \in 0..FailureCap /\ latency \in Nat /\ WorkingInterval \in Nat
  BY ConstantsAssumption
<1> QED
  BY <1>2, <1>3, <1>4 DEF Proved, ProxyInfo

LEMMA UnsettledType ==
    ASSUME NEW p \in ProxyInfo
    PROVE  Unsettled(p) \in ProxyInfo /\ Unsettled(p).id = p.id
  BY ConstantsAssumption DEF Unsettled, ProxyInfo

LEMMA LocatedType ==
    ASSUME NEW p \in ProxyInfo
    PROVE  Located(p) \in ProxyInfo /\ Located(p).id = p.id
  BY ConstantsAssumption DEF Located, ProxyInfo

LEMMA OlderType ==
    ASSUME NEW p \in ProxyInfo
    PROVE  Older(p) \in ProxyInfo /\ Older(p).id = p.id
<1>1. MaxAge \in Nat /\ UnverifiedTtl \in Nat
  BY ConstantsAssumption
<1>2. p.last_success \in Nat /\ p.first_seen \in Nat /\ p.next_probe_at \in Nat
  BY DEF ProxyInfo
<1>3. (IF p.last_success < MaxAge THEN p.last_success + 1 ELSE p.last_success) \in Nat
  BY <1>1, <1>2
<1>4. (IF p.first_seen < UnverifiedTtl THEN p.first_seen + 1 ELSE p.first_seen) \in Nat
  BY <1>1, <1>2
<1>5. (IF p.next_probe_at > 0 THEN p.next_probe_at - 1 ELSE 0) \in Nat
  BY <1>2
<1> QED
  BY <1>3, <1>4, <1>5 DEF Older, ProxyInfo

-----------------------------------------------------------------------------
(* What the three ways of changing the vector do to it.                    *)

LEMMA FunctionInto ==
    ASSUME NEW f, NEW D, NEW R,
           f = [x \in D |-> f[x]],
           \A x \in D : f[x] \in R
    PROVE  f \in [D -> R]
  OBVIOUS

\* Records may change in place as long as each keeps its id.
LEMMA InPlace ==
    ASSUME VecInv,
           proxies' \in [Slots -> ProxyInfo],
           \A i \in Slots : proxies'[i].id = proxies[i].id,
           UNCHANGED index, active_index' = active_index
    PROVE  VecInv' /\ Members' = Members /\ Active' = Active
<1>1. Slots = 1..Len(proxies) /\ Len(proxies) \in Nat
  BY DEF VecInv, Slots
<1>2. proxies' \in Seq(ProxyInfo)
  BY <1>1, SeqDef
<1>3. Slots' = Slots
  BY DEF Slots
<1>4. Members' = Members
  BY <1>3 DEF Members
<1>5. Active' = Active
  BY <1>3 DEF Active
<1> QED
  BY <1>2, <1>3, <1>4, <1>5 DEF VecInv, Known

\* One record is rewritten under its id.
LEMMA RewriteInv ==
    ASSUME VecInv, NEW id \in Known, NEW record \in ProxyInfo, record.id = id,
           Rewrite(id, record)
    PROVE  VecInv' /\ Members' = Members /\ Active' = Active
<1>1. PICK i \in Slots : proxies[i].id = id
  BY DEF VecInv, Members
<1>2. index[id] = i
  BY <1>1 DEF VecInv
<1>3. proxies' = [proxies EXCEPT ![i] = record] /\ UNCHANGED <<index, active_index>>
  BY <1>2 DEF Rewrite
<1>4. proxies \in [Slots -> ProxyInfo]
  BY DEF VecInv, Slots
<1>5. proxies' \in [Slots -> ProxyInfo]
  BY <1>3, <1>4
<1>6. \A j \in Slots : proxies'[j].id = proxies[j].id
  BY <1>1, <1>3, <1>4
<1> QED
  BY <1>3, <1>5, <1>6, InPlace

\* A record read through the index carries the id it was read under.
LEMMA GetType ==
    ASSUME VecInv, NEW id \in Known
    PROVE  Get(id) \in ProxyInfo /\ Get(id).id = id
<1>1. PICK i \in Slots : proxies[i].id = id
  BY DEF VecInv, Members
<1> QED
  BY <1>1 DEF VecInv, Get, Slots

\* Records that are appended must be new and must differ.
LEMMA PushInv ==
    ASSUME VecInv, NEW records \in Seq(ProxyInfo),
           \A k \in DOMAIN records : records[k].id \notin Known,
           \A j, k \in DOMAIN records : records[j].id = records[k].id => j = k,
           Push(records), UNCHANGED active_index
    PROVE  /\ VecInv'
           /\ Members' = Members \cup {records[k].id : k \in DOMAIN records}
           /\ Active' = Active
<1> DEFINE n == Len(proxies)
           m == Len(records)
           new == {records[k].id : k \in DOMAIN records}
<1>1. n \in Nat /\ m \in Nat /\ Slots = 1..n /\ DOMAIN records = 1..m
  BY DEF VecInv, Slots
<1>2. proxies' \in Seq(ProxyInfo) /\ Slots' = 1..(n + m)
  BY ConcatProperties DEF Push, VecInv, Slots
<1>3. \A i \in 1..n : proxies'[i] = proxies[i]
  BY <1>1, ConcatProperties DEF Push, VecInv
<1>4. \A k \in 1..m : proxies'[n + k] = records[k]
  BY <1>1, ConcatProperties DEF Push, VecInv
<1>5. \A i \in 1..(n + m) : i \in 1..n \/ \E k \in 1..m : i = n + k
  <2>1. SUFFICES ASSUME NEW i \in 1..(n + m), i \notin 1..n
                 PROVE  \E k \in 1..m : i = n + k
    OBVIOUS
  <2>2. i - n \in 1..m /\ i = n + (i - n)
    BY <1>1, <2>1
  <2> QED
    BY <2>2
<1>6. Members' = Members \cup new
  <2>1. Members' = {proxies'[i].id : i \in 1..(n + m)}
    BY <1>2 DEF Members
  <2>2. ASSUME NEW x \in Members PROVE x \in Members'
    <3>1. PICK i \in 1..n : x = proxies[i].id
      BY <1>1, <2>2 DEF Members
    <3>2. i \in 1..(n + m) /\ proxies'[i].id = x
      BY <1>1, <1>3, <3>1
    <3> QED
      BY <2>1, <3>2
  <2>3. ASSUME NEW x \in new PROVE x \in Members'
    <3>1. PICK k \in 1..m : x = records[k].id
      BY <1>1, <2>3
    <3>2. n + k \in 1..(n + m) /\ proxies'[n + k].id = x
      BY <1>1, <1>4, <3>1
    <3> QED
      BY <2>1, <3>2
  <2>4. ASSUME NEW x \in Members' PROVE x \in Members \cup new
    <3>1. PICK i \in 1..(n + m) : x = proxies'[i].id
      BY <2>1, <2>4
    <3>2. CASE i \in 1..n
      BY <1>1, <1>3, <3>1, <3>2 DEF Members
    <3>3. ASSUME NEW k \in 1..m, i = n + k PROVE x \in new
      BY <1>1, <1>4, <3>1, <3>3
    <3> QED
      BY <1>5, <3>2, <3>3
  <2> QED
    BY <2>2, <2>3, <2>4
<1>7. index' = [id \in Known \cup new |->
                  IF id \in Known THEN index[id]
                  ELSE n + CHOOSE k \in DOMAIN records : records[k].id = id]
  BY DEF Push
<1>8. \A k \in 1..m : index'[records[k].id] = n + k
  <2>1. SUFFICES ASSUME NEW k \in 1..m
                 PROVE  index'[records[k].id] = n + k
    OBVIOUS
  <2>2. (CHOOSE j \in DOMAIN records : records[j].id = records[k].id) = k
    BY <1>1, <2>1
  <2> QED
    BY <1>1, <1>7, <2>1, <2>2
<1>9. \A i \in 1..n : index'[proxies[i].id] = i
  BY <1>1, <1>7 DEF VecInv, Members
<1>10. Known' = Known \cup new
  BY <1>7 DEF Known
<1>11. index' \in [Known' -> Nat]
  <2>1. index' = [id \in DOMAIN index' |-> index'[id]]
    BY <1>7
  <2>2. SUFFICES ASSUME NEW id \in Known' PROVE index'[id] \in Nat
    BY <2>1, FunctionInto DEF Known
  <2>3. CASE id \in Known
    BY <1>7, <2>3, <1>10 DEF VecInv
  <2>4. CASE id \in new
    BY <1>1, <1>8, <2>4
  <2> QED
    BY <1>10, <2>2, <2>3, <2>4
<1>12. new \subseteq Ids
  <2>1. \A k \in 1..m : records[k] \in ProxyInfo
    BY <1>1, ElementOfSeq
  <2> QED
    BY <1>1, <2>1 DEF ProxyInfo
<1>13. \A i \in Slots' : index'[proxies'[i].id] = i
  <2>1. SUFFICES ASSUME NEW i \in 1..(n + m)
                 PROVE  index'[proxies'[i].id] = i
    BY <1>2
  <2>2. CASE i \in 1..n
    BY <1>3, <1>9, <2>2
  <2>3. ASSUME NEW k \in 1..m, i = n + k PROVE index'[proxies'[i].id] = i
    BY <1>4, <1>8, <2>3
  <2> QED
    BY <1>5, <2>2, <2>3
<1>14. Slots \subseteq Slots' /\ NoSlot \notin Slots'
  BY <1>1, <1>2 DEF NoSlot
<1>15. Active' = Active
  BY <1>1, <1>3, <1>14 DEF Active, VecInv
<1> QED
  BY <1>2, <1>6, <1>10, <1>11, <1>12, <1>13, <1>14, <1>15 DEF VecInv

\* A removal closes the vector up: the kept records keep their order, the index
\* finds each at its new slot, and the selection stays on the same proxy.
LEMMA RetainInv ==
    ASSUME VecInv, NEW kept \in SUBSET Slots, Retain(kept)
    PROVE  /\ VecInv'
           /\ Members' = {proxies[s].id : s \in kept}
           /\ Active' = IF active_index \in kept THEN Active ELSE NoProxy
<1>1. PICK f \in Compactions(kept) :
        /\ proxies' = [i \in DOMAIN f |-> proxies[f[i]]]
        /\ index' = [id \in {proxies[s].id : s \in kept} |->
                       CHOOSE i \in DOMAIN f : proxies[f[i]].id = id]
        /\ active_index' = IF active_index \in kept
                           THEN CHOOSE i \in DOMAIN f : f[i] = active_index
                           ELSE NoSlot
  BY DEF Retain
<1>2. PICK n \in 0..Len(proxies) : f \in [1..n -> kept]
  <2>1. f \in UNION {[1..n -> kept] : n \in 0..Len(proxies)}
    BY Zenon DEF Compactions
  <2> QED
    BY <2>1
<1>3. n \in Nat /\ DOMAIN f = 1..n /\ Slots \subseteq Nat /\ NoSlot \notin Slots
  <2>1. Len(proxies) \in Nat /\ Slots = 1..Len(proxies)
    BY DEF VecInv, Slots
  <2> QED
    BY <1>2, <2>1 DEF NoSlot
<1>4. /\ \A x \in kept : \E i \in 1..n : f[i] = x
      /\ \A i, j \in 1..n : i < j => f[i] < f[j]
  BY <1>3 DEF Compactions
<1>5. \A i \in 1..n : f[i] \in kept /\ f[i] \in Slots
  BY <1>2
<1>6. \A i, j \in 1..n : f[i] = f[j] => i = j
  <2>1. SUFFICES ASSUME NEW i \in 1..n, NEW j \in 1..n, f[i] = f[j], i # j
                 PROVE  FALSE
    OBVIOUS
  <2>2. i < j \/ j < i
    BY <1>3, <2>1
  <2>3. f[i] \in Slots /\ f[j] \in Slots
    BY <1>5
  <2>4. f[i] \in Nat /\ f[j] \in Nat
    BY <1>3, <2>3
  <2> QED
    BY <1>4, <2>1, <2>2, <2>4
<1>7. \A s, t \in Slots : proxies[s].id = proxies[t].id => s = t
  BY DEF VecInv
<1>8. proxies' \in Seq(ProxyInfo) /\ Slots' = 1..n
  <2>1. \A i \in 1..n : proxies[f[i]] \in ProxyInfo
    BY <1>5 DEF VecInv, Slots
  <2>2. proxies' \in [1..n -> ProxyInfo]
    BY <1>1, <1>3, <2>1
  <2> QED
    BY <1>3, <2>2, SeqDef DEF Slots
<1>9. \A i \in 1..n : proxies'[i].id = proxies[f[i]].id
  BY <1>1, <1>3
<1>10. Members' = {proxies[s].id : s \in kept}
  <2>1. Members' = {proxies'[i].id : i \in 1..n}
    BY <1>8 DEF Members
  <2>2. ASSUME NEW x \in Members' PROVE x \in {proxies[s].id : s \in kept}
    BY <1>5, <1>9, <2>1, <2>2
  <2>3. ASSUME NEW s \in kept PROVE proxies[s].id \in Members'
    BY <1>4, <1>9, <2>1, <2>3
  <2> QED
    BY <2>2, <2>3
<1>11. Known' = Members'
  BY <1>1, <1>10 DEF Known
<1>12. \A i \in 1..n : index'[proxies'[i].id] = i
  <2>1. SUFFICES ASSUME NEW i \in 1..n
                 PROVE  index'[proxies[f[i]].id] = i
    BY <1>9
  <2>2. (CHOOSE j \in DOMAIN f : proxies[f[j]].id = proxies[f[i]].id) = i
    BY <1>3, <1>5, <1>6, <1>7, <2>1
  <2> QED
    BY <1>1, <1>5, <2>1, <2>2
<1>13. index' \in [Known' -> Nat]
  <2>1. index' = [id \in DOMAIN index' |-> index'[id]]
    BY <1>1
  <2>2. \A id \in Known' : index'[id] \in Nat
    BY <1>3, <1>8, <1>11, <1>12 DEF Members
  <2> QED
    BY <2>1, <2>2, FunctionInto DEF Known
<1>14. Known' \subseteq Ids
  <2>1. \A s \in Slots : proxies[s] \in ProxyInfo
    BY DEF VecInv, Slots
  <2> QED
    BY <1>10, <1>11, <2>1 DEF ProxyInfo
<1>15. /\ active_index' \in Slots' \cup {NoSlot}
       /\ Active' = IF active_index \in kept THEN Active ELSE NoProxy
  <2>1. CASE active_index \in kept
    <3>1. PICK i \in 1..n : f[i] = active_index
      BY <1>4, <2>1
    <3>2. active_index' = i
      BY <1>1, <1>3, <1>6, <2>1, <3>1
    <3> QED
      BY <1>8, <1>9, <2>1, <3>1, <3>2 DEF Active
  <2>2. CASE active_index \notin kept
    <3>1. active_index' = NoSlot
      BY <1>1, <2>2
    <3>2. NoSlot \notin Slots'
      BY <1>3, <1>8 DEF NoSlot
    <3> QED
      BY <2>2, <3>1, <3>2 DEF Active
  <2> QED
    BY <2>1, <2>2
<1> QED
  BY <1>8, <1>10, <1>11, <1>12, <1>13, <1>14, <1>15 DEF VecInv

-----------------------------------------------------------------------------
(* Every operation of the pool.                                            *)

LEMMA ListingType ==
    ASSUME NEW S, NEW f \in Listings(S)
    PROVE  /\ f \in Seq(S)
           /\ \A x \in S : \E i \in DOMAIN f : f[i] = x
           /\ \A i, j \in DOMAIN f : f[i] = f[j] => i = j
<1>1. f \in UNION {[1..n -> S] : n \in 0..Cardinality(S)}
  BY Zenon DEF Listings
<1>2. PICK n \in 0..Cardinality(S) : f \in [1..n -> S]
  BY <1>1
<1>3. n \in Nat
  BY <1>2
<1> QED
  BY <1>2, <1>3, SeqDef DEF Listings

\* What one step does to the set of proxies the pool holds: the step of
\* PoolSpec it implements, or none.
LEMMA MergeStep ==
    ASSUME IndInv, NEW found \in SUBSET Ids, Merge(found)
    PROVE  IndInv' /\ Promise!Discover((found \ condemned) \ Known)
<1> DEFINE S == (found \ condemned) \ Known
<1>1. PICK fresh \in Listings(S) : Push([k \in DOMAIN fresh |-> Discovered(fresh[k])])
  BY DEF Merge
<1> DEFINE records == [k \in DOMAIN fresh |-> Discovered(fresh[k])]
<1>2. /\ fresh \in Seq(S)
      /\ \A x \in S : \E i \in DOMAIN fresh : fresh[i] = x
      /\ \A i, j \in DOMAIN fresh : fresh[i] = fresh[j] => i = j
  BY <1>1, ListingType
<1>3. \A k \in DOMAIN fresh : fresh[k] \in S /\ fresh[k] \in Ids
  BY <1>2
<1>4. \A k \in DOMAIN fresh : records[k] \in ProxyInfo /\ records[k].id = fresh[k]
  BY <1>3, DiscoveredType
<1>5. records \in Seq(ProxyInfo) /\ DOMAIN records = DOMAIN fresh
  BY <1>2, <1>4, SeqDef
<1>6. UNCHANGED <<active_index, pending_eviction, condemned>>
  BY DEF Merge
<1>7. {records[k].id : k \in DOMAIN records} = S
  BY <1>2, <1>3, <1>4, <1>5
<1>8. /\ VecInv'
      /\ Members' = Members \cup S
      /\ Active' = Active
  <2>1. \A k \in DOMAIN records : records[k].id \notin Known
    BY <1>3, <1>4, <1>5
  <2>2. \A j, k \in DOMAIN records : records[j].id = records[k].id => j = k
    BY <1>2, <1>4, <1>5
  <2> QED
    BY <1>1, <1>5, <1>6, <1>7, <2>1, <2>2, PushInv DEF IndInv
<1> QED
  BY <1>6, <1>8 DEF IndInv, SetInv, Promise!Discover

LEMMA RestoreStep ==
    ASSUME IndInv, NEW saved \in SavedPools, Restore(saved), condemned = {}
    PROVE  IndInv' /\ \E S \in SUBSET Ids : Promise!Boot(S)
<1> DEFINE K == {k \in DOMAIN saved : saved[k].id \notin Known}
<1>1. PICK f \in Listings(K) : Push([k \in DOMAIN f |-> saved[f[k]]])
  BY DEF Restore
<1> DEFINE records == [k \in DOMAIN f |-> saved[f[k]]]
           S == {records[k].id : k \in DOMAIN records}
<1>2. f \in Seq(K) /\ \A i, j \in DOMAIN f : f[i] = f[j] => i = j
  BY <1>1, ListingType
<1>3. /\ saved \in Seq(ProxyInfo)
      /\ \A i, j \in DOMAIN saved : saved[i].id = saved[j].id => i = j
  BY SavedPoolsAssumption
<1>4. \A k \in DOMAIN f : /\ f[k] \in DOMAIN saved
                          /\ saved[f[k]] \in ProxyInfo
                          /\ saved[f[k]].id \notin Known
  BY <1>2, <1>3
<1>5. records \in Seq(ProxyInfo) /\ DOMAIN records = DOMAIN f
  BY <1>2, <1>4, SeqDef
<1>6. UNCHANGED <<active_index, pending_eviction, condemned>>
  BY DEF Restore
<1>7. /\ VecInv'
      /\ Members' = Members \cup S
      /\ Active' = Active
  <2>1. \A k \in DOMAIN records : records[k].id \notin Known
    BY <1>4, <1>5
  <2>2. \A j, k \in DOMAIN records : records[j].id = records[k].id => j = k
    BY <1>2, <1>3, <1>4, <1>5
  <2> QED
    BY <1>1, <1>5, <1>6, <2>1, <2>2, PushInv DEF IndInv
<1>8. S \in SUBSET Ids
  BY <1>4, <1>5 DEF ProxyInfo
<1> QED
  BY <1>6, <1>7, <1>8 DEF IndInv, SetInv, Promise!Boot

LEMMA AddStep ==
    ASSUME IndInv, NEW id \in Ids, Add(id)
    PROVE  IndInv' /\ Promise!Vouch(id)
<1>1. UNCHANGED <<pending_eviction, condemned>>
  BY DEF Add
<1>2. Discovered(id) \in ProxyInfo /\ Discovered(id).id = id
  BY DiscoveredType
<1>3. VecInv' /\ Members' = Members \cup {id} /\ Active' = Active
  <2>1. CASE id \in Known /\ Rewrite(id, Discovered(id))
    <3>1. id \in Members
      BY <2>1 DEF IndInv, VecInv
    <3>2. VecInv' /\ Members' = Members /\ Active' = Active
      BY <1>2, <2>1, RewriteInv DEF IndInv
    <3> QED
      BY <3>1, <3>2
  <2>2. CASE id \notin Known /\ Push(<<Discovered(id)>>) /\ UNCHANGED active_index
    <3> DEFINE records == <<Discovered(id)>>
    <3>1. records \in Seq(ProxyInfo) /\ DOMAIN records = {1}
      BY <1>2
    <3>2. {records[k].id : k \in DOMAIN records} = {id}
      BY <1>2, <3>1
    <3>3. \A k \in DOMAIN records : records[k].id = id
      BY <1>2, <3>1
    <3>4. \A j, k \in DOMAIN records : records[j].id = records[k].id => j = k
      BY <3>1
    <3> QED
      BY <2>2, <3>1, <3>2, <3>3, <3>4, PushInv DEF IndInv
  <2> QED
    BY <2>1, <2>2 DEF Add
<1> QED
  BY <1>1, <1>3 DEF IndInv, SetInv, Promise!Vouch

\* Dropping the slots outside `kept`, for any reason.
LEMMA DropStep ==
    ASSUME IndInv, NEW kept \in SUBSET Slots, Retain(kept)
    PROVE  LET gone == Members \ {proxies[s].id : s \in kept}
           IN  /\ VecInv'
               /\ gone \in SUBSET Ids
               /\ Members' = Members \ gone
               /\ Active' = Promise!StillActive(Members \ gone)
<1> DEFINE stay == {proxies[s].id : s \in kept}
           gone == Members \ stay
<1>1. /\ VecInv'
      /\ Members' = stay
      /\ Active' = IF active_index \in kept THEN Active ELSE NoProxy
  BY RetainInv DEF IndInv
<1>2. stay \subseteq Members /\ Members \subseteq Ids
  BY DEF Members, IndInv, VecInv
<1>3. Members \ gone = stay
  BY <1>2
<1>4. Active' = IF Active \in stay THEN Active ELSE NoProxy
  <2>1. CASE active_index \in kept
    BY <1>1, <2>1 DEF Active
  <2>2. CASE active_index \in Slots \ kept
    <3>1. \A s \in kept : proxies[s].id # proxies[active_index].id
      BY <2>2 DEF IndInv, VecInv
    <3> QED
      BY <1>1, <2>2, <3>1 DEF Active
  <2>3. CASE active_index \notin Slots
    BY <1>1, <2>3 DEF Active
  <2> QED
    BY <2>1, <2>2, <2>3
<1> QED
  BY <1>1, <1>2, <1>3, <1>4 DEF Promise!StillActive

LEMMA CapacityStep ==
    ASSUME IndInv, EnforceCapacity
    PROVE  IndInv' /\ \E S \in SUBSET Ids : Promise!Drop(S)
<1> DEFINE kept == Slots \ Doomed(Len(proxies) - MaxProxies)
<1>1. Retain(kept) /\ UNCHANGED <<pending_eviction, condemned>>
  BY DEF EnforceCapacity
<1>2. kept \in SUBSET Slots
  OBVIOUS
<1> HIDE DEF kept
<1> QED
  BY <1>1, <1>2, DropStep DEF IndInv, SetInv, Promise!Drop

LEMMA RemoveStep ==
    ASSUME IndInv, NEW id \in Ids, Remove(id)
    PROVE  IndInv' /\ \E S \in SUBSET Ids : Promise!Drop(S)
<1> DEFINE kept == {i \in Slots : proxies[i].id # id}
<1>1. Retain(kept) /\ UNCHANGED <<pending_eviction, condemned>>
  BY DEF Remove
<1>2. kept \in SUBSET Slots
  OBVIOUS
<1> HIDE DEF kept
<1> QED
  BY <1>1, <1>2, DropStep DEF IndInv, SetInv, Promise!Drop

\* The condemned of PoolSpec may name more than were members: a proxy removed
\* by the operator while its eviction was pending is condemned all the same.
LEMMA EvictStep ==
    ASSUME IndInv, EvictPending
    PROVE  IndInv' /\ \E S \in SUBSET Ids : Promise!Evict(S)
<1> DEFINE kept == {i \in Slots : proxies[i].id \notin pending_eviction}
           stay == {proxies[s].id : s \in kept}
           gone == Members \ stay
<1>1. /\ Retain(kept)
      /\ condemned' = condemned \cup pending_eviction
      /\ pending_eviction' = {}
  BY DEF EvictPending
<1>2. kept \in SUBSET Slots
  OBVIOUS
<1>3. Members \ gone = Members \ pending_eviction
  <2>1. stay \subseteq Members /\ stay = Members \ pending_eviction
    BY DEF Members
  <2> QED
    BY <2>1
<1>4. /\ VecInv'
      /\ Members' = Members \ gone
      /\ Active' = Promise!StillActive(Members \ gone)
  BY <1>1, <1>2, DropStep
<1>5. pending_eviction \in SUBSET Ids
  BY DEF IndInv, SetInv
<1>6. Promise!Evict(pending_eviction)
  BY <1>1, <1>3, <1>4 DEF Promise!Evict
<1> QED
  BY <1>1, <1>4, <1>5, <1>6 DEF IndInv, SetInv

LEMMA RememberStep ==
    ASSUME IndInv, NEW ids \in SUBSET Ids, RememberCondemned(ids)
    PROVE  IndInv' /\ Promise!Bar(ids)
<1>1. UNCHANGED <<Members, Active, VecInv>>
  BY DEF RememberCondemned, Members, Active, VecInv, Slots, Known
<1> QED
  BY <1>1 DEF RememberCondemned, IndInv, SetInv, Promise!Bar

LEMMA SelectStep ==
    ASSUME IndInv, NEW i \in Slots, active_index' = i,
           UNCHANGED <<proxies, index, pending_eviction, condemned>>
    PROVE  IndInv' /\ \E id \in Ids : Promise!Select(id)
<1>1. UNCHANGED <<Slots, Members, Known>>
  BY DEF Slots, Members, Known
<1>2. Active' = proxies[i].id /\ proxies[i].id \in Members
  BY <1>1 DEF Active, Members
<1>3. proxies[i].id \in Ids
  BY <1>2 DEF IndInv, VecInv
<1>4. IndInv'
  BY <1>1 DEF IndInv, VecInv, SetInv
<1> QED
  BY <1>1, <1>2, <1>3, <1>4 DEF Promise!Select

\* The slot a known id is found at.
LEMMA IndexType ==
    ASSUME VecInv, NEW id \in Known
    PROVE  index[id] \in Slots
  BY DEF VecInv, Members

LEMMA SetActiveStep ==
    ASSUME IndInv, NEW id \in Ids, SetActive(id)
    PROVE  IndInv' /\ \E other \in Ids : Promise!Select(other)
<1>1. index[id] \in Slots
  BY IndexType DEF SetActive, IndInv
<1> QED
  BY <1>1, SelectStep DEF SetActive

LEMMA ActivateStep ==
    ASSUME IndInv, NEW A, NEW H, NEW E, ActivateBestAvoiding(A, H, E)
    PROVE  IndInv' /\ \E id \in Ids : Promise!Select(id)
<1>1. PICK i \in Candidates(A, H, E) : active_index' = index[proxies[i].id]
  BY DEF ActivateBestAvoiding
<1>2. i \in Slots
  BY DEF Candidates
<1>3. active_index' = i
  BY <1>1, <1>2 DEF IndInv, VecInv
<1> QED
  BY <1>2, <1>3, SelectStep DEF ActivateBestAvoiding

LEMMA RotateStep ==
    ASSUME IndInv, Rotate
    PROVE  IndInv' /\ \E id \in Ids : Promise!Select(id)
<1>1. Len(proxies) \in Nat /\ Len(proxies) > 0 /\ Slots = 1..Len(proxies)
  BY DEF Rotate, IndInv, VecInv, Slots
<1>2. active_index \in Slots \cup {NoSlot}
  BY DEF IndInv, VecInv
<1>3. active_index' \in Slots
  <2>1. CASE active_index = NoSlot
    BY <1>1, <2>1 DEF Rotate
  <2>2. CASE active_index \in Slots /\ active_index # NoSlot
    <3>1. active_index % Len(proxies) \in 0..(Len(proxies) - 1)
      BY <1>1, <2>2
    <3> QED
      BY <1>1, <2>2, <3>1 DEF Rotate
  <2> QED
    BY <1>2, <2>1, <2>2
<1> QED
  BY <1>3, SelectStep DEF Rotate

LEMMA ClearStep ==
    ASSUME IndInv, ClearActive
    PROVE  IndInv' /\ Promise!Deselect
<1>1. UNCHANGED <<Slots, Members, Known>>
  BY DEF ClearActive, Slots, Members, Known
<1>2. NoSlot \notin Slots
  BY DEF IndInv, VecInv, Slots, NoSlot
<1>3. Active' = NoProxy
  BY <1>1, <1>2 DEF ClearActive, Active
<1>4. IndInv'
  BY <1>1 DEF ClearActive, IndInv, VecInv, SetInv
<1> QED
  BY <1>1, <1>3, <1>4 DEF ClearActive, Promise!Deselect

\* The operations that only rewrite records: PoolSpec sees nothing.
LEMMA RecordStep ==
    ASSUME IndInv, NEW id \in Ids,
           GeolocateOne(id) \/ ApplyHealthResult(id) \/ ReportFailure(id)
    PROVE  IndInv' /\ UNCHANGED <<Members, Active, condemned>>
<1>1. id \in Known /\ UNCHANGED condemned
  BY DEF GeolocateOne, ApplyHealthResult, ApplyWorking, ApplyInconclusive,
         ApplyFailed, ReportFailure
<1>2. Get(id) \in ProxyInfo /\ Get(id).id = id
  BY <1>1, GetType DEF IndInv
<1>3. pending_eviction' \subseteq Ids
  BY DEF GeolocateOne, ApplyHealthResult, ApplyWorking, ApplyInconclusive,
         ApplyFailed, ReportFailure, IndInv, SetInv
<1>4. PICK record \in ProxyInfo : record.id = id /\ Rewrite(id, record)
  <2>1. CASE GeolocateOne(id)
    BY <1>2, <2>1, LocatedType DEF GeolocateOne
  <2>2. ASSUME NEW latency \in Latencies, NEW tunneled \in BOOLEAN,
               ApplyWorking(id, latency, tunneled)
        PROVE  \E record \in ProxyInfo : record.id = id /\ Rewrite(id, record)
    BY <1>2, <2>2, ProvedType DEF ApplyWorking
  <2>3. CASE ApplyInconclusive(id)
    BY <1>2, <2>3, UnsettledType DEF ApplyInconclusive
  <2>4. CASE ApplyFailed(id)
    BY <1>2, <2>4, FailingType, ConstantsAssumption DEF ApplyFailed
  <2>5. CASE ReportFailure(id)
    BY <1>2, <2>5, FailingType, ConstantsAssumption DEF ReportFailure
  <2> QED
    BY <2>1, <2>2, <2>3, <2>4, <2>5 DEF ApplyHealthResult
<1>5. VecInv' /\ Members' = Members /\ Active' = Active
  BY <1>1, <1>4, RewriteInv DEF IndInv
<1> QED
  BY <1>1, <1>3, <1>5 DEF IndInv, SetInv

LEMMA GeolocateStep ==
    ASSUME IndInv, Geolocate
    PROVE  IndInv' /\ UNCHANGED <<Members, Active, condemned>>
<1>1. \A i \in Slots : proxies[i] \in ProxyInfo
  BY DEF IndInv, VecInv, Slots
<1>2. \A i \in Slots : Located(proxies[i]) \in ProxyInfo /\ Located(proxies[i]).id = proxies[i].id
  BY <1>1, LocatedType
<1>3. /\ proxies' \in [Slots -> ProxyInfo]
      /\ \A i \in Slots : proxies'[i].id = proxies[i].id
  BY <1>2 DEF Geolocate
<1>4. VecInv' /\ Members' = Members /\ Active' = Active
  BY <1>3, InPlace DEF Geolocate, IndInv
<1> QED
  BY <1>4 DEF Geolocate, IndInv, SetInv

LEMMA TickStep ==
    ASSUME IndInv, Tick
    PROVE  IndInv' /\ UNCHANGED <<Members, Active, condemned>>
<1>1. \A i \in Slots : proxies[i] \in ProxyInfo
  BY DEF IndInv, VecInv, Slots
<1>2. \A i \in Slots : Older(proxies[i]) \in ProxyInfo /\ Older(proxies[i]).id = proxies[i].id
  BY <1>1, OlderType
<1>3. /\ proxies' \in [Slots -> ProxyInfo]
      /\ \A i \in Slots : proxies'[i].id = proxies[i].id
  BY <1>2 DEF Tick
<1>4. VecInv' /\ Members' = Members /\ Active' = Active
  BY <1>3, InPlace DEF Tick, IndInv
<1> QED
  BY <1>4 DEF Tick, IndInv, SetInv

-----------------------------------------------------------------------------
(* What becomes of a record.                                               *)

\* Nothing is forgotten: no streak cut short, no success lost.
Keeps(p, q) ==
    /\ q.consecutive_failures >= p.consecutive_failures
    /\ HasWorked(p) => HasWorked(q)

LEMMA RecordKept ==
    ASSUME NEW p \in ProxyInfo
    PROVE  /\ Keeps(p, p) /\ Keeps(p, Located(p)) /\ Keeps(p, Unsettled(p)) /\ Keeps(p, Older(p))
           /\ \A schedule : Keeps(p, Failing(p, schedule))
<1>1. p.consecutive_failures \in 0..FailureCap /\ p.last_success \in Nat
  BY DEF ProxyInfo
<1>2. FailureCap \in Nat /\ MaxAge \in Nat
  BY ConstantsAssumption
<1>3. Keeps(p, p) /\ Keeps(p, Located(p)) /\ Keeps(p, Unsettled(p))
  BY <1>1, <1>2 DEF Keeps, HasWorked, Located, Unsettled, ProxyInfo
<1>4. Keeps(p, Older(p))
  <2>1. Older(p).consecutive_failures = p.consecutive_failures
    BY DEF Older, ProxyInfo
  <2>2. Older(p).last_success
          = IF p.last_success < MaxAge THEN p.last_success + 1 ELSE p.last_success
    BY DEF Older, ProxyInfo
  <2> QED
    BY <1>1, <1>2, <2>1, <2>2 DEF Keeps, HasWorked, Never
<1>5. ASSUME NEW schedule PROVE Keeps(p, Failing(p, schedule))
  <2>1. Failing(p, schedule).consecutive_failures = OneMoreFailure(p)
    BY DEF Failing, ProxyInfo
  <2>2. Failing(p, schedule).last_success = p.last_success
    BY DEF Failing, ProxyInfo
  <2>3. OneMoreFailure(p) >= p.consecutive_failures
    BY <1>1, <1>2 DEF OneMoreFailure
  <2> QED
    BY <2>1, <2>2, <2>3 DEF Keeps, HasWorked
<1> QED
  BY <1>3, <1>4, <1>5

\* A lookup finds the record it found before when what is in the vector under a
\* known id was in it before, wherever it moved.
LEMMA Found ==
    ASSUME VecInv, VecInv', NEW id \in Members \cap Members',
           \A j \in Slots' : proxies'[j].id \in Known => \E i \in Slots : proxies'[j] = proxies[i]
    PROVE  Get(id)' = Get(id)
<1>1. PICK j \in Slots' : proxies'[j].id = id
  BY DEF Members
<1>2. Get(id)' = proxies'[j]
  BY <1>1 DEF VecInv, Get
<1>3. PICK i \in Slots : proxies'[j] = proxies[i]
  BY <1>1 DEF VecInv
<1>4. Get(id) = proxies[i]
  BY <1>1, <1>3 DEF VecInv, Get
<1> QED
  BY <1>2, <1>3, <1>4

LEMMA FoundAfterPush ==
    ASSUME VecInv, VecInv', NEW records \in Seq(ProxyInfo),
           \A k \in DOMAIN records : records[k].id \notin Known,
           proxies' = proxies \o records, NEW id \in Members \cap Members'
    PROVE  Get(id)' = Get(id)
<1>1. Slots = 1..Len(proxies) /\ Len(proxies) \in Nat /\ Len(records) \in Nat
  BY DEF VecInv, Slots
<1>2. Slots' = 1..(Len(proxies) + Len(records))
  BY <1>1 DEF Slots, VecInv
<1>3. ASSUME NEW j \in Slots', proxies'[j].id \in Known
      PROVE  \E i \in Slots : proxies'[j] = proxies[i]
  <2>1. CASE j <= Len(proxies)
    BY <1>1, <1>2, <2>1 DEF VecInv
  <2>2. CASE j > Len(proxies)
    <3>1. j - Len(proxies) \in 1..Len(records)
      BY <1>1, <1>2, <2>2
    <3>2. proxies'[j] = records[j - Len(proxies)]
      BY <1>1, <1>2, <2>2 DEF VecInv
    <3> QED
      BY <1>3, <3>1, <3>2
  <2> QED
    BY <1>1, <1>2, <2>1, <2>2
<1> QED
  BY <1>3, Found

LEMMA FoundAfterRetain ==
    ASSUME VecInv, NEW kept \in SUBSET Slots, Retain(kept), NEW id \in Members \cap Members'
    PROVE  Get(id)' = Get(id)
<1>1. VecInv'
  BY RetainInv
<1>2. PICK f \in Compactions(kept) : proxies' = [i \in DOMAIN f |-> proxies[f[i]]]
  BY DEF Retain
<1>3. \A j \in DOMAIN f : f[j] \in Slots
  BY <1>2 DEF Compactions
<1>4. \A j \in Slots' : proxies'[j] = proxies[f[j]] /\ f[j] \in Slots
  BY <1>2, <1>3 DEF Slots
<1> QED
  BY <1>1, <1>4, Found

\* One record is replaced and the others are found as they were.
LEMMA FoundAfterRewrite ==
    ASSUME VecInv, NEW x \in Known, NEW record, Rewrite(x, record),
           NEW id \in Members
    PROVE  Get(id)' = IF id = x THEN record ELSE Get(id)
<1>1. index[id] \in Slots /\ index[x] \in Slots /\ id \in Known
  BY IndexType DEF VecInv
<1>2. id # x => index[id] # index[x]
  BY <1>1, GetType DEF Get
<1>3. proxies' = [proxies EXCEPT ![index[x]] = record] /\ index' = index
  BY DEF Rewrite
<1>4. proxies \in [Slots -> ProxyInfo]
  BY DEF VecInv, Slots
<1> QED
  BY <1>1, <1>2, <1>3, <1>4 DEF Get

LEMMA Appended ==
    ASSUME IndInv,
           \/ \E found \in SUBSET Ids : Merge(found)
           \/ \E saved \in SavedPools : Restore(saved)
    PROVE  \E records \in Seq(ProxyInfo) :
             /\ proxies' = proxies \o records
             /\ \A k \in DOMAIN records : records[k].id \notin Known
<1>1. ASSUME NEW found \in SUBSET Ids, Merge(found)
      PROVE  \E records \in Seq(ProxyInfo) :
               /\ proxies' = proxies \o records
               /\ \A k \in DOMAIN records : records[k].id \notin Known
  <2> DEFINE S == (found \ condemned) \ Known
  <2>1. PICK fresh \in Listings(S) : Push([k \in DOMAIN fresh |-> Discovered(fresh[k])])
    BY <1>1 DEF Merge
  <2> DEFINE records == [k \in DOMAIN fresh |-> Discovered(fresh[k])]
  <2>2. fresh \in Seq(S) /\ \A k \in DOMAIN fresh : fresh[k] \in S
    BY <2>1, ListingType
  <2>3. \A k \in DOMAIN fresh : records[k] \in ProxyInfo /\ records[k].id = fresh[k]
    BY <2>2, DiscoveredType
  <2>4. records \in Seq(ProxyInfo) /\ DOMAIN records = DOMAIN fresh
    BY <2>2, <2>3, SeqDef
  <2>5. proxies' = proxies \o records /\ \A k \in DOMAIN records : records[k].id \notin Known
    BY <2>1, <2>2, <2>3, <2>4 DEF Push
  <2> QED
    BY <2>4, <2>5
<1>2. ASSUME NEW saved \in SavedPools, Restore(saved)
      PROVE  \E records \in Seq(ProxyInfo) :
               /\ proxies' = proxies \o records
               /\ \A k \in DOMAIN records : records[k].id \notin Known
  <2> DEFINE K == {k \in DOMAIN saved : saved[k].id \notin Known}
  <2>1. PICK f \in Listings(K) : Push([k \in DOMAIN f |-> saved[f[k]]])
    BY <1>2 DEF Restore
  <2> DEFINE records == [k \in DOMAIN f |-> saved[f[k]]]
  <2>2. f \in Seq(K) /\ \A k \in DOMAIN f : f[k] \in K
    BY <2>1, ListingType
  <2>3. \A k \in DOMAIN f : saved[f[k]] \in ProxyInfo /\ saved[f[k]].id \notin Known
    BY <2>2, SavedPoolsAssumption
  <2>4. records \in Seq(ProxyInfo) /\ DOMAIN records = DOMAIN f
    BY <2>2, <2>3, SeqDef
  <2>5. proxies' = proxies \o records /\ \A k \in DOMAIN records : records[k].id \notin Known
    BY <2>1, <2>3, <2>4 DEF Push
  <2> QED
    BY <2>4, <2>5
<1> QED
  BY <1>1, <1>2

-----------------------------------------------------------------------------
(* The invariant, and the refinement.                                      *)

LEMMA InitIndInv ==
    ASSUME Init
    PROVE  IndInv /\ Promise!Init
<1>1. Slots = {} /\ Known = {} /\ Members = {}
  BY DEF Init, Slots, Known, Members
<1>2. index \in [Known -> Nat]
  BY <1>1 DEF Init
<1>3. Active = NoProxy
  BY <1>1 DEF Active
<1> QED
  BY <1>1, <1>2, <1>3 DEF Init, IndInv, VecInv, SetInv, Promise!Init

\* Every step of the pool keeps the invariant and is a step of PoolSpec, or is
\* invisible to it.
LEMMA StepImplements ==
    ASSUME IndInv, [Next]_pool_vars
    PROVE  IndInv' /\ [Promise!Next]_(Promise!vars)
<1> USE DEF Promise!Next, Promise!vars
<1>1. CASE UNCHANGED pool_vars
  <2>1. UNCHANGED <<Slots, Known, Members, Active>>
    BY <1>1 DEF pool_vars, Slots, Known, Members, Active
  <2> QED
    BY <1>1, <2>1 DEF pool_vars, IndInv, VecInv, SetInv
<1>2. ASSUME NEW found \in SUBSET Ids, Merge(found)
      PROVE  IndInv' /\ Promise!Next
  BY <1>2, MergeStep DEF IndInv, VecInv
<1>3. CASE EnforceCapacity
  BY <1>3, CapacityStep
<1>4. CASE Geolocate
  BY <1>4, GeolocateStep
<1>5. CASE EvictPending
  BY <1>5, EvictStep
<1>6. ASSUME NEW id \in Ids,
             GeolocateOne(id) \/ ApplyHealthResult(id) \/ ReportFailure(id)
      PROVE  IndInv' /\ UNCHANGED Promise!vars
  BY <1>6, RecordStep
<1>7. ASSUME NEW id \in Ids, SetActive(id)
      PROVE  IndInv' /\ Promise!Next
  BY <1>7, SetActiveStep
<1>8. ASSUME NEW id \in Ids, Add(id)
      PROVE  IndInv' /\ Promise!Next
  BY <1>8, AddStep
<1>9. ASSUME NEW id \in Ids, Remove(id)
      PROVE  IndInv' /\ Promise!Next
  BY <1>9, RemoveStep
<1>10. ASSUME NEW A, NEW H, NEW E, ActivateBestAvoiding(A, H, E)
       PROVE  IndInv' /\ Promise!Next
  BY <1>10, ActivateStep
<1>11. CASE ClearActive
  BY <1>11, ClearStep
<1>12. CASE Rotate
  BY <1>12, RotateStep
<1>13. CASE Tick
  BY <1>13, TickStep
<1>14. CASE Boot
  <2>1. ASSUME NEW saved \in SavedPools, Restore(saved), condemned = {}
        PROVE  IndInv' /\ Promise!Next
    BY <2>1, RestoreStep
  <2>2. ASSUME NEW ids \in SUBSET Ids, RememberCondemned(ids)
        PROVE  IndInv' /\ Promise!Next
    BY <2>2, RememberStep
  <2> QED
    BY <1>14, <2>1, <2>2 DEF Boot
<1>15. CASE Step
  BY <1>2, <1>3, <1>4, <1>5, <1>6, <1>7, <1>8, <1>9, <1>10, <1>11, <1>12,
     <1>13, <1>15 DEF Step
<1> QED
  BY <1>1, <1>14, <1>15 DEF Next

\* What a step of the pool does to a record it keeps.
LEMMA HealthStep ==
    ASSUME IndInv, [Next]_pool_vars, NEW id \in Members \cap Members'
    PROVE  \/ Add(id)
           \/ \E latency \in Latencies, tunneled \in BOOLEAN :
                ApplyWorking(id, latency, tunneled)
           \/ Keeps(Get(id), Get(id)')
<1> DEFINE Goal == \/ Add(id)
                   \/ \E latency \in Latencies, tunneled \in BOOLEAN :
                        ApplyWorking(id, latency, tunneled)
                   \/ Keeps(Get(id), Get(id)')
<1>1. /\ VecInv /\ VecInv' /\ id \in Known /\ Get(id) \in ProxyInfo
      /\ index[id] \in Slots
  BY StepImplements, GetType, IndexType DEF IndInv, VecInv
<1>2. Get(id)' = Get(id) => Goal
  BY <1>1, RecordKept
<1>3. CASE UNCHANGED <<proxies, index>>
  BY <1>2, <1>3 DEF Get
<1>4. CASE \/ \E found \in SUBSET Ids : Merge(found)
           \/ \E saved \in SavedPools : Restore(saved)
  BY <1>1, <1>2, <1>4, Appended, FoundAfterPush
<1>5. CASE \E kept \in SUBSET Slots : Retain(kept)
  BY <1>1, <1>2, <1>5, FoundAfterRetain
<1>6. ASSUME NEW x \in Ids, GeolocateOne(x) \/ ApplyInconclusive(x) \/ ApplyFailed(x)
                             \/ ReportFailure(x)
      PROVE  Goal
  <2>1. PICK record : /\ Rewrite(x, record) /\ x \in Known
                      /\ record \in {Located(Get(x)), Unsettled(Get(x)),
                                     Failing(Get(x), ProbeBackoff),
                                     Failing(Get(x), TrafficBackoff)}
    BY <1>6 DEF GeolocateOne, ApplyInconclusive, ApplyFailed, ReportFailure
  <2>2. Get(id)' = IF id = x THEN record ELSE Get(id)
    BY <1>1, <2>1, FoundAfterRewrite
  <2>3. CASE id = x
    <3>1. Keeps(Get(id), record)
      BY <1>1, <2>1, <2>3, RecordKept
    <3> QED
      BY <2>2, <2>3, <3>1
  <2>4. CASE id # x
    BY <1>2, <2>2, <2>4
  <2> QED
    BY <2>3, <2>4
<1>7. ASSUME NEW x \in Ids, NEW latency \in Latencies, NEW tunneled \in BOOLEAN,
             ApplyWorking(x, latency, tunneled)
      PROVE  Goal
  <2>1. CASE id = x
    BY <1>7, <2>1
  <2>2. CASE id # x
    BY <1>1, <1>2, <1>7, <2>2, FoundAfterRewrite DEF ApplyWorking
  <2> QED
    BY <2>1, <2>2
<1>8. ASSUME NEW x \in Ids, Add(x)
      PROVE  Goal
  <2>1. CASE id = x
    BY <1>8, <2>1
  <2>2. CASE id # x /\ x \in Known /\ Rewrite(x, Discovered(x))
    BY <1>1, <1>2, <2>2, FoundAfterRewrite
  <2>3. CASE id # x /\ x \notin Known /\ Push(<<Discovered(x)>>)
    <3>1. Discovered(x) \in ProxyInfo /\ Discovered(x).id = x
      BY DiscoveredType
    <3>2. /\ <<Discovered(x)>> \in Seq(ProxyInfo) /\ DOMAIN <<Discovered(x)>> = {1}
          /\ proxies' = proxies \o <<Discovered(x)>>
      BY <2>3, <3>1 DEF Push
    <3>3. \A k \in {1} : <<Discovered(x)>>[k].id \notin Known
      BY <2>3, <3>1
    <3>4. Get(id)' = Get(id)
      BY <1>1, <3>2, <3>3, FoundAfterPush
    <3> QED
      BY <1>2, <3>4
  <2> QED
    BY <1>8, <2>1, <2>2, <2>3 DEF Add
<1>9. CASE Geolocate \/ Tick
  <2>1. index' = index /\ proxies' \in {[i \in Slots |-> Located(proxies[i])],
                                       [i \in Slots |-> Older(proxies[i])]}
    BY <1>9 DEF Geolocate, Tick
  <2>2. Get(id)' \in {Located(Get(id)), Older(Get(id))}
    BY <1>1, <2>1 DEF Get
  <2> QED
    BY <1>1, <2>2, RecordKept
<1>10. CASE EnforceCapacity \/ EvictPending \/ \E x \in Ids : Remove(x)
  <2>1. \E kept \in SUBSET Slots : Retain(kept)
    <3>1. CASE EnforceCapacity
      <4>1. (Slots \ Doomed(Len(proxies) - MaxProxies)) \in SUBSET Slots
        OBVIOUS
      <4> QED
        BY <3>1, <4>1 DEF EnforceCapacity
    <3>2. CASE EvictPending
      <4>1. {i \in Slots : proxies[i].id \notin pending_eviction} \in SUBSET Slots
        OBVIOUS
      <4> QED
        BY <3>2, <4>1 DEF EvictPending
    <3>3. ASSUME NEW x \in Ids, Remove(x) PROVE \E kept \in SUBSET Slots : Retain(kept)
      <4>1. {i \in Slots : proxies[i].id # x} \in SUBSET Slots
        OBVIOUS
      <4> QED
        BY <3>3, <4>1 DEF Remove
    <3> QED
      BY <1>10, <3>1, <3>2, <3>3
  <2> QED
    BY <1>5, <2>1
<1>11. CASE \/ \E ids \in SUBSET Ids : RememberCondemned(ids)
            \/ \E x \in Ids : SetActive(x)
            \/ \E A, H, E : ActivateBestAvoiding(A, H, E)
            \/ ClearActive \/ Rotate \/ UNCHANGED pool_vars
  BY <1>3, <1>11 DEF RememberCondemned, SetActive, ActivateBestAvoiding, ClearActive, Rotate,
       pool_vars
<1>12. CASE Boot
  BY <1>4, <1>11, <1>12 DEF Boot
<1>13. CASE Step
  BY <1>4, <1>6, <1>7, <1>8, <1>9, <1>10, <1>11, <1>13 DEF Step, ApplyHealthResult
<1> QED
  BY <1>11, <1>12, <1>13 DEF Next

\* The invariant holds of every reachable pool.
THEOREM Invariance == Spec => []IndInv
<1>1. Init => IndInv
  BY InitIndInv
<1>2. IndInv /\ [Next]_pool_vars => IndInv'
  BY StepImplements
<1> QED
  BY <1>1, <1>2, PTL DEF Spec

\* Every variable of the pool keeps its type (pool/mod.rs:44-63).
THEOREM TypeCorrect == Spec => []TypeOK
<1>1. IndInv => TypeOK
  BY DEF IndInv, VecInv, SetInv, TypeOK
<1> QED
  BY <1>1, Invariance, PTL

\* The id index and the vector never disagree, whatever the order of scrapes,
\* sweeps, removals and restarts (pool/mod.rs, every push and retain).
THEOREM IndexNeverStale == Spec => []IndexConsistent
<1>1. IndInv => IndexConsistent
  BY DEF IndInv, VecInv, IndexConsistent
<1> QED
  BY <1>1, Invariance, PTL

\* The vector, the index and the slot implement a set of proxies with at most
\* one selected, from which removals are final (pool/mod.rs:55-61, 581-583).
THEOREM Refinement == Spec => ImplementsPoolSpec
<1>1. Init => Promise!Init
  BY InitIndInv
<1>2. IndInv /\ [Next]_pool_vars => [Promise!Next]_(Promise!vars)
  BY StepImplements
<1> QED
  BY <1>1, <1>2, Invariance, PTL DEF Spec, ImplementsPoolSpec, Promise!Spec

\* Scrapes, sweeps, restarts and the traffic never cut a streak of failures short
\* and never forget a success (pool/mod.rs:138-143).
THEOREM HealthIsKept == Spec => HealthStateKept
<1>1. ASSUME IndInv, [Next]_pool_vars
      PROVE  [\A id \in Members \cap Members' :
                \/ Add(id)
                \/ \E latency \in Latencies, tunneled \in BOOLEAN :
                     ApplyWorking(id, latency, tunneled)
                \/ /\ Get(id)'.consecutive_failures >= Get(id).consecutive_failures
                   /\ HasWorked(Get(id)) => HasWorked(Get(id)')]_pool_vars
  BY <1>1, HealthStep DEF Keeps
<1> QED
  BY <1>1, Invariance, PTL DEF Spec, HealthStateKept
=============================================================================
