-------------------------- MODULE SchedulerProofs ---------------------------
(***************************************************************************)
(* The scheduler, the scrape runs and the traffic drive the pool by the    *)
(* pool's own steps, so what ProxyPoolProofs shows of the pool holds while *)
(* they race; and one batch runs at a time, however many are asked for.    *)
(***************************************************************************)
EXTENDS Scheduler, ProxyPoolProofs

TaskTypes ==
    /\ loop \in {"asleep", "scraping", "merged", "capped", "claimed"}
    /\ scrape_running \in BOOLEAN
    /\ check_running \in BOOLEAN
    /\ in_flight \in BOOLEAN
    /\ task \in [Tasks -> TaskState]

Holds(t) == task[t].stage \in {"claimed", "rounds"}

\* The flag is up when the loop or one task holds it, and they exclude each
\* other.
Exclusive ==
    /\ \A t, u \in Tasks : Holds(t) /\ Holds(u) => t = u
    /\ loop = "claimed" => \A t \in Tasks : ~Holds(t)
    /\ in_flight <=> (loop = "claimed" \/ \E t \in Tasks : Holds(t))

SchedInv == IndInv /\ TaskTypes /\ Exclusive

-----------------------------------------------------------------------------
(* One task moves.                                                         *)

LEMMA NoTaskIs ==
    NoTask \in TaskState /\ NoTask.stage = "none" /\ NoTask.locate = NoProxy
<1>1. 0 \in 0..WorkingInterval
  BY ConstantsAssumption
<1> QED
  BY <1>1 DEF NoTask, TaskState

\* Every task step is the new state of one task.
LEMMA OneMoves ==
    ASSUME TaskTypes, NEW t \in Tasks, NEW s \in TaskState, task' = [task EXCEPT ![t] = s]
    PROVE  /\ task' \in [Tasks -> TaskState]
           /\ task'[t] = s /\ \A u \in Tasks : u # t => task'[u] = task[u]
           /\ Holds(t)' <=> s.stage \in {"claimed", "rounds"}
           /\ \A u \in Tasks : u # t => (Holds(u)' <=> Holds(u))
  BY DEF TaskTypes, Holds

LEMMA StageMoves ==
    ASSUME TaskTypes, NEW t \in Tasks,
           NEW stage \in {"none", "accepted", "scraping", "counted", "claimed", "rounds",
                          "released", "swept"},
           GoTo(t, stage)
    PROVE  \E s \in TaskState : task' = [task EXCEPT ![t] = s] /\ s.stage = stage
<1>1. [task[t] EXCEPT !.stage = stage] \in TaskState
  BY DEF TaskTypes, TaskState
<1>2. [task[t] EXCEPT !.stage = stage].stage = stage
  BY DEF TaskTypes, TaskState
<1>3. task' = [task EXCEPT ![t] = [task[t] EXCEPT !.stage = stage]]
  BY DEF GoTo
<1> QED
  BY <1>1, <1>2, <1>3, Zenon

LEMMA RoundsStart ==
    ASSUME NEW t \in Tasks, NEW by \in {"scheduler", "api"}, StartRounds(t, by)
    PROVE  \E s \in TaskState : task' = [task EXCEPT ![t] = s] /\ s.stage = "rounds"
<1> DEFINE s == [NoTask EXCEPT !.stage = "rounds", !.by = by, !.left = WorkingInterval]
<1>1. WorkingInterval \in 0..WorkingInterval
  BY ConstantsAssumption
<1>2. s \in TaskState /\ s.stage = "rounds"
  BY <1>1 DEF NoTask, TaskState
<1>3. task' = [task EXCEPT ![t] = s]
  BY DEF StartRounds
<1> QED
  BY <1>2, <1>3

-----------------------------------------------------------------------------
(* What a step of the system is for the pool.                              *)

LEMMA ApplyIsPoolStep ==
    ASSUME TaskTypes, NEW t \in Tasks, NEW answer \in task[t].answers, ApplyResult(t, answer)
    PROVE  [Next]_pool_vars
<1>1. answer.id \in Ids /\ answer.verdict \in {"working", "inconclusive", "failed"}
  BY DEF TaskTypes, TaskState, Verdicts
<1>2. CASE answer.id \notin Known
  BY <1>2 DEF ApplyResult
<1>3. CASE answer.id \in Known
  <2>1. ApplyHealthResult(answer.id)
    <3>1. CASE answer.verdict = "working"
      BY <1>3, <3>1 DEF ApplyResult, ApplyHealthResult
    <3>2. CASE answer.verdict = "inconclusive"
      BY <1>3, <3>2 DEF ApplyResult, ApplyHealthResult
    <3>3. CASE answer.verdict = "failed"
      BY <1>3, <3>3 DEF ApplyResult, ApplyHealthResult
    <3> QED
      BY <1>1, <3>1, <3>2, <3>3
  <2> QED
    BY <1>1, <2>1 DEF Next, Step
<1> QED
  BY <1>2, <1>3

LEMMA IsPoolStep ==
    ASSUME TaskTypes, [SchedNext]_vars
    PROVE  [Next]_pool_vars
<1>1. CASE UNCHANGED vars
  BY <1>1 DEF vars
<1>2. CASE LoopStep
  BY <1>2 DEF LoopStep, Wake, LoopScraped, LoopCapacity, LoopProbe, LoopSpawn, Next, Step
<1>3. CASE ScrapeSource
  BY <1>3 DEF ScrapeSource, Next, Step
<1>4. ASSUME NEW t \in Tasks, RequestRun(t) \/ TaskStep(t)
      PROVE  [Next]_pool_vars
  <2>1. CASE \E answer \in task[t].answers : ApplyResult(t, answer)
    BY <2>1, ApplyIsPoolStep
  <2>2. CASE LocateResult(t)
    <3>1. task[t].locate \in Ids
      BY <2>2 DEF TaskTypes, TaskState, LocateResult
    <3> QED
      BY <2>2, <3>1 DEF LocateResult, Next, Step
  <2>3. CASE Sweep(t)
    BY <2>3 DEF Sweep, Next, Step
  <2>4. CASE \/ RequestRun(t) \/ RunScrape(t) \/ RunScraped(t) \/ RunClaim(t) \/ RunStart(t)
             \/ NextRound(t) \/ ProbeStep(t) \/ Release(t) \/ Settle(t)
    BY <2>4 DEF RequestRun, RunScrape, RunScraped, RunClaim, RunStart, NextRound, ProbeStep,
         StartProbe, Answer, Release, Settle
  <2> QED
    BY <1>4, <2>1, <2>2, <2>3, <2>4 DEF TaskStep
<1>5. CASE Meanwhile
  BY <1>5 DEF Meanwhile, Next, Step
<1>6. CASE Elapse
  BY <1>6 DEF Elapse, Next, Step
<1> QED
  BY <1>1, <1>2, <1>3, <1>4, <1>5, <1>6 DEF SchedNext

-----------------------------------------------------------------------------
(* The right to run a batch.                                               *)

\* The flags keep their types, whatever else a step does.
LEMMA FlagTypes ==
    ASSUME TaskTypes, [SchedNext]_vars
    PROVE  /\ loop' \in {"asleep", "scraping", "merged", "capped", "claimed"}
           /\ scrape_running' \in BOOLEAN /\ check_running' \in BOOLEAN /\ in_flight' \in BOOLEAN
<1>1. CASE UNCHANGED sched_vars \/ LoopStep
  BY <1>1 DEF TaskTypes, sched_vars, LoopStep, Wake, LoopScraped, LoopCapacity, LoopProbe,
       LoopSpawn, Claim
<1>2. CASE ScrapeSource \/ Meanwhile \/ Elapse
  BY <1>2 DEF TaskTypes, sched_vars, ScrapeSource, Meanwhile, Elapse
<1>3. ASSUME NEW t \in Tasks,
             RequestRun(t) \/ RunScrape(t) \/ RunScraped(t) \/ RunClaim(t) \/ RunStart(t)
      PROVE  /\ UNCHANGED loop
             /\ scrape_running' \in BOOLEAN /\ check_running' \in BOOLEAN
             /\ in_flight' \in BOOLEAN
  BY <1>3 DEF TaskTypes, RequestRun, RunScrape, RunScraped, RunClaim, Claim, RunStart
<1>4. ASSUME NEW t \in Tasks,
             \/ NextRound(t) \/ ProbeStep(t) \/ LocateResult(t)
             \/ \E answer \in task[t].answers : ApplyResult(t, answer)
      PROVE  UNCHANGED <<loop, scrape_running, check_running, in_flight>>
  BY <1>4 DEF NextRound, ProbeStep, StartProbe, Answer, LocateResult, ApplyResult
<1>5. ASSUME NEW t \in Tasks, Release(t) \/ Sweep(t) \/ Settle(t)
      PROVE  /\ UNCHANGED <<loop, scrape_running>>
             /\ check_running' \in BOOLEAN /\ in_flight' \in BOOLEAN
  BY <1>5 DEF TaskTypes, Release, Sweep, Settle
<1>6. ASSUME NEW t \in Tasks, TaskStep(t)
      PROVE  /\ UNCHANGED loop
             /\ scrape_running' \in BOOLEAN /\ check_running' \in BOOLEAN
             /\ in_flight' \in BOOLEAN
  BY <1>3, <1>4, <1>5, <1>6 DEF TaskTypes, TaskStep
<1> QED
  BY <1>1, <1>2, <1>3, <1>6 DEF TaskTypes, SchedNext, vars

\* A move that neither takes the right nor gives it back.
LEMMA Bystander ==
    ASSUME TaskTypes, Exclusive, NEW t \in Tasks, NEW s \in TaskState,
           task' = [task EXCEPT ![t] = s],
           s.stage \in {"claimed", "rounds"} <=> Holds(t),
           UNCHANGED <<loop, in_flight>>
    PROVE  task' \in [Tasks -> TaskState] /\ Exclusive'
<1>1. \A u \in Tasks : Holds(u)' <=> Holds(u)
  BY OneMoves
<1> QED
  BY <1>1, OneMoves DEF Exclusive

LEMMA LoopInv ==
    ASSUME TaskTypes, Exclusive, LoopStep
    PROVE  task' \in [Tasks -> TaskState] /\ Exclusive'
<1>1. CASE Wake \/ LoopScraped \/ LoopCapacity
  BY <1>1 DEF Wake, LoopScraped, LoopCapacity, TaskTypes, Exclusive, Holds
<1>2. CASE LoopProbe
  BY <1>2 DEF LoopProbe, Claim, TaskTypes, Exclusive, Holds
<1>3. ASSUME NEW t \in Tasks, LoopSpawn(t)
      PROVE  task' \in [Tasks -> TaskState] /\ Exclusive'
  <2>1. PICK s \in TaskState : task' = [task EXCEPT ![t] = s] /\ s.stage = "rounds"
    BY <1>3, RoundsStart DEF LoopSpawn
  <2>2. loop = "claimed" /\ loop' = "asleep" /\ in_flight' = in_flight
    BY <1>3 DEF LoopSpawn
  <2>3. in_flight /\ \A u \in Tasks : ~Holds(u)
    BY <2>2 DEF Exclusive
  <2> QED
    BY <2>1, <2>2, <2>3, OneMoves DEF Exclusive
<1> QED
  BY <1>1, <1>2, <1>3 DEF LoopStep

LEMMA TaskInv ==
    ASSUME IndInv, TaskTypes, Exclusive, NEW t \in Tasks, RequestRun(t) \/ TaskStep(t)
    PROVE  task' \in [Tasks -> TaskState] /\ Exclusive'
<1>1. task[t] \in TaskState /\ 0 \in 0..WorkingInterval
  BY ConstantsAssumption DEF TaskTypes
<1>2. CASE RequestRun(t)
  <2>1. PICK s \in TaskState : task' = [task EXCEPT ![t] = s] /\ s.stage = "accepted"
    <3>1. [NoTask EXCEPT !.stage = "accepted", !.by = "api"] \in TaskState
      BY <1>1 DEF NoTask, TaskState
    <3>2. [NoTask EXCEPT !.stage = "accepted", !.by = "api"].stage = "accepted"
      BY DEF NoTask
    <3> QED
      BY <1>2, <3>1, <3>2 DEF RequestRun
  <2>2. ~Holds(t) /\ UNCHANGED <<loop, in_flight>>
    BY <1>2 DEF RequestRun, InStage, Holds
  <2> QED
    BY <2>1, <2>2, Bystander
<1>3. CASE RunScrape(t)
  <2>1. PICK s \in TaskState : task' = [task EXCEPT ![t] = s] /\ s.stage = "scraping"
    BY <1>3, StageMoves DEF RunScrape
  <2>2. ~Holds(t) /\ UNCHANGED <<loop, in_flight>>
    BY <1>3 DEF RunScrape, InStage, Holds
  <2> QED
    BY <2>1, <2>2, Bystander
<1>4. CASE RunScraped(t)
  <2>1. PICK s \in TaskState : task' = [task EXCEPT ![t] = s] /\ s.stage \in {"counted", "none"}
    BY <1>4, StageMoves, NoTaskIs DEF RunScraped
  <2>2. ~Holds(t) /\ UNCHANGED <<loop, in_flight>>
    BY <1>4 DEF RunScraped, InStage, Holds
  <2> QED
    BY <2>1, <2>2, Bystander
<1>5. CASE RunClaim(t)
  <2>1. task[t].stage = "counted" /\ ~Holds(t) /\ loop' = loop
    BY <1>5 DEF RunClaim, InStage, Holds
  <2>2. CASE Claim /\ GoTo(t, "claimed")
    <3>1. PICK s \in TaskState : task' = [task EXCEPT ![t] = s] /\ s.stage = "claimed"
      BY <2>2, StageMoves
    <3>2. ~in_flight /\ in_flight' = TRUE
      BY <2>2 DEF Claim
    <3>3. loop # "claimed" /\ \A u \in Tasks : ~Holds(u)
      BY <3>2 DEF Exclusive
    <3> QED
      BY <2>1, <3>1, <3>2, <3>3, OneMoves DEF Exclusive
  <2>3. CASE task' = [task EXCEPT ![t] = NoTask] /\ UNCHANGED in_flight
    BY <2>1, <2>3, NoTaskIs, Bystander
  <2> QED
    BY <1>5, <2>2, <2>3 DEF RunClaim
<1>6. CASE RunStart(t)
  <2>1. PICK s \in TaskState : task' = [task EXCEPT ![t] = s] /\ s.stage = "rounds"
    BY <1>6, RoundsStart DEF RunStart
  <2>2. Holds(t) /\ UNCHANGED <<loop, in_flight>>
    BY <1>6 DEF RunStart, InStage, Holds
  <2> QED
    BY <2>1, <2>2, Bystander
<1>7. CASE NextRound(t)
  <2>1. DueBatch(RoundSize) \subseteq Ids
    <3>1. \A i \in Slots : proxies[i] \in ProxyInfo
      BY DEF Slots, IndInv, VecInv
    <3>2. \A i \in Slots : proxies[i].id \in Ids
      BY <3>1 DEF ProxyInfo
    <3> QED
      BY <3>2, Zenon DEF DueBatch, DueSlots
  <2>2. PICK s \in TaskState : task' = [task EXCEPT ![t] = s] /\ s.stage = task[t].stage
    <3>1. [task[t] EXCEPT !.waiting = DueBatch(RoundSize)] \in TaskState
      BY <1>1, <2>1 DEF TaskState
    <3>2. [task[t] EXCEPT !.waiting = DueBatch(RoundSize)].stage = task[t].stage
      BY <1>1 DEF TaskState
    <3>3. task' = [task EXCEPT ![t] = [task[t] EXCEPT !.waiting = DueBatch(RoundSize)]]
      BY <1>7 DEF NextRound
    <3> QED
      BY <3>1, <3>2, <3>3, Zenon
  <2> QED
    BY <1>7, <2>2, Bystander DEF NextRound, Holds
<1>8. ASSUME NEW id \in Ids, StartProbe(t, id)
      PROVE  task' \in [Tasks -> TaskState] /\ Exclusive'
  <2> DEFINE s == [task[t] EXCEPT !.waiting = @ \ {id}, !.probing = @ \cup {id}]
  <2>1. s \in TaskState /\ s.stage = task[t].stage
    BY <1>1 DEF TaskState
  <2>2. task' = [task EXCEPT ![t] = s] /\ UNCHANGED <<loop, in_flight>>
    BY <1>8 DEF StartProbe
  <2> HIDE DEF s
  <2> QED
    BY <2>1, <2>2, Bystander DEF Holds
<1>9. ASSUME NEW id \in Ids, NEW verdict \in Verdicts, Answer(t, id, verdict)
      PROVE  task' \in [Tasks -> TaskState] /\ Exclusive'
  <2>1. PICK answers \in SUBSET [id: Ids, verdict: Verdicts] :
           answers = task[t].answers \cup {[id |-> id, verdict |-> verdict]}
    <3>1. [id |-> id, verdict |-> verdict] \in [id: Ids, verdict: Verdicts]
      OBVIOUS
    <3>2. task[t].answers \in SUBSET [id: Ids, verdict: Verdicts]
      BY <1>1 DEF TaskState
    <3> QED
      BY <3>1, <3>2, Zenon
  <2> DEFINE s == [task[t] EXCEPT !.probing = @ \ {id}, !.answers = answers]
  <2>2. s \in TaskState /\ s.stage = task[t].stage
    BY <1>1 DEF TaskState
  <2>3. task' = [task EXCEPT ![t] = s] /\ UNCHANGED <<loop, in_flight>>
    BY <1>9, <2>1 DEF Answer
  <2> HIDE DEF s
  <2> QED
    BY <2>2, <2>3, Bystander DEF Holds
<1>10. CASE LocateResult(t)
  <2> DEFINE s == [task[t] EXCEPT !.locate = NoProxy]
  <2>1. s \in TaskState /\ s.stage = task[t].stage
    BY <1>1 DEF TaskState
  <2>2. task' = [task EXCEPT ![t] = s] /\ UNCHANGED <<loop, in_flight>>
    BY <1>10 DEF LocateResult
  <2> HIDE DEF s
  <2> QED
    BY <2>1, <2>2, Bystander DEF Holds
<1>11. ASSUME NEW answer \in task[t].answers, ApplyResult(t, answer)
       PROVE  task' \in [Tasks -> TaskState] /\ Exclusive'
  <2>1. PICK where \in Ids \cup {NoProxy} :
           task' = [task EXCEPT ![t].answers = @ \ {answer}, ![t].locate = where]
    <3>1. answer.id \in Ids
      BY <1>1, <1>11 DEF TaskState
    <3> QED
      BY <1>11, <3>1 DEF ApplyResult
  <2> DEFINE s == [task[t] EXCEPT !.answers = @ \ {answer}, !.locate = where]
  <2>2. s \in TaskState /\ s.stage = task[t].stage
    BY <1>1 DEF TaskState
  <2>3. task' = [task EXCEPT ![t] = s] /\ UNCHANGED <<loop, in_flight>>
    BY <1>11, <2>1 DEF ApplyResult
  <2> HIDE DEF s
  <2> QED
    BY <2>2, <2>3, Bystander DEF Holds
<1>12. CASE Release(t)
  <2> DEFINE s == [task[t] EXCEPT !.stage = "released", !.left = 0]
  <2>1. s \in TaskState /\ s.stage = "released"
    BY <1>1 DEF TaskState
  <2>2. task' = [task EXCEPT ![t] = s] /\ loop' = loop /\ in_flight' = FALSE
    BY <1>12 DEF Release
  <2>3. Holds(t)
    BY <1>12 DEF Release, BetweenRounds, InStage, Holds
  <2>4. loop # "claimed" /\ \A u \in Tasks : u # t => ~Holds(u)
    BY <2>3 DEF Exclusive
  <2> HIDE DEF s
  <2> QED
    BY <2>1, <2>2, <2>4, OneMoves DEF Exclusive
<1>13. CASE Sweep(t)
  <2>1. PICK s \in TaskState : task' = [task EXCEPT ![t] = s] /\ s.stage = "swept"
    BY <1>13, StageMoves DEF Sweep
  <2>2. ~Holds(t) /\ UNCHANGED <<loop, in_flight>>
    BY <1>13 DEF Sweep, InStage, Holds
  <2> QED
    BY <2>1, <2>2, Bystander
<1>14. CASE Settle(t)
  <2>1. task' = [task EXCEPT ![t] = NoTask] /\ ~Holds(t) /\ UNCHANGED <<loop, in_flight>>
    BY <1>14 DEF Settle, InStage, Holds
  <2> QED
    BY <2>1, NoTaskIs, Bystander
<1> QED
  BY <1>2, <1>3, <1>4, <1>5, <1>6, <1>7, <1>8, <1>9, <1>10, <1>11, <1>12, <1>13, <1>14
     DEF TaskStep, ProbeStep

\* Time passes for every task at once and moves none from its stage.
LEMMA ElapseInv ==
    ASSUME TaskTypes, Exclusive, Elapse
    PROVE  task' \in [Tasks -> TaskState] /\ Exclusive'
<1> DEFINE less(t) == IF task[t].left > 0 THEN task[t].left - 1 ELSE 0
           s(t) == [task[t] EXCEPT !.left = less(t)]
<1>1. ASSUME NEW t \in Tasks PROVE s(t) \in TaskState /\ s(t).stage = task[t].stage
  <2>1. task[t] \in TaskState
    BY DEF TaskTypes
  <2>2. task[t].left \in 0..WorkingInterval /\ WorkingInterval \in Nat
    BY <2>1, ConstantsAssumption DEF TaskState
  <2>3. less(t) \in 0..WorkingInterval
    BY <2>2
  <2> HIDE DEF less
  <2> QED
    BY <2>1, <2>3 DEF TaskState
<1>2. task' = [t \in Tasks |-> s(t)] /\ UNCHANGED <<loop, in_flight>>
  BY DEF Elapse
<1> HIDE DEF s
<1>3. task' \in [Tasks -> TaskState] /\ \A t \in Tasks : task'[t].stage = task[t].stage
  BY <1>1, <1>2
<1> QED
  BY <1>2, <1>3 DEF Exclusive, Holds

LEMMA SchedStep ==
    ASSUME SchedInv, [SchedNext]_vars
    PROVE  SchedInv' /\ [Promise!Next]_(Promise!vars)
<1>1. IndInv' /\ [Promise!Next]_(Promise!vars)
  BY IsPoolStep, StepImplements DEF SchedInv
<1>2. task' \in [Tasks -> TaskState] /\ Exclusive'
  <2>1. CASE UNCHANGED sched_vars
    BY <2>1 DEF sched_vars, SchedInv, TaskTypes, Exclusive, Holds
  <2> QED
    BY <2>1, LoopInv, TaskInv, ElapseInv
       DEF SchedInv, SchedNext, vars, ScrapeSource, Meanwhile
<1>3. TaskTypes'
  BY <1>2, FlagTypes DEF SchedInv, TaskTypes
<1> QED
  BY <1>1, <1>2, <1>3 DEF SchedInv

LEMMA SchedStarts ==
    ASSUME SchedInit
    PROVE  SchedInv /\ Promise!Init
<1>1. IndInv /\ Promise!Init
  BY InitIndInv DEF SchedInit
<1>2. TaskTypes /\ Exclusive
  BY NoTaskIs DEF SchedInit, TaskTypes, Exclusive, Holds
<1> QED
  BY <1>1, <1>2 DEF SchedInv

-----------------------------------------------------------------------------
(* Theorems.                                                               *)

\* The invariant of the scheduler: that of the pool, the types of the tasks, and
\* who holds the right to run a batch.
THEOREM SchedInvariance == SchedSpec => []SchedInv
<1>1. SchedInit => SchedInv
  BY SchedStarts
<1>2. SchedInv /\ [SchedNext]_vars => SchedInv'
  BY SchedStep
<1> QED
  BY <1>1, <1>2, PTL DEF SchedSpec

\* Every variable of the loop, the tasks and the pool they drive keeps its type
\* (main.rs:565-897, api.rs:1031-1162).
THEOREM SchedTypeCorrect == SchedSpec => []SchedTypeOK
<1>1. SchedInv => SchedTypeOK
  BY DEF SchedInv, IndInv, VecInv, SetInv, TypeOK, TaskTypes, SchedTypeOK
<1> QED
  BY <1>1, SchedInvariance, PTL

\* However many batches are asked for, by the loop and through the API, one runs
\* at a time, and check_in_flight is up exactly while one does
\* (main.rs:635-650, api.rs:1066-1075).
THEOREM OneBatchAlways == SchedSpec => []OneBatchAtATime
<1>1. SchedInv => OneBatchAtATime
  <2> SUFFICES ASSUME SchedInv PROVE OneBatchAtATime
    OBVIOUS
  <2>1. \A holder, other \in Holders : holder = other
    BY DEF SchedInv, Exclusive, Holds, Holders
  <2>2. in_flight <=> Holders # {}
    BY DEF SchedInv, Exclusive, Holds, Holders
  <2> QED
    BY <2>1, <2>2 DEF OneBatchAtATime
<1> QED
  BY <1>1, SchedInvariance, PTL

\* While the loop, the batches, the scrapes, the operator and the traffic race for
\* it, the pool still implements the set of PoolSpec: no lookup reads a record
\* that moved, no removal moves the selection to another proxy.
THEOREM PoolKeepsItsPromise == SchedSpec => ImplementsPoolSpec
<1>1. SchedInit => Promise!Init
  BY SchedStarts
<1>2. SchedInv /\ [SchedNext]_vars => [Promise!Next]_(Promise!vars)
  BY SchedStep
<1> QED
  BY <1>1, <1>2, SchedInvariance, PTL DEF SchedSpec, ImplementsPoolSpec, Promise!Spec

\* And what the probes learned of a proxy outlives all of it (pool/mod.rs:138-143).
THEOREM HealthKeptUnderLoad == SchedSpec => HealthStateKept
<1>1. ASSUME SchedInv, [SchedNext]_vars
      PROVE  [\A id \in Members \cap Members' :
                \/ Add(id)
                \/ \E latency \in Latencies, tunneled \in BOOLEAN :
                     ApplyWorking(id, latency, tunneled)
                \/ /\ Get(id)'.consecutive_failures >= Get(id).consecutive_failures
                   /\ HasWorked(Get(id)) => HasWorked(Get(id)')]_pool_vars
  BY <1>1, IsPoolStep, HealthStep DEF SchedInv, Keeps
<1> QED
  BY <1>1, SchedInvariance, PTL DEF SchedSpec, HealthStateKept
=============================================================================
