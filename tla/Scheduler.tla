----------------------------- MODULE Scheduler -----------------------------
(***************************************************************************)
(* Discovery and probing: the scheduler loop of crates/proxy-daemon/src/   *)
(* main.rs, the scrape run of api.rs, and check_batch of                   *)
(* crates/proxy-core/src/health/mod.rs, over one ProxyPool.                *)
(*                                                                         *)
(* A task is what tokio::spawn starts for the probing: the scheduler's     *)
(* batch, or the whole of a scrape run asked for through the API.  The     *)
(* loop, the tasks, the probes, the operator and the traffic interleave at *)
(* every await; what happens under one lock is one action.  The exit       *)
(* address is geolocated when a result is applied.                         *)
(***************************************************************************)
EXTENDS ProxyPool

CONSTANTS
    Tasks,          \* tasks that may be alive at once
    RoundSize,      \* ROUND_SIZE: how many proxies one round takes
    Concurrency     \* the permits the probes of all the tasks share

ASSUME SchedulerAssumption ==
    /\ RoundSize \in Nat \ {0}
    /\ Concurrency \in Nat \ {0}

VARIABLES
    loop,           \* where the scheduler loop is
    scrape_running, \* ScrapeState.running
    check_running,  \* ScrapeState.check_running, what the API reports
    in_flight,      \* check_in_flight: the right to run a batch
    task            \* what each task is doing

sched_vars == <<loop, scrape_running, check_running, in_flight, task>>
vars == <<pool_vars, sched_vars>>

Verdicts == {"working", "inconclusive", "failed"}

\* `waiting`, `probing` and `answers` are the round: not started, in flight,
\* and in the channel; `locate` is the result whose exit is to be geolocated;
\* `left` is the time to the deadline.
TaskState ==
    [stage: {"none", "accepted", "scraping", "counted", "claimed", "rounds",
             "released", "swept"},
     by: {"scheduler", "api"},
     waiting: SUBSET Ids, probing: SUBSET Ids,
     answers: SUBSET [id: Ids, verdict: Verdicts],
     locate: Ids \cup {NoProxy},
     left: 0..WorkingInterval]

NoTask ==
    [stage |-> "none", by |-> "scheduler", waiting |-> {}, probing |-> {},
     answers |-> {}, locate |-> NoProxy, left |-> 0]

SchedInit ==
    /\ Init
    /\ loop = "asleep"
    /\ scrape_running = FALSE
    /\ check_running = FALSE
    /\ in_flight = FALSE
    /\ task = [t \in Tasks |-> NoTask]

InStage(t, stage) == task[t].stage = stage
GoTo(t, stage) == task' = [task EXCEPT ![t].stage = stage]

\* The first round is asked for by the task itself.
StartRounds(t, by) ==
    task' = [task EXCEPT ![t] = [NoTask EXCEPT !.stage = "rounds", !.by = by,
                                               !.left = WorkingInterval]]

-----------------------------------------------------------------------------
(* The scheduler loop.                                                     *)

\* The sleep is over.  Whether a scrape is due is left open.
Wake ==
    /\ loop = "asleep"
    /\ \/ loop' = "scraping" /\ scrape_running' = TRUE
       \/ loop' = "capped" /\ UNCHANGED scrape_running
    /\ UNCHANGED <<pool_vars, check_running, in_flight, task>>

\* One source answered; it is merged as it arrives.
ScrapeSource ==
    /\ \/ loop = "scraping"
       \/ \E t \in Tasks : InStage(t, "scraping")
    /\ \E found \in SUBSET Ids : Merge(found)
    /\ UNCHANGED sched_vars

LoopScraped ==
    /\ loop = "scraping"
    /\ loop' = "merged"
    /\ scrape_running' = FALSE
    /\ UNCHANGED <<pool_vars, check_running, in_flight, task>>

LoopCapacity ==
    /\ loop = "merged"
    /\ loop' = "capped"
    /\ \/ EnforceCapacity
       \/ Len(proxies) <= MaxProxies /\ UNCHANGED pool_vars
    /\ UNCHANGED <<scrape_running, check_running, in_flight, task>>

\* A bug: the flag is stored without being compared.
ClaimBlindly == in_flight' = TRUE

\* The compare_exchange on check_in_flight.
Claim == ~in_flight /\ in_flight' = TRUE

\* Something is due and no batch runs: the right to run one is taken.
\* Otherwise back to sleep.
LoopProbe ==
    /\ loop = "capped"
    /\ \/ DueSlots # {} /\ Claim /\ loop' = "claimed"
       \/ /\ DueSlots = {} \/ in_flight
          /\ loop' = "asleep"
          /\ UNCHANGED in_flight
    /\ UNCHANGED <<pool_vars, scrape_running, check_running, task>>

LoopSpawn(t) ==
    /\ loop = "claimed"
    /\ InStage(t, "none")
    /\ check_running' = TRUE
    /\ StartRounds(t, "scheduler")
    /\ loop' = "asleep"
    /\ UNCHANGED <<pool_vars, scrape_running, in_flight>>

-----------------------------------------------------------------------------
(* A scrape run asked for through the API.                                 *)

\* create_scrape_run looks at the flag; the task it spawns sets it later.
RequestRun(t) ==
    /\ InStage(t, "none")
    /\ ~scrape_running
    /\ task' = [task EXCEPT ![t] = [NoTask EXCEPT !.stage = "accepted", !.by = "api"]]
    /\ UNCHANGED <<pool_vars, loop, scrape_running, check_running, in_flight>>

RunScrape(t) ==
    /\ InStage(t, "accepted")
    /\ scrape_running' = TRUE
    /\ GoTo(t, "scraping")
    /\ UNCHANGED <<pool_vars, loop, check_running, in_flight>>

RunScraped(t) ==
    /\ InStage(t, "scraping")
    /\ scrape_running' = FALSE
    /\ \/ DueSlots # {} /\ GoTo(t, "counted")
       \/ DueSlots = {} /\ task' = [task EXCEPT ![t] = NoTask]
    /\ UNCHANGED <<pool_vars, loop, check_running, in_flight>>

RunClaim(t) ==
    /\ InStage(t, "counted")
    /\ \/ Claim /\ GoTo(t, "claimed")
       \/ in_flight /\ task' = [task EXCEPT ![t] = NoTask] /\ UNCHANGED in_flight
    /\ UNCHANGED <<pool_vars, loop, scrape_running, check_running>>

RunStart(t) ==
    /\ InStage(t, "claimed")
    /\ check_running' = TRUE
    /\ StartRounds(t, "api")
    /\ UNCHANGED <<pool_vars, loop, scrape_running, in_flight>>

-----------------------------------------------------------------------------
(* The rounds of a batch.                                                  *)

BetweenRounds(t) ==
    /\ InStage(t, "rounds")
    /\ task[t].waiting = {} /\ task[t].probing = {} /\ task[t].answers = {}
    /\ task[t].locate = NoProxy

\* A bug: no deadline, the batch goes on while anything is due.
NeverExpired(t) == FALSE

Expired(t) == task[t].left = 0

NextRound(t) ==
    /\ BetweenRounds(t)
    /\ ~Expired(t)
    /\ DueSlots # {}
    /\ task' = [task EXCEPT ![t].waiting = DueBatch(RoundSize)]
    /\ UNCHANGED <<pool_vars, loop, scrape_running, check_running, in_flight>>

\* check_batch spawns a probe for each proxy, as permits come free.
StartProbe(t, id) ==
    /\ id \in task[t].waiting
    /\ Cardinality({probe \in Tasks \X Ids : probe[2] \in task[probe[1]].probing})
         < Concurrency
    /\ task' = [task EXCEPT ![t].waiting = @ \ {id}, ![t].probing = @ \cup {id}]
    /\ UNCHANGED <<pool_vars, loop, scrape_running, check_running, in_flight>>

\* The probe sends its verdict into the channel and gives the permit back.
Answer(t, id, verdict) ==
    /\ id \in task[t].probing
    /\ task' = [task EXCEPT ![t].probing = @ \ {id},
                            ![t].answers = @ \cup {[id |-> id, verdict |-> verdict]}]
    /\ UNCHANGED <<pool_vars, loop, scrape_running, check_running, in_flight>>

\* The channel is drained once every probe of the round has been spawned.  A
\* result for a proxy that is gone is dropped by the pool.
ApplyResult(t, answer) ==
    /\ answer \in task[t].answers
    /\ task[t].waiting = {}
    /\ task[t].locate = NoProxy
    /\ CASE answer.id \notin Known -> UNCHANGED pool_vars
         [] answer.id \in Known /\ answer.verdict = "working" ->
              \E latency \in Latencies, tunneled \in BOOLEAN :
                ApplyWorking(answer.id, latency, tunneled)
         [] answer.id \in Known /\ answer.verdict = "inconclusive" ->
              ApplyInconclusive(answer.id)
         [] answer.id \in Known /\ answer.verdict = "failed" ->
              ApplyFailed(answer.id)
    /\ task' = [task EXCEPT ![t].answers = @ \ {answer},
                            ![t].locate = IF task[t].by = "scheduler"
                                          THEN answer.id ELSE NoProxy]
    /\ UNCHANGED <<loop, scrape_running, check_running, in_flight>>

LocateResult(t) ==
    /\ task[t].locate # NoProxy
    /\ \/ GeolocateOne(task[t].locate)
       \/ task[t].locate \notin Known /\ UNCHANGED pool_vars
    /\ task' = [task EXCEPT ![t].locate = NoProxy]
    /\ UNCHANGED <<loop, scrape_running, check_running, in_flight>>

\* The deadline has passed, or nothing is due: the right to run a batch is
\* given back before the sweep.
Release(t) ==
    /\ BetweenRounds(t)
    /\ Expired(t) \/ DueSlots = {}
    /\ in_flight' = FALSE
    /\ task' = [task EXCEPT ![t].stage = "released", ![t].left = 0]
    /\ UNCHANGED <<pool_vars, loop, scrape_running, check_running>>

Sweep(t) ==
    /\ InStage(t, "released")
    /\ \/ EvictPending
       \/ pending_eviction = {} /\ UNCHANGED pool_vars
    /\ GoTo(t, "swept")
    /\ UNCHANGED <<loop, scrape_running, check_running, in_flight>>

Settle(t) ==
    /\ InStage(t, "swept")
    /\ check_running' = FALSE
    /\ task' = [task EXCEPT ![t] = NoTask]
    /\ UNCHANGED <<pool_vars, loop, scrape_running, in_flight>>

-----------------------------------------------------------------------------
(* What goes on around them.                                               *)

\* The traffic finds a proxy dead, the operator adds or removes one.
Meanwhile ==
    /\ \E id \in Ids : ReportFailure(id) \/ Add(id) \/ Remove(id)
    /\ UNCHANGED sched_vars

Elapse ==
    /\ Tick
    /\ task' = [t \in Tasks |->
                  [task[t] EXCEPT !.left = IF @ > 0 THEN @ - 1 ELSE 0]]
    /\ UNCHANGED <<loop, scrape_running, check_running, in_flight>>

LoopStep ==
    \/ Wake \/ LoopScraped \/ LoopCapacity \/ LoopProbe
    \/ \E t \in Tasks : LoopSpawn(t)

\* A probe answers within its timeout, whatever the verdict.
ProbeStep(t) ==
    \E id \in Ids :
      \/ StartProbe(t, id)
      \/ \E verdict \in Verdicts : Answer(t, id, verdict)

TaskStep(t) ==
    \/ RunScrape(t) \/ RunScraped(t) \/ RunClaim(t) \/ RunStart(t)
    \/ NextRound(t) \/ ProbeStep(t) \/ LocateResult(t)
    \/ \E answer \in task[t].answers : ApplyResult(t, answer)
    \/ Release(t) \/ Sweep(t) \/ Settle(t)

SchedNext ==
    \/ LoopStep
    \/ ScrapeSource
    \/ \E t \in Tasks : RequestRun(t) \/ TaskStep(t)
    \/ Meanwhile
    \/ Elapse

\* The sleeps end, the probes time out, the runtime polls every task, and time
\* passes.  A scrape, the operator and the traffic owe nothing.
Fairness ==
    /\ WF_vars(LoopStep)
    /\ \A t \in Tasks : WF_vars(TaskStep(t))
    /\ WF_vars(Elapse)

SchedSpec == SchedInit /\ [][SchedNext]_vars /\ Fairness

-----------------------------------------------------------------------------
(* Properties.                                                             *)

SchedTypeOK ==
    /\ TypeOK
    /\ loop \in {"asleep", "scraping", "merged", "capped", "claimed"}
    /\ scrape_running \in BOOLEAN
    /\ check_running \in BOOLEAN
    /\ in_flight \in BOOLEAN
    /\ task \in [Tasks -> TaskState]

\* Who holds the right to run a batch.
Holders == {t \in Tasks : task[t].stage \in {"claimed", "rounds"}}
             \cup (IF loop = "claimed" THEN {"the loop"} ELSE {})

\* Only one batch at a time, whoever asked for it, and the flag is taken
\* exactly while one runs (main.rs:635-636 "Only one batch at a time").
OneBatchAtATime ==
    /\ \A holder, other \in Holders : holder = other
    /\ in_flight <=> Holders # {}

\* The sweep always comes: a condemned proxy does not stay pending for ever,
\* however many proxies keep coming due (main.rs:706-719, the deadline).
TheSweepComes == pending_eviction # {} ~> pending_eviction = {}

\* A proxy is evicted only while it fails: at the sweep every proxy that leaves
\* has failed its last probes in a row, or has never worked
\* (pool/mod.rs:433-436).
EvictsOnlyTheFailing ==
    [][\A id \in Members :
          id \in pending_eviction /\ id \notin Members' /\ id \in condemned'
            => Exhausted(Get(id)) \/ ~HasWorked(Get(id))]_vars
=============================================================================
