------------------------- MODULE PersistenceProofs --------------------------
(***************************************************************************)
(* What the condemned table names, through any number of batches, lives of *)
(* the process, failed reads and failed writes; and the three copies of    *)
(* the operator's choice.                                                  *)
(***************************************************************************)
EXTENDS Persistence, ActiveChoice, TLAPS

\* While the pool changes, it remembers what is about to be on disk, and what is
\* there already but for what the boot could not read.
Remembered ==
    /\ Running => saved_barred \ unread \subseteq barred
    /\ \A t \in Tasks : batch[t].list \subseteq barred

IndInv == StoreTypeOK /\ Remembered

LEMMA NoBatchIs ==
    /\ NoBatch \in BatchState /\ NoBatch.list = {} /\ NoBatch.stage = "none"
    /\ \A by \in {"scheduler", "api"} :
         /\ [NoBatch EXCEPT !.stage = "rounds", !.by = by] \in BatchState
         /\ [NoBatch EXCEPT !.stage = "rounds", !.by = by].list = {}
  BY DEF NoBatch, BatchState, Stages

LEMMA InitInv == StoreInit => IndInv
<1> SUFFICES ASSUME StoreInit PROVE IndInv
  OBVIOUS
<1>1. StoreTypeOK
  BY NoBatchIs DEF StoreInit, Init, StoreTypeOK, TypeOK
<1>2. Remembered
  BY NoBatchIs DEF StoreInit, Init, Remembered, Running
<1> QED
  BY <1>1, <1>2 DEF IndInv

\* One batch moves and the lists of the others stay as they are.
LEMMA BatchMoves ==
    ASSUME batch \in [Tasks -> BatchState], NEW t \in Tasks, NEW b \in BatchState,
           batch' = [batch EXCEPT ![t] = b]
    PROVE  /\ batch' \in [Tasks -> BatchState]
           /\ batch'[t] = b /\ \A u \in Tasks : u # t => batch'[u] = batch[u]
  OBVIOUS

LEMMA GoToIs ==
    ASSUME batch \in [Tasks -> BatchState], NEW t \in Tasks, NEW stage \in Stages
    PROVE  /\ [batch[t] EXCEPT !.stage = stage] \in BatchState
           /\ [batch[t] EXCEPT !.stage = stage].list = batch[t].list
  BY DEF BatchState

LEMMA TakesAlong ==
    ASSUME batch \in [Tasks -> BatchState], NEW t \in Tasks, NEW stage \in Stages,
           NEW ids \in SUBSET Ids
    PROVE  /\ [batch[t] EXCEPT !.stage = stage, !.snapshot = ids] \in BatchState
           /\ [batch[t] EXCEPT !.stage = stage, !.snapshot = ids].list = batch[t].list
  BY DEF BatchState

-----------------------------------------------------------------------------
(* The life of the process.                                                *)

\* What is in memory is gone, and the tables are as they were or hold what was
\* in memory.
LEMMA DieInv ==
    ASSUME IndInv, Crash \/ StopWrite
    PROVE  IndInv'
<1>1. Die /\ saved_members' \subseteq Ids /\ UNCHANGED saved_barred
  BY DEF Crash, StopWrite, disk, IndInv, StoreTypeOK
<1>2. ~Running'
  BY <1>1 DEF Die, Running
<1>3. StoreTypeOK'
  BY <1>1, <1>2, NoBatchIs DEF Die, IndInv, StoreTypeOK, TypeOK
<1>4. Remembered'
  BY <1>1, <1>2, NoBatchIs DEF Die, Remembered
<1> QED
  BY <1>3, <1>4 DEF IndInv

\* What the boot does not remember is what it has not read.
LEMMA BootInv ==
    ASSUME IndInv, BootRestore \/ BootRemember
    PROVE  IndInv'
<1>1. CASE BootRestore
  <2>1. /\ life' = "restored" /\ members' \in {members, members \cup saved_members}
        /\ UNCHANGED <<active, barred, pending, batch, leaving, unread, disk>> /\ ~Running
    BY <1>1 DEF BootRestore, Boot, Running, vars
  <2>2. ~Running'
    BY <2>1 DEF Running
  <2>3. StoreTypeOK'
    BY <2>1, <2>2 DEF IndInv, StoreTypeOK, TypeOK, disk
  <2>4. Remembered'
    BY <2>1, <2>2 DEF IndInv, Remembered
  <2> QED
    BY <2>3, <2>4 DEF IndInv
<1>2. CASE BootRemember
  <2>1. PICK ids \in SUBSET saved_barred : Remember(ids)
    BY <1>2 DEF BootRemember
  <2>2. /\ life' = "up" /\ barred' = barred \cup ids /\ unread' = saved_barred \ ids
        /\ UNCHANGED <<members, active, pending, batch, leaving, saved_members, saved_barred>>
    BY <1>2, <2>1 DEF BootRemember, Remember, Bar, disk
  <2>3. StoreTypeOK'
    BY <2>2 DEF IndInv, StoreTypeOK, TypeOK, Running
  <2>4. Remembered'
    BY <2>2 DEF IndInv, Remembered
  <2> QED
    BY <2>3, <2>4 DEF IndInv
<1> QED
  BY <1>1, <1>2

-----------------------------------------------------------------------------
(* The pool.                                                               *)

LEMMA Kept ==
    ASSUME TypeOK, NEW S
    PROVE  StillActive(members \ S) \in (members \ S) \cup {NoProxy}
  BY DEF TypeOK, StillActive

LEMMA PoolInv ==
    ASSUME IndInv, Scrape \/ Operator \/ StopSnapshot \/ \E t \in Tasks : Condemn(t)
    PROVE  IndInv'
<1>1. /\ Running /\ Running'
      /\ UNCHANGED <<barred, batch, unread, saved_members, saved_barred>>
  BY DEF Scrape, Operator, StopSnapshot, Condemn, InStage, Running, Discover, Vouch, Drop,
         memory, disk, vars
<1>2. /\ members' \subseteq Ids /\ active' \in members' \cup {NoProxy}
      /\ pending' \subseteq Ids /\ leaving' \subseteq Ids
      /\ life' \in {"down", "restored", "up", "stopping"}
  <2>1. CASE Scrape
    BY <2>1 DEF Scrape, Discover, IndInv, StoreTypeOK, TypeOK
  <2>2. CASE Operator
    BY <2>2, Kept DEF Operator, Vouch, Drop, IndInv, StoreTypeOK, TypeOK
  <2>3. CASE StopSnapshot
    BY <2>3 DEF StopSnapshot, memory, IndInv, StoreTypeOK, TypeOK
  <2>4. CASE \E t \in Tasks : Condemn(t)
    BY <2>4 DEF Condemn, vars, IndInv, StoreTypeOK, TypeOK
  <2> QED
    BY <2>1, <2>2, <2>3, <2>4
<1>3. StoreTypeOK'
  BY <1>1, <1>2 DEF IndInv, StoreTypeOK, TypeOK
<1>4. Remembered'
  BY <1>1 DEF IndInv, Remembered
<1> QED
  BY <1>3, <1>4 DEF IndInv

\* The sweep bars before it forgets.
LEMMA SweepInv ==
    ASSUME IndInv, NEW t \in Tasks, Sweep(t)
    PROVE  IndInv'
<1>1. /\ Running /\ Running' /\ members' = members \ pending
      /\ active' = StillActive(members \ pending) /\ barred' = barred \cup pending
      /\ unread' = unread \ pending
      /\ pending' = {} /\ UNCHANGED <<life, leaving, saved_members, saved_barred>>
  BY DEF Sweep, InStage, Running, Evict, disk
<1>2. PICK b \in BatchState : batch' = [batch EXCEPT ![t] = b] /\ b.list \subseteq batch[t].list
  <2>1. CASE GoTo(t, "swept")
    <3>1. batch' = [batch EXCEPT ![t] = [batch[t] EXCEPT !.stage = "swept"]] /\ "swept" \in Stages
      BY <2>1 DEF GoTo, Stages
    <3> QED
      BY <3>1, GoToIs DEF IndInv, StoreTypeOK
  <2>2. CASE batch' = [batch EXCEPT ![t] = NoBatch]
    BY <2>2, NoBatchIs
  <2> QED
    BY <2>1, <2>2 DEF Sweep
<1>3. StoreTypeOK'
  BY <1>1, <1>2, BatchMoves, Kept DEF IndInv, StoreTypeOK, TypeOK
<1>4. Remembered'
  BY <1>1, <1>2, BatchMoves DEF IndInv, Remembered, StoreTypeOK
<1> QED
  BY <1>3, <1>4 DEF IndInv

-----------------------------------------------------------------------------
(* What a batch writes.                                                    *)

\* Nothing is written that was not in memory, and nothing is taken out of the
\* condemned table.
LEMMA BatchInv ==
    ASSUME IndInv, NEW t \in Tasks, NEW b \in BatchState,
           Running, UNCHANGED <<memory, life, leaving, unread>>,
           batch' = [batch EXCEPT ![t] = b],
           b.list \subseteq batch[t].list \cup barred,
           saved_members' \subseteq Ids,
           saved_barred' \in {saved_barred, saved_barred \cup batch[t].list}
    PROVE  IndInv'
<1>1. UNCHANGED <<members, active, barred, pending>> /\ Running'
  BY DEF memory, Running
<1>2. batch[t].list \subseteq Ids
  BY DEF IndInv, StoreTypeOK, BatchState
<1>3. StoreTypeOK'
  BY <1>1, <1>2, BatchMoves DEF IndInv, StoreTypeOK, TypeOK
<1>4. Remembered'
  <2>1. Remembered /\ batch[t].list \subseteq barred
    BY DEF IndInv, Remembered
  <2>2. \A u \in Tasks : batch'[u].list \subseteq barred
    BY <2>1, BatchMoves DEF IndInv, StoreTypeOK, Remembered
  <2> QED
    BY <1>1, <2>1, <2>2 DEF Remembered
<1> QED
  BY <1>3, <1>4 DEF IndInv

LEMMA WritesInv ==
    ASSUME IndInv, NEW t \in Tasks,
           \/ StartBatch(t) \/ EndRounds(t) \/ MidSnapshot(t) \/ MidWrite(t)
           \/ Snapshot(t) \/ ListCondemned(t) \/ WriteProxies(t) \/ WriteCondemned(t)
    PROVE  IndInv'
<1>1. Running /\ UNCHANGED <<memory, life, leaving, unread>>
  BY DEF StartBatch, EndRounds, MidSnapshot, MidWrite, Snapshot, ListCondemned, WriteProxies,
         WriteCondemned, InStage
<1>2. /\ batch \in [Tasks -> BatchState] /\ members \subseteq Ids /\ barred \subseteq Ids
      /\ saved_members \subseteq Ids /\ batch[t].snapshot \subseteq Ids
  BY DEF IndInv, StoreTypeOK, TypeOK, BatchState
<1>3. {"rounds", "saving", "released", "snapped", "listed", "written"} \subseteq Stages
  BY DEF Stages
<1>4. CASE StartBatch(t)
  <2>1. PICK by \in {"scheduler", "api"} :
           batch' = [batch EXCEPT ![t] = [NoBatch EXCEPT !.stage = "rounds", !.by = by]]
    BY <1>4 DEF StartBatch
  <2>2. UNCHANGED <<saved_members, saved_barred>>
    BY <1>4 DEF StartBatch, disk
  <2> QED
    BY <1>1, <1>2, <2>1, <2>2, NoBatchIs, BatchInv
<1>5. CASE EndRounds(t)
  <2>1. /\ batch' = [batch EXCEPT ![t] = [batch[t] EXCEPT !.stage = "released"]]
        /\ UNCHANGED <<saved_members, saved_barred>>
    BY <1>5 DEF EndRounds, GoTo, disk
  <2> QED
    BY <1>1, <1>2, <1>3, <2>1, GoToIs, BatchInv
<1>6. CASE MidSnapshot(t) \/ Snapshot(t)
  <2>1. PICK stage \in {"saving", "snapped"} :
           batch' = [batch EXCEPT ![t] = [batch[t] EXCEPT !.stage = stage, !.snapshot = members]]
    BY <1>6 DEF MidSnapshot, Snapshot
  <2>2. UNCHANGED <<saved_members, saved_barred>>
    BY <1>6 DEF MidSnapshot, Snapshot, disk
  <2> QED
    BY <1>1, <1>2, <1>3, <2>1, <2>2, TakesAlong, BatchInv
<1>7. CASE MidWrite(t)
  <2>1. /\ batch' = [batch EXCEPT ![t] = [batch[t] EXCEPT !.stage = "rounds", !.snapshot = {}]]
        /\ saved_members' \in {batch[t].snapshot, saved_members} /\ UNCHANGED saved_barred
    BY <1>7 DEF MidWrite
  <2>2. saved_members' \subseteq Ids
    BY <1>2, <2>1
  <2>3. PICK b \in BatchState : b = [batch[t] EXCEPT !.stage = "rounds", !.snapshot = {}] /\ b.list = batch[t].list
    <3>1. [batch[t] EXCEPT !.stage = "rounds", !.snapshot = {}] \in BatchState
      BY <1>2 DEF BatchState, Stages
    <3>2. [batch[t] EXCEPT !.stage = "rounds", !.snapshot = {}].list = batch[t].list
      BY <1>2 DEF BatchState
    <3> QED
      BY <3>1, <3>2, Zenon
  <2>4. batch' = [batch EXCEPT ![t] = b]
    BY <2>1, <2>3
  <2> QED
    BY <1>1, <2>1, <2>2, <2>3, <2>4, BatchInv
<1>8. CASE ListCondemned(t)
  <2>1. /\ batch' = [batch EXCEPT ![t] = [batch[t] EXCEPT !.stage = "listed", !.list = barred]]
        /\ UNCHANGED <<saved_members, saved_barred>>
    BY <1>8 DEF ListCondemned, disk
  <2>2. PICK b \in BatchState : b = [batch[t] EXCEPT !.stage = "listed", !.list = barred] /\ b.list = barred
    <3>1. [batch[t] EXCEPT !.stage = "listed", !.list = barred] \in BatchState
      BY <1>2 DEF BatchState, Stages
    <3>2. [batch[t] EXCEPT !.stage = "listed", !.list = barred].list = barred
      BY <1>2 DEF BatchState
    <3> QED
      BY <3>1, <3>2, Zenon
  <2>3. batch' = [batch EXCEPT ![t] = b]
    BY <2>1, <2>2
  <2> QED
    BY <1>1, <1>2, <2>1, <2>2, <2>3, BatchInv
<1>9. CASE WriteProxies(t)
  <2>1. /\ \/ batch' = [batch EXCEPT ![t] = [batch[t] EXCEPT !.stage = "written"]]
           \/ batch' = [batch EXCEPT ![t] = NoBatch]
        /\ saved_members' \in {batch[t].snapshot, saved_members} /\ UNCHANGED saved_barred
    BY <1>9 DEF WriteProxies, GoTo
  <2>2. saved_members' \subseteq Ids
    BY <1>2, <2>1
  <2>3. CASE batch' = [batch EXCEPT ![t] = [batch[t] EXCEPT !.stage = "written"]]
    <3>1. PICK b \in BatchState : b = [batch[t] EXCEPT !.stage = "written"] /\ b.list = batch[t].list
      <4>1. [batch[t] EXCEPT !.stage = "written"] \in BatchState
        BY <1>2 DEF BatchState, Stages
      <4>2. [batch[t] EXCEPT !.stage = "written"].list = batch[t].list
        BY <1>2 DEF BatchState
      <4> QED
        BY <4>1, <4>2, Zenon
    <3>2. batch' = [batch EXCEPT ![t] = b]
      BY <2>3, <3>1
    <3> QED
      BY <1>1, <2>1, <2>2, <3>1, <3>2, BatchInv
  <2>4. CASE batch' = [batch EXCEPT ![t] = NoBatch]
    BY <1>1, <2>1, <2>2, <2>4, NoBatchIs, BatchInv
  <2> QED
    BY <2>1, <2>3, <2>4
<1>10. CASE WriteCondemned(t)
  <2>1. /\ batch' = [batch EXCEPT ![t] = NoBatch] /\ UNCHANGED saved_members
        /\ saved_barred' \in {saved_barred, saved_barred \cup batch[t].list}
    BY <1>10 DEF WriteCondemned, AddCondemned
  <2> QED
    BY <1>1, <1>2, <2>1, NoBatchIs, BatchInv
<1> QED
  BY <1>4, <1>5, <1>6, <1>7, <1>8, <1>9, <1>10

-----------------------------------------------------------------------------
(* Theorems.                                                               *)

LEMMA StepInv == IndInv /\ [StoreNext]_all_vars => IndInv'
<1> SUFFICES ASSUME IndInv, [StoreNext]_all_vars
             PROVE  IndInv'
  OBVIOUS
<1>1. CASE UNCHANGED all_vars
  BY <1>1 DEF all_vars, memory, disk, IndInv, StoreTypeOK, TypeOK, Running, Remembered
<1>2. CASE BootRestore \/ BootRemember \/ Crash \/ StopWrite
  BY <1>2, BootInv, DieInv
<1>3. CASE Scrape \/ Operator \/ StopSnapshot \/ \E t \in Tasks : Condemn(t)
  BY <1>3, PoolInv
<1>4. CASE \E t \in Tasks : Sweep(t)
  BY <1>4, SweepInv
<1>5. CASE \E t \in Tasks :
             \/ StartBatch(t) \/ EndRounds(t) \/ MidSnapshot(t) \/ MidWrite(t)
             \/ Snapshot(t) \/ ListCondemned(t) \/ WriteProxies(t) \/ WriteCondemned(t)
  BY <1>5, WritesInv
<1> QED
  BY <1>1, <1>2, <1>3, <1>4, <1>5 DEF StoreNext

\* The invariant the other theorems rest on: while the process is up, what is in
\* the condemned table is barred in memory too, unless the boot missed it.
THEOREM Invariance == StoreSpec => []IndInv
  BY InitInv, StepInv, PTL DEF StoreSpec

\* The shape of the state: the batches die with the process and the tables hold
\* proxies only (main.rs, storage/mod.rs).
THEOREM TypeCorrect == StoreSpec => []StoreTypeOK
<1>1. IndInv => StoreTypeOK
  BY DEF IndInv
<1> QED
  BY <1>1, Invariance, PTL

\* What the condemned table names stays named, through every crash and failed
\* write, and a process that learned of it, at its boot (load_condemned, with its
\* LIMIT) or from a probe, does not scrape it again.
THEOREM CondemnedForGood == StoreSpec => WrittenOffForGood
<1>1. ASSUME IndInv, [StoreNext]_all_vars
      PROVE  [\A id \in saved_barred :
                 /\ id \in saved_barred'
                 /\ Scrape /\ id \notin unread => id \notin members' \ members]_all_vars
  <2>1. saved_barred \subseteq saved_barred'
    BY <1>1 DEF StoreNext, BootRestore, BootRemember, Crash, StopSnapshot, StopWrite, Scrape,
         Operator, StartBatch, Condemn, EndRounds, Sweep, MidSnapshot, MidWrite, Snapshot,
         ListCondemned, WriteProxies, WriteCondemned, AddCondemned, disk, all_vars
  <2>2. ASSUME Scrape PROVE (saved_barred \ unread) \cap (members' \ members) = {}
    <3>1. saved_barred \ unread \subseteq barred
      BY <1>1, <2>2 DEF IndInv, Remembered, Scrape
    <3>2. PICK found \in SUBSET Ids : members' = members \cup ((found \ barred) \ members)
      BY <2>2 DEF Scrape, Discover
    <3> QED
      BY <3>1, <3>2
  <2> QED
    BY <2>1, <2>2
<1> QED
  BY <1>1, Invariance, PTL DEF StoreSpec, WrittenOffForGood

-----------------------------------------------------------------------------
(* The operator's choice.                                                  *)

\* What a task is doing, and for which choice.
LEMMA Doings ==
    ASSUME NEW stages, NEW d \in Doing(stages), NEW stage \in stages, NEW id \in Choice
    PROVE  /\ [d EXCEPT !.stage = stage] \in Doing(stages)
           /\ [stage |-> stage, id |-> id] \in Doing(stages) /\ d.id \in Choice
  BY DEF Doing

\* No task is doing anything, and nothing is chosen.
LEMMA AtRest ==
    ASSUME NEW stages, "idle" \in stages
    PROVE  Idle \in Doing(stages) /\ NoProxy \in Choice
  BY DEF Idle, Doing, Choice

\* A daemon that has never run.
LEMMA ChoiceStarts == ChoiceInit => ChoiceTypeOK
  BY AtRest DEF ChoiceInit, ChoiceTypeOK, Init, TypeOK

\* The process starts with what the setting names, if the pool has it, and ends
\* with nothing.
LEMMA LivesTyped ==
    ASSUME ChoiceTypeOK, BootChoice \/ Killed
    PROVE  ChoiceTypeOK'
<1>1. CASE BootChoice
  <2>1. remembered' \in Choice /\ active' \in {remembered', NoProxy} /\ active' \in members' \cup {NoProxy}
    BY <1>1, AtRest DEF BootChoice, ChoiceTypeOK
  <2>2. /\ process' \in {"down", "up"} /\ members' \in SUBSET Ids /\ barred' \in SUBSET Ids
        /\ UNCHANGED <<saved_active, call, loop, sampler>>
    BY <1>1 DEF BootChoice
  <2> QED
    BY <2>1, <2>2 DEF ChoiceTypeOK, TypeOK
<1>2. CASE Killed
  BY <1>2, AtRest DEF Killed, ChoiceTypeOK, TypeOK
<1> QED
  BY <1>1, <1>2

\* The pool keeps its promises whoever selects.
LEMMA PoolTyped ==
    ASSUME TypeOK,
           \/ Deselect \/ \E id : Select(id)
           \/ \E S \in SUBSET members : Drop(S) \/ Evict(S)
           \/ \E S \in SUBSET Ids : Discover(S)
    PROVE  TypeOK'
  BY DEF TypeOK, Deselect, Select, Drop, Evict, Discover, StillActive

\* A request: the pool, the disk, the memory.
LEMMA CallTyped ==
    ASSUME ChoiceTypeOK, NEW c \in Calls, Choose(c) \/ CallStep(c)
    PROVE  ChoiceTypeOK'
<1> DEFINE stages == {"idle", "chosen", "saved"}
<1>1. TypeOK /\ call \in [Calls -> Doing(stages)] /\ call[c] \in Doing(stages)
  BY DEF ChoiceTypeOK
<1>2. CASE Choose(c)
  <2>1. TypeOK'
    BY <1>1, <1>2, PoolTyped DEF Choose
  <2>2. active' \in Choice
    BY <2>1 DEF TypeOK, Choice
  <2>3. [stage |-> "chosen", id |-> active'] \in Doing(stages)
    BY <1>1, <2>2, Doings
  <2> QED
    BY <1>1, <1>2, <2>1, <2>3 DEF Choose, ChoiceTypeOK
<1>3. CASE SaveChoice(c)
  <2>1. [call[c] EXCEPT !.stage = "saved"] \in Doing(stages) /\ call[c].id \in Choice
    BY <1>1 DEF Doing
  <2> QED
    BY <1>1, <1>3, <2>1 DEF SaveChoice, vars, ChoiceTypeOK, TypeOK
<1>4. CASE RememberChoice(c)
  <2>1. Idle \in Doing(stages) /\ call[c].id \in Choice
    BY <1>1, AtRest DEF Doing
  <2> QED
    BY <1>1, <1>4, <2>1 DEF RememberChoice, vars, ChoiceTypeOK, TypeOK
<1> QED
  BY <1>2, <1>3, <1>4 DEF CallStep

\* The scheduler puts back the choice it read, and only in a pool that has it.
LEMMA RecallTyped ==
    ASSUME ChoiceTypeOK, ScrapeAndRead \/ Recall \/ ApplyRecalled
    PROVE  ChoiceTypeOK'
<1> DEFINE stages == {"idle", "recalling", "vacant"}
<1>1. /\ TypeOK /\ loop \in Doing(stages) /\ remembered \in Choice
      /\ Idle \in Doing(stages) /\ [loop EXCEPT !.stage = "vacant"] \in Doing(stages)
  BY AtRest DEF ChoiceTypeOK, Doing
<1>2. CASE ScrapeAndRead
  <2>1. TypeOK'
    BY <1>1, <1>2, PoolTyped DEF ScrapeAndRead
  <2>2. loop' \in Doing(stages)
    BY <1>1, <1>2 DEF ScrapeAndRead, Doing
  <2> QED
    BY <1>2, <2>1, <2>2 DEF ScrapeAndRead, ChoiceTypeOK
<1>3. CASE Recall
  BY <1>1, <1>3 DEF Recall, vars, ChoiceTypeOK, TypeOK
<1>4. CASE ApplyRecalled
  <2>1. TypeOK'
    BY <1>1, <1>4, PoolTyped DEF ApplyRecalled, vars, TypeOK
  <2> QED
    BY <1>1, <1>4, <2>1 DEF ApplyRecalled, ChoiceTypeOK
<1> QED
  BY <1>2, <1>3, <1>4

\* The sampler and the engine.
LEMMA OthersTyped ==
    ASSUME ChoiceTypeOK, SamplerStep \/ Engine \/ UNCHANGED choice_vars
    PROVE  ChoiceTypeOK'
<1> DEFINE stages == {"idle", "saw", "saved"}
<1>1. /\ TypeOK /\ sampler \in Doing(stages) /\ sampler.id \in Choice /\ active \in Choice
      /\ Idle \in Doing(stages) /\ [sampler EXCEPT !.stage = "saved"] \in Doing(stages)
      /\ [stage |-> "saw", id |-> active] \in Doing(stages)
  BY AtRest DEF ChoiceTypeOK, TypeOK, Choice, Doing
<1>2. CASE SamplerStep
  BY <1>1, <1>2 DEF SamplerStep, Sample, SaveSample, RememberSample, vars, ChoiceTypeOK, TypeOK
<1>3. CASE Engine
  <2>1. TypeOK'
    BY <1>1, <1>3, PoolTyped DEF Engine
  <2> QED
    BY <1>3, <2>1 DEF Engine, ChoiceTypeOK
<1>4. CASE UNCHANGED choice_vars
  BY <1>4 DEF choice_vars, vars, ChoiceTypeOK, TypeOK
<1> QED
  BY <1>2, <1>3, <1>4

\* The active proxy is in the pool, whichever of the requests, the recall, the
\* sampler, the engine and the restarts came last, and every copy of the choice
\* names a proxy or none.
THEOREM ChoiceTypeCorrect == ChoiceSpec => []ChoiceTypeOK
<1>1. ChoiceTypeOK /\ [ChoiceNext]_choice_vars => ChoiceTypeOK'
  BY LivesTyped, CallTyped, RecallTyped, OthersTyped DEF ChoiceNext
<1> QED
  BY ChoiceStarts, <1>1, PTL DEF ChoiceSpec
=============================================================================
