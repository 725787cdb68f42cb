---------------------------- MODULE ActiveChoice ----------------------------
(***************************************************************************)
(* Which proxy is active, who decides, and what a restart remembers of it: *)
(* put_active, rotate, clear_active and remember_active of                 *)
(* crates/proxy-daemon/src/api.rs, and of main.rs the boot, the recall     *)
(* after a scrape and the sampler.                                         *)
(*                                                                         *)
(* There are three copies of the choice: the pool's, the one in memory     *)
(* (remembered_active) and the one on disk.  Each is written on its own,   *)
(* by several tasks, with awaits in between.  The process has a database:  *)
(* only a data_dir without a parent directory leaves it without one.       *)
(***************************************************************************)
EXTENDS PoolSpec, Naturals

CONSTANTS Calls     \* API requests that may be served at once

VARIABLES
    process,        \* whether it runs: "down" or "up"
    saved_active,   \* the "active_proxy" setting
    remembered,     \* remembered_active
    call,           \* what each request is doing, and for which choice
    loop,           \* the scrape of the scheduler, and the id it recalls
    sampler         \* the sampler, and the active proxy it saw

choice_vars == <<vars, process, saved_active, remembered, call, loop, sampler>>

Choice == Ids \cup {NoProxy}
Doing(stages) == [stage: stages, id: Choice]
Idle == [stage |-> "idle", id |-> NoProxy]

ChoiceInit ==
    /\ Init
    /\ process = "down"
    /\ saved_active \in Choice
    /\ remembered = NoProxy
    /\ call = [c \in Calls |-> Idle]
    /\ loop = Idle
    /\ sampler = Idle

\* A bug: the setting is applied whether or not the pool has the proxy.
BootBlindly ==
    /\ process = "down"
    /\ process' = "up"
    /\ members' \in SUBSET Ids
    /\ barred' \in SUBSET Ids
    /\ remembered' = saved_active
    /\ active' = saved_active
    /\ UNCHANGED <<saved_active, call, loop, sampler>>

\* The pool is restored, the setting is read, and the proxy it names is made
\* active if the pool has it.  A read that fails names none and is not repeated.
BootChoice ==
    /\ process = "down"
    /\ process' = "up"
    /\ members' \in SUBSET Ids
    /\ barred' \in SUBSET Ids
    /\ remembered' \in {saved_active, NoProxy}
    /\ active' = IF remembered' \in members' THEN remembered' ELSE NoProxy
    /\ UNCHANGED <<saved_active, call, loop, sampler>>

Killed ==
    /\ process = "up"
    /\ process' = "down"
    /\ members' = {} /\ barred' = {} /\ active' = NoProxy
    /\ remembered' = NoProxy
    /\ call' = [c \in Calls |-> Idle]
    /\ loop' = Idle
    /\ sampler' = Idle
    /\ UNCHANGED saved_active

-----------------------------------------------------------------------------
(* A request: the pool first, then the disk, then the memory.              *)

\* put_active and rotate select a member; clear_active selects none.
Choose(c) ==
    /\ process = "up" /\ call[c].stage = "idle"
    /\ Deselect \/ \E id \in Ids : Select(id)
    /\ call' = [call EXCEPT ![c] = [stage |-> "chosen", id |-> active']]
    /\ UNCHANGED <<process, saved_active, remembered, loop, sampler>>

\* A write that fails is logged, and the request goes on.
SaveChoice(c) ==
    /\ call[c].stage = "chosen"
    /\ saved_active' \in {call[c].id, saved_active}
    /\ call' = [call EXCEPT ![c].stage = "saved"]
    /\ UNCHANGED <<vars, process, remembered, loop, sampler>>

RememberChoice(c) ==
    /\ call[c].stage = "saved"
    /\ remembered' = call[c].id
    /\ call' = [call EXCEPT ![c] = Idle]
    /\ UNCHANGED <<vars, process, saved_active, loop, sampler>>

-----------------------------------------------------------------------------
(* The scheduler, once a scrape is in.                                     *)

ScrapeAndRead ==
    /\ process = "up" /\ loop.stage = "idle"
    /\ \E found \in SUBSET Ids : Discover((found \ barred) \ members)
    /\ loop' = [stage |-> "recalling", id |-> remembered]
    /\ UNCHANGED <<process, saved_active, remembered, call, sampler>>

\* Nothing remembered, or a proxy is active already: the choice is left alone.
\* Otherwise it is applied, in a step of its own, if the pool has the proxy.
Recall ==
    /\ loop.stage = "recalling"
    /\ loop' = IF loop.id # NoProxy /\ active = NoProxy
               THEN [loop EXCEPT !.stage = "vacant"] ELSE Idle
    /\ UNCHANGED <<vars, process, saved_active, remembered, call, sampler>>

ApplyRecalled ==
    /\ loop.stage = "vacant"
    /\ \/ Select(loop.id)
       \/ loop.id \notin members /\ UNCHANGED vars
    /\ loop' = Idle
    /\ UNCHANGED <<process, saved_active, remembered, call, sampler>>

-----------------------------------------------------------------------------
(* The sampler, once a minute.                                             *)

Sample ==
    /\ process = "up" /\ sampler.stage = "idle"
    /\ sampler' = [stage |-> "saw", id |-> active]
    /\ UNCHANGED <<vars, process, saved_active, remembered, call, loop>>

\* The setting is written when the active proxy is not the remembered one.
SaveSample ==
    /\ sampler.stage = "saw"
    /\ IF sampler.id # remembered
       THEN /\ saved_active' \in {sampler.id, saved_active}
            /\ sampler' = [sampler EXCEPT !.stage = "saved"]
       ELSE sampler' = Idle /\ UNCHANGED saved_active
    /\ UNCHANGED <<vars, process, remembered, call, loop>>

\* A bug: the sampler writes the setting and not the memory.
SampleOnlySaved ==
    /\ sampler.stage = "saved"
    /\ sampler' = Idle
    /\ UNCHANGED <<vars, process, saved_active, remembered, call, loop>>

RememberSample ==
    /\ sampler.stage = "saved"
    /\ remembered' = sampler.id
    /\ sampler' = Idle
    /\ UNCHANGED <<vars, process, saved_active, call, loop>>

-----------------------------------------------------------------------------
(* The engine: failover and auto-rotation select another proxy, a sweep,   *)
(* the capacity or the operator removes some.                              *)

Engine ==
    /\ process = "up"
    /\ \/ \E id \in Ids : Select(id)
       \/ \E gone \in SUBSET members \ {{}} : Drop(gone) \/ Evict(gone)
    /\ UNCHANGED <<process, saved_active, remembered, call, loop, sampler>>

SamplerStep == Sample \/ SaveSample \/ RememberSample
CallStep(c) == SaveChoice(c) \/ RememberChoice(c)

ChoiceNext ==
    \/ BootChoice \/ Killed
    \/ \E c \in Calls : Choose(c) \/ CallStep(c)
    \/ ScrapeAndRead \/ Recall \/ ApplyRecalled
    \/ SamplerStep
    \/ Engine

\* A request that began is served, and the sampler wakes every minute.
ChoiceSpec ==
    /\ ChoiceInit /\ [][ChoiceNext]_choice_vars
    /\ WF_choice_vars(SamplerStep)
    /\ \A c \in Calls : WF_choice_vars(CallStep(c))

-----------------------------------------------------------------------------
(* Properties.                                                             *)

ChoiceTypeOK ==
    /\ TypeOK
    /\ process \in {"down", "up"}
    /\ saved_active \in Choice
    /\ remembered \in Choice
    /\ call \in [Calls -> Doing({"idle", "chosen", "saved"})]
    /\ loop \in Doing({"idle", "recalling", "vacant"})
    /\ sampler \in Doing({"idle", "saw", "saved"})

Stays(id) == process = "up" /\ active = id

\* Whatever the requests in flight wrote, the choice in memory, which the next
\* scrape may put back in front, settles on the proxy that stays active (the
\* sampler, main.rs:1018-1032, against the requests of api.rs).
TheMemoryCatchesUp ==
    \A id \in Choice : <>[]Stays(id) => <>[](remembered = id)

\* main.rs:1015-1017: "The engine moves on by itself when the proxy in front dies,
\* and a restart that forgot the move would put the dead proxy back in front".
\* The setting stays stale when its write fails, or when the sampler and a
\* request write in one order to the disk and in the other to the memory: the
\* sampler compares with the memory only.
TheDiskCatchesUp ==
    \A id \in Choice : <>[]Stays(id) => <>[](saved_active = id)

\* A choice that a restart could not apply yet, because no scrape has offered
\* the proxy so far, is kept until the proxy is there or the operator chooses
\* again (main.rs:240-244, 593-598).
Awaited(id) ==
    /\ id # NoProxy /\ remembered = id
    /\ id \notin members \cup barred /\ active = NoProxy
TheChoiceIsKept ==
    [][\A id \in Ids :
          Awaited(id) /\ process' = "up"
            => remembered' = id \/ \E c \in Calls : RememberChoice(c)]_choice_vars
=============================================================================
