---------------------------- MODULE Persistence ----------------------------
(***************************************************************************)
(* The pool and its two tables, across crashes and restarts: the boot of   *)
(* crates/proxy-daemon/src/main.rs, what a batch writes and when, the      *)
(* write on the way out, and crates/proxy-core/src/storage/mod.rs.         *)
(*                                                                         *)
(* The pool is the set of PoolSpec, which ProxyPool implements, with the   *)
(* proxies a probe has condemned and no sweep has removed yet.  A snapshot *)
(* is taken under the pool's lock and written after it is released, so     *)
(* anything may happen between the two.  One transaction is one step, and  *)
(* may fail.                                                               *)
(***************************************************************************)
EXTENDS PoolSpec, FiniteSets, FiniteSetsExt, Naturals

CONSTANTS
    Tasks,          \* batches whose ends may overlap
    CondemnedLimit  \* the LIMIT of load_condemned

ASSUME LimitAssumption == CondemnedLimit \in Nat

VARIABLES
    pending,        \* PoolInner.pending_eviction
    life,           \* where the process is in its life
    batch,          \* what each batch is doing
    leaving,        \* the snapshot taken on the way out
    unread,         \* a history variable: what the condemned table named, and
                    \* this life of the process has not learned of
    saved_members,  \* the proxies table
    saved_barred    \* the condemned table

memory == <<members, active, barred, pending>>
disk == <<saved_members, saved_barred>>
all_vars == <<memory, life, batch, leaving, unread, disk>>

Stages == {"none", "rounds", "saving", "released", "swept", "snapped",
           "listed", "written"}
BatchState ==
    [stage: Stages, by: {"scheduler", "api"}, snapshot: SUBSET Ids,
     list: SUBSET Ids]
NoBatch == [stage |-> "none", by |-> "api", snapshot |-> {}, list |-> {}]

StoreInit ==
    /\ Init
    /\ pending = {}
    /\ life = "down"
    /\ batch = [t \in Tasks |-> NoBatch]
    /\ leaving = {} /\ unread = {}
    /\ saved_members \in SUBSET Ids
    /\ saved_barred \in SUBSET (Ids \ saved_members)

Running == life \in {"up", "stopping"}
InStage(t, stage) == Running /\ batch[t].stage = stage
GoTo(t, stage) == batch' = [batch EXCEPT ![t].stage = stage]

-----------------------------------------------------------------------------
(* The life of the process.                                                *)

\* The pool is restored first, whatever the condemned table says.  A table that
\* cannot be read is logged, and the pool starts empty.
BootRestore ==
    /\ life = "down"
    /\ life' = "restored"
    /\ Boot(saved_members) \/ UNCHANGED vars
    /\ UNCHANGED <<pending, batch, leaving, unread, disk>>

Remember(ids) ==
    /\ Bar(ids)
    /\ unread' = saved_barred \ ids

\* Then the condemned are remembered: what the query returns, up to its limit,
\* or nothing at all when the table cannot be read (unwrap_or_default).
BootRemember ==
    /\ life = "restored"
    /\ life' = "up"
    /\ \/ \E ids \in SUBSET saved_barred :
            /\ Cardinality(ids) = Min({CondemnedLimit, Cardinality(saved_barred)})
            /\ Remember(ids)
       \/ Remember({})
    /\ UNCHANGED <<pending, batch, leaving, disk>>

\* A bug: a batch survives the process it ran in.
DieButBatches ==
    /\ life' = "down"
    /\ members' = {} /\ active' = NoProxy /\ barred' = {} /\ pending' = {}
    /\ leaving' = {} /\ unread' = {}
    /\ UNCHANGED batch

\* Nothing in memory outlives the process.
Die ==
    /\ life' = "down"
    /\ members' = {} /\ active' = NoProxy /\ barred' = {} /\ pending' = {}
    /\ batch' = [t \in Tasks |-> NoBatch]
    /\ leaving' = {} /\ unread' = {}

\* The process is killed.  (Killed on its way out, it fails to write.)
Crash ==
    /\ life \in {"restored", "up"}
    /\ Die
    /\ UNCHANGED disk

\* A graceful stop: the pool is read, then written, and the process is gone.
StopSnapshot ==
    /\ life = "up"
    /\ life' = "stopping"
    /\ leaving' = members
    /\ UNCHANGED <<memory, batch, unread, disk>>

StopWrite ==
    /\ life = "stopping"
    /\ saved_members' \in {leaving, saved_members}
    /\ UNCHANGED saved_barred
    /\ Die

-----------------------------------------------------------------------------
(* What changes the pool.                                                  *)

Scrape ==
    /\ Running
    /\ \E found \in SUBSET Ids : Discover((found \ barred) \ members)
    /\ UNCHANGED <<pending, life, batch, leaving, unread, disk>>

Operator ==
    /\ Running
    /\ \/ \E id \in Ids : Vouch(id)
       \/ \E id \in members : Drop({id})
    /\ UNCHANGED <<pending, life, batch, leaving, unread, disk>>

\* Only one batch holds the right to run; another may still be settling.
StartBatch(t) ==
    /\ InStage(t, "none")
    /\ \A u \in Tasks : batch[u].stage \notin {"rounds", "saving"}
    /\ members # {}
    /\ \E by \in {"scheduler", "api"} :
         batch' = [batch EXCEPT ![t] = [NoBatch EXCEPT !.stage = "rounds", !.by = by]]
    /\ UNCHANGED <<memory, life, leaving, unread, disk>>

Condemn(t) ==
    /\ InStage(t, "rounds")
    /\ \E id \in members \ pending : pending' = pending \cup {id}
    /\ UNCHANGED <<vars, life, batch, leaving, unread, disk>>

EndRounds(t) ==
    /\ InStage(t, "rounds")
    /\ GoTo(t, "released")
    /\ UNCHANGED <<memory, life, leaving, unread, disk>>

\* The sweep.  A scrape run asked for through the API ends here.
Sweep(t) ==
    /\ InStage(t, "released")
    /\ Evict(pending)
    /\ pending' = {} /\ unread' = unread \ pending
    /\ IF batch[t].by = "scheduler" THEN GoTo(t, "swept")
       ELSE batch' = [batch EXCEPT ![t] = NoBatch]
    /\ UNCHANGED <<life, leaving, disk>>

-----------------------------------------------------------------------------
(* What a batch of the scheduler writes.                                   *)

\* While it runs it writes the proxies, and only those.
MidSnapshot(t) ==
    /\ InStage(t, "rounds") /\ batch[t].by = "scheduler"
    /\ batch' = [batch EXCEPT ![t].stage = "saving", ![t].snapshot = members]
    /\ UNCHANGED <<memory, life, leaving, unread, disk>>

MidWrite(t) ==
    /\ InStage(t, "saving")
    /\ saved_members' \in {batch[t].snapshot, saved_members}
    /\ batch' = [batch EXCEPT ![t].stage = "rounds", ![t].snapshot = {}]
    /\ UNCHANGED <<memory, life, leaving, unread, saved_barred>>

\* Once it settles it writes both, one after the other.
Snapshot(t) ==
    /\ InStage(t, "swept")
    /\ batch' = [batch EXCEPT ![t].stage = "snapped", ![t].snapshot = members]
    /\ UNCHANGED <<memory, life, leaving, unread, disk>>

ListCondemned(t) ==
    /\ InStage(t, "snapped")
    /\ batch' = [batch EXCEPT ![t].stage = "listed", ![t].list = barred]
    /\ UNCHANGED <<memory, life, leaving, unread, disk>>

\* replace_proxies; when it fails nothing more is written.
WriteProxies(t) ==
    /\ InStage(t, "listed")
    /\ \/ saved_members' = batch[t].snapshot /\ GoTo(t, "written")
       \/ UNCHANGED saved_members /\ batch' = [batch EXCEPT ![t] = NoBatch]
    /\ UNCHANGED <<memory, life, leaving, unread, saved_barred>>

\* A bug: the table is replaced, as replace_proxies replaces its own.
ReplaceCondemned(ids) == saved_barred' = ids

\* save_condemned adds the ids and never removes one.
AddCondemned(ids) == saved_barred' = saved_barred \cup ids

WriteCondemned(t) ==
    /\ InStage(t, "written")
    /\ AddCondemned(batch[t].list) \/ UNCHANGED saved_barred
    /\ batch' = [batch EXCEPT ![t] = NoBatch]
    /\ UNCHANGED <<memory, life, leaving, unread, saved_members>>

StoreNext ==
    \/ BootRestore \/ BootRemember \/ Crash \/ StopSnapshot \/ StopWrite
    \/ Scrape \/ Operator
    \/ \E t \in Tasks :
         \/ StartBatch(t) \/ Condemn(t) \/ EndRounds(t) \/ Sweep(t)
         \/ MidSnapshot(t) \/ MidWrite(t)
         \/ Snapshot(t) \/ ListCondemned(t) \/ WriteProxies(t) \/ WriteCondemned(t)

StoreSpec == StoreInit /\ [][StoreNext]_all_vars

-----------------------------------------------------------------------------
(* Properties.                                                             *)

StoreTypeOK ==
    /\ TypeOK
    /\ pending \subseteq Ids
    /\ life \in {"down", "restored", "up", "stopping"}
    /\ batch \in [Tasks -> BatchState]
    /\ ~Running => \A t \in Tasks : batch[t] = NoBatch
    /\ leaving \subseteq Ids /\ unread \subseteq Ids
    /\ saved_members \subseteq Ids
    /\ saved_barred \subseteq Ids

\* What the condemned table names is out for good: no later write removes it
\* from the table, whatever batches, crashes and failed writes come after, and no
\* scrape brings it back into the pool of a process that read it at its boot or
\* has condemned it since (pool/mod.rs:55-61, main.rs:282-293).
WrittenOffForGood ==
    [][\A id \in saved_barred :
          /\ id \in saved_barred'
          /\ Scrape /\ id \notin unread => id \notin members' \ members]_all_vars

\* The same without the reservation: what the table names stays out in every
\* life of the process (main.rs:282-284, "The proxies that were condemned are
\* remembered as well").
TheCondemnedStayOut ==
    [][Scrape => saved_barred \cap (members' \ members) = {}]_all_vars

\* A stop in good order forgets nothing: when the pool did not change while it
\* was written down, the condemned table names every proxy that was removed for
\* good (main.rs:282-284).
AStopRemembersTheCondemned ==
    [][StopWrite /\ saved_members' = leaving /\ leaving = members
         => barred \subseteq saved_barred']_all_vars
=============================================================================
