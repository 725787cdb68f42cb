---------------------------- MODULE MCScheduler ----------------------------
(***************************************************************************)
(* One proxy and two tasks: the scheduler's batch and a scrape run, or two *)
(* of either, for the races between batches.                               *)
(***************************************************************************)
EXTENDS Scheduler, TLC

CONSTANTS p1, p2, t1, t2, h1, e1, at

MCHostOf == [p \in Ids |-> h1]
MCExitOf == [p \in Ids |-> e1]
MCCountryOf == [e \in {e1} |-> at]
MCBackoff == <<1>>
MCSavedPools == {<<>>}
=============================================================================
