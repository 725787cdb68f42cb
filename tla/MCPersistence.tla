--------------------------- MODULE MCPersistence ---------------------------
(***************************************************************************)
(* Two proxies, interchangeable, and two batches, interchangeable: enough  *)
(* for one batch to settle while the next one runs.                        *)
(***************************************************************************)
EXTENDS Persistence, TLC

CONSTANTS p1, p2, t1, t2

Interchangeable == Permutations({p1, p2}) \cup Permutations({t1, t2})
=============================================================================
