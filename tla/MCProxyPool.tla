---------------------------- MODULE MCProxyPool ----------------------------
(***************************************************************************)
(* A small pool: two published entries, all on one server behind one     *)
(* exit address, so that the entries are interchangeable.                  *)
(***************************************************************************)
EXTENDS ProxyPool, TLC

CONSTANTS p1, p2, h1, e1, at

MCIds == {p1, p2}
MCHostOf == [p \in MCIds |-> h1]
MCExitOf == [p \in MCIds |-> e1]
MCCountryOf == [e \in {e1} |-> at]
MCBackoff == <<1>>
Interchangeable == Permutations(MCIds)

\* Nothing on disk, or one proxy that worked and has since failed once.
MCSavedPools ==
    {<<>>} \cup
    {<<[Discovered(p) EXCEPT !.last_success = 0, !.score = 1, !.latency_ms = 1,
                             !.exit_ip = e1, !.consecutive_failures = 1]>> : p \in MCIds}
=============================================================================
