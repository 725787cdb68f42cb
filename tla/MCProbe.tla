------------------------------ MODULE MCProbe -------------------------------
(* Two targets: one on port 80 that echoes headers, one on 443 that does not. *)
EXTENDS Probe

CONSTANTS home, roamed

MCTargets == <<[port |-> 80, echo |-> "json"], [port |-> 443, echo |-> "bare"]>>
MCAddresses == {home, roamed}
SomeTraces == {{}, {"x-forwarded-for"}}
AllTraces == SUBSET Headers
=============================================================================
