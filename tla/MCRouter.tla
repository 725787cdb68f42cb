------------------------------ MODULE MCRouter ------------------------------
(***************************************************************************)
(* One flow with two task slots, so that a repeated SYN can meet the tasks *)
(* of the SYNs before it.  Addresses of two bits; the destination is       *)
(* covered once the engine routes it or once the cache knows its name, and *)
(* by nothing before that.  Two proxies, two tries.                        *)
(***************************************************************************)
EXTENDS Router, TLC

CONSTANTS example, www

MCHosts == {<<www, example>>}
MCDstOf == [f \in Flows |-> 1]
MCPortOf == [f \in Flows |-> 443]
MCRoutings == {{}, {1}}
MCPolicy == [mode |-> "allowlist", cidrs |-> {[net |-> 2, prefix |-> 1]}, ports |-> {},
             domains |-> {[labels |-> <<example>>, below |-> FALSE]},
             always_direct |-> {[net |-> 3, prefix |-> 2]}]
=============================================================================
