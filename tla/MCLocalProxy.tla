---------------------------- MODULE MCLocalProxy ----------------------------
(***************************************************************************)
(* Three entries, the first two one server under two names, the second     *)
(* dead.  Three clients of one credential each, one per rotation; the      *)
(* random one's policy allows a single entry.                              *)
(***************************************************************************)
EXTENDS LocalProxy, TLC

CONSTANTS p1, p2, p3, login, crawler, tab, sticky, timed, random

MCHostOf == (p1 :> "h1" @@ p2 :> "h1" @@ p3 :> "h2")
MCCredentialOf == [c \in {login, crawler, tab} |-> c]
MCPolicyOf == (login :> sticky @@ crawler :> random @@ tab :> timed)
MCRotationOf == (sticky :> "sticky" @@ timed :> "time" @@ random :> "per_request")
MCAllowed == (sticky :> {p2, p3} @@ timed :> {p1, p2, p3} @@ random :> {p1})
=============================================================================
