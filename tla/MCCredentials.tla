--------------------------- MODULE MCCredentials ----------------------------
(* Two credentials, one of which begins like a session of the other. *)
EXTENDS Credentials

CONSTANTS c1, r1, o1

MCUsernames == {<<"work">>, <<"work", "eu">>}
MCClientNames == MCUsernames \cup {<<"work", "session", "eu">>}
MCPolicies == {"default"}
MCBuiltins == {"default"}
MCPeer == <<"127.0.0.1">>
=============================================================================
