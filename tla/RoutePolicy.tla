---------------------------- MODULE RoutePolicy ----------------------------
(***************************************************************************)
(* Which destinations go through a proxy: crates/proxy-core/src/routing.rs.*)
(*                                                                         *)
(* An address is a number of Width bits, a network the numbers that share  *)
(* their first bits, a hostname the sequence of its labels, so the suffix  *)
(* the code looks for between dots is a suffix of labels.  A policy is a   *)
(* record with the fields of RoutePolicy.                                  *)
(***************************************************************************)
EXTENDS Integers, Sequences

CONSTANTS
    Width,      \* bits of an address
    Local,      \* addresses of loopback, private, link-local, multicast...
    NoName      \* no hostname is known

ASSUME RoutePolicyAssumption == Width \in Nat \ {0} /\ Local \subseteq 0 .. (2^Width - 1)

Addresses == 0 .. (2^Width - 1)
Modes == {"none", "allowlist", "denylist"}

is_local(ip) == ip \in Local

\* The mask keeps the first `prefix` bits; a prefix longer than an address
\* matches nothing.
matches_cidr(rule, ip) ==
    /\ rule.prefix <= Width
    /\ LET hosts == 2^(Width - rule.prefix)
       IN  rule.net \div hosts = ip \div hosts

\* A rule names a host and everything below it, or, with a leading dot, only
\* what is below it.
matches_domain(rule, host) ==
    LET n == Len(rule.labels)
    IN  /\ n > 0 /\ Len(host) >= n
        /\ SubSeq(host, Len(host) - n + 1, Len(host)) = rule.labels
        /\ rule.below => Len(host) > n

\* The ports of a policy narrow its address rules and not its names.
MatchesAny(policy, ip, port, rules) ==
    /\ policy.ports = {} \/ port \in policy.ports
    /\ \E rule \in rules : matches_cidr(rule, ip)

Names(policy, host) ==
    host # NoName /\ \E rule \in policy.domains : matches_domain(rule, host)

AlwaysDirect(policy, ip, port) == MatchesAny(policy, ip, port, policy.always_direct)

Decide(policy, ip, port, host) ==
    LET matched == MatchesAny(policy, ip, port, policy.cidrs) \/ Names(policy, host)
    IN  IF is_local(ip) \/ AlwaysDirect(policy, ip, port) THEN "direct"
        ELSE IF \/ policy.mode = "allowlist" /\ matched
                \/ policy.mode = "denylist" /\ ~matched
             THEN "proxy" ELSE "direct"
=============================================================================
