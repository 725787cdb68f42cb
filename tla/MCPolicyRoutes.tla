--------------------------- MODULE MCPolicyRoutes ---------------------------
(* Two names and one address rule over two-bit addresses, 0 being local,   *)
(* 2 IPv6.                                                                 *)
EXTENDS PolicyRoutes

MCNames == {<<"com", "a">>, <<"com", "b">>}
MCPolicy(mode) ==
    [mode |-> mode, ports |-> {},
     cidrs |-> {[net |-> 3, prefix |-> 2]},
     domains |-> {[labels |-> n, below |-> FALSE] : n \in MCNames},
     always_direct |-> {}]
AllowPolicy == MCPolicy("allowlist")
NonePolicy == MCPolicy("none")
MCZones == {z \in [MCNames -> SUBSET (0 .. 3)] :
              /\ z[<<"com", "a">>] \in {{1}, {2}} /\ z[<<"com", "b">>] \in {{}, {0, 1, 2}}}
MCOtherHosts == {<<"org">>}
=============================================================================
