----------------------------- MODULE Connectors -----------------------------
(***************************************************************************)
(* How a stream to a target is opened through a proxy: the connectors of   *)
(* crates/proxy-core/src/proxy/connector, and what endpoints answer them.  *)
(*                                                                         *)
(* A connector is its dialogue: what it sends and what it must read before *)
(* it goes on.  Bytes come in units, the pieces a network may deliver      *)
(* apart; "fin" ends a stream.  Keys, addresses and lengths are left out.  *)
(***************************************************************************)
EXTENDS Naturals, Sequences

Protocols == {"http", "https", "socks4", "socks5", "trojan", "shadowsocks"}

\* Only plain HTTP can be carried by a proxy that does not tunnel.
is_plain_http(port) == port = 80

Exact(send, expect) == [send |-> send, expect |-> expect, exact |-> TRUE]

\* One read of whatever has arrived, which must hold a " 200 ".
Connect == <<[send |-> "CONNECT", expect |-> <<"200">>, exact |-> FALSE]>>
TlsHello == <<Exact("hello", <<"certificate">>)>>
Socks4 == <<Exact("ask4", <<"granted", "bound">>)>>
AskAndDrain == <<Exact("ask5", <<"granted">>), Exact("nothing", <<"bound", "port">>)>>
Socks5 == <<Exact("greeting", <<"version", "free">>)>> \o AskAndDrain
Trojan == TlsHello \o AskAndDrain
\* The salt and the address go out; nothing is read.
Salted == <<Exact("salt", <<>>)>>

\* A bug: the port of the bound address is left in the stream.
DialogueWithoutPort(protocol) ==
    CASE protocol = "http" -> Connect
      [] protocol = "https" -> TlsHello \o Connect
      [] protocol = "socks4" -> Socks4
      [] protocol = "socks5" -> <<Exact("greeting", <<"version", "free">>), Exact("ask5", <<"granted">>),
                                  Exact("nothing", <<"bound">>)>>
      [] protocol = "trojan" -> Trojan
      [] protocol = "shadowsocks" -> Salted

Dialogue(protocol) ==
    CASE protocol = "http" -> Connect
      [] protocol = "https" -> TlsHello \o Connect
      [] protocol = "socks4" -> Socks4
      [] protocol = "socks5" -> Socks5
      [] protocol = "trojan" -> Trojan
      [] protocol = "shadowsocks" -> Salted

Holds(wire, unit) == \E i \in 1 .. Len(wire) : wire[i] = unit

\* A read ends when it has its units, or when the stream does; the read of a
\* CONNECT reply ends with whatever is there.
ReadEnds(step, wire) ==
    IF step.exact THEN Len(wire) >= Len(step.expect) \/ Holds(wire, "fin")
                  ELSE wire # <<>>

Satisfied(step, wire) ==
    IF step.exact THEN /\ Len(wire) >= Len(step.expect)
                       /\ SubSeq(wire, 1, Len(step.expect)) = step.expect
                  ELSE Holds(wire, "200")

LeftOver(step, wire) ==
    IF step.exact THEN SubSeq(wire, Len(step.expect) + 1, Len(wire))
                  ELSE IF Holds(wire, "fin") THEN <<"fin">> ELSE <<>>

-----------------------------------------------------------------------------
(* The endpoints, as the engine meets them on a public list.               *)

Endpoints == [protocol : Protocols, numeric : BOOLEAN,
              kind : {"relay",      \* an honest proxy
                      "forwarder",  \* serves plain requests, no tunnels
                      "strict",     \* the same, for absolute URIs only
                      "mirror",     \* lets the request out as it came
                      "captive",    \* answers everything with its own page
                      "locked",     \* wants credentials
                      "cutter",     \* opens tunnels and drops them
                      "deaf",       \* accepts and says nothing
                      "blackhole",  \* does not even answer the SYN
                      "shut"}]      \* refuses the connection

Tunnels == {"relay", "mirror", "cutter"}
Junk == <<"junk", "fin">>

Granted(message) ==
    CASE message = "CONNECT" -> <<"http", "200", "fields", "blank">>
      [] message = "hello" -> <<"certificate">>
      [] message = "greeting" -> <<"version", "free">>
      [] message = "ask4" -> <<"granted", "bound">>
      [] message = "ask5" -> <<"granted", "bound", "port">>
      [] OTHER -> <<>>

Refused(message) ==
    CASE message = "CONNECT" -> <<"http", "502", "fin">>
      [] message = "greeting" -> <<"version", "locked">>
      [] message = "salt" -> <<"fin">>
      [] message \in {"ask4", "ask5"} -> <<"refused", "bound", "port", "fin">>
      [] OTHER -> <<>>

\* The messages that make a proxy reach for the target, which may be up, refuse
\* or stay silent.
Reaching == {"CONNECT", "ask4", "ask5", "salt"}

Replies(endpoint, message) ==
    IF message = "nothing" THEN {<<>>}
    ELSE CASE endpoint.kind \in Tunnels ->
                {Granted(message)} \cup
                (IF message \in Reaching THEN {Refused(message), <<>>} ELSE {})
           [] endpoint.kind = "locked" ->
                {IF message = "hello" THEN Granted(message) ELSE Refused(message)}
           [] endpoint.kind = "captive" ->
                {IF message = "CONNECT" THEN Granted(message) ELSE Junk}
           [] endpoint.kind \in {"forwarder", "strict"} ->
                {IF message = "CONNECT" THEN Refused(message) ELSE Junk}
           [] OTHER -> {<<>>}
=============================================================================
