---------------------------- MODULE ProbeProofs -----------------------------
(***************************************************************************)
(* The budget of a probe, what a connector leaves in the stream and what   *)
(* a verdict rests on, for every list of targets, every timeout and every  *)
(* endpoint.                                                               *)
(***************************************************************************)
EXTENDS Probe, SequenceTheorems, TLAPS

\* A verdict that only a tunnel gives.
OfTunnel(verdict) ==
    verdict = Inconclusive \/ (verdict.verdict = "working" /\ verdict.tunneled)

\* How far time has come in each stage, and how far it may go.
Spent ==
    /\ stage \in {"idle", "resolve", "open"} \cup Waiting
    /\ age \in Nat /\ expires \in Nat
    /\ stage \in Waiting => age <= expires
    /\ stage \in {"dial", "dialogue"} => expires <= Patience
    /\ stage = "open" => age <= Patience
    /\ stage = "read" => expires = Timeout
    /\ stage = "plain_dial" => expires <= Patience + Timeout
    /\ stage = "plain_read" => expires <= Patience + 2 * Timeout
    /\ age <= Patience + 2 * Timeout
    /\ stage # "idle" => result = NoResult
    /\ OfTunnel(result) => age <= Timeout

-----------------------------------------------------------------------------
(* The invariant is inductive.                                             *)

\* The patience of a handshake is part of the budget.
LEMMA Limits == Patience \in Nat /\ Patience <= Timeout /\ Timeout \in Nat
  BY ProbeAssumption DEF Patience, Least

\* Only two verdicts come from a tunnel alone.
LEMMA Different ==
    /\ ~OfTunnel(Failed) /\ ~OfTunnel(NoResult)
    /\ \A anonymity : ~OfTunnel(Working(FALSE, anonymity))
  BY DEF OfTunnel, Failed, NoResult, Inconclusive, Working

\* No time is spent before the first probe.
LEMMA InitSpent == ProbeInit => Spent
  BY Different, Limits DEF ProbeInit, Spent, Waiting

\* An attempt begins with its whole budget.
LEMMA AttemptSpent ==
    ASSUME NEW t, Attempt(t), result' = NoResult
    PROVE  Spent'
<1>1. expires' \in Nat /\ expires' <= Patience
  BY Limits, ProbeAssumption DEF Attempt, Least
<1>2. ~OfTunnel(result)'
  BY Different DEF OfTunnel, Inconclusive
<1> QED
  BY <1>1, <1>2, Limits DEF Attempt, Spent, Waiting

\* A verdict that only a tunnel gives has to be reached within the budget.
LEMMA ConcludeSpent ==
    ASSUME Spent, stage # "idle", NEW verdict, Conclude(verdict),
           OfTunnel(verdict) => age <= Timeout
    PROVE  Spent'
<1>1. CASE Attempt(target + 1) /\ UNCHANGED result
  BY <1>1, AttemptSpent DEF Spent
<1>2. CASE stage' = "idle" /\ result' = verdict /\ UNCHANGED <<age, expires>>
  <2>1. OfTunnel(result)' => age' <= Timeout
    BY <1>2 DEF OfTunnel, Inconclusive
  <2> QED
    BY <1>2, <2>1 DEF Spent, Waiting
<1> QED
  BY <1>1, <1>2 DEF Conclude

\* A step that leaves the verdict open takes no time.
LEMMA OnwardSpent ==
    ASSUME Spent, stage # "idle", UNCHANGED <<age, result>>, expires' \in Nat,
           \/ /\ stage \in {"dial", "dialogue"} /\ stage' \in {"dialogue", "open"}
              /\ UNCHANGED expires
           \/ stage = "open" /\ stage' = "read" /\ expires' = Timeout
           \/ stage \in {"dial", "dialogue"} /\ stage' = "plain_dial" /\ expires' = age + Timeout
           \/ stage = "plain_dial" /\ stage' = "plain_read" /\ expires' = age + Timeout
    PROVE  Spent'
<1>1. ~OfTunnel(result)'
  BY Different DEF Spent, OfTunnel, Inconclusive
<1> QED
  BY <1>1, Limits DEF Spent, Waiting

\* A fall back starts within the patience of the handshake.
LEMMA NoTunnelSpent ==
    ASSUME Spent, stage \in {"dial", "dialogue"}, NoTunnel
    PROVE  Spent'
<1>1. CASE stage' = "plain_dial" /\ expires' = age + Timeout /\ UNCHANGED <<age, result>>
  BY <1>1, OnwardSpent, Limits DEF Spent
<1>2. CASE Conclude(Failed)
  BY <1>2, ConcludeSpent, Different
<1> QED
  BY <1>1, <1>2 DEF NoTunnel

\* The target is resolved before the clock of the attempt starts.
LEMMA BeginSpent ==
    ASSUME Spent, Resolve \/ \E e \in Endpoints : Begin(e)
    PROVE  Spent'
<1>1. ASSUME NEW t, Attempt(t), result' = NoResult PROVE Spent'
  BY <1>1, AttemptSpent
<1>2. CASE stage' = "resolve" /\ result' = NoResult /\ UNCHANGED <<age, expires>>
  <2>1. ~OfTunnel(result)'
    BY <1>2, Different DEF OfTunnel, Inconclusive
  <2> QED
    BY <1>2, <2>1 DEF Spent, Waiting
<1>3. CASE Resolve
  <2>1. stage = "resolve" /\ result' = NoResult
    BY <1>3 DEF Resolve, Spent
  <2>2. CASE Attempt(1)
    BY <1>1, <2>1, <2>2
  <2>3. CASE UNCHANGED attempt_vars
    BY <1>2, <2>1, <2>3 DEF attempt_vars
  <2> QED
    BY <1>3, <2>2, <2>3 DEF Resolve, Resolved
<1>4. CASE \E e \in Endpoints : Begin(e)
  BY <1>1, <1>2, <1>4 DEF Begin
<1> QED
  BY <1>3, <1>4

\* What opens a tunnel, and what is sent through it.
LEMMA TunnelSpent ==
    ASSUME Spent, Dial \/ Converse \/ ConnectTimesOut \/ SendRequest
    PROVE  Spent'
<1>1. CASE Dial
  <2>1. CASE NoTunnel
    BY <1>1, <2>1, NoTunnelSpent DEF Dial
  <2>2. CASE Take(1, <<>>)
    BY <1>1, <2>2, OnwardSpent DEF Dial, Take, Spent
  <2> QED
    BY <1>1, <2>1, <2>2 DEF Dial
<1>2. CASE Converse
  <2>1. CASE NoTunnel
    BY <1>2, <2>1, NoTunnelSpent DEF Converse
  <2>2. CASE stage' \in {"dialogue", "open"} /\ UNCHANGED <<age, expires, result>>
    BY <1>2, <2>2, OnwardSpent DEF Converse, Spent
  <2> QED
    BY <1>2, <2>1, <2>2 DEF Converse, Take
<1>3. CASE ConnectTimesOut
  <2>1. CASE NoTunnel
    BY <1>3, <2>1, NoTunnelSpent DEF ConnectTimesOut
  <2>2. CASE Conclude(Inconclusive)
    <3>1. age <= Timeout
      BY <1>3, Limits DEF ConnectTimesOut, Spent, Waiting
    <3> QED
      BY <1>3, <2>2, <3>1, ConcludeSpent DEF ConnectTimesOut
  <2> QED
    BY <1>3, <2>1, <2>2 DEF ConnectTimesOut
<1>4. CASE SendRequest
  <2>1. CASE Conclude(Failed)
    BY <1>4, <2>1, ConcludeSpent, Different DEF SendRequest
  <2>2. CASE stage' = "read" /\ expires' = Timeout /\ UNCHANGED <<age, result>>
    BY <1>4, <2>2, OnwardSpent, Limits DEF SendRequest, Spent
  <2> QED
    BY <1>4, <2>1, <2>2 DEF SendRequest
<1> QED
  BY <1>1, <1>2, <1>3, <1>4

\* Whatever is read of the answer, and whenever.
LEMMA ReadSpent ==
    ASSUME Spent, ReadResponse \/ PollSealed \/ ReadTimesOut
    PROVE  Spent'
<1>1. stage = "read" /\ age <= Timeout
  BY DEF ReadResponse, PollSealed, ReadTimesOut, Spent, Waiting
<1>2. ASSUME NEW verdict, Conclude(verdict) PROVE Spent'
  BY <1>1, <1>2, ConcludeSpent
<1>3. CASE UNCHANGED <<stage, age, expires, result>>
  BY <1>3 DEF Spent, Waiting, OfTunnel, Inconclusive
<1> QED
  BY <1>2, <1>3 DEF ReadResponse, PollSealed, ReadTimesOut

\* A plain request never has a tunnel's verdict.
LEMMA PlainSpent ==
    ASSUME Spent, PlainDial \/ PlainRead \/ PlainTimesOut
    PROVE  Spent'
<1>1. stage \in {"plain_dial", "plain_read"}
  BY DEF PlainDial, PlainRead, PlainTimesOut
<1>2. ASSUME NEW verdict, Conclude(verdict), ~OfTunnel(verdict) PROVE Spent'
  BY <1>1, <1>2, ConcludeSpent
<1>3. CASE PlainDial
  <2>1. CASE stage' = "plain_read" /\ expires' = age + Timeout /\ UNCHANGED <<age, result>>
    BY <1>3, <2>1, OnwardSpent, Limits DEF PlainDial, Spent
  <2> QED
    BY <1>2, <1>3, <2>1, Different DEF PlainDial
<1>4. CASE PlainRead
  <2>1. Conclude(Working(FALSE, "unknown")) \/ Conclude(Failed)
    BY <1>4 DEF PlainRead
  <2> QED
    BY <1>2, <2>1, Different
<1>5. CASE PlainTimesOut
  BY <1>2, <1>5, Different DEF PlainTimesOut
<1> QED
  BY <1>3, <1>4, <1>5

\* Time goes no further than the timer of the stage.
LEMMA TickSpent ==
    ASSUME Spent, Tick
    PROVE  Spent'
<1>1. CASE stage = "idle"
  BY <1>1 DEF Tick, Spent, Waiting, OfTunnel, Inconclusive
<1>2. CASE stage # "idle"
  <2>1. stage \in Waiting /\ age < expires /\ age' = age + 1 /\ UNCHANGED <<stage, expires, result>>
    BY <1>2 DEF Tick
  <2>2. ~OfTunnel(result)'
    BY <1>2, <2>1, Different DEF Spent, OfTunnel, Inconclusive
  <2>3. expires <= Patience + 2 * Timeout
    BY <2>1, Limits DEF Spent, Waiting
  <2> QED
    BY <2>1, <2>2, <2>3, Limits DEF Spent, Waiting
<1> QED
  BY <1>1, <1>2

\* The bounds on the time of each stage hold.
THEOREM SpentInvariance == ProbeSpec => []Spent
<1>1. Spent /\ [ProbeNext]_vars => Spent'
  <2> SUFFICES ASSUME Spent, [ProbeNext]_vars PROVE Spent'
    OBVIOUS
  <2>1. CASE Arrive \/ Renumber \/ UNCHANGED vars
    BY <2>1 DEF Arrive, Renumber, vars, world_vars, attempt_vars,
                Spent, Waiting, OfTunnel, Inconclusive
  <2> QED
    BY <2>1, BeginSpent, TunnelSpent, ReadSpent, PlainSpent, TickSpent DEF ProbeNext, ProbeStep
<1> QED
  BY InitSpent, <1>1, PTL DEF ProbeSpec

-----------------------------------------------------------------------------
(* What follows from it.                                                   *)

\* What a tunnel proves is known within one budget, and a probe that falls back
\* to a plain request takes no more than the handshake and two.
THEOREM BudgetKept == ProbeSpec => []TheBudgetHolds
<1>1. Spent => TheBudgetHolds
  BY Limits DEF Spent, TheBudgetHolds, Waiting, OfTunnel
<1> QED
  BY SpentInvariance, <1>1, PTL

-----------------------------------------------------------------------------
(* What a connector leaves in the stream.                                  *)

Handshakes == {"http", "200", "502", "fields", "blank", "certificate", "version", "free",
               "locked", "granted", "refused", "bound", "port", "junk", "fin", "reset"}

Stream == wire \o coming

\* What the reply before leaves for an exchange to read.
Before(exchange) == IF exchange.send = "nothing" THEN <<"bound", "port">> ELSE <<>>

Exchanges == {Exact("hello", <<"certificate">>), Exact("ask4", <<"granted", "bound">>),
              Exact("greeting", <<"version", "free">>), Exact("ask5", <<"granted">>),
              Exact("nothing", <<"bound", "port">>), Exact("salt", <<>>)}

\* Short tuples that are put together.
LEMMA TupleOfThree ==
    ASSUME NEW a, NEW b, NEW c
    PROVE  /\ <<a>> \o <<b>> = <<a, b>>
           /\ <<a>> \o <<b, c>> = <<a, b, c>>
<1> DEFINE two == <<a>> \o <<b>>
           three == <<a>> \o <<b, c>>
<1>1. two \in Seq({a, b}) /\ Len(two) = 2 /\ two[1] = a /\ two[2] = b
  OBVIOUS
<1>2. three \in Seq({a, b, c}) /\ Len(three) = 3 /\ three[1] = a /\ three[2] = b /\ three[3] = c
  OBVIOUS
<1> HIDE DEF two, three
<1>3. two = <<a, b>>
  BY <1>1
<1>4. three = <<a, b, c>>
  BY <1>2
<1> QED
  BY <1>3, <1>4 DEF two, three

\* The dialogues, exchange by exchange.
LEMMA DialogueTable ==
    LET ask == Exact("ask5", <<"granted">>)
        drain == Exact("nothing", <<"bound", "port">>)
        hello == Exact("hello", <<"certificate">>)
    IN  /\ Dialogue("http") = <<Connect[1]>>
        /\ Dialogue("https") = <<hello, Connect[1]>>
        /\ Dialogue("socks4") = <<Exact("ask4", <<"granted", "bound">>)>>
        /\ Dialogue("socks5") = <<Exact("greeting", <<"version", "free">>), ask, drain>>
        /\ Dialogue("trojan") = <<hello, ask, drain>>
        /\ Dialogue("shadowsocks") = <<Exact("salt", <<>>)>>
<1>1. Connect = <<Connect[1]>>
  BY DEF Connect
<1> QED
  BY <1>1, TupleOfThree DEF Dialogue, TlsHello, Socks4, Socks5, Trojan, AskAndDrain, Salted

\* What the exchanges send.
LEMMA Sends ==
    /\ \A send, expect : Exact(send, expect).send = send
    /\ Connect[1].send = "CONNECT"
  BY DEF Exact, Connect

\* A dialogue is made of the known exchanges and is never empty.
LEMMA DialogueIsOfExchanges ==
    ASSUME NEW protocol \in Protocols
    PROVE  /\ Len(Dialogue(protocol)) \in Nat \ {0}
           /\ \A n \in 1 .. Len(Dialogue(protocol)) :
                Dialogue(protocol)[n] \in Exchanges \cup {Connect[1]}
<1>1. CASE protocol = "http"
  BY <1>1, DialogueTable DEF Exchanges
<1>2. CASE protocol = "https"
  BY <1>2, DialogueTable DEF Exchanges
<1>3. CASE protocol = "socks4"
  BY <1>3, DialogueTable DEF Exchanges
<1>4. CASE protocol = "socks5"
  BY <1>4, DialogueTable DEF Exchanges
<1>5. CASE protocol = "trojan"
  BY <1>5, DialogueTable DEF Exchanges
<1>6. CASE protocol = "shadowsocks"
  BY <1>6, DialogueTable DEF Exchanges
<1> QED
  BY <1>1, <1>2, <1>3, <1>4, <1>5, <1>6 DEF Protocols

\* What an exchange leaves is what the next one reads.
LEMMA DialogueFollows ==
    ASSUME NEW protocol \in Protocols, NEW n \in 1 .. Len(Dialogue(protocol))
    PROVE  LET this == Dialogue(protocol)[n].send
               next == Dialogue(protocol)[n + 1].send
           IN  /\ n < Len(Dialogue(protocol)) =>
                    this \notin {"CONNECT", "salt"} /\ (next = "nothing" <=> this = "ask5")
               /\ n = Len(Dialogue(protocol)) =>
                    /\ this # "ask5"
                    /\ this = "CONNECT" <=> protocol \in {"http", "https"}
                    /\ this = "salt" <=> protocol = "shadowsocks"
               /\ n = 1 => this # "nothing"
<1>1. CASE protocol = "http"
  BY <1>1, DialogueTable, Sends
<1>2. CASE protocol = "https"
  BY <1>2, DialogueTable, Sends
<1>3. CASE protocol = "socks4"
  BY <1>3, DialogueTable, Sends
<1>4. CASE protocol = "socks5"
  BY <1>4, DialogueTable, Sends
<1>5. CASE protocol = "trojan"
  BY <1>5, DialogueTable, Sends
<1>6. CASE protocol = "shadowsocks"
  BY <1>6, DialogueTable, Sends
<1> QED
  BY <1>1, <1>2, <1>3, <1>4, <1>5, <1>6 DEF Protocols

\* What an endpoint says to a message; one that is deaf says nothing.
LEMMA ReplyIs ==
    ASSUME NEW e \in Endpoints, NEW message, NEW reply \in Replies(e, message)
    PROVE  /\ reply \in {Granted(message), Refused(message), Junk, <<>>}
           /\ message = "nothing" => reply = <<>>
           /\ e.kind \in {"deaf", "blackhole"} => reply = <<>>
  BY DEF Replies, Endpoints, Tunnels

\* The replies are made of units of a handshake.
LEMMA HandshakeTuples ==
    /\ Junk \in Seq(Handshakes) /\ <<>> \in Seq(Handshakes)
    /\ <<"bound", "port">> \in Seq(Handshakes)
    /\ \A message : Granted(message) \in Seq(Handshakes) /\ Refused(message) \in Seq(Handshakes)
<1>1. /\ <<"http", "200", "fields", "blank">> \in Seq(Handshakes)
      /\ <<"certificate">> \in Seq(Handshakes) /\ <<"version", "free">> \in Seq(Handshakes)
      /\ <<"granted", "bound">> \in Seq(Handshakes)
      /\ <<"granted", "bound", "port">> \in Seq(Handshakes)
  BY DEF Handshakes
<1>2. /\ <<"http", "502", "fin">> \in Seq(Handshakes) /\ <<"version", "locked">> \in Seq(Handshakes)
      /\ <<"refused", "bound", "port", "fin">> \in Seq(Handshakes)
      /\ <<"fin">> \in Seq(Handshakes) /\ <<>> \in Seq(Handshakes)
      /\ <<"bound", "port">> \in Seq(Handshakes) /\ <<"junk", "fin">> \in Seq(Handshakes)
  BY DEF Handshakes
<1>3. \A message : Granted(message) \in
        {<<"http", "200", "fields", "blank">>, <<"certificate">>, <<"version", "free">>,
         <<"granted", "bound">>, <<"granted", "bound", "port">>, <<>>}
  BY DEF Granted
<1>4. \A message : Refused(message) \in
        {<<"http", "502", "fin">>, <<"version", "locked">>, <<"fin">>,
         <<"refused", "bound", "port", "fin">>, <<>>}
  BY DEF Refused
<1> QED
  BY <1>1, <1>2, <1>3, <1>4 DEF Junk

\* No reply to a handshake holds a piece of a response.
LEMMA RepliesAreHandshakes ==
    ASSUME NEW e \in Endpoints, NEW message, NEW reply \in Replies(e, message)
    PROVE  reply \in Seq(Handshakes)
<1>1. reply \in {Granted(message), Refused(message), Junk, <<>>}
  BY ReplyIs
<1> QED
  BY <1>1, HandshakeTuples

\* What arrives moves within the stream.
LEMMA ArriveKeepsStream ==
    ASSUME NEW S, wire \in Seq(S), coming \in Seq(S), Arrive
    PROVE  /\ Stream' = Stream
           /\ wire' \in Seq(S) /\ coming' \in Seq(S)
<1>1. coming # <<>> /\ wire' = Append(wire, Head(coming)) /\ coming' = Tail(coming)
  BY DEF Arrive
<1>2. Head(coming) \in S /\ coming' \in Seq(S)
  BY <1>1, HeadTailProperties
<1>3. wire' = wire \o <<Head(coming)>> /\ wire' \in Seq(S)
  BY <1>1, <1>2, AppendIsConcat, AppendProperties
<1>4. coming = <<Head(coming)>> \o Tail(coming)
  <2>1. Len(coming) \in Nat \ {0} /\ 1 \in 1 .. Len(coming) /\ Len(coming) \in 1 .. Len(coming)
    BY <1>1, EmptySeq
  <2>2. SubSeq(coming, 1, Len(coming)) = <<coming[1]>> \o SubSeq(coming, 2, Len(coming))
    BY <2>1, SubSeqRecursiveFirst
  <2> QED
    BY <1>1, <2>2, SubSeqFull, TailIsSubSeq
<1>5. <<Head(coming)>> \in Seq(S)
  BY <1>2
<1>6. (wire \o <<Head(coming)>>) \o Tail(coming) = wire \o (<<Head(coming)>> \o Tail(coming))
  BY <1>1, <1>2, <1>5, ConcatAssociative
<1> QED
  BY <1>1, <1>2, <1>3, <1>4, <1>6 DEF Stream

\* A read takes from the front of the stream.
LEMMA ReadKeepsStream ==
    ASSUME NEW S, NEW w \in Seq(S), NEW c \in Seq(S), NEW k \in 0 .. Len(w)
    PROVE  LET rest == SubSeq(w, k + 1, Len(w))
           IN  /\ \A i \in 1 .. k : SubSeq(w, 1, k)[i] = (w \o c)[i]
               /\ rest \in Seq(S)
               /\ rest \o c \in Seq(S) /\ Len(rest \o c) = Len(w \o c) - k
               /\ \A i \in 1 .. Len(w \o c) - k : (rest \o c)[i] = (w \o c)[i + k]
<1> DEFINE rest == SubSeq(w, k + 1, Len(w))
<1>1. \A i \in 1 .. k : SubSeq(w, 1, k)[i] = (w \o c)[i]
  OBVIOUS
<1>2. rest \in Seq(S) /\ Len(rest) = Len(w) - k
  OBVIOUS
<1>3. \A i \in 1 .. Len(w) - k : rest[i] = w[k + i]
  OBVIOUS
<1> HIDE DEF rest
<1>4. rest \o c \in Seq(S) /\ Len(rest \o c) = Len(w \o c) - k
  BY <1>2
<1>5. \A i \in 1 .. Len(w \o c) - k : (rest \o c)[i] = (w \o c)[i + k]
  BY <1>2, <1>3
<1> QED
  BY <1>1, <1>2, <1>4, <1>5 DEF rest

\* An exchange that was answered as it expects takes just that from the stream.
LEMMA ExactRead ==
    ASSUME NEW exchange, exchange.exact = TRUE, Len(exchange.expect) \in Nat,
           NEW S, wire \in Seq(S), coming \in Seq(S),
           Satisfied(exchange, wire)
    PROVE  LET k == Len(exchange.expect)
               left == LeftOver(exchange, wire) \o coming
           IN  /\ k <= Len(Stream) /\ \A i \in 1 .. k : exchange.expect[i] = Stream[i]
               /\ left \in Seq(S) /\ Len(left) = Len(Stream) - k
               /\ \A i \in 1 .. Len(Stream) - k : left[i] = Stream[i + k]
<1> DEFINE k == Len(exchange.expect)
           rest == LeftOver(exchange, wire)
<1>1. SubSeq(wire, 1, k) = exchange.expect /\ rest = SubSeq(wire, k + 1, Len(wire))
  BY DEF Satisfied, LeftOver
<1>2. k \in 0 .. Len(wire)
  <2>1. Len(wire) >= k /\ Len(wire) \in Nat
    BY DEF Satisfied
  <2> QED
    BY <2>1
<1> HIDE DEF k, rest
<1>3. \A i \in 1 .. k : exchange.expect[i] = Stream[i]
  BY <1>1, <1>2, ReadKeepsStream DEF Stream
<1>4. /\ rest \o coming \in Seq(S) /\ Len(rest \o coming) = Len(Stream) - k
      /\ \A i \in 1 .. Len(Stream) - k : (rest \o coming)[i] = Stream[i + k]
  BY <1>1, <1>2, ReadKeepsStream DEF Stream
<1>5. k <= Len(Stream)
  BY <1>2 DEF Stream
<1> QED
  BY <1>3, <1>4, <1>5 DEF k, rest

\* What is in front of the next exchange once this one is satisfied.
LEMMA ExchangeLeaves ==
    ASSUME NEW exchange \in Exchanges,
           NEW reply \in {Granted(exchange.send), Refused(exchange.send), Junk, <<>>},
           exchange.send = "nothing" => reply = <<>>,
           wire \in Seq(Handshakes), coming \in Seq(Handshakes),
           Stream = Before(exchange) \o reply,
           Satisfied(exchange, wire)
    PROVE  LeftOver(exchange, wire) \o coming =
             IF exchange.send = "ask5" THEN <<"bound", "port">>
             ELSE IF exchange.send = "salt" THEN reply ELSE <<>>
<1> DEFINE left == LeftOver(exchange, wire) \o coming
<1>1. exchange.exact = TRUE /\ Len(exchange.expect) \in Nat
  BY DEF Exchanges, Exact
<1>2. /\ Len(exchange.expect) <= Len(Stream)
      /\ \A i \in 1 .. Len(exchange.expect) : exchange.expect[i] = Stream[i]
      /\ left \in Seq(Handshakes) /\ Len(left) = Len(Stream) - Len(exchange.expect)
      /\ \A i \in 1 .. Len(Stream) - Len(exchange.expect) :
           left[i] = Stream[i + Len(exchange.expect)]
  BY <1>1, ExactRead
<1> HIDE DEF left
<1>3. exchange.send # "nothing" => Stream = reply
  <2>1. reply \in Seq(Handshakes)
    BY HandshakeTuples
  <2> QED
    BY <2>1, ConcatEmptySeq DEF Before
<1>4. exchange.send = "nothing" => Stream = <<"bound", "port">>
  BY HandshakeTuples, ConcatEmptySeq DEF Before
<1>5. CASE exchange = Exact("hello", <<"certificate">>)
  <2>1. exchange.send = "hello" /\ exchange.expect = <<"certificate">>
    BY <1>5 DEF Exact
  <2>2. Len(Stream) >= 1 /\ Stream[1] = "certificate"
    BY <1>2, <2>1
  <2>3. Stream = <<"certificate">>
    <3>1. reply \in {Granted("hello"), Refused("hello"), Junk, <<>>}
      BY <2>1
    <3>2. Stream = reply
      BY <1>3, <2>1
    <3> QED
      BY <2>2, <3>1, <3>2 DEF Granted, Refused, Junk
  <2>4. left = <<>>
    BY <1>2, <2>1, <2>3
  <2> QED
    BY <2>1, <2>4 DEF left
<1>6. CASE exchange = Exact("ask4", <<"granted", "bound">>)
  <2>1. exchange.send = "ask4" /\ exchange.expect = <<"granted", "bound">>
    BY <1>6 DEF Exact
  <2>2. Len(Stream) >= 2 /\ Stream[1] = "granted" /\ Stream[2] = "bound"
    BY <1>2, <2>1
  <2>3. Stream = <<"granted", "bound">>
    <3>1. reply \in {Granted("ask4"), Refused("ask4"), Junk, <<>>}
      BY <2>1
    <3>2. Stream = reply
      BY <1>3, <2>1
    <3> QED
      BY <2>2, <3>1, <3>2 DEF Granted, Refused, Junk
  <2>4. left = <<>>
    BY <1>2, <2>1, <2>3
  <2> QED
    BY <2>1, <2>4 DEF left
<1>7. CASE exchange = Exact("ask5", <<"granted">>)
  <2>1. exchange.send = "ask5" /\ exchange.expect = <<"granted">>
    BY <1>7 DEF Exact
  <2>2. Len(Stream) >= 1 /\ Stream[1] = "granted"
    BY <1>2, <2>1
  <2>3. Stream = <<"granted", "bound", "port">>
    <3>1. reply \in {Granted("ask5"), Refused("ask5"), Junk, <<>>}
      BY <2>1
    <3>2. Stream = reply
      BY <1>3, <2>1
    <3> QED
      BY <2>2, <3>1, <3>2 DEF Granted, Refused, Junk
  <2>4. Len(left) = 2 /\ left[1] = "bound" /\ left[2] = "port"
    BY <1>2, <2>1, <2>3
  <2>5. left = <<"bound", "port">>
    BY <1>2, <2>4
  <2> QED
    BY <2>1, <2>5 DEF left
<1>8. CASE exchange = Exact("nothing", <<"bound", "port">>)
  <2>1. exchange.send = "nothing" /\ exchange.expect = <<"bound", "port">>
    BY <1>8 DEF Exact
  <2>2. left = <<>>
    BY <1>2, <1>4, <2>1
  <2> QED
    BY <2>1, <2>2 DEF left
<1>9. CASE exchange = Exact("greeting", <<"version", "free">>)
  <2>1. exchange.send = "greeting" /\ exchange.expect = <<"version", "free">>
    BY <1>9 DEF Exact
  <2>2. Len(Stream) >= 2 /\ Stream[1] = "version" /\ Stream[2] = "free"
    BY <1>2, <2>1
  <2>3. Stream = <<"version", "free">>
    <3>1. reply \in {Granted("greeting"), Refused("greeting"), Junk, <<>>}
      BY <2>1
    <3>2. Stream = reply
      BY <1>3, <2>1
    <3> QED
      BY <2>2, <3>1, <3>2 DEF Granted, Refused, Junk
  <2>4. left = <<>>
    BY <1>2, <2>1, <2>3
  <2> QED
    BY <2>1, <2>4 DEF left
<1>10. CASE exchange = Exact("salt", <<>>)
  <2>1. exchange.send = "salt" /\ exchange.expect = <<>>
    BY <1>10 DEF Exact
  <2>2. Stream = reply /\ Stream \in Seq(Handshakes)
    BY <1>3, <2>1, HandshakeTuples
  <2>3. Len(left) = Len(Stream) /\ \A i \in 1 .. Len(Stream) : left[i] = Stream[i]
    BY <1>2, <2>1, <2>2
  <2>4. left = Stream
    BY <1>2, <2>2, <2>3
  <2> QED
    BY <2>1, <2>2, <2>4 DEF left
<1> QED
  BY <1>5, <1>6, <1>7, <1>8, <1>9, <1>10 DEF Exchanges

-----------------------------------------------------------------------------
(* What a verdict rests on.                                                *)

Units == Handshakes \cup {"response", "salt", "length", "payload"}

\* The forwarder's timer is not the one that ends a handshake.
ForwarderIsPatient == Patience < InnerTimeout

Silent == ForwarderIsPatient /\ endpoint.kind \in {"deaf", "blackhole"}

\* What a response says that was sent.
Sent ==
    said \in [from : {"target", "endpoint"}, code : Nat,
              exit : Addresses \cup {Elsewhere, NoAddress},
              shows : SUBSET Headers, seen : Addresses, end : Ends]

\* The endpoints that answer in a tunnel.
Posing == Tunnels \cup {"captive"}

\* What a verdict rests on.
Borne(verdict) ==
    /\ verdict \in Verdicts
    /\ verdict.verdict = "working" =>
         /\ said.code = 200
         /\ verdict.tunneled => endpoint.kind \in Posing /\ verdict.exit # known
    /\ Silent => verdict # Failed

Types ==
    /\ own \in Addresses
    /\ slot \in [own : Addresses \cup {NoAddress}, age : 0 .. Ttl]
    /\ endpoint \in Endpoints /\ known \in Addresses \cup {NoAddress}
    /\ target \in 1 .. Len(Targets)
    /\ wire \in Seq(Units) /\ coming \in Seq(Units)
    /\ sealed \in [salt : BOOLEAN, answer : BOOLEAN]

Exchange == Dialogue(endpoint.protocol)[step]

\* How far the negotiation has come, from what is in the stream.
Negotiated ==
    /\ stage \in {"idle", "resolve", "dial", "plain_dial"} => wire = <<>> /\ coming = <<>>
    /\ stage = "dialogue" =>
         /\ step \in 1 .. Len(Dialogue(endpoint.protocol))
         /\ \E reply \in Replies(endpoint, Exchange.send) : Stream = Before(Exchange) \o reply
    /\ stage = "open" /\ endpoint.protocol \in {"socks4", "socks5", "trojan"} => Stream = <<>>
    /\ stage \in {"dialogue", "open"} =>
         wire \in Seq(Handshakes) /\ coming \in Seq(Handshakes)

\* A response is in the stream only when one was sent.
Heard ==
    /\ stage \in {"dial", "dialogue", "open", "plain_dial"} => said = Unheard /\ sealed = Unsealed
    /\ stage \in {"read", "plain_read"} =>
         \/ Sent /\ (stage = "read" => endpoint.kind \in Posing)
         \/ /\ wire \in Seq(Handshakes) /\ coming \in Seq(Handshakes)
            /\ stage = "read" => ~sealed.answer

\* An endpoint that says nothing.
Silence ==
    Silent =>
      /\ stage \notin {"plain_dial", "plain_read"}
      /\ stage \in {"dialogue", "open"} => Stream = <<>>
      /\ stage \in {"open", "read"} => endpoint.protocol = "shadowsocks"
      /\ stage = "read" => wire \in Seq({"fin"}) /\ coming \in Seq({"fin"}) /\ ~sealed.answer

Judged ==
    /\ Borne(result)
    /\ stage # "idle" => result = NoResult

IndInv == Spent /\ Types /\ Negotiated /\ Heard /\ Silence /\ Judged

\* A stream is empty when both of its ends are.
LEMMA EmptyStream ==
    ASSUME NEW S, wire \in Seq(S), coming \in Seq(S), Stream = <<>>
    PROVE  wire = <<>> /\ coming = <<>>
  BY ConcatEqualIffEmpty, EmptySeq DEF Stream

\* The verdicts are told apart by their kind.
LEMMA Kinds ==
    /\ NoResult.verdict = "none" /\ Failed.verdict = "failed"
    /\ Inconclusive.verdict = "inconclusive"
    /\ {Failed, Inconclusive, NoResult} \subseteq Verdicts
    /\ Failed # Inconclusive /\ Failed # NoResult
  BY DEF NoResult, Failed, Inconclusive, Verdicts

\* A verdict that calls nothing working rests on nothing that was said.
LEMMA BorneAnyway ==
    /\ Borne(NoResult) /\ Borne(Inconclusive)
    /\ ~Silent => Borne(Failed)
  BY Kinds DEF Borne

\* An attempt starts from an empty stream.
LEMMA AttemptInv ==
    ASSUME NEW t \in 1 .. Len(Targets), Attempt(t), result' = NoResult,
           own' \in Addresses, slot' \in [own : Addresses \cup {NoAddress}, age : 0 .. Ttl],
           endpoint' \in Endpoints, known' \in Addresses \cup {NoAddress}
    PROVE  IndInv'
<1>1. /\ stage' = "dial" /\ target' = t /\ sealed' = Unsealed
      /\ wire' = <<>> /\ coming' = <<>> /\ said' = Unheard
  BY DEF Attempt
<1>2. Spent'
  BY AttemptSpent
<1>3. Types'
  BY <1>1 DEF Types, Unsealed
<1>4. Negotiated' /\ Heard' /\ Silence'
  BY <1>1 DEF Negotiated, Heard, Silence
<1>5. Judged'
  BY Kinds DEF Judged, Borne
<1> QED
  BY <1>2, <1>3, <1>4, <1>5 DEF IndInv

\* A verdict that is borne out ends the probe, or leads to the next target.
LEMMA ConcludeInv ==
    ASSUME IndInv, stage \notin {"idle", "resolve"}, NEW verdict, Conclude(verdict),
           Borne(verdict), Spent', UNCHANGED <<world_vars, endpoint, known>>
    PROVE  IndInv'
<1>1. UNCHANGED <<own, slot, endpoint, known>>
  BY DEF world_vars
<1>2. CASE Attempt(target + 1) /\ UNCHANGED result /\ target < Least(MaxTargets, Len(Targets))
  <2>1. target + 1 \in 1 .. Len(Targets)
    BY <1>2, ProbeAssumption DEF IndInv, Types, Least
  <2>2. result' = NoResult
    BY <1>2 DEF IndInv, Judged
  <2> QED
    BY <1>1, <1>2, <2>1, <2>2, AttemptInv DEF IndInv, Types
<1>3. CASE /\ result' = verdict /\ stage' = "idle" /\ wire' = <<>> /\ coming' = <<>>
           /\ UNCHANGED <<target, step, sealed, age, expires, said>>
  <2>1. Types'
    BY <1>1, <1>3 DEF IndInv, Types
  <2>2. Negotiated' /\ Heard' /\ Silence'
    BY <1>3 DEF Negotiated, Heard, Silence
  <2>3. Judged'
    BY <1>1, <1>3 DEF Judged, Borne, Silent
  <2> QED
    BY <2>1, <2>2, <2>3 DEF IndInv
<1> QED
  BY <1>2, <1>3 DEF Conclude

\* The fall back to a plain request, of an endpoint that did say something.
LEMMA NoTunnelInv ==
    ASSUME IndInv, stage \in {"dial", "dialogue"}, ~Silent, NoTunnel,
           Spent', UNCHANGED <<world_vars, endpoint, known>>
    PROVE  IndInv'
<1>1. CASE Conclude(Failed)
  BY <1>1, ConcludeInv, BorneAnyway
<1>2. CASE /\ stage' = "plain_dial" /\ expires' = age + Timeout
           /\ wire' = <<>> /\ coming' = <<>>
           /\ UNCHANGED <<target, step, sealed, age, said, result>>
  <2>1. Types'
    BY <1>2 DEF IndInv, Types, world_vars, Spent
  <2>2. Negotiated' /\ Heard'
    BY <1>2 DEF IndInv, Negotiated, Heard
  <2>3. Silence' /\ Judged'
    BY <1>2 DEF IndInv, Silence, Silent, Judged, Borne
  <2> QED
    BY <2>1, <2>2, <2>3 DEF IndInv
<1> QED
  BY <1>1, <1>2 DEF NoTunnel

\* The units of a handshake are units of a stream.
LEMMA UnitsOfHandshakes ==
    \A s \in Seq(Handshakes) : s \in Seq(Units)
<1> SUFFICES ASSUME NEW s \in Seq(Handshakes) PROVE s \in Seq(Units)
  OBVIOUS
<1>1. Len(s) \in Nat /\ \A i \in 1 .. Len(s) : s[i] \in Units
  BY DEF Units
<1> QED
  BY <1>1

\* Concatenation is associative.
LEMMA Regrouped ==
    \A a, b, c \in Seq(Handshakes) : (a \o b) \o c = a \o (b \o c)
  BY ConcatAssociative

\* A message is sent, and what its reader finds in front of the reply is what the
\* exchange before has left.
LEMMA TakeInv ==
    ASSUME IndInv, stage \in {"dial", "dialogue"}, Spent', UNCHANGED world_vars,
           NEW n \in 1 .. Len(Dialogue(endpoint.protocol)),
           NEW left \in Seq(Handshakes), coming \in Seq(Handshakes),
           left \o coming = Before(Dialogue(endpoint.protocol)[n]),
           Silent => left \o coming = <<>>,
           Take(n, left)
    PROVE  IndInv'
<1> DEFINE exchange == Dialogue(endpoint.protocol)[n]
<1>1. endpoint \in Endpoints
  BY DEF IndInv, Types
<1>2. PICK reply \in Replies(endpoint, exchange.send) : coming' = coming \o reply
  BY DEF Take
<1>3. /\ stage' = "dialogue" /\ step' = n /\ wire' = left
      /\ UNCHANGED <<own, slot, endpoint, known, target, sealed, age, expires, said, result>>
  BY DEF Take, world_vars
<1>4. reply \in Seq(Handshakes)
  BY <1>1, <1>2, RepliesAreHandshakes
<1>5. wire' \in Seq(Handshakes) /\ coming' \in Seq(Handshakes)
  BY <1>2, <1>3, <1>4, ConcatProperties
<1>6. Stream' = (left \o coming) \o reply
  <2>1. Stream' = left \o (coming \o reply)
    BY <1>2, <1>3 DEF Stream
  <2>2. (left \o coming) \o reply = left \o (coming \o reply)
    BY <1>4, Regrouped, Zenon
  <2> QED
    BY <2>1, <2>2
<1>7. Exchange' = exchange
  BY <1>3 DEF Exchange
<1>8. Silent' => Stream' = <<>>
  <2> SUFFICES ASSUME Silent PROVE Stream' = <<>>
    BY <1>3 DEF Silent
  <2>1. reply = <<>>
    BY <1>1, <1>2, ReplyIs DEF Silent
  <2> QED
    BY <1>6, <2>1
<1>9. Types'
  BY <1>3, <1>5, UnitsOfHandshakes DEF IndInv, Types
<1>10. Negotiated'
  <2>1. Replies(endpoint, exchange.send)' = Replies(endpoint, exchange.send)
    BY <1>3
  <2>2. \E r \in Replies(endpoint', Exchange.send') : Stream' = Before(Exchange)' \o r
    BY <1>2, <1>3, <1>6, <1>7
  <2> QED
    BY <1>3, <1>5, <2>2 DEF Negotiated
<1>11. Heard' /\ Judged'
  BY <1>3 DEF IndInv, Heard, Judged, Borne, Silent
<1>12. Silence'
  BY <1>3, <1>8 DEF Silence
<1> QED
  BY <1>9, <1>10, <1>11, <1>12 DEF IndInv

\* The target is resolved before anything is sent.
LEMMA BeginInv ==
    ASSUME IndInv, Resolve \/ \E e \in Endpoints : Begin(e)
    PROVE  IndInv'
<1>1. Spent'
  BY BeginSpent DEF IndInv
<1>2. own' \in Addresses /\ endpoint' \in Endpoints /\ known' \in Addresses \cup {NoAddress}
      /\ slot' \in [own : Addresses \cup {NoAddress}, age : 0 .. Ttl]
      /\ target' \in 1 .. Len(Targets)
  <2>1. 0 \in 0 .. Ttl /\ 1 \in 1 .. Len(Targets)
    BY ProbeAssumption, EmptySeq
  <2>2. CASE \E e \in Endpoints : Begin(e)
    BY <2>1, <2>2 DEF Begin, IndInv, Types, world_vars, Attempt
  <2>3. CASE Resolve
    BY <2>1, <2>3, ProbeAssumption DEF Resolve, Resolved, IndInv, Types, Attempt
  <2> QED
    BY <2>2, <2>3
<1>3. result' = NoResult
  BY DEF Begin, Resolve, IndInv, Judged
<1>4. CASE Attempt(1)
  BY <1>2, <1>3, <1>4, AttemptInv DEF Attempt
<1>5. CASE stage' = "resolve" /\ UNCHANGED <<sealed, wire, coming>>
           /\ stage \in {"idle", "resolve"}
  <2>1. Types'
    BY <1>2, <1>5 DEF IndInv, Types
  <2>2. Negotiated'
    BY <1>5 DEF IndInv, Negotiated
  <2>3. Heard' /\ Silence' /\ Judged'
    BY <1>3, <1>5, BorneAnyway, Kinds DEF Heard, Silence, Judged, Borne
  <2> QED
    BY <1>1, <2>1, <2>2, <2>3 DEF IndInv
<1>6. CASE Resolve /\ UNCHANGED attempt_vars
  <2>1. stage' = "resolve" /\ UNCHANGED <<sealed, wire, coming>> /\ stage = "resolve"
    BY <1>6 DEF Resolve, attempt_vars
  <2>2. Types'
    BY <1>2, <2>1 DEF IndInv, Types
  <2>3. Negotiated'
    BY <2>1 DEF IndInv, Negotiated
  <2>4. Heard' /\ Silence' /\ Judged'
    BY <1>3, <2>1, Kinds DEF Heard, Silence, Judged, Borne
  <2> QED
    BY <1>1, <2>2, <2>3, <2>4 DEF IndInv
<1> QED
  BY <1>4, <1>5, <1>6 DEF Begin, Resolve, Resolved

\* Only the Shadowsocks connector waits for nothing.
LEMMA Expectations ==
    ASSUME NEW exchange \in Exchanges
    PROVE  /\ exchange.exact = TRUE /\ Len(exchange.expect) \in Nat
           /\ Len(exchange.expect) = 0 => exchange = Exact("salt", <<>>)
           /\ exchange.send # "CONNECT"
<1>1. /\ exchange.exact = TRUE /\ exchange.send # "CONNECT"
      /\ exchange.expect \in {<<"certificate">>, <<"granted", "bound">>, <<"version", "free">>,
                              <<"granted">>, <<"bound", "port">>, <<>>}
      /\ exchange.expect = <<>> => exchange = Exact("salt", <<>>)
  BY DEF Exchanges, Exact
<1>2. \A expect \in {<<"certificate">>, <<"granted", "bound">>, <<"version", "free">>,
                      <<"granted">>, <<"bound", "port">>, <<>>} :
        Len(expect) \in Nat /\ (Len(expect) = 0 => expect = <<>>)
  OBVIOUS
<1> QED
  BY <1>1, <1>2

\* A read of a handshake leaves units of a handshake.
LEMMA LeftOverTyped ==
    ASSUME NEW exchange \in Exchanges \cup {Connect[1]}, wire \in Seq(Handshakes),
           Satisfied(exchange, wire)
    PROVE  LeftOver(exchange, wire) \in Seq(Handshakes)
<1>1. CASE exchange \in Exchanges
  <2> DEFINE k == Len(exchange.expect)
  <2>1. k \in Nat /\ k <= Len(wire) /\ LeftOver(exchange, wire) = SubSeq(wire, k + 1, Len(wire))
    BY <1>1, Expectations DEF Satisfied, LeftOver
  <2> HIDE DEF k
  <2>2. SubSeq(wire, k + 1, Len(wire)) \in Seq(Handshakes)
    BY <2>1
  <2> QED
    BY <2>1, <2>2
<1>2. CASE exchange = Connect[1]
  <2>1. exchange.exact = FALSE
    BY <1>2 DEF Connect
  <2>2. LeftOver(exchange, wire) \in {<<"fin">>, <<>>}
    BY <2>1 DEF LeftOver
  <2>3. <<"fin">> \in Seq(Handshakes) /\ <<>> \in Seq(Handshakes)
    BY DEF Handshakes
  <2> QED
    BY <2>2, <2>3
<1> QED
  BY <1>1, <1>2

\* Where a conversation stands.
LEMMA Conversing ==
    ASSUME IndInv, stage = "dialogue"
    PROVE  /\ endpoint \in Endpoints /\ endpoint.protocol \in Protocols
           /\ step \in 1 .. Len(Dialogue(endpoint.protocol))
           /\ Len(Dialogue(endpoint.protocol)) \in Nat
           /\ Exchange \in Exchanges \cup {Connect[1]}
           /\ wire \in Seq(Handshakes) /\ coming \in Seq(Handshakes)
  BY DialogueIsOfExchanges DEF IndInv, Types, Negotiated, Endpoints, Exchange

\* An endpoint that says nothing is left alone only by the connector that
\* waits for nothing.
LEMMA SilentConversation ==
    ASSUME IndInv, stage = "dialogue", Silent, ReadEnds(Exchange, wire)
    PROVE  /\ Satisfied(Exchange, wire) /\ Exchange = Exact("salt", <<>>)
           /\ step = Len(Dialogue(endpoint.protocol))
           /\ endpoint.protocol = "shadowsocks"
           /\ wire = <<>> /\ coming = <<>>
<1>1. wire = <<>> /\ coming = <<>>
  BY EmptyStream, Conversing DEF IndInv, Silence
<1>2. Exchange \in Exchanges
  <2>1. CASE Exchange = Connect[1]
    BY <1>1, <2>1 DEF ReadEnds, Connect
  <2> QED
    BY <2>1, Conversing
<1>3. Exchange = Exact("salt", <<>>)
  <2>1. Len(Exchange.expect) <= Len(wire) /\ Len(wire) = 0
    BY <1>1, <1>2, Expectations DEF ReadEnds, Holds
  <2>2. Len(Exchange.expect) \in Nat
    BY <1>2, Expectations
  <2>3. Len(Exchange.expect) = 0
    BY <2>1, <2>2
  <2> QED
    BY <1>2, <2>3, Expectations
<1>4. Exchange.send = "salt" /\ Exchange.expect = <<>> /\ Exchange.exact = TRUE
  BY <1>3 DEF Exact
<1>5. Satisfied(Exchange, wire)
  BY <1>1, <1>4 DEF Satisfied
<1>6. step = Len(Dialogue(endpoint.protocol)) /\ endpoint.protocol = "shadowsocks"
  <2>1. Dialogue(endpoint.protocol)[step].send = "salt"
    BY <1>4 DEF Exchange
  <2>2. /\ endpoint.protocol \in Protocols /\ step \in 1 .. Len(Dialogue(endpoint.protocol))
        /\ Len(Dialogue(endpoint.protocol)) \in Nat
    BY Conversing
  <2>3. ~(step < Len(Dialogue(endpoint.protocol)))
    BY <2>1, <2>2, DialogueFollows
  <2>4. step = Len(Dialogue(endpoint.protocol))
    BY <2>2, <2>3
  <2>5. endpoint.protocol = "shadowsocks"
    BY <2>1, <2>2, <2>4, DialogueFollows
  <2> QED
    BY <2>4, <2>5
<1> QED
  BY <1>1, <1>3, <1>5, <1>6

\* The first exchange finds an empty stream.
LEMMA DialInv ==
    ASSUME IndInv, Dial
    PROVE  IndInv'
<1>1. Spent'
  BY TunnelSpent DEF IndInv
<1>2. stage = "dial" /\ UNCHANGED world_vars
  BY DEF Dial
<1>3. CASE endpoint.kind = "shut"
  BY <1>1, <1>2, <1>3, NoTunnelInv DEF Dial, Silent
<1>4. CASE endpoint.kind # "shut"
  <2>1. wire = <<>> /\ coming = <<>> /\ endpoint.protocol \in Protocols
    BY <1>2 DEF IndInv, Negotiated, Types, Endpoints
  <2>2. /\ 1 \in 1 .. Len(Dialogue(endpoint.protocol))
        /\ Before(Dialogue(endpoint.protocol)[1]) = <<>>
    BY <2>1, DialogueIsOfExchanges, DialogueFollows DEF Before
  <2>3. <<>> \in Seq(Handshakes) /\ <<>> \o <<>> = <<>>
    BY HandshakeTuples, ConcatEmptySeq
  <2> QED
    BY <1>1, <1>2, <1>4, <2>1, <2>2, <2>3, TakeInv DEF Dial
<1> QED
  BY <1>3, <1>4

\* One exchange of the dialogue: it fails, leads to the next or opens the tunnel.
LEMMA ConverseInv ==
    ASSUME IndInv, Converse
    PROVE  IndInv'
<1> DEFINE left == LeftOver(Exchange, wire)
<1>1. Spent'
  BY TunnelSpent DEF IndInv
<1>2. /\ stage = "dialogue" /\ UNCHANGED world_vars /\ ReadEnds(Exchange, wire)
      /\ IF ~Satisfied(Exchange, wire)
         THEN NoTunnel /\ UNCHANGED <<endpoint, known>>
         ELSE IF step < Len(Dialogue(endpoint.protocol)) THEN Take(step + 1, left)
         ELSE /\ stage' = "open" /\ wire' = left
              /\ UNCHANGED <<endpoint, known, target, step, sealed, age, expires, coming,
                             said, result>>
  BY DEF Converse, Exchange
<1> HIDE DEF left
<1>3. PICK reply \in Replies(endpoint, Exchange.send) : Stream = Before(Exchange) \o reply
  BY <1>2 DEF IndInv, Negotiated
<1>4. /\ reply \in {Granted(Exchange.send), Refused(Exchange.send), Junk, <<>>}
      /\ Exchange.send = "nothing" => reply = <<>>
      /\ Silent => reply = <<>>
  BY <1>2, Conversing, ReplyIs DEF Silent
<1>5. Exchange.send = Dialogue(endpoint.protocol)[step].send
  BY DEF Exchange
<1>6. CASE ~Satisfied(Exchange, wire)
  <2>1. ~Silent
    BY <1>2, <1>6, SilentConversation
  <2> QED
    BY <1>1, <1>2, <1>6, <2>1, NoTunnelInv
<1>7. CASE Satisfied(Exchange, wire) /\ step < Len(Dialogue(endpoint.protocol))
  <2>1. step + 1 \in 1 .. Len(Dialogue(endpoint.protocol))
    BY <1>2, <1>7, Conversing
  <2>2. /\ Exchange.send \notin {"CONNECT", "salt"}
        /\ Dialogue(endpoint.protocol)[step + 1].send = "nothing" <=> Exchange.send = "ask5"
    BY <1>2, <1>5, <1>7, Conversing, DialogueFollows
  <2>3. Exchange \in Exchanges
    BY <1>2, <2>2, Conversing, Sends
  <2>4. left \o coming = Before(Dialogue(endpoint.protocol)[step + 1])
    BY <1>2, <1>3, <1>4, <1>7, <2>2, <2>3, Conversing, ExchangeLeaves DEF Before, left
  <2>5. ~Silent
    BY <1>2, <1>7, SilentConversation, Conversing
  <2>6. left \in Seq(Handshakes)
    BY <1>2, <1>7, Conversing, LeftOverTyped DEF left
  <2> QED
    BY <1>1, <1>2, <1>7, <2>1, <2>4, <2>5, <2>6, Conversing, TakeInv
<1>8. CASE Satisfied(Exchange, wire) /\ ~(step < Len(Dialogue(endpoint.protocol)))
  <2>1. /\ stage' = "open" /\ wire' = left
        /\ UNCHANGED <<own, slot, endpoint, known, target, step, sealed, age, expires, coming,
                       said, result>>
    BY <1>2, <1>8 DEF world_vars
  <2>2. step = Len(Dialogue(endpoint.protocol))
    BY <1>2, <1>8, Conversing
  <2>3. /\ Exchange.send # "ask5"
        /\ Exchange.send = "CONNECT" <=> endpoint.protocol \in {"http", "https"}
        /\ Exchange.send = "salt" <=> endpoint.protocol = "shadowsocks"
    BY <1>2, <1>5, <2>2, Conversing, DialogueFollows
  <2>4. wire' \in Seq(Handshakes) /\ coming' \in Seq(Handshakes)
    BY <1>2, <1>8, <2>1, Conversing, LeftOverTyped DEF left
  <2>5. Exchange \in Exchanges => Stream' = IF Exchange.send = "salt" THEN reply ELSE <<>>
    BY <1>2, <1>3, <1>4, <1>8, <2>1, <2>3, Conversing, ExchangeLeaves DEF Stream, left
  <2>6. Types'
    BY <2>1, <2>4, UnitsOfHandshakes DEF IndInv, Types
  <2>7. Negotiated'
    <3>1. endpoint.protocol \in {"socks4", "socks5", "trojan"} => Stream' = <<>>
      BY <1>2, <2>3, <2>5, Conversing, Sends
    <3> QED
      BY <2>1, <2>4, <3>1 DEF Negotiated
  <2>8. Heard' /\ Judged'
    BY <1>2, <2>1 DEF IndInv, Heard, Judged, Borne, Silent
  <2>9. Silence'
    <3>1. Silent => Exchange \in Exchanges /\ endpoint.protocol = "shadowsocks"
      BY <1>2, SilentConversation DEF Exchanges
    <3>2. Silent => Stream' = <<>>
      BY <1>4, <2>5, <3>1
    <3> QED
      BY <2>1, <3>1, <3>2 DEF Silence, Silent
  <2> QED
    BY <1>1, <2>6, <2>7, <2>8, <2>9 DEF IndInv
<1> QED
  BY <1>6, <1>7, <1>8

\* The two timers of a handshake.
LEMMA ConnectTimesOutInv ==
    ASSUME IndInv, ConnectTimesOut
    PROVE  IndInv'
<1>1. Spent'
  BY TunnelSpent DEF IndInv
<1>2. stage \in {"dial", "dialogue"} /\ UNCHANGED <<world_vars, endpoint, known>>
  BY DEF ConnectTimesOut
<1>3. CASE InnerTimeout <= Patience /\ NoTunnel
  <2>1. ~Silent
    BY <1>3, Limits, ProbeAssumption DEF Silent, ForwarderIsPatient
  <2> QED
    BY <1>1, <1>2, <1>3, <2>1, NoTunnelInv
<1>4. CASE Conclude(Inconclusive)
  BY <1>1, <1>2, <1>4, ConcludeInv, BorneAnyway
<1> QED
  BY <1>3, <1>4 DEF ConnectTimesOut, Patience

\* Whatever is answered is said by a target or by the endpoint itself.
LEMMA AnswersAreSent ==
    ASSUME IndInv, NEW answer \in Carried \cup Forwarded, said' = answer,
           UNCHANGED <<endpoint, own>>
    PROVE  /\ Sent' /\ endpoint.kind \notin {"deaf", "blackhole"}
           /\ answer \in Carried => endpoint.kind \in Posing
           /\ answer.end \in Ends
<1>1. own \in Addresses
  BY DEF IndInv, Types
<1>2. ASSUME NEW from \in {"target", "endpoint"}, NEW code \in Nat,
             NEW exits \in SUBSET (Addresses \cup {Elsewhere, NoAddress}),
             NEW traces \in SUBSET (SUBSET Headers),
             answer \in Responses(from, code, exits, traces)
      PROVE  Sent' /\ answer.end \in Ends
  BY <1>1, <1>2 DEF Responses, Sent
<1>3. \A exit \in {Elsewhere, own} : answer \in Answers(exit) => Sent' /\ answer.end \in Ends
  <2> SUFFICES ASSUME NEW exit \in {Elsewhere, own}, answer \in Answers(exit)
               PROVE  Sent' /\ answer.end \in Ends
    OBVIOUS
  <2>1. {exit} \in SUBSET (Addresses \cup {Elsewhere, NoAddress})
    BY <1>1
  <2> QED
    BY <1>2, <2>1, ProbeAssumption DEF Answers
<1>4. answer \in Pages => Sent' /\ answer.end \in Ends
  <2>1. {NoAddress, Elsewhere, own} \in SUBSET (Addresses \cup {Elsewhere, NoAddress})
    BY <1>1
  <2> QED
    BY <1>2, <2>1 DEF Pages
<1>5. /\ endpoint.kind \notin {"deaf", "blackhole"}
      /\ answer \in Carried => endpoint.kind \in Posing
      /\ \/ answer \in Answers(Elsewhere) \/ answer \in Answers(own) \/ answer \in Pages
         \/ answer \in Responses("endpoint", 400, {NoAddress}, {{}})
         \/ answer \in Responses("endpoint", 407, {NoAddress}, {{}})
  BY DEF Carried, Forwarded, Posing, Tunnels
<1> QED
  BY <1>2, <1>3, <1>4, <1>5

\* The verdict on a response that was sent is borne out by it.
LEMMA ViewBorne ==
    ASSUME IndInv, Sent, ~Silent, endpoint.kind \in Posing
    PROVE  Borne(View)
<1>1. CASE View \in {Failed, Inconclusive}
  BY <1>1, BorneAnyway
<1>2. CASE /\ View = Working(TRUE, classify_anonymity(Echoed))
           /\ said.code = 200 /\ said.exit # NoAddress /\ said.exit # known
  <2> DEFINE shade == classify_anonymity(Echoed)
  <2>1. shade \in {"elite", "anonymous", "transparent", "unknown"}
    BY DEF classify_anonymity
  <2> HIDE DEF shade
  <2>2. said.exit \in Addresses \cup {Elsewhere}
    BY <1>2 DEF Sent
  <2>3. View = [verdict |-> "working", tunneled |-> TRUE, exit |-> said.exit,
                anonymity |-> shade]
    BY <1>2 DEF Working, shade
  <2>4. said.code = 200 /\ said.exit # known
    BY <1>2
  <2> HIDE DEF View
  <2>5. View.exit = said.exit /\ View.verdict = "working" /\ View.tunneled
    BY <2>3
  <2>6. View \in Verdicts /\ View # Failed
    BY <2>1, <2>2, <2>3, Kinds DEF Verdicts
  <2> QED
    BY <2>4, <2>5, <2>6 DEF Borne
<1> QED
  BY <1>1, <1>2 DEF View

\* The first unit of a stream.
LEMMA HeadIsUnit ==
    ASSUME NEW S, NEW s \in Seq(S), s # <<>>
    PROVE  Head(s) \in S /\ Tail(s) \in Seq(S)
  BY HeadTailProperties

\* The request is sent through an open tunnel.
LEMMA SendRequestInv ==
    ASSUME IndInv, SendRequest
    PROVE  IndInv'
<1>1. Spent'
  BY TunnelSpent DEF IndInv
<1>2. /\ stage = "open" /\ UNCHANGED <<own, slot, endpoint, known>>
      /\ UNCHANGED <<world_vars, endpoint, known>>
  BY DEF SendRequest, world_vars
<1>3. /\ wire \in Seq(Handshakes) /\ coming \in Seq(Handshakes)
      /\ said = Unheard /\ sealed = Unsealed
  BY <1>2 DEF IndInv, Negotiated, Heard
<1>4. Silent => wire = <<>> /\ coming = <<>> /\ endpoint.protocol = "shadowsocks"
  BY <1>2, <1>3, EmptyStream DEF IndInv, Silence
<1>5. CASE Holds(wire, "fin") /\ Conclude(Failed)
  <2>1. ~Silent
    BY <1>4, <1>5 DEF Holds
  <2> QED
    BY <1>1, <1>2, <1>5, <2>1, ConcludeInv, BorneAnyway
<1>6. ASSUME NEW end \in Closings, stage' = "read", Hears(Carried, Framed, <<end>>),
             UNCHANGED <<target, step, sealed, age, wire, result>>
      PROVE  IndInv'
  <2>1. ASSUME NEW answer \in Carried, said' = answer,
               coming' = coming \o Framed \o <<answer.end>>
        PROVE  IndInv'
    <3>1. /\ Sent' /\ ~Silent /\ endpoint.kind \in Posing /\ answer.end \in Ends
      BY <1>2, <2>1, AnswersAreSent DEF Silent
    <3>2. coming' \in Seq(Units) /\ wire' \in Seq(Units)
      <4>1. coming \in Seq(Units) /\ wire \in Seq(Units)
        BY <1>3, UnitsOfHandshakes
      <4>2. Framed \in Seq(Units)
        <5>1. <<"salt", "length", "payload">> \in Seq(Units)
          BY DEF Units, Handshakes
        <5>2. <<"response">> \in Seq(Units)
          BY DEF Units, Handshakes
        <5> QED
          BY <5>1, <5>2 DEF Framed
      <4>3. <<answer.end>> \in Seq(Units)
        BY <3>1 DEF Units, Handshakes, Ends
      <4> QED
        BY <1>6, <2>1, <4>1, <4>2, <4>3, ConcatProperties
    <3>3. Types' /\ Negotiated'
      BY <1>2, <1>6, <3>2 DEF IndInv, Types, Negotiated
    <3>4. Heard' /\ Silence'
      BY <1>2, <1>6, <3>1 DEF Heard, Silence, Silent
    <3>5. Judged'
      BY <1>2, <1>6, Kinds DEF IndInv, Judged, Borne
    <3> QED
      BY <1>1, <3>3, <3>4, <3>5 DEF IndInv
  <2>2. CASE coming' \in {coming, coming \o <<end>>} /\ UNCHANGED said
    <3>1. /\ <<end>> \in Seq(Handshakes)
          /\ Silent => <<end>> \in Seq({"fin"}) /\ <<>> \in Seq({"fin"})
      BY <1>6 DEF Handshakes, Closings, Ends, Silent
    <3>2. coming' \in Seq(Handshakes) /\ wire' \in Seq(Handshakes)
      BY <1>3, <1>6, <2>2, <3>1, ConcatProperties
    <3>3. Types' /\ Negotiated'
      BY <1>2, <1>6, <3>2, UnitsOfHandshakes DEF IndInv, Types, Negotiated
    <3>4. Heard'
      BY <1>3, <1>6, <3>2 DEF Heard, Unsealed
    <3>5. Judged'
      BY <1>2, <1>6, <2>2 DEF IndInv, Judged, Borne, Silent
    <3>6. Silence'
      <4>1. Silent => coming' \in Seq({"fin"}) /\ wire' \in Seq({"fin"}) /\ ~sealed'.answer
        <5>1. Silent => coming' \in {<<>>, <<end>>}
          BY <1>4, <2>2, <3>1, ConcatEmptySeq
        <5> QED
          BY <1>3, <1>4, <1>6, <3>1, <5>1 DEF Unsealed
      <4> QED
        BY <1>2, <1>4, <1>6, <4>1 DEF Silence, Silent
    <3> QED
      BY <1>1, <3>3, <3>4, <3>5, <3>6 DEF IndInv
  <2> QED
    BY <1>6, <2>1, <2>2 DEF Hears
<1> QED
  BY <1>5, <1>6 DEF SendRequest

\* What was read until the end of a stream is a response only if one was sent.
LEMMA ReadResponseInv ==
    ASSUME IndInv, ReadResponse
    PROVE  IndInv'
<1>1. Spent'
  BY ReadSpent DEF IndInv
<1>2. /\ stage = "read" /\ endpoint.protocol # "shadowsocks" /\ Conclude(Judge(wire))
      /\ wire # <<>> /\ UNCHANGED <<world_vars, endpoint, known>>
  BY DEF ReadResponse, Holds
<1>3. ~Silent
  BY <1>2 DEF IndInv, Silence
<1>4. Head(wire) = "response" => Sent /\ endpoint.kind \in Posing
  BY <1>2, HeadIsUnit DEF IndInv, Heard, Handshakes
<1>5. Borne(Judge(wire))
  BY <1>3, <1>4, BorneAnyway, ViewBorne DEF Judge
<1> QED
  BY <1>1, <1>2, <1>5, ConcludeInv

\* A response that does not come.
LEMMA ReadTimesOutInv ==
    ASSUME IndInv, ReadTimesOut
    PROVE  IndInv'
<1>1. Spent'
  BY ReadSpent DEF IndInv
<1> QED
  BY <1>1, ConcludeInv, BorneAnyway DEF ReadTimesOut

\* A poll has an answer only if one was sent: nothing a handshake leaves in the
\* stream is taken for the salt or the length of a record.
LEMMA PollSealedInv ==
    ASSUME IndInv, PollSealed
    PROVE  IndInv'
<1> DEFINE salted == ~sealed.salt /\ Head(wire) = "salt"
           rest == IF salted THEN Tail(wire) ELSE wire
           readable == sealed.salt \/ salted
<1>1. Spent'
  BY ReadSpent DEF IndInv
<1>2. /\ stage = "read" /\ endpoint.protocol = "shadowsocks" /\ wire # <<>>
      /\ UNCHANGED <<own, slot, endpoint, known>>
      /\ UNCHANGED <<world_vars, endpoint, known>>
  BY DEF PollSealed, world_vars
<1>3. /\ wire \in Seq(Units) /\ coming \in Seq(Units)
      /\ sealed.answer \in BOOLEAN
  BY DEF IndInv, Types
<1>4. rest \in Seq(Units)
  BY <1>2, <1>3, HeadIsUnit
<1> DEFINE heard == Sent /\ endpoint.kind \in Posing
<1>5. ~heard => /\ wire \in Seq(Handshakes) /\ coming \in Seq(Handshakes)
                /\ rest = wire /\ ~sealed.answer
  <2>1. ~heard => wire \in Seq(Handshakes) /\ coming \in Seq(Handshakes) /\ ~sealed.answer
    BY <1>2 DEF IndInv, Heard
  <2>2. ~heard => Head(wire) # "salt"
    BY <1>2, <2>1, HeadIsUnit DEF Handshakes
  <2> QED
    BY <2>1, <2>2
<1>6. CASE rest # <<>> /\ Head(rest) = "fin"
  <2>1. Conclude(IF sealed.answer THEN View ELSE Inconclusive)
    BY <1>6 DEF PollSealed
  <2>2. Silent => ~sealed.answer
    BY <1>2 DEF IndInv, Silence
  <2>3. Borne(IF sealed.answer THEN View ELSE Inconclusive)
    BY <1>5, <2>2, BorneAnyway, ViewBorne
  <2> QED
    BY <1>1, <1>2, <2>1, <2>3, ConcludeInv
<1>7. CASE ~(rest # <<>> /\ Head(rest) = "fin")
  <2>1. ~Silent
    <3>1. Silent => wire \in Seq({"fin"})
      BY <1>2 DEF IndInv, Silence
    <3>2. Silent => Head(wire) = "fin"
      BY <1>2, <3>1, HeadIsUnit
    <3> QED
      BY <1>2, <1>7, <3>2
  <2>2. CASE Conclude(Failed)
    BY <1>1, <1>2, <2>1, <2>2, ConcludeInv, BorneAnyway
  <2>3. CASE /\ ~(rest # <<>> /\ (~readable \/ Head(rest) # "length"))
             /\ sealed' = [salt |-> readable, answer |-> sealed.answer \/ Len(rest) >= 2]
             /\ wire' = IF Len(rest) >= 2 THEN SubSeq(rest, 3, Len(rest)) ELSE <<>>
             /\ UNCHANGED <<stage, target, step, age, expires, coming, said, result>>
    <3>1. wire' \in Seq(Units)
      <4>1. SubSeq(rest, 3, Len(rest)) \in Seq(Units)
        BY <1>4
      <4>2. <<>> \in Seq(Units)
        OBVIOUS
      <4> QED
        BY <2>3, <4>1, <4>2
    <3>2. sealed' \in [salt : BOOLEAN, answer : BOOLEAN]
      BY <1>3, <2>3 DEF IndInv, Types
    <3>3. Types' /\ Negotiated'
      BY <1>2, <2>3, <3>1, <3>2 DEF IndInv, Types, Negotiated
    <3>4. Heard'
      <4>1. CASE heard
        BY <1>2, <2>3, <4>1 DEF Heard, Sent
      <4>2. CASE ~heard
        <5>1. rest = <<>>
          <6>1. rest # <<>> => Head(rest) \in Handshakes
            BY <1>5, <4>2, HeadIsUnit
          <6>2. "length" \notin Handshakes
            BY DEF Handshakes
          <6>3. rest # <<>> => Head(rest) = "length"
            BY <2>3
          <6> HIDE DEF rest
          <6> QED
            BY <6>1, <6>2, <6>3
        <5>2. wire' = <<>> /\ ~sealed'.answer
          <6>1. ~(Len(rest) >= 2)
            BY <5>1
          <6> HIDE DEF rest, readable
          <6>2. wire' = <<>> /\ sealed'.answer = (sealed.answer \/ Len(rest) >= 2)
            BY <2>3, <6>1
          <6> QED
            BY <1>5, <4>2, <6>1, <6>2
        <5> QED
          BY <1>2, <1>5, <2>3, <4>2, <5>2 DEF Heard
      <4> QED
        BY <4>1, <4>2
    <3>5. Silence' /\ Judged'
      BY <1>2, <2>1, <2>3 DEF IndInv, Silence, Silent, Judged, Borne
    <3> QED
      BY <1>1, <3>3, <3>4, <3>5 DEF IndInv
  <2> QED
    BY <1>7, <2>2, <2>3 DEF PollSealed
<1> QED
  BY <1>6, <1>7

\* A plain request, which no silent endpoint is ever sent.
LEMMA PlainInv ==
    ASSUME IndInv, PlainDial \/ PlainRead \/ PlainTimesOut
    PROVE  IndInv'
<1>1. Spent'
  BY PlainSpent DEF IndInv
<1>2. /\ stage \in {"plain_dial", "plain_read"}
      /\ UNCHANGED <<own, slot, endpoint, known>> /\ UNCHANGED <<world_vars, endpoint, known>>
  BY DEF PlainDial, PlainRead, PlainTimesOut, world_vars
<1>3. ~Silent
  BY <1>2 DEF IndInv, Silence
<1>4. CASE Conclude(Failed)
  BY <1>1, <1>2, <1>3, <1>4, ConcludeInv, BorneAnyway
<1>5. CASE /\ stage = "plain_dial" /\ stage' = "plain_read"
           /\ Hears(Forwarded, <<"response">>, Junk)
           /\ UNCHANGED <<target, step, sealed, age, wire, result>>
  <2>1. /\ wire = <<>> /\ coming = <<>> /\ Junk \in Seq(Handshakes) /\ <<>> \in Seq(Handshakes)
    BY <1>5, HandshakeTuples DEF IndInv, Negotiated
  <2>2. \/ Sent' /\ coming' \in Seq(Units)
        \/ coming' \in {<<>>, Junk}
    <3>1. ASSUME NEW answer \in Forwarded, said' = answer,
                 coming' = coming \o <<"response">> \o <<answer.end>>
          PROVE  Sent' /\ coming' \in Seq(Units)
      <4>1. Sent' /\ answer.end \in Ends
        BY <1>2, <3>1, AnswersAreSent
      <4>2. <<"response">> \in Seq(Units) /\ <<answer.end>> \in Seq(Units) /\ coming \in Seq(Units)
        BY <2>1, <4>1 DEF Units, Handshakes, Ends
      <4>3. coming \o <<"response">> \in Seq(Units)
        BY <4>2, ConcatProperties
      <4> QED
        BY <3>1, <4>1, <4>2, <4>3, ConcatProperties
    <3>2. CASE coming' \in {coming, coming \o Junk}
      BY <2>1, <3>2, ConcatEmptySeq
    <3> QED
      BY <1>5, <3>1, <3>2 DEF Hears
  <2>3. Types'
    <3>1. coming' \in Seq(Units)
      BY <2>1, <2>2, UnitsOfHandshakes
    <3>2. wire' \in Seq(Units)
      BY <1>5 DEF IndInv, Types
    <3> QED
      BY <1>2, <1>5, <3>1, <3>2 DEF IndInv, Types
  <2>4. Negotiated' /\ Heard' /\ Silence'
    BY <1>2, <1>3, <1>5, <2>1, <2>2 DEF Negotiated, Heard, Silence, Silent
  <2>5. Judged'
    BY <1>2, <1>5, Kinds DEF IndInv, Judged, Borne
  <2> QED
    BY <1>1, <2>3, <2>4, <2>5 DEF IndInv
<1>6. CASE PlainRead
  <2> DEFINE answered == /\ Head(wire) = "response" /\ ~Holds(wire, "reset")
                         /\ said.code = 200 /\ said.exit # NoAddress
             working == Working(FALSE, "unknown")
  <2>1. /\ stage = "plain_read" /\ wire # <<>>
        /\ (answered /\ Conclude(working)) \/ Conclude(Failed)
    <3>1. answered => Conclude(working)
      BY <1>6 DEF PlainRead
    <3>2. ~answered => Conclude(Failed)
      BY <1>6 DEF PlainRead
    <3>3. stage = "plain_read" /\ wire # <<>>
      BY <1>6 DEF PlainRead, Holds
    <3> QED
      BY <3>1, <3>2, <3>3, Zenon
  <2>2. CASE answered /\ Conclude(working)
    <3>1. Sent
      BY <2>1, <2>2, HeadIsUnit DEF IndInv, Heard, Handshakes
    <3>2. working = [verdict |-> "working", tunneled |-> FALSE, exit |-> said.exit,
                     anonymity |-> "unknown"]
      BY DEF Working
    <3>3. said.exit \in Addresses \cup {Elsewhere} /\ said.code = 200
      BY <2>2, <3>1 DEF Sent
    <3> HIDE DEF working
    <3>4. /\ working.verdict = "working" /\ working.tunneled = FALSE
          /\ working \in Verdicts /\ working # Failed
      BY <3>2, <3>3, Kinds DEF Verdicts
    <3>5. Borne(working)
      BY <1>3, <3>3, <3>4 DEF Borne
    <3> QED
      BY <1>1, <1>2, <2>1, <2>2, <3>5, ConcludeInv
  <2> QED
    BY <1>4, <2>1, <2>2
<1> QED
  BY <1>4, <1>5, <1>6 DEF PlainDial, PlainTimesOut

\* What arrives changes the place of a unit and not its order.
LEMMA ArriveInv ==
    ASSUME IndInv, Arrive
    PROVE  IndInv'
<1>1. /\ coming # <<>>
      /\ UNCHANGED <<own, slot, endpoint, known, target, stage, step, sealed, age, expires, said,
                     result>>
  BY DEF Arrive, world_vars
<1>2. Spent'
  BY <1>1 DEF IndInv, Spent
<1>3. wire \in Seq(Units) /\ coming \in Seq(Units)
  BY DEF IndInv, Types
<1>4. /\ Stream' = Stream /\ wire' \in Seq(Units) /\ coming' \in Seq(Units)
  BY <1>3, ArriveKeepsStream
<1>5. Types'
  BY <1>1, <1>4 DEF IndInv, Types
<1>6. \A S : wire \in Seq(S) /\ coming \in Seq(S) => wire' \in Seq(S) /\ coming' \in Seq(S)
  BY ArriveKeepsStream
<1>7. Negotiated'
  <2>1. Exchange' = Exchange
    BY <1>1 DEF Exchange
  <2> QED
    BY <1>1, <1>4, <1>6, <2>1 DEF IndInv, Negotiated
<1>8. Heard'
  <2>1. Sent => Sent'
    BY <1>1 DEF Sent
  <2> QED
    BY <1>1, <1>6, <2>1 DEF IndInv, Heard
<1>9. Silence' /\ Judged'
  BY <1>1, <1>4, <1>6 DEF IndInv, Silence, Silent, Judged, Borne
<1> QED
  BY <1>2, <1>5, <1>7, <1>8, <1>9 DEF IndInv

\* Time, and another address of the engine, change nothing of the exchange.
LEMMA OutsideInv ==
    ASSUME IndInv, Tick \/ Renumber \/ UNCHANGED vars
    PROVE  IndInv'
<1>1. /\ UNCHANGED <<endpoint, known, target, stage, step, sealed, wire, coming, said,
                     result>>
      /\ own' \in Addresses
      /\ slot' \in [own : Addresses \cup {NoAddress}, age : 0 .. Ttl]
  <2>1. CASE Renumber \/ UNCHANGED vars
    BY <2>1 DEF Renumber, vars, world_vars, attempt_vars, IndInv, Types
  <2>2. CASE Tick
    <3>1. slot' = [slot EXCEPT !.age = Least(slot.age + 1, Ttl)] /\ slot.age \in 0 .. Ttl
      BY <2>2 DEF Tick, IndInv, Types
    <3>2. Least(slot.age + 1, Ttl) \in 0 .. Ttl
      BY <3>1, ProbeAssumption DEF Least
    <3> QED
      BY <2>2, <3>1, <3>2 DEF Tick, IndInv, Types
  <2> QED
    BY <2>1, <2>2
<1>2. Spent'
  BY TickSpent DEF Renumber, vars, world_vars, attempt_vars, IndInv, Spent
<1>3. Types'
  BY <1>1 DEF IndInv, Types
<1>4. Negotiated'
  <2>1. Exchange' = Exchange /\ Stream' = Stream
    BY <1>1 DEF Exchange, Stream
  <2> QED
    BY <1>1, <2>1 DEF IndInv, Negotiated
<1>5. Heard'
  BY <1>1 DEF IndInv, Heard, Sent
<1>6. Silence'
  <2>1. Stream' = Stream
    BY <1>1 DEF Stream
  <2> QED
    BY <1>1, <2>1 DEF IndInv, Silence, Silent
<1>7. Judged'
  BY <1>1 DEF IndInv, Judged, Borne, Silent
<1> QED
  BY <1>2, <1>3, <1>4, <1>5, <1>6, <1>7 DEF IndInv

\* Before the first probe.
LEMMA InitInv == ProbeInit => IndInv
<1> SUFFICES ASSUME ProbeInit PROVE IndInv
  OBVIOUS
<1>1. Spent
  BY InitSpent
<1>2. Types
  <2>1. 1 \in 1 .. Len(Targets) /\ Ttl \in 0 .. Ttl
    BY ProbeAssumption, EmptySeq
  <2> QED
    BY <2>1 DEF ProbeInit, Types, Unsealed
<1>3. Negotiated /\ Heard /\ Silence
  BY DEF ProbeInit, Negotiated, Heard, Silence
<1>4. Judged
  BY BorneAnyway DEF ProbeInit, Judged
<1> QED
  BY <1>1, <1>2, <1>3, <1>4 DEF IndInv

\* The invariant holds: what the stream holds at each step of a dialogue, what a
\* response says that was sent, and what each verdict rests on.
THEOREM Invariance == ProbeSpec => []IndInv
<1>1. IndInv /\ [ProbeNext]_vars => IndInv'
  BY BeginInv, DialInv, ConverseInv, ConnectTimesOutInv, SendRequestInv, ReadResponseInv,
     PollSealedInv, ReadTimesOutInv, PlainInv, ArriveInv, OutsideInv DEF ProbeNext, ProbeStep
<1> QED
  BY InitInv, <1>1, PTL DEF ProbeSpec

-----------------------------------------------------------------------------
(* What follows from the invariant of the exchange.                        *)

\* The state of a probe keeps its shape, whatever the targets and the endpoints.
THEOREM TypeCorrect == ProbeSpec => []ProbeTypeOK
<1>1. IndInv => ProbeTypeOK
  <2> SUFFICES ASSUME IndInv PROVE ProbeTypeOK
    OBVIOUS
  <2>1. expires \in Nat /\ age \in Nat /\ stage \in {"idle", "resolve", "open"} \cup Waiting
    BY DEF IndInv, Spent, Types
  <2>2. stage = "dialogue" => step \in 1 .. Len(Dialogue(endpoint.protocol))
    BY DEF IndInv, Negotiated
  <2> QED
    BY <2>1, <2>2 DEF IndInv, Types, Judged, Borne, ProbeTypeOK
<1> QED
  BY Invariance, <1>1, PTL

\* What is called working answered with an address, and called a tunnel it is
\* not the address the engine knows for its own, nor a proxy that opens none
\* (View, check_plain_forwarding).
THEOREM WorkingIsProvedAlways == ProbeSpec => []WorkingIsProved
<1>1. IndInv => WorkingIsProved
  BY ProbeAssumption DEF IndInv, Judged, Borne, Verdicts, Posing, WorkingIsProved,
     Failed, Inconclusive, NoResult
<1> QED
  BY Invariance, <1>1, PTL

\* An endpoint that says nothing is never called failed, in whatever phase its
\* silence is found out, as long as the prober's timer for a handshake is shorter
\* than the forwarder's own.
THEOREM SilenceIsNeverBlamed ==
    ASSUME ForwarderIsPatient
    PROVE  ProbeSpec => []SilenceIsNotBlamed
<1>1. IndInv => SilenceIsNotBlamed
  BY DEF IndInv, Judged, Borne, Silent, SilenceIsNotBlamed
<1> QED
  BY Invariance, <1>1, PTL

\* A tunnel negotiated over SOCKS4, SOCKS5 or Trojan is handed over with nothing of
\* the negotiation left in the stream, however it was cut on its way.
THEOREM TargetSpeaksFirst == ProbeSpec => []TheTargetSpeaksFirst
<1>1. IndInv => TheTargetSpeaksFirst
  <2> SUFFICES ASSUME IndInv, stage = "open",
                      endpoint.protocol \notin {"http", "https", "shadowsocks"}
               PROVE  \A unit : ~Holds(Stream, unit)
    BY DEF TheTargetSpeaksFirst, Stream
  <2>1. Stream = <<>>
    BY DEF IndInv, Negotiated, Types, Endpoints, Protocols
  <2> QED
    BY <2>1 DEF Holds
<1> QED
  BY Invariance, <1>1, PTL

-----------------------------------------------------------------------------
(* What a target answered through an honest proxy.                         *)

\* The answer of a target is all there is to read, and while it ends in order no
\* other verdict is reached over it.
Heeded ==
    Honest /\ Answered =>
      /\ stage \in {"idle", "resolve", "read"}
      /\ stage = "read" => Stream = <<"response", said.end>> /\ said.exit = Elsewhere
      /\ said.end = "fin" => result # Failed

\* Nothing was answered before the request.
LEMMA Unanswered ==
    /\ ~(Unheard.from = "target")
    /\ IndInv /\ stage \in {"dial", "dialogue", "open", "plain_dial"} => ~Answered
  BY DEF Unheard, Answered, IndInv, Heard

\* A verdict that an answer does not speak against.
LEMMA ConcludeHeeds ==
    ASSUME IndInv, stage \notin {"idle", "resolve"}, NEW verdict, Conclude(verdict),
           UNCHANGED endpoint, Honest /\ Answered /\ said.end = "fin" => verdict # Failed
    PROVE  Heeded'
<1>1. CASE Attempt(target + 1)
  BY <1>1, Unanswered DEF Attempt, Heeded, Answered
<1>2. CASE result' = verdict /\ stage' = "idle" /\ UNCHANGED said
  BY <1>2 DEF Heeded, Honest, Answered
<1> QED
  BY <1>1, <1>2 DEF Conclude

\* The fall back of a tunnel that never was.
LEMMA NoTunnelHeeds ==
    ASSUME IndInv, stage \in {"dial", "dialogue"}, NoTunnel, UNCHANGED endpoint
    PROVE  Heeded'
<1>1. ~Answered
  BY Unanswered
<1>2. CASE Conclude(Failed)
  BY <1>1, <1>2, ConcludeHeeds
<1>3. CASE UNCHANGED said
  BY <1>1, <1>3 DEF Heeded, Answered
<1> QED
  BY <1>2, <1>3 DEF NoTunnel

\* A probe that begins, and the dialogue of its tunnel.
LEMMA DialogueHeeds ==
    ASSUME IndInv, Heeded,
           \/ Resolve \/ \E e \in Endpoints : Begin(e)
           \/ Dial \/ Converse \/ ConnectTimesOut
    PROVE  Heeded'
<1>1. CASE Resolve \/ \E e \in Endpoints : Begin(e)
  <2>1. CASE Attempt(1)
    BY <2>1, Unanswered DEF Attempt, Heeded, Answered
  <2>2. CASE stage' = "resolve" /\ result' = NoResult
    BY <2>2, Kinds DEF Heeded
  <2>3. \/ stage' = "resolve" /\ result' = NoResult
        \/ Attempt(1)
    <3>1. CASE Resolve
      BY <3>1 DEF Resolve, Resolved, attempt_vars, IndInv, Judged
    <3>2. CASE \E e \in Endpoints : Begin(e)
      BY <3>2 DEF Begin
    <3> QED
      BY <1>1, <3>1, <3>2
  <2> QED
    BY <2>1, <2>2, <2>3
<1>2. CASE Dial \/ Converse \/ ConnectTimesOut
  <2>1. stage \in {"dial", "dialogue"} /\ ~Answered
    BY <1>2, Unanswered DEF Dial, Converse, ConnectTimesOut
  <2>2. \/ NoTunnel /\ UNCHANGED endpoint
        \/ Conclude(Inconclusive) /\ UNCHANGED endpoint
        \/ UNCHANGED said
    BY <1>2 DEF Dial, Converse, ConnectTimesOut, Take
  <2>3. ASSUME UNCHANGED said PROVE Heeded'
    BY <2>1, <2>3 DEF Heeded, Answered
  <2> QED
    BY <2>1, <2>2, <2>3, NoTunnelHeeds, ConcludeHeeds
<1> QED
  BY <1>1, <1>2

\* The request goes out on an empty stream, and its answer is all that comes.
LEMMA SendRequestHeeds ==
    ASSUME IndInv, SendRequest
    PROVE  Heeded'
<1>1. stage = "open" /\ ~Answered /\ UNCHANGED <<own, endpoint>>
  BY Unanswered DEF SendRequest, world_vars
<1>2. CASE Conclude(Failed)
  BY <1>1, <1>2, ConcludeHeeds
<1>3. ASSUME NEW end \in Closings, stage' = "read", Hears(Carried, Framed, <<end>>),
             UNCHANGED <<wire, result>>
      PROVE  Heeded'
  <2>1. CASE UNCHANGED said
    BY <1>1, <2>1 DEF Heeded, Answered
  <2>2. ASSUME NEW answer \in Carried, said' = answer,
               coming' = coming \o Framed \o <<answer.end>>
        PROVE  Heeded'
    <3> SUFFICES ASSUME Honest, Answered'
                 PROVE  /\ stage' = "read" /\ Stream' = <<"response", said'.end>>
                        /\ said'.exit = Elsewhere /\ result' # Failed
      BY <1>1 DEF Heeded, Honest
    <3>1. said' \in Answers(Elsewhere) /\ Framed = <<"response">>
      BY <2>2 DEF Carried, Honest, Framed
    <3>2. said'.exit = Elsewhere
      BY <3>1 DEF Answers, Responses, Answered
    <3>3. wire = <<>> /\ coming = <<>>
      BY <1>1, EmptyStream DEF Honest, IndInv, Types, Negotiated
    <3>4. Stream' = <<"response", said'.end>>
      <4>1. <<"response">> \in Seq({"response"})
        OBVIOUS
      <4>2. <<>> \o <<"response">> = <<"response">>
        BY <4>1, ConcatEmptySeq
      <4>3. coming' = <<"response">> \o <<answer.end>>
        BY <2>2, <3>1, <3>3, <4>2
      <4>4. coming' = <<"response", answer.end>>
        BY <4>3, TupleOfThree
      <4>5. coming' \in Seq({"response", answer.end})
        BY <4>4
      <4> QED
        BY <1>3, <2>2, <3>3, <4>4, <4>5, ConcatEmptySeq DEF Stream
    <3>5. result' # Failed
      BY <1>1, <1>3, Kinds DEF IndInv, Judged
    <3> QED
      BY <1>3, <3>2, <3>4, <3>5
  <2> QED
    BY <1>3, <2>1, <2>2 DEF Hears
<1> QED
  BY <1>2, <1>3 DEF SendRequest

\* The answer that is read is the one that was sent, and its exit is the proxy's.
LEMMA ReadHeeds ==
    ASSUME IndInv, Heeded, ReadResponse \/ ReadTimesOut \/ PollSealed
    PROVE  Heeded'
<1>1. stage = "read" /\ UNCHANGED endpoint
  BY DEF ReadResponse, ReadTimesOut, PollSealed
<1>2. CASE ReadResponse
  <2>1. Conclude(Judge(wire)) /\ wire # <<>>
    BY <1>2 DEF ReadResponse, Holds
  <2>2. Honest /\ Answered /\ said.end = "fin" => Judge(wire) # Failed
    <3> SUFFICES ASSUME Honest, Answered, said.end = "fin" PROVE Judge(wire) # Failed
      OBVIOUS
    <3>1. Stream = <<"response", "fin">> /\ said.exit = Elsewhere /\ said.code = 200
      BY <1>1 DEF Heeded, Answered
    <3>2. Head(wire) = Stream[1]
      <4>1. wire \in Seq(Units) /\ coming \in Seq(Units) /\ wire # <<>>
        BY <2>1 DEF IndInv, Types
      <4>2. Len(wire) \in Nat \ {0} /\ Head(wire) = wire[1]
        BY <4>1, EmptySeq
      <4>3. (wire \o coming)[1] = wire[1]
        BY <4>1, <4>2, ConcatProperties
      <4> QED
        BY <4>2, <4>3 DEF Stream
    <3>3. Judge(wire) = View
      <4>1. wire \in Seq(Units) /\ coming \in Seq(Units)
        BY DEF IndInv, Types
      <4>2. \A i \in 1 .. Len(wire) : i \in 1 .. Len(Stream) /\ wire[i] = Stream[i]
        BY <4>1, ConcatProperties DEF Stream
      <4>3. \A i \in 1 .. Len(Stream) : Stream[i] # "reset"
        BY <3>1
      <4>4. ~Holds(wire, "reset")
        BY <4>2, <4>3 DEF Holds
      <4>5. Head(wire) = "response"
        BY <3>1, <3>2
      <4> QED
        BY <4>4, <4>5 DEF Judge
    <3>4. Elsewhere # NoAddress /\ Elsewhere # known
      BY ProbeAssumption DEF IndInv, Types
    <3>5. View = Working(TRUE, classify_anonymity(Echoed))
      <4>1. said.code # 407 /\ ~(said.code # 200) /\ ~(said.exit = NoAddress \/ said.exit = known)
        BY <3>1, <3>4
      <4> QED
        BY <4>1, Zenon DEF View
    <3>6. View.verdict = "working"
      BY <3>5 DEF Working
    <3> QED
      BY <3>3, <3>6, Kinds
  <2> QED
    BY <1>1, <2>1, <2>2, ConcludeHeeds
<1>3. CASE ReadTimesOut
  BY <1>1, <1>3, Kinds, ConcludeHeeds DEF ReadTimesOut
<1>4. CASE PollSealed
  BY <1>1, <1>4 DEF PollSealed, Heeded, Honest
<1> QED
  BY <1>2, <1>3, <1>4

\* What does not take plain requests answers none.
LEMMA PlainHeeds ==
    ASSUME IndInv, Heeded, PlainDial \/ PlainRead \/ PlainTimesOut
    PROVE  Heeded'
<1>1. stage \in {"plain_dial", "plain_read"} /\ UNCHANGED endpoint
  BY DEF PlainDial, PlainRead, PlainTimesOut
<1>2. ~(Honest /\ Answered)
  BY <1>1 DEF Heeded
<1>3. \/ \E verdict : Conclude(verdict)
      \/ Hears(Forwarded, <<"response">>, Junk)
  BY DEF PlainDial, PlainRead, PlainTimesOut
<1>4. CASE \E verdict : Conclude(verdict)
  BY <1>1, <1>2, <1>4, ConcludeHeeds
<1>5. CASE Hears(Forwarded, <<"response">>, Junk)
  <2>1. Honest => UNCHANGED said
    <3>1. Honest => Forwarded = {}
      BY DEF Honest, Forwarded
    <3> QED
      BY <1>5, <3>1 DEF Hears
  <2> QED
    BY <1>1, <1>2, <2>1 DEF Heeded, Honest, Answered
<1> QED
  BY <1>3, <1>4, <1>5

\* The network and time.
LEMMA OutsideHeeds ==
    ASSUME IndInv, Heeded, Arrive \/ Tick \/ Renumber \/ UNCHANGED vars
    PROVE  Heeded'
<1>1. UNCHANGED <<endpoint, stage, said, result>>
  BY DEF Arrive, Tick, Renumber, vars, attempt_vars
<1>2. Stream' = Stream
  <2>1. CASE Arrive
    BY <2>1, ArriveKeepsStream DEF IndInv, Types
  <2>2. CASE Tick \/ Renumber \/ UNCHANGED vars
    BY <2>2 DEF Tick, Renumber, vars, attempt_vars, Stream
  <2> QED
    BY <2>1, <2>2
<1> QED
  BY <1>1, <1>2 DEF Heeded, Honest, Answered

\* A SOCKS or Trojan proxy that carried the answer of a target is never failed over
\* it, into whatever pieces the network cut the handshake and the answer, unless
\* the stream ends in an error (the connectors read what their replies hold to the
\* last unit, and View compares the exit with the engine's known address only).
THEOREM AnswersCount == ProbeSpec => []TheAnswerCounts
<1>1. ProbeInit => Heeded
  BY Unanswered DEF ProbeInit, Heeded, Answered
<1>2. IndInv /\ Heeded /\ [ProbeNext]_vars => Heeded'
  BY DialogueHeeds, SendRequestHeeds, ReadHeeds, PlainHeeds, OutsideHeeds
     DEF ProbeNext, ProbeStep
<1>3. Heeded => TheAnswerCounts
  BY DEF Heeded, Honest, Answered, TheAnswerCounts
<1> QED
  BY Invariance, <1>1, <1>2, <1>3, PTL DEF ProbeSpec
=============================================================================
