-------------------------- MODULE LocalProxyProofs --------------------------
(***************************************************************************)
(* The failover and the sessions of the local proxy, for any number of     *)
(* requests, clients, policies, attempts and changes of the pool; and what *)
(* a connection is once it is carried, for any budget and any traffic.     *)
(***************************************************************************)
EXTENDS LocalProxy, TunnelPipe, SequenceTheorems, TLAPS

Busy ==
    [stage : {"opening", "carried", "failed", "replacing", "forwarding", "forward_failed"},
     client : Clients, kind : Kinds, first : Ids, proxy : Ids, tried : SUBSET Ids,
     exits : SUBSET ExitsOf(Ids), left : 0 .. MaxAttempts]

Pins == [proxy : Ids, live : BOOLEAN] \cup {Nothing}

Types ==
    /\ working \subseteq known /\ known \subseteq Ids
    /\ active \in known \cup {NoProxy}
    /\ sessions \in [Clients -> Pins]
    /\ slots \in [Policies -> Entries]
    /\ avoided \in [Clients \cup Policies -> SUBSET Ids]
    /\ recent \in Seq(Ids) /\ Len(recent) <= RecentSize
    /\ request \in [Requests -> Busy \cup {Idle}]

\* What a request knows of the proxies it has tried; the dead among them are
\* out of the choice for good.
Sound(rq, usable) ==
    /\ rq.stage = "opening" => rq.left > 0 /\ HostOf[rq.proxy] \notin HostsOf(rq.tried)
    /\ rq.stage = "carried" => rq.proxy \notin Dead
    /\ rq.tried \cap Dead \cap usable = {}
Searches == \A r \in Requests : Sound(request[r], working)

\* No session is on a proxy the request has found dead.
Clear(rq, pins) ==
    \A p \in Dead, c \in Clients :
        p \in rq.tried /\ ~(rq.stage = "failed" /\ rq.proxy = p) => pins[c].proxy # p
Buried == \A r \in Requests : Clear(request[r], sessions)

IndInv == Types /\ Searches /\ Buried

\* Proxies a session may be on after a step.
Pinnable == (Ids \ Dead) \cup working \cup {NoProxy}

LEMMA InitInv == LocalInit => IndInv
<1> SUFFICES ASSUME LocalInit PROVE IndInv
  OBVIOUS
<1>1. Idle.tried = {} /\ Idle.stage = "idle"
  BY DEF Idle
<1>2. Types
  BY LocalAssumption DEF LocalInit, Types, Pins, Entries, Nothing
<1>3. \A r \in Requests : request[r] = Idle
  BY DEF LocalInit
<1>4. Searches /\ Buried
  BY <1>1, <1>3 DEF Searches, Sound, Buried, Clear
<1> QED
  BY <1>2, <1>4 DEF IndInv

-----------------------------------------------------------------------------
(* Requests.                                                               *)

LEMMA BusyIs ==
    ASSUME Types, NEW r \in Requests, request[r].stage # "idle"
    PROVE  request[r] \in Busy
  BY DEF Types, Idle

\* One request moves: the others keep what they know when no dead proxy is
\* taken back and no session is pinned outside Pinnable.
LEMMA OneMoves ==
    ASSUME Types, Searches, Buried, NEW r \in Requests, NEW rq \in Busy \cup {Idle},
           request' = [request EXCEPT ![r] = rq],
           working' \cap Dead \subseteq working,
           Sound(rq, working'), Clear(rq, sessions'),
           \A c \in Clients : sessions'[c].proxy = sessions[c].proxy \/ sessions'[c].proxy \in Pinnable
    PROVE  Searches' /\ Buried'
<1>1. request'[r] = rq /\ \A s \in Requests : s # r => request'[s] = request[s]
  BY DEF Types
<1>2. \A s \in Requests : s # r => Sound(request[s], working')
  BY DEF Searches, Sound
<1>3. Searches'
  BY <1>1, <1>2 DEF Searches
<1>4. ASSUME NEW s \in Requests, s # r
      PROVE  Clear(request[s], sessions')
  <2> SUFFICES ASSUME NEW p \in Dead, NEW c \in Clients, p \in request[s].tried,
                      ~(request[s].stage = "failed" /\ request[s].proxy = p)
               PROVE  sessions'[c].proxy # p
    BY DEF Clear
  <2>1. sessions[c].proxy # p
    BY DEF Buried, Clear
  <2>2. p \notin Pinnable
    BY LocalAssumption DEF Searches, Sound, Pinnable
  <2> QED
    BY <2>1, <2>2
<1>5. Buried'
  BY <1>1, <1>4 DEF Buried
<1> QED
  BY <1>3, <1>5

\* No request moves.
LEMMA NoneMoves ==
    ASSUME Types, Searches, Buried, UNCHANGED request,
           working' \cap Dead \subseteq working,
           \A c \in Clients : sessions'[c].proxy = sessions[c].proxy \/ sessions'[c].proxy = NoProxy
    PROVE  Searches' /\ Buried'
<1>1. \A r \in Requests : Sound(request[r], working')
  BY DEF Searches, Sound
<1>2. NoProxy \notin Dead
  BY LocalAssumption
<1>3. \A r \in Requests : Clear(request[r], sessions')
  BY <1>2 DEF Buried, Clear
<1> QED
  BY <1>1, <1>3 DEF Searches, Buried

\* A request that has tried no more than before, or nothing.
LEMMA StaysClear ==
    ASSUME Types, Buried, Searches, NEW r \in Requests, NEW rq \in Busy \cup {Idle},
           rq.tried = {} \/ (rq.tried = request[r].tried /\ request[r].stage # "failed"),
           \A c \in Clients : sessions'[c].proxy = sessions[c].proxy \/ sessions'[c].proxy \in Pinnable
    PROVE  Clear(rq, sessions')
<1> SUFFICES ASSUME NEW p \in Dead, NEW c \in Clients, p \in rq.tried
             PROVE  sessions'[c].proxy # p
  BY DEF Clear
<1>1. sessions[c].proxy # p
  BY DEF Buried, Clear
<1>2. p \notin Pinnable
  BY LocalAssumption DEF Searches, Sound, Pinnable
<1> QED
  BY <1>1, <1>2

-----------------------------------------------------------------------------
(* Choosing.                                                               *)

LEMMA RememberedType ==
    ASSUME NEW p \in Ids, recent \in Seq(Ids)
    PROVE  Remembered(p) \in Seq(Ids) /\ Len(Remembered(p)) <= RecentSize
<1> DEFINE all == Append(recent, p)
           start == IF Len(all) > RecentSize THEN Len(all) - RecentSize + 1 ELSE 1
<1>1. all \in Seq(Ids) /\ Len(all) \in Nat
  BY AppendProperties, LenProperties
<1>2. start \in Nat \ {0} /\ (IF start <= Len(all) THEN Len(all) - start + 1 ELSE 0) <= RecentSize
  BY <1>1, LocalAssumption
<1>3. \A i \in start .. Len(all) : all[i] \in Ids
  BY <1>1, <1>2, ElementOfSeq
<1>4. Remembered(p) = SubSeq(all, start, Len(all))
  BY DEF Remembered
<1> HIDE DEF all, start
<1> QED
  BY <1>1, <1>2, <1>3, <1>4, SubSeqProperties

LEMMA UsedType ==
    ASSUME Types
    PROVE  Used \subseteq Ids
  BY ElementOfSeq DEF Types, Used

\* A request begins with a proxy, if there is one, and nothing tried.
LEMMA TakeIs ==
    ASSUME Types, NEW r \in Requests, NEW c \in Clients, NEW kind \in Kinds,
           NEW p \in Ids \cup {NoProxy}, NEW used \in SUBSET Ids, Take(r, c, kind, p, used)
    PROVE  \E rq \in Busy \cup {Idle} :
              /\ request' = [request EXCEPT ![r] = rq]
              /\ rq.tried = {} /\ \A usable : Sound(rq, usable)
<1> DEFINE begun(stage) == [stage |-> stage, client |-> c, kind |-> kind, first |-> p,
                            proxy |-> p, tried |-> {}, exits |-> ExitsOf(used),
                            left |-> MaxAttempts]
<1>1. PICK stage \in Serve(kind, p) :
         request' = [request EXCEPT ![r] = IF stage = "idle" THEN Idle ELSE begun(stage)]
  BY DEF Take
<1>2. CASE stage = "idle"
  <2>1. Idle.tried = {} /\ Idle.stage = "idle"
    BY DEF Idle
  <2> QED
    BY <1>1, <1>2, <2>1 DEF Sound
<1>3. CASE stage # "idle"
  <2>1. p \in Ids /\ stage \in {"opening", "forwarding"}
    BY <1>1, <1>3 DEF Serve
  <2>2. ExitsOf(used) \subseteq ExitsOf(Ids)
    BY DEF ExitsOf
  <2>3. begun(stage) \in Busy
    BY <2>1, <2>2, LocalAssumption DEF Busy
  <2>4. begun(stage).tried = {} /\ \A usable : Sound(begun(stage), usable)
    BY <2>1, LocalAssumption DEF Sound, HostsOf
  <2> QED
    BY <1>1, <1>3, <2>3, <2>4
<1> QED
  BY <1>2, <1>3

LEMMA CandidatesAre ==
    ASSUME Types, NEW q \in Policies
    PROVE  /\ Fallback(q) \in Ids \cup {NoProxy}
           /\ \A ids, hosts, exits : BestMatching(ids, hosts, exits, q) \subseteq working
           /\ working \subseteq Ids
  BY LocalAssumption DEF Types, Fallback, BestMatching, BestAvoiding

\* Whatever the choice, what is known of the others is not disturbed.
LEMMA ChoiceInv ==
    ASSUME IndInv, NEW r \in Requests, NEW c \in Clients, NEW kind \in Kinds,
           ProxyFor(r, c, kind)
    PROVE  IndInv'
<1> USE DEF IndInv
<1> DEFINE q == PolicyOf[c]
<1>1. q \in Policies /\ c \in Clients \cup Policies /\ q \in Clients \cup Policies
  BY LocalAssumption
<1>2. Used \subseteq Ids /\ working \subseteq Ids
  BY UsedType, <1>1, CandidatesAre
<1>3. /\ UNCHANGED <<known, working, active>>
      /\ sessions' \in [Clients -> Pins]
      /\ slots' \in [Policies -> Entries]
      /\ avoided' \in [Clients \cup Policies -> SUBSET Ids]
      /\ recent' \in Seq(Ids) /\ Len(recent') <= RecentSize
      /\ \A d \in Clients : sessions'[d].proxy = sessions[d].proxy \/ sessions'[d].proxy \in Pinnable
      /\ \E p \in Ids \cup {NoProxy}, used \in SUBSET Ids : Take(r, c, kind, p, used)
  <2>0. \A p \in Ids : Pinned(p) \in Entries \cap Pins /\ Pinned(p).proxy = p
    BY DEF Pinned, Entries, Pins
  <2>1. Nothing \in Pins /\ Nothing.proxy = NoProxy
    BY DEF Nothing, Pins
  <2>2. CASE StickyProxy(r, c, kind)
    <3> DEFINE others == {sessions[d].proxy : d \in Clients \ {c}} \ {NoProxy}
               found == BestMatching(others \cup avoided[c], HostsOf(others), ExitsOf(others), q)
    <3>1. found \subseteq working
      BY <1>1, CandidatesAre
    <3>2. UNCHANGED <<known, working, active, slots, recent>>
      BY <2>2 DEF StickyProxy, pool_view
    <3>3. CASE Holds(sessions[c], q) /\ Take(r, c, kind, sessions[c].proxy, Used)
               /\ UNCHANGED <<sessions, avoided>>
      <4>1. sessions[c].proxy \in Ids
        BY <3>3 DEF Holds, Types
      <4> QED
        BY <1>2, <3>2, <3>3, <4>1 DEF Types
    <3>4. CASE /\ avoided' = [avoided EXCEPT ![c] = {}]
               /\ \E p \in found : /\ sessions' = [sessions EXCEPT ![c] = Pinned(p)]
                                   /\ Take(r, c, kind, p, Used)
      <4>1. PICK p \in found : /\ sessions' = [sessions EXCEPT ![c] = Pinned(p)]
                               /\ Take(r, c, kind, p, Used)
        BY <3>4
      <4>2. p \in working /\ p \in Ids /\ p \in Pinnable
        BY <1>2, <3>1 DEF Pinnable
      <4>3. sessions' \in [Clients -> Pins]
        BY <2>0, <4>1, <4>2 DEF Types
      <4>4. \A d \in Clients : sessions'[d] = IF d = c THEN Pinned(p) ELSE sessions[d]
        BY <4>1 DEF Types
      <4>5. avoided' \in [Clients \cup Policies -> SUBSET Ids]
        BY <1>1, <3>4 DEF Types
      <4> HIDE DEF found
      <4> QED
        BY <1>2, <2>0, <3>2, <4>1, <4>2, <4>3, <4>4, <4>5 DEF Types
    <3>5. CASE /\ avoided' = [avoided EXCEPT ![c] = {}]
               /\ sessions' = [sessions EXCEPT ![c] = Nothing]
               /\ Take(r, c, kind, Fallback(q), Used)
      <4>1. Fallback(q) \in Ids \cup {NoProxy}
        BY <1>1, CandidatesAre
      <4>2. sessions' \in [Clients -> Pins]
        BY <2>1, <3>5 DEF Types
      <4>3. \A d \in Clients : sessions'[d] = IF d = c THEN Nothing ELSE sessions[d]
        BY <3>5 DEF Types
      <4>4. avoided' \in [Clients \cup Policies -> SUBSET Ids]
        BY <1>1, <3>5 DEF Types
      <4> QED
        BY <1>2, <2>1, <3>2, <3>5, <4>1, <4>2, <4>3, <4>4 DEF Types, Pinnable
    <3> QED
      BY <2>2, <3>3, <3>4, <3>5 DEF StickyProxy
  <2>3. CASE TimedProxy(r, c, kind)
    <3> DEFINE found == BestMatching(Used \cup avoided[q], {}, ExitsOf(Used), q)
    <3>1. found \subseteq working
      BY <1>1, CandidatesAre
    <3>2. UNCHANGED <<known, working, active, sessions>>
      BY <2>3 DEF TimedProxy, pool_view
    <3>3. CASE Holds(slots[q], q) /\ Take(r, c, kind, slots[q].proxy, Used)
               /\ UNCHANGED <<slots, avoided, recent>>
      <4>1. slots[q].proxy \in Ids
        BY <3>3 DEF Holds, Types
      <4> QED
        BY <1>2, <3>2, <3>3, <4>1 DEF Types
    <3>4. CASE /\ avoided' = [avoided EXCEPT ![q] = {}]
               /\ \E p \in found : /\ slots' = [slots EXCEPT ![q] = Pinned(p)]
                                   /\ recent' = Remembered(p)
                                   /\ Take(r, c, kind, p, Used \cup {p})
      <4>1. PICK p \in found : /\ slots' = [slots EXCEPT ![q] = Pinned(p)]
                               /\ recent' = Remembered(p)
                               /\ Take(r, c, kind, p, Used \cup {p})
        BY <3>4
      <4>2. p \in Ids /\ Used \cup {p} \subseteq Ids
        BY <1>2, <3>1
      <4>3. slots' \in [Policies -> Entries]
        BY <1>1, <2>0, <4>1, <4>2 DEF Types
      <4>4. recent' \in Seq(Ids) /\ Len(recent') <= RecentSize
        BY <4>1, <4>2, RememberedType DEF Types
      <4>5. avoided' \in [Clients \cup Policies -> SUBSET Ids]
        BY <1>1, <3>4 DEF Types
      <4> HIDE DEF found
      <4> QED
        BY <3>2, <4>1, <4>2, <4>3, <4>4, <4>5 DEF Types
    <3>5. CASE /\ avoided' = [avoided EXCEPT ![q] = {}]
               /\ Take(r, c, kind, Fallback(q), Used)
               /\ UNCHANGED <<slots, recent>>
      <4>1. Fallback(q) \in Ids \cup {NoProxy}
        BY <1>1, CandidatesAre
      <4>2. avoided' \in [Clients \cup Policies -> SUBSET Ids]
        BY <1>1, <3>5 DEF Types
      <4> QED
        BY <1>2, <3>2, <3>5, <4>1, <4>2 DEF Types
    <3> QED
      BY <2>3, <3>3, <3>4, <3>5 DEF TimedProxy
  <2>4. CASE PerRequestProxy(r, c, kind)
    <3> DEFINE found == BestMatching(Used, {}, ExitsOf(Used), q)
    <3>1. found \subseteq working
      BY <1>1, CandidatesAre
    <3>2. UNCHANGED <<known, working, active, sessions, slots, avoided>>
      BY <2>4 DEF PerRequestProxy, pool_view
    <3>3. CASE \E p \in found : recent' = Remembered(p) /\ Take(r, c, kind, p, Used \cup {p})
      <4>1. PICK p \in found : recent' = Remembered(p) /\ Take(r, c, kind, p, Used \cup {p})
        BY <3>3
      <4>2. p \in Ids /\ Used \cup {p} \subseteq Ids
        BY <1>2, <3>1
      <4>3. recent' \in Seq(Ids) /\ Len(recent') <= RecentSize
        BY <4>1, <4>2, RememberedType DEF Types
      <4> HIDE DEF found
      <4> QED
        BY <3>2, <4>1, <4>2, <4>3 DEF Types
    <3>4. CASE Take(r, c, kind, Fallback(q), Used) /\ UNCHANGED recent
      <4>1. Fallback(q) \in Ids \cup {NoProxy}
        BY <1>1, CandidatesAre
      <4> QED
        BY <1>2, <3>2, <3>4, <4>1 DEF Types
    <3> QED
      BY <2>4, <3>3, <3>4 DEF PerRequestProxy
  <2> QED
    BY <2>2, <2>3, <2>4 DEF ProxyFor
<1>4. PICK rq \in Busy \cup {Idle} :
         /\ request' = [request EXCEPT ![r] = rq]
         /\ rq.tried = {} /\ \A usable : Sound(rq, usable)
  BY <1>3, TakeIs
<1>5. Types'
  BY <1>3, <1>4 DEF Types
<1>6. Clear(rq, sessions')
  BY <1>4 DEF Clear
<1>7. Searches' /\ Buried'
  BY <1>3, <1>4, <1>6, OneMoves
<1> QED
  BY <1>5, <1>7

-----------------------------------------------------------------------------
(* Carrying.                                                               *)

\* A request changes stage, proxy or count and nothing else is touched.
LEMMA GoesOn ==
    ASSUME IndInv, NEW r \in Requests, NEW rq \in Busy \cup {Idle},
           request' = [request EXCEPT ![r] = rq],
           UNCHANGED <<pool_view, slots, avoided, recent>>, sessions' \in [Clients -> Pins],
           \A c \in Clients : sessions'[c].proxy = sessions[c].proxy \/ sessions'[c].proxy \in Pinnable,
           Sound(rq, working),
           rq.tried = {} \/ (rq.tried = request[r].tried /\ request[r].stage # "failed")
    PROVE  IndInv'
<1>1. UNCHANGED <<known, working, active>>
  BY DEF pool_view
<1>2. Types'
  BY <1>1 DEF IndInv, Types
<1>3. Clear(rq, sessions')
  BY StaysClear DEF IndInv
<1>4. Searches' /\ Buried'
  BY <1>1, <1>3, OneMoves DEF IndInv
<1> QED
  BY <1>2, <1>4 DEF IndInv

LEMMA IdleIs == Idle.stage = "idle" /\ Idle.tried = {} /\ \A usable : Sound(Idle, usable)
  BY DEF Idle, Sound

LEMMA ConnectsInv ==
    ASSUME IndInv, NEW r \in Requests, Connects(r) \/ PinSession(r) \/ Forwards(r)
    PROVE  IndInv'
<1>1. CASE Connects(r)
  <2> DEFINE rq == [request[r] EXCEPT !.stage = "carried"]
  <2>1. request[r] \in Busy
    BY <1>1, BusyIs DEF IndInv, Connects, At
  <2>2. rq \in Busy /\ rq.stage = "carried" /\ rq.proxy = request[r].proxy /\ rq.tried = request[r].tried
    BY <2>1 DEF Busy
  <2>3. Sound(rq, working)
    BY <1>1, <2>2 DEF Connects, Sound, IndInv, Searches
  <2>4. /\ request' = [request EXCEPT ![r] = rq] /\ request[r].stage = "opening"
        /\ UNCHANGED <<pool_view, sessions, slots, avoided, recent>>
    BY <1>1 DEF Connects, At
  <2> HIDE DEF rq
  <2> QED
    BY <2>2, <2>3, <2>4, GoesOn DEF IndInv, Types
<1>2. CASE PinSession(r)
  <2> DEFINE c == request[r].client
             p == request[r].proxy
  <2>1. request[r] \in Busy
    BY <1>2, BusyIs DEF IndInv, PinSession, At
  <2>2. c \in Clients /\ p \in Ids \ Dead
    BY <1>2, <2>1 DEF Busy, PinSession, At, IndInv, Searches, Sound
  <2>3. Pinned(p) \in Pins /\ Pinned(p).proxy = p
    BY <2>2 DEF Pinned, Pins
  <2>4. sessions' = [sessions EXCEPT ![c] = Pinned(p)]
    BY <1>2 DEF PinSession
  <2>5. /\ sessions' \in [Clients -> Pins]
        /\ \A d \in Clients : sessions'[d] = IF d = c THEN Pinned(p) ELSE sessions[d]
    BY <2>2, <2>3, <2>4 DEF IndInv, Types
  <2>6. \A d \in Clients : sessions'[d].proxy = sessions[d].proxy \/ sessions'[d].proxy \in Pinnable
    BY <2>2, <2>3, <2>5 DEF Pinnable
  <2>7. request' = [request EXCEPT ![r] = Idle] /\ UNCHANGED <<pool_view, slots, avoided, recent>>
    BY <1>2 DEF PinSession
  <2> QED
    BY <2>5, <2>6, <2>7, IdleIs, GoesOn
<1>3. CASE Forwards(r)
  BY <1>3, IdleIs, GoesOn DEF Forwards, IndInv, Types
<1> QED
  BY <1>1, <1>2, <1>3

\* The failure is noted down by the request and reported to the pool at once.
LEMMA FailsInv ==
    ASSUME IndInv, NEW r \in Requests, ConnectFails(r) \/ ForwardFails(r)
    PROVE  IndInv'
<1> USE DEF IndInv
<1>1. request[r] \in Busy /\ request[r].stage \in {"opening", "forwarding"}
  BY BusyIs DEF ConnectFails, ForwardFails, At
<1>2. /\ working' = working \ {request[r].proxy}
      /\ UNCHANGED <<known, active, sessions, slots, avoided, recent>>
  BY DEF ConnectFails, ForwardFails, ReportFailure
<1>3. PICK rq \in Busy :
         /\ request' = [request EXCEPT ![r] = rq]
         /\ rq.stage \in {"failed", "forward_failed"} /\ rq.proxy = request[r].proxy
         /\ rq.tried \in {request[r].tried, request[r].tried \cup {request[r].proxy}}
         /\ rq.tried # request[r].tried => rq.stage = "failed"
  <2>1. CASE ConnectFails(r)
    <3> DEFINE rq == [request[r] EXCEPT !.stage = "failed", !.left = @ - 1,
                                        !.tried = @ \cup {request[r].proxy}]
    <3>1. request[r].left > 0
      BY <2>1 DEF ConnectFails, At, Searches, Sound
    <3>2. /\ request[r].left - 1 \in 0 .. MaxAttempts
          /\ request[r].tried \cup {request[r].proxy} \in SUBSET Ids
      BY <1>1, <3>1, LocalAssumption DEF Busy
    <3>3. /\ rq \in Busy /\ rq.stage = "failed" /\ rq.proxy = request[r].proxy
          /\ rq.tried = request[r].tried \cup {request[r].proxy}
      BY <1>1, <3>2 DEF Busy
    <3>4. request' = [request EXCEPT ![r] = rq]
      BY <2>1 DEF ConnectFails
    <3> HIDE DEF rq
    <3> QED
      BY <3>3, <3>4
  <2>2. CASE ForwardFails(r)
    <3> DEFINE rq == [request[r] EXCEPT !.stage = "forward_failed"]
    <3>1. /\ rq \in Busy /\ rq.stage = "forward_failed" /\ rq.proxy = request[r].proxy
          /\ rq.tried = request[r].tried
      BY <1>1 DEF Busy
    <3>2. request' = [request EXCEPT ![r] = rq]
      BY <2>2 DEF ForwardFails
    <3> HIDE DEF rq
    <3> QED
      BY <3>1, <3>2
  <2> QED
    BY <2>1, <2>2
<1>4. Types'
  BY <1>2, <1>3 DEF Types
<1>5. Sound(rq, working')
  BY <1>2, <1>3 DEF Searches, Sound
<1>6. Clear(rq, sessions')
  <2> SUFFICES ASSUME NEW p \in Dead, NEW c \in Clients, p \in rq.tried,
                      ~(rq.stage = "failed" /\ rq.proxy = p)
               PROVE  sessions[c].proxy # p
    BY <1>2 DEF Clear
  <2>1. p \in request[r].tried
    BY <1>3
  <2> QED
    BY <1>1, <2>1 DEF Buried, Clear
<1>7. Searches' /\ Buried'
  BY <1>2, <1>3, <1>5, <1>6, OneMoves
<1> QED
  BY <1>4, <1>7

\* The sessions on the proxy are released; it was out of the choice before.
LEMMA ReleaseInv ==
    ASSUME IndInv, NEW r \in Requests, ReleaseThenReplace(r) \/ ReleaseThenRefuse(r)
    PROVE  IndInv'
<1> USE DEF IndInv
<1> DEFINE p == request[r].proxy
<1>1. /\ request[r].stage \in {"failed", "forward_failed"} /\ request[r] \in Busy
      /\ UNCHANGED <<known, working, active, avoided, recent>>
  BY BusyIs DEF ReleaseThenReplace, ReleaseThenRefuse, At, pool_view
<1>2. /\ sessions' = [c \in Clients |-> Released(sessions[c], p)]
      /\ slots' = [q \in Policies |-> IF slots[q].proxy = p THEN [slots[q] EXCEPT !.proxy = NoProxy]
                                      ELSE slots[q]]
  BY DEF ReleaseThenReplace, ReleaseThenRefuse, Release
<1>3. Nothing \in Pins /\ Nothing.proxy = NoProxy
  BY DEF Nothing, Pins
<1>4. \A c \in Clients : /\ sessions'[c] \in Pins
                         /\ sessions'[c].proxy # p
                         /\ \/ sessions'[c].proxy = sessions[c].proxy
                            \/ sessions'[c].proxy = NoProxy
  <2>1. p # NoProxy
    BY <1>1, LocalAssumption DEF Busy
  <2> QED
    BY <1>2, <1>3, <2>1 DEF Released, Types
<1>5. slots' \in [Policies -> Entries]
  BY <1>2 DEF Types, Entries
<1>6. PICK rq \in Busy \cup {Idle} :
         /\ request' = [request EXCEPT ![r] = rq] /\ rq.stage \in {"idle", "replacing"}
         /\ rq.tried \in {{}, request[r].tried}
  <2>1. CASE ReleaseThenReplace(r)
    <3> DEFINE rq == [request[r] EXCEPT !.stage = "replacing"]
    <3>1. rq \in Busy /\ rq.stage = "replacing" /\ rq.tried = request[r].tried
      BY <1>1 DEF Busy
    <3>2. request' = [request EXCEPT ![r] = rq]
      BY <2>1 DEF ReleaseThenReplace
    <3> HIDE DEF rq
    <3> QED
      BY <3>1, <3>2
  <2>2. CASE ReleaseThenRefuse(r)
    BY <2>2, IdleIs DEF ReleaseThenRefuse
  <2> QED
    BY <2>1, <2>2
<1>7. Types'
  BY <1>1, <1>2, <1>4, <1>5, <1>6 DEF Types
<1>8. Sound(rq, working')
  BY <1>1, <1>6 DEF Searches, Sound
<1>9. Clear(rq, sessions')
  <2> SUFFICES ASSUME NEW d \in Dead, NEW c \in Clients, d \in request[r].tried
               PROVE  sessions'[c].proxy # d
    BY <1>6 DEF Clear
  <2>1. CASE d = p
    BY <1>4, <2>1
  <2>2. CASE d # p
    <3>1. sessions[c].proxy # d /\ d # NoProxy
      BY <2>2, LocalAssumption DEF Buried, Clear
    <3> QED
      BY <1>4, <3>1
  <2> QED
    BY <2>1, <2>2
<1>10. \A c \in Clients : sessions'[c].proxy = sessions[c].proxy \/ sessions'[c].proxy \in Pinnable
  BY <1>4 DEF Pinnable
<1>11. Searches' /\ Buried'
  BY <1>1, <1>6, <1>8, <1>9, <1>10, OneMoves
<1> QED
  BY <1>7, <1>11

\* Another server, or none.
LEMMA ReplaceInv ==
    ASSUME IndInv, NEW r \in Requests, Replace(r) \/ GiveUp(r)
    PROVE  IndInv'
<1>1. request[r] \in Busy /\ request[r].stage = "replacing"
  BY BusyIs DEF Replace, GiveUp, At, IndInv
<1>2. UNCHANGED <<pool_view, sessions, slots, avoided, recent>>
  BY DEF Replace, GiveUp
<1>3. \E rq \in Busy \cup {Idle} :
         /\ request' = [request EXCEPT ![r] = rq] /\ Sound(rq, working)
         /\ rq.tried \in {{}, request[r].tried}
  <2>1. CASE Replace(r)
    <3>1. PICK p \in Replacements(r) :
             request' = [request EXCEPT ![r].stage = "opening", ![r].proxy = p]
      BY <2>1 DEF Replace
    <3> DEFINE rq == [request[r] EXCEPT !.stage = "opening", !.proxy = p]
    <3>2. p \in Ids /\ HostOf[p] \notin HostsOf(request[r].tried) /\ request[r].left > 0
      BY <2>1, <3>1 DEF Replacements, BestAvoiding, IndInv, Types, Replace
    <3>3. /\ rq \in Busy /\ rq.stage = "opening" /\ rq.proxy = p
          /\ rq.left = request[r].left /\ rq.tried = request[r].tried
      BY <1>1, <3>2 DEF Busy
    <3>4. Sound(rq, working)
      BY <3>2, <3>3 DEF Sound, IndInv, Searches
    <3>5. request' = [request EXCEPT ![r] = rq]
      BY <3>1
    <3> HIDE DEF rq
    <3> QED
      BY <3>3, <3>4, <3>5
  <2>2. CASE GiveUp(r)
    <3> DEFINE rq == [request[r] EXCEPT !.stage = "forwarding", !.proxy = request[r].first]
    <3>1. request' = [request EXCEPT ![r] = GivenUp(request[r])]
      BY <2>2 DEF GiveUp
    <3>2. CASE GivenUp(request[r]) = Idle
      BY <3>1, <3>2, IdleIs
    <3>3. CASE GivenUp(request[r]) = rq
      <4>1. rq \in Busy /\ rq.stage = "forwarding" /\ rq.tried = request[r].tried
        BY <1>1 DEF Busy
      <4>2. Sound(rq, working)
        BY <4>1 DEF Sound, IndInv, Searches
      <4> HIDE DEF rq
      <4> QED
        BY <3>1, <3>3, <4>1, <4>2
    <3> QED
      BY <3>2, <3>3 DEF GivenUp
  <2> QED
    BY <2>1, <2>2
<1> QED
  BY <1>1, <1>2, <1>3, GoesOn DEF IndInv, Types

-----------------------------------------------------------------------------
(* The operator and the pool.                                              *)

LEMMA EventInv ==
    ASSUME IndInv,
           \/ \E c \in Clients : RotateCredential(CredentialOf[c]) \/ SessionExpires(c)
           \/ \E q \in Policies : RotatePolicy(q) \/ SlotExpires(q)
           \/ \E p \in Ids : PoolChanges(p)
           \/ UNCHANGED local_vars
    PROVE  IndInv'
<1> USE DEF IndInv
<1>1. Nothing \in Pins /\ Nothing \in Entries /\ Nothing.proxy = NoProxy
  BY DEF Nothing, Pins, Entries
<1>2. UNCHANGED request
  BY DEF RotateCredential, SessionExpires, RotatePolicy, SlotExpires, PoolChanges, local_vars
<1>3. /\ sessions' \in [Clients -> Pins]
      /\ \A c \in Clients : sessions'[c].proxy = sessions[c].proxy \/ sessions'[c].proxy = NoProxy
      /\ slots' \in [Policies -> Entries]
      /\ avoided' \in [Clients \cup Policies -> SUBSET Ids]
      /\ UNCHANGED recent
      /\ working' \subseteq known' /\ known' \subseteq Ids
      /\ active' \in known' \cup {NoProxy}
      /\ working' \cap Dead \subseteq working
  <2>1. CASE \E c \in Clients : RotateCredential(CredentialOf[c])
    <3>1. PICK b \in Clients : RotateCredential(CredentialOf[b])
      BY <2>1
    <3>2. PICK held \in SUBSET {c \in Clients : sessions[c] # Nothing} :
             /\ sessions' = [c \in Clients |-> IF c \in held THEN Nothing ELSE sessions[c]]
             /\ avoided' = [k \in DOMAIN avoided |->
                              IF k \in held THEN avoided[k] \cup {sessions[k].proxy} ELSE avoided[k]]
      <4>1. {c \in Clients : CredentialOf[c] = CredentialOf[b] /\ sessions[c] # Nothing}
               \in SUBSET {c \in Clients : sessions[c] # Nothing}
        OBVIOUS
      <4> QED
        BY <3>1, <4>1 DEF RotateCredential
    <3>3. UNCHANGED <<known, working, active, slots, recent>>
      BY <3>1 DEF RotateCredential, pool_view
    <3>4. \A c \in held : sessions[c].proxy \in Ids
      BY <3>2 DEF Types, Pins
    <3>5. avoided' \in [Clients \cup Policies -> SUBSET Ids]
      BY <3>2, <3>4 DEF Types
    <3> QED
      BY <1>1, <3>2, <3>3, <3>5 DEF Types
  <2>2. CASE \E c \in Clients : SessionExpires(c)
    <3>1. PICK c \in Clients : /\ sessions[c].live
                               /\ sessions' = [sessions EXCEPT ![c].live = FALSE]
                               /\ UNCHANGED <<known, working, active, slots, avoided, recent>>
      BY <2>2 DEF SessionExpires, pool_view
    <3>2. sessions[c] \in [proxy : Ids, live : BOOLEAN]
      BY <3>1 DEF Types, Pins, Nothing
    <3>3. [sessions[c] EXCEPT !.live = FALSE] \in Pins
          /\ [sessions[c] EXCEPT !.live = FALSE].proxy = sessions[c].proxy
      BY <3>2 DEF Pins
    <3>4. sessions' = [sessions EXCEPT ![c] = [sessions[c] EXCEPT !.live = FALSE]]
      BY <3>1
    <3> QED
      BY <3>1, <3>3, <3>4 DEF Types
  <2>3. CASE \E q \in Policies : RotatePolicy(q) \/ SlotExpires(q)
    <3>1. PICK q \in Policies : RotatePolicy(q) \/ SlotExpires(q)
      BY <2>3
    <3>2. UNCHANGED <<known, working, active, sessions, recent>>
      BY <3>1 DEF RotatePolicy, SlotExpires, pool_view
    <3>3. slots' \in [Policies -> Entries]
      <4>1. [slots[q] EXCEPT !.live = FALSE] \in Entries
        BY DEF Types, Entries
      <4>2. \/ slots' = [slots EXCEPT ![q] = Nothing]
            \/ slots' = [slots EXCEPT ![q] = [slots[q] EXCEPT !.live = FALSE]]
        BY <3>1 DEF RotatePolicy, SlotExpires
      <4> QED
        BY <1>1, <4>1, <4>2 DEF Types
    <3>4. avoided' \in [Clients \cup Policies -> SUBSET Ids]
      <4>1. slots[q].proxy \in Ids \cup {NoProxy}
        BY DEF Types, Entries
      <4>2. avoided[q] \cup ({slots[q].proxy} \ {NoProxy}) \in SUBSET Ids
        BY <4>1 DEF Types
      <4> QED
        BY <3>1, <4>2 DEF RotatePolicy, SlotExpires, Types
    <3> QED
      BY <3>2, <3>3, <3>4 DEF Types
  <2>4. CASE \E p \in Ids : PoolChanges(p)
    BY <2>4 DEF PoolChanges, Types
  <2>5. CASE UNCHANGED local_vars
    BY <2>5 DEF local_vars, Types
  <2> QED
    BY <2>1, <2>2, <2>3, <2>4, <2>5
<1>4. Types'
  BY <1>2, <1>3 DEF Types
<1>5. Searches' /\ Buried'
  BY <1>2, <1>3, NoneMoves
<1> QED
  BY <1>4, <1>5

-----------------------------------------------------------------------------
(* Theorems.                                                               *)

\* The invariant the other theorems rest on (local_proxy.rs: the choices,
\* open_tunnel, record_failure and the rotations).
THEOREM Invariance == LocalSpec => []IndInv
<1>1. IndInv /\ [LocalNext]_local_vars => IndInv'
  <2> SUFFICES ASSUME IndInv, [LocalNext]_local_vars
               PROVE  IndInv'
    OBVIOUS
  <2>1. CASE \E r \in Requests, c \in Clients, kind \in Kinds : ProxyFor(r, c, kind)
    BY <2>1, ChoiceInv
  <2>2. CASE \E r \in Requests : Carry(r)
    <3>1. PICK r \in Requests : Carry(r)
      BY <2>2
    <3> QED
      BY <3>1, ConnectsInv, FailsInv, ReleaseInv, ReplaceInv DEF Carry
  <2>3. CASE \/ \E c \in Clients : RotateCredential(CredentialOf[c]) \/ SessionExpires(c)
             \/ \E q \in Policies : RotatePolicy(q) \/ SlotExpires(q)
             \/ \E p \in Ids : PoolChanges(p)
             \/ UNCHANGED local_vars
    BY <2>3, EventInv
  <2> QED
    BY <2>1, <2>2, <2>3 DEF LocalNext
<1> QED
  BY <1>1, InitInv, PTL DEF LocalSpec

\* The shape of the state; the used proxies never outgrow their ring and a
\* rotation never avoids a proxy that is none.
THEOREM TypeCorrect == LocalSpec => []LocalTypeOK
<1>1. IndInv => LocalTypeOK
  <2> SUFFICES ASSUME IndInv PROVE LocalTypeOK
    OBVIOUS
  <2>1. Nothing \in Entries
    BY DEF Entries, Nothing
  <2>2. sessions \in [Clients -> Entries]
    <3>1. Pins \subseteq Entries
      BY <2>1 DEF Pins, Entries
    <3> QED
      BY <3>1 DEF IndInv, Types
  <2>3. \A r \in Requests : request[r] # Idle => request[r] \in Busy
    BY DEF IndInv, Types
  <2>4. \A r \in Requests : request[r] # Idle =>
           /\ request[r].client \in Clients /\ request[r].proxy \in Ids
           /\ request[r].first \in Ids /\ request[r].tried \subseteq Ids
           /\ request[r].left \in 0 .. MaxAttempts
    BY <2>3 DEF Busy
  <2> QED
    BY <2>2, <2>4 DEF IndInv, Types, LocalTypeOK
<1> QED
  BY <1>1, Invariance, PTL

\* A request never goes back to a server that failed it, under whatever name
\* the pool lists it (open_tunnel with best_avoiding).
THEOREM ServersAreNotRetried == LocalSpec => []AnotherServerEachTime
<1>1. IndInv => AnotherServerEachTime
  BY DEF IndInv, Searches, Sound, AnotherServerEachTime, At
<1> QED
  BY <1>1, Invariance, PTL

\* No session is pinned to a proxy that was found dead, nor pinned to it again
\* (record_failure tells the pool before it releases the sessions).
THEOREM TheDeadAreLetGo == LocalSpec => []NoSessionOnADeadProxy
<1>1. IndInv => NoSessionOnADeadProxy
  BY DEF IndInv, Buried, Clear, NoSessionOnADeadProxy, At
<1> QED
  BY <1>1, Invariance, PTL

-----------------------------------------------------------------------------
(* What the policy of a client allows.                                     *)

\* A request starts from a proxy the policy of its client allows, and forwards
\* through no other.
Permitted(rq) ==
    rq # Idle => /\ rq.first \in Allowed[PolicyOf[rq.client]]
                 /\ rq.stage = "forwarding" => rq.proxy = rq.first
Policed == \A r \in Requests : Permitted(request[r])

\* Whatever the rotation and whatever a failover pinned, a request is given a
\* proxy of the policy, or none.
LEMMA ChosenIsAllowed ==
    ASSUME NEW r \in Requests, NEW c \in Clients, NEW kind \in Kinds, ProxyFor(r, c, kind)
    PROVE  \E p \in Allowed[PolicyOf[c]] \cup {NoProxy} : \E used : Take(r, c, kind, p, used)
<1> DEFINE q == PolicyOf[c]
<1>1. Fallback(q) \in Allowed[q] \cup {NoProxy}
  BY DEF Fallback
<1>2. \A ids, hosts, exits : BestMatching(ids, hosts, exits, q) \subseteq Allowed[q] \cap working
  BY DEF BestMatching, BestAvoiding
<1>3. CASE StickyProxy(r, c, kind)
  <2> DEFINE others == {sessions[d].proxy : d \in Clients \ {c}} \ {NoProxy}
             found == BestMatching(others \cup avoided[c], HostsOf(others), ExitsOf(others), q)
  <2>1. \/ Holds(sessions[c], q) /\ Take(r, c, kind, sessions[c].proxy, Used)
        \/ \E p \in found : Take(r, c, kind, p, Used)
        \/ Take(r, c, kind, Fallback(q), Used)
    BY <1>3 DEF StickyProxy
  <2>2. found \subseteq Allowed[q]
    BY <1>2
  <2> HIDE DEF found
  <2> QED
    BY <1>1, <2>1, <2>2 DEF Holds
<1>4. CASE TimedProxy(r, c, kind)
  <2> DEFINE found == BestMatching(Used \cup avoided[q], {}, ExitsOf(Used), q)
  <2>1. \/ Holds(slots[q], q) /\ Take(r, c, kind, slots[q].proxy, Used)
        \/ \E p \in found : Take(r, c, kind, p, Used \cup {p})
        \/ Take(r, c, kind, Fallback(q), Used)
    BY <1>4 DEF TimedProxy
  <2>2. found \subseteq Allowed[q] \cap working
    BY <1>2
  <2> HIDE DEF found
  <2> QED
    BY <1>1, <2>1, <2>2 DEF Holds
<1>5. CASE PerRequestProxy(r, c, kind)
  <2> DEFINE found == BestMatching(Used, {}, ExitsOf(Used), q)
  <2>1. \/ \E p \in found : Take(r, c, kind, p, Used \cup {p})
        \/ Take(r, c, kind, Fallback(q), Used)
    BY <1>5 DEF PerRequestProxy
  <2>2. found \subseteq Allowed[q] \cap working
    BY <1>2
  <2> HIDE DEF found
  <2> QED
    BY <1>1, <2>1, <2>2
<1> QED
  BY <1>3, <1>4, <1>5 DEF ProxyFor

\* One request moves, and stays permitted.
LEMMA OnePermitted ==
    ASSUME Types, Policed, NEW r \in Requests, NEW rq, Permitted(rq),
           request' = [request EXCEPT ![r] = rq]
    PROVE  Policed'
<1>1. \A s \in Requests : request'[s] = IF s = r THEN rq ELSE request[s]
  BY DEF Types
<1>2. \A s \in Requests : Permitted(request'[s])
  BY <1>1 DEF Policed
<1> QED
  BY <1>2 DEF Policed, Permitted

\* A request that begins.
LEMMA ChoicePolices ==
    ASSUME Types, Policed, NEW r \in Requests, NEW c \in Clients, NEW kind \in Kinds,
           ProxyFor(r, c, kind)
    PROVE  Policed'
<1>0. PICK p \in Allowed[PolicyOf[c]] \cup {NoProxy} : \E used : Take(r, c, kind, p, used)
  BY ChosenIsAllowed
<1>1. PICK used : Take(r, c, kind, p, used)
  BY <1>0
<1> DEFINE begun(stage) == [stage |-> stage, client |-> c, kind |-> kind, first |-> p,
                            proxy |-> p, tried |-> {}, exits |-> ExitsOf(used),
                            left |-> MaxAttempts]
<1>2. PICK stage \in Serve(kind, p) :
         request' = [request EXCEPT ![r] = IF stage = "idle" THEN Idle ELSE begun(stage)]
  BY <1>1 DEF Take
<1>3. CASE stage = "idle"
  BY <1>2, <1>3, OnePermitted DEF Permitted
<1>4. CASE stage # "idle"
  <2>1. p \in Allowed[PolicyOf[c]]
    BY <1>0, <1>2, <1>4 DEF Serve
  <2>2. begun(stage).first = p /\ begun(stage).proxy = p /\ begun(stage).client = c
    OBVIOUS
  <2>3. Permitted(begun(stage))
    BY <2>1, <2>2 DEF Permitted
  <2>4. request' = [request EXCEPT ![r] = begun(stage)]
    BY <1>2, <1>4
  <2> HIDE DEF begun
  <2> QED
    BY <2>3, <2>4, OnePermitted
<1> QED
  BY <1>3, <1>4

\* A failover changes the proxy of a request and never what it began with; a
\* request that gives the tunnel up goes back to that.
LEMMA CarryPolices ==
    ASSUME Types, Policed, NEW r \in Requests, Carry(r)
    PROVE  Policed'
<1>1. request[r] \in Busy
  BY BusyIs DEF Carry, Connects, PinSession, ConnectFails, ReleaseThenReplace, Replace, GiveUp,
                Forwards, ForwardFails, ReleaseThenRefuse, At
<1>2. request[r] # Idle
  BY <1>1 DEF Busy, Idle
<1>3. request[r].first \in Allowed[PolicyOf[request[r].client]]
  BY <1>2 DEF Policed, Permitted
<1>4. Permitted(Idle)
  BY DEF Permitted
<1>5. CASE Connects(r)
  <2> DEFINE rq == [request[r] EXCEPT !.stage = "carried"]
  <2>1. Permitted(rq) /\ request' = [request EXCEPT ![r] = rq]
    BY <1>1, <1>3, <1>5 DEF Connects, Permitted, Busy
  <2> QED
    BY <2>1, OnePermitted
<1>6. CASE PinSession(r) \/ Forwards(r) \/ ReleaseThenRefuse(r)
  <2>1. request' = [request EXCEPT ![r] = Idle]
    BY <1>6 DEF PinSession, Forwards, ReleaseThenRefuse
  <2> QED
    BY <1>4, <2>1, OnePermitted
<1>7. CASE ConnectFails(r)
  <2> DEFINE rq == [request[r] EXCEPT !.stage = "failed", !.left = @ - 1,
                                      !.tried = @ \cup {request[r].proxy}]
  <2>1. Permitted(rq) /\ request' = [request EXCEPT ![r] = rq]
    BY <1>1, <1>3, <1>7 DEF ConnectFails, Permitted, Busy
  <2> QED
    BY <2>1, OnePermitted
<1>8. CASE ReleaseThenReplace(r)
  <2> DEFINE rq == [request[r] EXCEPT !.stage = "replacing"]
  <2>1. Permitted(rq) /\ request' = [request EXCEPT ![r] = rq]
    BY <1>1, <1>3, <1>8 DEF ReleaseThenReplace, Permitted, Busy
  <2> QED
    BY <2>1, OnePermitted
<1>9. CASE Replace(r)
  <2>1. PICK p : request' = [request EXCEPT ![r].stage = "opening", ![r].proxy = p]
    BY <1>9 DEF Replace
  <2> DEFINE rq == [request[r] EXCEPT !.stage = "opening", !.proxy = p]
  <2>2. Permitted(rq) /\ request' = [request EXCEPT ![r] = rq]
    BY <1>1, <1>3, <2>1 DEF Permitted, Busy
  <2> QED
    BY <2>2, OnePermitted
<1>10. CASE GiveUp(r)
  <2> DEFINE rq == [request[r] EXCEPT !.stage = "forwarding", !.proxy = request[r].first]
  <2>1. GivenUp(request[r]) \in {rq, Idle}
    BY DEF GivenUp
  <2>2. Permitted(rq)
    BY <1>1, <1>3 DEF Permitted, Busy
  <2>3. request' = [request EXCEPT ![r] = GivenUp(request[r])]
    BY <1>10 DEF GiveUp
  <2> QED
    BY <1>4, <2>1, <2>2, <2>3, OnePermitted
<1>11. CASE ForwardFails(r)
  <2> DEFINE rq == [request[r] EXCEPT !.stage = "forward_failed"]
  <2>1. Permitted(rq) /\ request' = [request EXCEPT ![r] = rq]
    BY <1>1, <1>3, <1>11 DEF ForwardFails, Permitted, Busy
  <2> QED
    BY <2>1, OnePermitted
<1> QED
  BY <1>5, <1>6, <1>7, <1>8, <1>9, <1>10, <1>11 DEF Carry

\* No request begins with a proxy its client's policy refuses, nor falls back to
\* one, whatever sessions a failover that knows no policy has pinned (proxy_for
\* checks the entry it finds, serve_request goes back to the proxy it was given).
THEOREM TheFirstIsAllowed == LocalSpec => []TheFirstChoiceIsAllowed
<1>1. LocalInit => Policed
  BY DEF LocalInit, Policed, Permitted
<1>2. IndInv /\ Policed /\ [LocalNext]_local_vars => Policed'
  <2> SUFFICES ASSUME IndInv, Policed, [LocalNext]_local_vars PROVE Policed'
    OBVIOUS
  <2>1. Types
    BY DEF IndInv
  <2>2. CASE \E r \in Requests, c \in Clients, kind \in Kinds : ProxyFor(r, c, kind)
    BY <2>1, <2>2, ChoicePolices
  <2>3. CASE \E r \in Requests : Carry(r)
    BY <2>1, <2>3, CarryPolices
  <2>4. ASSUME UNCHANGED request PROVE Policed'
    BY <2>4 DEF Policed, Permitted
  <2>5. CASE \/ \E c \in Clients : RotateCredential(CredentialOf[c]) \/ SessionExpires(c)
             \/ \E q \in Policies : RotatePolicy(q) \/ SlotExpires(q)
             \/ \E p \in Ids : PoolChanges(p)
             \/ UNCHANGED local_vars
    <3>1. UNCHANGED request
      BY <2>5 DEF RotateCredential, SessionExpires, RotatePolicy, SlotExpires, PoolChanges,
                  local_vars
    <3> QED
      BY <2>4, <3>1
  <2> QED
    BY <2>2, <2>3, <2>5 DEF LocalNext
<1>3. IndInv /\ Policed => TheFirstChoiceIsAllowed
  BY DEF Policed, Permitted, TheFirstChoiceIsAllowed, At
<1> QED
  BY <1>1, <1>2, <1>3, Invariance, PTL DEF LocalSpec

-----------------------------------------------------------------------------
(* A connection once it is carried.                                        *)

\* What a peer has sent and not seen read is part of what it may send.
Delivered == \A d \in Directions : waiting[d] + unsent[d] <= Chunks

\* The watchdog blames from its own stage, and no other task does.
Blaming == blamed => watchdog \in {"blaming", "gone"}

\* Until the budget is over the watchdog of a proxied connection sleeps on the
\* sender, and a task has ended for no other reason than a peer that left.
Patience ==
    proxied =>
      /\ watchdog # "none"
      /\ clock < Budget => /\ watchdog = "asleep" /\ cancel = "held"
                           /\ \A d \in Directions : mover[d] = "ended" =>
                                \E e \in Directions : peer[e] = "closed"

TunnelInv == TunnelTypeOK /\ Delivered /\ Blaming /\ Patience

\* The target answered while the watchdog slept.
Answered == spoke["down"] /\ ~blamed /\ watchdog \in {"asleep", "gone"}

\* A connection that starts.
LEMMA TunnelInitInv == TunnelInit => TunnelInv
<1> SUFFICES ASSUME TunnelInit PROVE TunnelInv
  OBVIOUS
<1>1. Chunks \in Nat /\ 0 \in 0 .. Chunks /\ Chunks \in 0 .. Chunks /\ 0 \in 0 .. Horizon
  BY TunnelAssumption
<1>2. TunnelTypeOK
  BY <1>1 DEF TunnelInit, TunnelTypeOK
<1>3. Delivered
  BY <1>1 DEF TunnelInit, Delivered
<1> QED
  BY <1>2, <1>3 DEF TunnelInit, TunnelInv, Blaming, Patience

\* What a peer or a task of a direction does cuts nothing before its time.
LEMMA DirectionPatience ==
    ASSUME TunnelInv, NEW d \in Directions, Send(d) \/ Leave(d) \/ Move(d) \/ End(d)
    PROVE  Patience'
<1>1. /\ peer \in [Directions -> {"open", "closed"}]
      /\ mover \in [Directions -> {"running", "ended"}]
      /\ clock \in Nat /\ Budget \in Nat /\ Opposite(d) \in Directions
  BY TunnelAssumption DEF TunnelInv, TunnelTypeOK, Opposite, Directions
<1>2. CASE Send(d)
  BY <1>2 DEF Send, TunnelInv, Patience
<1>3. CASE Leave(d)
  BY <1>1, <1>3 DEF Leave, TunnelInv, Patience
<1>4. CASE Move(d)
  BY <1>1, <1>4 DEF Move, TunnelInv, Patience
<1>5. CASE End(d)
  BY <1>1, <1>5 DEF End, TimedOut, Cancelled, TunnelInv, Patience
<1> QED
  BY <1>2, <1>3, <1>4, <1>5

\* The peers and the tasks of the two directions.
LEMMA DirectionInv ==
    ASSUME TunnelInv, NEW d \in Directions, Send(d) \/ Leave(d) \/ Move(d) \/ End(d)
    PROVE  TunnelInv'
<1>1. /\ waiting[d] \in 0 .. Chunks /\ unsent[d] \in 0 .. Chunks
      /\ waiting[d] + unsent[d] <= Chunks /\ Chunks \in Nat
  BY TunnelAssumption DEF TunnelInv, TunnelTypeOK, Delivered
<1>2. CASE Send(d)
  <2>1. waiting[d] + 1 \in 0 .. Chunks /\ unsent[d] - 1 \in 0 .. Chunks
    BY <1>1, <1>2 DEF Send
  <2>2. TunnelTypeOK'
    BY <1>2, <2>1 DEF Send, TunnelInv, TunnelTypeOK
  <2>3. Delivered'
    BY <1>1, <1>2 DEF Send, TunnelInv, TunnelTypeOK, Delivered
  <2> QED
    BY <1>2, <2>2, <2>3, DirectionPatience DEF Send, TunnelInv, Blaming
<1>3. CASE Leave(d)
  BY <1>3, DirectionPatience DEF Leave, TunnelInv, TunnelTypeOK, Delivered, Blaming
<1>4. CASE Move(d)
  <2>1. waiting[d] - 1 \in 0 .. Chunks
    BY <1>1, <1>4 DEF Move
  <2>2. TunnelTypeOK'
    BY <1>4, <2>1 DEF Move, TunnelInv, TunnelTypeOK
  <2>3. Delivered'
    BY <1>1, <1>4 DEF Move, TunnelInv, TunnelTypeOK, Delivered
  <2> QED
    BY <1>4, <2>2, <2>3, DirectionPatience DEF Move, TunnelInv, Blaming
<1>5. CASE End(d)
  BY <1>5, DirectionPatience DEF End, TunnelInv, TunnelTypeOK, Delivered, Blaming
<1> QED
  BY <1>2, <1>3, <1>4, <1>5

\* The watchdog acts once the budget is over, and time only ends it.
LEMMA WatchdogPatience ==
    ASSUME TunnelInv, Watchdog \/ Tick \/ UNCHANGED tunnel_vars
    PROVE  Patience'
<1>1. clock \in Nat /\ Budget \in Nat
  BY TunnelAssumption DEF TunnelInv, TunnelTypeOK
<1>2. CASE ReturnFromPipe
  BY <1>2 DEF ReturnFromPipe, TunnelInv, Patience
<1>3. CASE WatchdogWakes
  BY <1>1, <1>3 DEF WatchdogWakes, TunnelInv, Patience
<1>4. CASE WatchdogBlames
  BY <1>4 DEF WatchdogBlames, TunnelInv, Patience
<1>5. CASE WatchdogCancels
  BY <1>5 DEF WatchdogCancels, TunnelInv, Patience
<1>6. CASE Tick
  BY <1>1, <1>6 DEF Tick, TunnelInv, Patience
<1>7. CASE UNCHANGED tunnel_vars
  BY <1>7 DEF tunnel_vars, TunnelInv, Patience
<1> QED
  BY <1>2, <1>3, <1>4, <1>5, <1>6, <1>7 DEF Watchdog

\* The watchdog and time.
LEMMA WatchdogInv ==
    ASSUME TunnelInv, Watchdog \/ Tick \/ UNCHANGED tunnel_vars
    PROVE  TunnelInv'
<1>1. CASE Watchdog
  <2>1. UNCHANGED <<proxied, clock, peer, unsent, waiting, mover, first, spoke>>
    BY <1>1 DEF Watchdog, ReturnFromPipe, WatchdogWakes, WatchdogBlames, WatchdogCancels
  <2>2. /\ watchdog' \in {"none", "asleep", "blaming", "gone"}
        /\ cancel' \in {"held", "sent", "dropped"} /\ blamed' \in BOOLEAN
        /\ Blaming'
    <3>1. CASE ReturnFromPipe
      BY <3>1 DEF ReturnFromPipe, TunnelInv, TunnelTypeOK, Blaming
    <3>2. CASE WatchdogWakes
      <4>1. ~blamed /\ UNCHANGED blamed
        BY <3>2 DEF WatchdogWakes, TunnelInv, Blaming
      <4>2. \/ watchdog' = "gone" /\ cancel' = "dropped"
            \/ watchdog' = "blaming" /\ UNCHANGED cancel
        BY <3>2 DEF WatchdogWakes
      <4> QED
        BY <4>1, <4>2 DEF TunnelInv, TunnelTypeOK, Blaming
    <3>3. CASE WatchdogBlames \/ WatchdogCancels
      BY <3>3 DEF WatchdogBlames, WatchdogCancels, TunnelInv, TunnelTypeOK, Blaming
    <3> QED
      BY <1>1, <3>1, <3>2, <3>3 DEF Watchdog
  <2> QED
    BY <2>1, <2>2, WatchdogPatience DEF TunnelInv, TunnelTypeOK, Delivered
<1>2. CASE Tick
  BY <1>2, TunnelAssumption, WatchdogPatience DEF Tick, TunnelInv, TunnelTypeOK, Delivered, Blaming
<1>3. CASE UNCHANGED tunnel_vars
  BY <1>3, WatchdogPatience DEF tunnel_vars, TunnelInv, TunnelTypeOK, Delivered, Blaming
<1> QED
  BY <1>1, <1>2, <1>3

\* Nothing a peer, a task or the watchdog does turns an answer into a failure.
LEMMA AnsweredStays ==
    ASSUME TunnelInv, Answered, [TunnelNext]_tunnel_vars
    PROVE  Answered'
<1>1. ASSUME NEW d \in Directions, Send(d) \/ Leave(d) \/ Move(d) \/ End(d)
      PROVE  Answered'
  BY <1>1 DEF Send, Leave, Move, End, Answered, TunnelInv, TunnelTypeOK, Directions
<1>2. CASE Watchdog
  BY <1>2 DEF Watchdog, ReturnFromPipe, WatchdogWakes, WatchdogBlames, WatchdogCancels,
              Answered
<1>3. CASE Tick \/ UNCHANGED tunnel_vars
  BY <1>3 DEF Tick, tunnel_vars, Answered
<1> QED
  BY <1>1, <1>2, <1>3 DEF TunnelNext

\* The invariant of a connection holds.
THEOREM TunnelInvariance == TunnelSpec => []TunnelInv
<1>1. TunnelInv /\ [TunnelNext]_tunnel_vars => TunnelInv'
  BY DirectionInv, WatchdogInv DEF TunnelNext
<1> QED
  BY TunnelInitInv, <1>1, PTL DEF TunnelSpec

\* A connection keeps its shape, and no direction holds more than its peer sent.
THEOREM TunnelTypeCorrect == TunnelSpec => []TunnelTypeOK
<1>1. TunnelInv => TunnelTypeOK
  BY DEF TunnelInv
<1> QED
  BY TunnelInvariance, <1>1, PTL

\* The failure of a proxy whose target answered before the budget was over is
\* never reported, however the connection goes on (pipe's watchdog).
THEOREM TheAnsweringStayClear == TunnelSpec => TheAnsweringAreNotBlamed
<1>1. TunnelInv /\ spoke["down"] /\ watchdog = "asleep" => Answered
  BY DEF TunnelInv, Blaming, Answered
<1>2. TunnelInv /\ Answered /\ [TunnelNext]_tunnel_vars => Answered'
  BY AnsweredStays
<1>3. Answered => ~blamed
  BY DEF Answered
<1> QED
  BY TunnelInvariance, <1>1, <1>2, <1>3, PTL DEF TunnelSpec, TheAnsweringAreNotBlamed

\* However slow the target and the client are, a proxied connection whose peers
\* stay is not ended by the engine before the budget of the first exchange is
\* over (pipe and read_next: no cancellation and no timeout of a first read
\* comes sooner).
THEOREM TheBudgetIsGranted == TunnelSpec => []NoCutWithinTheBudget
<1>1. TunnelInv => NoCutWithinTheBudget
  BY DEF TunnelInv, TunnelTypeOK, Patience, NoCutWithinTheBudget
<1> QED
  BY TunnelInvariance, <1>1, PTL
=============================================================================
