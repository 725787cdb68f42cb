------------------------- MODULE CredentialsProofs --------------------------
(***************************************************************************)
(* Sessions belong to whoever presented the password of their account, for *)
(* every set of credentials and clients, every list of names they are read *)
(* with, and any number of edits and restarts.                             *)
(***************************************************************************)
EXTENDS Credentials, SequenceTheorems, TLAPS

ClientStates ==
    [at : {"idle", "anonymous"}]
    \cup [at : {"names", "list"}, name : ClientNames, serial : Nat]
    \cup [at : {"store", "verify"}, name : ClientNames, serial : Nat, known : SUBSET Usernames]

RequestStates ==
    [at : {"idle", "forget"}] \cup [at : {"save"}, username : Usernames, policy : Policies]

TurningStates ==
    [at : {"idle"}] \cup [at : {"named"}, username : Usernames]
    \cup [at : {"turn"}, username : Usernames, known : SUBSET Usernames]

Digests == [policy : Policies, serial : 1 .. Len(issued)]

Types ==
    /\ policies \in [Policies -> {"absent", "builtin", "custom"}]
    /\ issued \in Seq(Usernames)
    /\ credentials \in [Usernames -> Digests \cup {NoCredential}]
    /\ names \in [list : SUBSET Usernames, age : 0 .. NamesTtl]
    /\ client \in [Clients -> ClientStates]
    /\ request \in [Requests -> RequestStates]
    /\ turning \in [Rotators -> TurningStates]

\* A password is verified against the credential it was made for.
Owned == \A u \in Existing : issued[credentials[u].serial] = u

\* A session is accounted to whoever opened it.
Accounted == \A s \in sessions : s.by = s.key.credential

IndInv == Types /\ Owned /\ Accounted

-----------------------------------------------------------------------------
(* The invariant is inductive.                                             *)

LEMMA InitInv == Init => IndInv
<1> SUFFICES ASSUME Init PROVE IndInv
  OBVIOUS
<1>1. WithBuiltins([p \in Policies |-> "absent"]) \in [Policies -> {"absent", "builtin", "custom"}]
  BY DEF WithBuiltins
<1>2. Existing = {}
  BY DEF Init, Existing
<1>3. Types
  BY <1>1, CredentialsAssumption DEF Init, Types, Unread, Idle, ClientStates, RequestStates, TurningStates
<1>4. Owned /\ Accounted
  BY <1>2 DEF Init, Owned, Accounted
<1> QED
  BY <1>3, <1>4 DEF IndInv

LEMMA Unchanged ==
    ASSUME UNCHANGED table_vars
    PROVE  Existing' = Existing /\ Digests' = Digests /\ (Owned => Owned')
  BY DEF table_vars, Existing, Digests, Owned

\* A client's connection: whatever names it is read with, it is admitted as the
\* owner of the password it presented.
LEMMA ClientInv ==
    ASSUME IndInv, NEW c \in Clients, Arrive(c) \/ ClientStep(c)
    PROVE  IndInv'
<1> USE DEF IndInv, Set, Idle
<1>1. UNCHANGED <<table_vars, request, turning>>
  BY DEF Arrive, ClientStep, AdmitAnonymous, ReadNames, ListNames, StoreNames, Verify, api_vars
<1>2. Existing' = Existing /\ Digests' = Digests /\ Owned'
  BY <1>1, Unchanged
<1>3. ASSUME NEW state \in ClientStates, client' = [client EXCEPT ![c] = state],
             names' \in [list : SUBSET Usernames, age : 0 .. NamesTtl]
      PROVE  Types'
  BY <1>1, <1>2, <1>3 DEF Types, table_vars
<1>4. client[c] \in ClientStates /\ Existing \subseteq Usernames
  BY DEF Types, Existing
<1>5. CASE Arrive(c)
  <2>1. names' = names /\ sessions' = sessions
    BY <1>5 DEF Arrive
  <2>2. ASSUME NEW name \in ClientNames, NEW serial \in 1 .. Len(issued)
        PROVE  [at |-> "names", name |-> name, serial |-> serial] \in ClientStates
    <3>1. Len(issued) \in Nat
      BY DEF Types
    <3> QED
      BY <2>2, <3>1 DEF ClientStates
  <2>3. [at |-> "anonymous"] \in ClientStates
    BY DEF ClientStates
  <2>4. Types'
    BY <1>3, <1>5, <2>1, <2>2, <2>3 DEF Arrive, Types
  <2> QED
    BY <1>2, <2>1, <2>4 DEF Accounted
<1>6. CASE AdmitAnonymous(c)
  <2>1. Types'
    BY <1>3, <1>6 DEF AdmitAnonymous, ClientStates, Types
  <2>2. Accounted'
    BY <1>6 DEF AdmitAnonymous, Admit, session_key, Accounted
  <2> QED
    BY <1>2, <2>1, <2>2
<1>7. CASE ReadNames(c)
  <2>1. Reading(c, "verify", names.list) \in ClientStates /\ Presenting(c, "list") \in ClientStates
    BY <1>4, <1>7 DEF ReadNames, Reading, Presenting, ClientStates, Types
  <2>2. names' = names /\ sessions' = sessions
    BY <1>7 DEF ReadNames
  <2>3. Types'
    BY <1>3, <1>7, <2>1, <2>2 DEF ReadNames, Types
  <2> QED
    BY <1>2, <2>2, <2>3 DEF Accounted
<1>8. CASE ListNames(c)
  <2>1. \A known \in {Existing, {}} : Reading(c, "store", known) \in ClientStates
    BY <1>4, <1>8 DEF ListNames, Reading, ClientStates
  <2>2. names' = names /\ sessions' = sessions
    BY <1>8 DEF ListNames
  <2>3. Types'
    BY <1>3, <1>8, <2>1, <2>2 DEF ListNames, Types
  <2> QED
    BY <1>2, <2>2, <2>3 DEF Accounted
<1>9. CASE StoreNames(c)
  <2>1. /\ client[c].known \in SUBSET Usernames
        /\ Reading(c, "verify", client[c].known) \in ClientStates
    BY <1>4, <1>9 DEF StoreNames, Reading, ClientStates
  <2>2. names' \in [list : SUBSET Usernames, age : 0 .. NamesTtl] /\ sessions' = sessions
    BY <1>9, <2>1, CredentialsAssumption DEF StoreNames
  <2>3. Types'
    BY <1>3, <1>9, <2>1, <2>2 DEF StoreNames
  <2> QED
    BY <1>2, <2>2, <2>3 DEF Accounted
<1>10. CASE Verify(c)
  <2> DEFINE name == parse_client_name(client[c].name, client[c].known)
  <2>1. Types'
    BY <1>3, <1>10 DEF Verify, ClientStates, Types
  <2>2. CASE verify(name.credential, client[c].serial)
    <3>1. issued[client[c].serial] = name.credential
      BY <2>2 DEF verify, Owned
    <3>2. sessions' = sessions \cup {[key |-> session_key(name), by |-> issued[client[c].serial]]}
      BY <1>10, <2>2 DEF Verify, Admit
    <3>3. session_key(name).credential = name.credential
      BY DEF session_key
    <3>4. Accounted'
      BY <3>1, <3>2, <3>3 DEF Accounted
    <3> QED
      BY <1>2, <2>1, <3>4
  <2>3. CASE ~verify(name.credential, client[c].serial)
    <3>1. sessions' = sessions
      BY <1>10, <2>3 DEF Verify
    <3> QED
      BY <1>2, <2>1, <3>1 DEF Accounted
  <2> QED
    BY <2>2, <2>3
<1> QED
  BY <1>5, <1>6, <1>7, <1>8, <1>9, <1>10 DEF ClientStep

\* The edits: a password made later has a later number.
LEMMA SaveInv ==
    ASSUME IndInv, NEW r \in Requests, save_credential(r)
    PROVE  IndInv'
<1> DEFINE u == request[r].username
           digest == [policy |-> request[r].policy, serial |-> Len(issued) + 1]
<1>1. u \in Usernames /\ request[r].policy \in Policies
  BY DEF IndInv, Types, RequestStates, save_credential
<1>2. /\ issued' = Append(issued, u)
      /\ credentials' = [credentials EXCEPT ![u] = digest]
      /\ UNCHANGED <<policies, names, sessions, client, turning>>
      /\ request' = [request EXCEPT ![r] = [at |-> "forget"]]
  BY DEF save_credential
<1>3. issued \in Seq(Usernames) /\ Len(issued) \in Nat
  BY DEF IndInv, Types
<1>4. /\ issued' \in Seq(Usernames) /\ Len(issued') = Len(issued) + 1
      /\ \A i \in 1 .. Len(issued) : issued'[i] = issued[i]
      /\ issued'[Len(issued) + 1] = u
  BY <1>1, <1>2, <1>3, AppendProperties
<1>5. Digests \subseteq Digests' /\ digest \in Digests'
  BY <1>1, <1>3, <1>4 DEF Digests
<1>6. credentials' \in [Usernames -> Digests' \cup {NoCredential}]
  BY <1>2, <1>5 DEF IndInv, Types
<1>7. Types'
  BY <1>2, <1>4, <1>6 DEF IndInv, Types, RequestStates, NoCredential, Digests
<1>8. ASSUME NEW v \in Existing' PROVE issued'[credentials'[v].serial] = v
  <2>1. CASE v = u
    BY <1>1, <1>2, <1>4, <2>1 DEF IndInv, Types
  <2>2. CASE v # u
    <3>1. v \in Existing /\ credentials'[v] = credentials[v] /\ credentials[v] \in Digests
      BY <1>2, <2>2 DEF Existing, IndInv, Types
    <3> QED
      BY <1>4, <3>1 DEF IndInv, Owned, Digests
  <2> QED
    BY <2>1, <2>2
<1> QED
  BY <1>2, <1>7, <1>8 DEF IndInv, Owned, Accounted

LEMMA DeleteInv ==
    ASSUME IndInv, NEW r \in Requests, NEW u \in Usernames, delete_credential(r, u)
    PROVE  IndInv'
<1>1. /\ credentials' = [credentials EXCEPT ![u] = NoCredential]
      /\ request' = [request EXCEPT ![r] = [at |-> "forget"]]
      /\ UNCHANGED <<policies, issued, names, sessions, client, turning>>
  BY DEF delete_credential
<1>2. Digests' = Digests
  BY <1>1 DEF Digests
<1>3. Types'
  BY <1>1, <1>2 DEF IndInv, Types, RequestStates
<1>4. \A v \in Existing' : v \in Existing /\ credentials'[v] = credentials[v]
  BY <1>1 DEF Existing, IndInv, Types
<1> QED
  BY <1>1, <1>3, <1>4 DEF IndInv, Owned, Accounted

LEMMA OtherEditsInv ==
    ASSUME IndInv,
           \/ \E p \in Policies : create_policy(p) \/ delete_policy(p)
           \/ \E r \in Requests, u \in Usernames, p \in Policies : create_credential(r, u, p)
           \/ \E r \in Requests : forget_names(r)
    PROVE  IndInv'
<1> USE DEF IndInv, table_vars
<1>1. UNCHANGED <<credentials, issued, client, sessions, turning>>
  BY DEF create_policy, delete_policy, create_credential, forget_names, api_vars
<1>2. Existing' = Existing /\ Digests' = Digests
  BY <1>1 DEF Existing, Digests
<1>3. policies' \in [Policies -> {"absent", "builtin", "custom"}]
  BY DEF Types, create_policy, delete_policy, create_credential, forget_names
<1>4. names' \in [list : SUBSET Usernames, age : 0 .. NamesTtl]
  <2>1. names' \in {names, Unread}
    BY DEF create_policy, delete_policy, create_credential, forget_names
  <2>2. Unread \in [list : SUBSET Usernames, age : 0 .. NamesTtl]
    BY CredentialsAssumption DEF Unread
  <2>3. names \in [list : SUBSET Usernames, age : 0 .. NamesTtl]
    BY DEF Types
  <2> QED
    BY ONLY <2>1, <2>2, <2>3, Zenon
<1>5. request' \in [Requests -> RequestStates]
  BY DEF Types, create_policy, delete_policy, create_credential, forget_names, api_vars,
         RequestStates, Idle
<1>6. Types'
  BY <1>1, <1>2, <1>3, <1>4, <1>5 DEF Types
<1> QED
  BY <1>1, <1>2, <1>6 DEF Owned, Accounted

\* A rotation takes sessions away.
LEMMA RotationInv ==
    ASSUME IndInv, NEW o \in Rotators,
           RotatorStep(o) \/ \E u \in Usernames : rotate_credential(o, u)
    PROVE  IndInv'
<1> USE DEF IndInv, table_vars
<1>1. /\ UNCHANGED <<table_vars, names, client, request>> /\ sessions' \subseteq sessions
  BY DEF RotatorStep, rotate_credential, list_again, turn_over
<1>2. Existing' = Existing /\ Digests' = Digests /\ Owned'
  BY <1>1, Unchanged
<1>3. Existing \in SUBSET Usernames
  BY DEF Existing
<1>4. turning' \in [Rotators -> TurningStates]
  BY <1>3 DEF Types, TurningStates, RotatorStep, rotate_credential, list_again, turn_over, Idle
<1>5. Types'
  BY <1>1, <1>2, <1>4 DEF Types
<1> QED
  BY <1>1, <1>2, <1>5 DEF Accounted

LEMMA EngineInv ==
    ASSUME IndInv, Restart \/ Tick
    PROVE  IndInv'
<1> USE DEF IndInv, table_vars
<1>1. UNCHANGED <<credentials, issued>> /\ sessions' \subseteq sessions
  BY DEF Restart, Tick
<1>2. Existing' = Existing /\ Digests' = Digests
  BY <1>1 DEF Existing, Digests
<1>3. CASE Restart
  <2>1. WithBuiltins(policies) \in [Policies -> {"absent", "builtin", "custom"}]
    BY DEF WithBuiltins, Types
  <2>2. Types'
    BY <1>1, <1>2, <1>3, <2>1, CredentialsAssumption
       DEF Restart, Types, Unread, Idle, ClientStates, RequestStates, TurningStates
  <2> QED
    BY <1>1, <1>2, <2>2 DEF Owned, Accounted
<1>4. CASE Tick
  <2>1. names' \in [list : SUBSET Usernames, age : 0 .. NamesTtl]
    <3>1. /\ names \in [list : SUBSET Usernames, age : 0 .. NamesTtl]
          /\ names' = [names EXCEPT !.age = @ + 1]
          /\ names.age < NamesTtl
      BY <1>4 DEF Tick, Types
    <3>2. names.age + 1 \in 0 .. NamesTtl
      BY <3>1, CredentialsAssumption
    <3> QED
      BY ONLY <3>1, <3>2
  <2>2. Types'
    BY <1>1, <1>2, <1>4, <2>1 DEF Tick, Types, api_vars
  <2> QED
    BY <1>1, <1>2, <2>2 DEF Owned, Accounted
<1> QED
  BY <1>3, <1>4

\* The invariant the other theorems rest on.
THEOREM Invariance == Spec => []IndInv
<1>1. IndInv /\ [Next]_vars => IndInv'
  <2> SUFFICES ASSUME IndInv, [Next]_vars PROVE IndInv'
    OBVIOUS
  <2>1. CASE Next
    BY <2>1, ClientInv, SaveInv, DeleteInv, OtherEditsInv, RotationInv, EngineInv
       DEF Next, RequestStep, Operator
  <2>2. CASE UNCHANGED vars
    BY <2>2 DEF vars, table_vars, api_vars, IndInv, Types, Owned, Accounted, Existing, Digests
  <2> QED
    BY <2>1, <2>2
<1> QED
  BY InitInv, <1>1, PTL DEF Spec

-----------------------------------------------------------------------------
(* What follows from it.                                                   *)

\* The shape of the state; in particular the cached list names only credentials.
THEOREM TypeCorrect == Spec => []CredentialsTypeOK
<1>1. IndInv => CredentialsTypeOK
  BY DEF IndInv, Types, CredentialsTypeOK, ClientStates, RequestStates, TurningStates, Digests
<1> QED
  BY Invariance, <1>1, PTL

\* Two connections in one session presented passwords of one credential, even
\* when a credential was deleted and made again, and the list was stale.
THEOREM AccountsAreHeldApart == Spec => []SessionsAreHeldApart
<1>1. IndInv => SessionsAreHeldApart
  BY DEF IndInv, Accounted, SessionsAreHeldApart
<1> QED
  BY Invariance, <1>1, PTL

\* The name of a credential that is known is read as that credential, with no
\* session of it, whatever other names it begins with.
LEMMA KnownIsItself ==
    ASSUME NEW known \in SUBSET Usernames, NEW u \in known
    PROVE  parse_client_name(u, known) = [credential |-> u, parameters |-> <<>>]
<1> DEFINE candidates == {k \in known : IsPrefix(k, u)}
           longest(k) == \A l \in candidates : Len(l) <= Len(k)
<1>1. known \subseteq Seq(STRING) /\ u \in Seq(STRING)
  BY CredentialsAssumption
<1>2. \A k \in candidates : k \in Seq(STRING) /\ Len(k) \in Nat /\ Len(k) <= Len(u)
                             /\ SubSeq(k, 1, Len(k)) = SubSeq(u, 1, Len(k))
  BY <1>1 DEF IsPrefix
<1>3. u \in candidates
  BY <1>1 DEF IsPrefix
<1>4. longest(u)
  BY <1>2
<1>5. \A k \in candidates : longest(k) => k = u
  <2> SUFFICES ASSUME NEW k \in candidates, longest(k) PROVE k = u
    OBVIOUS
  <2>1. Len(k) = Len(u)
    BY <1>1, <1>2, <1>3
  <2>2. k = SubSeq(k, 1, Len(k)) /\ u = SubSeq(u, 1, Len(u))
    BY <1>1, <1>2
  <2> QED
    BY <1>2, <2>1, <2>2
<1>6. (CHOOSE k \in candidates : longest(k)) = u
  BY <1>3, <1>4, <1>5
<1>7. SubSeq(u, Len(u) + 1, Len(u)) = <<>>
  BY <1>1
<1>8. parse_parameters(SubSeq(u, Len(u) + 1, Len(u))) = <<>>
  BY <1>7 DEF parse_parameters
<1>9. candidates # {}
  BY <1>3
<1> QED
  BY <1>6, <1>8, <1>9 DEF parse_client_name

\* Turning a credential over that was still there when the names were read takes
\* all its sessions and no other's, however alike the names are and whatever was
\* edited since (api.rs, `rotate_credential`; local_proxy.rs, `rotate_session`).
THEOREM RotationIsLocal == Spec => RotationStaysInItsAccount
<1>1. IndInv =>
        \A o \in Rotators : turn_over(o) /\ turning[o].username \in turning[o].known =>
           \A s \in sessions : s \in sessions' <=> s.by # turning[o].username
  <2> SUFFICES ASSUME IndInv, NEW o \in Rotators, turn_over(o),
                      turning[o].username \in turning[o].known, NEW s \in sessions
               PROVE  s \in sessions' <=> s.by # turning[o].username
    OBVIOUS
  <2> DEFINE u == turning[o].username
             name == [credential |-> u, parameters |-> <<>>]
  <2>1. turning[o].known \in SUBSET Usernames
    BY DEF IndInv, Types, TurningStates, turn_over
  <2>2. parse_client_name(u, turning[o].known) = name
    BY <2>1, KnownIsItself
  <2>3. parameter(name, "session") = {}
    BY DEF parameter
  <2>4. sessions' = sessions \ Held(u)
    BY <2>2, <2>3 DEF turn_over
  <2> QED
    BY <2>4 DEF IndInv, Accounted, Held
<1> QED
  BY Invariance, <1>1, PTL DEF RotationStaysInItsAccount
=============================================================================
