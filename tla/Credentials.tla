---------------------------- MODULE Credentials -----------------------------
(***************************************************************************)
(* Who may use the local proxy: `CredentialStore` and the names of clients *)
(* (crates/proxy-core/src/credentials.rs), the two tables behind them      *)
(* (storage/mod.rs), the API that edits them (proxy-daemon/src/api.rs) and *)
(* the gate of the local proxy (local_proxy.rs, `handle`).                 *)
(*                                                                         *)
(* A name is the sequence of its parts, which dashes separate.  The table  *)
(* is behind a lock that is held for one statement; the cache of the names *)
(* has a lock of its own, and between the two anybody may run.             *)
(***************************************************************************)
EXTENDS Naturals, SequencesExt

CONSTANTS
    Usernames,      \* names the operator gives to credentials
    ClientNames,    \* names clients send
    Policies,       \* names of policies
    Builtins,       \* the ones every engine starts with
    Peer,           \* the name of a client that sends none
    Clients,
    Requests,       \* edits under way at once
    Rotators,       \* rotations under way at once
    AllowAnonymous,
    NamesTtl,       \* ticks the list of the names is kept
    MaxEdits,       \* bound: edits and rotations of the operator
    MaxRestarts     \* bound: restarts of the engine

ASSUME CredentialsAssumption ==
    /\ Builtins \subseteq Policies /\ Usernames \subseteq ClientNames
    /\ ClientNames \subseteq Seq(STRING) /\ Peer \notin Usernames
    /\ NamesTtl \in Nat \ {0} /\ MaxEdits \in Nat /\ MaxRestarts \in Nat

VARIABLES
    policies,       \* table: absent, built in or the operator's
    credentials,    \* table: policy and digest per username
    issued,         \* the usernames passwords were made for, in order
    names,          \* the cached list, and its age
    sessions,       \* what the local proxy holds: a key, and who presented it
    client,         \* one connection per client at a time
    request,        \* the edits under way
    turning,        \* the rotations under way
    edits, restarts

table_vars == <<policies, credentials, issued>>
api_vars == <<request, turning>>
vars == <<table_vars, names, sessions, client, api_vars, edits, restarts>>

NoCredential == [serial |-> 0]
Idle == [at |-> "idle"]
Unread == [list |-> {}, age |-> 0]

Existing == {u \in Usernames : credentials[u] # NoCredential}

-----------------------------------------------------------------------------
(* The names of clients.                                                   *)

PARAMETER_KEYS == {"session", "country", "protocol", "sticky"}
NoKey == "none"

\* A key starts a parameter; another part is the value of the key before it,
\* or, with none, a session.
ReadPart(read, part) ==
    IF part \in PARAMETER_KEYS
    THEN [found |-> IF read.key = NoKey THEN read.found
                    ELSE Append(read.found, <<read.key, "">>),
          key |-> part]
    ELSE [found |-> Append(read.found, <<IF read.key = NoKey THEN "session" ELSE read.key, part>>),
          key |-> NoKey]

\* Where a parameter is given.
parameter(name, key) == {i \in DOMAIN name.parameters : name.parameters[i][1] = key}

parse_parameters(rest) ==
    LET read == FoldLeft(ReadPart, [found |-> <<>>, key |-> NoKey], rest)
    IN  IF rest = <<>> THEN <<>>
        ELSE IF read.key = NoKey THEN read.found ELSE Append(read.found, <<read.key, "">>)

\* The longest known name the client's name starts with, or all of it.
parse_client_name(name, known) ==
    LET candidates == {k \in known : IsPrefix(k, name)}
        credential == IF candidates = {} THEN name
                      ELSE CHOOSE k \in candidates : \A l \in candidates : Len(l) <= Len(k)
    IN  [credential |-> credential,
         parameters |-> parse_parameters(SubSeq(name, Len(credential) + 1, Len(name)))]

session(name) ==
    LET asked == parameter(name, "session")
    IN  IF asked = {} THEN "default" ELSE name.parameters[Min(asked)][2]

\* A bug: the credential is not part of the key.
session_key_of_anybody(name) == [credential |-> Peer, session |-> session(name)]

session_key(name) == [credential |-> name.credential, session |-> session(name)]

-----------------------------------------------------------------------------
(* The gate.                                                               *)

Set(c, record) == client' = [client EXCEPT ![c] = record]

\* The connection goes on, with what it sent and the names it is read with.
Presenting(c, place) == [at |-> place, name |-> client[c].name, serial |-> client[c].serial]
Reading(c, place, known) ==
    [at |-> place, name |-> client[c].name, serial |-> client[c].serial, known |-> known]

\* A client sends a name and one of the passwords ever made, or nothing.
Arrive(c) ==
    /\ client[c] = Idle
    /\ \/ \E name \in ClientNames, serial \in 1 .. Len(issued) :
            Set(c, [at |-> "names", name |-> name, serial |-> serial])
       \/ Set(c, [at |-> "anonymous"])
    /\ UNCHANGED <<table_vars, names, sessions, api_vars, edits, restarts>>

Admit(name, presented) == sessions' = sessions \cup {[key |-> session_key(name), by |-> presented]}

\* Without a credential, the address is the name and the policy the default.
AdmitAnonymous(c) ==
    /\ client[c].at = "anonymous"
    /\ IF AllowAnonymous THEN Admit([credential |-> Peer, parameters |-> <<>>], Peer)
       ELSE UNCHANGED sessions
    /\ Set(c, Idle)
    /\ UNCHANGED <<table_vars, names, api_vars, edits, restarts>>

\* A bug: the list of the names does not run out.
ReadNamesForEver(c) ==
    /\ client[c].at = "names"
    /\ IF names.list # {}
       THEN Set(c, Reading(c, "verify", names.list))
       ELSE Set(c, Presenting(c, "list"))
    /\ UNCHANGED <<table_vars, names, sessions, api_vars, edits, restarts>>

\* credential_names: an empty list has not been read.
ReadNames(c) ==
    /\ client[c].at = "names"
    /\ IF names.list # {} /\ names.age < NamesTtl
       THEN Set(c, Reading(c, "verify", names.list))
       ELSE Set(c, Presenting(c, "list"))
    /\ UNCHANGED <<table_vars, names, sessions, api_vars, edits, restarts>>

\* A table that cannot be read is a list without names.
ListNames(c) ==
    /\ client[c].at = "list"
    /\ \E known \in {Existing, {}} :
         Set(c, Reading(c, "store", known))
    /\ UNCHANGED <<table_vars, names, sessions, api_vars, edits, restarts>>

\* A bug: the name that was sent is kept with the list.
StoreNamesAsSent(c) ==
    /\ client[c].at = "store"
    /\ names' = [list |-> client[c].known \cup {client[c].name}, age |-> 0]
    /\ Set(c, Reading(c, "verify", client[c].known))
    /\ UNCHANGED <<table_vars, sessions, api_vars, edits, restarts>>

StoreNames(c) ==
    /\ client[c].at = "store"
    /\ names' = [list |-> client[c].known, age |-> 0]
    /\ Set(c, Reading(c, "verify", client[c].known))
    /\ UNCHANGED <<table_vars, sessions, api_vars, edits, restarts>>

\* verify_credential: the digest, and a policy that is there.
verify(username, serial) ==
    /\ username \in Existing
    /\ credentials[username].serial = serial
    /\ policies[credentials[username].policy] # "absent"

\* What the name says is read with the list; the password with the table.
Verify(c) ==
    LET name == parse_client_name(client[c].name, client[c].known)
    IN  /\ client[c].at = "verify"
        /\ IF verify(name.credential, client[c].serial)
           THEN Admit(name, issued[client[c].serial])
           ELSE UNCHANGED sessions
        /\ Set(c, Idle)
        /\ UNCHANGED <<table_vars, names, api_vars, edits, restarts>>

ClientStep(c) ==
    AdmitAnonymous(c) \/ ReadNames(c) \/ ListNames(c) \/ StoreNames(c) \/ Verify(c)

-----------------------------------------------------------------------------
(* The API.                                                                *)

Edit == edits < MaxEdits /\ edits' = edits + 1

\* Written over whatever has the name, and no longer built in.
create_policy(p) ==
    /\ Edit
    /\ policies' = [policies EXCEPT ![p] = "custom"]
    /\ UNCHANGED <<credentials, issued, names, sessions, client, api_vars, restarts>>

\* Whether a credential carries the policy is not looked at.
delete_policy(p) ==
    /\ Edit /\ policies[p] = "custom"
    /\ policies' = [policies EXCEPT ![p] = "absent"]
    /\ UNCHANGED <<credentials, issued, names, sessions, client, api_vars, restarts>>

\* create_credential: the policy is looked up, the credential is written, the
\* names are forgotten.
create_credential(r, u, p) ==
    /\ Edit /\ request[r] = Idle /\ policies[p] # "absent"
    /\ request' = [request EXCEPT ![r] = [at |-> "save", username |-> u, policy |-> p]]
    /\ UNCHANGED <<table_vars, names, sessions, client, turning, restarts>>

save_credential(r) ==
    /\ request[r].at = "save"
    /\ issued' = Append(issued, request[r].username)
    /\ credentials' = [credentials EXCEPT ![request[r].username] =
                         [policy |-> request[r].policy, serial |-> Len(issued) + 1]]
    /\ request' = [request EXCEPT ![r] = [at |-> "forget"]]
    /\ UNCHANGED <<policies, names, sessions, client, turning, edits, restarts>>

delete_credential(r, u) ==
    /\ Edit /\ request[r] = Idle
    /\ credentials' = [credentials EXCEPT ![u] = NoCredential]
    /\ request' = [request EXCEPT ![r] = [at |-> "forget"]]
    /\ UNCHANGED <<policies, issued, names, sessions, client, turning, restarts>>

forget_names(r) ==
    /\ request[r].at = "forget"
    /\ names' = Unread
    /\ request' = [request EXCEPT ![r] = Idle]
    /\ UNCHANGED <<table_vars, sessions, client, turning, edits, restarts>>

\* A bug: the key is compared without the colon after the credential.
HeldByPrefix(u) == {s \in sessions : IsPrefix(u, s.key.credential)}

Held(u) == {s \in sessions : s.key.credential = u}

\* rotate_credential: the table is read for a credential of that name.
rotate_credential(o, u) ==
    /\ turning[o] = Idle /\ u \in Existing
    /\ Edit
    /\ turning' = [turning EXCEPT ![o] = [at |-> "named", username |-> u]]
    /\ UNCHANGED <<table_vars, names, sessions, client, request, restarts>>

\* It is read again for the names, or cannot be.
list_again(o) ==
    /\ turning[o].at = "named"
    /\ \/ turning' = [turning EXCEPT ![o] =
                        [at |-> "turn", username |-> turning[o].username, known |-> Existing]]
       \/ turning' = [turning EXCEPT ![o] = Idle]
    /\ UNCHANGED <<table_vars, names, sessions, client, request, edits, restarts>>

\* What the name says now is turned over: the session it names (rotate_session),
\* or every session of the credential.
turn_over(o) ==
    LET name == parse_client_name(turning[o].username, turning[o].known)
    IN  /\ turning[o].at = "turn"
        /\ sessions' = sessions \
             IF parameter(name, "session") = {} THEN Held(name.credential)
             ELSE {s \in sessions : s.key = session_key(name)}
        /\ turning' = [turning EXCEPT ![o] = Idle]
        /\ UNCHANGED <<table_vars, names, client, request, edits, restarts>>

RequestStep(r) == save_credential(r) \/ forget_names(r)
RotatorStep(o) == list_again(o) \/ turn_over(o)

Operator ==
    \/ \E p \in Policies : create_policy(p) \/ delete_policy(p)
    \/ \E r \in Requests, u \in Usernames :
         delete_credential(r, u) \/ \E p \in Policies : create_credential(r, u, p)
    \/ \E o \in Rotators, u \in Usernames : rotate_credential(o, u)

-----------------------------------------------------------------------------
(* The engine.                                                             *)

\* ensure_builtin_policies
WithBuiltins(table) ==
    [p \in Policies |-> IF p \in Builtins /\ table[p] = "absent" THEN "builtin" ELSE table[p]]

\* A crash or a restart: the tables stay.
Restart ==
    /\ restarts < MaxRestarts /\ restarts' = restarts + 1
    /\ policies' = WithBuiltins(policies)
    /\ names' = Unread /\ sessions' = {}
    /\ client' = [c \in Clients |-> Idle]
    /\ request' = [r \in Requests |-> Idle] /\ turning' = [o \in Rotators |-> Idle]
    /\ UNCHANGED <<credentials, issued, edits>>

Tick ==
    /\ names.age < NamesTtl
    /\ names' = [names EXCEPT !.age = @ + 1]
    /\ UNCHANGED <<table_vars, sessions, client, api_vars, edits, restarts>>

Init ==
    /\ policies = WithBuiltins([p \in Policies |-> "absent"])
    /\ credentials = [u \in Usernames |-> NoCredential] /\ issued = <<>>
    /\ names = Unread /\ sessions = {}
    /\ client = [c \in Clients |-> Idle]
    /\ request = [r \in Requests |-> Idle] /\ turning = [o \in Rotators |-> Idle]
    /\ edits = 0 /\ restarts = 0

Next ==
    \/ \E c \in Clients : Arrive(c) \/ ClientStep(c)
    \/ \E r \in Requests : RequestStep(r)
    \/ \E o \in Rotators : RotatorStep(o)
    \/ Operator \/ Restart \/ Tick

\* A connection that was accepted and an edit that was begun go on.
Spec ==
    /\ Init /\ [][Next]_vars
    /\ \A c \in Clients : WF_vars(ClientStep(c))
    /\ \A r \in Requests : WF_vars(RequestStep(r))
    /\ WF_vars(Tick)

-----------------------------------------------------------------------------
(* Properties.                                                             *)

\* The shape of the state.
CredentialsTypeOK ==
    /\ policies \in [Policies -> {"absent", "builtin", "custom"}]
    /\ credentials \in [Usernames -> [policy : Policies, serial : 1 .. Len(issued)] \cup {NoCredential}]
    /\ issued \in Seq(Usernames)
    /\ names.list \subseteq Usernames /\ names.age \in 0 .. NamesTtl
    /\ \A c \in Clients : client[c].at \in {"idle", "anonymous", "names", "list", "store", "verify"}
    /\ \A r \in Requests : request[r].at \in {"idle", "save", "forget"}
    /\ \A o \in Rotators : turning[o].at \in {"idle", "named", "turn"}

\* Whoever holds a session presented a password made for the credential the
\* session is accounted to, whatever list of names the connection was read with
\* and however the credentials changed meanwhile.  That no credential is named
\* like the address of a client is assumed; create_credential does not see to it.
SessionsAreHeldApart ==
    \A s, t \in sessions : s.key = t.key => s.by = t.by

\* A rotation turns over the sessions of the credential it was asked for, all of
\* them and no others, however alike the names are and whatever was edited since,
\* as long as the credential was still there at its second reading.
RotationStaysInItsAccount ==
    [][\A o \in Rotators : turn_over(o) /\ turning[o].username \in turning[o].known =>
         \A s \in sessions : s \in sessions' <=> s.by # turning[o].username]_vars

\* The same whatever the second reading found (api.rs, `Rotation.username`: "The
\* credential the session belonged to.").
TheNamedAccountIsRotated ==
    [][\A o \in Rotators : turn_over(o) =>
         \A s \in sessions \ sessions' : s.by = turning[o].username]_vars

\* Once the operator is done, the names a connection is read with become those in
\* the table, however the reading and the forgetting were interleaved: in the end,
\* not at once.
TheNamesCatchUp ==
    <>[](\A c \in Clients : client[c].at = "verify" => client[c].known \in {{}, Existing})

\* When no edit is under way, the list in use lacks no credential
\* (credentials.rs:287-289, "The name of a new credential has to be known at
\* once").
TheNamesAreKnownAtOnce ==
    (\A r \in Requests : request[r] = Idle) /\ names.age < NamesTtl /\ names.list # {}
        => Existing \subseteq names.list
=============================================================================
