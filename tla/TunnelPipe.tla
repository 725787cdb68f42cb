----------------------------- MODULE TunnelPipe -----------------------------
(***************************************************************************)
(* One connection of the local proxy once it is carried: `pipe` and        *)
(* `read_next` of crates/proxy-core/src/local_proxy.rs.                    *)
(*                                                                         *)
(* Two tasks move the bytes, one per direction; each waits for bytes or    *)
(* for the cancellation, whichever is first.  A watchdog owns the sender   *)
(* of the cancellation: a watch channel whose sender is gone wakes its     *)
(* receivers just as a value does.  Bytes are counted, in chunks.          *)
(***************************************************************************)
EXTENDS Integers

CONSTANTS
    Budget,     \* FIRST_EXCHANGE_BUDGET, in ticks
    Horizon,    \* ticks after which time is not told apart
    Chunks      \* chunks a peer sends at most

ASSUME TunnelAssumption ==
    /\ Budget \in Nat \ {0} /\ Horizon \in Nat /\ Horizon > Budget
    /\ Chunks \in Nat \ {0}

Directions == {"up", "down"}    \* client to target, target to client

VARIABLES
    proxied,    \* whether a proxy carries the connection
    clock,      \* ticks since the tasks started
    peer,       \* per direction: whether its source is still connected
    unsent,     \* per direction: chunks its source may still send
    waiting,    \* per direction: chunks sent and not read yet
    mover,      \* per direction: the task that moves the bytes
    first,      \* per direction: whether its first read is still to come
    spoke,      \* client_spoke, target_spoke
    watchdog,   \* "none", "asleep", "blaming", "gone"
    cancel,     \* the sender of the cancellation: "held", "sent", "dropped"
    blamed      \* whether the failure was reported to the pool

tunnel_vars == <<proxied, clock, peer, unsent, waiting, mover, first, spoke,
                 watchdog, cancel, blamed>>

TunnelInit ==
    /\ proxied \in BOOLEAN
    /\ clock = 0
    /\ peer = [d \in Directions |-> "open"]
    /\ unsent = [d \in Directions |-> Chunks]
    /\ waiting = [d \in Directions |-> 0]
    /\ mover = [d \in Directions |-> "running"]
    /\ first = [d \in Directions |-> TRUE]
    /\ spoke = [d \in Directions |-> FALSE]
    /\ watchdog = IF proxied THEN "asleep" ELSE "none"
    /\ cancel = "held"
    /\ blamed = FALSE

Opposite(d) == IF d = "up" THEN "down" ELSE "up"

-----------------------------------------------------------------------------
(* The two ends of the connection.                                         *)

\* A direction is fed by its source until the source leaves.
Send(d) ==
    /\ peer[d] = "open" /\ unsent[d] > 0
    /\ unsent' = [unsent EXCEPT ![d] = @ - 1]
    /\ waiting' = [waiting EXCEPT ![d] = @ + 1]
    /\ UNCHANGED <<proxied, clock, peer, mover, first, spoke, watchdog, cancel, blamed>>

Leave(d) ==
    /\ peer[d] = "open"
    /\ peer' = [peer EXCEPT ![d] = "closed"]
    /\ UNCHANGED <<proxied, clock, unsent, waiting, mover, first, spoke, watchdog,
                   cancel, blamed>>

-----------------------------------------------------------------------------
(* The task of one direction.                                              *)

\* The write fails, and ends the task, when the other peer has left.
Move(d) ==
    /\ mover[d] = "running" /\ waiting[d] > 0
    /\ waiting' = [waiting EXCEPT ![d] = @ - 1]
    /\ first' = [first EXCEPT ![d] = FALSE]
    /\ spoke' = [spoke EXCEPT ![d] = TRUE]
    /\ \/ UNCHANGED mover
       \/ peer[Opposite(d)] = "closed" /\ mover' = [mover EXCEPT ![d] = "ended"]
    /\ UNCHANGED <<proxied, clock, peer, unsent, watchdog, cancel, blamed>>

\* A bug: the tasks do not listen to the cancellation.
NotListening == FALSE

\* changed() returns, with a value or with the news that the sender is gone.
Cancelled == cancel # "held"

\* The first read has a budget.
TimedOut(d) == first[d] /\ clock >= Budget

\* The source is gone, the budget of the first read is spent, or the tunnel is
\* cancelled.
End(d) ==
    /\ mover[d] = "running"
    /\ \/ peer[d] = "closed" /\ waiting[d] = 0
       \/ TimedOut(d)
       \/ Cancelled
    /\ mover' = [mover EXCEPT ![d] = "ended"]
    /\ UNCHANGED <<proxied, clock, peer, unsent, waiting, first, spoke, watchdog,
                   cancel, blamed>>

-----------------------------------------------------------------------------
(* The watchdog.                                                           *)

\* A bug: the sender goes when pipe returns, whether a watchdog runs or not.
ReturnFromEveryPipe ==
    /\ cancel = "held"
    /\ cancel' = "dropped"
    /\ UNCHANGED <<proxied, clock, peer, unsent, waiting, mover, first, spoke,
                   watchdog, blamed>>

\* Without a proxy no watchdog takes the sender, and it goes when pipe returns.
ReturnFromPipe ==
    /\ watchdog = "none" /\ cancel = "held"
    /\ cancel' = "dropped"
    /\ UNCHANGED <<proxied, clock, peer, unsent, waiting, mover, first, spoke,
                   watchdog, blamed>>

\* A bug: a target that answered is blamed like one that did not.
WatchdogBlamesAll ==
    /\ watchdog = "asleep" /\ clock >= Budget
    /\ IF ~spoke["up"]
       THEN watchdog' = "gone" /\ cancel' = "dropped"
       ELSE watchdog' = "blaming" /\ UNCHANGED cancel
    /\ UNCHANGED <<proxied, clock, peer, unsent, waiting, mover, first, spoke, blamed>>

\* The budget is over.  A client that said nothing, or a target that answered:
\* the watchdog returns, and the sender it owned goes with it.
WatchdogWakes ==
    /\ watchdog = "asleep" /\ clock >= Budget
    /\ IF ~spoke["up"] \/ spoke["down"]
       THEN watchdog' = "gone" /\ cancel' = "dropped"
       ELSE watchdog' = "blaming" /\ UNCHANGED cancel
    /\ UNCHANGED <<proxied, clock, peer, unsent, waiting, mover, first, spoke, blamed>>

\* The failure is reported before the directions are ended.
WatchdogBlames ==
    /\ watchdog = "blaming" /\ ~blamed
    /\ blamed' = TRUE
    /\ UNCHANGED <<proxied, clock, peer, unsent, waiting, mover, first, spoke,
                   watchdog, cancel>>

WatchdogCancels ==
    /\ watchdog = "blaming" /\ blamed
    /\ watchdog' = "gone"
    /\ cancel' = "sent"
    /\ UNCHANGED <<proxied, clock, peer, unsent, waiting, mover, first, spoke, blamed>>

Tick ==
    /\ clock < Horizon
    /\ clock' = clock + 1
    /\ UNCHANGED <<proxied, peer, unsent, waiting, mover, first, spoke, watchdog,
                   cancel, blamed>>

Watchdog == ReturnFromPipe \/ WatchdogWakes \/ WatchdogBlames \/ WatchdogCancels

TunnelNext ==
    \/ \E d \in Directions : Send(d) \/ Leave(d) \/ Move(d) \/ End(d)
    \/ Watchdog
    \/ Tick

\* The runtime polls the three tasks and the timers fire.  The peers owe
\* nothing: they may stay silent for ever.
TunnelSpec ==
    /\ TunnelInit /\ [][TunnelNext]_tunnel_vars
    /\ \A d \in Directions : WF_tunnel_vars(Move(d)) /\ WF_tunnel_vars(End(d))
    /\ WF_tunnel_vars(Watchdog)
    /\ WF_tunnel_vars(Tick)

-----------------------------------------------------------------------------
(* Properties.                                                             *)

TunnelTypeOK ==
    /\ proxied \in BOOLEAN
    /\ clock \in 0..Horizon
    /\ peer \in [Directions -> {"open", "closed"}]
    /\ unsent \in [Directions -> 0..Chunks]
    /\ waiting \in [Directions -> 0..Chunks]
    /\ mover \in [Directions -> {"running", "ended"}]
    /\ first \in [Directions -> BOOLEAN]
    /\ spoke \in [Directions -> BOOLEAN]
    /\ watchdog \in {"none", "asleep", "blaming", "gone"}
    /\ cancel \in {"held", "sent", "dropped"}
    /\ blamed \in BOOLEAN

\* The client of a half-dead proxy is let go: when the target has said nothing
\* by the end of the budget, both directions end, however long the client
\* keeps the connection (local_proxy.rs:1065-1070, 1152-1157).
TheHalfDeadAreLetGo ==
    proxied /\ clock = Budget /\ ~spoke["down"] /\ waiting["down"] = 0
      ~> mover["up"] = "ended" /\ mover["down"] = "ended"

\* A proxy that answered is never blamed: once a chunk of the target has been
\* read before the watchdog woke, no later silence of the connection counts
\* against the proxy (local_proxy.rs:1168-1170).
TheAnsweringAreNotBlamed ==
    [](spoke["down"] /\ watchdog = "asleep" => []~blamed)

\* Within the budget of the first exchange a proxied connection ends only by its
\* peers, however slow either is: the watchdog's cancellation reaches a task no
\* earlier than the watchdog wakes (local_proxy.rs:1065-1070, "when the budget runs
\* out ... the tunnel is dropped").
NoCutWithinTheBudget ==
    proxied /\ clock < Budget /\ (\A d \in Directions : peer[d] = "open")
      => \A d \in Directions : mover[d] = "running"

\* A tunnel that carries traffic both ways is never cut by the engine: while
\* both peers stay connected, both directions go on (local_proxy.rs:1072-1074,
\* "a tunnel that is open for an hour carries traffic the whole time").
AHealthyTunnelStaysOpen ==
    \A d \in Directions :
      spoke["up"] /\ spoke["down"] /\ mover[d] = "ended"
        => \E e \in Directions : peer[e] = "closed"
=============================================================================
