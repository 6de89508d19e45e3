---------------------------- MODULE IrohRefresh ----------------------------
(***************************************************************************)
(* The mitigation for a stuck network path: the dashboard pulls of         *)
(* src/src/alpn/status.py count consecutive failures per peer and, at a    *)
(* threshold, start tasks that tear down and rebuild the iroh node         *)
(* (MonitorEngine._maybe_rebuild_iroh in src/src/engine.py).               *)
(*                                                                         *)
(* Only three facts about the clock and the counters matter: how much of   *)
(* the cooldown has passed, whether a counter has reached the threshold,   *)
(* and whether it is zero.  So age stops at Cooldown and the counters at   *)
(* Threshold, and neither needs a bound.                                   *)
(***************************************************************************)
EXTENDS Integers, FiniteSets

CONSTANTS
    Peer,      \* the peers whose dashboard is pulled
    Threshold, \* _refresh_after_failures
    Cooldown,  \* _refresh_cooldown_seconds
    MaxTasks   \* bound: rebuild tasks that have not ended

ASSUME RefreshAssumption == /\ Threshold \in Nat \ {0} /\ Cooldown \in Nat \ {0}
                            /\ MaxTasks \in Nat \ {0}

VARIABLES
    node,    \* "up", or "down" while MonitorEngine._iroh is None
    age,     \* time since _last_iroh_rebuild, at most Cooldown
    alive,   \* peers the heartbeat says are ALIVE
    pulling, \* pulls of the running cycle that have not ended
    fails,   \* consecutive_pull_failures, at most Threshold
    spawned, \* rebuild tasks that have not run yet
    waiting, \* rebuild tasks at _iroh_rebuild_lock
    holder,  \* a task holds the lock and has torn the node down
    since    \* history: time since the last teardown began, at most Cooldown

vars == <<node, age, alive, pulling, fails, spawned, waiting, holder, since>>

Init == /\ node = "up" /\ age = Cooldown /\ since = Cooldown
        /\ alive \in SUBSET Peer
        /\ pulling = {} /\ fails = [p \in Peer |-> 0]
        /\ spawned = 0 /\ waiting = 0 /\ holder = FALSE

Tick == /\ age < Cooldown \/ since < Cooldown
        /\ age' = IF age < Cooldown THEN age + 1 ELSE age
        /\ since' = IF since < Cooldown THEN since + 1 ELSE since
        /\ UNCHANGED <<node, alive, pulling, fails, spawned, waiting, holder>>

\* A heartbeat or a push changes the status of a peer; a probe that finds no
\* node counts as a failure
ChangeStatus(p) ==
    /\ alive' \in {alive \cup {p}, alive \ {p}}
    /\ UNCHANGED <<node, age, pulling, fails, spawned, waiting, holder, since>>

\* _run_peer_dashboard_pull; the scheduler does not start it while it runs
StartPulls ==
    /\ node = "up" /\ pulling = {} /\ pulling' = Peer
    /\ UNCHANGED <<node, age, alive, fails, spawned, waiting, holder, since>>

\* The answer may have come in just before the node was torn down
PullSucceeds(p) ==
    /\ p \in pulling /\ pulling' = pulling \ {p}
    /\ fails' = [fails EXCEPT ![p] = 0]
    /\ UNCHANGED <<node, age, alive, spawned, waiting, holder, since>>

\* Mutant: the task is started when the counter equals the threshold, not
\* whenever it is at least that
Triggers_Once(p) == fails[p] + 1 = Threshold /\ p \in alive

\* _record_pull_failure starts a task
Triggers(p) == fails[p] + 1 >= Threshold /\ p \in alive

PullFails(p) ==
    /\ p \in pulling /\ pulling' = pulling \ {p}
    /\ fails' = [fails EXCEPT ![p] = IF @ < Threshold THEN @ + 1 ELSE @]
    /\ IF Triggers(p) THEN spawned + waiting < MaxTasks /\ spawned' = spawned + 1
       ELSE UNCHANGED spawned
    /\ UNCHANGED <<node, age, alive, waiting, holder, since>>

\* _maybe_rebuild_iroh up to the lock
CheckCooldown ==
    /\ spawned > 0 /\ spawned' = spawned - 1
    /\ waiting' = IF age < Cooldown THEN waiting ELSE waiting + 1
    /\ UNCHANGED <<node, age, alive, pulling, fails, holder, since>>

\* ... with the lock, up to the shutdown of the old node
TakeLock ==
    /\ waiting > 0 /\ ~holder /\ waiting' = waiting - 1
    /\ IF age < Cooldown THEN UNCHANGED <<node, holder, since>>
       ELSE node' = "down" /\ holder' = TRUE /\ since' = 0
    /\ UNCHANGED <<age, alive, pulling, fails, spawned>>

\* Mutant: the failure counters are dropped instead of set to zero
BuildSucceeds_Forgets ==
    /\ holder /\ holder' = FALSE
    /\ node' = "up" /\ age' = 0
    /\ fails' = [p \in {} |-> 0]
    /\ UNCHANGED <<alive, pulling, spawned, waiting, since>>

\* The new node is ready
BuildSucceeds ==
    /\ holder /\ holder' = FALSE
    /\ node' = "up" /\ age' = 0
    /\ fails' = [p \in Peer |-> 0]
    /\ UNCHANGED <<alive, pulling, spawned, waiting, since>>

\* Mutant: only a rebuild that succeeded is stamped
BuildFails_NoStamp ==
    /\ holder /\ holder' = FALSE
    /\ node' \in {"down", "up"}
    /\ UNCHANGED <<age, alive, pulling, fails, spawned, waiting, since>>

\* Building raises: the node is still None, or it was created and one of the
\* calls on it failed.  The failure is stamped as well
BuildFails ==
    /\ holder /\ holder' = FALSE
    /\ node' \in {"down", "up"} /\ age' = 0
    /\ UNCHANGED <<alive, pulling, fails, spawned, waiting, since>>

Next == \/ Tick \/ StartPulls \/ CheckCooldown \/ TakeLock \/ BuildSucceeds \/ BuildFails
        \/ \E p \in Peer : ChangeStatus(p) \/ PullSucceeds(p) \/ PullFails(p)

Spec == Init /\ [][Next]_vars

\* Time passes, the scheduler starts a pull cycle again and again, every pull
\* has a timeout, and the event loop runs every task
Fairness == /\ WF_vars(Tick) /\ WF_vars(StartPulls)
            /\ \A p \in Peer : WF_vars(PullSucceeds(p) \/ PullFails(p))
            /\ WF_vars(CheckCooldown) /\ WF_vars(TakeLock)
            /\ WF_vars(BuildSucceeds \/ BuildFails)
FairSpec == Spec /\ Fairness

-----------------------------------------------------------------------------
(* Properties *)

\* Every variable holds a value of its type.
TypeOK == /\ node \in {"up", "down"} /\ age \in 0..Cooldown
          /\ alive \subseteq Peer /\ pulling \subseteq Peer
          /\ fails \in [Peer -> 0..Threshold]
          /\ spawned \in Nat /\ waiting \in Nat /\ holder \in BOOLEAN
          /\ since \in 0..Cooldown

\* However many failing peers start a task, however long the tasks wait for
\* each other at the lock, and whether the rebuild succeeds or fails, a teardown
\* begins only when the cooldown has passed since the one before it began.
TeardownsSpaced == [][(~holder /\ holder') => since = Cooldown]_vars

\* A peer that heartbeats call ALIVE and whose pulls keep failing gets the node
\* torn down: a trigger that fell into the cooldown is not the last one.
StuckPathEscaped ==
    \A p \in Peer : (fails[p] = Threshold /\ p \in alive) ~>
                        (fails[p] = 0 \/ p \notin alive \/ node = "down")
=============================================================================
