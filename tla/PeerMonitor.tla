---------------------------- MODULE PeerMonitor ----------------------------
(***************************************************************************)
(* The liveness monitor of one engine: the heartbeat cycle and its probes  *)
(* (src/src/alpn/heartbeat.py), inbound pushes (src/src/alpn/push.py), the *)
(* threshold machine with its log entries and webhooks, the device table   *)
(* that is rebuilt from probe history on a reload or a restart             *)
(* (src/src/engine.py, src/src/history.py).                                *)
(*                                                                         *)
(* Everything here runs on one event loop; an action is the code between   *)
(* two awaits.  The per-peer state lock is held across one await only, the *)
(* webhook, so it is "free" or names who is waiting for the webhook.       *)
(*                                                                         *)
(* Time is a counter.  Each probe cycle and each push happens at a time of *)
(* its own, so no two records of a peer carry the same timestamp.          *)
(***************************************************************************)
EXTENDS Integers, Sequences, FiniteSets

CONSTANTS
    Peer,
    DownAfter,   \* consecutive failures before an ALIVE peer is DEAD
    UpAfter,     \* consecutive successes before a DEAD peer is ALIVE
    Dwell,       \* flap_min_dwell_seconds; 0 turns flap suppression off
    GapMin,      \* absence after which a reconnect asks for a sync
    Window,      \* how far back hydration reads history (24 h)
    ProbeMax,    \* longest time from the start of a probe to its recording
    MaintLen,    \* length of the maintenance windows operators schedule
    MaxTime,     \* bound: the clock
    Disruptions  \* what may happen besides probes and pushes, see below

(***************************************************************************)
(* "reload"       trust mutations that rebuild the device table            *)
(* "external"     another process changes the trust log                    *)
(* "restart"      the process ends and starts again                        *)
(* "maintenance"  operators schedule and clear maintenance windows         *)
(* "hist_fail"    reading or writing the history database may fail         *)
(* "log_fail"     appending to the trust log may fail                      *)
(***************************************************************************)
ASSUME DisruptionsAssumption ==
    Disruptions \subseteq {"reload", "external", "restart", "maintenance", "hist_fail",
                           "log_fail"}
ASSUME ThresholdAssumption == DownAfter \in Nat \ {0} /\ UpAfter \in Nat \ {0}
ASSUME TimeAssumption == /\ Dwell \in Nat /\ GapMin \in Nat \ {0} /\ Window \in Nat
                         /\ ProbeMax \in Nat \ {0} /\ MaintLen \in Nat \ {0}
                         /\ MaxTime \in Nat

VARIABLES
    now,       \* the clock
    mon,       \* peers trusted with the monitor permission
    window,    \* maintenance window of each peer
    pending,   \* a device reload is queued on the loop
    devs,      \* the keys of MonitorEngine._devices
    dev,       \* ... and their PeerState objects
    cycle,     \* the heartbeat job is running
    probe,     \* the probe of each peer in the running cycle
    lock,      \* _state_locks
    waiting,   \* peers with an authorized push that waits for the state lock
    hist,      \* rows of the probes table
    lastAlert, \* _last_alert_fired
    log,       \* monitor_up and monitor_down entries of the trust log
    alerts,    \* webhooks sent by this process, since it last forgot the peer
    resync,    \* peers a reconnect sync was started for
    ev         \* ghost: the run of equal results that ends the evidence on a peer

engineVars == <<pending, devs, dev, cycle, probe, lock, waiting, lastAlert, alerts, resync>>
vars == <<now, mon, window, engineVars, hist, log, ev>>

-----------------------------------------------------------------------------
(* Peer states and the threshold machine *)

Status == {"UNKNOWN", "ALIVE", "DEAD"}
Never == 0
NoWindow == [start |-> 0, end |-> 0]

FreshState == [status |-> "UNKNOWN", fails |-> 0, succs |-> 0, seen |-> Never]
NoProbe == [st |-> "idle", at |-> Never, orphan |-> FALSE, obj |-> FreshState,
            res |-> "UNKNOWN"]

in_maintenance(p, t) == window[p].start <= t /\ t <= window[p].end

\* Mutant: a success does not reset the failure counter
Observe_KeepsFails(s, res, t) ==
    IF res = "ALIVE" THEN [s EXCEPT !.succs = @ + 1, !.seen = t]
    ELSE [s EXCEPT !.fails = @ + 1, !.succs = 0]

\* What a result with timestamp t does to the counters
Observe(s, res, t) ==
    IF res = "ALIVE"
    THEN [status |-> s.status, fails |-> 0, succs |-> s.succs + 1, seen |-> t]
    ELSE [status |-> s.status, fails |-> s.fails + 1, succs |-> 0, seen |-> s.seen]

\* Mutant: one failure too many is asked for
NextStatus_OneMore(s, res) ==
    IF res = "ALIVE" /\ (s.status = "UNKNOWN" \/ (s.status = "DEAD" /\ s.succs >= UpAfter))
    THEN "ALIVE"
    ELSE IF res = "DEAD" /\ s.status = "ALIVE" /\ s.fails > DownAfter
    THEN "DEAD"
    ELSE s.status

\* The status _maybe_transition settles on, the counters being up to date
NextStatus(s, res) ==
    IF res = "ALIVE" /\ (s.status = "UNKNOWN" \/ (s.status = "DEAD" /\ s.succs >= UpAfter))
    THEN "ALIVE"
    ELSE IF res = "DEAD" /\ s.status = "ALIVE" /\ s.fails >= DownAfter
    THEN "DEAD"
    ELSE s.status

Judged(s, res, t) == LET o == Observe(s, res, t)
                     IN  [o EXCEPT !.status = NextStatus(o, res)]

\* Mutant: the dwell is one second short
Dwelling_Short(p, t) == Dwell > 0 /\ lastAlert[p] # Never /\ t - lastAlert[p] < Dwell - 1

\* The flap suppression window of the last webhook is still open
Dwelling(p, t) == Dwell > 0 /\ lastAlert[p] # Never /\ t - lastAlert[p] < Dwell

\* Mutant: flap suppression silences the log as well as the webhook
Reported_Dwelling(p, s, res, t) == /\ Judged(s, res, t).status # s.status
                                   /\ s.status # "UNKNOWN"
                                   /\ ~in_maintenance(p, t) /\ ~Dwelling(p, t)

\* A change of status is put in the log unless it is the first observation
\* or the peer was in maintenance at the time of the result
Reported(p, s, res, t) == /\ Judged(s, res, t).status # s.status
                          /\ s.status # "UNKNOWN"
                          /\ ~in_maintenance(p, t)

\* The reconnect task compares the time of the result with last_seen
ReconnectSync(s, res, t) == /\ s.status = "DEAD"
                            /\ Judged(s, res, t).status = "ALIVE"
                            /\ t - Judged(s, res, t).seen >= GapMin

\* The evidence so far ends in a run of equal results
Extend(run, res) == IF run.st = res THEN [run EXCEPT !.len = @ + 1]
                    ELSE [st |-> res, len |-> 1]

\* _maybe_transition on state s of peer p, with everything it records; an entry
\* that cannot be appended is given up, and the webhook sent all the same.
\* A webhook is awaited under the state lock
Record(p, s, res, t, who) ==
    LET event == IF res = "ALIVE" THEN "up" ELSE "down"
        fires == Reported(p, s, res, t) /\ ~Dwelling(p, t)
    IN  /\ IF Reported(p, s, res, t)
           THEN \/ log' = [log EXCEPT ![p] = Append(@, event)]
                \/ "log_fail" \in Disruptions /\ UNCHANGED log
           ELSE UNCHANGED log
        /\ lastAlert' = IF fires THEN [lastAlert EXCEPT ![p] = t] ELSE lastAlert
        /\ alerts' = IF fires
                     THEN [alerts EXCEPT ![p] = Append(@, [event |-> event, stamp |-> t])]
                     ELSE alerts
        /\ lock' = IF fires THEN [lock EXCEPT ![p] = who] ELSE lock
        /\ resync' = IF ReconnectSync(s, res, t) THEN resync \cup {p} ELSE resync
        /\ ev' = [ev EXCEPT ![p] = Extend(@, res)]

-----------------------------------------------------------------------------
(* History, and the states rebuilt from it *)

recent_rows(h, t) == {r \in h : r.ts >= t - Window}

Newest(h) == CHOOSE r \in h : \A q \in h : q.ts <= r.ts

\* How many of the newest rows have the same status
TailRun(h) == Cardinality({r \in h : \A q \in h : q.ts >= r.ts => q.st = r.st})

\* Mutant: a peer never seen gets a timestamp before the epoch
LastSeen_Negative(h) == LET alive == {r \in h : r.st = "ALIVE"}
                        IN  IF alive = {} THEN -1 ELSE Newest(alive).ts

LastSeen(h) == LET alive == {r \in h : r.st = "ALIVE"}
               IN  IF alive = {} THEN Never ELSE Newest(alive).ts

\* _hydrate_state_from_history on a fresh state
Hydrate(h) ==
    IF h = {} THEN FreshState
    ELSE IF Newest(h).st = "ALIVE"
    THEN [status |-> "ALIVE", fails |-> 0, succs |-> TailRun(h), seen |-> LastSeen(h)]
    ELSE [status |-> IF TailRun(h) >= DownAfter THEN "DEAD" ELSE "UNKNOWN",
          fails |-> TailRun(h), succs |-> 0, seen |-> LastSeen(h)]

\* _load_devices: the table holds new objects, fresh ones where the history of
\* the peer could not be read.  A probe in flight keeps the object it was
\* started with, which the table no longer refers to
load_devices(m) ==
    /\ devs' = m
    /\ \E unread \in SUBSET m :
          /\ unread # {} => "hist_fail" \in Disruptions
          /\ dev' = [p \in Peer |-> IF p \in m \ unread
                                    THEN Hydrate(recent_rows(hist[p], now))
                                    ELSE FreshState]

orphan_probes ==
    probe' = [p \in Peer |->
                IF probe[p].st = "connecting" /\ ~probe[p].orphan
                THEN [probe[p] EXCEPT !.orphan = TRUE, !.obj = dev[p]] ELSE probe[p]]

-----------------------------------------------------------------------------
(* The engine *)

Init == /\ now = 1
        /\ mon \in SUBSET Peer /\ window = [p \in Peer |-> NoWindow]
        /\ pending = FALSE /\ devs = mon /\ dev = [p \in Peer |-> FreshState]
        /\ cycle = FALSE /\ probe = [p \in Peer |-> NoProbe]
        /\ lock = [p \in Peer |-> "free"] /\ waiting = {}
        /\ hist = [p \in Peer |-> {}]
        /\ lastAlert = [p \in Peer |-> Never]
        /\ log = [p \in Peer |-> <<>>] /\ alerts = [p \in Peer |-> <<>>]
        /\ resync = {}
        /\ ev = [p \in Peer |-> [st |-> "UNKNOWN", len |-> 0]]

Advance == /\ now < MaxTime /\ now' = now + 1
           /\ \A p \in Peer : probe[p].st = "connecting" => now' - probe[p].at <= ProbeMax

Tick == Advance /\ UNCHANGED <<mon, window, engineVars, hist, log, ev>>

\* _run_heartbeat_cycle up to its gather, and _probe_peer up to its connect:
\* a peer in maintenance is not probed.  The scheduler runs one cycle at a time
StartCycle ==
    /\ ~cycle /\ devs # {} /\ cycle' = TRUE
    /\ Advance
    /\ probe' = [p \in Peer |->
                    IF p \in devs /\ ~in_maintenance(p, now')
                    THEN [NoProbe EXCEPT !.st = "connecting", !.at = now'] ELSE NoProbe]
    /\ UNCHANGED <<mon, window, pending, devs, dev, lock, waiting, hist, lastAlert,
                   log, alerts, resync, ev>>

\* The rest of _probe_peer, once the connect has succeeded, failed or timed
\* out and the state lock is free
FinishProbe(p) ==
    /\ probe[p].st = "connecting" /\ lock[p] = "free"
    /\ now' = now
    /\ \E res \in {"ALIVE", "DEAD"} :
          LET s == IF probe[p].orphan THEN probe[p].obj ELSE dev[p] IN
          /\ Record(p, s, res, probe[p].at, "probe")
          /\ dev' = IF probe[p].orphan THEN dev
                    ELSE [dev EXCEPT ![p] = Judged(s, res, probe[p].at)]
          /\ probe' = [probe EXCEPT ![p].st = "done", ![p].res = res]
    /\ UNCHANGED <<mon, window, pending, devs, cycle, waiting, hist>>

\* The notifier returned or raised: the coroutine leaves the state lock
WebhookDone(p) ==
    /\ lock[p] # "free"
    /\ lock' = [lock EXCEPT ![p] = "free"]
    /\ UNCHANGED <<now, mon, window, pending, devs, dev, cycle, probe, waiting, hist,
                   lastAlert, log, alerts, resync, ev>>

\* The gather returns and the results go to history in one batch
FinishCycle ==
    /\ cycle /\ cycle' = FALSE
    /\ \A p \in Peer : probe[p].st # "connecting" /\ lock[p] # "probe"
    /\ \/ hist' = [p \in Peer |->
                       IF probe[p].st = "done"
                       THEN hist[p] \cup {[ts |-> probe[p].at, st |-> probe[p].res]}
                       ELSE hist[p]]
       \/ "hist_fail" \in Disruptions /\ UNCHANGED hist
    /\ probe' = [p \in Peer |-> NoProbe]
    /\ UNCHANGED <<now, mon, window, pending, devs, dev, lock, waiting, lastAlert,
                   log, alerts, resync, ev>>

\* A push is authorized on arrival and may then have to wait for the state lock
PushWaits(p) ==
    /\ p \in mon /\ lock[p] # "free" /\ p \notin waiting
    /\ waiting' = waiting \cup {p}
    /\ UNCHANGED <<now, mon, window, pending, devs, dev, cycle, probe, lock, hist,
                   lastAlert, log, alerts, resync, ev>>

\* _record_push_from: a peer that is not in the table gets a transient state
Push(p) ==
    /\ p \in mon \cup waiting /\ lock[p] = "free"
    /\ waiting' = waiting \ {p}
    /\ Advance
    /\ LET s == IF p \in devs THEN dev[p] ELSE FreshState IN
       /\ Record(p, s, "ALIVE", now', "push")
       /\ dev' = IF p \in devs THEN [dev EXCEPT ![p] = Judged(s, "ALIVE", now')] ELSE dev
    /\ \/ hist' = [hist EXCEPT ![p] = @ \cup {[ts |-> now', st |-> "ALIVE"]}]
       \/ "hist_fail" \in Disruptions /\ UNCHANGED hist
    /\ UNCHANGED <<mon, window, pending, devs, cycle, probe>>

-----------------------------------------------------------------------------
(* Operators, reloads, restarts, housekeeping *)

\* engine.add_peer, revoke_peer, update_peer_permissions and set_peer_tags:
\* the trust view changes at once, the device table when the loop gets to it.
\* Adding a peer again starts a new record, without a maintenance window
ChangeTrust(p) ==
    /\ "reload" \in Disruptions /\ ~pending /\ pending' = TRUE
    /\ \/ mon' \in {mon \cup {p}, mon \ {p}} /\ UNCHANGED window
       \/ p \notin mon /\ mon' = mon \cup {p} /\ window' = [window EXCEPT ![p] = NoWindow]
    /\ UNCHANGED <<now, devs, dev, cycle, probe, lock, waiting, hist, lastAlert, log,
                   alerts, resync, ev>>

\* _apply_devices_reload, at any await of the coroutines above
ApplyDevicesReload ==
    /\ pending /\ pending' = FALSE
    /\ load_devices(mon)
    /\ orphan_probes
    /\ UNCHANGED <<now, mon, window, cycle, lock, waiting, hist, lastAlert, log,
                   alerts, resync, ev>>

\* _check_reload when another process has changed the trust log, called at
\* the start of a cycle or by POST /v1/reload: other peers, and other windows
CheckReload ==
    /\ "external" \in Disruptions
    /\ \E m \in SUBSET Peer : mon' = m /\ load_devices(m)
    /\ \E changed \in SUBSET Peer, w \in {NoWindow, [start |-> now, end |-> now + MaintLen]} :
          window' = [p \in Peer |-> IF p \in changed THEN w ELSE window[p]]
    /\ orphan_probes
    /\ UNCHANGED <<now, pending, cycle, lock, waiting, hist, lastAlert, log,
                   alerts, resync, ev>>

ScheduleMaintenance(p) ==
    /\ "maintenance" \in Disruptions
    /\ \E start \in {now, now + 1} :
          window' = [window EXCEPT ![p] = [start |-> start, end |-> start + MaintLen]]
    /\ UNCHANGED <<now, mon, engineVars, hist, log, ev>>

ClearMaintenance(p) ==
    /\ window[p] # NoWindow /\ window' = [window EXCEPT ![p] = NoWindow]
    /\ UNCHANGED <<now, mon, engineVars, hist, log, ev>>

\* The process ends, in the middle of anything, and a new one loads devices
Restart ==
    /\ "restart" \in Disruptions
    /\ pending' = FALSE /\ cycle' = FALSE
    /\ load_devices(mon)
    /\ probe' = [p \in Peer |-> NoProbe]
    /\ lock' = [p \in Peer |-> "free"] /\ waiting' = {}
    /\ lastAlert' = [p \in Peer |-> Never] /\ alerts' = [p \in Peer |-> <<>>]
    /\ resync' = {}
    /\ UNCHANGED <<now, mon, window, hist, log, ev>>

\* _run_history_gc forgets the alerts of peers that left the table
HistoryGC ==
    /\ \E p \in Peer \ devs : lastAlert[p] # Never
    /\ lastAlert' = [p \in Peer |-> IF p \in devs THEN lastAlert[p] ELSE Never]
    /\ alerts' = [p \in Peer |-> IF p \in devs THEN alerts[p] ELSE <<>>]
    /\ UNCHANGED <<now, mon, window, pending, devs, dev, cycle, probe, lock, waiting,
                   hist, log, resync, ev>>

Next == \/ Tick \/ StartCycle \/ FinishCycle \/ ApplyDevicesReload \/ CheckReload
        \/ Restart \/ HistoryGC
        \/ \E p \in Peer : \/ FinishProbe(p) \/ WebhookDone(p) \/ PushWaits(p) \/ Push(p)
                           \/ ChangeTrust(p) \/ ScheduleMaintenance(p)
                           \/ ClearMaintenance(p)

Spec == Init /\ [][Next]_vars

-----------------------------------------------------------------------------
(* Properties *)

Row == [ts : Nat, st : {"ALIVE", "DEAD"}]
PeerState == [status : Status, fails : Nat, succs : Nat, seen : Nat]

\* Every variable holds a value of its type.
TypeOK ==
    /\ now \in Nat /\ mon \subseteq Peer
    /\ window \in [Peer -> [start : Nat, end : Nat]]
    /\ pending \in BOOLEAN /\ devs \subseteq Peer /\ dev \in [Peer -> PeerState]
    /\ cycle \in BOOLEAN
    /\ probe \in [Peer -> [st : {"idle", "connecting", "done"}, at : Nat,
                            orphan : BOOLEAN, obj : PeerState, res : Status]]
    /\ lock \in [Peer -> {"free", "probe", "push"}] /\ waiting \subseteq Peer
    /\ hist \in [Peer -> SUBSET Row] /\ \A p \in Peer : IsFiniteSet(hist[p])
    /\ lastAlert \in [Peer -> Nat]
    /\ log \in [Peer -> Seq({"up", "down"})]
    /\ alerts \in [Peer -> Seq([event : {"up", "down"}, stamp : Nat])]
    /\ resync \subseteq Peer
    /\ ev \in [Peer -> [st : Status, len : Nat]]

\* The step adds an entry about p to the log only if the evidence bears it out
EarnedStep ==
    \A p \in Peer : log'[p] # log[p] =>
        LET event == log'[p][Len(log'[p])] IN
        IF event = "down" THEN ev'[p].st = "DEAD" /\ ev'[p].len >= DownAfter
        ELSE ev'[p].st = "ALIVE" /\ ev'[p].len >= UpAfter

\* A monitor_down entry is written only when the newest down_after results for
\* the peer, across restarts and lost history, all failed; a monitor_up entry
\* only after up_after successes in a row.
ReportsEarned == [][EarnedStep]_vars

\* While nothing disturbs the engine, the log and the dashboard agree: a peer
\* is DEAD exactly when the last entry about it is monitor_down.
StatusMatchesLog ==
    \A p \in devs : dev[p].status = "DEAD" <=>
                       (log[p] # <<>> /\ log[p][Len(log[p])] = "down")

\* A monitored peer whose recorded history shows it alive and then failing
\* down_after times in a row is DEAD: no outage of a known-live peer goes
\* unnoticed.  A success that is counted but not yet in history, which is written
\* at the end of the cycle, may have ended the outage.  engine.py says of a
\* restart that "the threshold machine picks up where it left off".
OutageDetected ==
    \A p \in devs : (/\ \E r \in hist[p] : r.st = "ALIVE"
                     /\ Newest(hist[p]).st = "DEAD" /\ TailRun(hist[p]) >= DownAfter
                     /\ ~(probe[p].st = "done" /\ probe[p].res = "ALIVE"))
                    => dev[p].status = "DEAD"

\* The timestamps of two webhooks about a peer are at least the dwell apart,
\* whatever probes, pushes and reloads interleave, until a restart or the
\* garbage collection of a removed peer forgets the last one.
StampsDwell ==
    Dwell > 0 => \A p \in Peer : \A i \in 1..(Len(alerts[p]) - 1) :
                    alerts[p][i + 1].stamp - alerts[p][i].stamp >= Dwell

-----------------------------------------------------------------------------
(* The abstract detector *)

\* The counter that will decide the next transition of s
Contradictions(s) == IF s.status = "ALIVE" THEN s.fails
                     ELSE IF s.status = "DEAD" THEN s.succs ELSE 0

Verdict == [p \in Peer |-> dev[p].status]
Against == [p \in Peer |-> Contradictions(dev[p])]

Detector == INSTANCE FailureDetector WITH verdict <- Verdict, against <- Against, run <- ev

\* The two counters of each PeerState, probes and pushes on one event loop, the
\* log and the webhooks implement the abstract failure detector over restarts,
\* maintenance windows and failing writes: every result counts once, a verdict
\* turns exactly when down_after or up_after results in a row contradict it, and
\* the log tells of nothing else.
ImplementsDetector == Detector!Spec
=============================================================================
