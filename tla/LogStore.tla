------------------------------ MODULE LogStore ------------------------------
(***************************************************************************)
(* The log store of a monitored node (src/src/logstore.py) and the jobs    *)
(* of the engine that fill it, roll it up and prune it                     *)
(* (src/src/engine.py): raw snapshots, 5-minute buckets, hourly buckets,   *)
(* daily summaries and container events.                                   *)
(*                                                                         *)
(* What a bucket says (averages, maxima, deltas, the number of samples) is *)
(* computed from the snapshots it aggregates; here a bucket is the set of  *)
(* their timestamps.  One tick is one stats interval.  A job runs in a     *)
(* worker thread and takes the store's lock once to read and once to       *)
(* write, so a job is a read step and a write step.                        *)
(***************************************************************************)
EXTENDS Integers, FiniteSets, FiniteSetsExt

CONSTANTS
    B5,        \* BUCKET_5MIN_SECS, and the period of the 5-minute job
    HOUR,      \* BUCKET_1HOUR_SECS, and the period of the hourly job
    DAY,       \* 24 h: the period of the daily job, the age for roll_hourly
    WEEK,      \* 7 d: the age for roll_daily
    RawRetain, \* RAW_RETAIN_HOURS
    B5Retain,  \* BUCKET_5MIN_RETAIN_DAYS
    MaxTime,   \* bound: the clock
    MaxFaults, \* bound: failing jobs, restarts and sleeps together
    MaxMoves,  \* bound: state changes of the container
    MaxSlow,   \* bound: ticks that overtake an insert
    Grace,     \* misfire_grace_time
    Jumps      \* how long the machine may sleep or the daemon be down

ASSUME SpanAssumption == /\ {B5, HOUR, DAY, WEEK, RawRetain, B5Retain} \subseteq Nat \ {0}
                         /\ HOUR % B5 = 0 /\ DAY % HOUR = 0
                         /\ {MaxTime, MaxFaults, MaxMoves, MaxSlow, Grace} \cup Jumps \subseteq Nat

VARIABLES
    now,    \* the clock
    raw,    \* raw_snapshots of this node: records [ts, seq, box]
    five,   \* stat_buckets of 5 minutes: records [start, of]
    hourly, \* stat_buckets of 1 hour: also the ghost made, when they were
    daily,  \* daily_summaries: records [start, of, incidents]
    events, \* the event log: records [ts, event]
    due,    \* next run of each job
    job,    \* what each running job has read and not yet written
    box,    \* the container: "running", "sick" (running, unhealthy), "paused"
            \* (or any other status the code does not name) or "exited"
    prev,   \* _prev_containers_by_name: its last known state, or Absent
    faults, \* failures so far
    moves,  \* changes of box so far
    slow,   \* ticks so far that overtook an insert
    taken,  \* ghost: timestamps of all snapshots inserted so far
    late,   \* ghost: those of snapshots inserted after the end of their window
    unsaid  \* ghost: times of stats cycles that failed half way

store == <<raw, five, hourly, daily, events>>
svars == <<now, store, due, job, box, prev, faults, moves, slow, taken, late, unsaid>>

Jobs == {"stats", "roll5", "hourly", "daily"}
Period == [j \in Jobs |-> CASE j = "stats" -> 1 [] j = "roll5" -> B5
                            [] j = "hourly" -> HOUR [] j = "daily" -> DAY]
Idle == [pc |-> "idle"]
Absent == "absent"
Up == {"running", "sick"}   \* status "running"
BoxStates == Up \cup {"paused", "exited"}

Init ==
    /\ now = 0 /\ raw = {} /\ five = {} /\ hourly = {} /\ daily = {}
    /\ events = {[ts |-> 0, event |-> "agent_started"]}
    /\ due = Period /\ job = [j \in Jobs |-> Idle]
    /\ box = "running" /\ prev = Absent
    /\ faults = 0 /\ moves = 0 /\ slow = 0 /\ taken = {} /\ late = {} /\ unsaid = {}

-----------------------------------------------------------------------------
(* Time and the scheduler *)

\* No job is between its read and its write, the stats cycle apart: that one
\* may wait with its time stamp taken and the snapshot not yet inserted.  Only
\* there a step made earlier dates a later one; the other jobs write what they
\* have read, with the lock, and their last step has a clock reading of its own.
Quiet == \A j \in Jobs \ {"stats"} : job[j] = Idle

NextDue(j, t) == t - ((t - due[j]) % Period[j]) + Period[j]

\* Time goes on once the jobs that are due have run: a step of a job takes
\* milliseconds, a tick is ten seconds.  An insert that waits for the lock may
\* see one tick pass.
Tick ==
    /\ now < MaxTime /\ now' = now + 1
    /\ Quiet /\ \A j \in Jobs : due[j] > now
    /\ IF job["stats"] = Idle THEN slow' = slow
       ELSE job["stats"].ts = now /\ slow < MaxSlow /\ slow' = slow + 1
    /\ UNCHANGED <<store, due, job, box, prev, faults, moves, taken, late, unsaid>>

\* The machine sleeps; APScheduler runs a job that was due meanwhile once
\* (coalesce), or not at all when its last due time is past the grace time
Suspend(k) ==
    /\ Quiet
    /\ faults < MaxFaults /\ faults' = faults + 1
    /\ now + k <= MaxTime /\ now' = now + k
    /\ due' = [j \in Jobs |-> IF due[j] <= now' /\ now' > NextDue(j, now') - Period[j] + Grace
                             THEN NextDue(j, now') ELSE due[j]]
    /\ UNCHANGED <<store, job, box, prev, moves, slow, taken, late, unsaid>>

\* The daemon stops at any point and starts k later; the intervals start anew
Restart(k) ==
    /\ faults < MaxFaults /\ faults' = faults + 1
    /\ now + k <= MaxTime /\ now' = now + k
    /\ events' = events \cup {[ts |-> now + k, event |-> "agent_started"]}
    /\ due' = [j \in Jobs |-> now + k + Period[j]]
    /\ job' = [j \in Jobs |-> Idle] /\ prev' = Absent
    /\ UNCHANGED <<raw, five, hourly, daily, box, moves, slow, taken, late, unsaid>>

\* Only a stats cycle looks at the container, so that it is enough to let it
\* change just before one
MoveBox == /\ moves < MaxMoves /\ moves' = moves + 1
           /\ due["stats"] <= now /\ Quiet /\ job["stats"] = Idle
           /\ box' \in BoxStates \ {box}
           /\ UNCHANGED <<now, store, due, job, prev, faults, slow, taken, late, unsaid>>

Start(j, work) ==
    /\ due[j] <= now /\ job[j] = Idle
    /\ due' = [due EXCEPT ![j] = NextDue(j, now)]
    /\ job' = [job EXCEPT ![j] = work]

Finish(j) == job' = [job EXCEPT ![j] = Idle]

\* max_instances: a stats cycle that is due while one waits is skipped
StatsSkipped ==
    /\ due["stats"] <= now /\ job["stats"] # Idle
    /\ due' = [due EXCEPT !["stats"] = NextDue("stats", now)]
    /\ UNCHANGED <<now, store, job, box, prev, faults, moves, slow, taken, late, unsaid>>

\* A job raises: the engine logs the error and the transaction is rolled back
JobFails(j) ==
    /\ job[j] # Idle /\ Finish(j)
    /\ faults < MaxFaults /\ faults' = faults + 1
    /\ unsaid' = IF j = "stats" THEN unsaid \cup {job[j].ts} ELSE unsaid
    /\ UNCHANGED <<now, store, due, box, prev, moves, slow, taken, late>>

-----------------------------------------------------------------------------
(* The stats cycle *)

Floor(t, span) == t - (t % span)

Newest == CHOOSE r \in raw : \A s \in raw : s.ts <= r.ts
latest_snapshot_box == IF raw = {} THEN Absent ELSE Newest.box

\* What the comparison of two states of the container records
Detected(old, new) ==
    IF old = Absent \/ new = Absent THEN {}
    ELSE {e \in {"container_exited", "container_restarted", "container_unhealthy"} :
            \/ e = "container_exited" /\ old \in Up /\ new = "exited"
            \/ e = "container_restarted" /\ old = "exited" /\ new \in Up
            \/ e = "container_unhealthy" /\ old # "sick" /\ new = "sick"}

\* Mutant: the cold start has no baseline
Baseline_None == prev

\* _check_container_events starts from the cache, or after a start from disk
Baseline == IF prev # Absent THEN prev ELSE latest_snapshot_box

\* _run_stats_cycle up to the insert: collect (Docker may not answer), compare,
\* record events
StatsCycle ==
    \E new \in {box, Absent} :
      /\ Start("stats", [pc |-> "insert", ts |-> now, box |-> new])
      /\ events' = events \cup {[ts |-> now, event |-> e] : e \in Detected(Baseline, new)}
      /\ prev' = new
      /\ faults' = IF new = Absent THEN faults + 1 ELSE faults
      /\ faults' <= MaxFaults
      /\ UNCHANGED <<now, raw, five, hourly, daily, box, moves, slow, taken, late, unsaid>>

\* An event cannot be recorded: the cycle ends there, the cache is new
StatsEventFails ==
    /\ faults < MaxFaults /\ faults' = faults + 1
    /\ Start("stats", Idle)
    /\ \E done \in SUBSET Detected(Baseline, box) :
         /\ done # Detected(Baseline, box)
         /\ events' = events \cup {[ts |-> now, event |-> e] : e \in done}
    /\ prev' = box /\ unsaid' = unsaid \cup {now}
    /\ UNCHANGED <<now, raw, five, hourly, daily, box, moves, slow, taken, late>>

next_seq == Max({r.seq : r \in raw} \cup {0}) + 1

\* INSERT OR REPLACE on the timestamp, which was taken before the lock
record_snapshot ==
    /\ job["stats"] # Idle /\ Finish("stats")
    /\ LET j == job["stats"]
       IN /\ raw' = {r \in raw : r.ts # j.ts} \cup {[ts |-> j.ts, seq |-> next_seq, box |-> j.box]}
          /\ taken' = taken \cup {j.ts}
          /\ late' = IF Floor(j.ts, B5) < Floor(now, B5) THEN late \cup {j.ts} ELSE late
    /\ UNCHANGED <<now, five, hourly, daily, events, due, box, prev, faults, moves, slow, unsaid>>

-----------------------------------------------------------------------------
(* Rollups *)

Grouped(rows, span) ==
    {[start |-> w, of |-> {t \in rows : Floor(t, span) = w}] : w \in {Floor(t, span) : t \in rows}}

\* Mutant: a plain INSERT, without the key
InsertOrIgnore_Plain(table, new) == table \cup new

InsertOrIgnore(table, new) == table \cup {b \in new : \A a \in table : a.start # b.start}

\* Mutant: the window that is still open is rolled up too
Cutoff_Open == now + 1

\* The end of the last complete window
Cutoff == Floor(now, B5)

\* Mutant: the last bucket's window is read again, and earlier ones are not
LowerBound_Now == Floor(now, B5) - B5

LowerBound == Max({b.start + B5 : b \in five} \cup {0})

Rows5 == {r.ts : r \in {s \in raw : LowerBound <= s.ts /\ s.ts < Cutoff}}

roll_up_5min ==
    /\ Start("roll5", IF Rows5 = {} THEN Idle
                      ELSE [pc |-> "write", buckets |-> Grouped(Rows5, B5)])
    /\ UNCHANGED <<now, store, box, prev, faults, moves, slow, taken, late, unsaid>>

roll_up_5min_write ==
    /\ job["roll5"] # Idle /\ Finish("roll5")
    /\ five' = InsertOrIgnore(five, job["roll5"].buckets)
    /\ UNCHANGED <<now, raw, hourly, daily, events, due, box, prev, faults, moves, slow, taken, late, unsaid>>

\* The union of the buckets of one coarser window, for all of them
Merged(rows, span) ==
    {[start |-> w, of |-> UNION {b.of : b \in {c \in rows : Floor(c.start, span) = w}}] :
        w \in {Floor(b.start, span) : b \in rows}}

\* Mutant: the window at the age limit is left for the next run
DayOld_Strict == {b \in five : b.start < now - DAY}

DayOld == {b \in five : b.start <= now - DAY}

roll_hourly ==
    /\ Start("hourly", [pc |-> "write", buckets |-> Merged(DayOld, HOUR)])
    /\ UNCHANGED <<now, store, box, prev, faults, moves, slow, taken, late, unsaid>>

roll_hourly_write ==
    /\ job["hourly"].pc = "write" /\ job' = [job EXCEPT !["hourly"] = [pc |-> "prune"]]
    /\ hourly' = InsertOrIgnore(hourly, {[start |-> b.start, of |-> b.of, made |-> now] :
                                            b \in job["hourly"].buckets})
    /\ UNCHANGED <<now, raw, five, daily, events, due, box, prev, faults, moves, slow, taken, late, unsaid>>

RawCutoff == now - RawRetain

prune ==
    /\ job["hourly"].pc = "prune" /\ Finish("hourly")
    /\ raw' = {r \in raw : r.ts >= RawCutoff}
    /\ five' = {b \in five : b.start >= now - B5Retain}
    /\ UNCHANGED <<now, hourly, daily, events, due, box, prev, faults, moves, slow, taken, late, unsaid>>

\* Containers that exited or became unhealthy from one midnight to the next
Incidents(day) == Cardinality({e \in events : /\ e.event \in {"container_exited", "container_unhealthy"}
                                              /\ day <= e.ts /\ e.ts <= day + DAY})

roll_daily ==
    /\ Start("daily", LET rows == {b \in hourly : b.start <= now - WEEK}
                      IN IF rows = {} THEN Idle
                         ELSE [pc |-> "write",
                               days |-> {[start |-> d.start, of |-> d.of,
                                          incidents |-> Incidents(d.start)] : d \in Merged(rows, DAY)}])
    /\ UNCHANGED <<now, store, box, prev, faults, moves, slow, taken, late, unsaid>>

roll_daily_write ==
    /\ job["daily"] # Idle /\ Finish("daily")
    /\ daily' = InsertOrIgnore(daily, job["daily"].days)
    /\ UNCHANGED <<now, raw, five, hourly, events, due, box, prev, faults, moves, slow, taken, late, unsaid>>

StoreNext ==
    \/ Tick \/ MoveBox
    \/ \E k \in Jumps : Suspend(k) \/ Restart(k)
    \/ \E j \in Jobs : JobFails(j)
    \/ StatsCycle \/ StatsEventFails \/ record_snapshot \/ StatsSkipped
    \/ roll_up_5min \/ roll_up_5min_write
    \/ roll_hourly \/ roll_hourly_write \/ prune
    \/ roll_daily \/ roll_daily_write

Spec == Init /\ [][StoreNext]_svars

-----------------------------------------------------------------------------
(* Properties *)

\* How old a snapshot can become before it is rolled up, when the machine is
\* never away longer than J: its window, a period, and for every failure, sleep
\* or restart a period and the time away.
Late(J) == 2 * B5 + MaxFaults * (B5 + J)

\* Raw snapshots outlive that, and each tier the one below it.  The code keeps
\* raw snapshots for 24 periods of the 5-minute job (RAW_RETAIN_HOURS = 2) and
\* prunes them by age alone: this is what that relies on.
Timing(J) ==
    /\ J \in Nat /\ \A k \in Jumps : k <= J
    /\ Late(J) <= RawRetain /\ Late(J) < DAY
    /\ RawRetain + B5 <= B5Retain /\ DAY <= B5Retain

\* Every table holds rows of its kind, and no two rows with the same key.
TypeOK ==
    /\ now \in 0..MaxTime /\ taken \subseteq 0..MaxTime /\ late \subseteq taken
    /\ raw \subseteq [ts: 0..MaxTime, seq: Nat, box: BoxStates \cup {Absent}]
    /\ \A r, s \in raw : r.ts = s.ts => r = s
    /\ \A table \in {five, hourly, daily} : \A a, b \in table : a.start = b.start => a = b
    /\ \A e \in events : e.ts \in 0..now
    /\ box \in BoxStates /\ prev \in BoxStates \cup {Absent}
    /\ due \in [Jobs -> Nat] /\ faults \in 0..MaxFaults /\ moves \in 0..MaxMoves
    /\ slow \in 0..MaxSlow

\* A 5-minute bucket aggregates only snapshots of its window and all of them
\* that were inserted before the window ended, whatever the order of the jobs: a
\* failed rollup is made up for, a window is never rolled up too early.  What is
\* inserted later, because record_snapshot takes its time stamp before the lock,
\* may be missing for good.
FiveExact ==
    \A b \in five : /\ \A t \in b.of : t \in taken /\ Floor(t, B5) = b.start
                   /\ \A t \in taken \ late : Floor(t, B5) = b.start => t \in b.of

\* prune never removes a raw snapshot before roll_up_5min has passed its window:
\* until the buckets themselves expire each snapshot is there, or the bucket of
\* its window is.
NothingLost == \A t \in taken : \/ Floor(t, B5) < now - B5Retain
                                \/ \E r \in raw : r.ts = t
                                \/ \E b \in five : b.start = Floor(t, B5)

\* An hour bucket has the 5-minute windows of its hour that were a day old when
\* roll_hourly first saw that hour, and no others: the age limit is taken from
\* the clock and not from the hour, so that an hour is usually made of its first
\* windows, and the conflict clause keeps it so.
HourExact ==
    \A h \in hourly :
        LET Old(t) == Floor(t, HOUR) = h.start /\ Floor(t, B5) <= h.made - DAY
        IN /\ \A t \in h.of : t \in taken /\ Old(t)
           /\ \A t \in taken \ late : Old(t) => t \in h.of

\* A container that one stored snapshot shows running and the next one exited
\* has an event, also when the daemon was restarted in between, unless a stats
\* cycle in between failed half way.
ExitsRecorded ==
    \A r \in {x \in raw : x.box \in Up}, s \in {x \in raw : x.box = "exited"} :
        (r.ts < s.ts /\ \A x \in raw : x.ts <= r.ts \/ x.ts >= s.ts) =>
        \/ \E e \in events : e.event = "container_exited" /\ r.ts <= e.ts /\ e.ts <= s.ts
        \/ \E t \in unsaid : r.ts <= t /\ t <= s.ts
=============================================================================
