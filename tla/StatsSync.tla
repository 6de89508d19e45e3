------------------------------ MODULE StatsSync ------------------------------
(***************************************************************************)
(* How a monitoring node follows the statistics of a monitored one: the    *)
(* delta pull of STATUS_ALPN (src/src/alpn/status.py), which keeps a chart *)
(* and a cursor in memory, and the gap sync of SYNC_ALPN                   *)
(* (src/src/alpn/sync.py), which mirrors rows and buckets in the log store *)
(* of the monitoring node.  The monitored node is LogStore.                *)
(*                                                                         *)
(* Pulls and syncs cross the network: an answer may be lost, late or come  *)
(* to an object that a reload of the device table has replaced meanwhile.  *)
(***************************************************************************)
EXTENDS LogStore, Sequences

CONSTANTS
    MaxEntries, \* the cap of get_delta_since_seq
    MaxLen,     \* STATS_HISTORY_MAXLEN, of the chart
    HALF,       \* 30 min: raw snapshots sent along with 5-minute buckets
    Sinces,     \* bound: the times a caller may ask a sync from
    MaxExchanges \* bound: exchanges started, a sync counted as two

ASSUME SyncAssumption == /\ {MaxEntries, MaxLen, HALF} \subseteq Nat \ {0}
                         /\ MaxExchanges \in Nat

VARIABLES
    chart,  \* stats_history: the timestamps of the entries, oldest first
    cursor, \* last_pulled_seq
    pull,   \* the pull in flight
    mraw,   \* mirrored raw_snapshots: [ts, of], of the snapshot's own time
    mfive, mhourly, mdaily, mevents, \* the other mirrored tables
    sync,   \* the sync in flight
    exchanges, \* started so far
    gap     \* ghost: [epoch, seen, hole], see Renumbering below

client == <<chart, cursor, pull>>
mirror == <<mraw, mfive, mhourly, mdaily, mevents>>
vars == <<svars, client, mirror, sync, exchanges, gap>>

None == -1

SyncInit ==
    /\ Init
    /\ chart = <<>> /\ cursor = 0 /\ pull = Idle
    /\ mraw = {} /\ mfive = {} /\ mhourly = {} /\ mdaily = {} /\ mevents = {}
    /\ sync = Idle /\ exchanges = 0
    /\ gap = [epoch |-> 0, seen |-> 0, hole |-> None]

Exchange(n) == /\ exchanges + n <= MaxExchanges /\ exchanges' = exchanges + n

\* A lost message, a reload or a restart of the client
Lose == /\ faults < MaxFaults /\ faults' = faults + 1
        /\ UNCHANGED <<now, store, due, job, box, prev, moves, slow, taken, late, unsaid>>

\* The monitored node goes on by itself.  Renumbering: the ghost notes when a
\* prune has emptied the table, since the numbers then start at 1 again.
ServerStep ==
    /\ StoreNext
    /\ gap' = IF raw # {} /\ raw' = {} THEN [gap EXCEPT !.epoch = now] ELSE gap
    /\ UNCHANGED <<client, mirror, sync, exchanges>>

-----------------------------------------------------------------------------
(* The delta pull *)

latest_seq == Max({r.seq : r \in raw} \cup {0})

\* Mutant: rows from the cursor on instead of rows after it
DeltaRows_From(since) == {r \in raw : r.seq >= Max({since, latest_seq - MaxEntries})}

\* The rows of get_delta_since_seq
DeltaRows(since) == {r \in raw : r.seq > Max({since, latest_seq - MaxEntries})}

\* ORDER BY seq ASC
Ascending(rows) ==
    CHOOSE s \in [1..Cardinality(rows) -> rows] :
        /\ \A i, j \in 1..Cardinality(rows) : i < j => s[i].seq < s[j].seq
        /\ \A r \in rows : \E i \in 1..Cardinality(rows) : s[i] = r

get_delta_since_seq(since) ==
    [latest |-> latest_seq,
     entries |-> [i \in 1..Cardinality(DeltaRows(since)) |-> Ascending(DeltaRows(since))[i].ts]]

\* _pull_one_peer_dashboard_inner up to the first await; the scheduler runs
\* one pull at a time
PullAsk ==
    /\ pull = Idle /\ Exchange(1)
    /\ pull' = [pc |-> "asked", since |-> cursor, retried |-> FALSE, mine |-> TRUE]
    /\ UNCHANGED <<svars, chart, cursor, mirror, sync, gap>>

\* StatusProtocol.accept
PullServe ==
    /\ pull.pc = "asked"
    /\ pull' = [pc |-> "answered", since |-> pull.since, retried |-> pull.retried, mine |-> pull.mine,
                delta |-> get_delta_since_seq(pull.since), at |-> now, epoch |-> gap.epoch,
                own |-> IF raw = {} THEN None ELSE Newest.ts]
    /\ UNCHANGED <<svars, chart, cursor, mirror, sync, exchanges, gap>>

\* The request or the answer is lost: the first time it is sent again by the
\* relay, with the same cursor; then the pull fails
PullLost ==
    /\ pull # Idle /\ Lose
    /\ pull' = IF pull.retried THEN Idle
               ELSE [pc |-> "asked", since |-> pull.since, retried |-> TRUE, mine |-> pull.mine]
    /\ UNCHANGED <<exchanges, chart, cursor, mirror, sync, gap>>

LastOf(seq, n) == IF Len(seq) <= n THEN seq ELSE SubSeq(seq, Len(seq) - n + 1, Len(seq))

\* Mutant: the state is looked up again after the await
Owner_Current == TRUE

\* The answer goes to the PeerState that the pull started with
Owner == pull.mine

\* The live merge stores the newest snapshot under the time of its arrival
LiveMerge == IF pull.own = None \/ \E m \in mraw : m.ts = now THEN mraw
             ELSE mraw \cup {[ts |-> now, of |-> pull.own]}

PullApply ==
    /\ pull.pc = "answered" /\ pull' = Idle
    /\ IF Owner
       THEN /\ chart' = LastOf(chart \o pull.delta.entries, MaxLen)
            /\ cursor' = pull.delta.latest
            /\ gap' = [gap EXCEPT !.seen = pull.epoch,
                          !.hole = IF pull.epoch # gap.seen /\ pull.since > 0 THEN pull.at ELSE @]
       ELSE UNCHANGED <<chart, cursor, gap>>
    /\ mraw' = LiveMerge
    /\ UNCHANGED <<svars, mfive, mhourly, mdaily, mevents, sync, exchanges>>

\* _load_devices: a new PeerState, also while a pull is in flight
DevicesReload ==
    /\ Lose /\ chart' = <<>> /\ cursor' = 0
    /\ pull' = IF pull = Idle THEN Idle ELSE [pull EXCEPT !.mine = FALSE]
    /\ gap' = [gap EXCEPT !.hole = None]
    /\ UNCHANGED <<exchanges, mirror, sync>>

\* A restart of the monitoring node: what was in flight is gone
ClientRestart ==
    /\ Lose /\ chart' = <<>> /\ cursor' = 0 /\ pull' = Idle /\ sync' = Idle
    /\ gap' = [gap EXCEPT !.hole = None]
    /\ UNCHANGED <<exchanges, mirror>>

-----------------------------------------------------------------------------
(* The gap sync *)

\* sync_peer from a time the caller gives (POST /v1/peers/<id>/sync), or from
\* the newest mirrored row.  last_seen_for_peer compares event times in
\* milliseconds with the others in seconds and cannot convert the maximum back
\* to a date, so with an event in the mirror that call raises.
SyncAsk(since) ==
    /\ sync = Idle /\ Exchange(2)
    /\ \/ since \in 0..now
       \/ /\ since = None /\ mevents = {}
          /\ mraw = {} /\ mfive = {} /\ mhourly = {} /\ mdaily = {}
    /\ sync' = [pc |-> "asked", since |-> since]
    /\ UNCHANGED <<svars, client, mirror, gap>>

\* The same from the newest mirrored row
SyncAskCursor ==
    /\ sync = Idle /\ Exchange(2)
    /\ mevents = {} /\ mraw \cup mfive \cup mhourly \cup mdaily # {}
    /\ sync' = [pc |-> "asked",
                since |-> Max({m.ts : m \in mraw} \cup {b.start + B5 : b \in mfive}
                              \cup {b.start + HOUR : b \in mhourly} \cup {d.start : d \in mdaily})]
    /\ UNCHANGED <<svars, client, mirror, gap>>

\* Mutant: no raw rows next to the 5-minute buckets but the newest
RawTail_Short == now

RawTail == now - HALF

Strategy(since) == CASE since = None          -> "daily"
                     [] now - since < HOUR    -> "raw"
                     [] now - since < DAY     -> "5min"
                     [] now - since < WEEK    -> "1hour"
                     [] OTHER                 -> "daily"

RowsFrom(since) == {[ts |-> r.ts, of |-> r.ts] : r \in {q \in raw : q.ts >= since}}
From(table, since) == {b \in table : b.start >= since}
EmptyPayload == [raw |-> {}, five |-> {}, hourly |-> {}, daily |-> {}]

get_sync_payload(since) ==
    CASE Strategy(since) = "raw"   -> [EmptyPayload EXCEPT !.raw = RowsFrom(since)]
      [] Strategy(since) = "5min"  -> [EmptyPayload EXCEPT !.raw = RowsFrom(RawTail),
                                                           !.five = From(five, since)]
      [] Strategy(since) = "1hour" -> [EmptyPayload EXCEPT !.hourly = From(hourly, since)]
      [] OTHER                     -> [EmptyPayload EXCEPT !.daily = From(daily, Floor(since, DAY))]

\* SyncProtocol.accept; an answer above SYNC_RESPONSE_MAX falls back to days
SyncServe ==
    /\ sync.pc = "asked"
    /\ \E big \in BOOLEAN :
         sync' = [pc |-> "answered", since |-> sync.since, at |-> now,
                  strategy |-> IF big THEN "daily_fallback" ELSE Strategy(sync.since),
                  stored |-> {r.ts : r \in raw} \cup UNION {b.of : b \in five}, \* ghost
                  faults |-> faults, \* ghost
                  events |-> {e \in events : e.ts >= sync.since},
                  payload |-> IF big THEN [EmptyPayload EXCEPT !.daily = From(daily, Floor(sync.since, DAY))]
                              ELSE get_sync_payload(sync.since)]
    /\ UNCHANGED <<svars, client, mirror, exchanges, gap>>

SyncLost == /\ sync # Idle /\ Lose /\ sync' = Idle
            /\ UNCHANGED <<exchanges, client, mirror, gap>>

\* INSERT OR IGNORE on the time of a raw row
MergeRows(new) == mraw \cup {m \in new : \A o \in mraw : o.ts # m.ts}

\* merge_sync_payload
SyncApply ==
    /\ sync.pc = "answered" /\ sync' = Idle
    /\ LET new == sync.payload
       IN /\ mraw' = MergeRows(new.raw)
          /\ mfive' = InsertOrIgnore(mfive, new.five)
          /\ mhourly' = InsertOrIgnore(mhourly, new.hourly)
          /\ mdaily' = {d \in mdaily : \A n \in new.daily : n.start # d.start} \cup new.daily
    /\ mevents' = mevents \cup sync.events
    /\ UNCHANGED <<svars, client, exchanges, gap>>

Next ==
    \/ ServerStep
    \/ PullAsk \/ PullServe \/ PullLost \/ PullApply
    \/ DevicesReload \/ ClientRestart
    \/ \E since \in {None} \cup Sinces : SyncAsk(since)
    \/ SyncAskCursor \/ SyncServe \/ SyncLost \/ SyncApply

SyncSpec == SyncInit /\ [][Next]_vars

-----------------------------------------------------------------------------
(* Properties *)

\* The chart shows each snapshot once and in the order they were taken, through
\* lost answers, the relay retry, reloads of the device table with a pull in
\* flight, and numbers that start again.
ChartOrdered == \A i \in 1..(Len(chart) - 1) : chart[i] < chart[i + 1]

\* Once a pull is applied the chart has every stored row up to the cursor that
\* the caps leave room for.  The one exception: when the numbers have started
\* again (a prune emptied the table), rows stored before the first pull after
\* that may be below the old cursor and are missed.
ChartComplete ==
    \A r \in raw :
        (r.seq <= cursor /\ r.seq > latest_seq - Min({MaxEntries, MaxLen})
           /\ gap.seen = gap.epoch /\ r.ts > gap.hole)
        => \E i \in 1..Len(chart) : chart[i] = r.ts

\* How far roll_up_5min can be behind after f faults: its window, a period, and
\* for every fault a period and the longest time away.
Longest == Max({k \in Jumps : k <= MaxTime} \cup {0})
Lag(f) == 2 * B5 + f * (B5 + Longest)

\* A "5min" payload leaves no hole between its buckets and its raw rows: of each
\* snapshot in the store, from the first whole window on, it has the raw row or
\* the bucket of its window, as long as the half hour of raw rows is longer than
\* the rollup can be late.
PayloadCovers ==
    (sync.pc = "answered" /\ sync.strategy = "5min" /\ Lag(sync.faults) <= HALF) =>
        \A t \in sync.stored : Floor(t, B5) >= sync.since =>
            \/ \E m \in sync.payload.raw : m.of = t
            \/ \E b \in sync.payload.five : b.start = Floor(t, B5)
=============================================================================
