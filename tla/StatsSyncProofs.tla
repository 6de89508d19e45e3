--------------------------- MODULE StatsSyncProofs ---------------------------
(***************************************************************************)
(* Proofs about the delta pull and the gap sync, for every value of the    *)
(* constants and every schedule of both nodes: a "5min" payload has no     *)
(* hole, the chart is in order, and nothing is missing from it.            *)
(***************************************************************************)
EXTENDS StatsSync, LogStoreProofs, FiniteSetTheorems, SequenceTheorems

-----------------------------------------------------------------------------
(* The rows of the monitored node *)

\* Numbers and times agree, and what is pruned is the oldest.
RowInv ==
    /\ IsFiniteSet(raw) /\ Kept \subseteq taken
    /\ \A r \in raw : r.seq >= 1
    /\ \A r, s \in raw : r.seq < s.seq <=> r.ts < s.ts
    /\ \A r \in raw, t \in taken : t > r.ts => t \in Kept

\* A step leaves the rows alone, ...
RowsStay == raw' = raw /\ taken' = taken

\* ... inserts one, later than all before it though not always of this moment, ...
RowComes(r) ==
    /\ raw' = raw \cup {r} /\ r.ts = Stamp /\ r.seq = next_seq /\ taken' = taken \cup {Stamp}
    /\ now' = now /\ Stamp \in Nat /\ Stamp <= now /\ (\A t \in taken : t < Stamp)

\* ... or prunes, as the end of the hourly job.
RowsGo ==
    /\ raw' = {r \in raw : r.ts >= now - RawRetain} /\ taken' = taken /\ now' = now
    /\ job["hourly"] # Idle /\ job'["hourly"] = Idle /\ due'["hourly"] = due["hourly"]

\* Every step of the monitored node does one of the three to its rows.
LEMMA RowSteps ==
    ASSUME TypeInv, CycleInv, [StoreNext]_svars
    PROVE  now <= now' /\ (RowsStay \/ RowsGo \/ \E r : RowComes(r))
<1>0. now \in Nat /\ Jumps \subseteq Nat
  BY SpanAssumption DEF TypeInv, TypeOK
<1>1. CASE Tick
  BY <1>0, <1>1 DEF Tick, store, RowsStay
<1>2. ASSUME NEW k \in Jumps, Suspend(k) \/ Restart(k)
      PROVE  now <= now' /\ RowsStay
  <2>1. now' = now + k /\ k \in Nat /\ raw' = raw /\ taken' = taken
    BY <1>0, <1>2 DEF Suspend, Restart, store
  <2> QED BY <1>0, <2>1 DEF RowsStay
<1>3. CASE record_snapshot
  <2>1. Flying /\ Stamp \in Nat /\ Stamp <= now
    BY <1>3 DEF record_snapshot, TypeInv, JobOK, Flying, Stamp
  <2>2. (\A t \in taken : t < Stamp) /\ \A r \in raw : r.ts # Stamp
    BY <2>1 DEF CycleInv, TypeInv, RowsOK
  <2> DEFINE new == [ts |-> Stamp, seq |-> next_seq, box |-> job["stats"].box]
  <2>3. raw' = {r \in raw : r.ts # Stamp} \cup {new} /\ taken' = taken \cup {Stamp} /\ now' = now
    BY <1>3 DEF record_snapshot, Stamp
  <2>4. new.ts = Stamp /\ new.seq = next_seq
    OBVIOUS
  <2> HIDE DEF new
  <2>5. raw' = raw \cup {new}
    BY <2>2, <2>3
  <2> QED BY <1>0, <2>1, <2>2, <2>3, <2>4, <2>5 DEF RowComes
<1>4. CASE prune
  <2>1. job["hourly"] # Idle
    BY <1>4 DEF prune, Idle
  <2>2. job'["hourly"] = Idle
    BY <1>4, FinishTyped DEF prune, Jobs
  <2> QED BY <1>0, <1>4, <2>1, <2>2 DEF prune, RawCutoff, RowsGo
<1>5. CASE MoveBox \/ StatsCycle \/ StatsEventFails \/ StatsSkipped \/ \E j \in Jobs : JobFails(j)
  BY <1>0, <1>5 DEF MoveBox, StatsCycle, StatsEventFails, StatsSkipped, JobFails, store, RowsStay
<1>6. CASE \/ roll_up_5min \/ roll_up_5min_write \/ roll_hourly \/ roll_hourly_write
           \/ roll_daily \/ roll_daily_write
  BY <1>0, <1>6 DEF roll_up_5min, roll_up_5min_write, roll_hourly, roll_hourly_write, roll_daily, roll_daily_write,
                    store, RowsStay
<1>7. CASE UNCHANGED svars
  BY <1>0, <1>7 DEF svars, store, RowsStay
<1>8. QED
  BY <1>1, <1>2, <1>3, <1>4, <1>5, <1>6, <1>7 DEF StoreNext

\* The largest number in the table.
LEMMA LatestFacts ==
    ASSUME TypeInv
    PROVE  /\ latest_seq \in Nat /\ next_seq = latest_seq + 1 /\ \A r \in raw : r.seq \in Nat /\ r.seq <= latest_seq
           /\ latest_seq # 0 => \E r \in raw : r.seq = latest_seq
<1> DEFINE nums == {r.seq : r \in raw} \cup {0}
<1>1. PICK n \in Nat : \A r \in raw : r.seq <= n
  BY DEF TypeInv, RowsOK
<1>2. nums \in SUBSET Nat /\ nums # {} /\ \A x \in nums : x <= n
  BY <1>1 DEF TypeInv, TypeOK
<1>3. Max(nums) \in nums /\ \A x \in nums : x <= Max(nums)
  <2> HIDE DEF nums
  <2> QED BY <1>2, MaxOfBounded
<1>4. latest_seq = Max(nums) /\ next_seq = Max(nums) + 1
  BY DEF latest_seq, next_seq
<1>5. QED
  BY <1>2, <1>3, <1>4

\* What an insert and a prune do to the largest number.
LEMMA LatestSteps ==
    ASSUME TypeInv, TypeInv', RowInv
    PROVE  /\ RowsStay => latest_seq' = latest_seq
           /\ \A r : RowComes(r) => latest_seq' = latest_seq + 1
           /\ RowsGo /\ raw' # {} => latest_seq' = latest_seq
           /\ raw = {} => latest_seq = 0
<1>0. /\ latest_seq \in Nat /\ latest_seq' \in Nat /\ next_seq = latest_seq + 1
      /\ (\A r \in raw : r.seq \in Nat /\ r.seq <= latest_seq)
      /\ (latest_seq # 0 => \E r \in raw : r.seq = latest_seq)
      /\ (\A r \in raw' : r.seq \in Nat /\ r.seq <= latest_seq')
      /\ (latest_seq' # 0 => \E r \in raw' : r.seq = latest_seq')
  <2>1. TypeInv => /\ latest_seq \in Nat /\ next_seq = latest_seq + 1
                   /\ (\A r \in raw : r.seq \in Nat /\ r.seq <= latest_seq)
                   /\ (latest_seq # 0 => \E r \in raw : r.seq = latest_seq)
    BY LatestFacts
  <2>2. (TypeInv => /\ latest_seq \in Nat /\ next_seq = latest_seq + 1
                    /\ (\A r \in raw : r.seq \in Nat /\ r.seq <= latest_seq)
                    /\ (latest_seq # 0 => \E r \in raw : r.seq = latest_seq))'
    BY LatestFacts, PTL
  <2> QED BY <2>1, <2>2
<1>1. RowsStay => latest_seq' = latest_seq
  BY DEF RowsStay, latest_seq
<1>2. ASSUME NEW r, RowComes(r) PROVE latest_seq' = latest_seq + 1
  <2>1. raw' = raw \cup {r} /\ r.seq = latest_seq + 1
    BY <1>0, <1>2 DEF RowComes
  <2> QED BY <1>0, <2>1
<1>3. ASSUME RowsGo, raw' # {} PROVE latest_seq' = latest_seq
  <2>1. PICK s \in raw' : TRUE
    BY <1>3
  <2>2. raw' = {r \in raw : r.ts >= now - RawRetain} /\ s \in raw
    BY <1>3, <2>1 DEF RowsGo
  <2>3. latest_seq # 0
    BY <1>0, <2>2 DEF RowInv
  <2>4. PICK r \in raw : r.seq = latest_seq
    BY <1>0, <2>3
  <2>5. r.ts >= s.ts /\ s.ts >= now - RawRetain
    <3>1. r.ts \in Nat /\ s.ts \in Nat
      BY <2>2, <2>4 DEF TypeInv, TypeOK
    <3>2. ~(r.seq < s.seq)
      BY <1>0, <2>2, <2>4
    <3> QED BY <2>2, <2>4, <3>1, <3>2 DEF RowInv
  <2>6. r \in raw'
    <3>1. r.ts \in Nat /\ s.ts \in Nat /\ now \in Nat /\ RawRetain \in Nat
      BY <2>2, <2>4, SpanAssumption DEF TypeInv, TypeOK
    <3> QED BY <2>2, <2>4, <2>5, <3>1
  <2> QED BY <1>0, <2>2, <2>4, <2>6
<1>4. raw = {} => latest_seq = 0
  BY <1>0
<1>5. QED
  BY <1>1, <1>2, <1>3, <1>4

\* Rows keep their order: the scheduler runs one stats cycle at a time, and a
\* later one has a later time.
LEMMA NextKeepsRows ==
    ASSUME TypeInv, TypeInv', RowInv, now <= now', RowsStay \/ RowsGo \/ \E r : RowComes(r)
    PROVE  RowInv'
<1>0. /\ now \in Nat /\ now' \in Nat /\ (\A t \in taken : t \in Nat /\ t <= now)
      /\ (\A r \in raw : r.ts \in Nat /\ r.ts <= now) /\ RawRetain \in Nat
  BY SpanAssumption DEF TypeInv, TypeOK, RowsOK
<1>a. /\ IsFiniteSet(raw) /\ Kept \subseteq taken
      /\ \A r \in raw : r.seq >= 1
      /\ \A r, s \in raw : r.seq < s.seq <=> r.ts < s.ts
      /\ \A r \in raw, t \in taken : t > r.ts => t \in Kept
  BY DEF RowInv
<1>1. CASE RowsStay
  <2>1. raw' = raw /\ taken' = taken /\ Kept' = Kept
    BY <1>1, KeptFrame DEF RowsStay
  <2> QED BY <1>a, <2>1 DEF RowInv
<1>2. CASE RowsGo
  <2>1. /\ raw' = {r \in raw : r.ts >= now - RawRetain} /\ taken' = taken /\ now' = now
    BY <1>2 DEF RowsGo
  <2>2. IsFiniteSet(raw')
    BY <1>a, <2>1, FS_Subset
  <2>3. Kept' \subseteq Kept
    BY <2>1 DEF Kept
  <2>4. ASSUME NEW r \in raw', NEW t \in taken', t > r.ts PROVE t \in Kept'
    <3>1. PICK s \in raw : s.ts = t
      BY <1>a, <2>1, <2>4 DEF Kept
    <3>2. s \in raw'
      BY <1>0, <2>1, <2>4, <3>1
    <3> QED BY <3>1, <3>2 DEF Kept
  <2> QED BY <1>a, <2>1, <2>2, <2>3, <2>4 DEF RowInv
<1>3. ASSUME NEW r, RowComes(r) PROVE RowInv'
  <2>1. /\ raw' = raw \cup {r} /\ r.ts = Stamp /\ r.seq = latest_seq + 1 /\ taken' = taken \cup {Stamp}
        /\ now' = now /\ (\A t \in taken : t < Stamp) /\ Stamp \in Nat /\ latest_seq \in Nat
        /\ \A s \in raw : s.seq \in Nat /\ s.seq <= latest_seq
    BY <1>3, LatestFacts DEF RowComes
  <2>2. IsFiniteSet(raw')
    BY <1>a, <2>1, FS_AddElement
  <2>3. Kept' = Kept \cup {Stamp}
    BY <2>1 DEF Kept
  <2>4. \A s \in raw : s.ts < Stamp
    BY <1>a, <2>1 DEF Kept
  <2>5. \A s, x \in raw' : s.seq < x.seq <=> s.ts < x.ts
    BY <1>0, <1>a, <2>1, <2>4
  <2>6. \A s \in raw', t \in taken' : t > s.ts => t \in Kept'
    BY <1>0, <1>a, <2>1, <2>3
  <2>7. Kept' \subseteq taken' /\ \A s \in raw' : s.seq >= 1
    BY <1>a, <2>1, <2>3
  <2> QED BY <2>1, <2>2, <2>5, <2>6, <2>7 DEF RowInv
<1>4. QED
  BY <1>1, <1>2, <1>3

-----------------------------------------------------------------------------
(* The payload of a sync *)

\* A lost message leaves the store's state well-typed.
LEMMA LoseKeepsTypes ==
    ASSUME TypeInv, Lose
    PROVE  TypeInv'
<1>1. faults \in Nat /\ MaxFaults \in Nat
  BY SpanAssumption DEF TypeInv, TypeOK
<1>2. QED
  BY <1>1 DEF Lose, TypeInv, TypeOK, JobOK, RowsOK, store

\* What a step does to the monitored node.
LEMMA ServerSide ==
    ASSUME TypeInv, [Next]_vars
    PROVE  /\ TypeInv'
           /\ \/ ServerStep
              \/ /\ UNCHANGED <<now, store, due, job, box, prev, moves, slow, taken, late, unsaid>>
                 /\ faults' \in {faults, faults + 1}
<1>1. CASE ServerStep
  BY <1>1, NextKeepsTypes DEF ServerStep
<1>2. CASE Lose
  BY <1>2, LoseKeepsTypes DEF Lose
<1>3. CASE UNCHANGED svars
  BY <1>3, NextKeepsTypes DEF svars
<1>4. ServerStep \/ Lose \/ UNCHANGED svars
  BY DEF Next, vars, PullAsk, PullServe, PullLost, PullApply, DevicesReload, ClientRestart,
         SyncAsk, SyncAskCursor, SyncServe, SyncLost, SyncApply
<1>5. QED
  BY <1>1, <1>2, <1>3, <1>4

\* The longest the machine is away, as PayloadCovers counts it.
LEMMA LongestAway == Away(Longest)
<1> DEFINE S == {k \in Jumps : k <= MaxTime} \cup {0}
<1>1. S \in SUBSET Nat /\ S # {} /\ MaxTime \in Nat /\ \A x \in S : x <= MaxTime
  BY SpanAssumption
<1>2. \A k \in Jumps : k <= MaxTime => k \in S
  OBVIOUS
<1>3. Max(S) \in S /\ \A x \in S : x <= Max(S)
  <2> HIDE DEF S
  <2> QED BY <1>1, MaxOfBounded
<1>4. Longest = Max(S)
  BY DEF Longest
<1> HIDE DEF S
<1>5. QED
  BY <1>1, <1>2, <1>3, <1>4 DEF Away

\* The inductive invariant of the sync payload: the rollup is never later than
\* the faults so far explain, and the answer in flight has no hole.
PayInv == DelayInv(Longest) /\ PayloadCovers

\* The rollup stays on time through the steps of both nodes and of the network.
LEMMA SyncKeepsDelay ==
    ASSUME RawRetain + B5 <= B5Retain, DelayInv(Longest), [Next]_vars
    PROVE  DelayInv(Longest)'
<1>0. TypeInv /\ CycleInv /\ OrderInv /\ TimeInv(Longest) /\ TypeInv'
  BY ServerSide DEF DelayInv
<1>1. CASE ServerStep
  BY <1>1, LongestAway, NextDelay DEF ServerStep
<1>2. CASE ~ServerStep
  <2>1. /\ UNCHANGED <<now, raw, five, hourly, due, job, taken, late>>
        /\ faults' \in {faults, faults + 1}
    BY <1>0, <1>2, ServerSide DEF store
  <2>2. Rests
    BY <2>1, KeptFrame DEF Rests, Same
  <2>3. Kinds(Longest)
    BY <2>2 DEF Kinds
  <2>4. OrderInv'
    BY <1>0, <2>3, NextKeepsOrder
  <2>5. due'["roll5"] <= now' + B5
    BY <1>0, <2>1 DEF TimeInv
  <2>6. TimeInv(Longest)'
    BY <1>0, <2>3, <2>5, LongestAway, NextKeepsTime
  <2>7. CycleInv'
    BY <1>0, <2>1 DEF CycleInv, Flying, Stamp
  <2> QED BY <1>0, <2>4, <2>6, <2>7 DEF DelayInv
<1>3. QED
  BY <1>1, <1>2

\* The answer that SyncProtocol.accept puts together.
LEMMA ServeCovers ==
    ASSUME DelayInv(Longest), SyncServe
    PROVE  PayloadCovers'
<1>0. TypeInv /\ OrderInv /\ TimeInv(Longest)
  BY DEF DelayInv
<1>1. PICK big \in BOOLEAN :
         sync' = [pc |-> "answered", since |-> sync.since, at |-> now,
                  strategy |-> IF big THEN "daily_fallback" ELSE Strategy(sync.since),
                  stored |-> {r.ts : r \in raw} \cup UNION {b.of : b \in five},
                  faults |-> faults,
                  events |-> {e \in events : e.ts >= sync.since},
                  payload |-> IF big THEN [EmptyPayload EXCEPT !.daily = From(daily, Floor(sync.since, DAY))]
                              ELSE get_sync_payload(sync.since)]
  BY DEF SyncServe
<1>2. /\ sync'.since = sync.since /\ sync'.stored = {r.ts : r \in raw} \cup UNION {b.of : b \in five}
      /\ sync'.faults = faults
      /\ sync'.strategy = (IF big THEN "daily_fallback" ELSE Strategy(sync.since))
      /\ sync'.payload = (IF big THEN [EmptyPayload EXCEPT !.daily = From(daily, Floor(sync.since, DAY))]
                          ELSE get_sync_payload(sync.since))
  BY <1>1
<1>4. SUFFICES ASSUME sync'.strategy = "5min", Lag(faults) <= HALF,
                      NEW t \in sync'.stored, Floor(t, B5) >= sync'.since
               PROVE  \/ \E m \in sync'.payload.raw : m.of = t
                      \/ \E b \in sync'.payload.five : b.start = Floor(t, B5)
  BY <1>2 DEF PayloadCovers, Lag
<1>5. ~big /\ Strategy(sync.since) = "5min"
  BY <1>2, <1>4
<1>6. sync'.payload.raw = RowsFrom(RawTail) /\ sync'.payload.five = From(five, sync.since)
  <2>1. get_sync_payload(sync.since) = [EmptyPayload EXCEPT !.raw = RowsFrom(RawTail), !.five = From(five, sync.since)]
    BY <1>5 DEF get_sync_payload
  <2> QED BY <1>2, <1>5, <2>1 DEF EmptyPayload
<1>7. CASE Covered(t)
  <2>1. PICK b \in five : b.start = Floor(t, B5)
    BY <1>7 DEF Covered, Win
  <2>2. b \in From(five, sync.since)
    BY <1>2, <1>4, <2>1 DEF From
  <2> QED BY <1>6, <2>1, <2>2
<1>8. CASE ~Covered(t)
  <2>1. t \in Kept
    <3>1. ASSUME NEW b \in five, t \in b.of PROVE Covered(t)
      BY <1>0, <3>1 DEF OrderInv, Proper, Covered
    <3> QED BY <1>2, <1>4, <1>8, <3>1 DEF Kept
  <2>2. PICK r \in raw : r.ts = t
    BY <2>1 DEF Kept
  <2>3. t \in Nat /\ now \in Nat /\ HALF \in Nat
    BY <2>2, SyncAssumption DEF TypeInv, TypeOK, DelayInv
  <2>4. Win(t) \in Nat /\ Win(t) <= t
    BY <2>3, WinFacts
  <2>5. now <= Win(t) + 2 * B5 + Slack(Longest)
    BY <1>0, <1>8, <2>1 DEF TimeInv, Deadline
  <2>6. Lag(faults) = 2 * B5 + Slack(Longest) /\ Slack(Longest) \in Nat /\ B5 \in Nat
    <3>1. faults \in Nat /\ Longest \in Nat /\ B5 \in Nat
      BY <1>0, LongestAway, SpanAssumption DEF TypeInv, TypeOK, Away
    <3>2. \A x, y \in Nat : x * y \in Nat
      OBVIOUS
    <3>3. B5 + Longest \in Nat
      BY <3>1
    <3> QED BY <3>1, <3>2, <3>3 DEF Lag, Slack
  <2>7. t >= RawTail
    <3> HIDE DEF Slack
    <3> QED BY <1>4, <2>3, <2>4, <2>5, <2>6 DEF RawTail
  <2> DEFINE m == [ts |-> r.ts, of |-> r.ts]
  <2>8. m \in RowsFrom(RawTail) /\ m.of = t
    BY <2>2, <2>7 DEF RowsFrom
  <2> QED BY <1>6, <2>8
<1>9. QED
  BY <1>7, <1>8

\* A "5min" payload of get_sync_payload has no hole between its buckets and its
\* raw rows as long as the half hour of raw rows is longer than the faults so far
\* can have held the rollup up: that bound on the rollup's delay is an invariant
\* of the jobs, whatever rollups, prunes and failures preceded the answer.
THEOREM PayloadCorrect ==
    ASSUME RawRetain + B5 <= B5Retain
    PROVE  SyncSpec => []PayloadCovers
<1>1. SyncInit => PayInv
  <2> SUFFICES ASSUME SyncInit PROVE PayInv
    OBVIOUS
  <2>1. DelayInv(Longest)
    BY InitDelay DEF SyncInit
  <2>2. PayloadCovers
    BY DEF SyncInit, PayloadCovers, Idle
  <2> QED BY <2>1, <2>2 DEF PayInv
<1>2. PayInv /\ [Next]_vars => PayInv'
  <2> SUFFICES ASSUME PayInv, [Next]_vars PROVE PayInv'
    OBVIOUS
  <2>0. DelayInv(Longest) /\ PayloadCovers
    BY DEF PayInv
  <2>1. DelayInv(Longest)'
    BY <2>0, SyncKeepsDelay
  <2>3. PayloadCovers'
    <3>1. CASE SyncServe
      BY <2>0, <3>1, ServeCovers
    <3>2. CASE sync' = sync
      BY <2>0, <3>2 DEF PayloadCovers
    <3>3. CASE sync'.pc # "answered"
      BY <3>3 DEF PayloadCovers
    <3>4. SyncServe \/ sync' = sync \/ sync'.pc # "answered"
      BY DEF Next, vars, ServerStep, PullAsk, PullServe, PullLost, PullApply, DevicesReload, ClientRestart,
             SyncAsk, SyncAskCursor, SyncLost, SyncApply, Idle
    <3> QED BY <3>1, <3>2, <3>3, <3>4
  <2> QED BY <2>1, <2>3 DEF PayInv
<1>3. PayInv => PayloadCovers
  BY DEF PayInv
<1>4. QED
  BY <1>1, <1>2, <1>3, PTL DEF SyncSpec

-----------------------------------------------------------------------------
(* ORDER BY seq *)

\* s lists the rows in the order of their numbers.
Enumerates(s, rows) ==
    /\ s \in [1..Cardinality(rows) -> rows]
    /\ \A i, j \in 1..Cardinality(rows) : i < j => s[i].seq < s[j].seq
    /\ \A r \in rows : \E i \in 1..Cardinality(rows) : s[i] = r

\* A finite table whose rows have different numbers can be put in order.
LEMMA OrderExists ==
    ASSUME NEW rows, IsFiniteSet(rows), NEW n \in Nat, \A r \in rows : r.seq \in Nat /\ r.seq <= n,
           \A r, s \in rows : r.seq = s.seq => r = s
    PROVE  \E s : Enumerates(s, rows)
<1> DEFINE Bad(k) == \E S \in SUBSET rows : IsFiniteSet(S) /\ Cardinality(S) = k /\ \A s : ~Enumerates(s, S)
<1>1. SUFFICES ASSUME \A s : ~Enumerates(s, rows) PROVE FALSE
  OBVIOUS
<1>2. Cardinality(rows) \in Nat
  BY FS_CardinalityType
<1>3. {k \in Nat : Bad(k)} \in SUBSET Nat /\ {k \in Nat : Bad(k)} # {}
  BY <1>1, <1>2
<1>4. PICK m \in {k \in Nat : Bad(k)} : \A k \in {j \in Nat : Bad(j)} : m <= k
  <2> HIDE DEF Bad
  <2> QED BY <1>3, LeastNatural
<1>5. PICK S \in SUBSET rows : IsFiniteSet(S) /\ Cardinality(S) = m /\ \A s : ~Enumerates(s, S)
  BY <1>4
<1>6. S # {}
  <2> SUFFICES ASSUME S = {} PROVE FALSE
    OBVIOUS
  <2>1. Cardinality(S) = 0
    BY FS_EmptySet
  <2>2. [i \in 1..0 |-> 0] \in [1..0 -> S]
    OBVIOUS
  <2>3. Enumerates([i \in 1..0 |-> 0], S)
    BY <2>1, <2>2 DEF Enumerates
  <2> QED BY <1>5, <2>3
<1> DEFINE nums == {r.seq : r \in S}
<1>7. Max(nums) \in nums /\ \A x \in nums : x <= Max(nums)
  <2>1. nums \in SUBSET Nat /\ nums # {} /\ \A x \in nums : x <= n
    BY <1>6
  <2> HIDE DEF nums
  <2> QED BY <2>1, MaxOfBounded
<1>8. PICK top \in S : \A r \in S : r.seq <= top.seq
  BY <1>7
<1> DEFINE T == S \ {top}
<1>9. IsFiniteSet(T) /\ Cardinality(T) = m - 1 /\ m \in Nat /\ m - 1 \in Nat
  <2>1. IsFiniteSet(T) /\ Cardinality(T) = Cardinality(S) - 1
    BY <1>5, <1>8, FS_RemoveElement
  <2>2. Cardinality(T) \in Nat
    BY <2>1, FS_CardinalityType
  <2> QED BY <1>5, <2>1, <2>2
<1>10. PICK s : Enumerates(s, T)
  <2>1. ~Bad(m - 1)
    <3> HIDE DEF Bad
    <3> QED BY <1>4, <1>9
  <2> QED BY <1>9, <2>1
<1> DEFINE q == [i \in 1..m |-> IF i = m THEN top ELSE s[i]]
<1>11. Enumerates(q, S)
  <2>1. /\ \A i \in 1..(m - 1) : s[i] \in T
        /\ \A i, j \in 1..(m - 1) : i < j => s[i].seq < s[j].seq
        /\ \A r \in T : \E i \in 1..(m - 1) : s[i] = r
    BY <1>9, <1>10 DEF Enumerates
  <2>2. \A i \in 1..m : (i = m /\ q[i] = top) \/ (i \in 1..(m - 1) /\ q[i] = s[i])
    BY <1>9
  <2>3. 1..(m - 1) \subseteq 1..m /\ m \in 1..m
    BY <1>9
  <2>4. \A r \in T : r.seq < top.seq /\ r.seq \in Nat
    BY <1>5, <1>8
  <2>5. q \in [1..m -> S]
    BY <2>1, <2>2, <1>8
  <2>6. \A i, j \in 1..m : i < j => q[i].seq < q[j].seq
    <3> SUFFICES ASSUME NEW i \in 1..m, NEW j \in 1..m, i < j PROVE q[i].seq < q[j].seq
      OBVIOUS
    <3> HIDE DEF q, T
    <3>1. i \in 1..(m - 1) /\ q[i] = s[i]
      BY <1>9, <2>2
    <3>2. CASE j = m /\ q[j] = top
      BY <2>1, <2>4, <3>1, <3>2
    <3>3. CASE j \in 1..(m - 1) /\ q[j] = s[j]
      BY <2>1, <3>1, <3>3
    <3> QED BY <2>2, <3>2, <3>3
  <2>7. \A r \in S : \E i \in 1..m : q[i] = r
    <3> TAKE r \in S
    <3>1. CASE r = top
      BY <2>3, <3>1
    <3>2. CASE r \in T
      <4>1. PICK i \in 1..(m - 1) : s[i] = r
        BY <2>1, <3>2
      <4>2. i \in 1..m /\ i # m
        BY <1>9, <4>1
      <4> QED BY <4>1, <4>2
    <3> QED BY <3>1, <3>2
  <2> HIDE DEF q, T
  <2> QED BY <1>5, <2>5, <2>6, <2>7 DEF Enumerates
<1>12. QED
  BY <1>5, <1>11

\* The larger of two integers.
LEMMA TwoMax == \A a, b \in Int : Max({a, b}) \in Int /\ Max({a, b}) >= a /\ Max({a, b}) >= b /\ Max({a, b}) \in {a, b}
<1> SUFFICES ASSUME NEW a \in Int, NEW b \in Int
             PROVE  Max({a, b}) \in Int /\ Max({a, b}) >= a /\ Max({a, b}) >= b /\ Max({a, b}) \in {a, b}
  OBVIOUS
<1>1. \E x \in {a, b} : \A y \in {a, b} : x >= y
  <2>1. CASE a >= b
    BY <2>1
  <2>2. CASE b >= a
    BY <2>2
  <2> QED BY <2>1, <2>2
<1>2. QED
  BY <1>1 DEF Max

\* The smaller of two integers.
LEMMA TwoMin == \A a, b \in Int : Min({a, b}) \in Int /\ Min({a, b}) <= a /\ Min({a, b}) <= b
<1> SUFFICES ASSUME NEW a \in Int, NEW b \in Int PROVE Min({a, b}) \in Int /\ Min({a, b}) <= a /\ Min({a, b}) <= b
  OBVIOUS
<1>1. \E x \in {a, b} : \A y \in {a, b} : x <= y
  <2>1. CASE a <= b
    BY <2>1
  <2>2. CASE b <= a
    BY <2>2
  <2> QED BY <2>1, <2>2
<1>2. QED
  BY <1>1 DEF Min

\* Times in strictly rising order, and a time among them.
Rising(s) == \A i, j \in 1..Len(s) : i < j => s[i] < s[j]
Holds(s, t) == \E i \in 1..Len(s) : s[i] = t

\* What get_delta_since_seq answers.
LEMMA DeltaFacts ==
    ASSUME TypeInv, RowInv, NEW since \in Nat
    PROVE  LET d == get_delta_since_seq(since)
           IN /\ d.latest = latest_seq /\ d.entries \in Seq(Kept) /\ Rising(d.entries)
              /\ \A i \in 1..Len(d.entries) : \E r \in raw : r.ts = d.entries[i] /\ r.seq > since
              /\ \A r \in raw : r.seq > since /\ r.seq > latest_seq - MaxEntries => Holds(d.entries, r.ts)
<1> DEFINE rows == DeltaRows(since)
           n == Cardinality(rows)
           s == Ascending(rows)
           es == [i \in 1..n |-> s[i].ts]
<1>0. /\ latest_seq \in Nat /\ (\A r \in raw : r.seq \in Nat /\ r.seq <= latest_seq)
      /\ (\A r \in raw : r.ts \in Nat) /\ MaxEntries \in Nat
  BY LatestFacts, SyncAssumption DEF TypeInv, TypeOK
<1>1. rows \subseteq raw /\ IsFiniteSet(rows) /\ n \in Nat
  <2>1. rows \subseteq raw
    BY DEF DeltaRows
  <2>2. IsFiniteSet(rows)
    BY <2>1, FS_Subset DEF RowInv
  <2> QED BY <2>1, <2>2, FS_CardinalityType
<1>2. \A r \in raw : r \in rows <=> r.seq > since /\ r.seq > latest_seq - MaxEntries
  <2>1. latest_seq - MaxEntries \in Int /\ since \in Int
    BY <1>0
  <2> DEFINE bound == Max({since, latest_seq - MaxEntries})
  <2>2. /\ bound \in Int /\ bound >= since /\ bound >= latest_seq - MaxEntries
        /\ bound = since \/ bound = latest_seq - MaxEntries
    BY <2>1, TwoMax
  <2>3. rows = {r \in raw : r.seq > bound}
    BY DEF DeltaRows
  <2> HIDE DEF bound, rows
  <2> QED BY <1>0, <2>1, <2>2, <2>3
<1> HIDE DEF rows
<1>3. \A r, x \in rows : r.seq = x.seq => r = x
  <2> SUFFICES ASSUME NEW r \in rows, NEW x \in rows, r.seq = x.seq PROVE r = x
    OBVIOUS
  <2>1. r \in raw /\ x \in raw /\ r.ts \in Nat /\ x.ts \in Nat /\ r.seq \in Nat
    BY <1>0, <1>1
  <2>2. ~(r.ts < x.ts) /\ ~(x.ts < r.ts)
    BY <1>0, <2>1 DEF RowInv
  <2>3. r.ts = x.ts
    BY <2>1, <2>2
  <2> QED BY <2>1, <2>3 DEF TypeInv, TypeOK
<1>4. \E q : Enumerates(q, rows)
  <2>1. \A r \in rows : r.seq \in Nat /\ r.seq <= latest_seq
    BY <1>0, <1>1
  <2> QED BY <1>0, <1>1, <1>3, <2>1, OrderExists
<1>5. Enumerates(s, rows)
  BY <1>4 DEF Enumerates, Ascending
<1>6. /\ \A i \in 1..n : s[i] \in rows
      /\ \A i, j \in 1..n : i < j => s[i].seq < s[j].seq
      /\ \A r \in rows : \E i \in 1..n : s[i] = r
  BY <1>5 DEF Enumerates
<1> HIDE DEF s, n
<1>7. es \in Seq(Kept) /\ Len(es) = n /\ \A i \in 1..n : es[i] = s[i].ts
  <2>1. \A i \in 1..n : s[i].ts \in Kept
    BY <1>1, <1>6 DEF Kept
  <2> QED BY <1>1, <2>1
<1>8. get_delta_since_seq(since) = [latest |-> latest_seq, entries |-> es]
  BY DEF get_delta_since_seq, n, s, rows
<1> HIDE DEF es
<1>9. Rising(es)
  BY <1>1, <1>6, <1>7 DEF Rising, RowInv
<1>10. \A i \in 1..Len(es) : \E r \in raw : r.ts = es[i] /\ r.seq > since
  BY <1>1, <1>2, <1>6, <1>7
<1>11. \A r \in raw : r.seq > since /\ r.seq > latest_seq - MaxEntries => Holds(es, r.ts)
  BY <1>2, <1>6, <1>7 DEF Holds
<1>12. QED
  BY <1>7, <1>8, <1>9, <1>10, <1>11

-----------------------------------------------------------------------------
(* Sequences of timestamps *)

\* What LastOf keeps of a sequence: its end, at most n entries.
LEMMA LastOfFacts ==
    ASSUME NEW s \in Seq(Nat), NEW n \in Nat \ {0}
    PROVE  /\ LastOf(s, n) \in Seq(Nat)
           /\ \E off \in Nat : /\ Len(s) = Len(LastOf(s, n)) + off
                               /\ off = 0 \/ Len(LastOf(s, n)) = n
                               /\ \A i \in 1..Len(LastOf(s, n)) : LastOf(s, n)[i] = s[i + off]
<1>1. CASE Len(s) <= n
  <2>1. LastOf(s, n) = s /\ Len(s) \in Nat
    BY <1>1 DEF LastOf
  <2>2. Len(s) = Len(LastOf(s, n)) + 0 /\ \A i \in 1..Len(s) : s[i] = s[i + 0]
    BY <2>1
  <2> QED BY <2>1, <2>2
<1>2. CASE ~(Len(s) <= n)
  <2> DEFINE q == LastOf(s, n)
             off == Len(s) - n
  <2>1. q = SubSeq(s, off + 1, Len(s)) /\ Len(s) \in Nat /\ off \in Nat /\ n \in Nat
    BY <1>2 DEF LastOf
  <2>2. q \in Seq(Nat) /\ Len(q) = n /\ \A i \in 1..n : q[i] = s[i + off]
    <3>1. off + 1 \in 1..(Len(s) + 1) /\ Len(s) \in (off + 1 - 1)..Len(s)
      BY <2>1
    <3>2. /\ SubSeq(s, off + 1, Len(s)) \in Seq(Nat)
          /\ Len(SubSeq(s, off + 1, Len(s))) = Len(s) - (off + 1) + 1
          /\ \A i \in 1..(Len(s) - (off + 1) + 1) : SubSeq(s, off + 1, Len(s))[i] = s[off + 1 + i - 1]
      BY <2>1, <3>1, SubSeqProperties
    <3> QED BY <2>1, <3>2
  <2> HIDE DEF q
  <2>3. Len(s) = Len(q) + off
    BY <2>1, <2>2
  <2>4. q \in Seq(Nat) /\ \E o \in Nat : Len(s) = Len(q) + o /\ (o = 0 \/ Len(q) = n) /\ \A i \in 1..Len(q) : q[i] = s[i + o]
    BY <2>1, <2>2, <2>3
  <2> QED BY <2>4 DEF q
<1>3. QED
  BY <1>1, <1>2

\* The elements of a concatenation.
LEMMA JoinFacts ==
    ASSUME NEW c \in Seq(Nat), NEW e \in Seq(Nat)
    PROVE  /\ c \o e \in Seq(Nat) /\ Len(c \o e) = Len(c) + Len(e)
           /\ \A i \in 1..Len(c) : i \in 1..Len(c \o e) /\ (c \o e)[i] = c[i]
           /\ \A j \in 1..Len(e) : Len(c) + j \in 1..Len(c \o e) /\ (c \o e)[Len(c) + j] = e[j]
           /\ \A i \in 1..Len(c \o e) : \/ i \in 1..Len(c) /\ (c \o e)[i] = c[i]
                                        \/ \E j \in 1..Len(e) : i = Len(c) + j /\ (c \o e)[i] = e[j]
<1>1. /\ c \o e \in Seq(Nat) /\ Len(c \o e) = Len(c) + Len(e) /\ Len(c) \in Nat /\ Len(e) \in Nat
      /\ \A i \in 1..(Len(c) + Len(e)) : (c \o e)[i] = IF i <= Len(c) THEN c[i] ELSE e[i - Len(c)]
  BY ConcatProperties
<1>2. \A i \in 1..Len(c) : i \in 1..Len(c \o e) /\ (c \o e)[i] = c[i]
  BY <1>1
<1>3. \A j \in 1..Len(e) : Len(c) + j \in 1..Len(c \o e) /\ (c \o e)[Len(c) + j] = e[j]
  BY <1>1
<1>4. ASSUME NEW i \in 1..Len(c \o e)
      PROVE  \/ i \in 1..Len(c) /\ (c \o e)[i] = c[i]
             \/ \E j \in 1..Len(e) : i = Len(c) + j /\ (c \o e)[i] = e[j]
  <2>1. CASE i <= Len(c)
    BY <1>1, <2>1
  <2>2. CASE ~(i <= Len(c))
    <3>1. i - Len(c) \in 1..Len(e) /\ i = Len(c) + (i - Len(c)) /\ (c \o e)[i] = e[i - Len(c)]
      BY <1>1, <2>2
    <3> QED BY <3>1
  <2> QED BY <2>1, <2>2
<1>5. QED
  BY <1>1, <1>2, <1>3, <1>4

\* Every time in s was taken, and rows up to it have numbers up to n.
Seen(rows, times, s, n) ==
    \A i \in 1..Len(s) : s[i] \in times /\ \A r \in rows : r.ts <= s[i] => r.seq <= n

\* Appending later entries and trimming keep order and numbers.
LEMMA ApplyFacts ==
    ASSUME NEW c \in Seq(Nat), NEW e \in Seq(Nat), Rising(c), Rising(e),
           \A i \in 1..Len(c), j \in 1..Len(e) : c[i] < e[j],
           NEW rows, NEW times, NEW n, Seen(rows, times, c, n), Seen(rows, times, e, n)
    PROVE  /\ Rising(c \o e) /\ Seen(rows, times, c \o e, n)
           /\ LastOf(c \o e, MaxLen) \in Seq(Nat)
           /\ Rising(LastOf(c \o e, MaxLen)) /\ Seen(rows, times, LastOf(c \o e, MaxLen), n)
<1> DEFINE s == c \o e
<1>1. /\ s \in Seq(Nat) /\ Len(s) \in Nat /\ Len(c) \in Nat /\ Len(e) \in Nat
      /\ \A i \in 1..Len(s) : \/ i \in 1..Len(c) /\ s[i] = c[i]
                              \/ \E j \in 1..Len(e) : i = Len(c) + j /\ s[i] = e[j]
  BY JoinFacts
<1> HIDE DEF s
<1>2. Rising(s)
  <2> SUFFICES ASSUME NEW i \in 1..Len(s), NEW j \in 1..Len(s), i < j PROVE s[i] < s[j]
    BY DEF Rising
  <2>1. CASE i \in 1..Len(c) /\ s[i] = c[i]
    <3>1. CASE j \in 1..Len(c) /\ s[j] = c[j]
      BY <2>1, <3>1 DEF Rising
    <3>2. CASE \E k \in 1..Len(e) : j = Len(c) + k /\ s[j] = e[k]
      BY <2>1, <3>2
    <3> QED BY <1>1, <3>1, <3>2
  <2>2. CASE \E k \in 1..Len(e) : i = Len(c) + k /\ s[i] = e[k]
    <3>1. PICK k \in 1..Len(e) : i = Len(c) + k /\ s[i] = e[k]
      BY <2>2
    <3>2. ~(j \in 1..Len(c))
      BY <1>1, <3>1
    <3>3. PICK m \in 1..Len(e) : j = Len(c) + m /\ s[j] = e[m]
      BY <1>1, <3>2
    <3>4. k < m
      BY <1>1, <3>1, <3>3
    <3> QED BY <3>1, <3>3, <3>4 DEF Rising
  <2> QED BY <1>1, <2>1, <2>2
<1>3. Seen(rows, times, s, n)
  BY <1>1 DEF Seen
<1> DEFINE q == LastOf(s, MaxLen)
<1>4. /\ q \in Seq(Nat)
      /\ \E off \in Nat : Len(s) = Len(q) + off /\ \A i \in 1..Len(q) : q[i] = s[i + off]
  <2>1. MaxLen \in Nat \ {0}
    BY SyncAssumption
  <2> QED BY <1>1, <2>1, LastOfFacts
<1> HIDE DEF q
<1>5. PICK off \in Nat : Len(s) = Len(q) + off /\ \A i \in 1..Len(q) : q[i] = s[i + off]
  BY <1>4
<1>6. Len(q) \in Nat /\ \A i \in 1..Len(q) : i + off \in 1..Len(s) /\ q[i] = s[i + off]
  BY <1>1, <1>4, <1>5
<1>7. Rising(q)
  BY <1>2, <1>6 DEF Rising
<1>8. Seen(rows, times, q, n)
  BY <1>3, <1>6 DEF Seen
<1>9. QED
  BY <1>2, <1>3, <1>4, <1>7, <1>8 DEF s, q

\* A time near the end of a sequence survives the trim.
LEMMA TrimKeeps ==
    ASSUME NEW s \in Seq(Nat), NEW k \in 1..Len(s), Len(s) - k < MaxLen
    PROVE  Holds(LastOf(s, MaxLen), s[k])
<1> DEFINE q == LastOf(s, MaxLen)
<1>0. MaxLen \in Nat \ {0} /\ Len(s) \in Nat
  BY SyncAssumption
<1>1. PICK off \in Nat : /\ Len(s) = Len(q) + off /\ (off = 0 \/ Len(q) = MaxLen)
                         /\ \A i \in 1..Len(q) : q[i] = s[i + off]
  BY <1>0, LastOfFacts
<1>2. q \in Seq(Nat)
  BY <1>0, LastOfFacts
<1> HIDE DEF q
<1>3. k - off \in 1..Len(q)
  <2>1. Len(q) \in Nat /\ off \in Nat /\ k \in Nat /\ k >= 1 /\ k <= Len(s)
    BY <1>0, <1>2
  <2>2. CASE off = 0
    BY <1>0, <1>1, <2>1, <2>2
  <2>3. CASE Len(q) = MaxLen
    BY <1>0, <1>1, <2>1, <2>3
  <2> QED BY <1>1, <2>2, <2>3
<1>4. q[k - off] = s[k]
  BY <1>1, <1>3
<1>5. QED
  BY <1>3, <1>4 DEF Holds, q

\* Rows from one to another have at most as many times between them as numbers.
LEMMA Spread ==
    ASSUME TypeInv, RowInv, NEW s \in Seq(Nat), Rising(s), \A i \in 1..Len(s) : s[i] \in taken,
           NEW r \in raw, NEW k \in 1..Len(s), s[k] = r.ts
    PROVE  Len(s) - k <= latest_seq - r.seq
<1>a. latest_seq \in Nat /\ \A x \in raw : x.seq \in Nat /\ x.seq <= latest_seq
  BY LatestFacts
<1>b. \A x \in raw : x.ts \in Nat
  BY DEF TypeInv, TypeOK
<1>c. Len(s) \in Nat /\ k \in Nat /\ \A i \in 1..Len(s) : s[i] \in Nat
  OBVIOUS
<1>0. /\ Len(s) \in Nat /\ latest_seq \in Nat /\ (\A x \in raw : x.seq \in Nat /\ x.seq <= latest_seq /\ x.ts \in Nat)
      /\ (\A i \in 1..Len(s) : s[i] \in Nat) /\ k \in Nat
  BY <1>a, <1>b, <1>c
<1>1. ASSUME NEW j \in 1..Len(s), k <= j PROVE \E x \in raw : x.ts = s[j]
  <2>1. CASE j = k
    BY <2>1
  <2>2. CASE j # k
    <3>1. s[j] > r.ts
      BY <1>0, <1>1, <2>2 DEF Rising
    <3> QED BY <3>1 DEF RowInv, Kept
  <2> QED BY <2>1, <2>2
<1> DEFINE Bad(m) == \E x \in raw : k + m <= Len(s) /\ x.ts = s[k + m] /\ x.seq < r.seq + m
<1>2. \A m \in Nat : ~Bad(m)
  <2> SUFFICES ASSUME {m \in Nat : Bad(m)} # {} PROVE FALSE
    OBVIOUS
  <2>1. {m \in Nat : Bad(m)} \in SUBSET Nat
    OBVIOUS
  <2>2. PICK m \in {i \in Nat : Bad(i)} : \A i \in {j \in Nat : Bad(j)} : m <= i
    <3> HIDE DEF Bad
    <3> QED BY <2>1, LeastNatural
  <2>3. PICK x \in raw : k + m <= Len(s) /\ x.ts = s[k + m] /\ x.seq < r.seq + m
    BY <2>2
  <2>4. m # 0
    <3> SUFFICES ASSUME m = 0 PROVE FALSE
      OBVIOUS
    <3>1. x.ts = r.ts /\ x.seq < r.seq
      BY <1>0, <2>3
    <3> QED BY <1>0, <3>1 DEF RowInv
  <2>a. m \in Nat
    BY <2>2
  <2>5. m - 1 \in Nat /\ k + (m - 1) \in 1..Len(s) /\ k <= k + (m - 1) /\ k + m \in 1..Len(s)
    BY <1>0, <2>a, <2>3, <2>4
  <2>6. PICK y \in raw : y.ts = s[k + (m - 1)]
    BY <1>1, <2>5
  <2>7. y.seq >= r.seq + (m - 1)
    <3>1. ~Bad(m - 1)
      <4> HIDE DEF Bad
      <4> QED BY <2>2, <2>5
    <3>2. k + (m - 1) <= Len(s)
      BY <2>5
    <3>3. ~(y.seq < r.seq + (m - 1))
      BY <2>6, <3>1, <3>2
    <3>4. y.seq \in Nat /\ r.seq \in Nat
      BY <1>a, <2>6
    <3> QED BY <2>a, <3>3, <3>4
  <2> HIDE DEF Bad
  <2>8. y.seq < x.seq
    <3>0. k + (m - 1) < k + m
      BY <1>c, <2>a
    <3>1. s[k + (m - 1)] < s[k + m]
      BY <2>5, <3>0 DEF Rising
    <3> QED BY <2>3, <2>6, <3>1 DEF RowInv
  <2>9. y.seq \in Nat /\ r.seq \in Nat /\ x.seq \in Nat
    BY <1>a, <2>3, <2>6
  <2>10. ASSUME NEW a \in Nat, NEW b \in Nat, NEW c \in Nat, a >= b + (m - 1), a < c PROVE ~(c < b + m)
    BY <2>a, <2>10
  <2> QED BY <2>3, <2>7, <2>8, <2>9, <2>10
<1>3. PICK x \in raw : x.ts = s[Len(s)]
  BY <1>0, <1>1
<1> DEFINE m == Len(s) - k
<1>4. m \in Nat /\ k + m = Len(s)
  BY <1>0
<1>5. ~(x.seq < r.seq + m)
  <2>1. ~Bad(m)
    <3> HIDE DEF Bad
    <3> QED BY <1>2, <1>4
  <2>2. k + m <= Len(s) /\ x.ts = s[k + m]
    BY <1>0, <1>3, <1>4
  <2> QED BY <2>1, <2>2
<1>6. QED
  BY <1>0, <1>4, <1>5

-----------------------------------------------------------------------------
(* The chart of the monitoring node *)

\* A pull that was asked for, and one that was answered.
Asked == [pc: {"asked"}, since: Nat, retried: BOOLEAN, mine: BOOLEAN]
Answers == [pc: {"answered"}, since: Nat, retried: BOOLEAN, mine: BOOLEAN,
            delta: [latest: Nat, entries: Seq(Nat)], at: Nat, epoch: Nat, own: Int]

\* Types of the monitoring node's part.
ClientType ==
    /\ chart \in Seq(Nat) /\ cursor \in Nat
    /\ pull \in {Idle} \cup Asked \cup Answers
    /\ gap \in [epoch: Nat, seen: Nat, hole: Int]

\* An answer in flight continues the chart it will be applied to.
AnswerOK ==
    /\ Rising(pull.delta.entries) /\ Seen(raw, taken, pull.delta.entries, pull.delta.latest)
    /\ pull.mine => /\ Seen(raw, taken, chart, pull.delta.latest)
                    /\ \A i \in 1..Len(chart), j \in 1..Len(pull.delta.entries) :
                          chart[i] < pull.delta.entries[j]

\* The chart is in order, it shows rows that the cursor has passed, and the
\* pull in flight was asked with the present cursor unless a reload took its
\* PeerState away.
ChartInv ==
    /\ ClientType /\ Rising(chart) /\ Seen(raw, taken, chart, cursor)
    /\ pull \in Asked \cup Answers => (pull.mine => pull.since = cursor)
    /\ pull \in Answers => AnswerOK

\* New rows are later than all that was taken, so what was seen stays seen.
LEMMA SeenStays ==
    ASSUME TypeInv, RowsStay \/ RowsGo \/ \E r : RowComes(r), NEW s \in Seq(Nat), NEW n, Seen(raw, taken, s, n)
    PROVE  Seen(raw', taken', s, n)
<1>0. now \in Nat /\ \A i \in 1..Len(s) : s[i] \in Nat
  BY DEF TypeInv, TypeOK
<1>1. CASE RowsStay \/ RowsGo
  BY <1>1 DEF RowsStay, RowsGo, Seen
<1>2. ASSUME NEW r, RowComes(r) PROVE Seen(raw', taken', s, n)
  <2>1. raw' = raw \cup {r} /\ r.ts = Stamp /\ taken' = taken \cup {Stamp} /\ Stamp \in Nat /\ \A t \in taken : t < Stamp
    BY <1>2 DEF RowComes
  <2>2. \A i \in 1..Len(s) : ~(r.ts <= s[i])
    BY <1>0, <2>1 DEF Seen
  <2> QED BY <2>1, <2>2 DEF Seen
<1>3. QED
  BY <1>1, <1>2

\* The three kinds of pull are told apart by their pc.
LEMMA PullKinds ==
    /\ \A p \in {Idle} \cup Asked \cup Answers : /\ p.pc = "asked" <=> p \in Asked
                                                 /\ p.pc = "answered" <=> p \in Answers
                                                 /\ p = Idle <=> p \notin Asked \cup Answers
    /\ Idle \notin Asked \cup Answers
<1>1. Idle.pc = "idle" /\ (\A p \in Asked : p.pc = "asked") /\ (\A p \in Answers : p.pc = "answered")
  BY DEF Idle, Asked, Answers
<1>2. QED
  BY <1>1

\* The same chart, cursor and pull after a step that may change the rows.
LEMMA ChartFrame ==
    ASSUME TypeInv, ChartInv, RowsStay \/ RowsGo \/ \E r : RowComes(r),
           chart' = chart, cursor' = cursor, pull' = pull, gap' \in [epoch: Nat, seen: Nat, hole: Int]
    PROVE  ChartInv'
<1>1. chart \in Seq(Nat) /\ Seen(raw, taken, chart, cursor) /\ ClientType
  BY DEF ChartInv, ClientType
<1>2. Seen(raw', taken', chart, cursor)
  BY <1>1, SeenStays
<1>3. ASSUME pull \in Answers PROVE AnswerOK'
  <2> DEFINE d == pull.delta
  <2>1. d.entries \in Seq(Nat)
    BY <1>3 DEF Answers
  <2>2. AnswerOK
    BY <1>3 DEF ChartInv
  <2>3. Seen(raw', taken', d.entries, d.latest)
    BY <2>1, <2>2, SeenStays DEF AnswerOK
  <2>4. pull.mine => Seen(raw', taken', chart, d.latest)
    BY <1>1, <2>2, SeenStays DEF AnswerOK
  <2> QED BY <2>2, <2>3, <2>4 DEF AnswerOK
<1>4. ClientType'
  BY <1>1 DEF ClientType
<1>5. QED
  BY <1>1, <1>2, <1>3, <1>4 DEF ChartInv

\* An answer that StatusProtocol.accept puts together.
LEMMA ServeFacts ==
    ASSUME TypeInv, RowInv, ChartInv, PullServe
    PROVE  /\ pull \in Asked /\ pull' \in Answers /\ pull'.since = pull.since /\ pull'.mine = pull.mine
           /\ pull'.delta = get_delta_since_seq(pull.since) /\ pull'.at = now /\ pull'.epoch = gap.epoch
<1>1. pull \in Asked
  BY PullKinds DEF PullServe, ChartInv, ClientType
<1>2. pull.since \in Nat /\ pull.retried \in BOOLEAN /\ pull.mine \in BOOLEAN
  BY <1>1 DEF Asked
<1> DEFINE d == get_delta_since_seq(pull.since)
           own == IF raw = {} THEN None ELSE Newest.ts
<1>3. d \in [latest: Nat, entries: Seq(Nat)]
  <2>1. d.latest = latest_seq /\ d.entries \in Seq(Kept)
    BY <1>2, DeltaFacts
  <2>2. Kept \subseteq Nat /\ latest_seq \in Nat
    BY LatestFacts DEF TypeInv, TypeOK, Kept
  <2>3. d.entries \in Seq(Nat)
    <3>1. ASSUME NEW q \in Seq(Kept) PROVE q \in Seq(Nat)
      <4>1. Len(q) \in Nat /\ q \in [1..Len(q) -> Kept]
        BY <3>1, LenProperties
      <4>2. q \in [1..Len(q) -> Nat]
        BY <2>2, <4>1
      <4> QED BY <4>1, <4>2, SeqDef
    <3> QED BY <2>1, <3>1
  <2>4. d = [latest |-> d.latest, entries |-> d.entries]
    BY DEF get_delta_since_seq
  <2> HIDE DEF d
  <2> QED BY <2>1, <2>2, <2>3, <2>4
<1>4. own \in Int /\ now \in Nat /\ gap.epoch \in Nat
  <2>1. raw # {} => Newest.ts \in Nat
    BY LatestTyped DEF TypeInv, TypeOK
  <2> QED BY <2>1 DEF None, TypeInv, TypeOK, ChartInv, ClientType
<1>5. pull' = [pc |-> "answered", since |-> pull.since, retried |-> pull.retried, mine |-> pull.mine,
               delta |-> d, at |-> now, epoch |-> gap.epoch, own |-> own]
  BY DEF PullServe
<1> HIDE DEF d, own
<1>6. pull' \in Answers
  BY <1>2, <1>3, <1>4, <1>5 DEF Answers
<1>7. QED
  BY <1>1, <1>5, <1>6 DEF d

\* A new PeerState forgets the chart; the pull in flight is not its own.
LEMMA ReloadFacts ==
    ASSUME ChartInv, DevicesReload
    PROVE  /\ pull' = Idle \/ (pull' \in Asked /\ pull \in Asked) \/ (pull' \in Answers /\ pull \in Answers)
           /\ pull # Idle => pull' # Idle /\ ~pull'.mine
           /\ pull \in Answers => /\ pull'.delta = pull.delta /\ pull'.epoch = pull.epoch
                                  /\ pull'.since = pull.since /\ pull'.at = pull.at
<1>1. CASE pull = Idle
  BY <1>1, PullKinds DEF DevicesReload
<1>2. CASE pull \in Asked
  <2>1. pull # Idle
    BY <1>2, PullKinds
  <2>2. pull' = [pull EXCEPT !.mine = FALSE]
    BY <2>1 DEF DevicesReload
  <2>3. pull' \in Asked /\ ~pull'.mine
    BY <1>2, <2>2 DEF Asked
  <2> QED BY <1>2, <2>3, PullKinds
<1>3. CASE pull \in Answers
  <2>1. pull # Idle
    BY <1>3, PullKinds
  <2>2. pull' = [pull EXCEPT !.mine = FALSE]
    BY <2>1 DEF DevicesReload
  <2>3. pull' \in Answers /\ ~pull'.mine
    BY <1>3, <2>2 DEF Answers
  <2>4. /\ pull'.delta = pull.delta /\ pull'.epoch = pull.epoch
        /\ pull'.since = pull.since /\ pull'.at = pull.at
    BY <1>3, <2>2 DEF Answers
  <2> QED BY <1>3, <2>3, <2>4, PullKinds
<1>4. QED
  BY <1>1, <1>2, <1>3 DEF ChartInv, ClientType

\* Steps of the network and of the monitoring node leave the rows alone.
LEMMA SyncRowSteps ==
    ASSUME TypeInv, CycleInv, [Next]_vars
    PROVE  /\ now <= now' /\ (RowsStay \/ RowsGo \/ \E r : RowComes(r))
           /\ ~ServerStep => RowsStay /\ now' = now
<1>1. CASE ServerStep
  BY <1>1, RowSteps DEF ServerStep
<1>2. CASE ~ServerStep
  <2>1. UNCHANGED <<now, store, due, job, taken>>
    BY <1>2, ServerSide
  <2>2. now \in Nat
    BY DEF TypeInv, TypeOK
  <2> QED BY <2>1, <2>2 DEF RowsStay, store
<1>3. QED
  BY <1>1, <1>2

\* What the application of an answer to the chart does.
LEMMA ApplyCases ==
    ASSUME ChartInv, PullApply
    PROVE  /\ pull \in Answers /\ pull' = Idle
           /\ IF pull.mine
              THEN /\ chart' = LastOf(chart \o pull.delta.entries, MaxLen) /\ cursor' = pull.delta.latest
                   /\ gap'.epoch = gap.epoch /\ gap'.seen = pull.epoch
                   /\ gap'.hole = IF pull.epoch # gap.seen /\ pull.since > 0 THEN pull.at ELSE gap.hole
                   /\ gap' \in [epoch: Nat, seen: Nat, hole: Int]
              ELSE chart' = chart /\ cursor' = cursor /\ gap' = gap
<1>1. pull \in Answers /\ pull' = Idle
  BY PullKinds DEF ChartInv, ClientType, PullApply
<1>2. gap \in [epoch: Nat, seen: Nat, hole: Int] /\ pull.epoch \in Nat /\ pull.at \in Nat
  BY <1>1 DEF ChartInv, ClientType, Answers
<1>3. CASE pull.mine
  <2>1. /\ chart' = LastOf(chart \o pull.delta.entries, MaxLen) /\ cursor' = pull.delta.latest
        /\ gap' = [gap EXCEPT !.seen = pull.epoch,
                     !.hole = IF pull.epoch # gap.seen /\ pull.since > 0 THEN pull.at ELSE @]
    BY <1>3 DEF PullApply, Owner
  <2>2. /\ gap'.epoch = gap.epoch /\ gap'.seen = pull.epoch
        /\ gap'.hole = IF pull.epoch # gap.seen /\ pull.since > 0 THEN pull.at ELSE gap.hole
    BY <1>2, <2>1
  <2>3. gap' \in [epoch: Nat, seen: Nat, hole: Int]
    <3> DEFINE h == IF pull.epoch # gap.seen /\ pull.since > 0 THEN pull.at ELSE gap.hole
    <3>1. h \in Int
      BY <1>2
    <3>2. gap' = [gap EXCEPT !.seen = pull.epoch, !.hole = h]
      BY <2>1
    <3> HIDE DEF h
    <3> QED BY <1>2, <3>1, <3>2
  <2> QED BY <1>1, <1>3, <2>1, <2>2, <2>3
<1>4. CASE ~pull.mine
  BY <1>1, <1>4 DEF PullApply, Owner
<1>5. QED
  BY <1>3, <1>4

\* Every step keeps the chart in order.
LEMMA NextKeepsChart ==
    ASSUME TypeInv, TypeInv', CycleInv, RowInv, ChartInv, [Next]_vars
    PROVE  ChartInv'
<1>0. /\ chart \in Seq(Nat) /\ cursor \in Nat /\ pull \in {Idle} \cup Asked \cup Answers
      /\ gap \in [epoch: Nat, seen: Nat, hole: Int] /\ now \in Nat
      /\ Rising(chart) /\ Seen(raw, taken, chart, cursor)
  BY DEF ChartInv, ClientType, TypeInv, TypeOK
<1>1. RowsStay \/ RowsGo \/ \E r : RowComes(r)
  BY SyncRowSteps
<1>2. ASSUME chart' = chart, cursor' = cursor, pull' = pull, gap' = gap
      PROVE  ChartInv'
  BY <1>0, <1>1, <1>2, ChartFrame
<1>3. ASSUME raw' = raw, taken' = taken, chart' \in Seq(Nat), cursor' \in Nat,
             gap' \in [epoch: Nat, seen: Nat, hole: Int], pull' \in {Idle} \cup Asked,
             pull' \in Asked => (pull'.mine => pull'.since = cursor'),
             Rising(chart'), Seen(raw, taken, chart', cursor')
      PROVE  ChartInv'
  <2>1. pull' \notin Answers
    BY <1>3, PullKinds
  <2> QED BY <1>3, <2>1 DEF ChartInv, ClientType
<1>4. CASE ServerStep
  <2>1. chart' = chart /\ cursor' = cursor /\ pull' = pull
    BY <1>4 DEF ServerStep, client
  <2>2. gap' \in [epoch: Nat, seen: Nat, hole: Int]
    BY <1>0, <1>4 DEF ServerStep
  <2> QED BY <1>1, <2>1, <2>2, ChartFrame
<1>5. CASE PullAsk
  <2>1. pull' = [pc |-> "asked", since |-> cursor, retried |-> FALSE, mine |-> TRUE]
    BY <1>5 DEF PullAsk
  <2>2. pull' \in Asked /\ pull'.since = cursor
    BY <1>0, <2>1 DEF Asked
  <2>3. raw' = raw /\ taken' = taken /\ chart' = chart /\ cursor' = cursor /\ gap' = gap
    BY <1>5 DEF PullAsk, svars, store
  <2> QED BY <1>0, <1>3, <2>2, <2>3
<1>6. CASE PullServe
  <2> DEFINE d == pull'.delta
  <2>1. /\ pull \in Asked /\ pull' \in Answers /\ pull'.since = pull.since /\ pull'.mine = pull.mine
        /\ pull'.delta = get_delta_since_seq(pull.since) /\ pull.since \in Nat
    BY <1>6, ServeFacts DEF Asked
  <2>2. raw' = raw /\ taken' = taken /\ chart' = chart /\ cursor' = cursor /\ gap' = gap
    BY <1>6 DEF PullServe, svars, store
  <2>3. /\ d.latest = latest_seq /\ d.entries \in Seq(Kept) /\ Rising(d.entries)
        /\ \A i \in 1..Len(d.entries) : \E r \in raw : r.ts = d.entries[i] /\ r.seq > pull.since
    BY <2>1, DeltaFacts
  <2>4. \A r \in raw : r.seq \in Nat /\ r.seq <= latest_seq /\ r.ts \in Nat
    BY LatestFacts DEF TypeInv, TypeOK
  <2> HIDE DEF d
  <2>5. Seen(raw, taken, d.entries, d.latest)
    BY <2>3, <2>4 DEF Seen, RowInv, Kept
  <2>6. Seen(raw, taken, chart, d.latest)
    BY <1>0, <2>3, <2>4 DEF Seen
  <2>7. ASSUME pull'.mine, NEW i \in 1..Len(chart), NEW j \in 1..Len(d.entries) PROVE chart[i] < d.entries[j]
    <3>1. PICK r \in raw : r.ts = d.entries[j] /\ r.seq > pull.since
      BY <2>3
    <3>2. pull.since = cursor
      BY <2>1, <2>7 DEF ChartInv
    <3>3. ~(r.ts <= chart[i])
      BY <1>0, <2>4, <3>1, <3>2 DEF Seen
    <3>4. r.ts \in Nat /\ chart[i] \in Nat
      BY <1>0, <2>4
    <3> QED BY <3>1, <3>3, <3>4
  <2>8. AnswerOK'
    BY <2>2, <2>3, <2>5, <2>6, <2>7 DEF AnswerOK, d
  <2>9. pull'.mine => pull'.since = cursor'
    BY <2>1, <2>2 DEF ChartInv
  <2> QED BY <1>0, <2>1, <2>2, <2>8, <2>9 DEF ChartInv, ClientType
<1>7. CASE PullLost
  <2>1. pull \in Asked \cup Answers
    BY <1>0, <1>7, PullKinds DEF PullLost
  <2>2. pull' = Idle \/ pull' = [pc |-> "asked", since |-> pull.since, retried |-> TRUE, mine |-> pull.mine]
    BY <1>7 DEF PullLost
  <2>3. pull' = Idle \/ (pull' \in Asked /\ pull'.since = pull.since /\ pull'.mine = pull.mine)
    <3>1. pull.since \in Nat /\ pull.mine \in BOOLEAN
      BY <2>1 DEF Asked, Answers
    <3>2. CASE pull' = [pc |-> "asked", since |-> pull.since, retried |-> TRUE, mine |-> pull.mine]
      BY <3>1, <3>2 DEF Asked
    <3> QED BY <2>2, <3>2
  <2>4. raw' = raw /\ taken' = taken /\ chart' = chart /\ cursor' = cursor /\ gap' = gap
    BY <1>7 DEF PullLost, Lose, store
  <2>5. pull' \in Asked => (pull'.mine => pull'.since = cursor')
    BY <2>1, <2>3, <2>4, PullKinds DEF ChartInv
  <2> QED BY <1>0, <1>3, <2>3, <2>4, <2>5
<1>8. CASE PullApply
  <2>1. raw' = raw /\ taken' = taken
    BY <1>8 DEF PullApply, svars, store
  <2>2. pull \in Answers /\ pull' = Idle /\ Idle \notin Asked
    BY <1>8, ApplyCases, PullKinds
  <2>3. CASE pull.mine
    <3> DEFINE es == pull.delta.entries
               n == pull.delta.latest
    <3>1. es \in Seq(Nat) /\ n \in Nat
      BY <2>2 DEF Answers
    <3>2. /\ chart' = LastOf(chart \o es, MaxLen) /\ cursor' = n /\ gap' \in [epoch: Nat, seen: Nat, hole: Int]
      BY <1>8, <2>3, ApplyCases
    <3>3. /\ Rising(es) /\ Seen(raw, taken, es, n) /\ Seen(raw, taken, chart, n)
          /\ \A i \in 1..Len(chart), j \in 1..Len(es) : chart[i] < es[j]
      BY <2>2, <2>3 DEF ChartInv, AnswerOK
    <3> HIDE DEF es, n
    <3>4. chart' \in Seq(Nat) /\ Rising(chart') /\ Seen(raw, taken, chart', n)
      BY <1>0, <3>1, <3>2, <3>3, ApplyFacts
    <3> QED BY <1>3, <2>1, <2>2, <3>1, <3>2, <3>4
  <2>4. CASE ~pull.mine
    <3>1. chart' = chart /\ cursor' = cursor /\ gap' = gap
      BY <1>8, <2>4, ApplyCases
    <3> QED BY <1>0, <1>3, <2>1, <2>2, <3>1
  <2> QED BY <2>3, <2>4
<1>9. ASSUME DevicesReload \/ ClientRestart
      PROVE  chart' = <<>> /\ cursor' = 0 /\ gap' \in [epoch: Nat, seen: Nat, hole: Int]
             /\ raw' = raw /\ taken' = taken
             /\ Rising(chart') /\ Seen(raw, taken, chart', cursor') /\ chart' \in Seq(Nat)
  <2>1. chart' = <<>> /\ cursor' = 0 /\ gap' = [gap EXCEPT !.hole = None] /\ raw' = raw /\ taken' = taken
    <3>1. CASE DevicesReload
      BY <3>1 DEF DevicesReload, Lose, store
    <3>2. CASE ClientRestart
      BY <3>2 DEF ClientRestart, Lose, store
    <3> QED BY <1>9, <3>1, <3>2
  <2>2. gap' \in [epoch: Nat, seen: Nat, hole: Int]
    <3>1. None \in Int
      BY DEF None
    <3>2. gap \in [epoch: Nat, seen: Nat, hole: Int] /\ gap' = [gap EXCEPT !.hole = None]
      BY <1>0, <2>1
    <3> QED BY <3>1, <3>2
  <2>3. <<>> \in Seq(Nat) /\ 1..Len(<<>>) = {}
    OBVIOUS
  <2> QED BY <2>1, <2>2, <2>3 DEF Rising, Seen
<1>10. CASE DevicesReload
  <2>1. /\ pull' = Idle \/ (pull' \in Asked /\ pull \in Asked) \/ (pull' \in Answers /\ pull \in Answers)
        /\ pull # Idle => pull' # Idle /\ ~pull'.mine
        /\ pull \in Answers => pull'.delta = pull.delta
    BY <1>10, ReloadFacts
  <2>2. pull' \in Asked \cup Answers => ~pull'.mine
    BY <2>1, PullKinds
  <2>3. pull' \in Answers => AnswerOK'
    <3> SUFFICES ASSUME pull' \in Answers PROVE AnswerOK'
      OBVIOUS
    <3>1. pull \in Answers
      BY <2>1, PullKinds
    <3> QED BY <1>9, <1>10, <2>1, <2>2, <3>1 DEF ChartInv, AnswerOK
  <2> QED BY <1>9, <1>10, <2>1, <2>2, <2>3 DEF ChartInv, ClientType
<1>11. CASE ClientRestart
  <2>1. pull' = Idle /\ Idle \notin Asked
    BY <1>11, PullKinds DEF ClientRestart
  <2> QED BY <1>3, <1>9, <1>11, <2>1
<1>12. CASE \/ \E since \in {None} \cup Sinces : SyncAsk(since)
            \/ SyncAskCursor \/ SyncServe \/ SyncLost \/ SyncApply \/ UNCHANGED vars
  BY <1>2, <1>12 DEF SyncAsk, SyncAskCursor, SyncServe, SyncLost, SyncApply, vars, client
<1>13. QED
  BY <1>4, <1>5, <1>6, <1>7, <1>8, <1>10, <1>11, <1>12 DEF Next

\* The inductive invariant of the chart.
SyncInv == TypeInv /\ CycleInv /\ RowInv /\ ChartInv

\* Every state of the composed system has the four parts of the invariant.
LEMMA SyncInvariant == SyncSpec => []SyncInv
<1>1. SyncInit => SyncInv
  <2> SUFFICES ASSUME SyncInit PROVE SyncInv
    OBVIOUS
  <2>0. Init /\ chart = <<>> /\ cursor = 0 /\ pull = Idle /\ gap = [epoch |-> 0, seen |-> 0, hole |-> None]
    BY DEF SyncInit
  <2>1. TypeInv /\ CycleInv
    BY <2>0, InitTypes, InitCycles
  <2>2. raw = {} /\ taken = {}
    BY <2>0 DEF Init
  <2>3. RowInv
    BY <2>2, FS_EmptySet DEF RowInv, Kept
  <2>4. <<>> \in Seq(Nat) /\ 1..Len(<<>>) = {}
    OBVIOUS
  <2>5. ChartInv
    BY <2>0, <2>4, PullKinds DEF ChartInv, ClientType, Rising, Seen, None
  <2> QED BY <2>1, <2>3, <2>5 DEF SyncInv
<1>2. SyncInv /\ [Next]_vars => SyncInv'
  <2> SUFFICES ASSUME SyncInv, [Next]_vars PROVE SyncInv'
    OBVIOUS
  <2>1. TypeInv /\ CycleInv /\ RowInv /\ ChartInv
    BY DEF SyncInv
  <2>2. TypeInv' /\ CycleInv'
    <3>1. CASE ServerStep
      BY <2>1, <3>1, ServerSide, NextKeepsCycles DEF ServerStep
    <3>2. CASE ~ServerStep
      <4>1. UNCHANGED <<now, raw, due, job, taken>>
        BY <2>1, <3>2, ServerSide DEF store
      <4>2. CycleInv'
        BY <2>1, <4>1 DEF CycleInv, Flying, Stamp
      <4> QED BY <2>1, <4>2, ServerSide
    <3> QED BY <3>1, <3>2
  <2>3. RowInv'
    BY <2>1, <2>2, SyncRowSteps, NextKeepsRows
  <2>4. ChartInv'
    BY <2>1, <2>2, NextKeepsChart
  <2> QED BY <2>2, <2>3, <2>4 DEF SyncInv
<1>3. QED
  BY <1>1, <1>2, PTL DEF SyncSpec

\* The chart shows each snapshot once and in order, through lost answers, the
\* relay retry, reloads with a pull in flight and numbers that start again.
THEOREM ChartInOrder == SyncSpec => []ChartOrdered
<1>1. SyncInv => ChartOrdered
  <2> SUFFICES ASSUME SyncInv, NEW i \in 1..(Len(chart) - 1) PROVE chart[i] < chart[i + 1]
    BY DEF ChartOrdered
  <2>1. Rising(chart) /\ Len(chart) \in Nat
    BY DEF SyncInv, ChartInv, ClientType
  <2> QED BY <2>1 DEF Rising
<1>2. QED
  BY <1>1, SyncInvariant, PTL

-----------------------------------------------------------------------------
(* No row is missing from the chart *)

\* The answer in flight is from the present numbering: it has the rows that
\* follow its cursor, and what has come since has larger numbers.
Current ==
    /\ pull.delta.latest <= latest_seq
    /\ \A r \in raw : r.seq <= pull.delta.latest =>
         /\ r.ts <= pull.at
         /\ r.seq > pull.since /\ r.seq > pull.delta.latest - MaxEntries => Holds(pull.delta.entries, r.ts)

\* The hourly job has not run again since the time e: a prune at a later run has
\* a later time, so that no two numberings begin at the same one.
HourClock(e) ==
    /\ e = now => now < due["hourly"]
    /\ job["hourly"] # Idle => e < now /\ now < due["hourly"]

\* Jobs other than the stats cycle finish before time goes on.
LEMMA NextKeepsClock ==
    ASSUME TypeInv, [StoreNext]_svars, NEW e \in Nat, e <= now, HourClock(e)
    PROVE  /\ HourClock(e)'
           /\ RowsGo => e < now /\ now < due'["hourly"] /\ job'["hourly"] = Idle
<1>0. /\ now \in Nat /\ due \in [Jobs -> Nat] /\ "hourly" \in Jobs /\ Jumps \subseteq Nat /\ HOUR \in Nat \ {0}
      /\ job = [j \in Jobs |-> job[j]]
  BY SpanAssumption DEF TypeInv, TypeOK, JobOK, Jobs
<1>a. SUFFICES HourClock(e)'
  BY DEF RowsGo, HourClock
<1>1. ASSUME now' = now, due'["hourly"] = due["hourly"], job'["hourly"] = job["hourly"] \/ job'["hourly"] = Idle
      PROVE  HourClock(e)'
  BY <1>1 DEF HourClock
<1>2. CASE Tick
  <2>1. now' = now + 1 /\ job' = job /\ job["hourly"] = Idle
    BY <1>0, <1>2 DEF Tick, Quiet
  <2> QED BY <1>0, <2>1 DEF HourClock
<1>3. ASSUME NEW k \in Jumps, Suspend(k)
      PROVE  HourClock(e)'
  <2>1. now' = now + k /\ k \in Nat /\ job' = job /\ job["hourly"] = Idle
    BY <1>0, <1>3 DEF Suspend, Quiet
  <2>2. due'["hourly"] = due["hourly"] \/ now' < due'["hourly"]
    BY <1>0, <1>3, SuspendDue
  <2>3. CASE k = 0
    <3>1. now' = now
      BY <1>0, <2>1, <2>3
    <3> QED BY <2>1, <2>2, <3>1 DEF HourClock
  <2>4. CASE k # 0
    <3>1. e # now'
      BY <1>0, <2>1, <2>4
    <3> QED BY <2>1, <3>1 DEF HourClock
  <2> QED BY <2>3, <2>4
<1>4. ASSUME NEW k \in Jumps, Restart(k)
      PROVE  HourClock(e)'
  <2>1. now' = now + k /\ k \in Nat /\ job'["hourly"] = Idle /\ due'["hourly"] = now + k + HOUR
    BY <1>0, <1>4 DEF Restart, Period
  <2> QED BY <1>0, <2>1 DEF HourClock
<1>5. ASSUME NEW j \in Jobs, JobFails(j)
      PROVE  HourClock(e)'
  <2>1. job'["hourly"] = job["hourly"] \/ job'["hourly"] = Idle
    BY <1>0, <1>5, FinishTyped DEF JobFails
  <2> QED BY <1>1, <1>5, <2>1 DEF JobFails
<1>6. ASSUME NEW j \in Jobs \ {"hourly"}, NEW work, Start(j, work), now' = now
      PROVE  HourClock(e)'
  BY <1>0, <1>1, <1>6, StartTyped
<1>7. CASE StatsCycle
  <2>1. (\E work : Start("stats", work)) /\ now' = now
    BY <1>7 DEF StatsCycle
  <2> QED BY <1>6, <2>1 DEF Jobs
<1>8. CASE StatsEventFails \/ roll_up_5min \/ roll_daily
  BY <1>6, <1>8 DEF StatsEventFails, roll_up_5min, roll_daily, Jobs
<1>9. CASE roll_hourly
  <2>1. (\E work : Start("hourly", work)) /\ now' = now
    BY <1>9 DEF roll_hourly
  <2>2. now < due'["hourly"] /\ due["hourly"] <= now
    BY <1>0, <2>1, StartTyped
  <2>3. due["hourly"] \in Nat
    BY <1>0
  <2>4. e # now
    BY <1>0, <2>2, <2>3 DEF HourClock
  <2> QED BY <1>0, <2>1, <2>2, <2>4 DEF HourClock
<1>10. CASE MoveBox \/ UNCHANGED svars
  BY <1>1, <1>10 DEF MoveBox, svars
<1>11. CASE StatsSkipped
  BY <1>0, <1>1, <1>11 DEF StatsSkipped
<1>12. CASE record_snapshot \/ roll_up_5min_write \/ roll_daily_write \/ prune
  <2>1. (\E j \in Jobs : Finish(j)) /\ now' = now /\ due' = due
    BY <1>12 DEF record_snapshot, roll_up_5min_write, roll_daily_write, prune, Jobs
  <2>2. job'["hourly"] = job["hourly"] \/ job'["hourly"] = Idle
    BY <1>0, <2>1, FinishTyped
  <2> QED BY <1>1, <2>1, <2>2
<1>13. CASE roll_hourly_write
  <2>1. job["hourly"] # Idle /\ now' = now /\ due' = due
    BY <1>13 DEF roll_hourly_write, Idle
  <2> QED BY <2>1 DEF HourClock
<1>14. QED
  BY <1>2, <1>3, <1>4, <1>5, <1>7, <1>8, <1>9, <1>10, <1>11, <1>12, <1>13 DEF StoreNext

\* The chart is complete, the present numbering is later than the one the chart
\* has seen unless it is the same, and the answer in flight, if it is of the
\* present numbering, is complete too.
GapInv ==
    /\ ChartComplete
    /\ gap.seen <= gap.epoch /\ gap.epoch <= now
    /\ HourClock(gap.epoch)
    /\ gap.seen = gap.epoch => cursor <= latest_seq
    /\ pull \in Answers => pull.epoch <= gap.epoch /\ (pull.epoch = gap.epoch => Current)

\* ChartComplete, in terms of its caps.
LEMMA CompleteAs ==
    ChartComplete <=>
      \A r \in raw : (/\ r.seq <= cursor /\ r.seq > latest_seq - Min({MaxEntries, MaxLen})
                      /\ gap.seen = gap.epoch /\ r.ts > gap.hole) => Holds(chart, r.ts)
BY DEF ChartComplete, Holds

\* A prune that empties the table begins a new numbering; all other steps of
\* the monitored node keep the answer current and the chart complete.
LEMMA ServerKeepsGap ==
    ASSUME TypeInv, TypeInv', CycleInv, RowInv, ChartInv, GapInv, ServerStep
    PROVE  GapInv'
<1>0. /\ gap \in [epoch: Nat, seen: Nat, hole: Int] /\ now \in Nat /\ now' \in Nat /\ cursor \in Nat
      /\ RawRetain \in Nat /\ Min({MaxEntries, MaxLen}) \in Int
      /\ latest_seq \in Nat /\ (\A r \in raw : r.seq \in Nat /\ r.seq <= latest_seq /\ r.ts \in Nat)
  <2>1. gap \in [epoch: Nat, seen: Nat, hole: Int] /\ cursor \in Nat
    BY DEF ChartInv, ClientType
  <2>2. now \in Nat /\ now' \in Nat /\ \A r \in raw : r.ts \in Nat
    BY DEF TypeInv, TypeOK
  <2>3. RawRetain \in Nat /\ MaxEntries \in Int /\ MaxLen \in Int
    BY SpanAssumption, SyncAssumption
  <2> QED BY <2>1, <2>2, <2>3, LatestFacts, TwoMin
<1>a. /\ gap.seen <= gap.epoch /\ gap.epoch <= now /\ HourClock(gap.epoch)
      /\ (gap.seen = gap.epoch => cursor <= latest_seq)
      /\ (pull \in Answers => pull.epoch <= gap.epoch /\ (pull.epoch = gap.epoch => Current))
      /\ \A r \in raw : (/\ r.seq <= cursor /\ r.seq > latest_seq - Min({MaxEntries, MaxLen})
                         /\ gap.seen = gap.epoch /\ r.ts > gap.hole) => Holds(chart, r.ts)
  BY CompleteAs DEF GapInv
<1>b. now <= now' /\ (RowsStay \/ RowsGo \/ \E r : RowComes(r))
  BY RowSteps DEF ServerStep
<1>c. chart' = chart /\ cursor' = cursor /\ pull' = pull
  BY DEF ServerStep, client
<1>d. PICK e \in Nat : e = gap.epoch
  BY <1>0
<1>e. /\ HourClock(e)'
      /\ RowsGo => e < now /\ now < due'["hourly"] /\ job'["hourly"] = Idle
  BY <1>a, <1>d, NextKeepsClock DEF ServerStep
<1>1. CASE raw # {} /\ raw' = {}
  <2>1. RowsGo
    BY <1>b, <1>1 DEF RowsStay, RowComes
  <2>4. gap.epoch < now /\ now < due'["hourly"] /\ job'["hourly"] = Idle
    BY <1>d, <1>e, <2>1
  <2>5. now' = now /\ gap' = [gap EXCEPT !.epoch = now]
    BY <1>1, <2>1 DEF RowsGo, ServerStep
  <2>6. gap'.epoch = now /\ gap'.seen = gap.seen
    BY <1>0, <2>5
  <2>7. gap'.seen # gap'.epoch /\ gap'.seen <= gap'.epoch /\ gap'.epoch <= now'
    BY <1>0, <1>a, <2>4, <2>5, <2>6
  <2>8. pull' \in Answers => pull'.epoch < gap'.epoch /\ pull'.epoch \in Nat
    BY <1>0, <1>a, <1>c, <2>4, <2>6 DEF Answers
  <2>9. ChartComplete'
    BY <1>1 DEF ChartComplete
  <2>10. HourClock(gap.epoch)'
    BY <2>4, <2>5, <2>6 DEF HourClock
  <2> QED BY <1>0, <1>1, <2>6, <2>7, <2>8, <2>9, <2>10 DEF GapInv
<1>2. CASE ~(raw # {} /\ raw' = {})
  <2>1. gap' = gap /\ HourClock(gap.epoch)'
    <3>1. gap' = gap
      BY <1>2 DEF ServerStep
    <3> QED BY <1>d, <1>e, <3>1 DEF HourClock
  <2>2. ASSUME raw' \subseteq raw, latest_seq' = latest_seq PROVE GapInv'
    <3>1. ChartComplete'
      <4>1. \A r \in raw' : (/\ r.seq <= cursor' /\ r.seq > latest_seq' - Min({MaxEntries, MaxLen})
                             /\ gap'.seen = gap'.epoch /\ r.ts > gap'.hole) => Holds(chart', r.ts)
        BY <1>a, <1>c, <2>1, <2>2
      <4> QED BY <4>1 DEF ChartComplete, Holds
    <3>2. gap.epoch <= now'
      BY <1>0, <1>a, <1>b
    <3>3. Current => Current'
      BY <1>c, <2>2 DEF Current
    <3> QED BY <1>a, <1>c, <2>1, <2>2, <3>1, <3>2, <3>3 DEF GapInv
  <2>3. CASE RowsStay
    BY <2>2, <2>3, LatestSteps DEF RowsStay
  <2>4. CASE RowsGo
    <3>1. CASE raw' # {}
      BY <2>2, <2>4, <3>1, LatestSteps DEF RowsGo
    <3>2. CASE raw' = {}
      <4>1. raw' = raw
        BY <1>2, <3>2
      <4> QED BY <2>2, <4>1 DEF latest_seq
    <3> QED BY <3>1, <3>2
  <2>5. ASSUME NEW n, RowComes(n) PROVE GapInv'
    <3>1. /\ raw' = raw \cup {n} /\ n.seq = latest_seq + 1 /\ now' = now
          /\ latest_seq' = latest_seq + 1
      BY <2>5, LatestFacts, LatestSteps DEF RowComes
    <3>2. ChartComplete'
      <4>1. SUFFICES ASSUME NEW r \in raw', r.seq <= cursor, r.seq > latest_seq' - Min({MaxEntries, MaxLen}),
                            gap.seen = gap.epoch, r.ts > gap.hole
                     PROVE  Holds(chart, r.ts)
        BY <1>c, <2>1 DEF ChartComplete, Holds
      <4>2. r # n
        BY <1>0, <1>a, <3>1, <4>1
      <4>3. r \in raw
        BY <3>1, <4>2
      <4>4. r.seq > latest_seq - Min({MaxEntries, MaxLen})
        BY <1>0, <3>1, <4>1, <4>3
      <4> QED BY <1>a, <4>1, <4>3, <4>4
    <3>3. ASSUME Current, pull \in Answers PROVE Current'
      <4>1. pull.delta.latest \in Nat /\ pull.delta.latest <= latest_seq
        BY <3>3 DEF Current, Answers
      <4>2. ~(n.seq <= pull.delta.latest) /\ pull.delta.latest <= latest_seq'
        BY <1>0, <3>1, <4>1
      <4> QED BY <1>c, <3>1, <3>3, <4>2 DEF Current
    <3>4. cursor <= latest_seq => cursor <= latest_seq'
      BY <1>0, <3>1
    <3> QED BY <1>a, <1>c, <2>1, <3>1, <3>2, <3>3, <3>4 DEF GapInv
  <2> QED BY <1>b, <2>3, <2>4, <2>5
<1>3. QED
  BY <1>1, <1>2

\* Applying an answer of the present numbering leaves no row out that the caps
\* have room for.
LEMMA ApplyKeepsGap ==
    ASSUME TypeInv, RowInv, ChartInv, GapInv, PullApply, pull.mine
    PROVE  GapInv'
<1> DEFINE es == pull.delta.entries
           n == pull.delta.latest
           c == chart \o es
<1>0. /\ pull \in Answers /\ pull' = Idle
      /\ chart' = LastOf(c, MaxLen) /\ cursor' = n /\ gap'.epoch = gap.epoch /\ gap'.seen = pull.epoch
      /\ gap'.hole = IF pull.epoch # gap.seen /\ pull.since > 0 THEN pull.at ELSE gap.hole
  BY ApplyCases
<1>1. /\ es \in Seq(Nat) /\ n \in Nat /\ chart \in Seq(Nat) /\ pull.since \in Nat /\ pull.at \in Nat
      /\ pull.epoch \in Nat /\ pull.since = cursor /\ gap \in [epoch: Nat, seen: Nat, hole: Int] /\ cursor \in Nat
  BY <1>0 DEF ChartInv, ClientType, Answers
<1>2. raw' = raw /\ now' = now /\ due' = due /\ job' = job /\ latest_seq' = latest_seq
  BY DEF PullApply, svars, store, latest_seq
<1>3. /\ Rising(es) /\ Seen(raw, taken, es, n) /\ Seen(raw, taken, chart, n) /\ Rising(chart)
      /\ \A i \in 1..Len(chart), j \in 1..Len(es) : chart[i] < es[j]
  BY <1>0 DEF ChartInv, AnswerOK
<1>4. /\ gap.epoch <= now /\ HourClock(gap.epoch) /\ pull.epoch <= gap.epoch
      /\ (pull.epoch = gap.epoch => Current)
      /\ \A r \in raw : (/\ r.seq <= cursor /\ r.seq > latest_seq - Min({MaxEntries, MaxLen})
                         /\ gap.seen = gap.epoch /\ r.ts > gap.hole) => Holds(chart, r.ts)
  BY <1>0, CompleteAs DEF GapInv
<1>5. /\ MaxEntries \in Int /\ MaxLen \in Int /\ Min({MaxEntries, MaxLen}) \in Int
      /\ Min({MaxEntries, MaxLen}) <= MaxEntries /\ Min({MaxEntries, MaxLen}) <= MaxLen
      /\ latest_seq \in Nat /\ (\A r \in raw : r.seq \in Nat /\ r.seq <= latest_seq /\ r.ts \in Nat /\ r.seq >= 1)
  <2>1. MaxEntries \in Int /\ MaxLen \in Int
    BY SyncAssumption
  <2>2. \A r \in raw : r.ts \in Nat /\ r.seq >= 1
    BY DEF TypeInv, TypeOK, RowInv
  <2> QED BY <2>1, <2>2, TwoMin, LatestFacts
<1> HIDE DEF es, n
<1>6. c \in Seq(Nat) /\ Rising(c) /\ Seen(raw, taken, c, n)
  BY <1>1, <1>3, ApplyFacts, JoinFacts
<1>j. /\ \A i \in 1..Len(chart) : i \in 1..Len(c) /\ c[i] = chart[i]
      /\ \A j \in 1..Len(es) : Len(chart) + j \in 1..Len(c) /\ c[Len(chart) + j] = es[j]
  BY <1>1, JoinFacts
<1> HIDE DEF c
<1>7. ASSUME NEW r \in raw, Holds(chart, r.ts) \/ Holds(es, r.ts) PROVE Holds(c, r.ts)
  <2>1. CASE Holds(chart, r.ts)
    BY <1>j, <2>1 DEF Holds
  <2>2. CASE Holds(es, r.ts)
    BY <1>j, <2>2 DEF Holds
  <2> QED BY <1>7, <2>1, <2>2
<1>8. ASSUME NEW r \in raw, r.seq <= n, r.seq > latest_seq - Min({MaxEntries, MaxLen}),
             pull.epoch = gap.epoch, r.ts > gap'.hole
      PROVE  Holds(LastOf(c, MaxLen), r.ts)
  <2>0. /\ n <= latest_seq /\ r.ts <= pull.at
        /\ (r.seq > pull.since /\ r.seq > n - MaxEntries => Holds(es, r.ts))
    BY <1>4, <1>8 DEF Current, es, n
  <2>1. ~(pull.epoch # gap.seen /\ pull.since > 0) /\ gap'.hole = gap.hole
    BY <1>0, <1>1, <1>5, <1>8, <2>0
  <2>2. Holds(chart, r.ts) \/ Holds(es, r.ts)
    <3>1. CASE r.seq > pull.since
      <4>1. r.seq > n - MaxEntries
        BY <1>1, <1>5, <1>8, <2>0
      <4> QED BY <2>0, <3>1, <4>1
    <3>2. CASE ~(r.seq > pull.since)
      <4>1. r.seq <= cursor /\ pull.since > 0
        BY <1>1, <1>5, <3>2
      <4>2. gap.seen = gap.epoch
        BY <1>8, <2>1, <4>1
      <4> QED BY <1>4, <1>8, <2>1, <4>1, <4>2
    <3> QED BY <3>1, <3>2
  <2>3. PICK k \in 1..Len(c) : c[k] = r.ts
    BY <1>7, <2>2 DEF Holds
  <2>4. Len(c) - k <= latest_seq - r.seq
    <3>1. \A i \in 1..Len(c) : c[i] \in taken
      BY <1>6 DEF Seen
    <3> QED BY <1>6, <2>3, <3>1, Spread
  <2>5. Len(c) - k < MaxLen
    <3>1. Len(c) \in Nat /\ k \in Nat
      BY <1>6
    <3> QED BY <1>5, <1>8, <2>4, <3>1
  <2>6. Holds(LastOf(c, MaxLen), c[k])
    BY <1>6, <2>5, TrimKeeps
  <2> QED BY <2>3, <2>6
<1>9. ChartComplete'
  <2>1. \A r \in raw' : (/\ r.seq <= cursor' /\ r.seq > latest_seq' - Min({MaxEntries, MaxLen})
                         /\ gap'.seen = gap'.epoch /\ r.ts > gap'.hole) => Holds(chart', r.ts)
    BY <1>0, <1>2, <1>8
  <2> QED BY <2>1 DEF ChartComplete, Holds
<1>10. gap'.seen = gap'.epoch => cursor' <= latest_seq'
  BY <1>0, <1>2, <1>4 DEF Current, n
<1>11. pull' \notin Answers
  BY <1>0, PullKinds
<1>12. HourClock(gap.epoch)'
  BY <1>0, <1>2, <1>4 DEF HourClock
<1>13. QED
  BY <1>0, <1>1, <1>2, <1>4, <1>9, <1>10, <1>11, <1>12 DEF GapInv

\* Every step keeps the chart complete.
LEMMA NextKeepsGap ==
    ASSUME TypeInv, TypeInv', CycleInv, RowInv, ChartInv, GapInv, [Next]_vars
    PROVE  GapInv'
<1>0. /\ gap \in [epoch: Nat, seen: Nat, hole: Int] /\ pull \in {Idle} \cup Asked \cup Answers
      /\ now \in Nat /\ latest_seq \in Nat /\ cursor \in Nat
  BY LatestFacts DEF ChartInv, ClientType, TypeInv, TypeOK
<1>1. CASE ServerStep
  BY <1>1, ServerKeepsGap
<1>2. CASE ~ServerStep
  <2>1. raw' = raw /\ now' = now /\ latest_seq' = latest_seq /\ due' = due /\ job' = job
    BY <1>2, ServerSide DEF store, latest_seq
  <2>2. ASSUME chart' = chart, cursor' = cursor, gap' = gap,
               pull' \in Answers => pull'.epoch <= gap.epoch /\ (pull'.epoch = gap.epoch => Current')
        PROVE  GapInv'
    <3>1. ChartComplete'
      BY <2>1, <2>2 DEF GapInv, ChartComplete
    <3> QED BY <2>1, <2>2, <3>1 DEF GapInv, HourClock
  <2>3. ASSUME chart' = chart, cursor' = cursor, gap' = gap, pull' = pull
        PROVE  GapInv'
    <3>1. Current => Current'
      BY <2>1, <2>3 DEF Current
    <3> QED BY <2>2, <2>3, <3>1 DEF GapInv
  <2>4. CASE PullAsk \/ PullLost
    <3>1. pull' = Idle \/ pull'.pc = "asked"
      BY <2>4 DEF PullAsk, PullLost
    <3>2. pull' \notin Answers
      <4>1. Idle.pc = "idle" /\ \A p \in Answers : p.pc = "answered"
        BY DEF Idle, Answers
      <4> QED BY <3>1, <4>1
    <3> QED BY <2>2, <2>4, <3>2 DEF PullAsk, PullLost
  <2>5. CASE PullServe
    <3> DEFINE d == pull'.delta
    <3>1. /\ pull \in Asked /\ pull'.since = pull.since /\ pull'.at = now /\ pull'.epoch = gap.epoch
          /\ d = get_delta_since_seq(pull.since) /\ pull.since \in Nat
      BY <2>5, ServeFacts DEF Asked
    <3>2. /\ d.latest = latest_seq
          /\ \A r \in raw : r.seq > pull.since /\ r.seq > latest_seq - MaxEntries => Holds(d.entries, r.ts)
      BY <3>1, DeltaFacts
    <3>3. \A r \in raw : r.ts <= now
      BY DEF TypeInv, RowsOK
    <3>4. Current'
      BY <1>0, <2>1, <3>1, <3>2, <3>3 DEF Current
    <3>5. chart' = chart /\ cursor' = cursor /\ gap' = gap
      BY <2>5 DEF PullServe
    <3> QED BY <1>0, <2>2, <3>1, <3>4, <3>5
  <2>6. CASE PullApply
    <3>1. CASE pull.mine
      BY <2>6, <3>1, ApplyKeepsGap
    <3>2. CASE ~pull.mine
      <4>1. chart' = chart /\ cursor' = cursor /\ gap' = gap /\ pull' \notin Answers
        BY <2>6, <3>2, ApplyCases, PullKinds
      <4> QED BY <2>2, <4>1
    <3> QED BY <3>1, <3>2
  <2>7. ASSUME DevicesReload \/ ClientRestart,
               pull' \in Answers => /\ pull \in Answers /\ pull'.delta = pull.delta /\ pull'.epoch = pull.epoch
                                    /\ pull'.since = pull.since /\ pull'.at = pull.at
        PROVE  GapInv'
    <3>1. cursor' = 0 /\ gap' = [gap EXCEPT !.hole = None]
      BY <2>7 DEF DevicesReload, ClientRestart
    <3>2. gap'.epoch = gap.epoch /\ gap'.seen = gap.seen
      BY <1>0, <3>1
    <3>3. ChartComplete'
      <4>1. \A r \in raw : ~(r.seq <= 0)
        BY LatestFacts DEF RowInv
      <4> QED BY <2>1, <3>1, <4>1 DEF ChartComplete
    <3>4. pull' \in Answers => (Current => Current')
      BY <2>1, <2>7 DEF Current
    <3> QED BY <1>0, <2>1, <2>7, <3>1, <3>2, <3>3, <3>4 DEF GapInv, HourClock
  <2>8. CASE DevicesReload
    <3>1. pull' \in Answers => pull \in Answers
      BY <2>8, ReloadFacts, PullKinds
    <3> QED BY <2>7, <2>8, <3>1, ReloadFacts
  <2>9. CASE ClientRestart
    <3>1. pull' \notin Answers
      BY <2>9, PullKinds DEF ClientRestart
    <3> QED BY <2>7, <2>9, <3>1
  <2>10. CASE \/ \E since \in {None} \cup Sinces : SyncAsk(since)
              \/ SyncAskCursor \/ SyncServe \/ SyncLost \/ SyncApply \/ UNCHANGED vars
    BY <2>3, <2>10 DEF SyncAsk, SyncAskCursor, SyncServe, SyncLost, SyncApply, vars, client
  <2> QED BY <1>2, <2>4, <2>5, <2>6, <2>8, <2>9, <2>10 DEF Next
<1>3. QED
  BY <1>1, <1>2

\* Once a pull is applied the chart has every stored row up to the cursor that
\* the caps leave room for, except around a restart of the numbering.
THEOREM ChartIsComplete == SyncSpec => []ChartComplete
<1>1. SyncInit => GapInv
  <2> SUFFICES ASSUME SyncInit PROVE GapInv
    OBVIOUS
  <2>1. /\ raw = {} /\ now = 0 /\ cursor = 0 /\ pull = Idle /\ TypeInv
        /\ gap = [epoch |-> 0, seen |-> 0, hole |-> None]
    BY InitTypes DEF SyncInit, Init
  <2>2. latest_seq \in Nat
    BY <2>1, LatestFacts
  <2>3. gap.epoch = 0 /\ gap.seen = 0 /\ pull \notin Answers
    BY <2>1, PullKinds
  <2>4. HourClock(0)
    BY <2>1, SpanAssumption DEF SyncInit, Init, HourClock, Period, Jobs
  <2> QED BY <2>1, <2>2, <2>3, <2>4 DEF GapInv, ChartComplete
<1>2. SyncInv /\ GapInv /\ SyncInv' /\ [Next]_vars => GapInv'
  BY NextKeepsGap DEF SyncInv
<1>3. GapInv => ChartComplete
  BY DEF GapInv
<1>4. QED
  BY <1>1, <1>2, <1>3, SyncInvariant, PTL DEF SyncSpec
=============================================================================
