--------------------------- MODULE LogStoreProofs ---------------------------
(***************************************************************************)
(* Proofs about the log store: types and keys, the record of container     *)
(* exits, and the rollups.                                                 *)
(*                                                                         *)
(* The rollup theorems have a hypothesis, Timing(J): a snapshot has to     *)
(* stay raw longer than a rollup can be late.  Everything else holds for   *)
(* all values of the constants.                                            *)
(***************************************************************************)
EXTENDS LogStore, WellFoundedInduction, TLAPS

\* A non-empty set of naturals has a least element.
LEMMA LeastNatural ==
    ASSUME NEW S \in SUBSET Nat, S # {}
    PROVE  \E m \in S : \A k \in S : m <= k
<1> DEFINE R == OpToRel(<, Nat)
<1>1. IsWellFoundedOn(R, Nat)
  BY NatLessThanWellFounded
<1>2. \E x \in S : \A y \in S : ~(<<y, x>> \in R)
  <2> HIDE DEF R
  <2> QED BY <1>1, WFMin
<1>3. ASSUME NEW x \in Nat, NEW y \in Nat, ~(<<y, x>> \in R) PROVE x <= y
  BY <1>3 DEF OpToRel
<1>4. QED
  <2> HIDE DEF R
  <2> QED BY <1>2, <1>3

\* A non-empty bounded set of naturals has a maximum.
LEMMA MaxOfBounded ==
    ASSUME NEW S \in SUBSET Nat, S # {}, NEW n \in Nat, \A x \in S : x <= n
    PROVE  Max(S) \in S /\ \A x \in S : x <= Max(S)
<1> DEFINE T == {n - x : x \in S}
<1>1. T \in SUBSET Nat /\ T # {}
  <2>1. PICK y \in S : TRUE
    OBVIOUS
  <2>2. n - y \in T
    OBVIOUS
  <2>3. \A x \in S : n - x \in Nat
    OBVIOUS
  <2> QED BY <2>2, <2>3
<1>2. PICK m \in T : \A k \in T : m <= k
  BY <1>1, LeastNatural
<1>3. PICK x \in S : m = n - x
  OBVIOUS
<1>4. \A y \in S : x >= y
  <2> TAKE y \in S
  <2>1. n - y \in T
    OBVIOUS
  <2>2. m <= n - y
    BY <1>2, <2>1
  <2> QED BY <1>3, <2>2
<1>5. \E z \in S : \A y \in S : z >= y
  BY <1>4
<1>6. Max(S) \in S /\ \A y \in S : Max(S) >= y
  BY <1>5 DEF Max
<1>7. QED
  BY <1>6

-----------------------------------------------------------------------------
(* Windows *)

\* The start of a window is a multiple of its span, at most t and less than a
\* span away.
LEMMA FloorBounds ==
    ASSUME NEW t \in Nat, NEW s \in Nat \ {0}
    PROVE  /\ Floor(t, s) \in Nat /\ Floor(t, s) <= t /\ t < Floor(t, s) + s
           /\ \E k \in Nat : Floor(t, s) = s * k
<1>1. t % s \in 0..(s - 1) /\ t = s * (t \div s) + (t % s) /\ t \div s \in Int
  BY Z3
<1>2. t \div s \in Nat
  <2>1. SUFFICES ASSUME t \div s <= -1 PROVE FALSE
    BY <1>1
  <2>2. s * (t \div s) <= -s
    BY <1>1, <2>1, Z3
  <2> QED BY <1>1, <2>2
<1>3. Floor(t, s) = s * (t \div s)
  BY <1>1 DEF Floor
<1>4. QED
  BY <1>1, <1>2, <1>3 DEF Floor

Aligned(x, s) == \E k \in Nat : x = s * k

\* Two different window starts are a span apart.
LEMMA AlignedStep ==
    ASSUME NEW s \in Nat \ {0}, NEW x, NEW y, Aligned(x, s), Aligned(y, s), x < y
    PROVE  x + s <= y
<1>1. PICK m \in Nat : x = s * m
  BY DEF Aligned
<1>2. PICK k \in Nat : y = s * k
  BY DEF Aligned
<1>3. m + 1 <= k
  <2>1. SUFFICES ASSUME k <= m PROVE FALSE
    OBVIOUS
  <2>2. s * k <= s * m
    BY <2>1
  <2> QED BY <1>1, <1>2, <2>2
<1>4. s * (m + 1) <= s * k
  BY <1>3
<1>5. s * (m + 1) = s * m + s
  OBVIOUS
<1>6. QED
  BY <1>1, <1>2, <1>4, <1>5

\* Floor gives the start of a window.
LEMMA FloorAligned ==
    ASSUME NEW t \in Nat, NEW s \in Nat \ {0}
    PROVE  Aligned(Floor(t, s), s)
BY FloorBounds DEF Aligned

\* Only one window contains t.
LEMMA FloorUnique ==
    ASSUME NEW t \in Nat, NEW s \in Nat \ {0}, NEW x \in Nat, Aligned(x, s), x <= t, t < x + s
    PROVE  Floor(t, s) = x
<1>1. /\ Floor(t, s) \in Nat /\ Floor(t, s) <= t /\ t < Floor(t, s) + s
      /\ Aligned(Floor(t, s), s)
  BY FloorBounds, FloorAligned
<1>2. ~(x < Floor(t, s))
  <2>1. SUFFICES ASSUME x < Floor(t, s) PROVE FALSE
    OBVIOUS
  <2>2. x + s <= Floor(t, s)
    BY <1>1, <2>1, AlignedStep
  <2> QED BY <1>1, <2>2
<1>3. ~(Floor(t, s) < x)
  <2>1. SUFFICES ASSUME Floor(t, s) < x PROVE FALSE
    OBVIOUS
  <2>2. Floor(t, s) + s <= x
    BY <1>1, <2>1, AlignedStep
  <2> QED BY <1>1, <2>2
<1>4. QED
  BY <1>1, <1>2, <1>3

\* Later times are in later windows, or in the same.
LEMMA FloorMono ==
    ASSUME NEW t \in Nat, NEW u \in Nat, t <= u, NEW s \in Nat \ {0}
    PROVE  Floor(t, s) <= Floor(u, s)
<1>1. /\ Floor(t, s) \in Nat /\ Floor(t, s) <= t /\ t < Floor(t, s) + s
      /\ Aligned(Floor(t, s), s)
  BY FloorBounds, FloorAligned
<1>2. /\ Floor(u, s) \in Nat /\ Floor(u, s) <= u /\ u < Floor(u, s) + s
      /\ Aligned(Floor(u, s), s)
  BY FloorBounds, FloorAligned
<1>3. SUFFICES ASSUME Floor(u, s) < Floor(t, s) PROVE FALSE
  BY <1>1, <1>2
<1>4. Floor(u, s) + s <= Floor(t, s)
  BY <1>1, <1>2, <1>3, AlignedStep
<1>5. QED
  BY <1>1, <1>2, <1>4

\* The start of a window is in that window.
LEMMA FloorIdem ==
    ASSUME NEW x \in Nat, NEW s \in Nat \ {0}, Aligned(x, s)
    PROVE  Floor(x, s) = x
BY FloorUnique

\* An hour starts and ends with a 5-minute window.
LEMMA HourAligned ==
    ASSUME NEW x \in Nat, Aligned(x, HOUR)
    PROVE  Aligned(x, B5) /\ Aligned(x + HOUR, B5)
<1>1. B5 \in Nat \ {0} /\ HOUR \in Nat \ {0} /\ HOUR % B5 = 0
  BY SpanAssumption
<1>2. Floor(HOUR, B5) = HOUR
  BY <1>1 DEF Floor
<1>3. PICK q \in Nat : HOUR = B5 * q
  <2>1. \E k \in Nat : Floor(HOUR, B5) = B5 * k
    BY <1>1, FloorBounds
  <2> QED BY <1>2, <2>1
<1>4. PICK k \in Nat : x = HOUR * k
  BY DEF Aligned
<1>5. x = B5 * (q * k) /\ q * k \in Nat
  <2>1. ASSUME NEW a \in Nat, NEW b \in Nat, NEW c \in Nat
        PROVE  (a * b) * c = a * (b * c) /\ b * c \in Nat /\ a * b + a * c = a * (b + c)
    OBVIOUS
  <2> QED BY <1>1, <1>3, <1>4, <2>1
<1>6. x + HOUR = B5 * (q * k + q) /\ q * k + q \in Nat
  <2>1. ASSUME NEW a \in Nat, NEW b \in Nat, NEW c \in Nat
        PROVE  a * b + a * c = a * (b + c)
    OBVIOUS
  <2> DEFINE m == q * k
  <2>2. m \in Nat /\ x = B5 * m
    BY <1>5
  <2> HIDE DEF m
  <2>3. B5 * m + B5 * q = B5 * (m + q)
    BY <1>1, <1>3, <2>1, <2>2
  <2> QED BY <1>3, <2>2, <2>3 DEF m
<1>7. QED
  BY <1>5, <1>6 DEF Aligned

\* The hour of a snapshot is the hour of its 5-minute window, which ends in it.
LEMMA FloorNest ==
    ASSUME NEW t \in Nat
    PROVE  /\ Floor(Floor(t, B5), HOUR) = Floor(t, HOUR)
           /\ Floor(t, B5) + B5 <= Floor(t, HOUR) + HOUR
<1>1. B5 \in Nat \ {0} /\ HOUR \in Nat \ {0}
  BY SpanAssumption
<1> DEFINE x == Floor(t, B5)
           h == Floor(t, HOUR)
<1>2. x \in Nat /\ x <= t /\ t < x + B5 /\ Aligned(x, B5)
  BY <1>1, FloorBounds, FloorAligned
<1>3. h \in Nat /\ h <= t /\ t < h + HOUR /\ Aligned(h, HOUR)
  BY <1>1, FloorBounds, FloorAligned
<1> HIDE DEF x, h
<1>4. Aligned(h, B5) /\ Aligned(h + HOUR, B5)
  BY <1>3, HourAligned
<1>5. h <= x
  <2>1. SUFFICES ASSUME x < h PROVE FALSE
    BY <1>2, <1>3
  <2>2. x + B5 <= h
    BY <1>1, <1>2, <1>4, <2>1, AlignedStep
  <2> QED BY <1>1, <1>2, <1>3, <2>2
<1>6. x < h + HOUR
  BY <1>1, <1>2, <1>3
<1>7. x + B5 <= h + HOUR
  BY <1>1, <1>2, <1>4, <1>6, AlignedStep
<1>8. Floor(x, HOUR) = h
  BY <1>1, <1>2, <1>3, <1>5, <1>6, FloorUnique
<1>9. QED
  BY <1>7, <1>8 DEF x, h

-----------------------------------------------------------------------------
(* The scheduler *)

\* No job has period zero.
LEMMA PeriodTyped == \A j \in Jobs : Period[j] \in Nat \ {0}
BY SpanAssumption DEF Jobs, Period

\* A job's next run is later than now, by one period at most.
LEMMA NextDueBounds ==
    ASSUME NEW j \in Jobs, NEW t \in Nat, due[j] \in Nat, due[j] <= t
    PROVE  NextDue(j, t) \in Nat /\ t < NextDue(j, t) /\ NextDue(j, t) <= t + Period[j]
<1>1. Period[j] \in Nat \ {0}
  BY PeriodTyped
<1> DEFINE a == t - due[j]
<1>2. a \in Nat
  OBVIOUS
<1> HIDE DEF a
<1>3. Floor(a, Period[j]) <= a /\ a < Floor(a, Period[j]) + Period[j] /\ Floor(a, Period[j]) \in Nat
  BY <1>1, <1>2, FloorBounds
<1>4. a % Period[j] = a - Floor(a, Period[j])
  <2>1. a % Period[j] \in Int
    BY <1>1, <1>2
  <2> QED BY <1>2, <2>1 DEF Floor
<1>5. NextDue(j, t) = t - (a % Period[j]) + Period[j]
  BY DEF NextDue, a
<1>6. QED
  BY <1>1, <1>2, <1>3, <1>4, <1>5 DEF a

-----------------------------------------------------------------------------
(* Type correctness *)

Keyed(table) == \A a, b \in table : a.start = b.start => a = b

\* What the jobs hold between their two steps.
JobOK ==
    /\ job = [j \in Jobs |-> job[j]]
    /\ job["stats"] # Idle => job["stats"].ts \in 0..now /\ job["stats"].box = prev
    /\ job["roll5"] # Idle => Keyed(job["roll5"].buckets)
    /\ job["hourly"].pc = "write" => Keyed(job["hourly"].buckets)
    /\ job["daily"] # Idle => Keyed(job["daily"].days)

\* Sequence numbers are bounded, so that the next one exists.
RowsOK == /\ \E n \in Nat : \A r \in raw : r.seq <= n
          /\ \A r \in raw : r.ts <= now
          /\ taken \subseteq 0..now

TypeInv == TypeOK /\ JobOK /\ RowsOK

\* INSERT OR IGNORE keeps the primary key unique.
LEMMA InsertKeyed ==
    ASSUME NEW table, NEW new, Keyed(table), Keyed(new)
    PROVE  Keyed(InsertOrIgnore(table, new))
BY DEF Keyed, InsertOrIgnore

\* GROUP BY gives one row per window.
LEMMA GroupedKeyed ==
    ASSUME NEW rows, NEW span
    PROVE  Keyed(Grouped(rows, span))
BY DEF Keyed, Grouped

\* So does the merge into coarser windows.
LEMMA MergedKeyed ==
    ASSUME NEW rows, NEW span
    PROVE  Keyed(Merged(rows, span))
<1> DEFINE U(w) == UNION {b.of : b \in {c \in rows : Floor(c.start, span) = w}}
<1>1. \A a \in Merged(rows, span) : a = [start |-> a.start, of |-> U(a.start)]
  BY DEF Merged
<1> HIDE DEF U
<1>2. QED
  BY <1>1 DEF Keyed

\* The newest snapshot on disk has a state of the container.
LEMMA LatestTyped ==
    ASSUME TypeInv
    PROVE  /\ latest_snapshot_box \in BoxStates \cup {Absent}
           /\ raw # {} => Newest \in raw /\ \A s \in raw : s.ts <= Newest.ts
<1>1. CASE raw = {}
  BY <1>1 DEF latest_snapshot_box
<1>2. CASE raw # {}
  <2> DEFINE S == {r.ts : r \in raw}
  <2>1. S \in SUBSET Nat /\ S # {} /\ MaxTime \in Nat /\ \A x \in S : x <= MaxTime
    BY <1>2, SpanAssumption DEF TypeInv, TypeOK
  <2>2. Max(S) \in S /\ \A x \in S : x <= Max(S)
    BY <2>1, MaxOfBounded
  <2>3. PICK r \in raw : r.ts = Max(S)
    BY <2>2
  <2>4. \A s \in raw : s.ts <= r.ts
    BY <2>2, <2>3
  <2>5. Newest \in raw /\ \A s \in raw : s.ts <= Newest.ts
    BY <2>4 DEF Newest
  <2>6. Newest.box \in BoxStates \cup {Absent}
    BY <2>5 DEF TypeInv, TypeOK
  <2> QED BY <1>2, <2>5, <2>6 DEF latest_snapshot_box
<1>3. QED
  BY <1>1, <1>2

\* A sequence number that no snapshot has.
LEMMA NextSeqTyped ==
    ASSUME TypeInv
    PROVE  next_seq \in Nat /\ \A r \in raw : r.seq < next_seq
<1> DEFINE S == {r.seq : r \in raw} \cup {0}
<1>1. PICK n \in Nat : \A r \in raw : r.seq <= n
  BY DEF TypeInv, RowsOK
<1>2. S \in SUBSET Nat /\ S # {} /\ \A x \in S : x <= n
  BY <1>1 DEF TypeInv, TypeOK
<1>3. Max(S) \in S /\ \A x \in S : x <= Max(S)
  BY <1>1, <1>2, MaxOfBounded
<1>4. Max(S) \in Nat /\ next_seq = Max(S) + 1
  BY <1>2, <1>3 DEF next_seq
<1>5. ASSUME NEW r \in raw PROVE r.seq < next_seq
  <2>1. r.seq \in S
    OBVIOUS
  <2>2. r.seq \in Nat /\ r.seq <= Max(S)
    BY <1>2, <1>3, <2>1
  <2> QED BY <1>4, <2>2
<1>6. QED
  BY <1>4, <1>5

\* Starting a job sets its next run and leaves the other jobs alone.
LEMMA StartTyped ==
    ASSUME TypeInv, NEW j \in Jobs, NEW work, Start(j, work)
    PROVE  /\ due' \in [Jobs -> Nat] /\ job' = [i \in Jobs |-> job'[i]]
           /\ job'[j] = work /\ \A i \in Jobs \ {j} : job'[i] = job[i] /\ due'[i] = due[i]
           /\ now < due'[j] /\ due'[j] <= now + Period[j]
           /\ due[j] <= now /\ job[j] = Idle
<1>1. due \in [Jobs -> Nat] /\ now \in Nat /\ job = [i \in Jobs |-> job[i]]
  BY DEF TypeInv, TypeOK, JobOK
<1>2. due[j] <= now /\ job[j] = Idle /\ due[j] \in Nat
  BY <1>1 DEF Start
<1>3. NextDue(j, now) \in Nat /\ now < NextDue(j, now) /\ NextDue(j, now) <= now + Period[j]
  BY <1>1, <1>2, NextDueBounds
<1>4. due' = [due EXCEPT ![j] = NextDue(j, now)] /\ job' = [job EXCEPT ![j] = work]
  BY DEF Start
<1>5. QED
  BY <1>1, <1>2, <1>3, <1>4

\* A job that ends leaves the others alone.
LEMMA FinishTyped ==
    ASSUME TypeInv, NEW j \in Jobs, Finish(j)
    PROVE  /\ job' = [i \in Jobs |-> job'[i]] /\ job'[j] = Idle
           /\ \A i \in Jobs \ {j} : job'[i] = job[i]
BY DEF TypeInv, JobOK, Finish

\* A sleep shifts what is due, by a period at most.
LEMMA SuspendDue ==
    ASSUME TypeInv, NEW k \in Jumps, Suspend(k)
    PROVE  /\ due' \in [Jobs -> Nat]
           /\ \A j \in Jobs : due'[j] = due[j] \/ (now' < due'[j] /\ due'[j] <= now' + Period[j])
<1>1. due \in [Jobs -> Nat] /\ now \in Nat /\ k \in Nat /\ now' = now + k
  BY SpanAssumption DEF TypeInv, TypeOK, Suspend
<1>2. \A j \in Jobs : due[j] <= now' => /\ NextDue(j, now') \in Nat /\ now' < NextDue(j, now')
                                        /\ NextDue(j, now') <= now' + Period[j]
  BY <1>1, NextDueBounds
<1>3. due' = [j \in Jobs |-> IF due[j] <= now' /\ now' > NextDue(j, now') - Period[j] + Grace
                             THEN NextDue(j, now') ELSE due[j]]
  BY DEF Suspend
<1>4. QED
  BY <1>1, <1>2, <1>3

\* Type correctness of the tables, in the form the steps below use.
LEMMA TablesKeyed == TypeOK => Keyed(five) /\ Keyed(hourly) /\ Keyed(daily)
BY DEF TypeOK, Keyed

\* A column that all new rows share does not disturb the key.
LEMMA RelabelKeyed ==
    ASSUME NEW rows, Keyed(rows), NEW m
    PROVE  Keyed({[start |-> b.start, of |-> b.of, made |-> m] : b \in rows})
<1> DEFINE D(b) == [start |-> b.start, of |-> b.of, made |-> m]
<1>1. \A b : D(b).start = b.start
  OBVIOUS
<1> HIDE DEF D
<1>2. Keyed({D(b) : b \in rows})
  BY <1>1 DEF Keyed
<1>3. QED
  BY <1>2 DEF D

\* Every step of the machine, the daemon and its jobs preserves the types.
LEMMA NextKeepsTypes ==
    ASSUME TypeInv, [StoreNext]_svars
    PROVE  TypeInv'
<1>0. /\ TypeOK /\ JobOK /\ RowsOK /\ now \in Nat /\ MaxTime \in Nat /\ MaxFaults \in Nat
      /\ MaxMoves \in Nat /\ MaxSlow \in Nat /\ faults \in Nat /\ moves \in Nat /\ slow \in Nat
      /\ Keyed(five) /\ Keyed(hourly) /\ Keyed(daily)
  BY SpanAssumption, TablesKeyed DEF TypeInv, TypeOK
<1>1. CASE Tick
  <2>1. now' \in 0..MaxTime /\ now' = now + 1 /\ slow' \in 0..MaxSlow
    BY <1>0, <1>1 DEF Tick, TypeOK
  <2>2. TypeOK'
    BY <1>0, <1>1, <2>1 DEF Tick, TypeOK, store
  <2>3. JobOK'
    BY <1>0, <1>1, <2>1 DEF Tick, JobOK, Jobs, Idle
  <2>4. RowsOK'
    BY <1>0, <1>1, <2>1 DEF Tick, RowsOK, TypeOK, store
  <2> QED BY <2>2, <2>3, <2>4 DEF TypeInv
<1>2. CASE MoveBox
  <2>1. TypeOK'
    BY <1>0, <1>2 DEF MoveBox, TypeOK, store
  <2>2. JobOK' /\ RowsOK'
    BY <1>0, <1>2 DEF MoveBox, JobOK, RowsOK, store
  <2> QED BY <2>1, <2>2 DEF TypeInv
<1>3. ASSUME NEW k \in Jumps, Suspend(k)
      PROVE  TypeInv'
  <2>1. now' \in 0..MaxTime /\ now <= now'
    BY <1>0, <1>3, SpanAssumption DEF Suspend
  <2>2. due' \in [Jobs -> Nat]
    BY <1>3, SuspendDue
  <2>3. TypeOK'
    BY <1>0, <1>3, <2>1, <2>2 DEF Suspend, TypeOK, store
  <2>4. JobOK'
    BY <1>0, <1>3, <2>1 DEF Suspend, JobOK, Jobs, Idle
  <2>5. RowsOK'
    BY <1>0, <1>3, <2>1 DEF Suspend, RowsOK, TypeOK, store
  <2> QED BY <2>3, <2>4, <2>5 DEF TypeInv
<1>4. ASSUME NEW k \in Jumps, Restart(k)
      PROVE  TypeInv'
  <2>1. now' \in 0..MaxTime /\ now <= now' /\ now' = now + k
    BY <1>0, <1>4, SpanAssumption DEF Restart
  <2>2. due' \in [Jobs -> Nat]
    BY <1>4, <2>1, PeriodTyped DEF Restart
  <2>3. \A e \in events' : e.ts \in 0..now'
    BY <1>0, <1>4, <2>1 DEF Restart, TypeOK
  <2>4. TypeOK'
    BY <1>0, <1>4, <2>1, <2>2, <2>3 DEF Restart, TypeOK
  <2>5. JobOK'
    BY <1>4 DEF Restart, JobOK, Jobs, Idle
  <2>6. RowsOK'
    BY <1>0, <1>4, <2>1 DEF Restart, RowsOK, TypeOK
  <2> QED BY <2>4, <2>5, <2>6 DEF TypeInv
<1>5. ASSUME NEW j \in Jobs, JobFails(j)
      PROVE  TypeInv'
  <2>1. /\ job' = [i \in Jobs |-> job'[i]] /\ job'[j] = Idle
        /\ \A i \in Jobs \ {j} : job'[i] = job[i]
    BY <1>5, FinishTyped DEF JobFails
  <2>2. TypeOK' /\ RowsOK'
    BY <1>0, <1>5 DEF JobFails, TypeOK, RowsOK, store
  <2>3. JobOK'
    BY <1>0, <1>5, <2>1 DEF JobFails, JobOK, Jobs, Idle
  <2> QED BY <2>2, <2>3 DEF TypeInv
<1>6. CASE StatsCycle
  <2>1. PICK new \in {box, Absent} :
            /\ Start("stats", [pc |-> "insert", ts |-> now, box |-> new])
            /\ events' = events \cup {[ts |-> now, event |-> e] : e \in Detected(Baseline, new)}
            /\ prev' = new
    BY <1>6 DEF StatsCycle
  <2> DEFINE work == [pc |-> "insert", ts |-> now, box |-> new]
  <2>2. /\ due' \in [Jobs -> Nat] /\ job' = [i \in Jobs |-> job'[i]]
        /\ job'["stats"] = work /\ \A i \in Jobs \ {"stats"} : job'[i] = job[i]
    BY <2>1, StartTyped DEF Jobs
  <2>3. \A e \in events' : e.ts \in 0..now
    BY <1>0, <2>1 DEF TypeOK
  <2>4. faults' \in 0..MaxFaults
    BY <1>0, <1>6 DEF StatsCycle
  <2>5. TypeOK' /\ RowsOK'
    BY <1>0, <1>6, <2>1, <2>2, <2>3, <2>4 DEF StatsCycle, TypeOK, RowsOK
  <2>6. JobOK'
    <3>1. work.ts = now /\ work.box = new /\ now' = now /\ prev' = new
      BY <1>6, <2>1 DEF StatsCycle
    <3> QED BY <1>0, <2>2, <3>1 DEF JobOK, Jobs
  <2> QED BY <2>5, <2>6 DEF TypeInv
<1>7. CASE StatsEventFails
  <2>1. /\ due' \in [Jobs -> Nat] /\ job' = [i \in Jobs |-> job'[i]]
        /\ job'["stats"] = Idle /\ \A i \in Jobs \ {"stats"} : job'[i] = job[i]
    BY <1>7, StartTyped DEF Jobs, StatsEventFails
  <2>2. \A e \in events' : e.ts \in 0..now
    BY <1>0, <1>7 DEF StatsEventFails, TypeOK
  <2>3. TypeOK' /\ RowsOK'
    BY <1>0, <1>7, <2>1, <2>2 DEF StatsEventFails, TypeOK, RowsOK
  <2>4. JobOK'
    BY <1>0, <1>7, <2>1 DEF StatsEventFails, JobOK, Jobs
  <2> QED BY <2>3, <2>4 DEF TypeInv
<1>8. CASE record_snapshot
  <2>1. /\ job' = [i \in Jobs |-> job'[i]] /\ job'["stats"] = Idle
        /\ \A i \in Jobs \ {"stats"} : job'[i] = job[i]
    BY <1>8, FinishTyped DEF record_snapshot, Jobs
  <2> DEFINE at == job["stats"].ts
  <2>2. at \in 0..now /\ at \in 0..MaxTime /\ job["stats"].box = prev
    BY <1>0, <1>8 DEF record_snapshot, JobOK, TypeOK
  <2>3. /\ raw' = {r \in raw : r.ts # at} \cup {[ts |-> at, seq |-> next_seq, box |-> prev]}
        /\ taken' = taken \cup {at} /\ now' = now /\ late' \subseteq late \cup {at}
    BY <1>8, <2>2 DEF record_snapshot
  <2> HIDE DEF at
  <2>4. next_seq \in Nat /\ \A r \in raw : r.seq < next_seq
    BY NextSeqTyped
  <2>5. [ts |-> at, seq |-> next_seq, box |-> prev]
            \in [ts: 0..MaxTime, seq: Nat, box: BoxStates \cup {Absent}]
    BY <1>0, <2>2, <2>4 DEF TypeOK
  <2>6. raw' \subseteq [ts: 0..MaxTime, seq: Nat, box: BoxStates \cup {Absent}]
    BY <1>0, <2>3, <2>5 DEF TypeOK
  <2>7. \A r, s \in raw' : r.ts = s.ts => r = s
    BY <1>0, <2>3 DEF TypeOK
  <2>8. RowsOK'
    <3>1. \A r \in raw' : r.seq <= next_seq
      BY <1>0, <2>3, <2>4 DEF TypeOK
    <3>2. \A r \in raw' : r.ts <= now
      BY <1>0, <2>2, <2>3 DEF RowsOK
    <3>3. taken' \subseteq 0..now
      BY <1>0, <2>2, <2>3 DEF RowsOK
    <3> QED BY <2>3, <2>4, <3>1, <3>2, <3>3 DEF RowsOK
  <2>9. TypeOK'
    <3>1. taken' \subseteq 0..MaxTime /\ late' \subseteq taken'
      BY <1>0, <2>2, <2>3 DEF TypeOK
    <3> QED BY <1>0, <1>8, <2>3, <2>6, <2>7, <3>1 DEF TypeOK, record_snapshot
  <2>10. JobOK'
    BY <1>0, <1>8, <2>1 DEF record_snapshot, JobOK, Jobs
  <2> QED BY <2>8, <2>9, <2>10 DEF TypeInv
<1>9. CASE roll_up_5min
  <2> DEFINE work == IF Rows5 = {} THEN Idle ELSE [pc |-> "write", buckets |-> Grouped(Rows5, B5)]
  <2>1. /\ due' \in [Jobs -> Nat] /\ job' = [i \in Jobs |-> job'[i]]
        /\ job'["roll5"] = work /\ \A i \in Jobs \ {"roll5"} : job'[i] = job[i]
    BY <1>9, StartTyped DEF Jobs, roll_up_5min
  <2>2. work # Idle => Keyed(work.buckets)
    BY GroupedKeyed
  <2> HIDE DEF work
  <2>3. TypeOK' /\ RowsOK'
    BY <1>0, <1>9, <2>1 DEF roll_up_5min, TypeOK, RowsOK, store
  <2>4. JobOK'
    BY <1>0, <1>9, <2>1, <2>2 DEF roll_up_5min, JobOK, Jobs
  <2> QED BY <2>3, <2>4 DEF TypeInv
<1>10. CASE roll_up_5min_write
  <2>1. /\ job' = [i \in Jobs |-> job'[i]] /\ job'["roll5"] = Idle
        /\ \A i \in Jobs \ {"roll5"} : job'[i] = job[i]
    BY <1>10, FinishTyped DEF roll_up_5min_write, Jobs
  <2>2. Keyed(five')
    BY <1>0, <1>10, InsertKeyed DEF roll_up_5min_write, JobOK
  <2>3. TypeOK' /\ RowsOK'
    BY <1>0, <1>10, <2>2 DEF roll_up_5min_write, TypeOK, RowsOK, Keyed
  <2>4. JobOK'
    BY <1>0, <1>10, <2>1 DEF roll_up_5min_write, JobOK, Jobs
  <2> QED BY <2>3, <2>4 DEF TypeInv
<1>11. CASE roll_hourly
  <2> DEFINE work == [pc |-> "write", buckets |-> Merged(DayOld, HOUR)]
  <2>1. /\ due' \in [Jobs -> Nat] /\ job' = [i \in Jobs |-> job'[i]]
        /\ job'["hourly"] = work /\ \A i \in Jobs \ {"hourly"} : job'[i] = job[i]
    BY <1>11, StartTyped DEF Jobs, roll_hourly
  <2>2. Keyed(work.buckets)
    BY MergedKeyed
  <2> HIDE DEF work
  <2>3. TypeOK' /\ RowsOK'
    BY <1>0, <1>11, <2>1 DEF roll_hourly, TypeOK, RowsOK, store
  <2>4. JobOK'
    BY <1>0, <1>11, <2>1, <2>2 DEF roll_hourly, JobOK, Jobs
  <2> QED BY <2>3, <2>4 DEF TypeInv
<1>12. CASE roll_hourly_write
  <2>1. /\ job' = [i \in Jobs |-> job'[i]] /\ job'["hourly"] = [pc |-> "prune"]
        /\ \A i \in Jobs \ {"hourly"} : job'[i] = job[i]
    BY <1>0, <1>12 DEF roll_hourly_write, JobOK, Jobs
  <2> DEFINE new == {[start |-> b.start, of |-> b.of, made |-> now] : b \in job["hourly"].buckets}
  <2>2. Keyed(new)
    <3>1. Keyed(job["hourly"].buckets)
      BY <1>0, <1>12 DEF roll_hourly_write, JobOK
    <3> QED BY <3>1, RelabelKeyed
  <2>3. hourly' = InsertOrIgnore(hourly, new)
    BY <1>12 DEF roll_hourly_write
  <2> HIDE DEF new
  <2>4. Keyed(hourly')
    BY <1>0, <2>2, <2>3, InsertKeyed
  <2>5. TypeOK' /\ RowsOK'
    BY <1>0, <1>12, <2>4 DEF roll_hourly_write, TypeOK, RowsOK, Keyed
  <2>6. JobOK'
    BY <1>0, <1>12, <2>1 DEF roll_hourly_write, JobOK, Jobs
  <2> QED BY <2>5, <2>6 DEF TypeInv
<1>13. CASE prune
  <2>1. /\ job' = [i \in Jobs |-> job'[i]] /\ job'["hourly"] = Idle
        /\ \A i \in Jobs \ {"hourly"} : job'[i] = job[i]
    BY <1>13, FinishTyped DEF prune, Jobs
  <2>2. raw' \subseteq raw /\ five' \subseteq five /\ now' = now /\ taken' = taken
    BY <1>13 DEF prune
  <2>3. TypeOK'
    BY <1>0, <1>13, <2>2 DEF prune, TypeOK
  <2>4. RowsOK'
    BY <1>0, <2>2 DEF RowsOK
  <2>5. JobOK'
    BY <1>0, <1>13, <2>1 DEF prune, JobOK, Jobs, Idle
  <2> QED BY <2>3, <2>4, <2>5 DEF TypeInv
<1>14. CASE roll_daily
  <2> DEFINE rows == {b \in hourly : b.start <= now - WEEK}
             work == IF rows = {} THEN Idle
                     ELSE [pc |-> "write",
                           days |-> {[start |-> d.start, of |-> d.of,
                                      incidents |-> Incidents(d.start)] : d \in Merged(rows, DAY)}]
  <2>1. Start("daily", work)
    BY <1>14 DEF roll_daily
  <2>2. work # Idle => Keyed(work.days)
    <3>1. Keyed(Merged(rows, DAY))
      BY MergedKeyed
    <3> HIDE DEF rows
    <3>2. Keyed({[start |-> d.start, of |-> d.of, incidents |-> Incidents(d.start)] :
                     d \in Merged(rows, DAY)})
      <4> DEFINE D(d) == [start |-> d.start, of |-> d.of, incidents |-> Incidents(d.start)]
      <4>1. \A d : D(d).start = d.start
        OBVIOUS
      <4> HIDE DEF D
      <4>2. Keyed({D(d) : d \in Merged(rows, DAY)})
        BY <3>1, <4>1 DEF Keyed
      <4> QED BY <4>2 DEF D
    <3> QED BY <3>2
  <2> HIDE DEF work
  <2>3. /\ due' \in [Jobs -> Nat] /\ job' = [i \in Jobs |-> job'[i]]
        /\ job'["daily"] = work /\ \A i \in Jobs \ {"daily"} : job'[i] = job[i]
    BY <2>1, StartTyped DEF Jobs
  <2>4. TypeOK' /\ RowsOK'
    BY <1>0, <1>14, <2>3 DEF roll_daily, TypeOK, RowsOK, store
  <2>5. JobOK'
    BY <1>0, <1>14, <2>2, <2>3 DEF roll_daily, JobOK, Jobs
  <2> QED BY <2>4, <2>5 DEF TypeInv
<1>15. CASE roll_daily_write
  <2>1. /\ job' = [i \in Jobs |-> job'[i]] /\ job'["daily"] = Idle
        /\ \A i \in Jobs \ {"daily"} : job'[i] = job[i]
    BY <1>15, FinishTyped DEF roll_daily_write, Jobs
  <2>2. Keyed(daily')
    BY <1>0, <1>15, InsertKeyed DEF roll_daily_write, JobOK
  <2>3. TypeOK' /\ RowsOK'
    BY <1>0, <1>15, <2>2 DEF roll_daily_write, TypeOK, RowsOK, Keyed
  <2>4. JobOK'
    BY <1>0, <1>15, <2>1 DEF roll_daily_write, JobOK, Jobs
  <2> QED BY <2>3, <2>4 DEF TypeInv
<1>16. CASE StatsSkipped
  <2>1. NextDue("stats", now) \in Nat
    BY <1>0, <1>16, NextDueBounds DEF StatsSkipped, TypeOK, Jobs
  <2>2. due' \in [Jobs -> Nat]
    BY <1>0, <1>16, <2>1 DEF StatsSkipped, TypeOK
  <2>3. TypeOK' /\ RowsOK' /\ JobOK'
    BY <1>0, <1>16, <2>2 DEF StatsSkipped, TypeOK, RowsOK, JobOK, store
  <2> QED BY <2>3 DEF TypeInv
<1>17. CASE UNCHANGED svars
  BY <1>17 DEF svars, store, TypeInv, TypeOK, JobOK, RowsOK
<1>18. QED
  BY <1>1, <1>2, <1>3, <1>4, <1>5, <1>6, <1>7, <1>8, <1>9, <1>10, <1>11, <1>12, <1>13,
     <1>14, <1>15, <1>16, <1>17 DEF StoreNext

\* A first start has empty, well-typed tables.
LEMMA InitTypes == Init => TypeInv
<1> SUFFICES ASSUME Init PROVE TypeInv
  OBVIOUS
<1>1. due \in [Jobs -> Nat]
  BY PeriodTyped DEF Init, Period, Jobs
<1>2. TypeOK
  BY <1>1, SpanAssumption DEF Init, TypeOK, BoxStates, Up, Absent
<1>3. JobOK
  BY DEF Init, JobOK, Jobs, Idle
<1>4. RowsOK
  BY DEF Init, RowsOK
<1>5. QED
  BY <1>2, <1>3, <1>4 DEF TypeInv

\* Tables keep their keys and columns their types under every schedule.
THEOREM TypeCorrect == Spec => []TypeOK
<1>1. TypeInv /\ [StoreNext]_svars => TypeInv'
  BY NextKeepsTypes
<1>2. TypeInv => TypeOK
  BY DEF TypeInv
<1>3. QED
  BY InitTypes, <1>1, <1>2, PTL DEF Spec

-----------------------------------------------------------------------------
(* The order of the stats cycles *)

Flying == job["stats"] # Idle
Stamp == job["stats"].ts

\* Cycles have different times and insert in their order: a cycle that waits is
\* later than all that is stored, and the next one starts after its time.
CycleInv ==
    /\ \A r \in raw : r.ts \in taken
    /\ Flying => \A t \in taken : t < Stamp
    /\ Flying /\ Stamp = now => now < due["stats"]
    /\ ~Flying /\ due["stats"] <= now => \A t \in taken : t < now

\* Every step keeps the cycles in order.
LEMMA NextKeepsCycles ==
    ASSUME TypeInv, CycleInv, [StoreNext]_svars
    PROVE  CycleInv'
<1>0. /\ now \in Nat /\ due \in [Jobs -> Nat] /\ "stats" \in Jobs /\ (\A t \in taken : t \in Nat /\ t <= now)
      /\ (Flying => Stamp \in Nat /\ Stamp <= now) /\ job = [j \in Jobs |-> job[j]]
      /\ now' \in Nat /\ due' \in [Jobs -> Nat]
  BY NextKeepsTypes DEF TypeInv, TypeOK, RowsOK, JobOK, Jobs, Flying, Stamp
<1>a. /\ \A r \in raw : r.ts \in taken
      /\ Flying => \A t \in taken : t < Stamp
      /\ Flying /\ Stamp = now => now < due["stats"]
      /\ ~Flying /\ due["stats"] <= now => \A t \in taken : t < now
  BY DEF CycleInv
<1>1. CASE Tick
  <2>1. /\ now' = now + 1 /\ job' = job /\ raw' = raw /\ taken' = taken /\ due' = due
        /\ (Flying => Stamp = now)
    BY <1>1 DEF Tick, store, Flying, Stamp
  <2>2. Flying' = Flying /\ Stamp' = Stamp
    BY <2>1 DEF Flying, Stamp
  <2>3. ~(Flying' /\ Stamp' = now') /\ \A t \in taken' : t < now'
    BY <1>0, <2>1, <2>2
  <2> QED BY <1>a, <2>1, <2>2, <2>3 DEF CycleInv
<1>2. ASSUME NEW k \in Jumps, Suspend(k)
      PROVE  CycleInv'
  <2>1. /\ now' = now + k /\ k \in Nat /\ job' = job /\ raw' = raw /\ taken' = taken
    BY <1>2, SpanAssumption DEF Suspend, store
  <2>2. Flying' = Flying /\ Stamp' = Stamp
    BY <2>1 DEF Flying, Stamp
  <2>3. due'["stats"] = due["stats"] \/ now' < due'["stats"]
    BY <1>0, <1>2, SuspendDue
  <2>4. CASE k = 0
    <3>1. now' = now
      BY <1>0, <2>1, <2>4
    <3>2. due'["stats"] <= now => due'["stats"] = due["stats"]
      BY <1>0, <2>3, <3>1
    <3>3. Flying' /\ Stamp' = now' => now' < due'["stats"]
      BY <1>0, <1>a, <2>2, <2>3, <3>1
    <3> QED BY <1>a, <2>1, <2>2, <3>1, <3>2, <3>3 DEF CycleInv
  <2>5. CASE k # 0
    <3>1. now < now'
      BY <1>0, <2>1, <2>5
    <3>2. ~(Flying' /\ Stamp' = now') /\ \A t \in taken' : t < now'
      BY <1>0, <2>1, <2>2, <3>1
    <3> QED BY <1>a, <2>1, <2>2, <3>2 DEF CycleInv
  <2> QED BY <2>4, <2>5
<1>3. ASSUME NEW k \in Jumps, Restart(k)
      PROVE  CycleInv'
  <2>1. /\ now' = now + k /\ k \in Nat /\ job'["stats"] = Idle /\ raw' = raw /\ taken' = taken
        /\ due'["stats"] = now' + 1
    BY <1>0, <1>3, SpanAssumption DEF Restart, Period, Jobs
  <2>2. ~Flying' /\ ~(due'["stats"] <= now')
    BY <1>0, <2>1 DEF Flying
  <2> QED BY <1>a, <2>1, <2>2 DEF CycleInv
<1>4. ASSUME now' = now, raw' \subseteq raw, taken' = taken, due'["stats"] = due["stats"],
             job'["stats"] \in {job["stats"], Idle}
      PROVE  CycleInv'
  <2>1. CASE job'["stats"] = job["stats"]
    BY <1>4, <1>a, <2>1 DEF CycleInv, Flying, Stamp
  <2>2. CASE job'["stats"] = Idle
    <3>1. ~Flying'
      BY <2>2 DEF Flying
    <3>2. due["stats"] <= now => \A t \in taken : t < now
      BY <1>0, <1>a
    <3> QED BY <1>4, <1>a, <3>1, <3>2 DEF CycleInv
  <2> QED BY <1>4, <2>1, <2>2
<1>5. ASSUME NEW j \in Jobs, JobFails(j)
      PROVE  CycleInv'
  <2>1. job'["stats"] \in {job["stats"], Idle}
    BY <1>0, <1>5, FinishTyped DEF JobFails
  <2> QED BY <1>4, <1>5, <2>1 DEF JobFails, store
<1>6. CASE StatsCycle
  <2>1. PICK new \in {box, Absent} : Start("stats", [pc |-> "insert", ts |-> now, box |-> new])
    BY <1>6 DEF StatsCycle
  <2> DEFINE work == [pc |-> "insert", ts |-> now, box |-> new]
  <2>2. work.ts = now
    OBVIOUS
  <2> HIDE DEF work
  <2>3. job'["stats"] = work /\ now < due'["stats"] /\ due["stats"] <= now /\ job["stats"] = Idle
    BY <1>0, <2>1, StartTyped DEF work
  <2>4. now' = now /\ raw' = raw /\ taken' = taken
    BY <1>6 DEF StatsCycle
  <2>5. Stamp' = now /\ ~Flying
    BY <2>2, <2>3 DEF Stamp, Flying
  <2> QED BY <1>0, <1>a, <2>3, <2>4, <2>5 DEF CycleInv
<1>7. CASE StatsEventFails
  <2>1. job'["stats"] = Idle /\ now < due'["stats"]
    BY <1>0, <1>7, StartTyped DEF StatsEventFails
  <2>2. now' = now /\ raw' = raw /\ taken' = taken /\ ~Flying' /\ ~(due'["stats"] <= now')
    BY <1>0, <1>7, <2>1 DEF StatsEventFails, Flying
  <2> QED BY <1>a, <2>2 DEF CycleInv
<1>8. CASE record_snapshot
  <2> DEFINE new == [ts |-> Stamp, seq |-> next_seq, box |-> job["stats"].box]
  <2>1. /\ job'["stats"] = Idle /\ Flying /\ now' = now /\ due' = due /\ taken' = taken \cup {Stamp}
        /\ raw' = {r \in raw : r.ts # Stamp} \cup {new}
    BY <1>0, <1>8, FinishTyped DEF record_snapshot, Flying, Stamp
  <2>2. new.ts = Stamp /\ ~Flying'
    BY <2>1 DEF Flying
  <2> HIDE DEF new
  <2>3. \A r \in raw' : r.ts \in taken'
    BY <1>a, <2>1, <2>2
  <2>4. due["stats"] <= now => \A t \in taken' : t < now
    BY <1>0, <1>a, <2>1
  <2> QED BY <2>1, <2>2, <2>3, <2>4 DEF CycleInv
<1>9. CASE StatsSkipped
  <2>1. now < NextDue("stats", now) /\ due'["stats"] = NextDue("stats", now)
    BY <1>0, <1>9, NextDueBounds DEF StatsSkipped
  <2>2. /\ now' = now /\ raw' = raw /\ taken' = taken /\ Flying' = Flying /\ Stamp' = Stamp
        /\ now' < due'["stats"] /\ Flying
    BY <1>9, <2>1 DEF StatsSkipped, store, Flying, Stamp
  <2> QED BY <1>a, <2>2 DEF CycleInv
<1>10. ASSUME NEW j \in Jobs \ {"stats"}, NEW work, Start(j, work), now' = now, raw' = raw, taken' = taken
       PROVE  CycleInv'
  <2>1. job'["stats"] = job["stats"] /\ due'["stats"] = due["stats"]
    BY <1>0, <1>10, StartTyped
  <2> QED BY <1>4, <1>10, <2>1
<1>11. ASSUME NEW j \in Jobs \ {"stats"}, Finish(j), now' = now, raw' \subseteq raw, taken' = taken, due' = due
       PROVE  CycleInv'
  <2>1. job'["stats"] = job["stats"]
    BY <1>0, <1>11, FinishTyped
  <2> QED BY <1>4, <1>11, <2>1
<1>12. CASE roll_up_5min
  BY <1>10, <1>12 DEF roll_up_5min, store, Jobs
<1>13. CASE roll_up_5min_write
  BY <1>11, <1>13 DEF roll_up_5min_write, Jobs
<1>14. CASE roll_hourly
  BY <1>10, <1>14 DEF roll_hourly, store, Jobs
<1>15. CASE roll_hourly_write
  <2>1. job'["stats"] = job["stats"]
    BY <1>0, <1>15 DEF roll_hourly_write
  <2> QED BY <1>4, <1>15, <2>1 DEF roll_hourly_write
<1>16. CASE prune
  BY <1>11, <1>16 DEF prune, Jobs
<1>17. CASE roll_daily
  BY <1>10, <1>17 DEF roll_daily, store, Jobs
<1>18. CASE roll_daily_write
  BY <1>11, <1>18 DEF roll_daily_write, Jobs
<1>19. CASE MoveBox \/ UNCHANGED svars
  BY <1>4, <1>19 DEF MoveBox, svars, store
<1>20. QED
  BY <1>1, <1>2, <1>3, <1>5, <1>6, <1>7, <1>8, <1>9, <1>12, <1>13, <1>14, <1>15, <1>16,
     <1>17, <1>18, <1>19 DEF StoreNext

\* A first start has no snapshot and no cycle under way.
LEMMA InitCycles == Init => CycleInv
BY DEF Init, CycleInv, Flying, Jobs

-----------------------------------------------------------------------------
(* Exits of the container between two snapshots *)

Explained(a, b) ==
    \/ \E e \in events : e.event = "container_exited" /\ a <= e.ts /\ e.ts <= b
    \/ \E t \in unsaid : a <= t /\ t <= b
Alive(r) == r.box \in Up
IsNewest(r) == \A s \in raw : s.ts <= r.ts
Neighbours(r, s) == r.ts < s.ts /\ \A x \in raw : x.ts <= r.ts \/ x.ts >= s.ts

\* ExitsRecorded is not inductive.  A cycle may have noticed the exit and failed
\* to insert its snapshot, and the cache then hides the exit from the next one;
\* or it may wait with its time taken, and the event must not be later.
ExitInv ==
    /\ ExitsRecorded
    /\ unsaid \subseteq 0..now
    /\ \A r \in raw : IsNewest(r) /\ Alive(r) =>
         /\ ~Flying /\ prev \notin Up \cup {Absent} => Explained(r.ts, now)
         /\ Flying /\ prev = "exited" => Explained(r.ts, Stamp)

\* ExitsRecorded, in these terms.
LEMMA ExitsAs ==
    ExitsRecorded <=>
      \A r, s \in raw : Neighbours(r, s) /\ Alive(r) /\ s.box = "exited" => Explained(r.ts, s.ts)
BY DEF ExitsRecorded, Neighbours, Alive, Explained

\* An explanation stays one: events and time only grow.
LEMMA ExplainedStays ==
    ASSUME NEW a, NEW b \in Nat, NEW c \in Nat, b <= c, TypeInv, unsaid \subseteq 0..now,
           events \subseteq events', unsaid \subseteq unsaid', Explained(a, b)
    PROVE  Explained(a, c)'
<1>1. (\A e \in events : e.ts \in Nat) /\ (\A t \in unsaid : t \in Nat)
  BY DEF TypeInv, TypeOK
<1>2. CASE \E e \in events : e.event = "container_exited" /\ a <= e.ts /\ e.ts <= b
  <2>1. PICK e \in events : e.event = "container_exited" /\ a <= e.ts /\ e.ts <= b
    BY <1>2
  <2>2. e.ts <= c
    BY <1>1, <2>1
  <2> QED BY <2>1, <2>2 DEF Explained
<1>3. CASE \E t \in unsaid : a <= t /\ t <= b
  <2>1. PICK t \in unsaid : a <= t /\ t <= b
    BY <1>3
  <2>2. t <= c
    BY <1>1, <2>1
  <2> QED BY <2>1, <2>2 DEF Explained
<1>4. QED
  BY <1>2, <1>3 DEF Explained

\* Steps that insert nothing keep what is recorded.
LEMMA PairsStay ==
    ASSUME TypeInv, ExitInv, raw' \subseteq raw, \A r \in raw', x \in raw : x.ts >= r.ts => x \in raw',
           events \subseteq events', unsaid \subseteq unsaid'
    PROVE  ExitsRecorded' /\ \A r \in raw' : IsNewest(r)' => IsNewest(r)
<1>1. unsaid \subseteq 0..now /\ \A r \in raw : r.ts \in Nat
  BY DEF ExitInv, TypeInv, TypeOK
<1>2. \A r, s \in raw : Neighbours(r, s) /\ Alive(r) /\ s.box = "exited" => Explained(r.ts, s.ts)
  BY ExitsAs DEF ExitInv
<1>3. ASSUME NEW r \in raw', NEW s \in raw', Neighbours(r, s)', Alive(r), s.box = "exited"
      PROVE  Explained(r.ts, s.ts)'
  <2>1. Neighbours(r, s)
    BY <1>1, <1>3 DEF Neighbours
  <2>2. Explained(r.ts, s.ts)
    BY <1>2, <1>3, <2>1
  <2> QED BY <1>1, <1>3, <2>2, ExplainedStays
<1>4. ASSUME NEW r \in raw', IsNewest(r)' PROVE IsNewest(r)
  BY <1>1, <1>4 DEF IsNewest
<1>5. ExitsRecorded'
  BY <1>3 DEF ExitsRecorded, Neighbours, Alive, Explained
<1>6. QED
  BY <1>4, <1>5

\* Steps outside the stats cycle.
LEMMA ExitFrame ==
    ASSUME TypeInv, TypeInv', ExitInv, raw' \subseteq raw, \A r \in raw', x \in raw : x.ts >= r.ts => x \in raw',
           events \subseteq events', unsaid' = unsaid, now <= now',
           \/ prev' = prev /\ job'["stats"] = job["stats"]
           \/ prev' = Absent /\ job'["stats"] = Idle
    PROVE  ExitInv'
<1>1. /\ now \in Nat /\ now' \in Nat /\ unsaid \subseteq 0..now
      /\ (\A r \in raw : r.ts \in Nat) /\ (Flying => Stamp \in Nat)
  BY DEF TypeInv, TypeOK, JobOK, ExitInv, Flying, Stamp
<1>2. ExitsRecorded' /\ \A r \in raw' : IsNewest(r)' => IsNewest(r)
  BY PairsStay
<1>3. unsaid' \subseteq 0..now'
  BY <1>1
<1>4. CASE prev' = prev /\ job'["stats"] = job["stats"]
  <2>1. Flying' = Flying /\ Stamp' = Stamp
    BY <1>4 DEF Flying, Stamp
  <2>2. ASSUME NEW r \in raw', IsNewest(r)', Alive(r)
        PROVE  /\ ~Flying /\ prev \notin Up \cup {Absent} => Explained(r.ts, now)'
               /\ Flying /\ prev = "exited" => Explained(r.ts, Stamp)'
    <3>1. r \in raw /\ IsNewest(r)
      BY <1>2, <2>2
    <3>2. /\ ~Flying /\ prev \notin Up \cup {Absent} => Explained(r.ts, now)
          /\ Flying /\ prev = "exited" => Explained(r.ts, Stamp)
      BY <2>2, <3>1 DEF ExitInv
    <3>3. ~Flying /\ prev \notin Up \cup {Absent} => Explained(r.ts, now)'
      <4>1. ASSUME ~Flying, prev \notin Up \cup {Absent} PROVE Explained(r.ts, now)'
        BY <1>1, <3>2, <4>1, ExplainedStays
      <4> QED BY <4>1
    <3>4. Flying /\ prev = "exited" => Explained(r.ts, Stamp)'
      <4>1. ASSUME Flying, prev = "exited" PROVE Explained(r.ts, Stamp)'
        BY <1>1, <2>1, <3>2, <4>1, ExplainedStays
      <4> QED BY <4>1
    <3> QED BY <3>3, <3>4
  <2> QED BY <1>2, <1>3, <1>4, <2>1, <2>2 DEF ExitInv, Alive
<1>5. CASE prev' = Absent /\ job'["stats"] = Idle
  <2>1. prev' \in Up \cup {Absent} /\ ~Flying'
    BY <1>5 DEF Flying
  <2> QED BY <1>2, <1>3, <2>1 DEF ExitInv
<1>6. QED
  BY <1>4, <1>5

\* The baseline of a cycle is the cache or the newest snapshot: when the newest
\* snapshot is alive and this cycle sees an exit, it is recorded or was.
LEMMA ExitNoticed ==
    ASSUME TypeInv, ExitInv, ~Flying, NEW r \in raw, IsNewest(r), Alive(r)
    PROVE  \/ Explained(r.ts, now)
           \/ "container_exited" \in Detected(Baseline, "exited")
<1>0. Absent \notin Up /\ "exited" # Absent
  BY DEF Up, Absent
<1>1. CASE prev \notin Up \cup {Absent}
  BY <1>1 DEF ExitInv
<1>2. CASE prev \in Up
  <2>1. Baseline = prev
    BY <1>0, <1>2 DEF Baseline
  <2> QED BY <1>0, <1>2, <2>1 DEF Detected
<1>3. CASE prev = Absent
  <2>1. Newest \in raw /\ \A s \in raw : s.ts <= Newest.ts
    BY LatestTyped
  <2>2. Newest.ts = r.ts
    <3>1. Newest.ts \in Nat /\ r.ts \in Nat
      BY <2>1 DEF TypeInv, TypeOK
    <3> QED BY <2>1, <3>1 DEF IsNewest
  <2>3. Newest = r
    BY <2>1, <2>2 DEF TypeInv, TypeOK
  <2>4. Baseline = r.box
    BY <1>3, <2>3 DEF Baseline, latest_snapshot_box
  <2> QED BY <1>0, <2>4 DEF Detected, Alive
<1>4. QED
  BY <1>1, <1>2, <1>3

\* Every step keeps exits explained: the cycle compares with what the newest
\* snapshot shows or with something it has already reported on.
LEMMA NextKeepsExits ==
    ASSUME TypeInv, CycleInv, ExitInv, [StoreNext]_svars
    PROVE  ExitInv'
<1>0. /\ TypeInv' /\ now \in Nat /\ "stats" \in Jobs /\ unsaid \subseteq 0..now
      /\ (\A r \in raw : r.ts \in Nat /\ r.ts <= now) /\ (Flying => Stamp \in Nat /\ Stamp <= now)
      /\ job = [j \in Jobs |-> job[j]]
  BY NextKeepsTypes DEF TypeInv, TypeOK, RowsOK, JobOK, Jobs, ExitInv, Flying, Stamp
<1>a. /\ Flying => \A r \in raw : r.ts < Stamp
      /\ ~Flying /\ due["stats"] <= now => \A r \in raw : r.ts < now
  BY DEF CycleInv
<1>1. CASE Tick
  BY <1>0, <1>1, ExitFrame DEF Tick, store
<1>2. CASE MoveBox
  BY <1>0, <1>2, ExitFrame DEF MoveBox, store
<1>3. ASSUME NEW k \in Jumps, Suspend(k)
      PROVE  ExitInv'
  <2>1. now' = now + k /\ k \in Nat
    BY <1>3, SpanAssumption DEF Suspend
  <2> QED BY <1>0, <1>3, <2>1, ExitFrame DEF Suspend, store
<1>4. ASSUME NEW k \in Jumps, Restart(k)
      PROVE  ExitInv'
  <2>1. now' = now + k /\ k \in Nat /\ job'["stats"] = Idle
    BY <1>0, <1>4, SpanAssumption DEF Restart
  <2> QED BY <1>0, <1>4, <2>1, ExitFrame DEF Restart
<1>5. ASSUME NEW j \in Jobs, JobFails(j)
      PROVE  ExitInv'
  <2>1. CASE j = "stats"
    <3>1. /\ Flying /\ ~Flying' /\ unsaid' = unsaid \cup {Stamp} /\ raw' = raw /\ events' = events
          /\ now' = now
      BY <1>0, <1>5, <2>1, FinishTyped DEF JobFails, store, Flying, Stamp
    <3>2. ExitsRecorded'
      BY <3>1, PairsStay
    <3>3. ASSUME NEW r \in raw PROVE Explained(r.ts, now)'
      <4>1. Stamp \in unsaid' /\ r.ts <= Stamp /\ Stamp <= now'
        BY <1>0, <1>a, <3>1, <3>3
      <4> QED BY <3>1, <4>1 DEF Explained
    <3>4. unsaid' \subseteq 0..now'
      BY <1>0, <3>1
    <3> QED BY <3>1, <3>2, <3>3, <3>4 DEF ExitInv
  <2>2. CASE j # "stats"
    <3>1. job'["stats"] = job["stats"]
      BY <1>0, <1>5, <2>2, FinishTyped DEF JobFails
    <3> QED BY <1>0, <1>5, <2>2, <3>1, ExitFrame DEF JobFails, store
  <2> QED BY <2>1, <2>2
<1>6. CASE StatsCycle
  <2>1. PICK new \in {box, Absent} :
            /\ Start("stats", [pc |-> "insert", ts |-> now, box |-> new])
            /\ events' = events \cup {[ts |-> now, event |-> e] : e \in Detected(Baseline, new)}
            /\ prev' = new
    BY <1>6 DEF StatsCycle
  <2> DEFINE work == [pc |-> "insert", ts |-> now, box |-> new]
  <2>2. work # Idle /\ work.ts = now
    BY DEF Idle
  <2> HIDE DEF work
  <2>3. job'["stats"] = work /\ due["stats"] <= now /\ ~Flying
    BY <1>0, <2>1, StartTyped DEF work, Flying
  <2>4. raw' = raw /\ now' = now /\ unsaid' = unsaid /\ Flying' /\ Stamp' = now
    BY <1>6, <2>2, <2>3 DEF StatsCycle, Flying, Stamp
  <2>5. ExitsRecorded'
    BY <2>1, <2>4, PairsStay
  <2>6. ASSUME NEW r \in raw, IsNewest(r), Alive(r), new = "exited"
        PROVE  Explained(r.ts, now)'
    <3>1. CASE Explained(r.ts, now)
      BY <1>0, <2>1, <2>4, <3>1, ExplainedStays
    <3>2. CASE "container_exited" \in Detected(Baseline, new)
      <4> DEFINE e == [ts |-> now, event |-> "container_exited"]
      <4>1. e \in events' /\ e.event = "container_exited" /\ e.ts = now
        BY <2>1, <3>2
      <4>2. r.ts <= now /\ now <= now
        BY <1>0
      <4> HIDE DEF e
      <4> QED BY <2>4, <4>1, <4>2 DEF Explained
    <3> QED BY <2>3, <2>6, <3>1, <3>2, ExitNoticed
  <2>7. \A r \in raw' : IsNewest(r)' /\ Alive(r) /\ prev' = "exited" => Explained(r.ts, Stamp)'
    <3>1. \A r \in raw : Explained(r.ts, now)' => Explained(r.ts, Stamp)'
      BY <2>4 DEF Explained
    <3> QED BY <2>1, <2>4, <2>6, <3>1 DEF IsNewest
  <2> QED BY <1>0, <2>4, <2>5, <2>7 DEF ExitInv, Alive
<1>7. CASE StatsEventFails
  <2>1. /\ raw' = raw /\ now' = now /\ unsaid' = unsaid \cup {now} /\ events \subseteq events'
    BY <1>7 DEF StatsEventFails
  <2>2. ExitsRecorded'
    BY <2>1, PairsStay
  <2>3. \A r \in raw' : Explained(r.ts, now)'
    <3> TAKE r \in raw'
    <3>1. now \in unsaid' /\ r.ts <= now /\ now <= now'
      BY <1>0, <2>1
    <3> QED BY <2>1, <3>1 DEF Explained
  <2>4. ~Flying'
    BY <1>0, <1>7, StartTyped DEF StatsEventFails, Flying
  <2> QED BY <1>0, <2>1, <2>2, <2>3, <2>4 DEF ExitInv
<1>8. CASE record_snapshot
  <2> DEFINE new == [ts |-> Stamp, seq |-> next_seq, box |-> prev]
  <2>1. Flying /\ job["stats"].box = prev
    BY <1>8 DEF record_snapshot, TypeInv, JobOK, Flying
  <2>2. \A r \in raw : r.ts < Stamp
    BY <1>a, <2>1
  <2>3. /\ raw' = raw \cup {new} /\ new.ts = Stamp /\ new.box = prev /\ now' = now
        /\ prev' = prev /\ events' = events /\ unsaid' = unsaid
    BY <1>0, <1>8, <2>1, <2>2 DEF record_snapshot, Stamp
  <2> HIDE DEF new
  <2>4. ASSUME NEW r \in raw', NEW s \in raw', Neighbours(r, s)', Alive(r), s.box = "exited"
        PROVE  Explained(r.ts, s.ts)
    <3>1. r \in raw
      BY <1>0, <2>1, <2>2, <2>3, <2>4 DEF Neighbours
    <3>2. CASE s \in raw
      <4>1. Neighbours(r, s)
        BY <2>3, <2>4 DEF Neighbours
      <4> QED BY <2>4, <3>1, <3>2, <4>1, ExitsAs DEF ExitInv
    <3>3. CASE s = new
      <4>1. IsNewest(r)
        BY <1>0, <2>1, <2>2, <2>3, <2>4, <3>3 DEF IsNewest, Neighbours
      <4> QED BY <2>1, <2>3, <2>4, <3>1, <3>3, <4>1 DEF ExitInv
    <3> QED BY <2>3, <3>2, <3>3
  <2>5. ExitsRecorded'
    BY <2>3, <2>4 DEF ExitsRecorded, Explained, Alive, Neighbours
  <2>6. ASSUME NEW r \in raw', IsNewest(r)', Alive(r), prev' \notin Up \cup {Absent}
        PROVE  FALSE
    <3>1. r = new
      <4>1. Stamp <= r.ts
        BY <2>3, <2>6 DEF IsNewest
      <4> QED BY <1>0, <2>1, <2>2, <2>3, <4>1
    <3> QED BY <2>3, <2>6, <3>1 DEF Alive
  <2>7. ~Flying'
    BY <1>0, <1>8, FinishTyped DEF record_snapshot, Flying
  <2> QED BY <1>0, <2>3, <2>5, <2>6, <2>7 DEF ExitInv, Alive
<1>9. ASSUME NEW j \in Jobs \ {"stats"}, NEW work, Start(j, work),
             now' = now, raw' = raw, prev' = prev, events' = events, unsaid' = unsaid
      PROVE  ExitInv'
  <2>1. job'["stats"] = job["stats"]
    BY <1>0, <1>9, StartTyped
  <2> QED BY <1>0, <1>9, <2>1, ExitFrame
<1>10. ASSUME job'["stats"] = job["stats"], now' = now, raw' = raw, prev' = prev, events' = events,
              unsaid' = unsaid
       PROVE  ExitInv'
  BY <1>0, <1>10, ExitFrame
<1>11. CASE roll_up_5min
  BY <1>9, <1>11 DEF roll_up_5min, store, Jobs
<1>12. CASE roll_up_5min_write
  BY <1>10, <1>12, FinishTyped DEF roll_up_5min_write, Jobs
<1>13. CASE roll_hourly
  BY <1>9, <1>13 DEF roll_hourly, store, Jobs
<1>14. CASE roll_hourly_write
  <2>1. job'["stats"] = job["stats"]
    BY <1>0, <1>14 DEF roll_hourly_write
  <2> QED BY <1>10, <1>14, <2>1 DEF roll_hourly_write
<1>15. CASE prune
  <2>1. /\ raw' = {r \in raw : r.ts >= RawCutoff} /\ now' = now /\ prev' = prev /\ events' = events
        /\ unsaid' = unsaid /\ job'["stats"] = job["stats"]
    BY <1>15, FinishTyped DEF prune, Jobs
  <2>2. now - RawRetain \in Int /\ \A r \in raw : r.ts \in Int
    BY <1>0, SpanAssumption
  <2>3. \A r \in raw', x \in raw : x.ts >= r.ts => x \in raw'
    BY <2>1, <2>2 DEF RawCutoff
  <2> QED BY <1>0, <2>1, <2>3, ExitFrame
<1>16. CASE roll_daily
  BY <1>9, <1>16 DEF roll_daily, store, Jobs
<1>17. CASE roll_daily_write
  BY <1>10, <1>17, FinishTyped DEF roll_daily_write, Jobs
<1>18. CASE StatsSkipped
  BY <1>10, <1>18 DEF StatsSkipped, store
<1>19. CASE UNCHANGED svars
  BY <1>10, <1>19 DEF svars, store
<1>20. QED
  BY <1>1, <1>2, <1>3, <1>4, <1>5, <1>6, <1>7, <1>8, <1>11, <1>12, <1>13, <1>14, <1>15,
     <1>16, <1>17, <1>18, <1>19 DEF StoreNext

\* The exit of a container between two stored snapshots has an event, across
\* inserts that wait, restarts, pruned snapshots and an unreachable Docker.
THEOREM ExitsCorrect == Spec => []ExitsRecorded
<1>1. Init => ExitInv
  <2> SUFFICES ASSUME Init PROVE ExitInv
    OBVIOUS
  <2> QED BY DEF Init, ExitInv, ExitsRecorded, Jobs
<1>2. Init => TypeInv /\ CycleInv
  BY InitTypes, InitCycles
<1>3. TypeInv /\ CycleInv /\ ExitInv /\ [StoreNext]_svars => (TypeInv /\ CycleInv /\ ExitInv)'
  BY NextKeepsTypes, NextKeepsCycles, NextKeepsExits
<1>4. ExitInv => ExitsRecorded
  BY DEF ExitInv
<1>5. QED
  BY <1>1, <1>2, <1>3, <1>4, PTL DEF Spec

-----------------------------------------------------------------------------
(* What the steps do to the snapshots and their buckets *)

Kept == {r.ts : r \in raw}
Pend5 == IF job["roll5"] = Idle THEN {} ELSE job["roll5"].buckets
Win(t) == Floor(t, B5)
Same(vs) == UNCHANGED vs /\ Kept' = Kept

\* The machine is never away longer than J.
Away(J) == J \in Nat /\ \A k \in Jumps : k <= MaxTime => k <= J

\* Time passes, no rollup is under way: a tick, a sleep or a restart.
Waits(J) ==
    /\ Same(<<five, hourly, taken, late>>) /\ now <= now'
    /\ job'["roll5"] = Idle /\ job'["hourly"] = Idle
    /\ \/ /\ now' = now + 1 /\ now < due["roll5"] /\ job["roll5"] = Idle
          /\ due'["roll5"] = due["roll5"] /\ faults' = faults
          /\ job'["stats"] = job["stats"] /\ (Flying => Stamp = now)
       \/ now' <= now + J /\ faults' = faults + 1 /\ job'["stats"] \in {job["stats"], Idle}

\* The rollups stand still, or one of them fails.
Rests ==
    /\ Same(<<now, five, hourly, taken, late>>) /\ due'["roll5"] = due["roll5"]
    /\ \/ job'["roll5"] = job["roll5"] /\ faults' \in {faults, faults + 1}
       \/ job'["roll5"] = Idle /\ faults' = faults + 1
    /\ job'["hourly"] \in {job["hourly"], Idle}
    /\ job'["stats"] \in {job["stats"], Idle} \/ job'["stats"].ts = now

Takes ==
    /\ Flying /\ Kept' = Kept \cup {Stamp} /\ taken' = taken \cup {Stamp}
    /\ late' = IF Win(Stamp) < Floor(now, B5) THEN late \cup {Stamp} ELSE late
    /\ UNCHANGED <<now, five, hourly, faults>> /\ due'["roll5"] = due["roll5"]
    /\ job'["roll5"] = job["roll5"] /\ job'["hourly"] = job["hourly"] /\ job'["stats"] = Idle

Reads5 ==
    /\ Same(<<now, five, hourly, taken, late, faults>>)
    /\ \/ Rows5 = {} /\ job'["roll5"] = Idle
       \/ job'["roll5"] # Idle /\ job'["roll5"].buckets = Grouped(Rows5, B5)
    /\ job["roll5"] = Idle /\ job'["hourly"] = job["hourly"] /\ job'["stats"] = job["stats"]

Writes5 ==
    /\ Same(<<now, hourly, taken, late, faults>>) /\ due'["roll5"] = due["roll5"]
    /\ five' = InsertOrIgnore(five, Pend5)
    /\ job'["roll5"] = Idle /\ job'["hourly"] = job["hourly"] /\ job'["stats"] = job["stats"]

ReadsH ==
    /\ Same(<<now, five, hourly, taken, late, faults>>) /\ due'["roll5"] = due["roll5"]
    /\ job'["hourly"].pc = "write" /\ job'["hourly"].buckets = Merged(DayOld, HOUR)
    /\ job'["roll5"] = job["roll5"] /\ job'["stats"] = job["stats"]

WritesH ==
    /\ Same(<<now, five, taken, late, faults>>) /\ due'["roll5"] = due["roll5"]
    /\ hourly' = InsertOrIgnore(hourly, {[start |-> b.start, of |-> b.of, made |-> now] :
                                            b \in job["hourly"].buckets})
    /\ job["hourly"].pc = "write" /\ job'["hourly"].pc = "prune"
    /\ job'["roll5"] = job["roll5"] /\ job'["stats"] = job["stats"]

Prunes ==
    /\ UNCHANGED <<now, hourly, taken, late, faults>> /\ due'["roll5"] = due["roll5"]
    /\ Kept' = {t \in Kept : t >= now - RawRetain}
    /\ five' = {b \in five : b.start >= now - B5Retain}
    /\ job["hourly"].pc = "prune" /\ job'["hourly"] = Idle
    /\ job'["roll5"] = job["roll5"] /\ job'["stats"] = job["stats"]

Kinds(J) == Waits(J) \/ Rests \/ Takes \/ Reads5 \/ Writes5 \/ ReadsH \/ WritesH \/ Prunes

\* Timestamps depend on the snapshots alone.
LEMMA KeptFrame == raw' = raw => Kept' = Kept
BY DEF Kept

\* Every step of the specification is of one of these kinds, and the 5-minute
\* job is never due later than one period from now.
LEMMA StepKinds ==
    ASSUME NEW J, Away(J), TypeInv, due["roll5"] <= now + B5, [StoreNext]_svars
    PROVE  Kinds(J) /\ due'["roll5"] <= now' + B5
<1>0. /\ now \in Nat /\ now' \in Nat /\ B5 \in Nat \ {0} /\ J \in Nat /\ {"stats", "roll5", "hourly"} \subseteq Jobs
      /\ Period["roll5"] = B5 /\ due["roll5"] \in Nat /\ faults \in Nat /\ MaxTime \in Nat
      /\ job = [j \in Jobs |-> job[j]]
  BY NextKeepsTypes, SpanAssumption DEF Away, TypeInv, TypeOK, JobOK, Jobs, Period
<1>1. CASE Tick
  <2>1. /\ job["roll5"] = Idle /\ job["hourly"] = Idle /\ now < due["roll5"]
        /\ (Flying => Stamp = now)
    BY <1>0, <1>1 DEF Tick, Quiet, Flying, Stamp
  <2> QED BY <1>0, <1>1, <2>1, KeptFrame DEF Tick, store, Kinds, Waits, Same
<1>2. CASE MoveBox
  BY <1>0, <1>2, KeptFrame DEF MoveBox, store, Kinds, Rests, Same
<1>3. ASSUME NEW k \in Jumps, Suspend(k)
      PROVE  Kinds(J) /\ due'["roll5"] <= now' + B5
  <2>1. job["roll5"] = Idle /\ job["hourly"] = Idle
    BY <1>0, <1>3 DEF Suspend, Quiet
  <2>2. k \in Nat /\ k <= J /\ now' = now + k
    BY <1>0, <1>3, SpanAssumption DEF Suspend, Away
  <2>3. due'["roll5"] <= now' + B5
    BY <1>0, <1>3, <2>2, SuspendDue
  <2> QED BY <1>0, <1>3, <2>1, <2>2, <2>3, KeptFrame DEF Suspend, store, Kinds, Waits, Same
<1>4. ASSUME NEW k \in Jumps, Restart(k)
      PROVE  Kinds(J) /\ due'["roll5"] <= now' + B5
  <2>1. /\ job'["roll5"] = Idle /\ job'["hourly"] = Idle /\ job'["stats"] = Idle
        /\ due'["roll5"] = now + k + B5
    BY <1>0, <1>4 DEF Restart
  <2>2. k \in Nat /\ k <= J /\ now' = now + k
    BY <1>0, <1>4, SpanAssumption DEF Restart, Away
  <2> QED BY <1>0, <1>4, <2>1, <2>2, KeptFrame DEF Restart, store, Kinds, Waits, Same
<1>5. ASSUME NEW j \in Jobs, JobFails(j)
      PROVE  Kinds(J) /\ due'["roll5"] <= now' + B5
  <2>1. /\ job'["roll5"] \in {job["roll5"], Idle} /\ job'["hourly"] \in {job["hourly"], Idle}
        /\ job'["stats"] \in {job["stats"], Idle}
    BY <1>0, <1>5, FinishTyped DEF JobFails
  <2> QED BY <1>0, <1>5, <2>1, KeptFrame DEF JobFails, store, Kinds, Rests, Same
<1>6. ASSUME NEW j \in {"stats", "daily"}, NEW work, Start(j, work), j = "stats" => work = Idle \/ work.ts = now,
             UNCHANGED <<now, raw, five, hourly, taken, late>>, faults' \in {faults, faults + 1}
      PROVE  Kinds(J) /\ due'["roll5"] <= now' + B5
  <2>1. job'["roll5"] = job["roll5"] /\ job'["hourly"] = job["hourly"] /\ due'["roll5"] = due["roll5"]
    BY <1>0, <1>6, StartTyped DEF Jobs
  <2>2. job'["stats"] \in {job["stats"], Idle} \/ job'["stats"].ts = now
    BY <1>0, <1>6, StartTyped DEF Jobs
  <2> QED BY <1>0, <1>6, <2>1, <2>2, KeptFrame DEF Kinds, Rests, Same
<1>7. CASE StatsCycle
  <2>1. PICK new \in {box, Absent} : Start("stats", [pc |-> "insert", ts |-> now, box |-> new])
    BY <1>7 DEF StatsCycle
  <2>2. UNCHANGED <<now, raw, five, hourly, taken, late>> /\ faults' \in {faults, faults + 1}
    BY <1>7 DEF StatsCycle
  <2> QED BY <1>6, <2>1, <2>2
<1>8. CASE StatsEventFails
  BY <1>6, <1>8 DEF StatsEventFails
<1>9. CASE record_snapshot
  <2>1. job'["roll5"] = job["roll5"] /\ job'["hourly"] = job["hourly"] /\ job'["stats"] = Idle
    BY <1>0, <1>9, FinishTyped DEF record_snapshot, Jobs
  <2> DEFINE new == [ts |-> Stamp, seq |-> next_seq, box |-> job["stats"].box]
  <2>2. /\ raw' = {r \in raw : r.ts # Stamp} \cup {new} /\ taken' = taken \cup {Stamp} /\ Flying
        /\ late' = IF Win(Stamp) < Floor(now, B5) THEN late \cup {Stamp} ELSE late
    BY <1>9 DEF record_snapshot, Stamp, Flying, Win
  <2>3. new.ts = Stamp
    OBVIOUS
  <2> HIDE DEF new
  <2>4. Kept' = Kept \cup {Stamp}
    BY <2>2, <2>3 DEF Kept
  <2> QED BY <1>0, <1>9, <2>1, <2>2, <2>4 DEF record_snapshot, Kinds, Takes
<1>a. CASE StatsSkipped
  <2>1. due'["roll5"] = due["roll5"]
    BY <1>0, <1>a DEF StatsSkipped, TypeInv, TypeOK
  <2> QED BY <1>0, <1>a, <2>1, KeptFrame DEF StatsSkipped, store, Kinds, Rests, Same
<1>10. CASE roll_up_5min
  <2> DEFINE buckets == Grouped(Rows5, B5)
             work == IF Rows5 = {} THEN Idle ELSE [pc |-> "write", buckets |-> buckets]
  <2>1. Start("roll5", work)
    BY <1>10 DEF roll_up_5min
  <2>2. \/ Rows5 = {} /\ work = Idle
        \/ work # Idle /\ work.buckets = Grouped(Rows5, B5)
    BY DEF Idle
  <2> HIDE DEF work
  <2>3. /\ job'["roll5"] = work /\ job'["hourly"] = job["hourly"] /\ job'["stats"] = job["stats"]
        /\ job["roll5"] = Idle /\ due'["roll5"] <= now + B5
    BY <1>0, <2>1, StartTyped
  <2> QED BY <1>0, <1>10, <2>2, <2>3, KeptFrame DEF roll_up_5min, store, Kinds, Reads5, Same
<1>11. CASE roll_up_5min_write
  <2>1. /\ job'["roll5"] = Idle /\ job'["hourly"] = job["hourly"] /\ job'["stats"] = job["stats"]
        /\ job["roll5"] # Idle
    BY <1>0, <1>11, FinishTyped DEF roll_up_5min_write
  <2> QED BY <1>0, <1>11, <2>1, KeptFrame DEF roll_up_5min_write, Kinds, Writes5, Same, Pend5
<1>12. CASE roll_hourly
  <2> DEFINE work == [pc |-> "write", buckets |-> Merged(DayOld, HOUR)]
  <2>1. Start("hourly", work)
    BY <1>12 DEF roll_hourly
  <2>2. work.pc = "write" /\ work.buckets = Merged(DayOld, HOUR)
    OBVIOUS
  <2> HIDE DEF work
  <2>3. /\ job'["hourly"] = work /\ job'["roll5"] = job["roll5"] /\ job'["stats"] = job["stats"]
        /\ due'["roll5"] = due["roll5"]
    BY <1>0, <2>1, StartTyped
  <2> QED BY <1>0, <1>12, <2>2, <2>3, KeptFrame DEF roll_hourly, store, Kinds, ReadsH, Same
<1>13. CASE roll_hourly_write
  <2>1. /\ job'["hourly"].pc = "prune" /\ job'["roll5"] = job["roll5"] /\ job'["stats"] = job["stats"]
        /\ job["hourly"].pc = "write"
    BY <1>0, <1>13 DEF roll_hourly_write
  <2> QED BY <1>0, <1>13, <2>1, KeptFrame DEF roll_hourly_write, Kinds, WritesH, Same
<1>14. CASE prune
  <2>1. /\ job'["hourly"] = Idle /\ job'["roll5"] = job["roll5"] /\ job'["stats"] = job["stats"]
        /\ job["hourly"].pc = "prune"
    BY <1>0, <1>14, FinishTyped DEF prune
  <2>2. Kept' = {t \in Kept : t >= now - RawRetain}
    BY <1>14 DEF prune, Kept, RawCutoff
  <2> QED BY <1>0, <1>14, <2>1, <2>2 DEF prune, Kinds, Prunes
<1>15. CASE roll_daily
  BY <1>6, <1>15 DEF roll_daily, store
<1>16. CASE roll_daily_write
  <2>1. job'["roll5"] = job["roll5"] /\ job'["hourly"] = job["hourly"] /\ job'["stats"] = job["stats"]
    BY <1>0, <1>16, FinishTyped DEF roll_daily_write, Jobs
  <2> QED BY <1>0, <1>16, <2>1, KeptFrame DEF roll_daily_write, Kinds, Rests, Same
<1>17. CASE UNCHANGED svars
  BY <1>0, <1>17, KeptFrame DEF svars, store, Kinds, Rests, Same
<1>18. QED
  BY <1>1, <1>2, <1>3, <1>4, <1>5, <1>7, <1>8, <1>9, <1>a, <1>10, <1>11, <1>12, <1>13, <1>14,
     <1>15, <1>16, <1>17 DEF StoreNext

-----------------------------------------------------------------------------
(* The order of the 5-minute buckets *)

Covered(t) == \E b \in five : b.start = Win(t)
Awaited(t) == \E b \in Pend5 : b.start = Win(t)

\* A bucket that holds only snapshots of its window, which has ended.
Proper(b) ==
    /\ Aligned(b.start, B5) /\ b.start + B5 <= Floor(now, B5)
    /\ b.of # {} /\ b.of \subseteq {t \in taken : Win(t) = b.start}

\* Buckets, written and about to be, are proper, and a snapshot without a bucket
\* is later than all of them: rollups follow the order of the windows.
OrderInv ==
    /\ Kept \subseteq taken
    /\ \A b \in five \cup Pend5 : Proper(b)
    /\ \A t \in Kept : ~Covered(t) => \A b \in five : b.start + B5 <= t
    /\ \A t \in Kept : ~Covered(t) /\ ~Awaited(t) => \A b \in Pend5 : b.start + B5 <= t

\* A snapshot's window contains it.
LEMMA WinFacts ==
    ASSUME NEW t \in Nat
    PROVE  Win(t) \in Nat /\ Win(t) <= t /\ t < Win(t) + B5 /\ Aligned(Win(t), B5)
BY SpanAssumption, FloorBounds, FloorAligned DEF Win

\* Types of what the rollup invariants compare.
LEMMA Naturals5 ==
    ASSUME TypeInv, OrderInv
    PROVE  /\ now \in Nat /\ due["roll5"] \in Nat /\ Floor(now, B5) \in Nat
           /\ Floor(now, B5) <= now /\ now < Floor(now, B5) + B5 /\ Aligned(Floor(now, B5), B5)
           /\ \A t \in Kept : t \in Nat /\ t <= now
           /\ \A t \in taken : t \in Nat /\ t <= now
           /\ \A b \in five \cup Pend5 : b.start \in Nat
           /\ Flying => Stamp \in Nat /\ Stamp <= now
<1>1. now \in Nat /\ B5 \in Nat \ {0}
  BY SpanAssumption DEF TypeInv, TypeOK
<1>2. \A x : Aligned(x, B5) => x \in Nat
  BY <1>1 DEF Aligned
<1>3. \A b \in five \cup Pend5 : b.start \in Nat
  BY <1>2 DEF OrderInv, Proper
<1>4. \A t \in Kept : t \in Nat /\ t <= now
  BY DEF TypeInv, TypeOK, RowsOK, Kept
<1>5. \A t \in taken : t \in Nat /\ t <= now
  BY <1>1 DEF TypeInv, RowsOK
<1>6. due["roll5"] \in Nat /\ (Flying => Stamp \in Nat /\ Stamp <= now)
  BY <1>1 DEF TypeInv, TypeOK, JobOK, Jobs, Flying, Stamp
<1>7. QED
  BY <1>1, <1>3, <1>4, <1>5, <1>6, FloorBounds, FloorAligned

\* The windows behind the last bucket that have ended, and no others, are read.
LEMMA ReadFacts ==
    ASSUME TypeInv, OrderInv
    PROVE  /\ \A t \in Rows5 : t \in Kept /\ ~Covered(t) /\ t < Floor(now, B5)
           /\ \A t \in Kept : ~Covered(t) /\ t < Floor(now, B5) => t \in Rows5
           /\ \A t \in Rows5, u \in Kept : Win(u) = Win(t) => u \in Rows5
<1>1. /\ now \in Nat /\ Floor(now, B5) \in Nat /\ Floor(now, B5) <= now /\ Aligned(Floor(now, B5), B5)
      /\ (\A t \in Kept : t \in Nat) /\ (\A b \in five : b.start \in Nat) /\ B5 \in Nat \ {0}
  BY Naturals5, SpanAssumption
<1> DEFINE ends == {b.start + B5 : b \in five} \cup {0}
<1>2. ends \in SUBSET Nat /\ ends # {} /\ \A x \in ends : x <= Floor(now, B5)
  BY <1>1 DEF OrderInv, Proper
<1>3. Max(ends) \in ends /\ \A x \in ends : x <= Max(ends)
  <2> HIDE DEF ends
  <2> QED BY <1>1, <1>2, MaxOfBounded
<1>4. LowerBound = Max(ends)
  BY DEF LowerBound
<1>5. /\ LowerBound \in Nat /\ \A b \in five : b.start + B5 <= LowerBound
      /\ LowerBound = 0 \/ \E b \in five : LowerBound = b.start + B5
  BY <1>2, <1>3, <1>4
<1> HIDE DEF ends
<1>6. Rows5 = {t \in Kept : LowerBound <= t /\ t < Floor(now, B5)}
  BY DEF Rows5, Kept, Cutoff
<1>7. ASSUME NEW t \in Rows5 PROVE ~Covered(t)
  <2> SUFFICES ASSUME NEW b \in five, b.start = Win(t) PROVE FALSE
    BY DEF Covered
  <2>1. t \in Nat /\ LowerBound <= t /\ t < Win(t) + B5 /\ Win(t) \in Nat
    BY <1>1, <1>6, <1>7, WinFacts
  <2> QED BY <1>1, <1>5, <2>1
<1>8. ASSUME NEW t \in Kept, ~Covered(t), t < Floor(now, B5) PROVE t \in Rows5
  <2>1. LowerBound <= t
    BY <1>1, <1>5, <1>8 DEF OrderInv
  <2> QED BY <1>6, <1>8, <2>1
<1>9. ASSUME NEW t \in Rows5, NEW u \in Kept, Win(u) = Win(t) PROVE u \in Rows5
  <2>1. /\ t \in Nat /\ u \in Nat /\ LowerBound <= t /\ t < Floor(now, B5)
        /\ Win(t) \in Nat /\ Aligned(Win(t), B5) /\ Win(t) <= t /\ t < Win(t) + B5
        /\ Win(t) <= u /\ u < Win(t) + B5
    BY <1>1, <1>6, <1>9, WinFacts
  <2>2. LowerBound <= Win(t)
    <3>1. CASE LowerBound = 0
      BY <2>1, <3>1
    <3>2. CASE LowerBound # 0
      <4>1. PICK b \in five : LowerBound = b.start + B5
        BY <1>5, <3>2
      <4>2. b.start < Win(t)
        BY <1>1, <2>1, <4>1
      <4>3. Aligned(b.start, B5)
        BY DEF OrderInv, Proper
      <4> QED BY <1>1, <2>1, <4>1, <4>2, <4>3, AlignedStep
    <3> QED BY <3>1, <3>2
  <2>3. Win(t) + B5 <= Floor(now, B5)
    <3>1. Win(t) < Floor(now, B5)
      BY <1>1, <2>1
    <3> QED BY <1>1, <2>1, <3>1, AlignedStep
  <2>4. LowerBound <= u /\ u < Floor(now, B5)
    BY <1>1, <1>5, <2>1, <2>2, <2>3
  <2> QED BY <1>6, <2>4
<1>10. QED
  BY <1>6, <1>7, <1>8, <1>9

\* What is read is grouped into proper buckets, one for each window.
LEMMA GroupFacts ==
    ASSUME TypeInv, OrderInv
    PROVE  /\ \A b \in Grouped(Rows5, B5) : Proper(b)
           /\ \A b \in Grouped(Rows5, B5) :
                \E t \in Rows5 : b.start = Win(t) /\ b.of = {u \in Rows5 : Win(u) = Win(t)}
           /\ \A t \in Rows5 : \E b \in Grouped(Rows5, B5) : b.start = Win(t)
<1>1. ASSUME NEW b \in Grouped(Rows5, B5)
      PROVE  \E t \in Rows5 : b.start = Win(t) /\ b.of = {u \in Rows5 : Win(u) = Win(t)}
  BY DEF Grouped, Win
<1>2. ASSUME NEW b \in Grouped(Rows5, B5) PROVE Proper(b)
  <2>1. PICK t \in Rows5 : b.start = Win(t) /\ b.of = {u \in Rows5 : Win(u) = Win(t)}
    BY <1>1
  <2>2. t \in Kept /\ t < Floor(now, B5) /\ t \in Nat /\ Rows5 \subseteq taken
    BY ReadFacts, Naturals5 DEF OrderInv
  <2>3. Win(t) \in Nat /\ Win(t) <= t /\ t < Win(t) + B5 /\ Aligned(Win(t), B5)
    BY <2>2, WinFacts
  <2>4. Win(t) + B5 <= Floor(now, B5)
    <3>1. Win(t) < Floor(now, B5) /\ B5 \in Nat \ {0}
      BY <2>2, <2>3, Naturals5, SpanAssumption
    <3> QED BY <2>3, <3>1, AlignedStep, Naturals5
  <2>5. b.of # {} /\ b.of \subseteq {u \in taken : Win(u) = b.start}
    BY <2>1, <2>2
  <2> QED BY <2>1, <2>3, <2>4, <2>5 DEF Proper
<1>3. ASSUME NEW t \in Rows5 PROVE \E b \in Grouped(Rows5, B5) : b.start = Win(t)
  <2> DEFINE b == [start |-> Win(t), of |-> {u \in Rows5 : Win(u) = Win(t)}]
  <2>1. b \in Grouped(Rows5, B5) /\ b.start = Win(t)
    BY <1>3 DEF Grouped, Win
  <2> QED BY <2>1
<1>4. QED
  BY <1>1, <1>2, <1>3

\* prune takes the bucket of a window only after its raw snapshots.
LEMMA PruneKeeps ==
    ASSUME RawRetain + B5 <= B5Retain, TypeInv, OrderInv, Prunes
    PROVE  /\ \A t \in Kept' : Covered(t) => Covered(t)'
           /\ \A t \in taken : Covered(t) => \/ Covered(t)'
                                             \/ /\ Win(t) < now - B5Retain
                                                /\ \A u \in Kept' : u >= Win(t) + B5
<1>1. /\ now \in Nat /\ B5 \in Nat \ {0} /\ RawRetain \in Nat /\ B5Retain \in Nat
      /\ (\A t \in Kept : t \in Nat) /\ (\A t \in taken : t \in Nat) /\ (\A b \in five : b.start \in Nat)
  BY Naturals5, SpanAssumption
<1>2. /\ Kept' = {t \in Kept : t >= now - RawRetain}
      /\ five' = {b \in five : b.start >= now - B5Retain}
  BY DEF Prunes
<1>3. ASSUME NEW t \in Nat, Covered(t)
      PROVE  Covered(t)' \/ (Win(t) < now - B5Retain /\ t < now - RawRetain)
  <2>1. PICK b \in five : b.start = Win(t)
    BY <1>3 DEF Covered
  <2>2. Win(t) \in Nat /\ t < Win(t) + B5
    BY <1>3, WinFacts
  <2>3. CASE b.start >= now - B5Retain
    BY <1>2, <2>1, <2>3 DEF Covered, Win
  <2>4. CASE ~(b.start >= now - B5Retain)
    <3>1. Win(t) < now - B5Retain
      BY <1>1, <2>1, <2>2, <2>4
    <3> QED BY <1>1, <1>3, <2>2, <3>1
  <2> QED BY <2>3, <2>4
<1>4. ASSUME NEW t \in Kept', Covered(t) PROVE Covered(t)'
  <2>1. t \in Nat /\ t >= now - RawRetain
    BY <1>1, <1>2, <1>4
  <2> QED BY <1>1, <1>3, <1>4, <2>1
<1>5. ASSUME NEW t \in taken, Win(t) < now - B5Retain PROVE \A u \in Kept' : u >= Win(t) + B5
  <2>1. Win(t) \in Nat
    BY <1>1, <1>5, WinFacts
  <2> QED BY <1>1, <1>2, <1>5, <2>1
<1>6. QED
  BY <1>1, <1>3, <1>4, <1>5

\* A cycle in flight is later than every snapshot, so that its window is not
\* before the window of any bucket.
LEMMA StampLast ==
    ASSUME TypeInv, CycleInv, OrderInv, Flying, NEW b \in five \cup Pend5, b.start # Win(Stamp)
    PROVE  b.start + B5 <= Stamp
<1>1. Proper(b) /\ B5 \in Nat \ {0}
  BY SpanAssumption DEF OrderInv
<1>2. PICK u \in b.of : u \in taken /\ Win(u) = b.start
  BY <1>1 DEF Proper
<1>3. u \in Nat /\ Stamp \in Nat /\ u <= Stamp
  <2>1. u \in Nat /\ Stamp \in Nat
    BY <1>2, Naturals5
  <2>2. u < Stamp
    BY <1>2 DEF CycleInv
  <2> QED BY <2>1, <2>2
<1>4. b.start <= Win(Stamp)
  BY <1>1, <1>2, <1>3, FloorMono DEF Win
<1>5. b.start < Win(Stamp) /\ Win(Stamp) \in Nat /\ Win(Stamp) <= Stamp /\ b.start \in Nat /\ Aligned(Win(Stamp), B5)
  <2>1. Win(Stamp) \in Nat /\ Win(Stamp) <= Stamp /\ Aligned(Win(Stamp), B5) /\ b.start \in Nat
    BY <1>3, WinFacts, Naturals5
  <2> QED BY <1>4, <2>1
<1>6. b.start + B5 <= Win(Stamp)
  BY <1>1, <1>5, AlignedStep DEF Proper
<1>7. QED
  BY <1>1, <1>3, <1>5, <1>6

\* Every step keeps the order.
LEMMA NextKeepsOrder ==
    ASSUME NEW J, RawRetain + B5 <= B5Retain, TypeInv, TypeInv', CycleInv, OrderInv, Kinds(J)
    PROVE  OrderInv'
<1>0. /\ now \in Nat /\ now' \in Nat /\ B5 \in Nat \ {0}
      /\ Floor(now, B5) \in Nat /\ Floor(now, B5) <= now
      /\ (\A t \in Kept : t \in Nat /\ t <= now) /\ (\A t \in taken : t \in Nat /\ t <= now)
      /\ (\A b \in five \cup Pend5 : b.start \in Nat)
  <2>1. now' \in Nat
    BY DEF TypeInv, TypeOK
  <2> QED BY <2>1, Naturals5, SpanAssumption
<1>a. /\ Kept \subseteq taken /\ (\A b \in five \cup Pend5 : Proper(b))
      /\ (\A t \in Kept : ~Covered(t) => \A b \in five : b.start + B5 <= t)
      /\ (\A t \in Kept : ~Covered(t) /\ ~Awaited(t) => \A b \in Pend5 : b.start + B5 <= t)
  BY DEF OrderInv
<1>b. (job'["roll5"] = Idle => Pend5' = {}) /\ (job'["roll5"] = job["roll5"] => Pend5' = Pend5)
  BY DEF Pend5
<1>c. \A t : /\ five' = five => (Covered(t)' <=> Covered(t))
             /\ Pend5' = Pend5 => (Awaited(t)' <=> Awaited(t))
  BY DEF Covered, Awaited, Win
<1>d. ASSUME now <= now', taken \subseteq taken', NEW b, Proper(b) PROVE Proper(b)'
  <2>1. Floor(now, B5) <= Floor(now', B5) /\ Floor(now', B5) \in Nat
    BY <1>0, <1>d, FloorMono, FloorBounds
  <2>2. b.start \in Nat
    BY <1>0, <1>d DEF Proper, Aligned
  <2>3. b.start + B5 <= Floor(now, B5) /\ b.of \subseteq {t \in taken : Win(t) = b.start}
    BY <1>d DEF Proper
  <2>4. b.start + B5 <= Floor(now', B5) /\ b.of \subseteq {t \in taken' : Win(t) = b.start}
    BY <1>0, <1>d, <2>1, <2>2, <2>3
  <2> QED BY <1>d, <2>4 DEF Proper, Win
<1>1. CASE Waits(J) \/ Rests \/ ReadsH \/ WritesH
  <2>1. /\ now <= now' /\ five' = five /\ taken' = taken /\ Kept' = Kept
        /\ job'["roll5"] = job["roll5"] \/ job'["roll5"] = Idle
    BY <1>0, <1>1 DEF Waits, Rests, ReadsH, WritesH, Same
  <2>2. Pend5' = {} \/ Pend5' = Pend5
    BY <1>b, <2>1
  <2>3. \A b \in five' \cup Pend5' : Proper(b)'
    BY <1>a, <1>d, <2>1, <2>2
  <2>4. CASE Pend5' = Pend5
    BY <1>a, <1>c, <2>1, <2>3, <2>4 DEF OrderInv
  <2>5. CASE Pend5' = {}
    BY <1>a, <1>c, <2>1, <2>3, <2>5 DEF OrderInv
  <2> QED BY <2>2, <2>4, <2>5
<1>2. CASE Takes
  <2>1. /\ now' = now /\ five' = five /\ taken' = taken \cup {Stamp} /\ Kept' = Kept \cup {Stamp}
        /\ job'["roll5"] = job["roll5"] /\ Pend5' = Pend5 /\ Flying
    BY <1>2, <1>b DEF Takes
  <2>2. \A b \in five' \cup Pend5' : Proper(b)'
    BY <1>0, <1>a, <1>d, <2>1
  <2>3. ~Covered(Stamp) => \A b \in five : b.start + B5 <= Stamp
    BY <2>1, StampLast DEF Covered
  <2>4. ~Awaited(Stamp) => \A b \in Pend5 : b.start + B5 <= Stamp
    BY <2>1, StampLast DEF Awaited
  <2>5. \A t : (Covered(t)' <=> Covered(t)) /\ (Awaited(t)' <=> Awaited(t))
    BY <1>c, <2>1
  <2> QED BY <1>a, <2>1, <2>2, <2>3, <2>4, <2>5 DEF OrderInv
<1>3. CASE Reads5
  <2>1. now' = now /\ five' = five /\ taken' = taken /\ Kept' = Kept
    BY <1>3 DEF Reads5, Same
  <2>2. CASE job'["roll5"] = Idle
    <3>1. Pend5' = {}
      BY <1>b, <2>2
    <3> QED BY <1>0, <1>a, <1>c, <1>d, <2>1, <3>1 DEF OrderInv
  <2>3. CASE job'["roll5"] # Idle /\ job'["roll5"].buckets = Grouped(Rows5, B5)
    <3>1. Pend5' = Grouped(Rows5, B5)
      BY <2>3 DEF Pend5
    <3>2. \A b \in five' \cup Pend5' : Proper(b)'
      BY <1>0, <1>a, <1>d, <2>1, <3>1, GroupFacts
    <3>3. ASSUME NEW t \in Kept, ~Covered(t), ~Awaited(t)', NEW b \in Pend5' PROVE b.start + B5 <= t
      <4>1. t \notin Rows5
        BY <3>1, <3>3, GroupFacts DEF Awaited, Win
      <4>2. Floor(now, B5) <= t
        BY <1>0, <3>3, <4>1, ReadFacts
      <4>3. b.start \in Nat /\ b.start + B5 <= Floor(now, B5)
        BY <1>0, <3>1, GroupFacts DEF Proper, Aligned
      <4> QED BY <1>0, <3>3, <4>2, <4>3
    <3> QED BY <1>a, <1>c, <2>1, <3>2, <3>3 DEF OrderInv
  <2> QED BY <1>3, <2>2, <2>3 DEF Reads5
<1>4. CASE Writes5
  <2>1. /\ now' = now /\ taken' = taken /\ Kept' = Kept /\ Pend5' = {}
        /\ five' = five \cup {b \in Pend5 : \A a \in five : a.start # b.start}
    BY <1>4, <1>b DEF Writes5, Same, InsertOrIgnore
  <2>2. \A b \in five' \cup Pend5' : Proper(b)'
    BY <1>0, <1>a, <1>d, <2>1
  <2>3. \A t : ~Covered(t)' => ~Covered(t) /\ ~Awaited(t)
    BY <2>1 DEF Covered, Awaited, Win
  <2> QED BY <1>a, <2>1, <2>2, <2>3 DEF OrderInv
<1>5. CASE Prunes
  <2>1. /\ now' = now /\ taken' = taken /\ Kept' \subseteq Kept /\ five' \subseteq five /\ Pend5' = Pend5
    BY <1>5, <1>b DEF Prunes
  <2>2. \A t \in Kept' : ~Covered(t)' => ~Covered(t)
    BY <1>5, PruneKeeps
  <2>3. \A b \in five' \cup Pend5' : Proper(b)'
    BY <1>0, <1>a, <1>d, <2>1
  <2> QED BY <1>a, <1>c, <2>1, <2>2, <2>3 DEF OrderInv
<1>6. QED
  BY <1>1, <1>2, <1>3, <1>4, <1>5 DEF Kinds

-----------------------------------------------------------------------------
(* The delay of the rollups *)

Slack(J) == faults * (B5 + J)
Deadline(t, J) == Win(t) + 2 * B5 + Slack(J)

\* An insert in flight is at most a tick late, and a snapshot without a bucket
\* is young, and its rollup is not far off: each failure, sleep and restart costs
\* the rollup one period and the time away.
TimeInv(J) ==
    /\ due["roll5"] <= now + B5
    /\ Flying => now <= Stamp + 1 + Slack(J)
    /\ \A t \in Kept : ~Covered(t) =>
         /\ now <= Deadline(t, J)
         /\ due["roll5"] <= Deadline(t, J) + (IF Awaited(t) THEN B5 ELSE 0)

\* The multiplication in the deadline.
LEMMA SlackFacts ==
    ASSUME NEW J, Away(J), TypeInv, TypeInv'
    PROVE  /\ Slack(J) \in Nat /\ Slack(J)' \in Nat
           /\ faults' = faults + 1 => Slack(J)' = Slack(J) + B5 + J
           /\ faults' = faults => Slack(J)' = Slack(J)
           /\ 2 * B5 + Slack(J) <= Late(J) /\ Late(J) \in Nat
<1>1. J \in Nat /\ B5 \in Nat \ {0} /\ faults \in Nat /\ faults' \in Nat /\ MaxFaults \in Nat /\ faults <= MaxFaults
  BY SpanAssumption DEF Away, TypeInv, TypeOK
<1> DEFINE m == B5 + J
<1>2. m \in Nat
  BY <1>1
<1>3. ASSUME NEW a \in Nat, NEW c \in Nat
      PROVE  a * c \in Nat /\ (a + 1) * c = a * c + c
  BY <1>3, Z3
<1>4. ASSUME NEW a \in Nat, NEW b \in Nat, NEW c \in Nat, a <= b
      PROVE  a * c <= b * c
  BY <1>4, Z3
<1>5. faults * m <= MaxFaults * m /\ faults * m \in Nat /\ faults' * m \in Nat /\ MaxFaults * m \in Nat
  BY <1>1, <1>2, <1>3, <1>4
<1>6. (faults + 1) * m = faults * m + m
  BY <1>1, <1>2, <1>3
<1> HIDE DEF m
<1>7. Slack(J) = faults * m /\ Slack(J)' = faults' * m /\ Late(J) = 2 * B5 + MaxFaults * m
  BY DEF Slack, Late, m
<1>8. m = B5 + J
  BY DEF m
<1>9. 2 * B5 \in Nat
  BY <1>1
<1>10. 2 * B5 + Slack(J) <= Late(J) /\ Late(J) \in Nat
  BY <1>5, <1>7, <1>9
<1>11. faults' = faults + 1 => Slack(J)' = Slack(J) + B5 + J
  BY <1>1, <1>2, <1>5, <1>6, <1>7, <1>8
<1>12. QED
  BY <1>5, <1>7, <1>10, <1>11

\* Every step keeps the rollup of a snapshot within its deadline.
LEMMA NextKeepsTime ==
    ASSUME NEW J, Away(J), RawRetain + B5 <= B5Retain, TypeInv, TypeInv', OrderInv, TimeInv(J), Kinds(J),
           due'["roll5"] <= now' + B5
    PROVE  TimeInv(J)'
<1>0. /\ now \in Nat /\ now' \in Nat /\ B5 \in Nat \ {0} /\ J \in Nat
      /\ due["roll5"] \in Nat /\ due'["roll5"] \in Nat /\ due["roll5"] <= now + B5
      /\ (\A t \in Kept : t \in Nat /\ t <= now) /\ (Flying => Stamp \in Nat /\ Stamp <= now)
      /\ Slack(J) \in Nat /\ Slack(J)' \in Nat
      /\ (faults' = faults + 1 => Slack(J)' = Slack(J) + B5 + J)
      /\ (faults' = faults => Slack(J)' = Slack(J))
  <2>1. due'["roll5"] \in Nat /\ now' \in Nat
    BY DEF TypeInv, TypeOK, Jobs
  <2>2. J \in Nat /\ B5 \in Nat \ {0} /\ due["roll5"] <= now + B5
    BY SpanAssumption DEF Away, TimeInv
  <2> QED BY <2>1, <2>2, Naturals5, SlackFacts
<1>a. Flying => now <= Stamp + 1 + Slack(J)
  BY DEF TimeInv
<1>b. /\ job'["stats"] = Idle => ~Flying'
      /\ job'["stats"] = job["stats"] => (Flying' <=> Flying) /\ Stamp' = Stamp
      /\ Stamp' = job'["stats"].ts
  BY DEF Flying, Stamp
<1>c. Flying' => now' <= Stamp' + 1 + Slack(J)'
  <2>1. CASE Waits(J)
    <3>1. CASE now' = now + 1 /\ faults' = faults /\ job'["stats"] = job["stats"] /\ (Flying => Stamp = now)
      BY <1>0, <1>b, <3>1
    <3>2. CASE now' <= now + J /\ faults' = faults + 1 /\ job'["stats"] \in {job["stats"], Idle}
      <4>1. Slack(J)' = Slack(J) + B5 + J
        BY <1>0, <3>2
      <4> QED BY <1>0, <1>a, <1>b, <3>2, <4>1
    <3> QED BY <2>1, <3>1, <3>2 DEF Waits
  <2>2. CASE Rests
    <3>1. now' = now /\ Slack(J) <= Slack(J)'
      BY <1>0, <2>2 DEF Rests, Same
    <3>2. CASE job'["stats"] \in {job["stats"], Idle}
      BY <1>0, <1>a, <1>b, <3>1, <3>2
    <3>3. CASE job'["stats"].ts = now
      BY <1>0, <1>b, <3>1, <3>3
    <3> QED BY <2>2, <3>2, <3>3 DEF Rests
  <2>3. CASE Takes
    BY <1>b, <2>3 DEF Takes
  <2>4. CASE Reads5 \/ Writes5 \/ ReadsH \/ WritesH \/ Prunes
    <3>1. now' = now /\ Slack(J)' = Slack(J) /\ job'["stats"] = job["stats"]
      BY <1>0, <2>4 DEF Reads5, Writes5, ReadsH, WritesH, Prunes, Same
    <3> QED BY <1>0, <1>a, <1>b, <3>1
  <2> QED BY <2>1, <2>2, <2>3, <2>4 DEF Kinds
<1>1. ASSUME NEW t \in Kept, ~Covered(t)
      PROVE  /\ now <= Deadline(t, J) /\ Deadline(t, J) \in Nat
             /\ due["roll5"] <= Deadline(t, J) + B5
             /\ ~Awaited(t) => due["roll5"] <= Deadline(t, J)
             /\ faults' = faults => Deadline(t, J)' = Deadline(t, J)
             /\ faults' = faults + 1 => Deadline(t, J)' = Deadline(t, J) + B5 + J
  <2>1. Win(t) \in Nat
    BY <1>0, <1>1, WinFacts
  <2>2. Deadline(t, J) = Win(t) + 2 * B5 + Slack(J) /\ Deadline(t, J)' = Win(t) + 2 * B5 + Slack(J)'
    BY DEF Deadline, Win
  <2>3. /\ now <= Deadline(t, J)
        /\ due["roll5"] <= Deadline(t, J) + (IF Awaited(t) THEN B5 ELSE 0)
    BY <1>1 DEF TimeInv
  <2> QED BY <1>0, <2>1, <2>2, <2>3
<1> DEFINE Goal(t) == /\ now' <= Deadline(t, J)'
                      /\ due'["roll5"] <= Deadline(t, J)' + (IF Awaited(t)' THEN B5 ELSE 0)
<1>2. SUFFICES ASSUME NEW t \in Kept', ~Covered(t)' PROVE Goal(t)
  BY <1>c DEF TimeInv
<1>d. /\ five' = five => (Covered(t)' <=> Covered(t))
      /\ job'["roll5"] = job["roll5"] => (Awaited(t)' <=> Awaited(t))
      /\ job["roll5"] = Idle => ~Awaited(t)
      /\ job'["roll5"] = Idle => ~Awaited(t)'
  BY DEF Covered, Awaited, Pend5, Win
<1>3. ASSUME t \in Kept, ~Covered(t), now' = now, due'["roll5"] = due["roll5"], Awaited(t)' <=> Awaited(t),
             faults' = faults
      PROVE  Goal(t)
  BY <1>0, <1>1, <1>3
<1>4. CASE Waits(J)
  <2>1. t \in Kept /\ ~Covered(t) /\ ~Awaited(t)'
    BY <1>2, <1>4, <1>d DEF Waits, Same
  <2>3. CASE now' = now + 1 /\ now < due["roll5"] /\ job["roll5"] = Idle
             /\ due'["roll5"] = due["roll5"] /\ faults' = faults
    BY <1>0, <1>1, <1>d, <2>1, <2>3
  <2>4. CASE now' <= now + J /\ faults' = faults + 1
    BY <1>0, <1>1, <2>1, <2>4
  <2> QED BY <1>4, <2>3, <2>4 DEF Waits
<1>5. CASE Rests
  <2>1. t \in Kept /\ ~Covered(t) /\ now' = now /\ due'["roll5"] = due["roll5"]
    BY <1>2, <1>5, <1>d DEF Rests, Same
  <2>2. CASE job'["roll5"] = job["roll5"] /\ faults' = faults
    BY <1>3, <1>d, <2>1, <2>2
  <2>3. CASE faults' = faults + 1
    BY <1>0, <1>1, <2>1, <2>3
  <2> QED BY <1>5, <2>2, <2>3 DEF Rests
<1>6. CASE Takes
  <2>1. /\ now' = now /\ due'["roll5"] = due["roll5"] /\ faults' = faults /\ (Awaited(t)' <=> Awaited(t))
        /\ ~Covered(t) /\ t \in Kept \cup {Stamp} /\ Flying
    BY <1>2, <1>6, <1>d DEF Takes
  <2>2. CASE t \in Kept
    BY <1>3, <2>1, <2>2
  <2>3. CASE t = Stamp
    <3>1. t \in Nat /\ now <= t + 1 + Slack(J)
      BY <1>0, <1>a, <2>1, <2>3
    <3>2. Win(t) \in Nat /\ t < Win(t) + B5
      BY <3>1, WinFacts
    <3>3. Deadline(t, J)' = Win(t) + 2 * B5 + Slack(J)
      BY <1>0, <2>1 DEF Deadline, Win
    <3>4. now + B5 <= Win(t) + 2 * B5 + Slack(J)
      BY <1>0, <3>1, <3>2
    <3> QED BY <1>0, <2>1, <3>2, <3>3, <3>4
  <2> QED BY <2>1, <2>2, <2>3
<1>7. CASE Reads5
  <2>1. /\ now' = now /\ faults' = faults /\ ~Covered(t) /\ t \in Kept
    BY <1>2, <1>7, <1>d DEF Reads5, Same
  <2>2. CASE Awaited(t)'
    BY <1>0, <1>1, <2>1, <2>2
  <2>3. CASE ~Awaited(t)'
    <3>1. t \notin Rows5
      <4>1. CASE Rows5 = {}
        BY <4>1
      <4>2. CASE job'["roll5"] # Idle /\ job'["roll5"].buckets = Grouped(Rows5, B5)
        BY <2>3, <4>2, GroupFacts DEF Awaited, Pend5, Win
      <4> QED BY <1>7, <4>1, <4>2 DEF Reads5
    <3>2. Floor(now, B5) <= t /\ now < Floor(now, B5) + B5 /\ Floor(now, B5) \in Nat
      BY <2>1, <3>1, ReadFacts, Naturals5
    <3>3. Floor(now, B5) <= Win(t) /\ Win(t) \in Nat
      <4>1. Aligned(Floor(now, B5), B5) /\ t <= now /\ t \in Nat
        BY <2>1, Naturals5
      <4>2. Floor(now, B5) = Win(t)
        BY <1>0, <3>2, <4>1, FloorUnique DEF Win
      <4> QED BY <3>2, <4>2
    <3>4. Deadline(t, J)' = Win(t) + 2 * B5 + Slack(J)
      BY <1>0, <2>1 DEF Deadline, Win
    <3>5. now + B5 <= Win(t) + 2 * B5 + Slack(J)
      BY <1>0, <3>2, <3>3
    <3> QED BY <1>0, <2>1, <2>3, <3>3, <3>4, <3>5
  <2> QED BY <2>2, <2>3
<1>8. CASE Writes5
  <2>1. /\ now' = now /\ faults' = faults /\ t \in Kept /\ due'["roll5"] = due["roll5"] /\ job'["roll5"] = Idle
        /\ five' = five \cup {b \in Pend5 : \A a \in five : a.start # b.start}
    BY <1>2, <1>8 DEF Writes5, Same, InsertOrIgnore
  <2>2. ~Covered(t) /\ ~Awaited(t)
    BY <1>2, <2>1 DEF Covered, Awaited, Win
  <2> QED BY <1>3, <1>d, <2>1, <2>2
<1>9. CASE ReadsH \/ WritesH
  BY <1>2, <1>3, <1>9, <1>d DEF ReadsH, WritesH, Same
<1>10. CASE Prunes
  <2>1. t \in Kept /\ ~Covered(t)
    BY <1>2, <1>10, PruneKeeps DEF Prunes
  <2> QED BY <1>3, <1>10, <1>d, <2>1 DEF Prunes
<1>11. QED
  BY <1>4, <1>5, <1>6, <1>7, <1>8, <1>9, <1>10 DEF Kinds

\* Under Timing, an insert in flight and a snapshot without a bucket are younger
\* than every age limit.
LEMMA TimingBounds ==
    ASSUME NEW J, Timing(J), TypeInv, TypeInv', OrderInv, TimeInv(J)
    PROVE  /\ \A t \in Kept : ~Covered(t) => now <= Win(t) + RawRetain /\ now < Win(t) + DAY
           /\ Flying => now + B5 <= Stamp + 1 + RawRetain /\ now < Win(Stamp) + DAY
<1>1. /\ Late(J) <= RawRetain /\ Late(J) < DAY /\ {B5, RawRetain, DAY} \subseteq Nat \ {0} /\ now \in Nat
      /\ (\A t \in Kept : t \in Nat) /\ (Flying => Stamp \in Nat)
  BY SpanAssumption, Naturals5 DEF Timing
<1>2. Slack(J) \in Nat /\ 2 * B5 + Slack(J) <= Late(J) /\ Late(J) \in Nat
  BY SlackFacts DEF Timing, Away
<1>3. ASSUME NEW t \in Kept, ~Covered(t) PROVE now <= Win(t) + RawRetain /\ now < Win(t) + DAY
  <2>1. now <= Win(t) + 2 * B5 + Slack(J)
    BY <1>3 DEF TimeInv, Deadline
  <2>2. Win(t) \in Nat
    BY <1>1, <1>3, WinFacts
  <2> QED BY <1>1, <1>2, <2>1, <2>2
<1>4. ASSUME Flying PROVE now + B5 <= Stamp + 1 + RawRetain /\ now < Win(Stamp) + DAY
  <2>1. now <= Stamp + 1 + Slack(J)
    BY <1>4 DEF TimeInv
  <2>2. Win(Stamp) \in Nat /\ Stamp < Win(Stamp) + B5
    BY <1>1, <1>4, WinFacts
  <2> QED BY <1>1, <1>2, <1>4, <2>1, <2>2
<1>5. QED
  BY <1>3, <1>4

-----------------------------------------------------------------------------
(* What the 5-minute buckets hold *)

Retired(t) == Win(t) < now - B5Retain /\ \A u \in Kept : u >= Win(t) + B5
Counts(b) == \A t \in taken \ late : Win(t) = b.start => t \in b.of

\* Buckets hold what was inserted in time; every snapshot is raw, in the window
\* of a bucket, or past the retention of the buckets; a rollup under way is of
\* windows that roll_hourly does not look at yet.
FiveInv ==
    /\ \A b \in five \cup Pend5 : Counts(b)
    /\ \A t \in taken : t \in Kept \/ Covered(t) \/ Retired(t)
    /\ \A b \in Pend5 : now < b.start + DAY

\* What the 5-minute job groups are whole windows: no snapshot of theirs has
\* been pruned, and none in time is to come.
LEMMA GroupsWhole ==
    ASSUME NEW J, Timing(J), TypeInv, TypeInv', OrderInv, TimeInv(J), FiveInv, NEW b \in Grouped(Rows5, B5)
    PROVE  Counts(b) /\ now < b.start + DAY
<1>1. PICK t \in Rows5 : b.start = Win(t) /\ b.of = {u \in Rows5 : Win(u) = Win(t)}
  BY GroupFacts
<1>2. t \in Kept /\ t \in Nat /\ ~Covered(t)
  BY ReadFacts, Naturals5
<1>3. Win(t) \in Nat /\ t < Win(t) + B5 /\ B5 \in Nat
  BY <1>2, WinFacts, SpanAssumption
<1>4. ASSUME NEW u \in taken, Win(u) = Win(t) PROVE u \in b.of
  <2>1. ~Covered(u)
    BY <1>2, <1>4 DEF Covered
  <2>2. ~Retired(u)
    BY <1>2, <1>3, <1>4 DEF Retired
  <2>3. u \in Kept
    BY <2>1, <2>2 DEF FiveInv
  <2>4. u \in Rows5
    BY <1>4, <2>3, ReadFacts
  <2> QED BY <1>1, <1>4, <2>4
<1>5. now < b.start + DAY
  BY <1>1, <1>2, TimingBounds
<1>6. QED
  BY <1>1, <1>4, <1>5 DEF Counts

\* Every step keeps the buckets whole and every snapshot accounted for.
LEMMA NextKeepsFive ==
    ASSUME NEW J, Timing(J), TypeInv, TypeInv', OrderInv, TimeInv(J), FiveInv, Kinds(J)
    PROVE  FiveInv'
<1>0. /\ now \in Nat /\ now' \in Nat /\ {B5, RawRetain, B5Retain} \subseteq Nat \ {0}
      /\ RawRetain + B5 <= B5Retain /\ Floor(now, B5) \in Nat
      /\ (\A t \in Kept : t \in Nat /\ t <= now) /\ (\A t \in taken : t \in Nat /\ t <= now)
      /\ (\A b \in five \cup Pend5 : b.start \in Nat)
  <2>1. now' \in Nat
    BY DEF TypeInv, TypeOK
  <2>2. {B5, RawRetain, B5Retain} \subseteq Nat \ {0} /\ RawRetain + B5 <= B5Retain
    BY SpanAssumption DEF Timing
  <2> QED BY <2>1, <2>2, Naturals5
<1>a. /\ \A b \in five \cup Pend5 : Counts(b)
      /\ \A t \in taken : t \in Kept \/ Covered(t) \/ Retired(t)
      /\ \A b \in Pend5 : now < b.start + DAY
  BY DEF FiveInv
<1>b. (job'["roll5"] = Idle => Pend5' = {}) /\ (job'["roll5"] = job["roll5"] => Pend5' = Pend5)
  BY DEF Pend5
<1>c. \A t : (five' = five => (Covered(t)' <=> Covered(t)))
  BY DEF Covered, Win
<1>d. \A t : (now' = now /\ Kept' = Kept => (Retired(t)' <=> Retired(t)))
  BY DEF Retired, Win
<1>e. \A b : (taken' = taken /\ late' = late => (Counts(b)' <=> Counts(b)))
  BY DEF Counts, Win
<1>1. CASE Waits(J)
  <2>1. /\ five' = five /\ taken' = taken /\ late' = late /\ Kept' = Kept /\ now <= now' /\ job'["roll5"] = Idle
    BY <1>1 DEF Waits, Same
  <2>2. ASSUME NEW t \in taken, Retired(t) PROVE Retired(t)'
    <3>1. Win(t) \in Nat
      BY <1>0, <2>2, WinFacts
    <3>2. Win(t) < now - B5Retain /\ \A u \in Kept : u >= Win(t) + B5
      BY <2>2 DEF Retired
    <3>3. Win(t) < now' - B5Retain
      BY <1>0, <2>1, <3>1, <3>2
    <3> QED BY <2>1, <3>2, <3>3 DEF Retired, Win
  <2> QED BY <1>a, <1>b, <1>c, <1>e, <2>1, <2>2 DEF FiveInv
<1>2. CASE Rests \/ ReadsH \/ WritesH
  <2>1. /\ now' = now /\ five' = five /\ taken' = taken /\ late' = late /\ Kept' = Kept
        /\ job'["roll5"] = job["roll5"] \/ job'["roll5"] = Idle
    BY <1>2 DEF Rests, ReadsH, WritesH, Same
  <2>2. Pend5' = Pend5 \/ Pend5' = {}
    BY <1>b, <2>1
  <2> QED BY <1>a, <1>c, <1>d, <1>e, <2>1, <2>2 DEF FiveInv
<1>3. CASE Takes
  <2>1. /\ now' = now /\ five' = five /\ taken' = taken \cup {Stamp} /\ Kept' = Kept \cup {Stamp} /\ Flying
        /\ late' = (IF Win(Stamp) < Floor(now, B5) THEN late \cup {Stamp} ELSE late)
        /\ Pend5' = Pend5
    BY <1>3, <1>b DEF Takes
  <2>2. Stamp \in Nat /\ Win(Stamp) \in Nat
    BY <2>1, Naturals5, WinFacts
  <2>3. ASSUME NEW b \in five \cup Pend5 PROVE Counts(b)'
    <3>1. b.start + B5 <= Floor(now, B5) /\ b.start \in Nat
      BY <1>0, <2>3 DEF OrderInv, Proper
    <3>2. Stamp \in late' \/ Win(Stamp) # b.start
      BY <1>0, <2>1, <2>2, <3>1
    <3>3. late \subseteq late'
      BY <2>1
    <3> QED BY <1>a, <2>1, <2>3, <3>2, <3>3 DEF Counts, Win
  <2>4. ASSUME NEW t \in taken, Retired(t) PROVE Retired(t)'
    <3>1. Win(t) \in Nat
      BY <1>0, <2>4, WinFacts
    <3>2. Win(t) < now - B5Retain /\ \A u \in Kept : u >= Win(t) + B5
      BY <2>4 DEF Retired
    <3>3. now + B5 <= Stamp + 1 + RawRetain
      BY <2>1, TimingBounds
    <3>4. Stamp >= Win(t) + B5
      BY <1>0, <2>2, <3>1, <3>2, <3>3
    <3> QED BY <2>1, <3>2, <3>4 DEF Retired, Win
  <2> QED BY <1>a, <1>c, <2>1, <2>3, <2>4 DEF FiveInv
<1>4. CASE Reads5
  <2>1. now' = now /\ five' = five /\ taken' = taken /\ late' = late /\ Kept' = Kept
    BY <1>4 DEF Reads5, Same
  <2>2. Pend5' = {} \/ Pend5' = Grouped(Rows5, B5)
    BY <1>4 DEF Reads5, Pend5
  <2>3. \A b \in Pend5' : Counts(b)' /\ now' < b.start + DAY
    BY <1>e, <2>1, <2>2, GroupsWhole
  <2> QED BY <1>a, <1>c, <1>d, <1>e, <2>1, <2>3 DEF FiveInv
<1>5. CASE Writes5
  <2>1. /\ now' = now /\ taken' = taken /\ late' = late /\ Kept' = Kept /\ Pend5' = {}
        /\ five' = five \cup {b \in Pend5 : \A a \in five : a.start # b.start}
    BY <1>5, <1>b DEF Writes5, Same, InsertOrIgnore
  <2>2. \A b \in five' : Counts(b)'
    BY <1>a, <1>e, <2>1
  <2>3. \A t : Covered(t) => Covered(t)'
    BY <2>1 DEF Covered, Win
  <2> QED BY <1>a, <1>d, <2>1, <2>2, <2>3 DEF FiveInv
<1>6. CASE Prunes
  <2>1. /\ now' = now /\ taken' = taken /\ late' = late /\ five' \subseteq five /\ Pend5' = Pend5
        /\ Kept' = {t \in Kept : t >= now - RawRetain}
    BY <1>6, <1>b DEF Prunes
  <2>2. \A t \in taken : Covered(t) => Covered(t)' \/ Retired(t)'
    BY <1>0, <1>6, <2>1, PruneKeeps DEF Retired, Win
  <2>3. ASSUME NEW t \in Kept, t \notin Kept' PROVE Covered(t)
    <3>1. t \in Nat /\ Win(t) \in Nat /\ Win(t) <= t /\ t < now - RawRetain
      BY <1>0, <2>1, <2>3, WinFacts
    <3> QED BY <1>0, <3>1, TimingBounds
  <2>4. \A t : Retired(t) => Retired(t)'
    BY <2>1 DEF Retired, Win
  <2>5. \A t \in taken' : t \in Kept' \/ Covered(t)' \/ Retired(t)'
    BY <1>a, <2>1, <2>2, <2>3, <2>4
  <2> QED BY <1>a, <1>e, <2>1, <2>5 DEF FiveInv
<1>7. QED
  BY <1>1, <1>2, <1>3, <1>4, <1>5, <1>6 DEF Kinds

-----------------------------------------------------------------------------
(* The hour buckets *)

Hours == {h.start : h \in hourly}

\* The snapshot is of that hour, and its window is a day old at that time.
DayOldAt(t, start, at) == Floor(t, HOUR) = start /\ Win(t) <= at - DAY
HourOK(of, start, at) ==
    /\ \A t \in of : t \in taken /\ DayOldAt(t, start, at)
    /\ \A t \in taken \ late : DayOldAt(t, start, at) => t \in of

\* What has neither snapshot nor 5-minute bucket any more has its hour; and the
\* hourly job, between its steps, holds the hours of all that it lets prune take.
HourInv ==
    /\ \A h \in hourly : HourOK(h.of, h.start, h.made) /\ h.made \in Nat /\ h.made <= now
    /\ \A t \in taken : t \notin Kept /\ ~Covered(t) => Floor(t, HOUR) \in Hours
    /\ job["hourly"].pc = "write" =>
         /\ \A b \in DayOld : \E p \in job["hourly"].buckets : p.start = Floor(b.start, HOUR)
         /\ \A p \in job["hourly"].buckets : p.start \notin Hours => HourOK(p.of, p.start, now)
    /\ job["hourly"].pc = "prune" => \A b \in DayOld : Floor(b.start, HOUR) \in Hours

\* An hour merged for the first time has what is a day old of it: what has no
\* bucket is younger, and nothing of it was pruned.
LEMMA MergedWhole ==
    ASSUME NEW J, Timing(J), TypeInv, TypeInv', OrderInv, TimeInv(J), FiveInv, HourInv,
           NEW p \in Merged(DayOld, HOUR), p.start \notin Hours
    PROVE  HourOK(p.of, p.start, now)
<1> DEFINE mine == {b \in DayOld : Floor(b.start, HOUR) = p.start}
<1>1. p.of = UNION {b.of : b \in mine}
  BY DEF Merged
<1>2. /\ now \in Nat /\ (\A t \in taken : t \in Nat) /\ DAY \in Nat
      /\ \A b \in five : b.start \in Nat /\ Proper(b) /\ Counts(b)
  BY Naturals5, SpanAssumption DEF FiveInv, OrderInv
<1>3. DayOld = {b \in five : b.start <= now - DAY}
  BY DEF DayOld
<1>4. \A t \in taken : Floor(Win(t), HOUR) = Floor(t, HOUR) /\ Win(t) \in Nat
  BY <1>2, FloorNest, WinFacts DEF Win
<1>5. ASSUME NEW t \in p.of PROVE t \in taken /\ DayOldAt(t, p.start, now)
  <2>1. PICK b \in mine : t \in b.of
    BY <1>1
  <2>2. t \in taken /\ Win(t) = b.start
    BY <1>2, <1>3, <2>1 DEF Proper
  <2> QED BY <1>3, <1>4, <2>1, <2>2 DEF DayOldAt
<1>6. ASSUME NEW t \in taken \ late, DayOldAt(t, p.start, now) PROVE t \in p.of
  <2>1. Floor(t, HOUR) = p.start /\ Win(t) <= now - DAY /\ Win(t) \in Nat
    BY <1>4, <1>6 DEF DayOldAt
  <2>2. Covered(t)
    <3> SUFFICES ASSUME ~Covered(t) PROVE FALSE
      OBVIOUS
    <3>1. t \in Kept
      BY <2>1 DEF HourInv
    <3>2. now < Win(t) + DAY
      BY <3>1, TimingBounds
    <3> QED BY <1>2, <2>1, <3>2
  <2>3. PICK b \in five : b.start = Win(t)
    BY <2>2 DEF Covered
  <2>4. b \in mine
    BY <1>3, <1>4, <2>1, <2>3
  <2>5. t \in b.of
    BY <1>2, <2>3 DEF Counts
  <2> QED BY <1>1, <2>4, <2>5
<1>7. QED
  BY <1>5, <1>6 DEF HourOK

\* Every step keeps the hours.
LEMMA NextKeepsHours ==
    ASSUME NEW J, Timing(J), TypeInv, TypeInv', OrderInv, TimeInv(J), FiveInv, HourInv, Kinds(J)
    PROVE  HourInv'
<1>0. /\ now \in Nat /\ now' \in Nat /\ DAY \in Nat /\ B5Retain \in Nat /\ DAY <= B5Retain
      /\ RawRetain + B5 <= B5Retain
      /\ (\A t \in taken : t \in Nat /\ t <= now) /\ (\A b \in five \cup Pend5 : b.start \in Nat)
  <2>1. now' \in Nat
    BY DEF TypeInv, TypeOK
  <2>2. DAY \in Nat /\ B5Retain \in Nat /\ DAY <= B5Retain /\ RawRetain + B5 <= B5Retain
    BY SpanAssumption DEF Timing
  <2> QED BY <2>1, <2>2, Naturals5
<1>a. /\ \A h \in hourly : HourOK(h.of, h.start, h.made) /\ h.made \in Nat /\ h.made <= now
      /\ \A t \in taken : t \notin Kept /\ ~Covered(t) => Floor(t, HOUR) \in Hours
      /\ job["hourly"].pc = "write" =>
           /\ \A b \in DayOld : \E p \in job["hourly"].buckets : p.start = Floor(b.start, HOUR)
           /\ \A p \in job["hourly"].buckets : p.start \notin Hours => HourOK(p.of, p.start, now)
      /\ job["hourly"].pc = "prune" => \A b \in DayOld : Floor(b.start, HOUR) \in Hours
  BY DEF HourInv
<1>b. /\ \A t : (five' = five => (Covered(t)' <=> Covered(t)))
      /\ (hourly' = hourly => Hours' = Hours)
      /\ (five' = five /\ now' = now => DayOld' = DayOld)
  BY DEF Covered, Win, Hours, DayOld
<1>c. ASSUME taken' = taken, late' = late, NEW x, NEW y, NEW z
      PROVE  HourOK(x, y, z)' <=> HourOK(x, y, z)
  BY <1>c DEF HourOK, DayOldAt, Win
<1>d. Idle.pc # "write" /\ Idle.pc # "prune"
  BY DEF Idle
<1>1. CASE Waits(J)
  <2>1. /\ five' = five /\ taken' = taken /\ late' = late /\ Kept' = Kept /\ now <= now' /\ hourly' = hourly
        /\ job'["hourly"] = Idle
    BY <1>1 DEF Waits, Same
  <2>2. \A h \in hourly' : HourOK(h.of, h.start, h.made)' /\ h.made \in Nat /\ h.made <= now'
    BY <1>0, <1>a, <1>c, <2>1
  <2> QED BY <1>a, <1>b, <1>d, <2>1, <2>2 DEF HourInv
<1>2. CASE Rests \/ Reads5
  <2>1. /\ five' = five /\ taken' = taken /\ late' = late /\ Kept' = Kept /\ now' = now /\ hourly' = hourly
        /\ job'["hourly"] = job["hourly"] \/ job'["hourly"] = Idle
    BY <1>2 DEF Rests, Reads5, Same
  <2>2. \A h \in hourly' : HourOK(h.of, h.start, h.made)' /\ h.made \in Nat /\ h.made <= now'
    BY <1>a, <1>c, <2>1
  <2>3. CASE job'["hourly"] = job["hourly"]
    <3>1. ASSUME job["hourly"].pc = "write", NEW p \in job["hourly"].buckets, p.start \notin Hours
          PROVE  HourOK(p.of, p.start, now)'
      BY <1>a, <2>1, <3>1 DEF HourOK, DayOldAt, Win
    <3> QED BY <1>a, <1>b, <2>1, <2>2, <2>3, <3>1 DEF HourInv
  <2>4. CASE job'["hourly"] = Idle
    BY <1>a, <1>b, <1>d, <2>1, <2>2, <2>4 DEF HourInv
  <2> QED BY <2>1, <2>3, <2>4
<1>3. CASE Takes
  <2>1. /\ five' = five /\ taken' = taken \cup {Stamp} /\ Kept' = Kept \cup {Stamp} /\ now' = now
        /\ late \subseteq late' /\ hourly' = hourly /\ job'["hourly"] = job["hourly"] /\ Flying
    BY <1>3 DEF Takes
  <2>2. now < Win(Stamp) + DAY /\ Win(Stamp) \in Nat
    BY <2>1, TimingBounds, Naturals5, WinFacts
  <2>3. ASSUME NEW of, NEW start, NEW at \in Nat, at <= now, HourOK(of, start, at)
        PROVE  HourOK(of, start, at)'
    <3>1. ~DayOldAt(Stamp, start, at)
      BY <1>0, <2>2, <2>3 DEF DayOldAt
    <3> QED BY <2>1, <2>3, <3>1 DEF HourOK, DayOldAt, Win
  <2>4. \A h \in hourly' : HourOK(h.of, h.start, h.made)' /\ h.made \in Nat /\ h.made <= now'
    BY <1>a, <2>1, <2>3
  <2>5. ASSUME job["hourly"].pc = "write", NEW p \in job["hourly"].buckets, p.start \notin Hours
        PROVE  HourOK(p.of, p.start, now)'
    <3>1. ~DayOldAt(Stamp, p.start, now)
      BY <1>0, <2>2 DEF DayOldAt
    <3>2. HourOK(p.of, p.start, now)
      BY <1>a, <2>5
    <3> QED BY <2>1, <3>1, <3>2 DEF HourOK, DayOldAt, Win
  <2>6. Hours' = Hours /\ DayOld' = DayOld /\ \A t : Covered(t)' <=> Covered(t)
    BY <1>b, <2>1
  <2>7. \A t \in taken' : t \notin Kept' /\ ~Covered(t)' => Floor(t, HOUR) \in Hours'
    BY <1>a, <2>1, <2>6
  <2> QED BY <1>a, <2>1, <2>4, <2>5, <2>6, <2>7 DEF HourInv
<1>4. CASE Writes5
  <2>1. /\ taken' = taken /\ late' = late /\ Kept' = Kept /\ now' = now /\ hourly' = hourly
        /\ job'["hourly"] = job["hourly"]
        /\ five' = five \cup {b \in Pend5 : \A a \in five : a.start # b.start}
    BY <1>4 DEF Writes5, Same, InsertOrIgnore
  <2>2. \A b \in Pend5 : ~(b.start <= now - DAY)
    BY <1>0 DEF FiveInv
  <2>3. DayOld' = DayOld
    BY <2>1, <2>2 DEF DayOld
  <2>4. \A t : Covered(t) => Covered(t)'
    BY <2>1 DEF Covered, Win
  <2>5. \A h \in hourly' : HourOK(h.of, h.start, h.made)' /\ h.made \in Nat /\ h.made <= now'
    BY <1>a, <1>c, <2>1
  <2>6. ASSUME job["hourly"].pc = "write", NEW p \in job["hourly"].buckets, p.start \notin Hours
        PROVE  HourOK(p.of, p.start, now)'
    BY <1>a, <2>1, <2>6 DEF HourOK, DayOldAt, Win
  <2>7. Hours' = Hours
    BY <1>b, <2>1
  <2> QED BY <1>a, <2>1, <2>3, <2>4, <2>5, <2>6, <2>7 DEF HourInv
<1>5. CASE ReadsH
  <2>1. /\ five' = five /\ taken' = taken /\ late' = late /\ Kept' = Kept /\ now' = now /\ hourly' = hourly
        /\ job'["hourly"].pc = "write" /\ job'["hourly"].buckets = Merged(DayOld, HOUR)
    BY <1>5 DEF ReadsH, Same
  <2>2. \A b \in DayOld : \E p \in Merged(DayOld, HOUR) : p.start = Floor(b.start, HOUR)
    <3> TAKE b \in DayOld
    <3> DEFINE w == Floor(b.start, HOUR)
               p == [start |-> w, of |-> UNION {a.of : a \in {c \in DayOld : Floor(c.start, HOUR) = w}}]
    <3>1. p \in Merged(DayOld, HOUR) /\ p.start = w
      BY DEF Merged
    <3> QED BY <3>1
  <2>3. \A h \in hourly' : HourOK(h.of, h.start, h.made)' /\ h.made \in Nat /\ h.made <= now'
    BY <1>a, <1>c, <2>1
  <2>4. Hours' = Hours /\ DayOld' = DayOld
    BY <1>b, <2>1
  <2>5. ASSUME NEW p \in Merged(DayOld, HOUR), p.start \notin Hours PROVE HourOK(p.of, p.start, now)'
    <3>1. HourOK(p.of, p.start, now)
      BY <2>5, MergedWhole
    <3> QED BY <2>1, <3>1 DEF HourOK, DayOldAt, Win
  <2> QED BY <1>a, <1>b, <2>1, <2>2, <2>3, <2>4, <2>5 DEF HourInv
<1>6. CASE WritesH
  <2> DEFINE Row(b) == [start |-> b.start, of |-> b.of, made |-> now]
             new == {Row(b) : b \in job["hourly"].buckets}
  <2>1. /\ five' = five /\ taken' = taken /\ late' = late /\ Kept' = Kept /\ now' = now
        /\ job["hourly"].pc = "write" /\ job'["hourly"].pc = "prune"
        /\ hourly' = hourly \cup {h \in new : \A a \in hourly : a.start # h.start}
    BY <1>6 DEF WritesH, Same, InsertOrIgnore
  <2>2. \A b : Row(b).start = b.start /\ Row(b).of = b.of /\ Row(b).made = now
    OBVIOUS
  <2> HIDE DEF Row
  <2>3. Hours \subseteq Hours' /\ \A b \in job["hourly"].buckets : b.start \in Hours'
    <3>1. \A b \in job["hourly"].buckets : Row(b) \in new
      OBVIOUS
    <3> QED BY <2>1, <2>2, <3>1 DEF Hours
  <2>4. \A h \in hourly' : \/ h \in hourly
                           \/ \E b \in job["hourly"].buckets :
                                h.start = b.start /\ h.of = b.of /\ h.made = now /\ b.start \notin Hours
    BY <2>1, <2>2 DEF Hours
  <2> HIDE DEF new
  <2>5. \A h \in hourly' : HourOK(h.of, h.start, h.made)' /\ h.made \in Nat /\ h.made <= now'
    <3>1. \A h \in hourly' : HourOK(h.of, h.start, h.made) /\ h.made \in Nat /\ h.made <= now
      BY <1>0, <1>a, <2>1, <2>4
    <3> QED BY <1>c, <2>1, <3>1
  <2>6. \A b \in DayOld : Floor(b.start, HOUR) \in Hours'
    BY <1>a, <2>1, <2>3
  <2>7. DayOld' = DayOld /\ \A t : Covered(t)' <=> Covered(t)
    BY <1>b, <2>1
  <2> QED BY <1>a, <2>1, <2>3, <2>5, <2>6, <2>7 DEF HourInv
<1>7. CASE Prunes
  <2>1. /\ taken' = taken /\ late' = late /\ now' = now /\ hourly' = hourly /\ job'["hourly"] = Idle
        /\ Kept' = {t \in Kept : t >= now - RawRetain}
        /\ five' = {b \in five : b.start >= now - B5Retain} /\ job["hourly"].pc = "prune"
    BY <1>7 DEF Prunes
  <2>2. Hours' = Hours
    BY <1>b, <2>1
  <2>3. ASSUME NEW t \in taken, t \notin Kept', ~Covered(t)' PROVE Floor(t, HOUR) \in Hours
    <3>1. t \in Nat /\ Win(t) \in Nat /\ Win(t) <= t
      BY <1>0, <2>3, WinFacts
    <3>2. CASE Covered(t)
      <4>1. PICK b \in five : b.start = Win(t)
        BY <3>2 DEF Covered
      <4>2. b \notin five'
        BY <2>3, <4>1 DEF Covered, Win
      <4>3. b \in DayOld
        BY <1>0, <2>1, <3>1, <4>1, <4>2 DEF DayOld
      <4>4. Floor(b.start, HOUR) \in Hours
        BY <1>a, <2>1, <4>3
      <4> QED BY <3>1, <4>1, <4>4, FloorNest DEF Win
    <3>3. CASE ~Covered(t)
      <4>1. ASSUME t \in Kept PROVE FALSE
        <5>1. now <= Win(t) + RawRetain /\ ~(t >= now - RawRetain)
          BY <2>1, <2>3, <3>3, <4>1, TimingBounds
        <5>2. RawRetain \in Nat
          BY SpanAssumption
        <5> QED BY <1>0, <3>1, <5>1, <5>2
      <4> QED BY <1>a, <2>3, <3>3, <4>1
    <3> QED BY <3>2, <3>3
  <2>4. \A h \in hourly' : HourOK(h.of, h.start, h.made)' /\ h.made \in Nat /\ h.made <= now'
    BY <1>a, <1>c, <2>1
  <2> QED BY <1>a, <1>d, <2>1, <2>2, <2>3, <2>4 DEF HourInv
<1>8. QED
  BY <1>1, <1>2, <1>3, <1>4, <1>5, <1>6, <1>7 DEF Kinds

-----------------------------------------------------------------------------
(* The theorems about the rollups *)

\* The part that does not depend on how long rows are kept.
DelayInv(J) == TypeInv /\ CycleInv /\ OrderInv /\ TimeInv(J)
StoreInv(J) == DelayInv(J) /\ FiveInv /\ HourInv

\* The delay of the rollups is bounded in the initial states ...
LEMMA InitDelay ==
    ASSUME NEW J, Init
    PROVE  DelayInv(J)
<1>1. TypeInv /\ CycleInv
  BY InitTypes, InitCycles
<1>2. Kept = {} /\ taken = {} /\ five = {}
  BY DEF Init, Kept
<1>3. Pend5 = {} /\ ~Flying
  BY DEF Init, Pend5, Jobs, Flying
<1>4. due["roll5"] = now + B5
  BY SpanAssumption DEF Init, Period, Jobs
<1>5. TimeInv(J)
  BY <1>2, <1>3, <1>4, SpanAssumption DEF TimeInv, Init
<1>6. OrderInv
  BY <1>2, <1>3 DEF OrderInv
<1>7. QED
  BY <1>1, <1>5, <1>6 DEF DelayInv

\* ... and by every step.
LEMMA NextDelay ==
    ASSUME NEW J, Away(J), RawRetain + B5 <= B5Retain, DelayInv(J), [StoreNext]_svars
    PROVE  DelayInv(J)' /\ Kinds(J)
<1>1. TypeInv /\ CycleInv /\ OrderInv /\ TimeInv(J)
  BY DEF DelayInv
<1>2. TypeInv' /\ CycleInv'
  BY <1>1, NextKeepsTypes, NextKeepsCycles
<1>3. due["roll5"] <= now + B5
  BY <1>1 DEF TimeInv
<1>4. Kinds(J) /\ due'["roll5"] <= now' + B5
  BY <1>1, <1>3, StepKinds
<1>5. OrderInv'
  BY <1>1, <1>2, <1>4, NextKeepsOrder
<1>6. TimeInv(J)'
  BY <1>1, <1>2, <1>4, NextKeepsTime
<1>7. QED
  BY <1>2, <1>4, <1>5, <1>6 DEF DelayInv

\* The inductive invariant of the rollups holds in every reachable state.
LEMMA StoreInvariant ==
    ASSUME NEW J, Timing(J)
    PROVE  Spec => []StoreInv(J)
<1>1. Init => StoreInv(J)
  <2> SUFFICES ASSUME Init PROVE StoreInv(J)
    OBVIOUS
  <2>1. taken = {} /\ five = {} /\ hourly = {} /\ DayOld = {}
    BY DEF Init, DayOld
  <2>2. Pend5 = {} /\ job["hourly"].pc = "idle"
    BY DEF Init, Pend5, Jobs, Idle
  <2>3. FiveInv /\ HourInv
    BY <2>1, <2>2 DEF FiveInv, HourInv
  <2> QED BY <2>3, InitDelay DEF StoreInv
<1>2. StoreInv(J) /\ [StoreNext]_svars => StoreInv(J)'
  <2> SUFFICES ASSUME StoreInv(J), [StoreNext]_svars PROVE StoreInv(J)'
    OBVIOUS
  <2>1. Away(J) /\ RawRetain + B5 <= B5Retain
    BY DEF Timing, Away
  <2>2. DelayInv(J)' /\ Kinds(J)
    BY <2>1, NextDelay DEF StoreInv
  <2>3. TypeInv /\ TypeInv' /\ OrderInv /\ TimeInv(J) /\ FiveInv /\ HourInv
    BY <2>2 DEF StoreInv, DelayInv
  <2>4. FiveInv' /\ HourInv'
    BY <2>2, <2>3, NextKeepsFive, NextKeepsHours
  <2> QED BY <2>2, <2>4 DEF StoreInv
<1>3. QED
  BY <1>1, <1>2, PTL DEF Spec

\* A 5-minute bucket counts every snapshot of its window that came in before the
\* window ended, under every order of the stats, rollup and prune jobs and every
\* failure, sleep and restart, also when an insert overtakes the end of a window.
THEOREM FiveCorrect ==
    ASSUME NEW J, Timing(J)
    PROVE  Spec => []FiveExact
<1>1. StoreInv(J) => FiveExact
  BY DEF StoreInv, DelayInv, OrderInv, FiveInv, FiveExact, Proper, Counts, Win
<1>2. QED
  BY <1>1, StoreInvariant, PTL

\* prune never takes a snapshot before roll_up_5min has passed its window,
\* however late failures and sleeps make that job within Timing.
THEOREM NothingIsLost ==
    ASSUME NEW J, Timing(J)
    PROVE  Spec => []NothingLost
<1>1. ASSUME StoreInv(J) PROVE NothingLost
  <2>1. \A t \in taken : t \in Kept \/ Covered(t) \/ Retired(t)
    BY <1>1 DEF StoreInv, FiveInv
  <2> QED BY <2>1 DEF NothingLost, Kept, Covered, Retired, Win
<1>2. QED
  BY <1>1, StoreInvariant, PTL

\* Every hour bucket, also one that the age limit cuts, has what was a day old
\* of its hour when roll_hourly first saw it, and nothing else.
THEOREM HoursCorrect ==
    ASSUME NEW J, Timing(J)
    PROVE  Spec => []HourExact
<1>1. StoreInv(J) => HourExact
  BY DEF StoreInv, HourInv, HourExact, HourOK, DayOldAt, Win
<1>2. QED
  BY <1>1, StoreInvariant, PTL
=============================================================================
