-------------------------- MODULE DashboardProofs --------------------------
(***************************************************************************)
(* What the dashboard shows, for every set of peers, every threshold,      *)
(* span and limit, and whatever disturbs the monitor: the hourly buckets   *)
(* add up to the uptime, the incidents are the newest outages, and a page  *)
(* explains the downtime it shows although the monitor goes on while the   *)
(* page is built.                                                          *)
(***************************************************************************)
EXTENDS Dashboard, PeerMonitorProofs

\* Every non-empty set of naturals has a least element.
LEMMA LeastNatural ==
    ASSUME NEW S \in SUBSET Nat, S # {}
    PROVE  \E n \in S : \A m \in S : n <= m
<1> DEFINE R == OpToRel(<, Nat)
<1>1. IsWellFoundedOn(R, Nat)
  BY NatLessThanWellFounded
<1>2. PICK n \in S : \A m \in S : ~(<<m, n>> \in R)
  <2> HIDE DEF R
  <2> QED BY <1>1, WFMin
<1>3. ASSUME NEW x \in Nat, NEW y \in Nat, ~(<<y, x>> \in R) PROVE x <= y
  BY <1>3 DEF OpToRel
<1>4. QED
  <2> HIDE DEF R
  <2> QED BY <1>2, <1>3

-----------------------------------------------------------------------------
(* Dates *)

\* What a step may do to the history of a peer and to the start of its probe.
LEMMA HistoryStep ==
    ASSUME BaseInv, [Next]_vars, NEW p \in Peer
    PROVE  \/ /\ hist'[p] = hist[p]
              /\ \/ probe'[p].st = "idle"
                 \/ probe[p].st # "idle" /\ probe'[p].at = probe[p].at
                 \/ probe'[p].at = now + 1
           \/ /\ hist'[p] = hist[p] \cup {[ts |-> now + 1, st |-> "ALIVE"]}
              /\ probe' = probe
           \/ /\ hist'[p] = hist[p] \cup {[ts |-> probe[p].at, st |-> probe[p].res]}
              /\ probe[p].st = "done" /\ probe'[p].st = "idle"
<1>0. NoProbe.st = "idle" /\ probe \in [Peer -> Probe] /\ hist \in [Peer -> SUBSET Row]
  BY DEF NoProbe, BaseInv, TypeOK, Probe
<1>1. CASE Tick \/ HistoryGC \/ UNCHANGED vars
  BY <1>0, <1>1 DEF Tick, HistoryGC, vars, engineVars, Probe
<1>2. CASE StartCycle
  <2> DEFINE started == [NoProbe EXCEPT !.st = "connecting", !.at = now']
  <2>1. started.at = now'
    BY DEF NoProbe
  <2>2. now' = now + 1 /\ hist' = hist
    BY <1>2 DEF StartCycle, Advance
  <2>3. probe' = [x \in Peer |-> IF x \in devs /\ ~in_maintenance(x, now')
                                THEN started ELSE NoProbe]
    BY <1>2 DEF StartCycle
  <2> HIDE DEF started
  <2>4. QED
    BY <1>0, <2>1, <2>2, <2>3
<1>3. CASE FinishCycle
  <2>1. probe'[p].st = "idle"
    BY <1>0, <1>3 DEF FinishCycle
  <2>2. \/ hist'[p] = hist[p]
        \/ /\ probe[p].st = "done"
           /\ hist'[p] = hist[p] \cup {[ts |-> probe[p].at, st |-> probe[p].res]}
    BY <1>0, <1>3 DEF FinishCycle
  <2>3. QED
    BY <2>1, <2>2
<1>4. CASE ApplyDevicesReload \/ CheckReload
  <2>1. /\ hist' = hist
        /\ \A x \in Peer : probe'[x].at = probe[x].at /\ probe'[x].st = probe[x].st
                            /\ probe'[x].res = probe[x].res
    BY <1>4, OrphanProbesTyped DEF ApplyDevicesReload, CheckReload, BaseInv
  <2>2. QED
    BY <1>0, <2>1
<1>5. CASE Restart
  BY <1>0, <1>5 DEF Restart
<1>6. ASSUME NEW x \in Peer, FinishProbe(x)
      PROVE  /\ hist' = hist /\ probe'[p].at = probe[p].at
             /\ probe[p].st = "idle" => probe'[p].st = "idle"
  <2>1. PICK res \in {"ALIVE", "DEAD"} : probe' = [probe EXCEPT ![x].st = "done", ![x].res = res]
    BY <1>6 DEF FinishProbe
  <2>2. probe[x].st = "connecting" /\ hist' = hist
    BY <1>6 DEF FinishProbe
  <2> DEFINE mid == [probe EXCEPT ![x].st = "done"]
  <2>3. mid \in [Peer -> Probe] /\ mid[p].at = probe[p].at /\ (p # x => mid[p] = probe[p])
    BY <1>0 DEF Probe
  <2>4. probe' = [mid EXCEPT ![x].res = res]
    BY <2>1
  <2> HIDE DEF mid
  <2>5. probe'[p].at = mid[p].at /\ (p # x => probe'[p] = mid[p])
    BY <2>3, <2>4 DEF Probe
  <2>6. QED
    BY <2>2, <2>3, <2>5
<1>7. ASSUME NEW x \in Peer, Push(x)
      PROVE  \/ hist'[p] = hist[p] /\ probe' = probe
             \/ /\ hist'[p] = hist[p] \cup {[ts |-> now + 1, st |-> "ALIVE"]}
                /\ probe' = probe
  <2>1. now' = now + 1 /\ probe' = probe
    BY <1>7 DEF Push, Advance
  <2>2. \/ hist' = [hist EXCEPT ![x] = @ \cup {[ts |-> now', st |-> "ALIVE"]}]
        \/ hist' = hist
    BY <1>7 DEF Push
  <2>3. QED
    BY <1>0, <2>1, <2>2
<1>8. ASSUME NEW x \in Peer,
             \/ WebhookDone(x) \/ PushWaits(x) \/ ChangeTrust(x) \/ ScheduleMaintenance(x)
             \/ ClearMaintenance(x)
      PROVE  hist' = hist /\ probe' = probe
  BY <1>8 DEF WebhookDone, PushWaits, ChangeTrust, ScheduleMaintenance, ClearMaintenance,
              engineVars
<1>9. QED
  BY <1>0, <1>1, <1>2, <1>3, <1>4, <1>5, <1>6, <1>7, <1>8 DEF Next

\* The rows of a peer have different dates, and none has the date of the probe
\* whose result is still to be written.
DatesInv ==
    \A p \in Peer : /\ \A r, q \in hist[p] : r.ts = q.ts => r = q
                    /\ probe[p].st # "idle" => \A r \in hist[p] : r.ts # probe[p].at

\* Every step preserves the dates.
LEMMA NextKeepsDates ==
    ASSUME BaseInv, DatesInv, [Next]_vars
    PROVE  DatesInv'
<1> SUFFICES ASSUME NEW p \in Peer
             PROVE  /\ \A r, q \in hist'[p] : r.ts = q.ts => r = q
                    /\ probe'[p].st # "idle" => \A r \in hist'[p] : r.ts # probe'[p].at
  BY DEF DatesInv
<1>1. /\ now \in Nat /\ probe[p].at <= now /\ probe[p].at \in Nat
      /\ \A r \in hist[p] : r.ts \in Nat /\ r.ts <= now
  BY DEF BaseInv, TypeOK, ProbeInv, Row
<1>2. /\ \A r, q \in hist[p] : r.ts = q.ts => r = q
      /\ probe[p].st # "idle" => \A r \in hist[p] : r.ts # probe[p].at
  BY DEF DatesInv
<1>3. CASE /\ hist'[p] = hist[p]
           /\ \/ probe'[p].st = "idle"
              \/ probe[p].st # "idle" /\ probe'[p].at = probe[p].at
              \/ probe'[p].at = now + 1
  BY <1>1, <1>2, <1>3
<1>4. CASE hist'[p] = hist[p] \cup {[ts |-> now + 1, st |-> "ALIVE"]} /\ probe' = probe
  <2> DEFINE new == [ts |-> now + 1, st |-> "ALIVE"]
  <2>1. new.ts = now + 1 /\ hist'[p] = hist[p] \cup {new}
    BY <1>4
  <2> HIDE DEF new
  <2>2. \A r \in hist[p] : r.ts # new.ts
    BY <1>1, <2>1
  <2>3. QED
    BY <1>1, <1>2, <1>4, <2>1, <2>2
<1>5. CASE /\ hist'[p] = hist[p] \cup {[ts |-> probe[p].at, st |-> probe[p].res]}
           /\ probe[p].st = "done" /\ probe'[p].st = "idle"
  <2> DEFINE new == [ts |-> probe[p].at, st |-> probe[p].res]
  <2>1. new.ts = probe[p].at /\ hist'[p] = hist[p] \cup {new}
    BY <1>5
  <2> HIDE DEF new
  <2>2. \A r \in hist[p] : r.ts # new.ts
    BY <1>2, <1>5, <2>1
  <2>3. QED
    BY <1>2, <1>5, <2>1, <2>2
<1>6. QED
  BY <1>3, <1>4, <1>5, HistoryStep

\* A step of the page leaves the monitor alone.
LEMMA ViewStep ==
    ASSUME [ViewNext]_<<vars, page>>
    PROVE  [Next]_vars
BY DEF ViewNext, Monitor, PageStart, PageBeats, PageIncidents, PageShown, PageSent

\* Pages only read: a behaviour with pages is a behaviour of the monitor, so
\* everything proved of the monitor holds while WebApp._build_peers runs.
THEOREM PagesOnlyRead == ViewSpec => Spec
<1>1. ViewInit => Init
  BY DEF ViewInit
<1>2. [ViewNext]_<<vars, page>> => [Next]_vars
  BY ViewStep
<1>3. QED
  BY <1>1, <1>2, PTL DEF ViewSpec, Spec

\* What a page is built on: typed, dated rows.
RowsInv == BaseInv /\ DatesInv

\* Dates stay distinct while pages are served.
LEMMA RowsAlways == ViewSpec => []RowsInv
<1>1. ViewInit => RowsInv
  <2> SUFFICES ASSUME ViewInit PROVE RowsInv
    OBVIOUS
  <2>1. BaseInv
    BY InitBase DEF ViewInit
  <2>2. \A p \in Peer : hist[p] = {}
    BY DEF ViewInit, Init
  <2>3. QED
    BY <2>1, <2>2 DEF RowsInv, DatesInv
<1>2. RowsInv /\ [ViewNext]_<<vars, page>> => RowsInv'
  BY ViewStep, NextKeepsBase, NextKeepsDates DEF RowsInv
<1>3. QED
  BY <1>1, <1>2, PTL DEF ViewSpec

-----------------------------------------------------------------------------
(* ORDER BY ts: the rows of a query, oldest first *)

\* A finite set of rows with different dates
Dated(rows) == /\ rows \subseteq Row /\ IsFiniteSet(rows)
               /\ \A r, q \in rows : r.ts = q.ts => r = q

\* s lists rows, oldest first
Ordered(s, rows) == /\ s \in Seq(Row)
                    /\ \A i \in 1..Len(s) : s[i] \in rows
                    /\ \A r \in rows : \E i \in 1..Len(s) : s[i] = r
                    /\ \A i, j \in 1..Len(s) : i < j => s[i].ts < s[j].ts

\* How many rows are older than r
Rank(rows, r) == Cardinality({q \in rows : q.ts < r.ts})

\* The rank of a row is less than the number of rows.
LEMMA RankBound ==
    ASSUME NEW rows, Dated(rows), NEW r \in rows
    PROVE  /\ Rank(rows, r) \in Nat /\ Cardinality(rows) \in Nat
           /\ Rank(rows, r) <= Cardinality(rows) - 1
<1> DEFINE older == {q \in rows : q.ts < r.ts}
<1>1. older \in SUBSET rows /\ IsFiniteSet(rows) /\ r \notin older
  BY DEF Dated, Row
<1>2. older # rows
  BY <1>1
<1> HIDE DEF older
<1>3. /\ IsFiniteSet(older) /\ Cardinality(older) <= Cardinality(rows)
      /\ Cardinality(rows) = Cardinality(older) => rows = older
  BY <1>1, FS_Subset
<1>4. Cardinality(older) \in Nat /\ Cardinality(rows) \in Nat
  BY <1>1, <1>3, FS_CardinalityType
<1>5. Rank(rows, r) = Cardinality(older)
  BY DEF Rank, older
<1>6. QED
  BY <1>2, <1>3, <1>4, <1>5

\* A newer row has a greater rank.
LEMMA RankMono ==
    ASSUME NEW rows, Dated(rows), NEW r \in rows, NEW q \in rows, r.ts < q.ts
    PROVE  Rank(rows, r) < Rank(rows, q)
<1> DEFINE before(x) == {y \in rows : y.ts < x.ts}
<1>1. before(q) \in SUBSET rows /\ IsFiniteSet(rows)
  BY DEF Dated
<1>2. before(r) \in SUBSET before(q) /\ r \in before(q) /\ r \notin before(r)
  BY DEF Dated, Row
<1>3. Rank(rows, r) = Cardinality(before(r)) /\ Rank(rows, q) = Cardinality(before(q))
  BY DEF Rank
<1>4. Rank(rows, r) \in Nat /\ Rank(rows, q) \in Nat
  BY RankBound
<1> HIDE DEF before
<1>5. IsFiniteSet(before(q))
  BY <1>1, FS_Subset
<1>6. /\ Cardinality(before(r)) <= Cardinality(before(q))
      /\ Cardinality(before(q)) = Cardinality(before(r)) => before(q) = before(r)
  BY <1>2, <1>5, FS_Subset
<1>7. QED
  BY <1>2, <1>3, <1>4, <1>6

\* Every position is the rank of a row.
LEMMA RankOnto ==
    ASSUME NEW rows, Dated(rows), NEW k \in 0..(Cardinality(rows) - 1)
    PROVE  \E r \in rows : Rank(rows, r) = k
<1> DEFINE n == Cardinality(rows)
           f == [r \in rows |-> Rank(rows, r)]
           T == 0..(n - 1)
<1>1. IsFiniteSet(rows) /\ n \in Nat
  BY FS_CardinalityType DEF Dated
<1>2. ASSUME NEW r \in rows PROVE Rank(rows, r) \in T
  BY <1>1, RankBound
<1>3. ASSUME NEW r \in rows, NEW q \in rows, Rank(rows, r) = Rank(rows, q) PROVE r = q
  <2>1. r.ts \in Nat /\ q.ts \in Nat /\ (r.ts = q.ts => r = q)
    BY DEF Dated, Row
  <2>2. Rank(rows, r) \in Nat /\ Rank(rows, q) \in Nat
    BY RankBound
  <2>3. ~(r.ts < q.ts)
    <3> SUFFICES ASSUME r.ts < q.ts PROVE FALSE
      OBVIOUS
    <3>1. Rank(rows, r) < Rank(rows, q)
      BY RankMono
    <3> QED BY <1>3, <2>2, <3>1
  <2>4. ~(q.ts < r.ts)
    <3> SUFFICES ASSUME q.ts < r.ts PROVE FALSE
      OBVIOUS
    <3>1. Rank(rows, q) < Rank(rows, r)
      BY RankMono
    <3> QED BY <1>3, <2>2, <3>1
  <2>5. QED
    BY <2>1, <2>3, <2>4
<1>4. f \in [rows -> T]
  BY <1>2
<1>5. \A a, b \in rows : f[a] = f[b] => a = b
  BY <1>3
<1>6. f \in Injection(rows, T)
  <2> HIDE DEF f, T
  <2> QED BY <1>4, <1>5 DEF Injection, IsInjective
<1>7. IsFiniteSet(T) /\ Cardinality(T) = n
  <2>1. 0 \in Int /\ n - 1 \in Int
    BY <1>1
  <2>2. IsFiniteSet(0..(n - 1)) /\ Cardinality(0..(n - 1)) = IF 0 > n - 1 THEN 0 ELSE n - 1 - 0 + 1
    BY <2>1, FS_Interval
  <2>3. QED
    BY <1>1, <2>2
<1>8. f \in Surjection(rows, T)
  <2> HIDE DEF f, T
  <2> QED BY <1>6, <1>7, FS_Injection
<1>9. \A t \in T : \E r \in rows : f[r] = t
  <2> HIDE DEF f, T
  <2> QED BY <1>8 DEF Surjection
<1>10. QED
  BY <1>9

\* ORDER BY ts: Sorted lists the rows, oldest first.
LEMMA SortedOrdered ==
    ASSUME NEW rows, Dated(rows)
    PROVE  Ordered(Sorted(rows), rows)
<1> DEFINE n == Cardinality(rows)
           s == Sorted(rows)
<1>1. n \in Nat
  BY FS_CardinalityType DEF Dated
<1>2. s = [i \in 1..n |-> CHOOSE r \in rows : Rank(rows, r) = i - 1]
  BY DEF Sorted, Rank
<1> HIDE DEF s
<1>3. ASSUME NEW i \in 1..n PROVE s[i] \in rows /\ Rank(rows, s[i]) = i - 1
  <2>1. i - 1 \in 0..(n - 1)
    BY <1>1
  <2>2. \E r \in rows : Rank(rows, r) = i - 1
    BY <2>1, RankOnto
  <2>3. s[i] = CHOOSE r \in rows : Rank(rows, r) = i - 1
    BY <1>2
  <2>4. QED
    BY <2>2, <2>3
<1>4. rows \subseteq Row
  BY DEF Dated
<1>5. s \in Seq(Row) /\ Len(s) = n
  <2> HIDE DEF n
  <2>1. \A i \in 1..n : s[i] \in Row
    BY <1>3, <1>4
  <2>2. s \in [1..n -> Row]
    BY <1>2, <2>1
  <2>3. QED
    BY <1>1, <2>2
<1>6. ASSUME NEW i \in 1..n, NEW j \in 1..n, i < j PROVE s[i].ts < s[j].ts
  <2>1. /\ s[i] \in rows /\ s[j] \in rows /\ s[i].ts \in Nat /\ s[j].ts \in Nat
        /\ Rank(rows, s[i]) = i - 1 /\ Rank(rows, s[j]) = j - 1
    BY <1>3, <1>4 DEF Row
  <2>2. s[i] # s[j]
    BY <1>6, <2>1
  <2>3. s[i].ts # s[j].ts
    BY <2>1, <2>2 DEF Dated
  <2>4. ~(s[j].ts < s[i].ts)
    <3> SUFFICES ASSUME s[j].ts < s[i].ts PROVE FALSE
      OBVIOUS
    <3>1. Rank(rows, s[j]) < Rank(rows, s[i])
      BY <2>1, RankMono
    <3> QED BY <1>6, <2>1, <3>1
  <2>5. QED
    BY <2>1, <2>3, <2>4
<1>7. ASSUME NEW r \in rows PROVE \E i \in 1..n : s[i] = r
  <2>1. Rank(rows, r) \in Nat /\ Rank(rows, r) <= n - 1
    BY RankBound
  <2> DEFINE i == Rank(rows, r) + 1
  <2>2. i \in 1..n /\ i - 1 = Rank(rows, r)
    BY <1>1, <2>1
  <2> HIDE DEF i
  <2>3. s[i] \in rows /\ Rank(rows, s[i]) = Rank(rows, r)
    BY <1>3, <2>2
  <2>4. r.ts \in Nat /\ s[i].ts \in Nat
    BY <1>4, <2>3 DEF Row
  <2>5. ~(r.ts < s[i].ts)
    <3> SUFFICES ASSUME r.ts < s[i].ts PROVE FALSE
      OBVIOUS
    <3>1. Rank(rows, r) < Rank(rows, s[i])
      BY <2>3, RankMono
    <3> QED BY <2>1, <2>3, <3>1
  <2>6. ~(s[i].ts < r.ts)
    <3> SUFFICES ASSUME s[i].ts < r.ts PROVE FALSE
      OBVIOUS
    <3>1. Rank(rows, s[i]) < Rank(rows, r)
      BY <2>3, RankMono
    <3> QED BY <2>1, <2>3, <3>1
  <2>7. s[i] = r
    BY <2>3, <2>4, <2>5, <2>6 DEF Dated
  <2>8. QED
    BY <2>2, <2>7
<1>8. QED
  BY <1>3, <1>5, <1>6, <1>7 DEF Ordered, s

-----------------------------------------------------------------------------
(* The hourly buckets *)

\* A running sum that takes the same steps ends in the same total.
LEMMA TotalIs ==
    ASSUME NEW n \in Nat, NEW f \in [1..n -> Int], NEW g \in [0..n -> Int], g[0] = 0,
           \A i \in 1..n : g[i] = g[i - 1] + f[i]
    PROVE  Total(f) = g[n]
<1> DEFINE Sums(u) == u = [i \in 0..n |-> IF i = 0 THEN 0 ELSE u[i - 1] + f[i]]
           u == CHOOSE v : Sums(v)
<1>1. Len(f) = n
  OBVIOUS
<1>2. Total(f) = u[n]
  BY <1>1 DEF Total
<1>3. Sums(g)
  <2>1. ASSUME NEW i \in 0..n PROVE g[i] = IF i = 0 THEN 0 ELSE g[i - 1] + f[i]
    OBVIOUS
  <2>2. g = [i \in 0..n |-> g[i]]
    OBVIOUS
  <2>3. QED
    BY <2>1, <2>2
<1>4. Sums(u)
  <2> HIDE DEF Sums
  <2> QED BY <1>3
<1>5. \A i \in 0..n : u[i] = IF i = 0 THEN 0 ELSE u[i - 1] + f[i]
  <2> HIDE DEF u
  <2> QED BY <1>4
<1> HIDE DEF u, Sums
<1> DEFINE D == {i \in 0..n : u[i] # g[i]}
<1>6. D = {}
  <2> SUFFICES ASSUME D # {} PROVE FALSE
    OBVIOUS
  <2>1. PICK k \in D : \A j \in D : k <= j
    <3>1. D \in SUBSET Nat
      OBVIOUS
    <3> QED BY <3>1, LeastNatural
  <2>2. k # 0
    BY <1>5
  <2>3. k - 1 \in 0..n /\ u[k - 1] = g[k - 1]
    <3>1. k \in 0..n
      OBVIOUS
    <3>2. k - 1 \in 0..n /\ ~(k <= k - 1)
      <4> HIDE DEF D
      <4> QED BY <2>2, <3>1
    <3>3. k - 1 \notin D
      <4> HIDE DEF D
      <4> QED BY <2>1, <3>2
    <3> QED BY <3>2, <3>3
  <2>4. u[k] = u[k - 1] + f[k] /\ g[k] = g[k - 1] + f[k]
    BY <1>5, <2>2
  <2>5. QED
    BY <2>3, <2>4
<1>7. n \in 0..n
  OBVIOUS
<1>8. u[n] = g[n]
  BY <1>6, <1>7
<1>9. QED
  BY <1>2, <1>8 DEF u

\* A time is in hour t \div h and in no other.
LEMMA HourOf ==
    ASSUME NEW t \in Nat, NEW h \in Nat \ {0}, NEW m \in Int
    PROVE  /\ t \div h \in Int
           /\ m * h <= t <=> m <= t \div h
           /\ ((t \div h) * h - m * h) \div h = t \div h - m
<1> DEFINE d == t \div h
<1>1. t % h \in 0..(h - 1) /\ t = h * d + (t % h) /\ d \in Int
  BY Z3
<1> HIDE DEF d
<1>2. d * h <= t /\ t < d * h + h
  BY <1>1, Z3
<1>3. ASSUME m <= d PROVE m * h <= t
  <2>1. m * h <= d * h
    BY <1>1, <1>3, Z3
  <2> QED BY <1>1, <1>2, <2>1, Z3
<1>4. ASSUME d < m PROVE t < m * h
  <2>1. (d + 1) * h <= m * h
    BY <1>1, <1>4, Z3
  <2>2. (d + 1) * h = d * h + h
    BY <1>1, Z3
  <2> QED BY <1>1, <1>2, <2>1, <2>2, Z3
<1>5. (d * h - m * h) \div h = d - m
  <2>1. d * h - m * h = (d - m) * h
    BY <1>1, Z3
  <2>2. \A x \in Int : (x * h) \div h = x
    BY Z3
  <2>3. d - m \in Int
    BY <1>1
  <2> QED BY <2>1, <2>2, <2>3
<1>6. m * h \in Int
  BY Z3
<1>7. (m * h <= t) <=> (m <= d)
  BY <1>1, <1>3, <1>4, <1>6
<1>8. QED
  BY <1>1, <1>5, <1>7 DEF d

\* The index of the oldest of the hours asked for
FirstHour == now \div HOUR - (Hours - 1)

\* A bucket holds the rows of one hour.
LEMMA BucketIsHour ==
    ASSUME RowsInv, NEW p \in Peer, NEW i \in 1..Hours
    PROVE  Bucket(p, i) = {r \in hist[p] : r.ts \div HOUR = FirstHour + i - 1}
<1>1. HOUR \in Nat \ {0} /\ Hours \in Nat \ {0}
  BY ViewAssumption
<1>2. now \in Nat /\ \A r \in hist[p] : r.ts \in Nat /\ r.ts <= now
  BY DEF RowsInv, BaseInv, TypeOK, ProbeInv, Row
<1> DEFINE c == now \div HOUR
           m == FirstHour
<1>3. c \in Int
  BY <1>1, <1>2, HourOf
<1>4. m \in Int /\ m = c - (Hours - 1)
  BY <1>1, <1>3 DEF FirstHour
<1>5. StartHour = m * HOUR
  <2>1. StartHour = c * HOUR - (Hours - 1) * HOUR
    BY DEF StartHour
  <2> HIDE DEF c, m
  <2>2. c * HOUR - (Hours - 1) * HOUR = (c - (Hours - 1)) * HOUR
    BY <1>1, <1>3, Z3
  <2> QED BY <1>4, <2>1, <2>2
<1>6. c * HOUR + HOUR = (c + 1) * HOUR
  <2> HIDE DEF c
  <2> QED BY <1>1, <1>3, Z3
<1>7. ASSUME NEW r \in hist[p]
      PROVE  (/\ StartHour <= r.ts /\ r.ts < c * HOUR + HOUR
              /\ ((r.ts \div HOUR) * HOUR - StartHour) \div HOUR = i - 1)
             <=> r.ts \div HOUR = m + i - 1
  <2> DEFINE h == r.ts \div HOUR
  <2>1. r.ts \in Nat
    BY <1>2
  <2>2. /\ h \in Int /\ (m * HOUR <= r.ts <=> m <= h)
        /\ (h * HOUR - m * HOUR) \div HOUR = h - m
    BY <1>1, <1>4, <2>1, HourOf
  <2>3. c + 1 \in Int
    BY <1>3
  <2>4. (c + 1) * HOUR <= r.ts <=> c + 1 <= h
    BY <1>1, <2>1, <2>3, HourOf
  <2>5. (c + 1) * HOUR \in Int /\ m * HOUR \in Int
    BY <1>1, <1>4, <2>3
  <2>6. StartHour <= r.ts <=> m <= h
    BY <1>5, <2>2
  <2>7. r.ts < c * HOUR + HOUR <=> h <= c
    BY <1>3, <1>6, <2>1, <2>2, <2>4, <2>5
  <2>8. (h * HOUR - StartHour) \div HOUR = h - m
    BY <1>5, <2>2
  <2> HIDE DEF c, h, m
  <2>9. (m <= h /\ h <= c /\ h - m = i - 1) <=> h = m + i - 1
    BY <1>1, <1>3, <1>4, <2>2
  <2>10. QED
    BY <2>6, <2>7, <2>8, <2>9 DEF h
<1>8. QED
  BY <1>7 DEF Bucket

\* Rows with one of the results Q
Of(rows, Q) == {r \in rows : r.st \in Q}

\* The rows of the first k of the hours
UpToHour(p, k) == {r \in hist[p] : /\ FirstHour <= r.ts \div HOUR
                                   /\ r.ts \div HOUR <= FirstHour + k - 1}

\* The buckets count every row of the first hours once.
LEMMA BucketsCount ==
    ASSUME RowsInv, NEW p \in Peer, NEW Q
    PROVE  Total([i \in 1..Hours |-> Cardinality(Of(Bucket(p, i), Q))])
              = Cardinality(Of(UpToHour(p, Hours), Q))
<1> DEFINE B(i) == Of(Bucket(p, i), Q)
           V(k) == Of(UpToHour(p, k), Q)
           f == [i \in 1..Hours |-> Cardinality(B(i))]
           g == [k \in 0..Hours |-> Cardinality(V(k))]
<1>1. HOUR \in Nat \ {0} /\ Hours \in Nat \ {0}
  BY ViewAssumption
<1>2. /\ now \in Nat /\ IsFiniteSet(hist[p])
      /\ \A r \in hist[p] : r.ts \in Nat
  BY DEF RowsInv, BaseInv, TypeOK, ProbeInv, Row
<1>3. FirstHour \in Int
  <2>1. now \div HOUR \in Int
    BY <1>1, <1>2, HourOf
  <2> QED BY <1>1, <2>1 DEF FirstHour
<1>4. \A r \in hist[p] : r.ts \div HOUR \in Int
  <2> TAKE r \in hist[p]
  <2>1. r.ts \in Nat
    BY <1>2
  <2> QED BY <1>1, <2>1, Z3
<1>5. ASSUME NEW S \in SUBSET hist[p] PROVE IsFiniteSet(S) /\ Cardinality(S) \in Nat
  BY <1>2, FS_Subset, FS_CardinalityType
<1>6. \A k : V(k) \in SUBSET hist[p] /\ B(k) \in SUBSET hist[p]
  BY DEF Of, UpToHour, Bucket
<1>7. f \in [1..Hours -> Int] /\ g \in [0..Hours -> Int]
  <2> HIDE DEF B, V
  <2> QED BY <1>5, <1>6
<1>8. g[0] = 0
  <2>1. V(0) = {}
    BY <1>3, <1>4 DEF Of, UpToHour
  <2>2. g[0] = Cardinality(V(0))
    BY <1>1
  <2> HIDE DEF V, g
  <2> QED BY <2>1, <2>2, FS_EmptySet
<1>9. ASSUME NEW k \in 1..Hours PROVE g[k] = g[k - 1] + f[k]
  <2>1. B(k) = Of({r \in hist[p] : r.ts \div HOUR = FirstHour + k - 1}, Q)
    BY BucketIsHour
  <2>2. V(k) = V(k - 1) \cup B(k) /\ V(k - 1) \cap B(k) = {}
    <3> HIDE DEF B
    <3> QED BY <1>1, <1>3, <1>4, <2>1 DEF Of, UpToHour
  <2>3. k - 1 \in 0..Hours /\ k \in 0..Hours
    BY <1>1
  <2>4. g[k] = Cardinality(V(k)) /\ g[k - 1] = Cardinality(V(k - 1)) /\ f[k] = Cardinality(B(k))
    BY <2>3
  <2> HIDE DEF V, B, f, g
  <2>5. IsFiniteSet(V(k - 1)) /\ IsFiniteSet(B(k))
    BY <1>5, <1>6
  <2>6. Cardinality(V(k - 1) \cup B(k))
          = Cardinality(V(k - 1)) + Cardinality(B(k)) - Cardinality(V(k - 1) \cap B(k))
    BY <2>5, FS_Union
  <2>7. Cardinality(V(k - 1)) \in Nat /\ Cardinality(B(k)) \in Nat
    BY <1>5, <1>6
  <2>8. Cardinality(V(k - 1) \cap B(k)) = 0
    BY <2>2, FS_EmptySet
  <2>9. Cardinality(V(k)) = Cardinality(V(k - 1)) + Cardinality(B(k)) - 0
    BY <2>2, <2>6, <2>8
  <2>10. QED
    BY <2>4, <2>7, <2>9
<1>10. g[Hours] = Cardinality(V(Hours))
  BY <1>1
<1>11. Hours \in Nat /\ \A i \in 1..Hours : g[i] = g[i - 1] + f[i]
  BY <1>1, <1>9
<1>12. Total(f) = g[Hours]
  <2> HIDE DEF f, g
  <2> QED BY <1>7, <1>8, <1>11, TotalIs
<1>13. QED
  BY <1>10, <1>12

\* The hours asked for are the time from the start of the first one to now.
LEMMA HoursSpan ==
    ASSUME RowsInv, NEW p \in Peer
    PROVE  UpToHour(p, Hours) = Between(p, now - (now - StartHour), now)
<1>1. HOUR \in Nat \ {0} /\ Hours \in Nat \ {0}
  BY ViewAssumption
<1>2. now \in Nat /\ \A r \in hist[p] : r.ts \in Nat /\ r.ts <= now
  BY DEF RowsInv, BaseInv, TypeOK, ProbeInv, Row
<1> DEFINE c == now \div HOUR
           m == FirstHour
<1>3. c \in Int
  BY <1>1, <1>2, HourOf
<1>4. m \in Int /\ m = c - (Hours - 1)
  BY <1>1, <1>3 DEF FirstHour
<1>5. StartHour = m * HOUR /\ StartHour \in Int
  <2>1. StartHour = c * HOUR - (Hours - 1) * HOUR
    BY DEF StartHour
  <2> HIDE DEF c, m
  <2>2. c * HOUR - (Hours - 1) * HOUR = (c - (Hours - 1)) * HOUR
    BY <1>1, <1>3, Z3
  <2>3. m * HOUR \in Int
    BY <1>1, <1>4
  <2> QED BY <1>4, <2>1, <2>2, <2>3
<1>6. now - (now - StartHour) = StartHour
  BY <1>2, <1>5
<1>7. ASSUME NEW r \in hist[p]
      PROVE  (m <= r.ts \div HOUR /\ r.ts \div HOUR <= m + Hours - 1)
             <=> (StartHour <= r.ts /\ r.ts <= now)
  <2> DEFINE h == r.ts \div HOUR
  <2>1. r.ts \in Nat /\ r.ts <= now
    BY <1>2
  <2>2. h \in Int /\ (m * HOUR <= r.ts <=> m <= h)
    BY <1>1, <1>4, <2>1, HourOf
  <2>3. h <= c
    <3>1. h * HOUR <= r.ts
      <4>1. h \in Int /\ r.ts \in Nat /\ h <= r.ts \div HOUR
        BY <2>1, <2>2
      <4> HIDE DEF h
      <4> QED BY <1>1, <4>1, HourOf
    <3>2. h * HOUR \in Int
      BY <1>1, <2>2
    <3>3. h * HOUR <= now
      BY <1>2, <2>1, <3>1, <3>2
    <3> HIDE DEF h
    <3> QED BY <1>1, <1>2, <2>2, <3>3, HourOf
  <2> HIDE DEF h, c, m
  <2>4. QED
    BY <1>1, <1>3, <1>4, <1>5, <2>1, <2>2, <2>3 DEF h
<1>8. QED
  <2> HIDE DEF m
  <2> QED BY <1>6, <1>7 DEF UpToHour, Between, m

\* The hourly buckets of a peer add up to the uptime over the hours they span.
LEMMA BucketsAgree == RowsInv => BucketsAddUp
<1> SUFFICES ASSUME RowsInv, NEW p \in Peer
             PROVE  LET b == hourly_uptime_buckets(p)
                        u == uptime_percent(p, now - StartHour)
                    IN  /\ Total([i \in 1..Hours |-> b[i].ok]) = u.ok
                        /\ Total([i \in 1..Hours |-> b[i].total]) = u.total
                        /\ \A i \in 1..Hours : b[i].total > 0 =>
                              \E r \in hist[p] : r.ts \div HOUR = (now \div HOUR) - Hours + i
  BY DEF BucketsAddUp
<1> DEFINE b == hourly_uptime_buckets(p)
           u == uptime_percent(p, now - StartHour)
<1>1. hist[p] \subseteq Row /\ IsFiniteSet(hist[p])
  BY DEF RowsInv, BaseInv, TypeOK
<1>2. ASSUME NEW S, S \subseteq Row
      PROVE  Alive(S) = Cardinality(Of(S, {"ALIVE"})) /\ Of(S, Result) = S
  <2>1. {r \in S : r.st = "ALIVE"} = Of(S, {"ALIVE"})
    BY DEF Of
  <2>2. Of(S, Result) = S
    BY <1>2 DEF Of, Row, Result
  <2>3. QED
    BY <2>1, <2>2 DEF Alive
<1>3. \A i : Bucket(p, i) \subseteq hist[p]
  BY DEF Bucket
<1>4. UpToHour(p, Hours) \subseteq Row
  BY <1>1 DEF UpToHour
<1>5. u.ok = Alive(UpToHour(p, Hours)) /\ u.total = Cardinality(UpToHour(p, Hours))
  BY HoursSpan DEF uptime_percent, Share
<1>6. \A i \in 1..Hours : b[i].ok = Alive(Bucket(p, i)) /\ b[i].total = Cardinality(Bucket(p, i))
  BY DEF hourly_uptime_buckets, Share
<1> HIDE DEF b, u
<1>7. Total([i \in 1..Hours |-> b[i].ok]) = u.ok
  <2>1. \A i \in 1..Hours : b[i].ok = Cardinality(Of(Bucket(p, i), {"ALIVE"}))
    BY <1>1, <1>2, <1>3, <1>6
  <2>2. [i \in 1..Hours |-> b[i].ok] = [i \in 1..Hours |-> Cardinality(Of(Bucket(p, i), {"ALIVE"}))]
    BY <2>1
  <2>3. u.ok = Cardinality(Of(UpToHour(p, Hours), {"ALIVE"}))
    BY <1>2, <1>4, <1>5
  <2>4. QED
    BY <2>2, <2>3, BucketsCount
<1>8. Total([i \in 1..Hours |-> b[i].total]) = u.total
  <2>1. \A i \in 1..Hours : b[i].total = Cardinality(Of(Bucket(p, i), Result))
    <3> TAKE i \in 1..Hours
    <3>1. Bucket(p, i) \subseteq Row
      BY <1>1, <1>3
    <3>2. Of(Bucket(p, i), Result) = Bucket(p, i)
      BY <1>2, <3>1
    <3> QED BY <1>6, <3>2
  <2>2. [i \in 1..Hours |-> b[i].total] = [i \in 1..Hours |-> Cardinality(Of(Bucket(p, i), Result))]
    BY <2>1
  <2>3. Of(UpToHour(p, Hours), Result) = UpToHour(p, Hours)
    BY <1>2, <1>4
  <2>4. u.total = Cardinality(Of(UpToHour(p, Hours), Result))
    BY <1>5, <2>3
  <2>5. QED
    BY <2>2, <2>4, BucketsCount
<1>9. ASSUME NEW i \in 1..Hours, b[i].total > 0
      PROVE  \E r \in hist[p] : r.ts \div HOUR = (now \div HOUR) - Hours + i
  <2>1. Bucket(p, i) # {}
    <3> SUFFICES ASSUME Bucket(p, i) = {} PROVE FALSE
      OBVIOUS
    <3>1. b[i].total = 0
      BY <1>6, FS_EmptySet
    <3> QED BY <1>9, <3>1
  <2>2. PICK r \in hist[p] : r.ts \div HOUR = FirstHour + i - 1
    BY <2>1, BucketIsHour
  <2>3. HOUR \in Nat \ {0} /\ Hours \in Nat \ {0} /\ now \in Nat
    BY ViewAssumption DEF RowsInv, BaseInv, TypeOK
  <2>4. now \div HOUR \in Int
    BY <2>3, HourOf
  <2>5. FirstHour + i - 1 = (now \div HOUR) - Hours + i
    BY <2>3, <2>4 DEF FirstHour
  <2>6. QED
    BY <2>2, <2>5
<1>10. QED
  BY <1>7, <1>8, <1>9 DEF b, u

\* The hourly buckets of every peer always add up to its uptime over the hours
\* they span: hourly_uptime_buckets counts every probe row once, in its hour.
THEOREM BucketsAlwaysAddUp == ViewSpec => []BucketsAddUp
BY RowsAlways, BucketsAgree, PTL

-----------------------------------------------------------------------------
(* One turn of the loop of incidents *)

\* An entry of the list of incidents
IncidentRec == [started : Nat, ended : Int, duration : Int]

\* A list of rows, each newer than the one before
Increasing(s) == /\ s \in Seq(Row)
                 /\ \A i, j \in 1..Len(s) : i < j => s[i].ts < s[j].ts

\* From row a on, where it began to fail, the peer failed up to row k
Spell(s, a, k) == /\ a = 1 \/ s[a - 1].st = "ALIVE"
                  /\ \A j \in a..k : s[j].st = "DEAD"

\* An outage that began with row a and was over with row b
Closed(s, a, b) == a < b /\ Spell(s, a, b - 1) /\ s[b].st = "ALIVE"

\* The incident from row a to row b
IncidentOf(s, a, b) == Incident(s[a].ts, s[b].ts, s[b].ts - s[a].ts)

\* list holds the outages that were over within the first k rows, oldest first
Lists(s, k, list) ==
    /\ list \in Seq(IncidentRec)
    /\ \A i \in 1..Len(list) : \E a \in 1..k : \E b \in 1..k :
          Closed(s, a, b) /\ list[i] = IncidentOf(s, a, b)
    /\ \A a \in 1..k : \A b \in 1..k : Closed(s, a, b) =>
          \E i \in 1..Len(list) : list[i] = IncidentOf(s, a, b)
    /\ \A i, j \in 1..Len(list) : i < j => list[i].started < list[j].started

\* What the loop of incidents has found after k rows
LoopInv(s, k, acc) ==
    /\ acc.prev = IF k = 0 THEN "none" ELSE s[k].st
    /\ k = 0 \/ s[k].st = "ALIVE" => acc.open = None
    /\ k # 0 /\ s[k].st = "DEAD" => \E a \in 1..k : Spell(s, a, k) /\ acc.open = s[a].ts
    /\ Lists(s, k, acc.list)

\* The rows of a sorted list are rows.
LEMMA RowAt ==
    ASSUME NEW s, Increasing(s), NEW i \in 1..Len(s)
    PROVE  s[i] \in Row /\ s[i].ts \in Nat /\ s[i].st \in {"ALIVE", "DEAD"}
<1>1. s[i] \in Row
  BY DEF Increasing
<1>2. QED
  BY <1>1 DEF Row

\* What an incident is made of.
LEMMA IncidentTyped ==
    ASSUME NEW s, Increasing(s), NEW a \in 1..Len(s), NEW b \in 1..Len(s)
    PROVE  IncidentOf(s, a, b) \in IncidentRec /\ IncidentOf(s, a, b).started = s[a].ts
<1>1. s[a].ts \in Nat /\ s[b].ts \in Nat
  BY RowAt
<1>2. s[b].ts - s[a].ts \in Int /\ s[b].ts \in Int
  BY <1>1
<1>3. QED
  BY <1>1, <1>2 DEF IncidentOf, Incident, IncidentRec

\* Two spells that last to the same row began with the same row.
LEMMA SpellUnique ==
    ASSUME NEW s, NEW k \in Nat, NEW a \in 1..k, NEW b \in 1..k, Spell(s, a, k), Spell(s, b, k)
    PROVE  a = b
<1>1. ASSUME NEW x \in 1..k, NEW y \in 1..k, Spell(s, x, k), Spell(s, y, k), x < y PROVE FALSE
  <2>1. y # 1 /\ y - 1 \in x..k
    BY <1>1
  <2>2. s[y - 1].st = "ALIVE" /\ s[y - 1].st = "DEAD"
    BY <1>1, <2>1 DEF Spell
  <2>3. QED
    BY <2>2
<1>2. ~(a < b) /\ ~(b < a)
  BY <1>1
<1>3. QED
  BY <1>2

\* A row that ends no outage adds nothing to the list.
LEMMA ListsSame ==
    ASSUME NEW s, Increasing(s), NEW k \in 1..Len(s), NEW list, Lists(s, k - 1, list),
           \A a \in 1..k : ~Closed(s, a, k)
    PROVE  Lists(s, k, list)
<1>0. Len(s) \in Nat /\ k \in Nat /\ Len(list) \in Nat
  BY DEF Increasing, Lists
<1>1. ASSUME NEW i \in 1..Len(list)
      PROVE  \E a \in 1..k : \E b \in 1..k : Closed(s, a, b) /\ list[i] = IncidentOf(s, a, b)
  <2>1. PICK a \in 1..(k - 1) : \E b \in 1..(k - 1) :
                                  Closed(s, a, b) /\ list[i] = IncidentOf(s, a, b)
    BY DEF Lists
  <2>2. PICK b \in 1..(k - 1) : Closed(s, a, b) /\ list[i] = IncidentOf(s, a, b)
    BY <2>1
  <2>3. a \in 1..k /\ b \in 1..k
    BY <1>0
  <2>4. QED
    BY <2>2, <2>3
<1>2. ASSUME NEW a \in 1..k, NEW b \in 1..k, Closed(s, a, b)
      PROVE  \E i \in 1..Len(list) : list[i] = IncidentOf(s, a, b)
  <2>1. b # k
    BY <1>2
  <2>2. a < b
    BY <1>2 DEF Closed
  <2>3. a \in 1..(k - 1) /\ b \in 1..(k - 1)
    BY <1>0, <2>1, <2>2
  <2>4. QED
    BY <1>2, <2>3 DEF Lists
<1>3. QED
  BY <1>1, <1>2 DEF Lists

\* A row that ends an outage adds it to the list, as the newest.
LEMMA ListsGrow ==
    ASSUME NEW s, Increasing(s), NEW k \in 1..Len(s), NEW list, Lists(s, k - 1, list),
           NEW a \in 1..(k - 1), Spell(s, a, k - 1), s[k].st = "ALIVE"
    PROVE  Lists(s, k, Append(list, IncidentOf(s, a, k)))
<1> DEFINE x == IncidentOf(s, a, k)
           more == Append(list, x)
           n == Len(list)
<1>0. Len(s) \in Nat /\ k \in Nat /\ n \in Nat /\ list \in Seq(IncidentRec) /\ k - 1 \in Nat
      /\ a \in 1..k /\ a \in 1..Len(s)
  BY DEF Increasing, Lists
<1>1. x \in IncidentRec /\ x.started = s[a].ts
  BY <1>0, IncidentTyped
<1>2. Closed(s, a, k)
  BY DEF Closed
<1> HIDE DEF x
<1>3. /\ more \in Seq(IncidentRec) /\ Len(more) = n + 1 /\ more[n + 1] = x
      /\ \A i \in 1..n : more[i] = list[i]
  BY <1>0, <1>1
<1> HIDE DEF more, n
<1>4. ASSUME NEW i \in 1..n
      PROVE  \E c \in 1..k : \E b \in 1..k :
                /\ Closed(s, c, b) /\ list[i] = IncidentOf(s, c, b)
                /\ list[i].started < x.started
  <2>1. PICK c \in 1..(k - 1) : \E b \in 1..(k - 1) :
                                  Closed(s, c, b) /\ list[i] = IncidentOf(s, c, b)
    BY DEF Lists, n
  <2>2. PICK b \in 1..(k - 1) : Closed(s, c, b) /\ list[i] = IncidentOf(s, c, b)
    BY <2>1
  <2>3. c \in 1..k /\ b \in 1..k /\ c \in 1..Len(s) /\ b \in 1..Len(s)
    BY <1>0
  <2>4. s[b].st = "ALIVE" /\ c < b
    BY <2>2 DEF Closed
  <2>5. b < a
    <3> SUFFICES ASSUME a <= b PROVE FALSE
      BY <1>0
    <3>1. b \in a..(k - 1)
      BY <1>0
    <3>2. s[b].st = "DEAD"
      BY <3>1 DEF Spell
    <3> QED BY <2>4, <3>2
  <2>6. c < a
    BY <1>0, <2>4, <2>5
  <2>7. s[c].ts < s[a].ts
    BY <1>0, <2>3, <2>6 DEF Increasing
  <2>8. list[i].started = s[c].ts
    BY <2>2, <2>3, IncidentTyped
  <2>9. QED
    BY <1>1, <2>2, <2>3, <2>7, <2>8
<1>5. ASSUME NEW i \in 1..(n + 1)
      PROVE  \E c \in 1..k : \E b \in 1..k : Closed(s, c, b) /\ more[i] = IncidentOf(s, c, b)
  <2>1. CASE i = n + 1
    <3>1. a \in 1..k /\ k \in 1..k /\ Closed(s, a, k) /\ more[i] = IncidentOf(s, a, k)
      BY <1>0, <1>2, <1>3, <2>1 DEF x
    <3> QED BY <3>1
  <2>2. CASE i \in 1..n
    BY <1>3, <1>4, <2>2
  <2>3. QED
    BY <1>0, <2>1, <2>2
<1>6. ASSUME NEW c \in 1..k, NEW b \in 1..k, Closed(s, c, b)
      PROVE  \E i \in 1..(n + 1) : more[i] = IncidentOf(s, c, b)
  <2>1. CASE b = k
    <3>1. Spell(s, c, k - 1) /\ c < k
      BY <1>6, <2>1 DEF Closed
    <3>2. c \in 1..(k - 1)
      BY <1>0, <3>1
    <3>3. c = a
      BY <1>0, <3>1, <3>2, SpellUnique
    <3>4. n + 1 \in 1..(n + 1) /\ more[n + 1] = IncidentOf(s, c, b)
      BY <1>0, <1>3, <2>1, <3>3 DEF x
    <3> QED BY <3>4
  <2>2. CASE b # k
    <3>1. c < b
      BY <1>6 DEF Closed
    <3>2. c \in 1..(k - 1) /\ b \in 1..(k - 1)
      BY <1>0, <2>2, <3>1
    <3>3. PICK i \in 1..n : list[i] = IncidentOf(s, c, b)
      BY <1>6, <3>2 DEF Lists, n
    <3>4. i \in 1..(n + 1) /\ more[i] = IncidentOf(s, c, b)
      BY <1>0, <1>3, <3>3
    <3> QED BY <3>4
  <2>3. QED
    BY <2>1, <2>2
<1>7. ASSUME NEW i \in 1..(n + 1), NEW j \in 1..(n + 1), i < j
      PROVE  more[i].started < more[j].started
  <2>1. i \in 1..n
    BY <1>0, <1>7
  <2>2. CASE j = n + 1
    BY <1>3, <1>4, <2>1, <2>2
  <2>3. CASE j # n + 1
    <3>1. j \in 1..n
      BY <1>0, <2>3
    <3>2. list[i].started < list[j].started
      BY <1>7, <2>1, <3>1 DEF Lists, n
    <3> QED BY <1>3, <2>1, <3>1, <3>2
  <2>4. QED
    BY <2>2, <2>3
<1>8. Lists(s, k, more)
  BY <1>3, <1>5, <1>6, <1>7 DEF Lists
<1>9. QED
  BY <1>8 DEF more, x

\* One turn of the loop.
LEMMA LoopStep ==
    ASSUME NEW s, Increasing(s), NEW k \in 1..Len(s), NEW acc, LoopInv(s, k - 1, acc)
    PROVE  LoopInv(s, k, IncidentStep(acc, s[k]))
<1> DEFINE r == s[k]
           new == IncidentStep(acc, r)
<1>0. /\ Len(s) \in Nat /\ k \in Nat /\ k - 1 \in Nat /\ k # 0
      /\ r.ts \in Nat /\ r.st \in {"ALIVE", "DEAD"}
      /\ k # 1 => k - 1 \in 1..Len(s) /\ s[k - 1].st \in {"ALIVE", "DEAD"}
  BY RowAt DEF Increasing
<1>1. /\ acc.prev = IF k - 1 = 0 THEN "none" ELSE s[k - 1].st
      /\ k - 1 = 0 \/ s[k - 1].st = "ALIVE" => acc.open = None
      /\ Lists(s, k - 1, acc.list)
  BY DEF LoopInv
<1>2. k - 1 # 0 /\ s[k - 1].st = "DEAD" =>
        \E a \in 1..(k - 1) : Spell(s, a, k - 1) /\ acc.open = s[a].ts
  BY DEF LoopInv
<1>3. /\ new.prev = r.st
      /\ new.open = CASE Opens(acc, r) -> r.ts
                      [] r.st = "ALIVE" -> None
                      [] OTHER -> acc.open
      /\ new.list = IF r.st = "ALIVE" /\ acc.prev \notin {"none", "ALIVE"} /\ acc.open # None
                    THEN Append(acc.list, Incident(acc.open, r.ts, r.ts - acc.open))
                    ELSE acc.list
  BY DEF IncidentStep
<1> HIDE DEF new
<1>4. CASE r.st = "DEAD" /\ (k = 1 \/ s[k - 1].st = "ALIVE")
  <2>1. Opens(acc, r)
    BY <1>0, <1>1, <1>4 DEF Opens
  <2>2. new.open = s[k].ts /\ new.list = acc.list
    BY <1>3, <1>4, <2>1
  <2>3. k \in 1..k /\ Spell(s, k, k)
    BY <1>0, <1>4 DEF Spell
  <2>4. \A a \in 1..k : ~Closed(s, a, k)
    BY <1>4 DEF Closed
  <2>5. Lists(s, k, new.list)
    BY <1>1, <2>2, <2>4, ListsSame
  <2>6. QED
    BY <1>0, <1>3, <1>4, <2>2, <2>3, <2>5 DEF LoopInv, new
<1>5. CASE r.st = "DEAD" /\ k # 1 /\ s[k - 1].st = "DEAD"
  <2>1. ~Opens(acc, r)
    BY <1>0, <1>1, <1>5 DEF Opens
  <2>2. new.open = acc.open /\ new.list = acc.list
    BY <1>3, <1>5, <2>1
  <2>3. PICK a \in 1..(k - 1) : Spell(s, a, k - 1) /\ acc.open = s[a].ts
    BY <1>0, <1>2, <1>5
  <2>4. a \in 1..k /\ Spell(s, a, k)
    BY <1>0, <1>5, <2>3 DEF Spell
  <2>5. \A c \in 1..k : ~Closed(s, c, k)
    BY <1>5 DEF Closed
  <2>6. Lists(s, k, new.list)
    BY <1>1, <2>2, <2>5, ListsSame
  <2>7. QED
    BY <1>0, <1>3, <1>5, <2>2, <2>3, <2>4, <2>6 DEF LoopInv, new
<1>6. CASE r.st = "ALIVE" /\ k # 1 /\ s[k - 1].st = "DEAD"
  <2>1. PICK a \in 1..(k - 1) : Spell(s, a, k - 1) /\ acc.open = s[a].ts
    BY <1>0, <1>2, <1>6
  <2>2. a \in 1..Len(s) /\ s[a].ts \in Nat
    <3>1. a \in 1..Len(s)
      BY <1>0
    <3> QED BY <3>1, RowAt
  <2>3. acc.open # None /\ acc.prev = "DEAD"
    BY <1>0, <1>1, <1>6, <2>1, <2>2 DEF None
  <2>4. ~Opens(acc, r)
    BY <1>6 DEF Opens
  <2>5. new.open = None
    BY <1>3, <1>6, <2>4
  <2>6. new.list = Append(acc.list, IncidentOf(s, a, k))
    BY <1>3, <1>6, <2>1, <2>3 DEF IncidentOf
  <2>7. Lists(s, k, new.list)
    BY <1>1, <1>6, <2>1, <2>6, ListsGrow
  <2>8. QED
    BY <1>0, <1>3, <1>6, <2>5, <2>7 DEF LoopInv, new
<1>7. CASE r.st = "ALIVE" /\ (k = 1 \/ s[k - 1].st = "ALIVE")
  <2>1. ~Opens(acc, r) /\ acc.prev \in {"none", "ALIVE"}
    BY <1>0, <1>1, <1>7 DEF Opens
  <2>2. new.open = None /\ new.list = acc.list
    BY <1>3, <1>7, <2>1
  <2>3. \A a \in 1..k : ~Closed(s, a, k)
    <3> SUFFICES ASSUME NEW a \in 1..k, Closed(s, a, k) PROVE FALSE
      OBVIOUS
    <3>1. a < k /\ Spell(s, a, k - 1)
      BY DEF Closed
    <3>2. k - 1 \in a..(k - 1) /\ k # 1
      BY <1>0, <3>1
    <3>3. s[k - 1].st = "DEAD"
      BY <3>1, <3>2 DEF Spell
    <3> QED BY <1>7, <3>2, <3>3
  <2>4. Lists(s, k, new.list)
    BY <1>1, <2>2, <2>3, ListsSame
  <2>5. QED
    BY <1>0, <1>3, <1>7, <2>2, <2>4 DEF LoopInv, new
<1>8. QED
  BY <1>0, <1>4, <1>5, <1>6, <1>7

-----------------------------------------------------------------------------
(* The whole loop *)

\* f records the turns of the loop over the first n rows of s
Turns(f, s, n) ==
    f = [i \in 0..n |-> IF i = 0 THEN [prev |-> "none", open |-> None, list |-> <<>>]
                        ELSE IncidentStep(f[i - 1], s[i])]

\* The loop takes any number of turns.
LEMMA TurnsExist ==
    ASSUME NEW s, NEW n \in Nat
    PROVE  \E f : Turns(f, s, n)
<1> DEFINE start == [prev |-> "none", open |-> None, list |-> <<>>]
           S == {i \in Nat : ~\E f : Turns(f, s, i)}
<1> HIDE DEF start
<1>1. SUFFICES ASSUME S # {} PROVE FALSE
  OBVIOUS
<1>2. PICK k \in S : \A j \in S : k <= j
  <2>1. S \in SUBSET Nat
    OBVIOUS
  <2> QED BY <1>1, <2>1, LeastNatural
<1>3. \A f, m : Turns(f, s, m) <=>
        f = [i \in 0..m |-> IF i = 0 THEN start ELSE IncidentStep(f[i - 1], s[i])]
  BY DEF Turns, start
<1>4. k # 0
  <2>1. SUFFICES ASSUME k = 0 PROVE \E f : Turns(f, s, 0)
    BY <2>1
  <2> DEFINE z == [i \in 0..0 |-> start]
  <2>2. z = [i \in 0..0 |-> IF i = 0 THEN start ELSE IncidentStep(z[i - 1], s[i])]
    OBVIOUS
  <2>3. Turns(z, s, 0)
    BY <1>3, <2>2
  <2> QED BY <2>3
<1>5. PICK f : Turns(f, s, k - 1)
  BY <1>2, <1>4
<1> DEFINE g == [i \in 0..k |-> IF i = k THEN IncidentStep(f[k - 1], s[k]) ELSE f[i]]
<1>6. f = [i \in 0..(k - 1) |-> IF i = 0 THEN start ELSE IncidentStep(f[i - 1], s[i])]
  BY <1>3, <1>5
<1>7. ASSUME NEW i \in 0..k
      PROVE  g[i] = IF i = 0 THEN start ELSE IncidentStep(g[i - 1], s[i])
  <2>1. CASE i = k
    <3>1. k - 1 \in 0..k /\ g[k - 1] = f[k - 1]
      BY <1>4
    <3> QED BY <1>4, <2>1, <3>1
  <2>2. CASE i # k /\ i # 0
    <3>1. i - 1 \in 0..k /\ i \in 0..(k - 1) /\ g[i - 1] = f[i - 1] /\ g[i] = f[i]
      BY <1>4, <2>2
    <3>2. f[i] = IncidentStep(f[i - 1], s[i])
      BY <1>6, <2>2, <3>1
    <3> QED BY <2>2, <3>1, <3>2
  <2>3. CASE i # k /\ i = 0
    <3>1. g[0] = f[0] /\ f[0] = start
      BY <1>4, <1>6
    <3> QED BY <2>3, <3>1
  <2> QED BY <2>1, <2>2, <2>3
<1>8. g = [i \in 0..k |-> IF i = 0 THEN start ELSE IncidentStep(g[i - 1], s[i])]
  <2> HIDE DEF g
  <2>1. g = [i \in 0..k |-> g[i]]
    BY DEF g
  <2> QED BY <1>7, <2>1
<1>9. Turns(g, s, k)
  <2> HIDE DEF g
  <2> QED BY <1>3, <1>8
<1>10. QED
  BY <1>9

\* When it ends, the loop has found what the whole of the rows shows.
LEMMA LoopEnds ==
    ASSUME NEW s, Increasing(s)
    PROVE  LoopInv(s, Len(s), IncidentLoop(s))
<1> DEFINE n == Len(s)
           f == CHOOSE g : Turns(g, s, n)
<1>1. n \in Nat
  BY DEF Increasing
<1>2. Turns(f, s, n)
  BY <1>1, TurnsExist
<1>3. IncidentLoop(s) = f[n]
  BY DEF IncidentLoop, Turns
<1> HIDE DEF f
<1>4. /\ f[0] = [prev |-> "none", open |-> None, list |-> <<>>]
      /\ \A i \in 1..n : f[i] = IncidentStep(f[i - 1], s[i])
  BY <1>1, <1>2 DEF Turns
<1>5. LoopInv(s, 0, f[0])
  <2>1. f[0].prev = "none" /\ f[0].open = None /\ f[0].list = <<>>
    BY <1>4
  <2>2. Lists(s, 0, <<>>)
    BY DEF Lists
  <2>3. QED
    BY <2>1, <2>2 DEF LoopInv
<1> DEFINE S == {i \in 0..n : ~LoopInv(s, i, f[i])}
<1>6. S = {}
  <2> SUFFICES ASSUME S # {} PROVE FALSE
    OBVIOUS
  <2>1. PICK k \in S : \A j \in S : k <= j
    <3>1. S \in SUBSET Nat
      OBVIOUS
    <3> HIDE DEF S
    <3> QED BY <3>1, LeastNatural
  <2>2. k \in 1..n
    BY <1>1, <1>5
  <2>3. k - 1 \in 0..n /\ k - 1 \notin S
    BY <1>1, <2>1, <2>2
  <2>4. LoopInv(s, k - 1, f[k - 1])
    BY <2>3
  <2>5. LoopInv(s, k, IncidentStep(f[k - 1], s[k]))
    BY <2>2, <2>4, LoopStep
  <2>6. QED
    BY <1>4, <2>2, <2>5
<1>7. n \in 0..n
  BY <1>1
<1>8. LoopInv(s, n, f[n])
  BY <1>6, <1>7
<1>9. QED
  BY <1>3, <1>8

-----------------------------------------------------------------------------
(* What the outages of a list of rows are *)

\* The outage that begins with the failure r
OutageOf(rows, r) ==
    IF Recoveries(rows, r) = {} THEN Incident(r.ts, None, Newest(rows).ts - r.ts)
    ELSE Incident(r.ts, Min(Recoveries(rows, r)), Min(Recoveries(rows, r)) - r.ts)

\* The position of a row tells its date from that of another.
LEMMA OrderedIs ==
    ASSUME NEW s, NEW rows, Ordered(s, rows)
    PROVE  /\ Increasing(s) /\ Len(s) \in Nat
           /\ \A i \in 1..Len(s) : s[i] \in rows /\ s[i].ts \in Nat /\ s[i].st \in {"ALIVE", "DEAD"}
           /\ \A i, j \in 1..Len(s) : s[i].ts < s[j].ts <=> i < j
<1>1. Increasing(s) /\ Len(s) \in Nat
  BY DEF Ordered, Increasing
<1>2. \A i \in 1..Len(s) : s[i] \in rows /\ s[i].ts \in Nat /\ s[i].st \in {"ALIVE", "DEAD"}
  BY <1>1, RowAt DEF Ordered
<1>3. ASSUME NEW i \in 1..Len(s), NEW j \in 1..Len(s) PROVE s[i].ts < s[j].ts <=> i < j
  <2>1. i < j => s[i].ts < s[j].ts
    BY DEF Ordered
  <2>2. j < i => s[j].ts < s[i].ts
    BY DEF Ordered
  <2>3. i = j => s[i].ts = s[j].ts
    OBVIOUS
  <2>4. s[i].ts \in Nat /\ s[j].ts \in Nat /\ i \in Int /\ j \in Int
    BY <1>2
  <2>5. QED
    BY <2>1, <2>2, <2>3, <2>4
<1>4. QED
  BY <1>1, <1>2, <1>3

\* The first failures are the rows where a spell begins.
LEMMA FirstsAre ==
    ASSUME NEW s, NEW rows, Ordered(s, rows), NEW a \in 1..Len(s)
    PROVE  s[a] \in FirstFailures(rows) <=> Spell(s, a, a)
<1>1. /\ Len(s) \in Nat
      /\ \A i \in 1..Len(s) : s[i] \in rows /\ s[i].ts \in Nat /\ s[i].st \in {"ALIVE", "DEAD"}
      /\ \A i, j \in 1..Len(s) : s[i].ts < s[j].ts <=> i < j
  BY OrderedIs
<1>2. \A r \in rows : \E i \in 1..Len(s) : s[i] = r
  BY DEF Ordered
<1>3. ASSUME s[a] \in FirstFailures(rows) PROVE Spell(s, a, a)
  <2>1. /\ s[a].st = "DEAD"
        /\ \A q \in rows : (q.ts < s[a].ts /\ q.st = "DEAD") =>
              \E x \in rows : x.st = "ALIVE" /\ q.ts < x.ts /\ x.ts < s[a].ts
    BY <1>3 DEF FirstFailures
  <2>2. \A j \in a..a : s[j].st = "DEAD"
    BY <2>1
  <2>3. CASE a = 1
    BY <2>2, <2>3 DEF Spell
  <2>4. CASE a # 1
    <3>1. a - 1 \in 1..Len(s) /\ a - 1 < a
      BY <1>1, <2>4
    <3>2. s[a - 1].st # "DEAD"
      <4> SUFFICES ASSUME s[a - 1].st = "DEAD" PROVE FALSE
        OBVIOUS
      <4>1. s[a - 1] \in rows /\ s[a - 1].ts < s[a].ts
        BY <1>1, <3>1
      <4>2. PICK x \in rows : s[a - 1].ts < x.ts /\ x.ts < s[a].ts
        BY <2>1, <4>1
      <4>3. PICK i \in 1..Len(s) : s[i] = x
        BY <1>2
      <4>4. a - 1 < i /\ i < a
        BY <1>1, <3>1, <4>2, <4>3
      <4> QED BY <1>1, <4>4
    <3>3. s[a - 1].st = "ALIVE"
      BY <1>1, <3>1, <3>2
    <3> QED BY <2>2, <3>3 DEF Spell
  <2>5. QED
    BY <2>3, <2>4
<1>4. ASSUME Spell(s, a, a) PROVE s[a] \in FirstFailures(rows)
  <2>1. s[a].st = "DEAD" /\ s[a] \in rows /\ (a = 1 \/ s[a - 1].st = "ALIVE")
    BY <1>1, <1>4 DEF Spell
  <2>2. ASSUME NEW q \in rows, q.ts < s[a].ts, q.st = "DEAD"
        PROVE  \E x \in rows : x.st = "ALIVE" /\ q.ts < x.ts /\ x.ts < s[a].ts
    <3>1. PICK i \in 1..Len(s) : s[i] = q
      BY <1>2
    <3>2. i < a
      BY <1>1, <2>2, <3>1
    <3>3. a # 1 /\ a - 1 \in 1..Len(s) /\ s[a - 1].st = "ALIVE" /\ a - 1 < a
      BY <1>1, <2>1, <3>2
    <3>4. i # a - 1
      BY <2>2, <3>1, <3>3
    <3>5. i < a - 1
      BY <1>1, <3>2, <3>4
    <3>6. s[a - 1] \in rows /\ q.ts < s[a - 1].ts /\ s[a - 1].ts < s[a].ts
      BY <1>1, <3>1, <3>3, <3>5
    <3> QED BY <3>3, <3>6
  <2>3. QED
    BY <2>1, <2>2 DEF FirstFailures
<1>5. QED
  BY <1>3, <1>4

\* An outage that was over is listed from its first failure to the success
\* that ended it.
LEMMA ClosedOutage ==
    ASSUME NEW s, NEW rows, Ordered(s, rows), NEW a \in 1..Len(s), NEW b \in 1..Len(s),
           Closed(s, a, b)
    PROVE  OutageOf(rows, s[a]) = IncidentOf(s, a, b)
<1> DEFINE R == Recoveries(rows, s[a])
<1>1. /\ Len(s) \in Nat
      /\ \A i \in 1..Len(s) : s[i] \in rows /\ s[i].ts \in Nat /\ s[i].st \in {"ALIVE", "DEAD"}
      /\ \A i, j \in 1..Len(s) : s[i].ts < s[j].ts <=> i < j
  BY OrderedIs
<1>2. \A r \in rows : \E i \in 1..Len(s) : s[i] = r
  BY DEF Ordered
<1>3. a < b /\ s[b].st = "ALIVE" /\ \A j \in a..(b - 1) : s[j].st = "DEAD"
  BY DEF Closed, Spell
<1>4. s[b].ts \in R
  BY <1>1, <1>3 DEF Recoveries
<1>5. ASSUME NEW y \in R PROVE y \in Nat /\ s[b].ts <= y
  <2>1. PICK x \in rows : x.st = "ALIVE" /\ x.ts > s[a].ts /\ y = x.ts
    BY DEF Recoveries
  <2>2. PICK j \in 1..Len(s) : s[j] = x
    BY <1>2
  <2>3. a < j
    BY <1>1, <2>1, <2>2
  <2>4. j \notin a..(b - 1)
    BY <1>3, <2>1, <2>2
  <2>5. ~(j < b)
    BY <1>1, <2>3, <2>4
  <2>6. ~(s[j].ts < s[b].ts)
    BY <1>1, <2>5
  <2>7. QED
    BY <1>1, <2>1, <2>2, <2>6
<1> HIDE DEF R
<1>6. Min(R) = s[b].ts
  <2>1. s[b].ts \in R /\ \A y \in R : s[b].ts <= y
    BY <1>4, <1>5
  <2>2. Min(R) \in R /\ \A y \in R : Min(R) <= y
    BY <2>1 DEF Min
  <2>3. Min(R) <= s[b].ts /\ s[b].ts <= Min(R) /\ Min(R) \in Nat /\ s[b].ts \in Nat
    BY <1>1, <1>5, <2>1, <2>2
  <2>4. QED
    BY <2>3
<1>7. R # {}
  BY <1>4
<1>8. QED
  BY <1>6, <1>7 DEF OutageOf, IncidentOf, R

\* An outage that is not over has no end yet.
LEMMA OpenOutage ==
    ASSUME NEW s, NEW rows, Ordered(s, rows), NEW a \in 1..Len(s), Spell(s, a, Len(s))
    PROVE  OutageOf(rows, s[a]) = Incident(s[a].ts, None, s[Len(s)].ts - s[a].ts)
<1> DEFINE n == Len(s)
<1>1. /\ n \in Nat
      /\ \A i \in 1..n : s[i] \in rows /\ s[i].ts \in Nat /\ s[i].st \in {"ALIVE", "DEAD"}
      /\ \A i, j \in 1..n : s[i].ts < s[j].ts <=> i < j
  BY OrderedIs
<1>2. \A r \in rows : \E i \in 1..n : s[i] = r
  BY DEF Ordered
<1>3. \A j \in a..n : s[j].st = "DEAD"
  BY DEF Spell
<1> HIDE DEF n
<1>4. Recoveries(rows, s[a]) = {}
  <2> SUFFICES ASSUME NEW x \in rows, x.st = "ALIVE", x.ts > s[a].ts PROVE FALSE
    BY DEF Recoveries
  <2>1. PICK j \in 1..n : s[j] = x
    BY <1>2
  <2>2. a \in 1..n /\ a < j
    BY <1>1, <2>1 DEF n
  <2>3. j \in a..n
    BY <1>1, <2>2
  <2> QED BY <1>3, <2>1, <2>3
<1>5. Newest(rows).ts = s[n].ts
  <2>1. n \in 1..n /\ s[n] \in rows /\ s[n].ts \in Nat
    BY <1>1 DEF n
  <2>2. \A q \in rows : q.ts <= s[n].ts
    <3> TAKE q \in rows
    <3>1. PICK j \in 1..n : s[j] = q
      BY <1>2
    <3>2. ~(n < j)
      BY <1>1
    <3>3. ~(s[n].ts < s[j].ts)
      BY <1>1, <2>1, <3>2
    <3> QED BY <1>1, <2>1, <3>1, <3>3
  <2>3. Newest(rows) \in rows /\ \A q \in rows : q.ts <= Newest(rows).ts
    BY <2>1, <2>2 DEF Newest
  <2>4. PICK j \in 1..n : s[j] = Newest(rows)
    BY <1>2, <2>3
  <2>5. Newest(rows).ts \in Nat /\ Newest(rows).ts <= s[n].ts /\ s[n].ts <= Newest(rows).ts
    BY <1>1, <2>1, <2>2, <2>3, <2>4
  <2>6. QED
    BY <2>1, <2>5
<1>6. QED
  BY <1>4, <1>5 DEF OutageOf, n

\* A spell lasts to the last row, or is over before.
LEMMA SpellEnds ==
    ASSUME NEW s, NEW rows, Ordered(s, rows), NEW a \in 1..Len(s), Spell(s, a, a)
    PROVE  Spell(s, a, Len(s)) \/ \E b \in 1..Len(s) : Closed(s, a, b)
<1>1. /\ Len(s) \in Nat
      /\ \A i \in 1..Len(s) : s[i].st \in {"ALIVE", "DEAD"}
  BY OrderedIs
<1> DEFINE S == {j \in a..Len(s) : s[j].st # "DEAD"}
<1>2. a = 1 \/ s[a - 1].st = "ALIVE"
  BY DEF Spell
<1>3. CASE S = {}
  BY <1>2, <1>3 DEF Spell
<1>4. CASE S # {}
  <2>1. S \in SUBSET Nat
    BY <1>1
  <2>2. PICK b \in S : \A j \in S : b <= j
    <3> HIDE DEF S
    <3> QED BY <1>4, <2>1, LeastNatural
  <2>3. b \in 1..Len(s) /\ s[b].st = "ALIVE" /\ b >= a
    BY <1>1
  <2>4. b # a
    <3>1. s[a].st = "DEAD"
      BY DEF Spell
    <3> QED BY <2>3, <3>1
  <2>5. \A j \in a..(b - 1) : s[j].st = "DEAD"
    BY <1>1, <2>2, <2>3
  <2>6. a < b
    BY <1>1, <2>3, <2>4
  <2>7. Closed(s, a, b)
    BY <1>2, <2>3, <2>5, <2>6 DEF Closed, Spell
  <2>8. QED
    BY <2>3, <2>7
<1>5. QED
  BY <1>3, <1>4

\* A spell is one from its beginning on.
LEMMA SpellBegins ==
    ASSUME NEW s, NEW a \in Nat, NEW k \in Nat, a <= k, Spell(s, a, k)
    PROVE  Spell(s, a, a)
BY DEF Spell

\* all lists the outages of rows, oldest first
Enumerates(all, rows) ==
    /\ all \in Seq(IncidentRec) /\ ToSet(all) = Outages(rows)
    /\ \A i, j \in 1..Len(all) : i < j => all[i].started < all[j].started

\* What incidents collects before it reverses and cuts the list.
LEMMA AllIncidentsAre ==
    ASSUME NEW s, NEW rows, Ordered(s, rows)
    PROVE  Enumerates(AllIncidents(s), rows)
<1> DEFINE n == Len(s)
           acc == IncidentLoop(s)
           list == acc.list
           all == AllIncidents(s)
           m == Len(list)
<1>1. /\ Increasing(s) /\ n \in Nat
      /\ \A i \in 1..n : s[i] \in rows /\ s[i].ts \in Nat /\ s[i].st \in {"ALIVE", "DEAD"}
      /\ \A i, j \in 1..n : s[i].ts < s[j].ts <=> i < j
  BY OrderedIs
<1>2. /\ n = 0 \/ s[n].st = "ALIVE" => acc.open = None
      /\ n # 0 /\ s[n].st = "DEAD" => \E a \in 1..n : Spell(s, a, n) /\ acc.open = s[a].ts
      /\ Lists(s, n, list)
  BY <1>1, LoopEnds DEF LoopInv
<1>3. all = IF acc.open = None THEN list
            ELSE Append(list, Incident(acc.open, None, s[n].ts - acc.open))
  BY DEF AllIncidents, Last
<1> HIDE DEF acc, all
<1>4. list \in Seq(IncidentRec) /\ m \in Nat
      /\ \A i, j \in 1..m : i < j => list[i].started < list[j].started
  BY <1>2 DEF Lists
<1>5. Outages(rows) = {OutageOf(rows, r) : r \in FirstFailures(rows)}
  BY DEF Outages, OutageOf
<1>6. ASSUME NEW i \in 1..m
      PROVE  \E a \in 1..n : \E b \in 1..n : Closed(s, a, b) /\ list[i] = IncidentOf(s, a, b)
  BY <1>2 DEF Lists
<1>7. ASSUME NEW i \in 1..m PROVE list[i] \in Outages(rows)
  <2>1. PICK a \in 1..n : \E b \in 1..n : Closed(s, a, b) /\ list[i] = IncidentOf(s, a, b)
    BY <1>6
  <2>2. PICK b \in 1..n : Closed(s, a, b) /\ list[i] = IncidentOf(s, a, b)
    BY <2>1
  <2>3. a < b /\ Spell(s, a, b - 1)
    BY <2>2 DEF Closed
  <2>4. a \in Nat /\ b - 1 \in Nat /\ a <= b - 1
    BY <1>1, <2>3
  <2>5. Spell(s, a, a)
    BY <2>3, <2>4, SpellBegins
  <2>6. s[a] \in FirstFailures(rows)
    BY <2>5, FirstsAre
  <2>7. OutageOf(rows, s[a]) = list[i]
    BY <2>2, ClosedOutage
  <2>8. QED
    BY <1>5, <2>6, <2>7
<1>8. ASSUME NEW o \in Outages(rows)
      PROVE  \/ \E i \in 1..m : list[i] = o
             \/ \E a \in 1..n : /\ Spell(s, a, n)
                                /\ o = Incident(s[a].ts, None, s[n].ts - s[a].ts)
  <2>1. PICK r \in FirstFailures(rows) : o = OutageOf(rows, r)
    BY <1>5
  <2>2. r \in rows
    BY DEF FirstFailures
  <2>3. PICK a \in 1..n : s[a] = r
    BY <2>2 DEF Ordered
  <2>4. Spell(s, a, a)
    BY <2>3, FirstsAre
  <2>5. CASE Spell(s, a, n)
    BY <2>1, <2>3, <2>5, OpenOutage
  <2>6. ASSUME NEW b \in 1..n, Closed(s, a, b) PROVE \E i \in 1..m : list[i] = o
    <3>1. o = IncidentOf(s, a, b)
      BY <2>1, <2>3, <2>6, ClosedOutage
    <3> QED BY <1>2, <2>6, <3>1 DEF Lists
  <2>7. QED
    BY <2>4, <2>5, <2>6, SpellEnds
<1> HIDE DEF list, m
<1>9. CASE n = 0 \/ s[n].st = "ALIVE"
  <2>1. all = list
    BY <1>2, <1>3, <1>9
  <2>2. ASSUME NEW a \in 1..n, Spell(s, a, n) PROVE FALSE
    <3>1. n \in a..n /\ n # 0
      BY <1>1
    <3>2. s[n].st = "DEAD"
      BY <2>2, <3>1 DEF Spell
    <3> QED BY <1>9, <3>1, <3>2
  <2>3. ToSet(list) = {list[i] : i \in 1..m}
    BY <1>4 DEF ToSet, m
  <2>4. ToSet(list) = Outages(rows)
    <3>1. \A o \in Outages(rows) : \E i \in 1..m : list[i] = o
      BY <1>8, <2>2
    <3> QED BY <1>7, <2>3, <3>1
  <2>5. QED
    BY <1>4, <2>1, <2>4 DEF Enumerates, all, m
<1>10. CASE n # 0 /\ s[n].st = "DEAD"
  <2>1. PICK a \in 1..n : Spell(s, a, n) /\ acc.open = s[a].ts
    BY <1>2, <1>10
  <2>2. s[a].ts \in Nat /\ s[n].ts \in Nat /\ acc.open # None
    BY <1>1, <1>10, <2>1 DEF None
  <2> DEFINE x == Incident(s[a].ts, None, s[n].ts - s[a].ts)
  <2>3. all = Append(list, x)
    BY <1>3, <2>1, <2>2
  <2>4. x \in IncidentRec /\ x.started = s[a].ts
    <3>1. None \in Int /\ s[n].ts - s[a].ts \in Int
      BY <2>2 DEF None
    <3> QED BY <2>2, <3>1 DEF Incident, IncidentRec
  <2>5. x \in Outages(rows)
    <3>1. a \in Nat /\ n \in Nat /\ a <= n
      BY <1>1
    <3>2. Spell(s, a, a)
      BY <2>1, <3>1, SpellBegins
    <3>3. s[a] \in FirstFailures(rows)
      BY <3>2, FirstsAre
    <3>4. OutageOf(rows, s[a]) = x
      BY <2>1, OpenOutage
    <3> QED BY <1>5, <3>3, <3>4
  <2> HIDE DEF x
  <2>6. /\ all \in Seq(IncidentRec) /\ Len(all) = m + 1 /\ all[m + 1] = x
        /\ \A i \in 1..m : all[i] = list[i]
    BY <1>4, <2>3, <2>4 DEF m
  <2>7. ToSet(all) = {all[i] : i \in 1..(m + 1)}
    BY <2>6 DEF ToSet
  <2>8. ASSUME NEW i \in 1..(m + 1) PROVE all[i] \in Outages(rows)
    <3>1. CASE i = m + 1
      BY <2>5, <2>6, <3>1
    <3>2. CASE i \in 1..m
      BY <1>7, <2>6, <3>2
    <3> QED BY <1>4, <3>1, <3>2
  <2>9. ASSUME NEW o \in Outages(rows) PROVE \E i \in 1..(m + 1) : all[i] = o
    <3>1. ASSUME NEW i \in 1..m, list[i] = o PROVE i \in 1..(m + 1) /\ all[i] = o
      BY <1>4, <2>6, <3>1
    <3>2. ASSUME NEW c \in 1..n, Spell(s, c, n), o = Incident(s[c].ts, None, s[n].ts - s[c].ts)
          PROVE  m + 1 \in 1..(m + 1) /\ all[m + 1] = o
      <4>1. c = a
        BY <1>1, <2>1, <3>2, SpellUnique
      <4> QED BY <1>4, <2>6, <3>2, <4>1 DEF x
    <3> QED BY <1>8, <3>1, <3>2
  <2>10. ToSet(all) = Outages(rows)
    BY <2>7, <2>8, <2>9
  <2>11. ASSUME NEW i \in 1..m PROVE list[i].started < x.started
    <3>1. PICK c \in 1..n : \E b \in 1..n : Closed(s, c, b) /\ list[i] = IncidentOf(s, c, b)
      BY <1>6
    <3>2. PICK b \in 1..n : Closed(s, c, b) /\ list[i] = IncidentOf(s, c, b)
      BY <3>1
    <3>3. c < b /\ s[b].st = "ALIVE"
      BY <3>2 DEF Closed
    <3>4. b \notin a..n
      BY <2>1, <3>3 DEF Spell
    <3>5. c < a
      BY <1>1, <3>3, <3>4
    <3>6. s[c].ts < s[a].ts
      BY <1>1, <3>5
    <3>7. list[i].started = s[c].ts
      BY <1>1, <3>2, IncidentTyped
    <3> QED BY <2>4, <3>6, <3>7
  <2>12. ASSUME NEW i \in 1..(m + 1), NEW j \in 1..(m + 1), i < j
         PROVE  all[i].started < all[j].started
    <3>1. i \in 1..m
      BY <1>4, <2>12
    <3>2. CASE j = m + 1
      BY <2>6, <2>11, <3>1, <3>2
    <3>3. CASE j # m + 1
      <4>1. j \in 1..m
        BY <1>4, <3>3
      <4> QED BY <1>4, <2>6, <2>12, <3>1, <4>1
    <3> QED BY <3>2, <3>3
  <2>13. QED
    BY <2>6, <2>10, <2>12 DEF Enumerates, all
<1>11. QED
  <2>1. n = 0 \/ n \in 1..n
    BY <1>1
  <2> QED BY <1>1, <1>9, <1>10, <2>1

-----------------------------------------------------------------------------
(* The list that a page shows *)

\* The rows a query of a peer reads are dated.
LEMMA RecentDated ==
    ASSUME RowsInv, NEW p \in Peer, NEW rows \in SUBSET hist[p]
    PROVE  Dated(rows)
<1>1. /\ hist[p] \subseteq Row /\ IsFiniteSet(hist[p])
      /\ \A r, q \in hist[p] : r.ts = q.ts => r = q
  BY DEF RowsInv, BaseInv, TypeOK, DatesInv
<1>2. IsFiniteSet(rows)
  BY <1>1, FS_Subset
<1>3. QED
  BY <1>1, <1>2 DEF Dated

\* A list without repetitions is as long as the set of its elements is large.
LEMMA EnumeratedCard ==
    ASSUME NEW all, NEW rows, Enumerates(all, rows)
    PROVE  Cardinality(Outages(rows)) = Len(all) /\ Len(all) \in Nat
<1> DEFINE n == Len(all)
           T == Outages(rows)
<1>1. n \in Nat /\ DOMAIN all = 1..n /\ ToSet(all) = T /\ all \in Seq(IncidentRec)
  BY DEF Enumerates
<1>2. \A i, j \in 1..n : i < j => all[i].started < all[j].started
  BY DEF Enumerates
<1>3. \A i \in 1..n : all[i] \in IncidentRec /\ all[i].started \in Nat
  <2>1. \A i \in 1..n : all[i] \in IncidentRec
    BY <1>1
  <2> QED BY <2>1 DEF IncidentRec
<1>4. T = {all[i] : i \in 1..n}
  BY <1>1 DEF ToSet
<1> HIDE DEF n, T
<1>5. ASSUME NEW i \in 1..n, NEW j \in 1..n, all[i] = all[j] PROVE i = j
  <2>1. ~(i < j) /\ ~(j < i)
    BY <1>2, <1>3, <1>5
  <2> QED BY <1>1, <2>1
<1>6. all \in [1..n -> T]
  BY <1>1, <1>4
<1>7. all \in Injection(1..n, T)
  BY <1>1, <1>5, <1>6 DEF Injection, IsInjective
<1>8. all \in Surjection(1..n, T)
  BY <1>4, <1>6 DEF Surjection
<1>9. ExistsBijection(1..n, T)
  BY <1>7, <1>8 DEF ExistsBijection, Bijection
<1>10. QED
  BY <1>1, <1>9, FS_CountingElements DEF n, T

\* What reversing a list and cutting it off keeps: its newest elements.
LEMMA Newests ==
    ASSUME NEW all, NEW rows, Enumerates(all, rows), NEW m \in Nat, m <= Len(all)
    PROVE  LET list == SubSeq(Reverse(all), 1, m)
           IN  /\ Len(list) = m /\ list \in Seq(IncidentRec)
               /\ \A i \in 1..m : list[i] = all[Len(all) - i + 1]
<1> DEFINE n == Len(all)
           rev == Reverse(all)
<1>1. n \in Nat /\ all \in Seq(IncidentRec)
  BY DEF Enumerates
<1>2. rev = [i \in 1..n |-> all[(n - i) + 1]]
  BY DEF Reverse
<1>3. \A i \in 1..n : (n - i) + 1 \in 1..n /\ all[(n - i) + 1] \in IncidentRec
  BY <1>1
<1> HIDE DEF n, rev
<1>4. rev \in [1..n -> IncidentRec]
  BY <1>2, <1>3
<1>5. rev \in Seq(IncidentRec) /\ Len(rev) = n
  BY <1>1, <1>4
<1>6. /\ SubSeq(rev, 1, m) \in Seq(IncidentRec) /\ Len(SubSeq(rev, 1, m)) = m
      /\ \A i \in 1..m : SubSeq(rev, 1, m)[i] = rev[i]
  BY <1>1, <1>5 DEF n
<1>7. \A i \in 1..m : rev[i] = all[n - i + 1]
  BY <1>1, <1>2 DEF n
<1>8. QED
  BY <1>6, <1>7 DEF n, rev

\* The smaller of two numbers.
LEMMA MinOfTwo ==
    ASSUME NEW x \in Nat, NEW y \in Nat
    PROVE  Min({x, y}) = IF y > x THEN x ELSE y
<1>1. CASE y > x
  BY <1>1 DEF Min
<1>2. CASE ~(y > x)
  BY <1>2 DEF Min
<1>3. QED
  BY <1>1, <1>2

\* The page lists the newest outages, one that no edge opens included.
LEMMA IncidentsExact ==
    ASSUME RowsInv, NEW p \in Peer
    PROVE  LET list == incidents(p)
               outages == Outages(Recent(p))
           IN  /\ Len(list) \in Nat
               /\ \A i \in 1..Len(list) : list[i] \in outages
               /\ Len(list) = Min({Limit, Cardinality(outages)})
               /\ \A i \in 1..(Len(list) - 1) : list[i].started > list[i + 1].started
               /\ \A o \in outages \ ToSet(list) :
                     Len(list) = Limit /\ o.started < Last(list).started
<1> DEFINE rows == Recent(p)
           all == AllIncidents(Sorted(rows))
           n == Len(all)
           m == IF n > Limit THEN Limit ELSE n
           list == incidents(p)
           T == Outages(rows)
<1>1. Limit \in Nat /\ Limit >= 1
  BY ViewAssumption
<1>2. Enumerates(all, rows)
  <2>1. rows \in SUBSET hist[p]
    BY DEF Recent
  <2>2. Ordered(Sorted(rows), rows)
    BY <2>1, RecentDated, SortedOrdered
  <2> QED BY <2>2, AllIncidentsAre
<1>3. n \in Nat /\ Cardinality(T) = n
  BY <1>2, EnumeratedCard
<1>4. m \in Nat /\ m <= n /\ (m = n \/ m = Limit)
  BY <1>1, <1>3
<1>5. list = SubSeq(Reverse(all), 1, m)
  BY DEF incidents
<1>6. /\ ToSet(all) = T /\ all \in Seq(IncidentRec)
      /\ \A i, j \in 1..n : i < j => all[i].started < all[j].started
  BY <1>2 DEF Enumerates
<1>7. m = Min({Limit, n})
  BY <1>1, <1>3, MinOfTwo
<1> HIDE DEF list, m, all, rows, T
<1>8. /\ Len(list) = m /\ list \in Seq(IncidentRec)
      /\ \A i \in 1..m : list[i] = all[n - i + 1]
  BY <1>2, <1>4, <1>5, Newests
<1> HIDE DEF n
<1>9. ToSet(list) = {list[i] : i \in 1..m} /\ T = {all[i] : i \in 1..n}
  <2>1. DOMAIN list = 1..m /\ DOMAIN all = 1..n
    BY <1>6, <1>8 DEF n
  <2> QED BY <1>6, <2>1 DEF ToSet
<1>10. \A i \in 1..m : n - i + 1 \in 1..n
  BY <1>3, <1>4
<1>11. ASSUME NEW i \in 1..(m - 1) PROVE list[i].started > list[i + 1].started
  <2>1. i \in 1..m /\ i + 1 \in 1..m
    BY <1>4
  <2>2. n - (i + 1) + 1 \in 1..n /\ n - i + 1 \in 1..n /\ n - (i + 1) + 1 < n - i + 1
    BY <1>3, <1>4
  <2>3. list[i] = all[n - i + 1] /\ list[i + 1] = all[n - (i + 1) + 1]
    BY <1>8, <2>1
  <2>4. all[n - (i + 1) + 1].started < all[n - i + 1].started
    BY <1>6, <2>2
  <2>5. \A k \in 1..n : all[k] \in IncidentRec
    BY <1>6 DEF n
  <2>6. all[n - (i + 1) + 1].started \in Nat /\ all[n - i + 1].started \in Nat
    BY <2>2, <2>5 DEF IncidentRec
  <2>7. QED
    BY <2>3, <2>4, <2>6
<1>12. ASSUME NEW o \in T \ ToSet(list) PROVE m = Limit /\ o.started < Last(list).started
  <2>1. PICK k \in 1..n : all[k] = o
    BY <1>9
  <2>2. k < n - m + 1
    <3> SUFFICES ASSUME k >= n - m + 1 PROVE FALSE
      BY <1>3, <1>4
    <3>1. n - k + 1 \in 1..m /\ n - (n - k + 1) + 1 = k
      BY <1>3, <1>4
    <3>2. list[n - k + 1] = all[n - (n - k + 1) + 1]
      BY <1>8, <3>1
    <3>3. list[n - k + 1] = o
      BY <2>1, <3>1, <3>2
    <3> QED BY <1>9, <3>1, <3>3
  <2>3. m \in 1..m /\ n - m + 1 \in 1..n
    BY <1>1, <1>3, <1>4, <2>2
  <2>4. Last(list) = all[n - m + 1]
    BY <1>8, <2>3 DEF Last
  <2>5. QED
    BY <1>3, <1>4, <1>6, <2>1, <2>2, <2>3, <2>4
<1>13. \A i \in 1..m : list[i] \in T
  BY <1>8, <1>9, <1>10
<1>14. QED
  BY <1>3, <1>4, <1>7, <1>8, <1>11, <1>12, <1>13 DEF list, T, rows

\* An outage begins with a row, and one with no success before it with the
\* first row.
LEMMA OutageBegins ==
    ASSUME NEW rows, Dated(rows), NEW o \in Outages(rows)
    PROVE  /\ \E r \in rows : r.ts = o.started
           /\ o \in EdgeOutages(rows) \/ \A r \in rows : o.started <= r.ts
<1>1. PICK r \in FirstFailures(rows) : o = OutageOf(rows, r)
  BY DEF Outages, OutageOf
<1>2. o.started = r.ts
  BY <1>1 DEF OutageOf, Incident
<1>3. r \in rows
  BY DEF FirstFailures
<1>4. ASSUME o \notin EdgeOutages(rows), NEW q \in rows PROVE r.ts <= q.ts
  <2>1. \A a \in rows : a.st = "ALIVE" => ~(a.ts < r.ts)
    BY <1>2, <1>4 DEF EdgeOutages
  <2>2. q.ts \in Nat /\ r.ts \in Nat /\ q.st \in {"ALIVE", "DEAD"}
    BY <1>3 DEF Dated, Row
  <2>3. CASE q.ts < r.ts
    <3>1. q.st = "DEAD"
      BY <2>1, <2>2, <2>3
    <3>2. PICK a \in rows : a.st = "ALIVE" /\ q.ts < a.ts /\ a.ts < r.ts
      BY <2>3, <3>1 DEF FirstFailures
    <3>3. QED
      BY <2>1, <3>2
  <2>4. QED
    BY <2>2, <2>3
<1>5. QED
  BY <1>2, <1>3, <1>4

LEMMA IncidentsAgree == RowsInv => IncidentsAreOutages
<1> SUFFICES ASSUME RowsInv, NEW p \in Peer
             PROVE  LET list == incidents(p)
                        rows == Recent(p)
                        edges == EdgeOutages(rows)
                    IN  /\ \A i \in 1..Len(list) :
                              \/ list[i] \in edges
                              \/ /\ i = Len(list) /\ list[i] \in Outages(rows)
                                 /\ \A r \in rows : list[i].started <= r.ts
                        /\ \A i \in 1..(Len(list) - 1) : list[i].started > list[i + 1].started
                        /\ \A o \in edges \ ToSet(list) :
                              Len(list) = Limit /\ o.started < Last(list).started
  BY DEF IncidentsAreOutages
<1> DEFINE list == incidents(p)
           rows == Recent(p)
           n == Len(list)
<1>1. Dated(rows)
  <2>1. rows \in SUBSET hist[p]
    BY DEF Recent
  <2> QED BY <2>1, RecentDated
<1>2. /\ n \in Nat /\ \A i \in 1..n : list[i] \in Outages(rows)
      /\ \A i \in 1..(n - 1) : list[i].started > list[i + 1].started
      /\ \A o \in Outages(rows) \ ToSet(list) : n = Limit /\ o.started < Last(list).started
  BY IncidentsExact
<1> HIDE DEF list, rows, n
<1>3. ASSUME NEW i \in 1..n, list[i] \notin EdgeOutages(rows)
      PROVE  i = n /\ \A r \in rows : list[i].started <= r.ts
  <2>1. list[i] \in Outages(rows)
    BY <1>2
  <2>2. \A r \in rows : list[i].started <= r.ts
    BY <1>1, <1>3, <2>1, OutageBegins
  <2>3. CASE i # n
    <3>1. i \in 1..(n - 1) /\ i + 1 \in 1..n
      BY <1>2, <2>3
    <3>2. list[i].started > list[i + 1].started /\ list[i + 1] \in Outages(rows)
      BY <1>2, <3>1
    <3>3. PICK r \in rows : r.ts = list[i + 1].started
      BY <1>1, <3>2, OutageBegins
    <3>4. PICK q \in rows : q.ts = list[i].started
      BY <1>1, <2>1, OutageBegins
    <3>5. r.ts \in Nat /\ q.ts \in Nat
      BY <1>1 DEF Dated, Row
    <3>6. q.ts > r.ts /\ q.ts <= r.ts
      BY <2>2, <3>2, <3>3, <3>4
    <3>7. QED
      BY <3>5, <3>6
  <2>4. QED
    BY <2>2, <2>3
<1>4. EdgeOutages(rows) \subseteq Outages(rows)
  BY DEF EdgeOutages
<1>5. QED
  BY <1>2, <1>3, <1>4 DEF list, rows, n

\* The single pass of HistoryStore.incidents always reports the outages that
\* edges from ALIVE begin, newest first, drops only the oldest ones, and adds
\* at most one, in which the window begins.
THEOREM IncidentsAlwaysOutages == ViewSpec => []IncidentsAreOutages
BY RowsAlways, IncidentsAgree, PTL

-----------------------------------------------------------------------------
(* A page that is built while the monitor goes on *)

\* A failure of the last month shows as an incident.
LEMMA FailureListed ==
    ASSUME RowsInv, NEW p \in Peer, NEW f \in hist[p], f.st = "DEAD", f.ts >= now - MONTH
    PROVE  incidents(p) # <<>>
<1> DEFINE rows == Recent(p)
           all == AllIncidents(Sorted(rows))
<1>1. rows \in SUBSET hist[p] /\ f \in rows
  BY DEF Recent
<1>2. Dated(rows)
  BY <1>1, RecentDated
<1>3. Enumerates(all, rows)
  <2>1. Ordered(Sorted(rows), rows)
    BY <1>2, SortedOrdered
  <2> QED BY <2>1, AllIncidentsAre
<1> HIDE DEF rows, all
<1>4. FirstFailures(rows) # {}
  <2> DEFINE S == {q.ts : q \in {r \in rows : r.st = "DEAD"}}
  <2>1. S \in SUBSET Nat /\ S # {}
    BY <1>1, <1>2 DEF Dated, Row
  <2>2. PICK t \in S : \A u \in S : t <= u
    <3> HIDE DEF S
    <3> QED BY <2>1, LeastNatural
  <2>3. PICK r \in rows : r.st = "DEAD" /\ r.ts = t
    OBVIOUS
  <2>4. ASSUME NEW q \in rows, q.st = "DEAD" PROVE ~(q.ts < r.ts)
    <3>1. q.ts \in S
      BY <2>4
    <3>2. r.ts <= q.ts /\ r.ts \in Nat /\ q.ts \in Nat
      BY <2>1, <2>2, <2>3, <3>1
    <3> QED BY <3>2
  <2>5. r \in FirstFailures(rows)
    BY <2>3, <2>4 DEF FirstFailures
  <2>6. QED
    BY <2>5
<1>5. Outages(rows) # {}
  BY <1>4 DEF Outages
<1>6. Cardinality(Outages(rows)) = Len(all) /\ Len(all) \in Nat
  BY <1>3, EnumeratedCard
<1>7. Len(all) # 0
  <2>1. ToSet(all) = Outages(rows) /\ all \in Seq(IncidentRec)
    BY <1>3 DEF Enumerates
  <2>2. DOMAIN all # {}
    BY <1>5, <2>1 DEF ToSet
  <2> QED BY <2>1, <2>2
<1>8. Len(incidents(p)) = Min({Limit, Len(all)})
  BY <1>6, IncidentsExact DEF rows
<1>9. Limit \in Nat /\ Limit # 0
  BY ViewAssumption
<1>10. Len(incidents(p)) # 0
  BY <1>6, <1>7, <1>8, <1>9, MinOfTwo
<1>11. QED
  BY <1>10

\* An uptime below 100 % is of a day with a failure.
LEMMA UptimeShows ==
    ASSUME RowsInv, NEW p \in Peer,
           uptime_percent(p, DAY).ok # uptime_percent(p, DAY).total
    PROVE  \E r \in hist[p] : r.st = "DEAD" /\ r.ts >= now - DAY
<1> DEFINE rows == Between(p, now - DAY, now)
<1>1. Alive(rows) # Cardinality(rows)
  BY DEF uptime_percent, Share
<1>2. {r \in rows : r.st = "ALIVE"} # rows
  BY <1>1 DEF Alive
<1>3. PICK r \in rows : r.st # "ALIVE"
  BY <1>2
<1>4. r \in hist[p] /\ now - DAY <= r.ts
  BY DEF Between
<1>5. r \in Row /\ now \in Nat /\ DAY \in Nat
  BY <1>4, ViewAssumption DEF RowsInv, BaseInv, TypeOK
<1>6. r.st = "DEAD" /\ r.ts \in Nat
  BY <1>3, <1>5 DEF Row
<1>7. QED
  BY <1>4, <1>5, <1>6

\* The beats of a page are rows of the peer.
LEMMA BeatsAreRows ==
    ASSUME RowsInv, NEW p \in Peer
    PROVE  ToSet(recent_beats(p)) \subseteq hist[p]
<1> DEFINE all == Sorted(hist[p])
           n == Len(all)
           from == IF n > Limit THEN n - Limit + 1 ELSE 1
           beats == SubSeq(all, from, n)
<1>1. Ordered(all, hist[p])
  <2>1. hist[p] \in SUBSET hist[p]
    OBVIOUS
  <2> QED BY <2>1, RecentDated, SortedOrdered
<1>2. all \in Seq(Row) /\ n \in Nat /\ \A i \in 1..n : all[i] \in hist[p]
  BY <1>1 DEF Ordered
<1>3. Limit \in Nat \ {0}
  BY ViewAssumption
<1>4. from \in 1..(n + 1)
  BY <1>2, <1>3
<1>5. recent_beats(p) = beats
  BY DEF recent_beats
<1> HIDE DEF all, from
<1>6. /\ beats \in Seq(Row) /\ Len(beats) = n - from + 1
      /\ \A i \in 1..(n - from + 1) : beats[i] = all[from + i - 1] /\ from + i - 1 \in 1..n
  BY <1>2, <1>4
<1> HIDE DEF beats
<1>7. DOMAIN beats = 1..(n - from + 1)
  BY <1>6
<1>8. \A i \in DOMAIN beats : beats[i] \in hist[p]
  BY <1>2, <1>6, <1>7
<1>9. QED
  BY <1>5, <1>8 DEF ToSet

\* The clock is monotone, and history only grows.
LEMMA TimePasses ==
    ASSUME BaseInv, [Next]_vars
    PROVE  /\ now' \in Nat /\ now <= now'
           /\ \A p \in Peer : hist[p] \subseteq hist'[p]
<1>1. now \in Nat
  BY DEF BaseInv, TypeOK
<1>2. now' = now \/ now' = now + 1
  <2>1. CASE Tick \/ StartCycle
    BY <2>1 DEF Tick, StartCycle, Advance
  <2>2. CASE FinishCycle \/ ApplyDevicesReload \/ CheckReload \/ Restart \/ HistoryGC
             \/ UNCHANGED vars
    BY <2>2 DEF FinishCycle, ApplyDevicesReload, CheckReload, Restart, HistoryGC, vars
  <2>3. ASSUME NEW x \in Peer, FinishProbe(x) \/ WebhookDone(x) \/ PushWaits(x) \/ ChangeTrust(x)
                                 \/ ScheduleMaintenance(x) \/ ClearMaintenance(x)
        PROVE  now' = now
    BY <2>3 DEF FinishProbe, WebhookDone, PushWaits, ChangeTrust, ScheduleMaintenance,
                ClearMaintenance
  <2>4. ASSUME NEW x \in Peer, Push(x) PROVE now' = now + 1
    BY <2>4 DEF Push, Advance
  <2>5. QED
    BY <2>1, <2>2, <2>3, <2>4 DEF Next
<1>3. \A p \in Peer : hist[p] \subseteq hist'[p]
  BY HistoryStep
<1>4. QED
  BY <1>1, <1>2, <1>3

\* The page comes with an incident, or shows nothing to explain
Explained == \/ page.incidents # <<>>
             \/ /\ page.uptime.ok = page.uptime.total
                /\ \A r \in ToSet(page.beats) : r.st = "ALIVE" \/ r.ts < page.at - DAY

\* What a page has shown so far is in the history it still has to read, and it
\* is not so old that the incidents would have forgotten it.
PageInv ==
    \/ page = NoPage
    \/ /\ page.pc \in {"uptime", "beats", "incidents", "shown"}
       /\ page.peer \in Peer /\ page.at \in Nat /\ page.at <= now /\ now <= page.at + PageMax
       /\ page.pc \in {"uptime", "beats"} /\ page.uptime.ok # page.uptime.total =>
             \E r \in hist[page.peer] : r.st = "DEAD" /\ r.ts >= page.at - DAY
       /\ page.pc = "beats" => \A r \in ToSet(page.beats) : r \in hist[page.peer]
       /\ page.pc \in {"incidents", "shown"} => Explained

\* While a page is built, every step preserves what it rests on.
LEMMA NextKeepsPage ==
    ASSUME RowsInv, PageInv, [ViewNext]_<<vars, page>>
    PROVE  PageInv'
<1>0. /\ BaseInv /\ now \in Nat /\ DAY \in Nat /\ PageMax \in Nat /\ MONTH \in Nat
      /\ DAY + PageMax <= MONTH /\ NoPage.pc = "none"
  BY ViewAssumption DEF RowsInv, BaseInv, TypeOK, NoPage
<1>1. CASE Monitor \/ UNCHANGED <<vars, page>>
  <2>1. [Next]_vars /\ page' = page
    BY <1>1 DEF Monitor
  <2>2. now' \in Nat /\ now <= now' /\ \A p \in Peer : hist[p] \subseteq hist'[p]
    BY <1>0, <2>1, TimePasses
  <2>3. page # NoPage => now' - page.at <= PageMax \/ now' = now
    BY <1>1 DEF Monitor, vars
  <2>4. CASE page = NoPage
    BY <2>1, <2>4 DEF PageInv, NoPage
  <2>5. CASE page # NoPage
    <3>1. /\ page.pc \in {"uptime", "beats", "incidents", "shown"}
          /\ page.peer \in Peer /\ page.at \in Nat /\ page.at <= now /\ now <= page.at + PageMax
          /\ page.pc \in {"uptime", "beats"} /\ page.uptime.ok # page.uptime.total =>
                \E r \in hist[page.peer] : r.st = "DEAD" /\ r.ts >= page.at - DAY
          /\ page.pc = "beats" => \A r \in ToSet(page.beats) : r \in hist[page.peer]
          /\ page.pc \in {"incidents", "shown"} => Explained
      BY <2>5 DEF PageInv
    <3>2. page.at <= now' /\ now' <= page.at + PageMax
      BY <1>0, <2>2, <2>3, <2>5, <3>1
    <3>3. hist[page.peer] \subseteq hist'[page.peer]
      BY <2>2, <3>1
    <3>4. Explained' <=> Explained
      BY <2>1 DEF Explained
    <3>5. QED
      BY <2>1, <3>1, <3>2, <3>3, <3>4 DEF PageInv
  <2>6. QED
    BY <2>4, <2>5
<1>2. ASSUME NEW p \in Peer, PageStart(p) PROVE PageInv'
  <2>1. /\ page'.pc = "uptime" /\ page'.peer = p /\ page'.at = now
        /\ page'.uptime = uptime_percent(p, DAY)
    BY <1>2 DEF PageStart
  <2>2. now' = now /\ hist' = hist
    BY <1>2 DEF PageStart, vars
  <2>3. uptime_percent(p, DAY).ok # uptime_percent(p, DAY).total =>
          \E r \in hist[p] : r.st = "DEAD" /\ r.ts >= now - DAY
    BY UptimeShows
  <2>4. now <= now + PageMax
    BY <1>0
  <2>5. QED
    BY <1>0, <2>1, <2>2, <2>3, <2>4 DEF PageInv
<1>3. CASE PageBeats
  <2>1. /\ page'.pc = "beats" /\ page'.peer = page.peer /\ page'.at = page.at
        /\ page'.uptime = page.uptime /\ page'.beats = recent_beats(page.peer)
        /\ page.pc = "uptime"
    BY <1>3 DEF PageBeats
  <2>2. now' = now /\ hist' = hist
    BY <1>3 DEF PageBeats, vars
  <2>3. /\ page.peer \in Peer /\ page.at \in Nat /\ page.at <= now /\ now <= page.at + PageMax
        /\ page.uptime.ok # page.uptime.total =>
              \E r \in hist[page.peer] : r.st = "DEAD" /\ r.ts >= page.at - DAY
    BY <1>0, <2>1 DEF PageInv
  <2>4. \A r \in ToSet(page'.beats) : r \in hist[page.peer]
    BY <2>1, <2>3, BeatsAreRows
  <2>5. QED
    BY <2>1, <2>2, <2>3, <2>4 DEF PageInv
<1>4. CASE PageIncidents
  <2>1. /\ page'.pc = "incidents" /\ page'.peer = page.peer /\ page'.at = page.at
        /\ page'.uptime = page.uptime /\ page'.beats = page.beats
        /\ page'.incidents = incidents(page.peer) /\ page.pc = "beats"
    BY <1>4 DEF PageIncidents
  <2>2. now' = now /\ hist' = hist
    BY <1>4 DEF PageIncidents, vars
  <2>3. /\ page.peer \in Peer /\ page.at \in Nat /\ page.at <= now /\ now <= page.at + PageMax
        /\ page.uptime.ok # page.uptime.total =>
              \E r \in hist[page.peer] : r.st = "DEAD" /\ r.ts >= page.at - DAY
        /\ \A r \in ToSet(page.beats) : r \in hist[page.peer]
    BY <1>0, <2>1 DEF PageInv
  <2>4. \A r \in hist[page.peer] : r.ts \in Nat /\ r.st \in {"ALIVE", "DEAD"}
    BY <2>3 DEF RowsInv, BaseInv, TypeOK, Row
  <2>5. ASSUME NEW r \in hist[page.peer], r.st = "DEAD", r.ts >= page.at - DAY
        PROVE  incidents(page.peer) # <<>>
    <3>1. r.ts >= now - MONTH
      BY <1>0, <2>3, <2>4, <2>5
    <3> QED BY <2>3, <2>5, <3>1, FailureListed
  <2>6. \/ page'.incidents # <<>>
        \/ /\ page.uptime.ok = page.uptime.total
           /\ \A r \in ToSet(page.beats) : r.st = "ALIVE" \/ r.ts < page.at - DAY
    <3> SUFFICES ASSUME page'.incidents = <<>>
                 PROVE  /\ page.uptime.ok = page.uptime.total
                        /\ \A r \in ToSet(page.beats) : r.st = "ALIVE" \/ r.ts < page.at - DAY
      OBVIOUS
    <3>1. \A r \in hist[page.peer] : ~(r.st = "DEAD" /\ r.ts >= page.at - DAY)
      BY <2>1, <2>5
    <3>2. ASSUME NEW r \in ToSet(page.beats) PROVE r.st = "ALIVE" \/ r.ts < page.at - DAY
      <4>1. r \in hist[page.peer] /\ r.ts \in Nat /\ r.st \in {"ALIVE", "DEAD"}
        BY <2>3, <2>4
      <4> QED BY <1>0, <2>3, <3>1, <4>1
    <3> QED BY <2>3, <3>1, <3>2
  <2>7. Explained'
    BY <2>1, <2>6 DEF Explained
  <2>8. QED
    BY <2>1, <2>2, <2>3, <2>7 DEF PageInv
<1>5. CASE PageShown
  <2>1. /\ page'.pc = "shown" /\ page'.peer = page.peer /\ page'.at = page.at
        /\ page'.uptime = page.uptime /\ page'.beats = page.beats
        /\ page'.incidents = page.incidents /\ page.pc = "incidents"
    BY <1>5 DEF PageShown
  <2>2. now' = now /\ hist' = hist
    BY <1>5 DEF PageShown, vars
  <2>3. /\ page.peer \in Peer /\ page.at \in Nat /\ page.at <= now /\ now <= page.at + PageMax
        /\ Explained
    BY <1>0, <2>1 DEF PageInv
  <2>4. Explained'
    BY <2>1, <2>3 DEF Explained
  <2>5. QED
    BY <2>1, <2>2, <2>3, <2>4 DEF PageInv
<1>6. CASE PageSent
  BY <1>6 DEF PageSent, PageInv, NoPage
<1>7. QED
  BY <1>1, <1>2, <1>3, <1>4, <1>5, <1>6 DEF ViewNext

\* A page of WebApp._build_peers that shows an uptime below 100 % or a failed
\* beat of the last day lists an incident, although uptime, beats and incidents
\* are read at different times while probes and pushes write history.
THEOREM PageAlwaysExplained == ViewSpec => []DowntimeExplained
<1>1. ViewInit => PageInv
  BY DEF ViewInit, PageInv
<1>2. RowsInv /\ PageInv /\ [ViewNext]_<<vars, page>> => PageInv'
  BY NextKeepsPage
<1>3. PageInv => DowntimeExplained
  BY DEF PageInv, DowntimeExplained, Explained, NoPage
<1>4. QED
  BY <1>1, <1>2, <1>3, RowsAlways, PTL DEF ViewSpec
=============================================================================
