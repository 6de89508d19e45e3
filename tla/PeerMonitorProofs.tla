------------------------- MODULE PeerMonitorProofs -------------------------
(***************************************************************************)
(* What holds of the monitor for every set of peers, every threshold,      *)
(* dwell and clock bound: type correctness and the spacing of webhook      *)
(* timestamps, whatever happens; when no reload replaces the device table, *)
(* that every logged transition is borne out by consecutive results and    *)
(* that the monitor implements the abstract failure detector; and that log *)
(* and status agree and no outage goes unnoticed, over the disturbances    *)
(* that each theorem names.                                                *)
(***************************************************************************)
EXTENDS PeerMonitor, FiniteSetTheorems, WellFoundedInduction, TLAPS

Result == {"ALIVE", "DEAD"}

-----------------------------------------------------------------------------
(* Lemmas about history and the states rebuilt from it *)

\* A non-empty set of rows with bounded timestamps has a newest row.
LEMMA NewestExists ==
    ASSUME NEW h, h \subseteq Row, h # {},
           NEW n \in Nat, \A r \in h : r.ts <= n
    PROVE  Newest(h) \in h /\ \A q \in h : q.ts <= Newest(h).ts
<1> DEFINE ages == {n - r.ts : r \in h}
<1>1. ages \subseteq Nat /\ ages # {}
  BY DEF Row
<1>2. PICK a \in ages : \A b \in ages : ~(<<b, a>> \in OpToRel(<, Nat))
  BY <1>1, NatLessThanWellFounded, WFMin
<1>3. \A b \in ages : a <= b
  <2> TAKE b \in ages
  <2> HIDE DEF ages
  <2>1. a \in Nat /\ b \in Nat /\ <<b, a>> \in Nat \X Nat
    BY <1>1
  <2>2. b < a => <<b, a>> \in {ss \in Nat \X Nat : ss[1] < ss[2]}
    BY <2>1
  <2>3. OpToRel(<, Nat) = {ss \in Nat \X Nat : ss[1] < ss[2]}
    BY Zenon DEF OpToRel
  <2>4. ~(b < a)
    BY <1>2, <2>2, <2>3, Zenon
  <2>5. QED
    BY <2>1, <2>4
<1>4. PICK r \in h : a = n - r.ts
  OBVIOUS
<1>5. \A q \in h : q.ts <= r.ts
  <2> TAKE q \in h
  <2>1. n - q.ts \in ages /\ q.ts \in Nat /\ r.ts \in Nat
    BY DEF Row
  <2>2. QED
    BY <1>3, <1>4, <2>1
<1>6. QED
  BY <1>5 DEF Newest

\* _hydrate_state_from_history builds a typed state.
LEMMA HydrateTyped ==
    ASSUME NEW h, h \subseteq Row, IsFiniteSet(h),
           NEW n \in Nat, \A r \in h : r.ts <= n
    PROVE  Hydrate(h) \in PeerState
<1>1. TailRun(h) \in Nat
  <2> DEFINE run == {r \in h : \A q \in h : q.ts >= r.ts => q.st = r.st}
  <2>1. IsFiniteSet(run)
    BY FS_Subset
  <2>2. QED
    BY <2>1, FS_CardinalityType DEF TailRun
<1>2. LastSeen(h) \in Nat
  <2> DEFINE alive == {r \in h : r.st = "ALIVE"}
  <2>1. CASE alive = {}
    BY <2>1 DEF LastSeen, Never
  <2>2. CASE alive # {}
    <3>1. Newest(alive) \in alive
      BY <2>2, NewestExists
    <3>2. Newest(alive) \in Row
      BY <3>1
    <3>3. QED
      BY <2>2, <3>2 DEF LastSeen, Row
  <2>3. QED
    BY <2>1, <2>2
<1>3. QED
  BY <1>1, <1>2 DEF Hydrate, PeerState, FreshState, Status, Never

\* A state hydrated as ALIVE has no failures behind it, one hydrated as DEAD no
\* successes.
LEMMA HydrateCounters ==
    ASSUME NEW h
    PROVE  /\ Hydrate(h).status = "ALIVE" => Hydrate(h).fails = 0
           /\ Hydrate(h).status = "DEAD" => Hydrate(h).succs = 0
BY DEF Hydrate, FreshState

-----------------------------------------------------------------------------
(* Lemmas about the threshold machine *)

\* Recording a result keeps a state typed.
LEMMA JudgedTyped ==
    ASSUME NEW s \in PeerState, NEW res \in Result, NEW t \in Nat
    PROVE  Judged(s, res, t) \in PeerState
<1>1. Observe(s, res, t) \in PeerState
  BY DEF Observe, PeerState, Result
<1>2. NextStatus(Observe(s, res, t), res) \in Status
  BY <1>1 DEF NextStatus, PeerState, Status
<1>3. QED
  BY <1>1, <1>2 DEF Judged, PeerState

\* _maybe_transition keeps everything it records typed.
LEMMA RecordTyped ==
    ASSUME TypeOK, now' \in Nat, NEW p \in Peer, NEW s \in PeerState, NEW res \in Result,
           NEW t \in Nat, NEW who \in {"probe", "push"}, Record(p, s, res, t, who)
    PROVE  /\ log' \in [Peer -> Seq({"up", "down"})]
           /\ lastAlert' \in [Peer -> Nat]
           /\ alerts' \in [Peer -> Seq([event : {"up", "down"}, stamp : Nat])]
           /\ lock' \in [Peer -> {"free", "probe", "push"}]
           /\ resync' \subseteq Peer
           /\ ev' \in [Peer -> [st : Status, len : Nat]]
<1> DEFINE event == IF res = "ALIVE" THEN "up" ELSE "down"
<1> DEFINE alert == [event |-> event, stamp |-> t]
<1>1. event \in {"up", "down"}
  OBVIOUS
<1>2. alert \in [event : {"up", "down"}, stamp : Nat]
  BY <1>1
<1>3. log' \in [Peer -> Seq({"up", "down"})]
  <2>1. CASE log' = log
    BY <2>1 DEF TypeOK
  <2>2. CASE log' # log
    <3>1. log' = [log EXCEPT ![p] = Append(log[p], event)]
      BY <2>2 DEF Record
    <3>2. QED
      BY <1>1, <3>1 DEF TypeOK
  <2>3. QED
    BY <2>1, <2>2
<1>4. lastAlert' \in [Peer -> Nat]
  BY DEF Record, TypeOK
<1>5. alerts' \in [Peer -> Seq([event : {"up", "down"}, stamp : Nat])]
  BY <1>2 DEF Record, TypeOK
<1>6. lock' \in [Peer -> {"free", "probe", "push"}]
  BY DEF Record, TypeOK
<1>7. resync' \subseteq Peer
  BY DEF Record, TypeOK
<1>8. ev' \in [Peer -> [st : Status, len : Nat]]
  <2>1. Extend(ev[p], res) \in [st : Status, len : Nat]
    BY DEF Extend, TypeOK, Status, Result
  <2>2. QED
    BY <2>1 DEF Record, TypeOK
<1>9. QED
  BY <1>3, <1>4, <1>5, <1>6, <1>7, <1>8

-----------------------------------------------------------------------------
(* Type correctness *)

\* No record is from the future, and a finished probe has a result.  Hydration
\* looks for the newest row, which exists because the clock bounds timestamps.
ProbeInv == /\ now >= 1
            /\ \A p \in Peer : /\ probe[p].at <= now
                               /\ probe[p].st = "connecting" => probe[p].at >= 1
                               /\ probe[p].st = "done" => probe[p].res \in Result
                               /\ \A r \in hist[p] : r.ts <= now
BaseInv == TypeOK /\ ProbeInv

Probe == [st : {"idle", "connecting", "done"}, at : Nat, orphan : BOOLEAN,
          obj : PeerState, res : Status]

\* _load_devices builds a typed device table.
LEMMA LoadDevicesTyped ==
    ASSUME BaseInv, NEW m \in SUBSET Peer, load_devices(m)
    PROVE  devs' \subseteq Peer /\ dev' \in [Peer -> PeerState]
<1>1. FreshState \in PeerState
  BY DEF FreshState, PeerState, Status, Never
<1>2. ASSUME NEW p \in Peer
      PROVE  Hydrate(recent_rows(hist[p], now)) \in PeerState
  <2>1. /\ hist[p] \subseteq Row /\ IsFiniteSet(hist[p]) /\ now \in Nat
        /\ \A r \in hist[p] : r.ts <= now
    BY DEF BaseInv, TypeOK, ProbeInv
  <2>2. recent_rows(hist[p], now) \in SUBSET hist[p]
    BY DEF recent_rows
  <2>3. IsFiniteSet(recent_rows(hist[p], now))
    BY <2>1, <2>2, FS_Subset
  <2>4. QED
    BY <2>1, <2>2, <2>3, HydrateTyped
<1>3. QED
  BY <1>1, <1>2 DEF load_devices

\* A reload keeps the probes in flight typed, and when they were started.
LEMMA OrphanProbesTyped ==
    ASSUME TypeOK, orphan_probes
    PROVE  /\ probe' \in [Peer -> Probe]
           /\ \A p \in Peer : probe'[p].at = probe[p].at /\ probe'[p].st = probe[p].st
                               /\ probe'[p].res = probe[p].res
<1>1. probe \in [Peer -> Probe] /\ dev \in [Peer -> PeerState]
  BY DEF TypeOK, Probe
<1>2. ASSUME NEW p \in Peer
      PROVE  /\ [[probe[p] EXCEPT !.orphan = TRUE] EXCEPT !.obj = dev[p]] \in Probe
             /\ [[probe[p] EXCEPT !.orphan = TRUE] EXCEPT !.obj = dev[p]].at = probe[p].at
             /\ [[probe[p] EXCEPT !.orphan = TRUE] EXCEPT !.obj = dev[p]].st = probe[p].st
             /\ [[probe[p] EXCEPT !.orphan = TRUE] EXCEPT !.obj = dev[p]].res = probe[p].res
  <2> DEFINE q == [probe[p] EXCEPT !.orphan = TRUE]
  <2>1. q \in Probe /\ q.at = probe[p].at /\ q.st = probe[p].st /\ q.res = probe[p].res
    BY <1>1 DEF Probe
  <2> HIDE DEF q
  <2>2. [q EXCEPT !.obj = dev[p]] \in Probe /\ [q EXCEPT !.obj = dev[p]].at = q.at
        /\ [q EXCEPT !.obj = dev[p]].st = q.st /\ [q EXCEPT !.obj = dev[p]].res = q.res
    BY <1>1, <2>1 DEF Probe
  <2>3. QED
    BY <2>1, <2>2 DEF q
<1>3. QED
  BY <1>1, <1>2 DEF orphan_probes

\* The initial state is typed, and its clock is running.
LEMMA InitBase == Init => BaseInv
<1> SUFFICES ASSUME Init PROVE BaseInv
  OBVIOUS
<1>1. FreshState \in PeerState
  BY DEF FreshState, PeerState, Status, Never
<1>2. NoProbe \in Probe /\ NoProbe.at = 0 /\ NoProbe.st = "idle"
  BY <1>1 DEF NoProbe, Probe, Status, Never
<1>3. NoWindow \in [start : Nat, end : Nat]
  BY DEF NoWindow
<1>4. <<>> \in Seq({"up", "down"})
      /\ <<>> \in Seq([event : {"up", "down"}, stamp : Nat])
  OBVIOUS
<1>5. /\ dev \in [Peer -> PeerState] /\ probe \in [Peer -> Probe]
      /\ window \in [Peer -> [start : Nat, end : Nat]]
      /\ log \in [Peer -> Seq({"up", "down"})]
      /\ alerts \in [Peer -> Seq([event : {"up", "down"}, stamp : Nat])]
      /\ lastAlert \in [Peer -> Nat]
      /\ lock \in [Peer -> {"free", "probe", "push"}]
  BY <1>1, <1>2, <1>3, <1>4 DEF Init, Never
<1>6. ev \in [Peer -> [st : Status, len : Nat]]
  BY DEF Init, Status
<1>7. hist \in [Peer -> SUBSET Row] /\ \A p \in Peer : hist[p] = {} /\ IsFiniteSet(hist[p])
  BY FS_EmptySet DEF Init
<1>8. pending \in BOOLEAN /\ cycle \in BOOLEAN
  BY Zenon DEF Init
<1>9. /\ now = 1 /\ mon \subseteq Peer /\ devs \subseteq Peer /\ waiting \subseteq Peer
      /\ resync \subseteq Peer /\ \A p \in Peer : probe[p] = NoProbe
  BY DEF Init
<1>10. TypeOK
  BY <1>5, <1>6, <1>7, <1>8, <1>9 DEF TypeOK, Probe
<1>11. ProbeInv
  BY <1>2, <1>7, <1>9 DEF ProbeInv
<1>12. QED
  BY <1>10, <1>11 DEF BaseInv

\* A probe that ends keeps its start time.
LEMMA FinishProbeTyped ==
    ASSUME BaseInv, NEW p \in Peer, FinishProbe(p)
    PROVE  BaseInv'
<1> USE DEF BaseInv
<1>1. PICK res \in Result :
        LET s == IF probe[p].orphan THEN probe[p].obj ELSE dev[p] IN
        /\ Record(p, s, res, probe[p].at, "probe")
        /\ dev' = IF probe[p].orphan THEN dev
                  ELSE [dev EXCEPT ![p] = Judged(s, res, probe[p].at)]
        /\ probe' = [probe EXCEPT ![p].st = "done", ![p].res = res]
  BY DEF FinishProbe, Result
<1> DEFINE s == IF probe[p].orphan THEN probe[p].obj ELSE dev[p]
<1>2. probe[p] \in Probe /\ probe \in [Peer -> Probe]
  BY DEF TypeOK, Probe
<1>3. s \in PeerState /\ probe[p].at \in Nat
  BY <1>2 DEF TypeOK, Probe
<1>4. now' = now /\ now' \in Nat
  BY DEF FinishProbe, TypeOK
<1>5. /\ log' \in [Peer -> Seq({"up", "down"})]
      /\ lastAlert' \in [Peer -> Nat]
      /\ alerts' \in [Peer -> Seq([event : {"up", "down"}, stamp : Nat])]
      /\ lock' \in [Peer -> {"free", "probe", "push"}]
      /\ resync' \subseteq Peer
      /\ ev' \in [Peer -> [st : Status, len : Nat]]
  BY <1>1, <1>3, <1>4, RecordTyped
<1>6. dev' \in [Peer -> PeerState]
  BY <1>1, <1>3, JudgedTyped DEF TypeOK
<1>7. /\ probe' \in [Peer -> Probe]
      /\ \A q \in Peer : probe'[q].at = probe[q].at
      /\ \A q \in Peer : probe'[q].st = "connecting" => probe[q].st = "connecting"
      /\ \A q \in Peer : probe'[q] = probe[q] \/ probe'[q].res \in Result
  <2> DEFINE q1 == [probe[p] EXCEPT !.st = "done"]
  <2>1. q1 \in Probe /\ q1.at = probe[p].at /\ q1.st = "done"
    BY <1>2 DEF Probe
  <2> DEFINE q2 == [q1 EXCEPT !.res = res]
  <2> HIDE DEF q1
  <2>2. q2 \in Probe /\ q2.at = probe[p].at /\ q2.st = "done" /\ q2.res = res
    BY <2>1 DEF Probe, Status, Result
  <2>3. probe' = [probe EXCEPT ![p] = q2]
    BY <1>1, <1>2 DEF q1, Probe
  <2> HIDE DEF q2
  <2>4. QED
    BY <1>2, <2>2, <2>3
<1>8. TypeOK'
  BY <1>4, <1>5, <1>6, <1>7 DEF TypeOK, FinishProbe, Probe
<1>9. ProbeInv'
  BY <1>4, <1>7 DEF ProbeInv, FinishProbe
<1>10. QED
  BY <1>8, <1>9

\* A push adds a row dated with the clock.
LEMMA PushTyped ==
    ASSUME BaseInv, NEW p \in Peer, Push(p)
    PROVE  BaseInv'
<1> USE DEF BaseInv
<1> DEFINE s == IF p \in devs THEN dev[p] ELSE FreshState
<1> DEFINE row == [ts |-> now', st |-> "ALIVE"]
<1>1. now \in Nat /\ now' = now + 1 /\ now' \in Nat
  BY DEF Push, Advance, TypeOK
<1>2. s \in PeerState
  BY DEF TypeOK, FreshState, PeerState, Status, Never
<1>3. /\ log' \in [Peer -> Seq({"up", "down"})]
      /\ lastAlert' \in [Peer -> Nat]
      /\ alerts' \in [Peer -> Seq([event : {"up", "down"}, stamp : Nat])]
      /\ lock' \in [Peer -> {"free", "probe", "push"}]
      /\ resync' \subseteq Peer
      /\ ev' \in [Peer -> [st : Status, len : Nat]]
  <2>1. Record(p, s, "ALIVE", now', "push")
    BY DEF Push
  <2>2. QED
    BY <1>1, <1>2, <2>1, RecordTyped DEF Result
<1>4. dev' \in [Peer -> PeerState]
  <2>1. Judged(s, "ALIVE", now') \in PeerState
    BY <1>1, <1>2, JudgedTyped DEF Result
  <2>2. QED
    BY <2>1 DEF Push, TypeOK
<1>5. row \in Row /\ row.ts = now'
  BY <1>1 DEF Row
<1>6. hist' = hist \/ hist' = [hist EXCEPT ![p] = hist[p] \cup {row}]
  BY DEF Push
<1> HIDE DEF row, s
<1>7. hist' \in [Peer -> SUBSET Row] /\ \A q \in Peer : IsFiniteSet(hist'[q])
  <2>1. hist[p] \cup {row} \in SUBSET Row /\ IsFiniteSet(hist[p] \cup {row})
    BY <1>5, FS_AddElement DEF TypeOK
  <2>2. CASE hist' = hist
    BY <2>2 DEF TypeOK
  <2>3. CASE hist' = [hist EXCEPT ![p] = hist[p] \cup {row}]
    BY <2>1, <2>3 DEF TypeOK
  <2>4. QED
    BY <1>6, <2>2, <2>3
<1>8. \A q \in Peer : \A r \in hist'[q] : r \in hist[q] \/ r = row
  <2>1. CASE hist' = hist
    BY <2>1
  <2>2. CASE hist' = [hist EXCEPT ![p] = hist[p] \cup {row}]
    BY <2>2 DEF TypeOK
  <2>3. QED
    BY <1>6, <2>1, <2>2
<1>9. TypeOK'
  BY <1>1, <1>3, <1>4, <1>7 DEF TypeOK, Push
<1>10. ProbeInv'
  <2>1. \A q \in Peer : \A r \in hist'[q] : r.ts <= now'
    <3> TAKE q \in Peer
    <3> TAKE r \in hist'[q]
    <3>1. CASE r \in hist[q]
      <4>1. r.ts \in Nat /\ r.ts <= now
        BY <3>1 DEF ProbeInv, TypeOK, Row
      <4>2. QED
        BY <1>1, <4>1
    <3>2. CASE r = row
      BY <1>1, <1>5, <3>2
    <3>3. QED
      BY <1>8, <3>1, <3>2
  <2>2. \A q \in Peer : probe'[q] = probe[q] /\ probe[q].at \in Nat
    BY DEF Push, TypeOK
  <2>3. QED
    BY <1>1, <2>1, <2>2 DEF ProbeInv
<1>11. QED
  BY <1>9, <1>10

\* The end of a cycle adds rows dated with the start of the probes.
LEMMA FinishCycleTyped ==
    ASSUME BaseInv, FinishCycle
    PROVE  BaseInv'
<1> USE DEF BaseInv
<1> DEFINE row(p) == [ts |-> probe[p].at, st |-> probe[p].res]
<1>1. NoProbe \in Probe /\ NoProbe.at = 0 /\ NoProbe.st = "idle"
  BY DEF NoProbe, FreshState, Probe, PeerState, Status, Never
<1>2. hist' = hist \/ hist' = [p \in Peer |-> IF probe[p].st = "done"
                                    THEN hist[p] \cup {row(p)} ELSE hist[p]]
  BY DEF FinishCycle
<1>3. ASSUME NEW p \in Peer
      PROVE  hist'[p] = hist[p] \/ (probe[p].st = "done" /\ hist'[p] = hist[p] \cup {row(p)})
  BY <1>2
<1>4. hist' \in [Peer -> SUBSET Row] /\ \A p \in Peer : IsFiniteSet(hist'[p])
  <2>1. ASSUME NEW p \in Peer
        PROVE  hist'[p] \in SUBSET Row /\ IsFiniteSet(hist'[p])
    <3>1. hist[p] \in SUBSET Row /\ IsFiniteSet(hist[p]) /\ probe[p].at \in Nat
      BY DEF TypeOK
    <3>2. probe[p].st = "done" => row(p) \in Row
      BY <3>1 DEF ProbeInv, Row, Result
    <3>3. IsFiniteSet(hist[p] \cup {row(p)})
      BY <3>1, FS_AddElement
    <3> HIDE DEF row
    <3>4. QED
      BY <1>3, <3>1, <3>2, <3>3
  <2>2. hist' = [p \in Peer |-> hist'[p]]
    BY <1>2 DEF TypeOK
  <2>3. QED
    BY <2>1, <2>2
<1>5. \A p \in Peer : probe'[p] = NoProbe
  BY DEF FinishCycle
<1>6. cycle' \in BOOLEAN
  BY Zenon DEF FinishCycle
<1>7. probe' \in [Peer -> Probe]
  BY <1>1 DEF FinishCycle
<1>8. TypeOK'
  BY <1>4, <1>6, <1>7 DEF TypeOK, FinishCycle, Probe
<1>9. ProbeInv'
  <2>1. now' = now /\ now \in Nat
    BY DEF FinishCycle, TypeOK
  <2>2. ASSUME NEW p \in Peer, NEW r \in hist'[p]
        PROVE  r.ts <= now'
    <3>1. row(p).ts = probe[p].at
      OBVIOUS
    <3> HIDE DEF row
    <3>2. r \in hist[p] \/ r = row(p)
      BY <1>3
    <3>3. QED
      BY <2>1, <3>1, <3>2 DEF ProbeInv
  <2>3. QED
    BY <1>1, <1>5, <2>1, <2>2 DEF ProbeInv
<1>10. QED
  BY <1>8, <1>9

\* Every step preserves the types and the dates.
LEMMA NextKeepsBase ==
    ASSUME BaseInv, [Next]_vars
    PROVE  BaseInv'
<1> USE DEF BaseInv
<1>1. CASE Tick
  <2>1. TypeOK'
    BY <1>1 DEF Tick, Advance, TypeOK, engineVars
  <2>2. ProbeInv'
    <3>1. now \in Nat /\ now' = now + 1 /\ probe' = probe /\ hist' = hist
      BY <1>1 DEF Tick, Advance, TypeOK, engineVars
    <3>2. \A p \in Peer : probe[p].at \in Nat /\ \A r \in hist[p] : r.ts \in Nat
      BY DEF TypeOK, Row
    <3>3. QED
      BY <3>1, <3>2 DEF ProbeInv
  <2>3. QED
    BY <2>1, <2>2
<1>2. CASE StartCycle
  <2> DEFINE started == [NoProbe EXCEPT !.st = "connecting", !.at = now']
  <2>1. now \in Nat /\ now' = now + 1 /\ hist' = hist
    BY <1>2 DEF StartCycle, Advance, TypeOK
  <2>2. NoProbe \in Probe /\ NoProbe.at = 0 /\ NoProbe.st = "idle"
    BY DEF NoProbe, FreshState, Probe, PeerState, Status, Never
  <2>3. started \in Probe /\ started.at = now' /\ started.st = "connecting"
    <3> DEFINE begun == [NoProbe EXCEPT !.st = "connecting"]
    <3>1. begun \in Probe /\ begun.st = "connecting"
      BY <2>2 DEF Probe
    <3>2. started = [begun EXCEPT !.at = now']
      OBVIOUS
    <3> HIDE DEF begun, started
    <3>3. QED
      BY <2>1, <3>1, <3>2 DEF Probe
  <2>4. probe' = [p \in Peer |-> IF p \in devs /\ ~in_maintenance(p, now')
                                THEN started ELSE NoProbe]
    BY <1>2 DEF StartCycle
  <2> HIDE DEF started
  <2>5. probe' \in [Peer -> Probe]
    BY <2>2, <2>3, <2>4
  <2>6. cycle' \in BOOLEAN
    BY <1>2, Zenon DEF StartCycle
  <2>7. TypeOK'
    BY <1>2, <2>1, <2>5, <2>6, SMTT(60) DEF TypeOK, StartCycle, Probe
  <2>8. ProbeInv'
    <3>1. \A p \in Peer : probe'[p] \in {started, NoProbe}
      BY <2>4
    <3>2. \A p \in Peer : \A r \in hist[p] : r.ts \in Nat
      BY DEF TypeOK, Row
    <3>3. QED
      BY <2>1, <2>2, <2>3, <3>1, <3>2 DEF ProbeInv
  <2>9. QED
    BY <2>7, <2>8
<1>3. CASE FinishCycle
  BY <1>3, FinishCycleTyped
<1>4. CASE ApplyDevicesReload
  <2>1. devs' \subseteq Peer /\ dev' \in [Peer -> PeerState]
    BY <1>4, LoadDevicesTyped DEF ApplyDevicesReload, TypeOK
  <2>2. /\ probe' \in [Peer -> Probe]
        /\ \A p \in Peer : probe'[p].at = probe[p].at /\ probe'[p].st = probe[p].st
                            /\ probe'[p].res = probe[p].res
    BY <1>4, OrphanProbesTyped DEF ApplyDevicesReload
  <2>3. pending' \in BOOLEAN
    BY <1>4, Zenon DEF ApplyDevicesReload
  <2>4. TypeOK'
    BY <1>4, <2>1, <2>2, <2>3 DEF TypeOK, ApplyDevicesReload, Probe
  <2>5. ProbeInv'
    BY <1>4, <2>2 DEF ProbeInv, ApplyDevicesReload
  <2>6. QED
    BY <2>4, <2>5
<1>5. CASE CheckReload
  <2>1. PICK m \in SUBSET Peer : mon' = m /\ load_devices(m)
    BY <1>5 DEF CheckReload
  <2>2. devs' \subseteq Peer /\ dev' \in [Peer -> PeerState]
    BY <2>1, LoadDevicesTyped
  <2>3. /\ probe' \in [Peer -> Probe]
        /\ \A p \in Peer : probe'[p].at = probe[p].at /\ probe'[p].st = probe[p].st
                            /\ probe'[p].res = probe[p].res
    BY <1>5, OrphanProbesTyped DEF CheckReload
  <2>3a. window' \in [Peer -> [start : Nat, end : Nat]]
    <3>1. PICK changed \in SUBSET Peer, w \in {NoWindow, [start |-> now, end |-> now + MaintLen]} :
              window' = [p \in Peer |-> IF p \in changed THEN w ELSE window[p]]
      BY <1>5 DEF CheckReload
    <3>2. now \in Nat /\ now + MaintLen \in Nat /\ window \in [Peer -> [start : Nat, end : Nat]]
      BY TimeAssumption DEF TypeOK
    <3>3. w \in [start : Nat, end : Nat]
      BY <3>1, <3>2 DEF NoWindow
    <3>4. QED
      BY <3>1, <3>2, <3>3
  <2>4. TypeOK'
    BY <1>5, <2>1, <2>2, <2>3, <2>3a DEF TypeOK, CheckReload, Probe
  <2>5. ProbeInv'
    BY <1>5, <2>3 DEF ProbeInv, CheckReload
  <2>6. QED
    BY <2>4, <2>5
<1>6. CASE Restart
  <2>1. devs' \subseteq Peer /\ dev' \in [Peer -> PeerState]
    BY <1>6, LoadDevicesTyped DEF Restart, TypeOK
  <2>2. NoProbe \in Probe /\ NoProbe.at = 0 /\ NoProbe.st = "idle"
    BY DEF NoProbe, FreshState, Probe, PeerState, Status, Never
  <2>3. probe' \in [Peer -> Probe] /\ \A p \in Peer : probe'[p] = NoProbe
    BY <1>6, <2>2 DEF Restart
  <2>4. pending' \in BOOLEAN /\ cycle' \in BOOLEAN
    BY <1>6, Zenon DEF Restart
  <2>5. <<>> \in Seq([event : {"up", "down"}, stamp : Nat])
    OBVIOUS
  <2>6. /\ alerts' \in [Peer -> Seq([event : {"up", "down"}, stamp : Nat])]
        /\ lastAlert' \in [Peer -> Nat] /\ lock' \in [Peer -> {"free", "probe", "push"}]
    BY <1>6, <2>5 DEF Restart, Never
  <2>7. TypeOK'
    BY <1>6, <2>1, <2>3, <2>4, <2>6 DEF TypeOK, Restart, Probe
  <2>8. ProbeInv'
    BY <1>6, <2>2, <2>3 DEF ProbeInv, Restart, TypeOK
  <2>9. QED
    BY <2>7, <2>8
<1>7. CASE HistoryGC
  <2>1. <<>> \in Seq([event : {"up", "down"}, stamp : Nat])
    OBVIOUS
  <2>2. /\ alerts' \in [Peer -> Seq([event : {"up", "down"}, stamp : Nat])]
        /\ lastAlert' \in [Peer -> Nat]
    BY <1>7, <2>1 DEF HistoryGC, TypeOK, Never
  <2>3. QED
    BY <1>7, <2>2 DEF HistoryGC, TypeOK, ProbeInv
<1>8. ASSUME NEW p \in Peer, FinishProbe(p)
      PROVE  BaseInv'
  BY <1>8, FinishProbeTyped
<1>9. ASSUME NEW p \in Peer, Push(p)
      PROVE  BaseInv'
  BY <1>9, PushTyped
<1>10. ASSUME NEW p \in Peer, WebhookDone(p) \/ PushWaits(p)
       PROVE  BaseInv'
  BY <1>10 DEF WebhookDone, PushWaits, TypeOK, ProbeInv
<1>11. ASSUME NEW p \in Peer, ChangeTrust(p)
       PROVE  BaseInv'
  <2>1. NoWindow \in [start : Nat, end : Nat]
    BY DEF NoWindow
  <2>2. pending' \in BOOLEAN
    BY <1>11, Zenon DEF ChangeTrust
  <2>3. window' \in [Peer -> [start : Nat, end : Nat]]
    BY <1>11, <2>1 DEF ChangeTrust, TypeOK
  <2>4. mon' \subseteq Peer
    <3>1. mon' = mon \cup {p} \/ mon' = mon \ {p}
      BY <1>11 DEF ChangeTrust
    <3>2. QED
      BY <3>1 DEF TypeOK
  <2>5. QED
    BY <1>11, <2>2, <2>3, <2>4 DEF ChangeTrust, TypeOK, ProbeInv
<1>12. ASSUME NEW p \in Peer, ScheduleMaintenance(p) \/ ClearMaintenance(p)
       PROVE  BaseInv'
  <2>1. NoWindow \in [start : Nat, end : Nat]
    BY DEF NoWindow
  <2>2. \A start \in {now, now + 1} :
            [start |-> start, end |-> start + MaintLen] \in [start : Nat, end : Nat]
    BY TimeAssumption DEF TypeOK
  <2>3. window' \in [Peer -> [start : Nat, end : Nat]]
    BY <1>12, <2>1, <2>2 DEF ScheduleMaintenance, ClearMaintenance, TypeOK
  <2>4. UNCHANGED <<now, mon, engineVars, hist, log, ev>>
    BY <1>12 DEF ScheduleMaintenance, ClearMaintenance
  <2>5. TypeOK'
    BY <2>3, <2>4 DEF TypeOK, engineVars
  <2>6. ProbeInv'
    BY <2>4 DEF ProbeInv, engineVars
  <2>7. QED
    BY <2>5, <2>6
<1>13. CASE UNCHANGED vars
  BY <1>13 DEF vars, engineVars, TypeOK, ProbeInv
<1>14. QED
  BY <1>1, <1>2, <1>3, <1>4, <1>5, <1>6, <1>7, <1>8, <1>9, <1>10, <1>11, <1>12,
     <1>13 DEF Next

\* The variables always hold values of their types, for every set of peers,
\* every setting and every disruption.
THEOREM TypeCorrect == Spec => []TypeOK
<1>1. BaseInv /\ [Next]_vars => BaseInv'
  BY NextKeepsBase
<1>2. BaseInv => TypeOK
  BY DEF BaseInv
<1>3. QED
  BY InitBase, <1>1, <1>2, PTL DEF Spec

-----------------------------------------------------------------------------
(* Flap suppression *)

Alert == [event : {"up", "down"}, stamp : Nat]

Spaced(a) == \A i \in 1..(Len(a) - 1) : a[i + 1].stamp - a[i].stamp >= Dwell

\* _last_alert_fired is the timestamp of the last webhook that is remembered.
DwellInv == \A p \in Peer :
                /\ alerts[p] # <<>> => /\ lastAlert[p] = alerts[p][Len(alerts[p])].stamp
                                       /\ lastAlert[p] >= 1
                /\ Dwell > 0 => Spaced(alerts[p])

\* A webhook sent at least the dwell after the last one keeps them spaced.
LEMMA AppendSpaced ==
    ASSUME NEW a \in Seq(Alert), NEW x \in Alert, Spaced(a),
           a # <<>> => x.stamp - a[Len(a)].stamp >= Dwell
    PROVE  Spaced(Append(a, x))
<1> DEFINE b == Append(a, x)
<1>1. b \in Seq(Alert) /\ Len(b) = Len(a) + 1 /\ b[Len(a) + 1] = x /\ Len(a) \in Nat
      /\ \A i \in 1..Len(a) : b[i] = a[i]
  OBVIOUS
<1> HIDE DEF b
<1>2. ASSUME NEW i \in 1..(Len(b) - 1)
      PROVE  b[i + 1].stamp - b[i].stamp >= Dwell
  <2>1. CASE i < Len(a)
    <3>1. i \in 1..Len(a) /\ i + 1 \in 1..Len(a) /\ i \in 1..(Len(a) - 1)
      BY <1>1, <2>1
    <3>2. QED
      BY <1>1, <3>1 DEF Spaced
  <2>2. CASE i = Len(a)
    <3>1. i \in 1..Len(a) /\ a # <<>>
      BY <1>1, <2>2
    <3>2. QED
      BY <1>1, <2>2, <3>1
  <2>3. QED
    BY <1>1, <2>1, <2>2
<1>3. QED
  BY <1>2 DEF b, Spaced

\* _maybe_transition keeps the webhooks spaced.
LEMMA RecordSpaced ==
    ASSUME TypeOK, DwellInv, now' \in Nat, NEW p \in Peer, NEW s \in PeerState,
           NEW res \in Result, NEW t \in Nat, t >= 1, NEW who, Record(p, s, res, t, who)
    PROVE  DwellInv'
<1> DEFINE event == IF res = "ALIVE" THEN "up" ELSE "down"
<1> DEFINE x == [event |-> event, stamp |-> t]
<1> DEFINE fires == Reported(p, s, res, t) /\ ~Dwelling(p, t)
<1>1. x \in Alert /\ x.stamp = t
  BY DEF Alert
<1>2. alerts \in [Peer -> Seq(Alert)] /\ lastAlert \in [Peer -> Nat]
  BY DEF TypeOK, Alert
<1>3. CASE ~fires
  <2>1. alerts' = alerts /\ lastAlert' = lastAlert
    BY <1>3 DEF Record
  <2>2. QED
    BY <2>1 DEF DwellInv, Spaced
<1>4. CASE fires
  <2>1. alerts' = [alerts EXCEPT ![p] = Append(alerts[p], x)]
        /\ lastAlert' = [lastAlert EXCEPT ![p] = t]
    BY <1>4 DEF Record
  <2> HIDE DEF x
  <2>2. ASSUME Dwell > 0
        PROVE  Spaced(Append(alerts[p], x))
    <3>1. alerts[p] # <<>> => x.stamp - alerts[p][Len(alerts[p])].stamp >= Dwell
      <4>1. alerts[p] # <<>> => lastAlert[p] = alerts[p][Len(alerts[p])].stamp
                                /\ lastAlert[p] >= 1
        BY DEF DwellInv
      <4>2. ~Dwelling(p, t)
        BY <1>4
      <4>3. QED
        BY <1>1, <1>2, <2>2, <4>1, <4>2, TimeAssumption DEF Dwelling, Never
    <3>2. QED
      BY <1>1, <1>2, <2>2, <3>1, AppendSpaced DEF DwellInv
  <2>3. ASSUME NEW q \in Peer
        PROVE  /\ alerts'[q] # <<>> => /\ lastAlert'[q] = alerts'[q][Len(alerts'[q])].stamp
                                        /\ lastAlert'[q] >= 1
               /\ Dwell > 0 => Spaced(alerts'[q])
    <3>1. CASE q = p
      <4>1. alerts'[q] = Append(alerts[p], x) /\ lastAlert'[q] = t
        BY <1>2, <2>1, <3>1
      <4>2. alerts'[q][Len(alerts'[q])] = x
        BY <1>1, <1>2, <4>1
      <4>3. QED
        BY <1>1, <2>2, <4>1, <4>2
    <3>2. CASE q # p
      BY <1>2, <2>1, <3>2 DEF DwellInv
    <3>3. QED
      BY <3>1, <3>2
  <2>4. QED
    BY <2>3 DEF DwellInv, Spaced
<1>5. QED
  BY <1>3, <1>4

\* Every step keeps the webhooks spaced.
LEMMA NextKeepsDwell ==
    ASSUME BaseInv, DwellInv, [Next]_vars
    PROVE  DwellInv'
<1>1. ASSUME UNCHANGED <<alerts, lastAlert>>
      PROVE  DwellInv'
  BY <1>1 DEF DwellInv, Spaced
<1>2. ASSUME NEW p \in Peer, FinishProbe(p)
      PROVE  DwellInv'
  <2> DEFINE s == IF probe[p].orphan THEN probe[p].obj ELSE dev[p]
  <2>1. PICK res \in Result : Record(p, s, res, probe[p].at, "probe")
    BY <1>2 DEF FinishProbe, Result
  <2>2. s \in PeerState /\ probe[p].at \in Nat /\ probe[p].at >= 1 /\ now' \in Nat
    BY <1>2 DEF BaseInv, TypeOK, ProbeInv, FinishProbe
  <2>3. QED
    BY <2>1, <2>2, RecordSpaced DEF BaseInv
<1>3. ASSUME NEW p \in Peer, Push(p)
      PROVE  DwellInv'
  <2> DEFINE s == IF p \in devs THEN dev[p] ELSE FreshState
  <2>1. Record(p, s, "ALIVE", now', "push")
    BY <1>3 DEF Push
  <2>2. now' \in Nat /\ now' >= 1
    BY <1>3 DEF Push, Advance, BaseInv, TypeOK
  <2>3. s \in PeerState
    BY DEF BaseInv, TypeOK, FreshState, PeerState, Status, Never
  <2>4. QED
    BY <2>1, <2>2, <2>3, RecordSpaced DEF BaseInv, Result
<1>4. CASE Restart \/ HistoryGC
  <2>1. ASSUME NEW p \in Peer
        PROVE  alerts'[p] = <<>> \/ (alerts'[p] = alerts[p] /\ lastAlert'[p] = lastAlert[p])
    BY <1>4 DEF Restart, HistoryGC
  <2>2. Spaced(<<>>)
    BY DEF Spaced
  <2>3. QED
    BY <2>1, <2>2 DEF DwellInv, Spaced
<1>5. CASE Tick \/ StartCycle \/ FinishCycle \/ ApplyDevicesReload \/ CheckReload
  BY <1>1, <1>5 DEF Tick, StartCycle, FinishCycle, ApplyDevicesReload, CheckReload,
                    engineVars
<1>6. ASSUME NEW p \in Peer, \/ WebhookDone(p) \/ PushWaits(p) \/ ChangeTrust(p)
                              \/ ScheduleMaintenance(p) \/ ClearMaintenance(p)
      PROVE  DwellInv'
  BY <1>1, <1>6 DEF WebhookDone, PushWaits, ChangeTrust, ScheduleMaintenance,
                    ClearMaintenance, engineVars
<1>7. CASE UNCHANGED vars
  BY <1>1, <1>7 DEF vars, engineVars
<1>8. QED
  BY <1>2, <1>3, <1>4, <1>5, <1>6, <1>7 DEF Next

\* Flap suppression spaces the timestamps of the webhooks about a peer by the
\* dwell, in every interleaving of probes, pushes, reloads and restarts.
THEOREM DwellRespected == Spec => []StampsDwell
<1>1. Init => DwellInv
  BY DEF Init, DwellInv, Spaced
<1>2. BaseInv /\ DwellInv /\ [Next]_vars => BaseInv' /\ DwellInv'
  BY NextKeepsBase, NextKeepsDwell
<1>3. DwellInv => StampsDwell
  BY DEF DwellInv, Spaced, StampsDwell
<1>4. QED
  BY InitBase, <1>1, <1>2, <1>3, PTL DEF Spec

-----------------------------------------------------------------------------
(* Logged transitions are earned, as long as nothing reloads the table *)

Run(e, res) == IF e.st = res THEN e.len ELSE 0

\* The counter that will decide the next transition of s counts no more than
\* the run of results that ends the evidence.
CountersEarned(s, e) == /\ s.status = "ALIVE" => s.fails <= Run(e, "DEAD")
                        /\ s.status = "DEAD" => s.succs <= Run(e, "ALIVE")

\* Without reloads the table is that of the trusted peers, every probe works on
\* the object in the table, and the counters in the table are earned.
EarnedInv == /\ pending = FALSE /\ devs = mon /\ waiting \subseteq mon
             /\ \A p \in Peer : ~probe[p].orphan /\ CountersEarned(dev[p], ev[p])

\* Recording a result on earned counters leaves them earned.
LEMMA JudgedEarned ==
    ASSUME NEW s \in PeerState, NEW e \in [st : Status, len : Nat], NEW res \in Result,
           NEW t \in Nat, CountersEarned(s, e)
    PROVE  CountersEarned(Judged(s, res, t), Extend(e, res))
<1> DEFINE o == Observe(s, res, t)
<1> DEFINE e1 == Extend(e, res)
<1>1. /\ o.status = s.status /\ o \in PeerState
      /\ res = "ALIVE" => o.fails = 0 /\ o.succs = s.succs + 1
      /\ res = "DEAD" => o.fails = s.fails + 1 /\ o.succs = 0
  BY DEF Observe, PeerState, Result
<1>2. e1 \in [st : Status, len : Nat] /\ e1.st = res /\ e1.len = Run(e, res) + 1
  BY DEF Extend, Run, Status, Result
<1>3. /\ Judged(s, res, t).status = NextStatus(o, res)
      /\ Judged(s, res, t).fails = o.fails /\ Judged(s, res, t).succs = o.succs
  BY <1>1 DEF Judged, PeerState
<1>4. Run(e, "DEAD") \in Nat /\ Run(e, "ALIVE") \in Nat /\ s.fails \in Nat /\ s.succs \in Nat
  BY DEF Run, PeerState
<1> HIDE DEF o, e1
<1>5. CASE res = "ALIVE"
  <2>1. Run(e1, "ALIVE") = Run(e, "ALIVE") + 1 /\ Run(e1, "DEAD") = 0
    BY <1>2, <1>5 DEF Run
  <2>2. NextStatus(o, res) = "DEAD" => s.status = "DEAD"
    BY <1>1, <1>5 DEF NextStatus
  <2>3. QED
    BY <1>1, <1>3, <1>4, <1>5, <2>1, <2>2 DEF CountersEarned, e1
<1>6. CASE res = "DEAD"
  <2>1. Run(e1, "DEAD") = Run(e, "DEAD") + 1 /\ Run(e1, "ALIVE") = 0
    BY <1>2, <1>6 DEF Run
  <2>2. NextStatus(o, res) = "ALIVE" => s.status = "ALIVE"
    BY <1>1, <1>6 DEF NextStatus
  <2>3. QED
    BY <1>1, <1>3, <1>4, <1>6, <2>1, <2>2 DEF CountersEarned, e1
<1>7. QED
  BY <1>5, <1>6 DEF Result

\* A transition reported from earned counters is borne out by the evidence.
LEMMA RecordEarned ==
    ASSUME TypeOK, NEW p \in Peer, NEW s \in PeerState, NEW res \in Result, NEW t \in Nat,
           NEW who, CountersEarned(s, ev[p]), Record(p, s, res, t, who)
    PROVE  EarnedStep
<1> DEFINE event == IF res = "ALIVE" THEN "up" ELSE "down"
<1> DEFINE o == Observe(s, res, t)
<1>1. ev[p] \in [st : Status, len : Nat] /\ log \in [Peer -> Seq({"up", "down"})]
  BY DEF TypeOK
<1>2. ev'[p] = Extend(ev[p], res) /\ ev'[p].st = res /\ ev'[p].len = Run(ev[p], res) + 1
  BY <1>1 DEF Record, TypeOK, Extend, Run, Status, Result
<1>3. SUFFICES ASSUME NEW q \in Peer, log'[q] # log[q]
               PROVE  IF log'[q][Len(log'[q])] = "down"
                      THEN ev'[q].st = "DEAD" /\ ev'[q].len >= DownAfter
                      ELSE ev'[q].st = "ALIVE" /\ ev'[q].len >= UpAfter
  BY DEF EarnedStep
<1>4. /\ q = p /\ Reported(p, s, res, t)
      /\ log' = [log EXCEPT ![p] = Append(log[p], event)]
  BY <1>1, <1>3 DEF Record
<1>5. log'[q][Len(log'[q])] = event
  BY <1>1, <1>4
<1>6. /\ o.status = s.status
      /\ res = "ALIVE" => o.succs = s.succs + 1
      /\ res = "DEAD" => o.fails = s.fails + 1
  BY DEF Observe, Result
<1>7. NextStatus(o, res) # s.status /\ s.status # "UNKNOWN"
  BY <1>4, <1>6 DEF Reported, Judged, Observe
<1> HIDE DEF o
<1>8. /\ s.fails \in Nat /\ s.succs \in Nat /\ s.status \in Status
      /\ Run(ev[p], "DEAD") \in Nat /\ Run(ev[p], "ALIVE") \in Nat
  BY <1>1 DEF PeerState, Run
<1>9. CASE res = "ALIVE"
  <2>1. s.status = "DEAD" /\ o.succs >= UpAfter
    BY <1>6, <1>7, <1>9 DEF NextStatus
  <2>2. s.succs <= Run(ev[p], "ALIVE")
    BY <2>1 DEF CountersEarned
  <2>3. ev'[p].st = "ALIVE" /\ ev'[p].len >= UpAfter
    BY <1>2, <1>6, <1>8, <1>9, <2>1, <2>2, ThresholdAssumption
  <2>4. QED
    BY <1>4, <1>5, <1>9, <2>3
<1>10. CASE res = "DEAD"
  <2>1. s.status = "ALIVE" /\ o.fails >= DownAfter
    BY <1>6, <1>7, <1>10 DEF NextStatus
  <2>2. s.fails <= Run(ev[p], "DEAD")
    BY <2>1 DEF CountersEarned
  <2>3. ev'[p].st = "DEAD" /\ ev'[p].len >= DownAfter
    BY <1>2, <1>6, <1>8, <1>10, <2>1, <2>2, ThresholdAssumption
  <2>4. QED
    BY <1>4, <1>5, <1>10, <2>3
<1>11. QED
  BY <1>9, <1>10 DEF Result

\* Without reloads, every step keeps the counters earned and reports only what
\* they bear out.
LEMMA NextKeepsEarned ==
    ASSUME "reload" \notin Disruptions, "external" \notin Disruptions,
           BaseInv, EarnedInv, [Next]_vars
    PROVE  EarnedInv' /\ (log' = log \/ EarnedStep)
<1> USE DEF EarnedInv
<1>1. CASE Tick
  BY <1>1 DEF Tick, engineVars
<1>2. CASE StartCycle
  <2>1. \A p \in Peer : probe'[p].orphan = FALSE
    BY <1>2 DEF StartCycle, NoProbe
  <2>2. QED
    BY <1>2, <2>1 DEF StartCycle
<1>3. CASE FinishCycle
  <2>1. \A p \in Peer : probe'[p].orphan = FALSE
    BY <1>3 DEF FinishCycle, NoProbe
  <2>2. QED
    BY <1>3, <2>1 DEF FinishCycle
<1>4. CASE ApplyDevicesReload \/ CheckReload \/ \E p \in Peer : ChangeTrust(p)
  BY <1>4 DEF ApplyDevicesReload, CheckReload, ChangeTrust
<1>5. CASE Restart
  <2>1. ASSUME NEW p \in Peer
        PROVE  CountersEarned(dev'[p], ev'[p])
    <3>1. dev'[p] = FreshState \/ dev'[p] = Hydrate(recent_rows(hist[p], now))
      BY <1>5 DEF Restart, load_devices
    <3>2. ev'[p] = ev[p] /\ ev[p] \in [st : Status, len : Nat]
      BY <1>5 DEF Restart, BaseInv, TypeOK
    <3>3. Run(ev[p], "DEAD") \in Nat /\ Run(ev[p], "ALIVE") \in Nat
      BY <3>2 DEF Run
    <3>4. /\ dev'[p].status = "ALIVE" => dev'[p].fails = 0
          /\ dev'[p].status = "DEAD" => dev'[p].succs = 0
      BY <3>1, HydrateCounters DEF FreshState
    <3>5. QED
      BY <3>2, <3>3, <3>4 DEF CountersEarned
  <2>2. \A p \in Peer : probe'[p].orphan = FALSE
    BY <1>5 DEF Restart, NoProbe
  <2>3. pending' = FALSE /\ devs' = mon' /\ waiting' = {} /\ log' = log
    BY <1>5 DEF Restart, load_devices
  <2>4. QED
    BY <2>1, <2>2, <2>3
<1>6. CASE HistoryGC
  BY <1>6 DEF HistoryGC
<1>7. ASSUME NEW p \in Peer, FinishProbe(p)
      PROVE  EarnedInv' /\ EarnedStep
  <2>1. ~probe[p].orphan /\ dev[p] \in PeerState /\ probe[p].at \in Nat
        /\ ev[p] \in [st : Status, len : Nat] /\ CountersEarned(dev[p], ev[p])
    BY DEF BaseInv, TypeOK
  <2>2. PICK res \in Result :
          /\ Record(p, dev[p], res, probe[p].at, "probe")
          /\ dev' = [dev EXCEPT ![p] = Judged(dev[p], res, probe[p].at)]
          /\ probe' = [probe EXCEPT ![p].st = "done", ![p].res = res]
    BY <1>7, <2>1 DEF FinishProbe, Result
  <2>3. EarnedStep
    BY <2>1, <2>2, RecordEarned DEF BaseInv
  <2>4. CountersEarned(Judged(dev[p], res, probe[p].at), Extend(ev[p], res))
    BY <2>1, JudgedEarned
  <2>5. ev' = [ev EXCEPT ![p] = Extend(ev[p], res)]
    BY <2>2 DEF Record
  <2>6. \A q \in Peer : CountersEarned(dev'[q], ev'[q])
    BY <2>2, <2>4, <2>5 DEF BaseInv, TypeOK
  <2>7. \A q \in Peer : ~probe'[q].orphan
    BY <2>2 DEF BaseInv, TypeOK
  <2>8. QED
    BY <1>7, <2>3, <2>6, <2>7 DEF FinishProbe
<1>8. ASSUME NEW p \in Peer, Push(p)
      PROVE  EarnedInv' /\ EarnedStep
  <2>1. /\ p \in devs /\ dev[p] \in PeerState /\ now' \in Nat
        /\ ev[p] \in [st : Status, len : Nat] /\ CountersEarned(dev[p], ev[p])
    BY <1>8 DEF Push, Advance, BaseInv, TypeOK
  <2>2. Record(p, dev[p], "ALIVE", now', "push")
        /\ dev' = [dev EXCEPT ![p] = Judged(dev[p], "ALIVE", now')]
    BY <1>8, <2>1 DEF Push
  <2>3. EarnedStep
    BY <2>1, <2>2, RecordEarned DEF BaseInv, Result
  <2>4. CountersEarned(Judged(dev[p], "ALIVE", now'), Extend(ev[p], "ALIVE"))
    BY <2>1, JudgedEarned DEF Result
  <2>5. ev' = [ev EXCEPT ![p] = Extend(ev[p], "ALIVE")]
    BY <2>2 DEF Record
  <2>6. \A q \in Peer : CountersEarned(dev'[q], ev'[q])
    BY <2>2, <2>4, <2>5 DEF BaseInv, TypeOK
  <2>7. QED
    BY <1>8, <2>3, <2>6 DEF Push
<1>9. ASSUME NEW p \in Peer, \/ WebhookDone(p) \/ PushWaits(p)
                              \/ ScheduleMaintenance(p) \/ ClearMaintenance(p)
      PROVE  EarnedInv' /\ log' = log
  BY <1>9 DEF WebhookDone, PushWaits, ScheduleMaintenance, ClearMaintenance, engineVars
<1>10. CASE UNCHANGED vars
  BY <1>10 DEF vars, engineVars
<1>11. QED
  BY <1>1, <1>2, <1>3, <1>4, <1>5, <1>6, <1>7, <1>8, <1>9, <1>10 DEF Next

\* As long as no reload replaces the device table under a probe, every
\* monitor_down entry stands for down_after failures in a row and every
\* monitor_up entry for up_after successes, across restarts, maintenance
\* windows and failed history writes.
THEOREM ReportsAreEarned ==
    ASSUME "reload" \notin Disruptions, "external" \notin Disruptions
    PROVE  Spec => ReportsEarned
<1>1. Init => EarnedInv
  BY DEF Init, EarnedInv, CountersEarned, FreshState, NoProbe
<1>2. BaseInv /\ EarnedInv /\ [Next]_vars => BaseInv' /\ EarnedInv'
  BY NextKeepsBase, NextKeepsEarned
<1>3. BaseInv /\ EarnedInv /\ [Next]_vars => [EarnedStep]_vars
  BY NextKeepsEarned DEF EarnedStep
<1>4. QED
  BY InitBase, <1>1, <1>2, <1>3, PTL DEF Spec, ReportsEarned

-----------------------------------------------------------------------------
(* The abstract failure detector *)

\* Recording a result is a step of the detector.
LEMMA RecordDetects ==
    ASSUME TypeOK, NEW p \in Peer, NEW res \in Result, NEW t \in Nat, NEW who,
           Record(p, dev[p], res, t, who),
           dev' = [dev EXCEPT ![p] = Judged(dev[p], res, t)]
    PROVE  Detector!Next
<1> DEFINE s == dev[p]
           o == Observe(s, res, t)
           j == Judged(s, res, t)
           event == IF res = "ALIVE" THEN "up" ELSE "down"
<1>1. /\ s \in PeerState /\ ev[p] \in [st : Status, len : Nat]
      /\ dev \in [Peer -> PeerState] /\ ev \in [Peer -> [st : Status, len : Nat]]
  BY DEF TypeOK
<1>2. /\ o.status = s.status /\ o \in PeerState
      /\ res = "ALIVE" => o.fails = 0 /\ o.succs = s.succs + 1
      /\ res = "DEAD" => o.fails = s.fails + 1 /\ o.succs = 0
  BY <1>1 DEF Observe, PeerState, Result
<1>3. j.status = NextStatus(o, res) /\ j.fails = o.fails /\ j.succs = o.succs /\ j \in PeerState
  BY <1>1, <1>2, JudgedTyped DEF Judged, PeerState
<1>4. /\ s.status \in Status /\ s.fails \in Nat /\ s.succs \in Nat
      /\ DownAfter \in Nat \ {0} /\ UpAfter \in Nat \ {0}
  BY <1>1, ThresholdAssumption DEF PeerState
<1>5. Detector!Longer(p, res)
  <2>1. ev' = [ev EXCEPT ![p] = Extend(ev[p], res)]
    BY DEF Record
  <2>2. Extend(ev[p], res) = [st |-> res, len |-> IF ev[p].st = res THEN ev[p].len + 1 ELSE 1]
    BY <1>1 DEF Extend
  <2>3. QED
    BY <2>1, <2>2 DEF Detector!Longer
<1>6. /\ log' = log \/ log' = [log EXCEPT ![p] = Append(log[p], event)]
      /\ j.status = s.status \/ s.status = "UNKNOWN" => log' = log
  BY DEF Record, Reported
<1> HIDE DEF o, j
<1>7. Verdict' = [Verdict EXCEPT ![p] = j.status] /\ Verdict[p] = s.status
  BY <1>1, <1>3 DEF Verdict, j
<1>8. /\ Against' = [Against EXCEPT ![p] = Contradictions(j)]
      /\ Against[p] = Contradictions(s)
  BY <1>1, <1>3 DEF Against, j
<1>9. res \in {"ALIVE", "DEAD"}
  BY DEF Result
<1>10. j.status = s.status => Verdict' = Verdict
  BY <1>7 DEF Verdict
<1>11. Contradictions(j) = Contradictions(s) => Against' = Against
  BY <1>8 DEF Against
<1> HIDE DEF s
<1>12. CASE s.status = "UNKNOWN" /\ res = "ALIVE"
  <2>1. j.status = "ALIVE" /\ Contradictions(j) = 0 /\ Contradictions(s) = 0
    BY <1>2, <1>3, <1>12 DEF NextStatus, Contradictions
  <2>2. Detector!Meet(p)
    BY <1>5, <1>6, <1>7, <1>11, <1>12, <2>1 DEF Detector!Meet
  <2>3. QED
    BY <2>2 DEF Detector!Next
<1>13. CASE res = s.status \/ (s.status = "UNKNOWN" /\ res = "DEAD")
  <2>1. j.status = s.status /\ Contradictions(j) = 0
    BY <1>2, <1>3, <1>4, <1>9, <1>13 DEF NextStatus, Contradictions
  <2>2. log' = log
    BY <1>6, <2>1
  <2>3. Detector!Confirm(p, res)
    BY <1>5, <1>7, <1>8, <1>10, <1>13, <2>1, <2>2 DEF Detector!Confirm
  <2>4. QED
    BY <1>9, <2>3 DEF Detector!Next
<1>14. CASE s.status \in {"ALIVE", "DEAD"} \ {res}
  <2>1. Detector!Patience(Verdict[p]) = IF s.status = "ALIVE" THEN DownAfter ELSE UpAfter
    BY <1>7 DEF Detector!Patience
  <2>2. /\ s.status = "ALIVE" => res = "DEAD" /\ Against[p] = s.fails
        /\ s.status = "DEAD" => res = "ALIVE" /\ Against[p] = s.succs
    BY <1>8, <1>9, <1>14 DEF Contradictions
  <2>3. CASE Against[p] + 1 < Detector!Patience(Verdict[p])
    <3>1. j.status = s.status /\ Contradictions(j) = Against[p] + 1
      BY <1>2, <1>3, <1>4, <1>14, <2>1, <2>2, <2>3 DEF NextStatus, Contradictions
    <3>2. log' = log
      BY <1>6, <3>1
    <3>3. Detector!Doubt(p, res)
      BY <1>5, <1>7, <1>8, <1>10, <1>14, <2>3, <3>1, <3>2 DEF Detector!Doubt
    <3> QED BY <1>9, <3>3 DEF Detector!Next
  <2>4. CASE ~(Against[p] + 1 < Detector!Patience(Verdict[p]))
    <3>1. j.status = res /\ Contradictions(j) = 0
      BY <1>2, <1>3, <1>4, <1>14, <2>1, <2>2, <2>4 DEF NextStatus, Contradictions
    <3>2. Against[p] + 1 >= Detector!Patience(Verdict[p])
      BY <1>4, <1>14, <2>1, <2>2, <2>4
    <3>3. Detector!Turn(p, res)
      BY <1>5, <1>6, <1>7, <1>8, <1>14, <3>1, <3>2 DEF Detector!Turn
    <3> QED BY <1>9, <3>3 DEF Detector!Next
  <2>5. QED
    BY <2>3, <2>4
<1>15. QED
  BY <1>4, <1>9, <1>12, <1>13, <1>14 DEF Status

\* Without reloads, every step is a step of the detector or changes nothing
\* that it speaks of.
LEMMA DetectorStep ==
    ASSUME "reload" \notin Disruptions, "external" \notin Disruptions,
           BaseInv, EarnedInv, [Next]_vars
    PROVE  [Detector!Next]_(Detector!vars)
<1>1. CASE dev' = dev /\ ev' = ev /\ log' = log
  BY <1>1 DEF Detector!vars, Verdict, Against
<1>2. CASE Tick \/ StartCycle \/ FinishCycle \/ HistoryGC \/ UNCHANGED vars
  BY <1>1, <1>2 DEF Tick, StartCycle, FinishCycle, HistoryGC, vars, engineVars
<1>3. CASE ApplyDevicesReload \/ CheckReload \/ \E p \in Peer : ChangeTrust(p)
  BY <1>3 DEF ApplyDevicesReload, CheckReload, ChangeTrust, EarnedInv
<1>4. CASE Restart
  <2>1. ev' = ev /\ log' = log /\ BaseInv'
    BY <1>4, NextKeepsBase DEF Restart
  <2>2. dev' \in [Peer -> PeerState]
    BY <2>1 DEF BaseInv, TypeOK
  <2>3. ASSUME NEW p \in Peer PROVE Contradictions(dev'[p]) = 0
    <3>1. dev'[p] = FreshState \/ dev'[p] = Hydrate(recent_rows(hist[p], now))
      BY <1>4 DEF Restart, load_devices
    <3>2. /\ dev'[p].status = "ALIVE" => dev'[p].fails = 0
          /\ dev'[p].status = "DEAD" => dev'[p].succs = 0
      BY <3>1, HydrateCounters DEF FreshState
    <3> QED BY <3>2 DEF Contradictions
  <2>4. Against' = [p \in Peer |-> 0]
    BY <2>3 DEF Against
  <2>5. Verdict' \in [Peer -> {"UNKNOWN", "ALIVE", "DEAD"}]
    BY <2>2 DEF Verdict, PeerState, Status
  <2>6. Detector!Forget
    BY <2>1, <2>4, <2>5 DEF Detector!Forget
  <2>7. QED
    BY <2>6 DEF Detector!Next
<1>5. ASSUME NEW p \in Peer, FinishProbe(p) PROVE Detector!Next
  <2>1. ~probe[p].orphan /\ probe[p].at \in Nat /\ TypeOK
    BY DEF EarnedInv, BaseInv, TypeOK
  <2>2. PICK res \in Result :
          /\ Record(p, dev[p], res, probe[p].at, "probe")
          /\ dev' = [dev EXCEPT ![p] = Judged(dev[p], res, probe[p].at)]
    BY <1>5, <2>1 DEF FinishProbe, Result
  <2>3. QED
    BY <2>1, <2>2, RecordDetects
<1>6. ASSUME NEW p \in Peer, Push(p) PROVE Detector!Next
  <2>1. p \in devs /\ now' \in Nat /\ TypeOK
    BY <1>6 DEF Push, Advance, EarnedInv, BaseInv, TypeOK
  <2>2. Record(p, dev[p], "ALIVE", now', "push")
        /\ dev' = [dev EXCEPT ![p] = Judged(dev[p], "ALIVE", now')]
    BY <1>6, <2>1 DEF Push
  <2>3. QED
    BY <2>1, <2>2, RecordDetects DEF Result
<1>7. ASSUME NEW p \in Peer, \/ WebhookDone(p) \/ PushWaits(p)
                              \/ ScheduleMaintenance(p) \/ ClearMaintenance(p)
      PROVE  dev' = dev /\ ev' = ev /\ log' = log
  BY <1>7 DEF WebhookDone, PushWaits, ScheduleMaintenance, ClearMaintenance, engineVars
<1>8. QED
  BY <1>1, <1>2, <1>3, <1>4, <1>5, <1>6, <1>7 DEF Next

\* As long as no reload replaces the device table, the threshold machine with
\* its two counters, probes, pushes, webhooks, log entries, restarts,
\* maintenance windows and failing writes implements the abstract detector.
THEOREM DetectorRefinement ==
    ASSUME "reload" \notin Disruptions, "external" \notin Disruptions
    PROVE  Spec => ImplementsDetector
<1>1. Init => EarnedInv
  BY DEF Init, EarnedInv, CountersEarned, FreshState, NoProbe
<1>2. Init => Detector!Init
  BY DEF Init, Detector!Init, Verdict, Against, Contradictions, FreshState
<1>3. BaseInv /\ EarnedInv /\ [Next]_vars => BaseInv' /\ EarnedInv'
  BY NextKeepsBase, NextKeepsEarned
<1>4. BaseInv /\ EarnedInv /\ [Next]_vars => [Detector!Next]_(Detector!vars)
  BY DetectorStep
<1>5. QED
  BY InitBase, <1>1, <1>2, <1>3, <1>4, PTL DEF Spec, ImplementsDetector, Detector!Spec

-----------------------------------------------------------------------------
(* The log and the dashboard agree *)

EndsDown(l) == l # <<>> /\ l[Len(l)] = "down"

\* Undisturbed, there are no windows, no orphans and no removed peers, and each
\* status is the one the log tells.
QuietInv == /\ pending = FALSE /\ devs = mon /\ waiting \subseteq mon
            /\ \A p \in Peer : /\ window[p] = NoWindow /\ ~probe[p].orphan
                               /\ dev[p].status = "DEAD" <=> EndsDown(log[p])

\* _maybe_transition, outside maintenance, changes the status and the log
\* together.
LEMMA RecordMatches ==
    ASSUME "log_fail" \notin Disruptions, TypeOK,
           NEW p \in Peer, NEW s \in PeerState, NEW res \in Result, NEW t \in Nat,
           t >= 1, window[p] = NoWindow, NEW who, Record(p, s, res, t, who),
           s.status = "DEAD" <=> EndsDown(log[p])
    PROVE  /\ Judged(s, res, t).status = "DEAD" <=> EndsDown(log'[p])
           /\ \A q \in Peer : q # p => log'[q] = log[q]
<1> DEFINE event == IF res = "ALIVE" THEN "up" ELSE "down"
<1> DEFINE o == Observe(s, res, t)
<1>1. log \in [Peer -> Seq({"up", "down"})]
  BY DEF TypeOK
<1>2. ~in_maintenance(p, t)
  BY DEF in_maintenance, NoWindow
<1>3. o.status = s.status /\ o \in PeerState /\ Judged(s, res, t).status = NextStatus(o, res)
  BY DEF Observe, Judged, PeerState, Result
<1> HIDE DEF o
<1>4. /\ s.status \in Status
      /\ res = "ALIVE" => NextStatus(o, res) \in {s.status, "ALIVE"}
      /\ res = "DEAD" => NextStatus(o, res) = s.status
                         \/ (s.status = "ALIVE" /\ NextStatus(o, res) = "DEAD")
  BY <1>3 DEF NextStatus, PeerState
<1>5. CASE Reported(p, s, res, t)
  <2>1. log' = [log EXCEPT ![p] = Append(log[p], event)]
    BY <1>5 DEF Record
  <2>2. log'[p] # <<>> /\ log'[p][Len(log'[p])] = event
    BY <1>1, <2>1
  <2>3. NextStatus(o, res) # s.status
    BY <1>3, <1>5 DEF Reported
  <2>4. QED
    BY <1>1, <1>3, <1>4, <2>1, <2>2, <2>3 DEF EndsDown, Result
<1>6. CASE ~Reported(p, s, res, t)
  <2>1. log' = log
    BY <1>6 DEF Record
  <2>2. NextStatus(o, res) = s.status \/ s.status = "UNKNOWN"
    BY <1>2, <1>3, <1>6 DEF Reported
  <2>3. QED
    BY <1>3, <1>4, <2>1, <2>2 DEF Result
<1>7. QED
  BY <1>5, <1>6

\* Undisturbed, every step keeps the statuses and the log together.
LEMMA NextKeepsQuiet ==
    ASSUME Disruptions \subseteq {"hist_fail"}, BaseInv, QuietInv, [Next]_vars
    PROVE  QuietInv'
<1> USE DEF QuietInv
<1>0. /\ "reload" \notin Disruptions /\ "external" \notin Disruptions
      /\ "restart" \notin Disruptions /\ "maintenance" \notin Disruptions
      /\ "log_fail" \notin Disruptions
  OBVIOUS
<1>1. CASE Tick
  BY <1>1 DEF Tick, engineVars
<1>2. CASE StartCycle
  <2>1. \A p \in Peer : probe'[p].orphan = FALSE
    BY <1>2 DEF StartCycle, NoProbe
  <2>2. QED
    BY <1>2, <2>1 DEF StartCycle
<1>3. CASE FinishCycle
  <2>1. \A p \in Peer : probe'[p].orphan = FALSE
    BY <1>3 DEF FinishCycle, NoProbe
  <2>2. QED
    BY <1>3, <2>1 DEF FinishCycle
<1>4. CASE \/ ApplyDevicesReload \/ CheckReload \/ Restart
           \/ \E p \in Peer : \/ ChangeTrust(p) \/ ScheduleMaintenance(p)
                              \/ ClearMaintenance(p)
  BY <1>0, <1>4 DEF ApplyDevicesReload, CheckReload, Restart, ChangeTrust,
              ScheduleMaintenance, ClearMaintenance
<1>5. CASE HistoryGC
  BY <1>5 DEF HistoryGC
<1>6. ASSUME NEW p \in Peer, FinishProbe(p)
      PROVE  QuietInv'
  <2>1. ~probe[p].orphan /\ dev[p] \in PeerState /\ probe[p].at \in Nat /\ probe[p].at >= 1
    BY <1>6 DEF BaseInv, TypeOK, ProbeInv, FinishProbe
  <2>2. PICK res \in Result :
          /\ Record(p, dev[p], res, probe[p].at, "probe")
          /\ dev' = [dev EXCEPT ![p] = Judged(dev[p], res, probe[p].at)]
          /\ probe' = [probe EXCEPT ![p].st = "done", ![p].res = res]
    BY <1>6, <2>1 DEF FinishProbe, Result
  <2>3. /\ Judged(dev[p], res, probe[p].at).status = "DEAD" <=> EndsDown(log'[p])
        /\ \A q \in Peer : q # p => log'[q] = log[q]
    BY <1>0, <2>1, <2>2, RecordMatches DEF BaseInv
  <2>4. \A q \in Peer : dev'[q].status = "DEAD" <=> EndsDown(log'[q])
    BY <2>2, <2>3 DEF BaseInv, TypeOK
  <2>5. \A q \in Peer : ~probe'[q].orphan
    BY <2>2 DEF BaseInv, TypeOK
  <2>6. QED
    BY <1>6, <2>4, <2>5 DEF FinishProbe
<1>7. ASSUME NEW p \in Peer, Push(p)
      PROVE  QuietInv'
  <2>1. p \in devs /\ dev[p] \in PeerState /\ now' \in Nat /\ now' >= 1
    BY <1>7 DEF Push, Advance, BaseInv, TypeOK
  <2>2. Record(p, dev[p], "ALIVE", now', "push")
        /\ dev' = [dev EXCEPT ![p] = Judged(dev[p], "ALIVE", now')]
    BY <1>7, <2>1 DEF Push
  <2>3. /\ Judged(dev[p], "ALIVE", now').status = "DEAD" <=> EndsDown(log'[p])
        /\ \A q \in Peer : q # p => log'[q] = log[q]
    BY <1>0, <2>1, <2>2, RecordMatches DEF BaseInv, Result
  <2>4. \A q \in Peer : dev'[q].status = "DEAD" <=> EndsDown(log'[q])
    BY <2>2, <2>3 DEF BaseInv, TypeOK
  <2>5. QED
    BY <1>7, <2>4 DEF Push
<1>8. ASSUME NEW p \in Peer, WebhookDone(p) \/ PushWaits(p)
      PROVE  QuietInv'
  BY <1>8 DEF WebhookDone, PushWaits
<1>9. CASE UNCHANGED vars
  BY <1>9 DEF vars, engineVars
<1>10. QED
  BY <1>1, <1>2, <1>3, <1>4, <1>5, <1>6, <1>7, <1>8, <1>9 DEF Next

\* Unless it is restarted, reloaded, put in maintenance or cannot write the
\* log, the engine shows a peer DEAD exactly when the last entry about it in the
\* log is monitor_down; a failing history database does not matter.
THEOREM QuietStatusMatchesLog ==
    ASSUME Disruptions \subseteq {"hist_fail"}
    PROVE  Spec => []StatusMatchesLog
<1>1. Init => QuietInv
  BY DEF Init, QuietInv, EndsDown, FreshState, NoProbe
<1>2. BaseInv /\ QuietInv /\ [Next]_vars => BaseInv' /\ QuietInv'
  BY NextKeepsBase, NextKeepsQuiet
<1>3. BaseInv /\ QuietInv => StatusMatchesLog
  BY DEF BaseInv, TypeOK, QuietInv, EndsDown, StatusMatchesLog
<1>4. QED
  BY InitBase, <1>1, <1>2, <1>3, PTL DEF Spec

-----------------------------------------------------------------------------
(* No outage goes unnoticed *)

\* The results of p that are counted: its rows, and the row that waits for the
\* end of the cycle.
Counted(p) == hist[p] \cup (IF probe[p].st = "done" THEN {[ts |-> probe[p].at, st |-> probe[p].res]} ELSE {})

\* The rows that are later than every success.
Failing(h) == {r \in h : \A q \in h : q.ts >= r.ts => q.st = "DEAD"}

\* Each row later than every success is a failure that the state has counted
\* since its last success; a state that has seen a success is not UNKNOWN, and
\* not ALIVE once it has counted down_after failures.  Rows from the time of the
\* running cycle on are pushes.
OutageInv ==
    /\ ~cycle => \A p \in Peer : probe[p].st = "idle"
    /\ \A p \in Peer :
         /\ Cardinality(Failing(Counted(p))) <= dev[p].fails
         /\ (\E r \in Counted(p) : r.st = "ALIVE") => dev[p].status # "UNKNOWN"
         /\ dev[p].status = "ALIVE" => dev[p].fails < DownAfter
         /\ probe[p].st # "idle" => \A r \in hist[p] : r.ts >= probe[p].at => r.st = "ALIVE"

\* When the newest row is a failure, the run that ends the history is made of
\* the rows later than every success.
LEMMA TailRunFails ==
    ASSUME NEW h, h \subseteq Row, IsFiniteSet(h), h # {}, NEW n \in Nat, \A r \in h : r.ts <= n,
           Newest(h).st = "DEAD"
    PROVE  TailRun(h) <= Cardinality(Failing(h)) /\ TailRun(h) \in Nat /\ Cardinality(Failing(h)) \in Nat
<1> DEFINE run == {r \in h : \A q \in h : q.ts >= r.ts => q.st = r.st}
<1>1. Newest(h) \in h /\ \A q \in h : q.ts <= Newest(h).ts /\ q.ts \in Nat
  BY NewestExists DEF Row
<1>2. run \subseteq Failing(h)
  BY <1>1 DEF Failing
<1>3. IsFiniteSet(Failing(h)) /\ IsFiniteSet(run)
  BY FS_Subset DEF Failing
<1>4. Cardinality(run) <= Cardinality(Failing(h)) /\ Cardinality(run) \in Nat /\ Cardinality(Failing(h)) \in Nat
  <2> HIDE DEF run
  <2> QED BY <1>2, <1>3, FS_Subset, FS_CardinalityType
<1>5. QED
  BY <1>4 DEF TailRun

\* A failure adds at most itself to them; a success leaves none, when no failure
\* is as late.
LEMMA FailingGrows ==
    ASSUME NEW h, IsFiniteSet(h), NEW n, h \cup {n} \subseteq Row
    PROVE  /\ Cardinality(Failing(h \cup {n})) <= Cardinality(Failing(h)) + 1
           /\ (n.st = "ALIVE" /\ \A q \in h : q.ts >= n.ts => q.st = "ALIVE")
                => Cardinality(Failing(h \cup {n})) = 0
<1>1. IsFiniteSet(Failing(h)) /\ IsFiniteSet(Failing(h) \cup {n})
      /\ Cardinality(Failing(h) \cup {n}) <= Cardinality(Failing(h)) + 1
  <2>1. IsFiniteSet(Failing(h))
    BY FS_Subset DEF Failing
  <2>2. Cardinality(Failing(h)) \in Nat
    BY <2>1, FS_CardinalityType
  <2>3. /\ IsFiniteSet(Failing(h) \cup {n})
        /\ Cardinality(Failing(h) \cup {n}) =
             IF n \in Failing(h) THEN Cardinality(Failing(h)) ELSE Cardinality(Failing(h)) + 1
    BY <2>1, FS_AddElement
  <2> QED BY <2>1, <2>2, <2>3
<1>2. Failing(h \cup {n}) \subseteq Failing(h) \cup {n}
  BY DEF Failing
<1>3. Cardinality(Failing(h \cup {n})) <= Cardinality(Failing(h)) + 1
  <2>1. /\ Cardinality(Failing(h \cup {n})) <= Cardinality(Failing(h) \cup {n})
        /\ IsFiniteSet(Failing(h \cup {n}))
    BY <1>1, <1>2, FS_Subset
  <2>2. /\ Cardinality(Failing(h \cup {n})) \in Nat /\ Cardinality(Failing(h) \cup {n}) \in Nat
        /\ Cardinality(Failing(h)) \in Nat
    BY <1>1, <2>1, FS_CardinalityType
  <2> QED BY <1>1, <2>1, <2>2
<1>4. ASSUME n.st = "ALIVE", \A q \in h : q.ts >= n.ts => q.st = "ALIVE"
      PROVE  Cardinality(Failing(h \cup {n})) = 0
  <2>1. ASSUME NEW r \in Failing(h \cup {n}) PROVE FALSE
    <3>1. r \in h \cup {n} /\ r.ts \in Nat /\ n.ts \in Nat /\ n \in h \cup {n}
      BY DEF Failing, Row
    <3>2. r.st = "DEAD" /\ ~(n.ts >= r.ts)
      BY <1>4, <3>1 DEF Failing
    <3> QED BY <1>4, <3>1, <3>2
  <2>2. Failing(h \cup {n}) = {}
    BY <2>1
  <2> QED BY <2>2, FS_EmptySet
<1>5. QED
  BY <1>3, <1>4

\* What the threshold machine makes of the counters.
LEMMA JudgedCounts ==
    ASSUME NEW s \in PeerState, NEW res \in Result, NEW t \in Nat, s.status = "ALIVE" => s.fails < DownAfter
    PROVE  /\ res = "ALIVE" => Judged(s, res, t).fails = 0 /\ Judged(s, res, t).status # "UNKNOWN"
           /\ res = "DEAD" => /\ Judged(s, res, t).fails = s.fails + 1
                              /\ Judged(s, res, t).status = "UNKNOWN" <=> s.status = "UNKNOWN"
           /\ Judged(s, res, t).status = "ALIVE" => Judged(s, res, t).fails < DownAfter
<1> DEFINE o == Observe(s, res, t)
<1>1. /\ o.status = s.status /\ o \in PeerState
      /\ Judged(s, res, t).status = NextStatus(o, res) /\ Judged(s, res, t).fails = o.fails
      /\ o.fails = IF res = "ALIVE" THEN 0 ELSE s.fails + 1
  BY DEF Observe, Judged, PeerState, Result
<1> HIDE DEF o
<1>2. s.status \in {"UNKNOWN", "ALIVE", "DEAD"} /\ s.fails \in Nat /\ DownAfter \in Nat \ {0}
  BY ThresholdAssumption DEF PeerState, Status
<1>3. CASE res = "ALIVE"
  BY <1>1, <1>2, <1>3 DEF NextStatus
<1>4. CASE res = "DEAD"
  BY <1>1, <1>2, <1>4 DEF NextStatus
<1>5. QED
  BY <1>3, <1>4 DEF Result

\* Nothing is counted at the start.
LEMMA InitOutage == Init => OutageInv
<1> SUFFICES ASSUME Init PROVE OutageInv
  OBVIOUS
<1>1. \A p \in Peer : /\ probe[p].st = "idle" /\ hist[p] = {} /\ dev[p].fails = 0 /\ dev[p].status = "UNKNOWN"
  BY DEF Init, NoProbe, FreshState
<1>2. \A p \in Peer : Counted(p) = {} /\ Failing(Counted(p)) = {}
  BY <1>1 DEF Counted, Failing
<1> QED BY <1>1, <1>2, FS_EmptySet DEF OutageInv

\* Without reloads and lost rows, every step keeps the counters above the failures that follow
\* the last success: the results of a cycle are counted before they become
\* rows, and the next cycle starts after that.
LEMMA NextKeepsOutage ==
    ASSUME "reload" \notin Disruptions, "external" \notin Disruptions,
           "restart" \notin Disruptions, "hist_fail" \notin Disruptions,
           BaseInv, EarnedInv, OutageInv, [Next]_vars
    PROVE  OutageInv'
<1>c. /\ "reload" \notin Disruptions /\ "external" \notin Disruptions
      /\ "restart" \notin Disruptions /\ "hist_fail" \notin Disruptions
  OBVIOUS
<1>0. /\ dev \in [Peer -> PeerState] /\ hist \in [Peer -> SUBSET Row] /\ now \in Nat
      /\ (\A p \in Peer : /\ IsFiniteSet(hist[p]) /\ probe[p].at \in Nat /\ probe[p].at <= now
                          /\ (probe[p].st = "done" => probe[p].res \in Result)
                          /\ \A r \in hist[p] : r.ts <= now /\ r.ts \in Nat)
      /\ probe \in [Peer -> Probe] /\ cycle \in BOOLEAN
  BY DEF BaseInv, TypeOK, ProbeInv, Probe, Row
<1>a. \A p \in Peer : IsFiniteSet(Counted(p)) /\ Counted(p) \subseteq Row /\ \A r \in Counted(p) : r.ts <= now
  <2> SUFFICES ASSUME NEW p \in Peer
               PROVE  IsFiniteSet(Counted(p)) /\ Counted(p) \subseteq Row /\ \A r \in Counted(p) : r.ts <= now
    OBVIOUS
  <2>1. CASE probe[p].st = "done"
    <3> DEFINE row == [ts |-> probe[p].at, st |-> probe[p].res]
    <3>1. row \in Row /\ row.ts <= now /\ Counted(p) = hist[p] \cup {row}
      BY <1>0, <2>1 DEF Row, Result, Counted
    <3> HIDE DEF row
    <3> QED BY <1>0, <3>1, FS_AddElement
  <2>2. CASE probe[p].st # "done"
    BY <1>0, <2>2 DEF Counted
  <2> QED BY <2>1, <2>2
<1>b. /\ ~cycle => \A p \in Peer : probe[p].st = "idle"
      /\ \A p \in Peer :
           /\ Cardinality(Failing(Counted(p))) <= dev[p].fails
           /\ (\E r \in Counted(p) : r.st = "ALIVE") => dev[p].status # "UNKNOWN"
           /\ dev[p].status = "ALIVE" => dev[p].fails < DownAfter
           /\ probe[p].st # "idle" => \A r \in hist[p] : r.ts >= probe[p].at => r.st = "ALIVE"
  BY DEF OutageInv
\* the frame: nothing about the results of p changes
<1>1. ASSUME UNCHANGED <<dev, hist, probe, cycle>>
      PROVE  OutageInv'
  BY <1>1 DEF OutageInv, Counted
\* a result of p is counted: its row is n
<1>2. ASSUME NEW p \in Peer, NEW res \in Result, NEW t \in Nat,
             dev' = [dev EXCEPT ![p] = Judged(dev[p], res, t)],
             Counted(p)' = Counted(p) \cup {[ts |-> t, st |-> res]},
             \A q \in Peer : q # p => Counted(q)' = Counted(q) /\ hist'[q] = hist[q] /\ probe'[q] = probe[q],
             res = "ALIVE" => \A q \in Counted(p) : q.ts >= t => q.st = "ALIVE",
             probe'[p].st # "idle" => \A r \in hist'[p] : r.ts >= probe'[p].at => r.st = "ALIVE",
             cycle' = cycle, ~cycle => probe'[p].st = "idle"
      PROVE  OutageInv'
  <2> DEFINE n == [ts |-> t, st |-> res]
             s == Judged(dev[p], res, t)
  <2>1. n \in Row /\ n.st = res /\ n.ts = t /\ Counted(p)' = Counted(p) \cup {n}
    BY <1>2 DEF Row, Result
  <2>2. /\ (res = "ALIVE" => s.fails = 0 /\ s.status # "UNKNOWN")
        /\ (res = "DEAD" => s.fails = dev[p].fails + 1 /\ (s.status = "UNKNOWN" <=> dev[p].status = "UNKNOWN"))
        /\ (s.status = "ALIVE" => s.fails < DownAfter)
    BY <1>0, <1>b, <1>2, JudgedCounts
  <2> HIDE DEF n, s
  <2>3. /\ Cardinality(Failing(Counted(p) \cup {n})) <= Cardinality(Failing(Counted(p))) + 1
        /\ (res = "ALIVE" => Cardinality(Failing(Counted(p) \cup {n})) = 0)
    BY <1>a, <1>2, <2>1, FailingGrows
  <2>4. Cardinality(Failing(Counted(p))) \in Nat /\ Cardinality(Failing(Counted(p) \cup {n})) \in Nat
        /\ dev[p].fails \in Nat
    <3>1. IsFiniteSet(Counted(p)) /\ IsFiniteSet(Counted(p) \cup {n})
      BY <1>a, FS_AddElement
    <3>2. IsFiniteSet(Failing(Counted(p))) /\ IsFiniteSet(Failing(Counted(p) \cup {n}))
      BY <3>1, FS_Subset DEF Failing
    <3> QED BY <1>0, <3>2, FS_CardinalityType DEF PeerState
  <2>5. Cardinality(Failing(Counted(p) \cup {n})) <= s.fails
    BY <1>b, <2>2, <2>3, <2>4 DEF Result
  <2>6. (\E r \in Counted(p) \cup {n} : r.st = "ALIVE") => s.status # "UNKNOWN"
    BY <1>b, <2>1, <2>2 DEF Result
  <2>7. dev'[p] = s /\ \A q \in Peer : q # p => dev'[q] = dev[q]
    BY <1>0, <1>2 DEF s
  <2>8. ASSUME NEW q \in Peer
        PROVE  /\ Cardinality(Failing(Counted(q)')) <= dev'[q].fails
               /\ (\E r \in Counted(q)' : r.st = "ALIVE") => dev'[q].status # "UNKNOWN"
               /\ dev'[q].status = "ALIVE" => dev'[q].fails < DownAfter
               /\ probe'[q].st # "idle" => \A r \in hist'[q] : r.ts >= probe'[q].at => r.st = "ALIVE"
    <3>1. CASE q = p
      BY <1>2, <2>1, <2>2, <2>5, <2>6, <2>7, <3>1
    <3>2. CASE q # p
      BY <1>b, <1>2, <2>7, <3>2
    <3> QED BY <3>1, <3>2
  <2>9. ~cycle' => \A q \in Peer : probe'[q].st = "idle"
    BY <1>b, <1>2
  <2> QED BY <2>8, <2>9 DEF OutageInv, Failing
\* the counted results stay as they are
<1>3. ASSUME dev' = dev, \A p \in Peer : Counted(p)' = Counted(p),
             ~cycle' => \A p \in Peer : probe'[p].st = "idle",
             \A p \in Peer : probe'[p].st # "idle" => \A r \in hist'[p] : r.ts >= probe'[p].at => r.st = "ALIVE"
      PROVE  OutageInv'
  BY <1>b, <1>3 DEF OutageInv, Failing
<1>4. CASE StartCycle
  <2>1. /\ ~cycle /\ cycle' = TRUE /\ now' = now + 1 /\ hist' = hist /\ dev' = dev
        /\ probe' = [p \in Peer |-> IF p \in devs /\ ~in_maintenance(p, now')
                                     THEN [NoProbe EXCEPT !.st = "connecting", !.at = now'] ELSE NoProbe]
    BY <1>4 DEF StartCycle, Advance
  <2>2. \A p \in Peer : \/ probe'[p].st = "idle"
                        \/ probe'[p].st = "connecting" /\ probe'[p].at = now + 1
    BY <2>1 DEF NoProbe
  <2>3. \A p \in Peer : Counted(p)' = Counted(p)
    BY <1>b, <2>1, <2>2 DEF Counted
  <2>4. \A p \in Peer : \A r \in hist'[p] : ~(r.ts >= now + 1)
    BY <1>0, <2>1
  <2> QED BY <1>3, <2>1, <2>2, <2>3, <2>4
<1>5. CASE FinishCycle
  <2>1. /\ cycle' = FALSE /\ dev' = dev /\ probe' = [p \in Peer |-> NoProbe]
        /\ hist' = [p \in Peer |-> IF probe[p].st = "done"
                                    THEN hist[p] \cup {[ts |-> probe[p].at, st |-> probe[p].res]} ELSE hist[p]]
    BY <1>c, <1>5 DEF FinishCycle
  <2>2. \A p \in Peer : probe'[p].st = "idle"
    BY <2>1 DEF NoProbe
  <2>3. \A p \in Peer : Counted(p)' = Counted(p)
    BY <2>1, <2>2 DEF Counted
  <2> QED BY <1>3, <2>1, <2>2, <2>3
<1>6. ASSUME NEW p \in Peer, FinishProbe(p)
      PROVE  OutageInv'
  <2>1. ~probe[p].orphan /\ probe[p].st = "connecting" /\ hist' = hist /\ cycle' = cycle /\ cycle
    BY <1>0, <1>b, <1>6 DEF FinishProbe, EarnedInv
  <2>2. PICK res \in Result :
          /\ dev' = [dev EXCEPT ![p] = Judged(dev[p], res, probe[p].at)]
          /\ probe' = [probe EXCEPT ![p].st = "done", ![p].res = res]
    BY <1>6, <2>1 DEF FinishProbe, Result
  <2>3. /\ probe'[p].st = "done" /\ probe'[p].res = res /\ probe'[p].at = probe[p].at
        /\ \A q \in Peer : q # p => probe'[q] = probe[q]
    BY <1>0, <2>2 DEF Probe
  <2>4. Counted(p) = hist[p] /\ Counted(p)' = hist[p] \cup {[ts |-> probe[p].at, st |-> res]}
    BY <2>1, <2>3 DEF Counted
  <2>5. \A q \in Peer : q # p => Counted(q)' = Counted(q) /\ hist'[q] = hist[q] /\ probe'[q] = probe[q]
    BY <2>1, <2>3 DEF Counted
  <2>6. \A q \in Counted(p) : q.ts >= probe[p].at => q.st = "ALIVE"
    BY <1>b, <2>1, <2>4
  <2>7. probe'[p].st # "idle" => \A r \in hist'[p] : r.ts >= probe'[p].at => r.st = "ALIVE"
    BY <2>1, <2>3, <2>4, <2>6
  <2>8. /\ dev' = [dev EXCEPT ![p] = Judged(dev[p], res, probe[p].at)]
        /\ Counted(p)' = Counted(p) \cup {[ts |-> probe[p].at, st |-> res]}
        /\ cycle' = cycle /\ (~cycle => probe'[p].st = "idle")
    BY <2>1, <2>2, <2>4
  <2>9. probe[p].at \in Nat
    BY <1>0
  <2> QED BY <1>2, <2>5, <2>6, <2>7, <2>8, <2>9
<1>7. ASSUME NEW p \in Peer, Push(p)
      PROVE  OutageInv'
  <2>1. p \in devs /\ now' = now + 1 /\ cycle' = cycle /\ probe' = probe
        /\ hist' = [hist EXCEPT ![p] = @ \cup {[ts |-> now', st |-> "ALIVE"]}]
    BY <1>c, <1>7 DEF Push, Advance, EarnedInv
  <2>2. dev' = [dev EXCEPT ![p] = Judged(dev[p], "ALIVE", now')]
    BY <1>7, <2>1 DEF Push
  <2>3. hist'[p] = hist[p] \cup {[ts |-> now', st |-> "ALIVE"]} /\ \A q \in Peer : q # p => hist'[q] = hist[q]
    BY <1>0, <2>1
  <2>4. Counted(p)' = Counted(p) \cup {[ts |-> now', st |-> "ALIVE"]}
    BY <2>1, <2>3 DEF Counted
  <2>5. \A q \in Peer : q # p => Counted(q)' = Counted(q) /\ hist'[q] = hist[q] /\ probe'[q] = probe[q]
    BY <2>1, <2>3 DEF Counted
  <2>6. \A q \in Counted(p) : q.ts >= now' => q.st = "ALIVE"
    <3>1. \A q \in Counted(p) : q.ts \in Nat /\ q.ts <= now
      BY <1>a DEF Row
    <3> QED BY <1>0, <2>1, <3>1
  <2>7. probe'[p].st # "idle" => \A r \in hist'[p] : r.ts >= probe'[p].at => r.st = "ALIVE"
    BY <1>b, <2>1, <2>3
  <2>8. now' \in Nat /\ "ALIVE" \in Result /\ (~cycle => probe'[p].st = "idle")
    BY <1>0, <1>b, <2>1 DEF Result
  <2> QED BY <1>2, <2>1, <2>2, <2>4, <2>5, <2>6, <2>7, <2>8
<1>8. CASE ApplyDevicesReload \/ CheckReload \/ Restart \/ \E p \in Peer : ChangeTrust(p)
  BY <1>c, <1>8 DEF ApplyDevicesReload, CheckReload, Restart, ChangeTrust, EarnedInv
<1>9. CASE Tick \/ HistoryGC \/ UNCHANGED vars
  BY <1>1, <1>9 DEF Tick, HistoryGC, vars, engineVars
<1>10. ASSUME NEW p \in Peer, \/ WebhookDone(p) \/ PushWaits(p)
                               \/ ScheduleMaintenance(p) \/ ClearMaintenance(p)
       PROVE  OutageInv'
  BY <1>1, <1>10 DEF WebhookDone, PushWaits, ScheduleMaintenance, ClearMaintenance, engineVars
<1>11. QED
  BY <1>4, <1>5, <1>6, <1>7, <1>8, <1>9, <1>10 DEF Next

\* Unless the device table is rebuilt or a row of history is lost, no outage
\* goes unnoticed, for any thresholds and any interleaving of probes, pushes,
\* webhooks, maintenance windows and failing log writes.
THEOREM QuietOutageDetected ==
    ASSUME Disruptions \subseteq {"maintenance", "log_fail"}
    PROVE  Spec => []OutageDetected
<1>1. Init => EarnedInv
  BY DEF Init, EarnedInv, CountersEarned, FreshState, NoProbe
<1>2. Init => OutageInv
  BY InitOutage
<1>3. BaseInv /\ EarnedInv /\ OutageInv /\ [Next]_vars => BaseInv' /\ EarnedInv' /\ OutageInv'
  <2>1. /\ "reload" \notin Disruptions /\ "external" \notin Disruptions
        /\ "restart" \notin Disruptions /\ "hist_fail" \notin Disruptions
    OBVIOUS
  <2> QED BY <2>1, NextKeepsBase, NextKeepsEarned, NextKeepsOutage
<1>4. ASSUME BaseInv, OutageInv, devs \subseteq Peer PROVE OutageDetected
  <2>1. SUFFICES ASSUME NEW p \in devs, \E r \in hist[p] : r.st = "ALIVE", Newest(hist[p]).st = "DEAD",
                        TailRun(hist[p]) >= DownAfter, ~(probe[p].st = "done" /\ probe[p].res = "ALIVE")
                 PROVE  dev[p].status = "DEAD"
    BY DEF OutageDetected
  <2>2. /\ p \in Peer /\ hist[p] \subseteq Row /\ IsFiniteSet(hist[p]) /\ hist[p] # {} /\ now \in Nat
        /\ (\A r \in hist[p] : r.ts <= now) /\ dev[p] \in PeerState
        /\ (probe[p].st = "done" => probe[p].res \in Result)
        /\ probe[p].at \in Nat
    BY <1>4, <2>1 DEF BaseInv, TypeOK, ProbeInv
  <2>3. /\ TailRun(hist[p]) <= Cardinality(Failing(hist[p]))
        /\ TailRun(hist[p]) \in Nat /\ Cardinality(Failing(hist[p])) \in Nat
    BY <2>1, <2>2, TailRunFails
  <2>4. /\ Failing(hist[p]) \subseteq Failing(Counted(p)) /\ hist[p] \subseteq Counted(p)
        /\ IsFiniteSet(Counted(p))
    <3>1. CASE probe[p].st = "done"
      <4>1. Counted(p) = hist[p] \cup {[ts |-> probe[p].at, st |-> "DEAD"]}
        BY <2>1, <2>2, <3>1 DEF Counted, Result
      <4> QED BY <2>2, <4>1, FS_AddElement DEF Failing
    <3>2. CASE probe[p].st # "done"
      BY <2>2, <3>2 DEF Counted
    <3> QED BY <3>1, <3>2
  <2>5. /\ Cardinality(Failing(hist[p])) <= Cardinality(Failing(Counted(p)))
        /\ Cardinality(Failing(Counted(p))) \in Nat
    <3>1. IsFiniteSet(Failing(Counted(p)))
      BY <2>4, FS_Subset DEF Failing
    <3> QED BY <2>4, <3>1, FS_Subset, FS_CardinalityType
  <2>6. /\ Cardinality(Failing(Counted(p))) <= dev[p].fails /\ dev[p].status # "UNKNOWN"
        /\ (dev[p].status = "ALIVE" => dev[p].fails < DownAfter)
    BY <1>4, <2>1, <2>2, <2>4 DEF OutageInv
  <2>7. dev[p].fails \in Nat /\ DownAfter \in Nat /\ dev[p].status \in {"UNKNOWN", "ALIVE", "DEAD"}
    BY <2>2, ThresholdAssumption DEF PeerState, Status
  <2>8. dev[p].fails >= DownAfter
    BY <2>1, <2>3, <2>5, <2>6, <2>7
  <2> QED BY <2>6, <2>7, <2>8
<1>5. BaseInv /\ OutageInv => OutageDetected
  BY <1>4 DEF BaseInv, TypeOK
<1>6. QED
  BY InitBase, <1>1, <1>2, <1>3, <1>5, PTL DEF Spec
=============================================================================
