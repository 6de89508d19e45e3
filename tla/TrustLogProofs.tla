--------------------------- MODULE TrustLogProofs ---------------------------
(***************************************************************************)
(* What holds of the trust log for every set of peers, threads and races:  *)
(* type correctness, the integrity of the chain in memory, the tail of     *)
(* monitor events and the freshness of the peer view; and, when the        *)
(* environment admits no race, the integrity of the file, the durability   *)
(* of acknowledged mutations and authorization by what the file grants.    *)
(***************************************************************************)
EXTENDS TrustLog, SequenceTheorems, WellFoundedInduction, TLAPS

-----------------------------------------------------------------------------
(* Lemmas about operations, entries and chains *)

\* Every operation a mutation method appends is a typed peer operation.
LEMMA MutationsTyped ==
    ASSUME NEW v, NEW op \in Mutations(v)
    PROVE  op \in OpRecord /\ op.type \in OpTypes
<1>1. CASE op \in add_peer(v)
  <2>1. PICK p \in Peer, a \in Perms, t \in SUBSET Tag : op = Op("add_peer", p, a \cup t)
    BY <1>1 DEF add_peer
  <2>2. a \cup t \in SUBSET ((UNION Perms) \cup Tag \cup Alias)
    OBVIOUS
  <2>3. QED
    BY <2>1, <2>2 DEF Op, OpRecord, OpTypes, PeerOps
<1>2. CASE op \in revoke_peer(v)
  BY <1>2 DEF revoke_peer, Op, OpRecord, OpTypes, PeerOps
<1>3. CASE op \in update_permissions(v)
  BY <1>3 DEF update_permissions, Op, OpRecord, OpTypes, PeerOps
<1>4. CASE op \in set_alias(v)
  <2>1. PICK p \in Peer, a \in Alias : op = Op("add_peer_alias", p, {a})
    BY <1>4 DEF set_alias
  <2>2. {a} \in SUBSET ((UNION Perms) \cup Tag \cup Alias)
    OBVIOUS
  <2>3. QED
    BY <2>1, <2>2 DEF Op, OpRecord, OpTypes, PeerOps
<1>5. CASE op \in set_tags(v)
  <2>1. PICK p \in Peer, t \in SUBSET Tag : op = Op("set_tags", p, t)
    BY <1>5 DEF set_tags
  <2>2. t \in SUBSET ((UNION Perms) \cup Tag \cup Alias)
    OBVIOUS
  <2>3. QED
    BY <2>1, <2>2 DEF Op, OpRecord, OpTypes, PeerOps
<1>6. CASE op \in set_maintenance(v)
  BY <1>6 DEF set_maintenance, Op, OpRecord, OpTypes, PeerOps
<1>7. CASE op \in clear_maintenance(v)
  BY <1>7 DEF clear_maintenance, Op, OpRecord, OpTypes, PeerOps
<1>8. QED
  BY <1>1, <1>2, <1>3, <1>4, <1>5, <1>6, <1>7 DEF Mutations

\* So is every event the loop records, and the genesis operation.
LEMMA EventsTyped ==
    ASSUME NEW op \in Events \cup {Genesis}
    PROVE  op \in OpRecord /\ op.type \in OpTypes
BY DEF Events, Genesis, Op, OpRecord, OpTypes

\* A signed entry is a line of the file.
LEMMA NewEntryTyped ==
    ASSUME NEW s \in Seq(Line), NEW op \in OpRecord, appends \in Nat
    PROVE  NewEntry(s, op) \in Line
<1>1. CASE s = <<>>
  BY <1>1 DEF NewEntry, LogHead, Line, ZeroHash
<1>2. CASE s # <<>>
  <2>1. s[Len(s)] \in Line
    BY <1>2
  <2>2. LogHead(s).seq \in Int /\ LogHead(s).hash \in Int
    BY <1>2, <2>1 DEF LogHead, Line
  <2>3. QED
    BY <2>2 DEF NewEntry, Line
<1>3. QED
  BY <1>1, <1>2

\* TrustLog.append extends a chain that verifies to one that verifies.
LEMMA AppendKeepsChain ==
    ASSUME NEW s \in Seq(Line), VerifyChain(s), appends \in Nat,
           NEW op \in OpRecord, op.type \in OpTypes
    PROVE  VerifyChain(Append(s, NewEntry(s, op)))
<1> DEFINE e == NewEntry(s, op)
<1> DEFINE r == Append(s, e)
<1>1. e \in Line
  BY NewEntryTyped
<1>2. r \in Seq(Line) /\ Len(r) = Len(s) + 1 /\ r[Len(s) + 1] = e
      /\ \A i \in 1..Len(s) : r[i] = s[i]
  BY <1>1
<1>3. e.seq = Len(s) /\ e.op = op
      /\ e.prev = IF s = <<>> THEN ZeroHash ELSE s[Len(s)].hash
  <2>1. CASE s = <<>>
    BY <2>1 DEF NewEntry, LogHead
  <2>2. CASE s # <<>>
    <3>1. Len(s) \in 1..Len(s)
      BY <2>2
    <3>2. s[Len(s)].seq = Len(s) - 1
      BY <3>1 DEF VerifyChain
    <3>3. QED
      BY <2>2, <3>2 DEF NewEntry, LogHead
  <2>3. QED
    BY <2>1, <2>2
<1>4. ASSUME NEW i \in 1..Len(r)
      PROVE  /\ r[i].seq = i - 1
             /\ r[i].prev = IF i = 1 THEN ZeroHash ELSE r[i - 1].hash
             /\ r[i].op.type \in OpTypes
  <2>1. CASE i \in 1..Len(s)
    BY <1>2, <2>1 DEF VerifyChain
  <2>2. CASE i = Len(s) + 1
    <3>1. CASE s = <<>>
      BY <1>2, <1>3, <2>2, <3>1
    <3>2. CASE s # <<>>
      <4>1. i # 1 /\ i - 1 = Len(s) /\ r[i - 1] = s[Len(s)]
        BY <1>2, <2>2, <3>2
      <4>2. QED
        BY <1>2, <1>3, <2>2, <3>2, <4>1
    <3>3. QED
      BY <3>1, <3>2
  <2>3. QED
    BY <1>2, <2>1, <2>2
<1>5. QED
  BY <1>4 DEF VerifyChain

\* What load and ensure_genesis produce is a typed chain that verifies.
LEMMA LoadedChain ==
    ASSUME NEW s \in Seq(Line), VerifyChain(s), appends \in Nat
    PROVE  Loaded(s) \in Seq(Line) /\ VerifyChain(Loaded(s))
<1>1. Genesis \in OpRecord /\ Genesis.type \in OpTypes
  BY EventsTyped
<1>2. CASE s = <<>>
  <2>1. NewEntry(s, Genesis) \in Line
    BY <1>1, NewEntryTyped
  <2>2. Loaded(s) = Append(s, NewEntry(s, Genesis))
    BY <1>2, <2>1 DEF Loaded
  <2>3. QED
    BY <1>1, <2>1, <2>2, AppendKeepsChain
<1>3. CASE s # <<>>
  BY <1>3 DEF Loaded
<1>4. QED
  BY <1>2, <1>3

-----------------------------------------------------------------------------
(* Replays and scans of a log: the recursive functions of Materialize and   *)
(* MonitorEvents, by induction on the length of the log                    *)

\* A non-empty set of naturals has a least element: how the facts about replays
\* and scans of a log of any length are proved.
LEMMA LeastNatural ==
    ASSUME NEW S \in SUBSET Nat, S # {}
    PROVE  \E m \in S : \A k \in S : m <= k
<1> DEFINE R == OpToRel(<, Nat)
<1>1. IsWellFoundedOn(R, Nat)
  BY NatLessThanWellFounded
<1>2. \E x \in S : \A y \in S : ~(<<y, x>> \in R)
  <2> HIDE DEF R
  <2> QED BY <1>1, WFMin
<1>3. ASSUME NEW x \in Nat, NEW y \in Nat, ~(<<y, x>> \in R) PROVE x <= y
  BY <1>3 DEF OpToRel
<1>4. QED
  <2> HIDE DEF R
  <2> QED BY <1>2, <1>3

\* f is the replay of the first n entries of s
Replay(f, s, n) ==
    f = [i \in 0..n |-> IF i = 0 THEN NoPeers ELSE ApplyOp(f[i - 1], s[i].op)]

\* Replays of a log and of a longer one agree on what they share.
LEMMA ReplayUnique ==
    ASSUME NEW s, NEW r, NEW n \in Nat, \A i \in 1..n : r[i] = s[i],
           NEW f, Replay(f, s, n), NEW g, Replay(g, r, n + 1)
    PROVE  f[n] = g[n]
<1> DEFINE S == {i \in 0..n : f[i] # g[i]}
<1>1. SUFFICES ASSUME S # {} PROVE FALSE
  OBVIOUS
<1>2. PICK k \in S : \A j \in S : k <= j
  <2>1. S \in SUBSET Nat
    OBVIOUS
  <2> QED BY <1>1, <2>1, LeastNatural
<1>3. \A i \in 0..n : f[i] = IF i = 0 THEN NoPeers ELSE ApplyOp(f[i - 1], s[i].op)
  BY DEF Replay
<1>4. \A i \in 0..(n + 1) : g[i] = IF i = 0 THEN NoPeers ELSE ApplyOp(g[i - 1], r[i].op)
  BY DEF Replay
<1>5. k # 0
  BY <1>3, <1>4
<1>6. k - 1 \in 0..n /\ f[k - 1] = g[k - 1]
  BY <1>2, <1>5
<1>7. f[k] = ApplyOp(f[k - 1], s[k].op) /\ g[k] = ApplyOp(g[k - 1], r[k].op)
  BY <1>3, <1>4, <1>5
<1>8. r[k] = s[k]
  BY <1>5
<1>9. QED
  BY <1>6, <1>7, <1>8

\* A log of any length has a replay.
LEMMA ReplayExists ==
    ASSUME NEW s, NEW n \in Nat
    PROVE  \E f : Replay(f, s, n)
<1> DEFINE S == {i \in Nat : ~\E f : Replay(f, s, i)}
<1>1. SUFFICES ASSUME S # {} PROVE FALSE
  OBVIOUS
<1>2. PICK k \in S : \A j \in S : k <= j
  <2>1. S \in SUBSET Nat
    OBVIOUS
  <2> QED BY <1>1, <2>1, LeastNatural
<1>3. k # 0
  <2>1. SUFFICES ASSUME k = 0 PROVE \E f : Replay(f, s, 0)
    BY <2>1
  <2> DEFINE z == [i \in 0..0 |-> NoPeers]
  <2>2. z = [i \in 0..0 |-> IF i = 0 THEN NoPeers ELSE ApplyOp(z[i - 1], s[i].op)]
    OBVIOUS
  <2>3. Replay(z, s, 0)
    BY <2>2 DEF Replay
  <2> QED BY <2>3
<1>4. PICK f : Replay(f, s, k - 1)
  BY <1>2, <1>3
<1> DEFINE g == [i \in 0..k |-> IF i = k THEN ApplyOp(f[k - 1], s[k].op) ELSE f[i]]
<1>5. f = [i \in 0..(k - 1) |-> IF i = 0 THEN NoPeers ELSE ApplyOp(f[i - 1], s[i].op)]
  BY <1>4 DEF Replay
<1>6. ASSUME NEW i \in 0..k
      PROVE  g[i] = IF i = 0 THEN NoPeers ELSE ApplyOp(g[i - 1], s[i].op)
  <2>1. CASE i = k
    <3>1. k - 1 \in 0..k /\ g[k - 1] = f[k - 1]
      BY <1>3
    <3> QED BY <1>3, <2>1, <3>1
  <2>2. CASE i # k /\ i # 0
    <3>1. i - 1 \in 0..k /\ i \in 0..(k - 1) /\ g[i - 1] = f[i - 1] /\ g[i] = f[i]
      BY <1>3, <2>2
    <3>2. f[i] = ApplyOp(f[i - 1], s[i].op)
      BY <1>5, <2>2, <3>1
    <3> QED BY <2>2, <3>1, <3>2
  <2>3. CASE i # k /\ i = 0
    <3>1. g[0] = f[0] /\ f[0] = NoPeers
      BY <1>3, <1>5
    <3> QED BY <2>3, <3>1
  <2> QED BY <2>1, <2>2, <2>3
<1>7. Replay(g, s, k)
  <2>1. g = [i \in 0..k |-> IF i = 0 THEN NoPeers ELSE ApplyOp(g[i - 1], s[i].op)]
    <3> HIDE DEF g
    <3>1. g = [i \in 0..k |-> g[i]]
      BY DEF g
    <3> QED BY <1>6, <3>1
  <2> HIDE DEF g
  <2> QED BY <2>1 DEF Replay
<1>8. QED
  BY <1>7

\* materialize_peers is the end of the replay.
LEMMA MaterializeReplay ==
    ASSUME NEW s, Len(s) \in Nat
    PROVE  \E f : Replay(f, s, Len(s)) /\ Materialize(s) = f[Len(s)]
<1> DEFINE f == CHOOSE f : Replay(f, s, Len(s))
<1>1. Replay(f, s, Len(s))
  BY ReplayExists
<1>2. Materialize(s) = f[Len(s)]
  BY DEF Materialize, Replay
<1>3. QED
  BY <1>1, <1>2

\* No entries, no peers.
LEMMA MaterializeEmpty == Materialize(<<>>) = NoPeers
<1>1. Len(<<>>) = 0
  OBVIOUS
<1>2. PICK f : Replay(f, <<>>, 0) /\ Materialize(<<>>) = f[0]
  BY <1>1, MaterializeReplay
<1>3. QED
  BY <1>2 DEF Replay

\* An appended entry is one more step of the replay.
LEMMA MaterializeAppend ==
    ASSUME NEW s \in Seq(Line), NEW e \in Line
    PROVE  Materialize(Append(s, e)) = ApplyOp(Materialize(s), e.op)
<1> DEFINE r == Append(s, e)
<1>1. /\ Len(s) \in Nat /\ Len(r) = Len(s) + 1 /\ r[Len(s) + 1] = e
      /\ \A i \in 1..Len(s) : r[i] = s[i]
  OBVIOUS
<1>2. PICK f : Replay(f, s, Len(s)) /\ Materialize(s) = f[Len(s)]
  BY <1>1, MaterializeReplay
<1>3. PICK g : Replay(g, r, Len(s) + 1) /\ Materialize(r) = g[Len(s) + 1]
  <2> HIDE DEF r
  <2>1. Len(r) \in Nat
    BY <1>1
  <2>2. \E g : Replay(g, r, Len(r)) /\ Materialize(r) = g[Len(r)]
    BY <2>1, MaterializeReplay
  <2> QED BY <1>1, <2>2
<1>4. f[Len(s)] = g[Len(s)]
  <2> HIDE DEF r
  <2>1. Replay(f, s, Len(s)) /\ Replay(g, r, Len(s) + 1)
    BY <1>2, <1>3
  <2>2. Len(s) \in Nat
    BY <1>1
  <2>3. \A i \in 1..Len(s) : r[i] = s[i]
    BY <1>1
  <2> QED BY <2>1, <2>2, <2>3, ReplayUnique
<1>5. g[Len(s) + 1] = ApplyOp(g[Len(s)], r[Len(s) + 1].op)
  <2> HIDE DEF r
  <2> QED BY <1>1, <1>3 DEF Replay
<1>6. QED
  BY <1>1, <1>2, <1>3, <1>4, <1>5

NoEvents == <<>>
Keep(t, e) == IF IsMonitorEvent(e) THEN Append(t, e) ELSE t
\* f is the scan of the first n entries of s for monitor events
Scan(f, s, n) ==
    f = [i \in 0..n |-> IF i = 0 THEN NoEvents ELSE Keep(f[i - 1], s[i])]

\* Scans of a log and of a longer one agree on what they share.
LEMMA ScanUnique ==
    ASSUME NEW s, NEW r, NEW n \in Nat, \A i \in 1..n : r[i] = s[i],
           NEW f, Scan(f, s, n), NEW g, Scan(g, r, n + 1)
    PROVE  f[n] = g[n]
<1> DEFINE S == {i \in 0..n : f[i] # g[i]}
<1>1. SUFFICES ASSUME S # {} PROVE FALSE
  OBVIOUS
<1>2. PICK k \in S : \A j \in S : k <= j
  <2>1. S \in SUBSET Nat
    OBVIOUS
  <2> QED BY <1>1, <2>1, LeastNatural
<1>3. \A i \in 0..n : f[i] = IF i = 0 THEN NoEvents ELSE Keep(f[i - 1], s[i])
  BY DEF Scan
<1>4. \A i \in 0..(n + 1) : g[i] = IF i = 0 THEN NoEvents ELSE Keep(g[i - 1], r[i])
  BY DEF Scan
<1>5. k # 0
  BY <1>3, <1>4
<1>6. k - 1 \in 0..n /\ f[k - 1] = g[k - 1]
  BY <1>2, <1>5
<1>7. f[k] = Keep(f[k - 1], s[k]) /\ g[k] = Keep(g[k - 1], r[k])
  BY <1>3, <1>4, <1>5
<1>8. r[k] = s[k]
  BY <1>5
<1>9. QED
  BY <1>6, <1>7, <1>8

\* A log of any length has a scan.
LEMMA ScanExists ==
    ASSUME NEW s, NEW n \in Nat
    PROVE  \E f : Scan(f, s, n)
<1> DEFINE S == {i \in Nat : ~\E f : Scan(f, s, i)}
<1>1. SUFFICES ASSUME S # {} PROVE FALSE
  OBVIOUS
<1>2. PICK k \in S : \A j \in S : k <= j
  <2>1. S \in SUBSET Nat
    OBVIOUS
  <2> QED BY <1>1, <2>1, LeastNatural
<1>3. k # 0
  <2>1. SUFFICES ASSUME k = 0 PROVE \E f : Scan(f, s, 0)
    BY <2>1
  <2> DEFINE z == [i \in 0..0 |-> NoEvents]
  <2>2. z = [i \in 0..0 |-> IF i = 0 THEN NoEvents ELSE Keep(z[i - 1], s[i])]
    OBVIOUS
  <2>3. Scan(z, s, 0)
    BY <2>2 DEF Scan
  <2> QED BY <2>3
<1>4. PICK f : Scan(f, s, k - 1)
  BY <1>2, <1>3
<1> DEFINE g == [i \in 0..k |-> IF i = k THEN Keep(f[k - 1], s[k]) ELSE f[i]]
<1>5. f = [i \in 0..(k - 1) |-> IF i = 0 THEN NoEvents ELSE Keep(f[i - 1], s[i])]
  BY <1>4 DEF Scan
<1>6. ASSUME NEW i \in 0..k
      PROVE  g[i] = IF i = 0 THEN NoEvents ELSE Keep(g[i - 1], s[i])
  <2>1. CASE i = k
    <3>1. k - 1 \in 0..k /\ g[k - 1] = f[k - 1]
      BY <1>3
    <3> QED BY <1>3, <2>1, <3>1
  <2>2. CASE i # k /\ i # 0
    <3>1. i - 1 \in 0..k /\ i \in 0..(k - 1) /\ g[i - 1] = f[i - 1] /\ g[i] = f[i]
      BY <1>3, <2>2
    <3>2. f[i] = Keep(f[i - 1], s[i])
      BY <1>5, <2>2, <3>1
    <3> QED BY <2>2, <3>1, <3>2
  <2>3. CASE i # k /\ i = 0
    <3>1. g[0] = f[0] /\ f[0] = NoEvents
      BY <1>3, <1>5
    <3> QED BY <2>3, <3>1
  <2> QED BY <2>1, <2>2, <2>3
<1>7. Scan(g, s, k)
  <2>1. g = [i \in 0..k |-> IF i = 0 THEN NoEvents ELSE Keep(g[i - 1], s[i])]
    <3> HIDE DEF g
    <3>1. g = [i \in 0..k |-> g[i]]
      BY DEF g
    <3> QED BY <1>6, <3>1
  <2> HIDE DEF g
  <2> QED BY <2>1 DEF Scan
<1>8. QED
  BY <1>7

\* _monitor_tail_from is the end of the scan, before the bound applies.
LEMMA MonitorEventsScan ==
    ASSUME NEW s, Len(s) \in Nat
    PROVE  \E f : Scan(f, s, Len(s)) /\ MonitorEvents(s) = f[Len(s)]
<1> DEFINE f == CHOOSE f : Scan(f, s, Len(s))
<1>1. Scan(f, s, Len(s))
  BY ScanExists
<1>2. MonitorEvents(s) = f[Len(s)]
  BY DEF MonitorEvents, Scan, Keep, NoEvents
<1>3. QED
  BY <1>1, <1>2

\* No entries, no events.
LEMMA MonitorEventsEmpty == MonitorEvents(<<>>) = NoEvents
<1>1. Len(<<>>) = 0
  OBVIOUS
<1>2. PICK f : Scan(f, <<>>, 0) /\ MonitorEvents(<<>>) = f[0]
  BY <1>1, MonitorEventsScan
<1>3. QED
  BY <1>2 DEF Scan

\* An appended entry is one more step of the scan.
LEMMA MonitorEventsAppend ==
    ASSUME NEW s \in Seq(Line), NEW e \in Line
    PROVE  MonitorEvents(Append(s, e)) = Keep(MonitorEvents(s), e)
<1> DEFINE r == Append(s, e)
<1>1. /\ Len(s) \in Nat /\ Len(r) = Len(s) + 1 /\ r[Len(s) + 1] = e
      /\ \A i \in 1..Len(s) : r[i] = s[i]
  OBVIOUS
<1>2. PICK f : Scan(f, s, Len(s)) /\ MonitorEvents(s) = f[Len(s)]
  BY <1>1, MonitorEventsScan
<1>3. PICK g : Scan(g, r, Len(s) + 1) /\ MonitorEvents(r) = g[Len(s) + 1]
  <2> HIDE DEF r
  <2>1. Len(r) \in Nat
    BY <1>1
  <2>2. \E g : Scan(g, r, Len(r)) /\ MonitorEvents(r) = g[Len(r)]
    BY <2>1, MonitorEventsScan
  <2> QED BY <1>1, <2>2
<1>4. f[Len(s)] = g[Len(s)]
  <2> HIDE DEF r
  <2>1. Scan(f, s, Len(s)) /\ Scan(g, r, Len(s) + 1)
    BY <1>2, <1>3
  <2>2. Len(s) \in Nat
    BY <1>1
  <2>3. \A i \in 1..Len(s) : r[i] = s[i]
    BY <1>1
  <2> QED BY <2>1, <2>2, <2>3, ScanUnique
<1>5. g[Len(s) + 1] = Keep(g[Len(s)], r[Len(s) + 1])
  <2> HIDE DEF r
  <2> QED BY <1>1, <1>3 DEF Scan
<1>6. QED
  BY <1>1, <1>2, <1>3, <1>4, <1>5

\* A scan of the log yields entries of the log.
LEMMA MonitorEventsTyped ==
    ASSUME NEW s \in Seq(Line)
    PROVE  MonitorEvents(s) \in Seq(Line)
<1>1. Len(s) \in Nat
  OBVIOUS
<1>2. PICK f : Scan(f, s, Len(s)) /\ MonitorEvents(s) = f[Len(s)]
  BY <1>1, MonitorEventsScan
<1> DEFINE S == {i \in 0..Len(s) : f[i] \notin Seq(Line)}
<1>3. SUFFICES ASSUME S # {} PROVE FALSE
  BY <1>1, <1>2
<1>4. PICK k \in S : \A j \in S : k <= j
  <2>1. S \in SUBSET Nat
    OBVIOUS
  <2> QED BY <1>3, <2>1, LeastNatural
<1>5. \A i \in 0..Len(s) : f[i] = IF i = 0 THEN NoEvents ELSE Keep(f[i - 1], s[i])
  BY <1>2 DEF Scan
<1>6. k # 0
  <2>1. f[0] = <<>>
    BY <1>1, <1>5 DEF NoEvents
  <2>2. f[0] \in Seq(Line)
    BY <2>1
  <2> QED BY <2>2
<1>7. k - 1 \in 0..Len(s) /\ f[k - 1] \in Seq(Line) /\ s[k] \in Line
  BY <1>1, <1>4, <1>6
<1>8. f[k] = Keep(f[k - 1], s[k])
  BY <1>5, <1>6
<1>9. f[k] \in Seq(Line)
  <2>1. CASE IsMonitorEvent(s[k])
    <3>1. f[k] = Append(f[k - 1], s[k])
      BY <1>8, <2>1 DEF Keep
    <3> QED BY <1>7, <3>1
  <2>2. CASE ~IsMonitorEvent(s[k])
    BY <1>7, <1>8, <2>2 DEF Keep
  <2> QED BY <2>1, <2>2
<1>10. QED
  BY <1>9

\* Dropping what does not fit before an append or after it is the same.
LEMMA TrimAppend ==
    ASSUME NEW x \in Seq(Line), NEW e \in Line
    PROVE  Trim(Append(Trim(x), e)) = Trim(Append(x, e))
<1>0. TailMax \in Nat \ {0} /\ Len(x) \in Nat
  BY BoundAssumption
<1>1. CASE Len(x) <= TailMax
  BY <1>1 DEF Trim
<1>2. CASE ~(Len(x) <= TailMax)
  <2> DEFINE m == Len(x) - TailMax + 1
  <2> DEFINE y == SubSeq(x, m, Len(x))
  <2>1. Trim(x) = y
    BY <1>2 DEF Trim
  <2>2. \A i \in m..Len(x) : x[i] \in Line
    BY <1>0, <1>2
  <2>3. /\ y \in Seq(Line) /\ Len(y) = TailMax
        /\ \A i \in 1..TailMax : y[i] = x[m + i - 1]
    <3>1. m \in Int /\ Len(x) \in Int /\ m <= Len(x) /\ Len(x) - m + 1 = TailMax
      BY <1>0, <1>2
    <3> HIDE DEF m
    <3> QED BY <2>2, <3>1, SubSeqProperties
  <2> DEFINE u == Append(y, e)
             v == Append(x, e)
  <2> HIDE DEF y
  <2>4. /\ u \in Seq(Line) /\ Len(u) = TailMax + 1 /\ u[TailMax + 1] = e
        /\ \A i \in 1..TailMax : u[i] = y[i]
    BY <1>0, <2>3
  <2>5. /\ v \in Seq(Line) /\ Len(v) = Len(x) + 1 /\ v[Len(x) + 1] = e
        /\ \A i \in 1..Len(x) : v[i] = x[i]
    BY <1>0
  <2> HIDE DEF u, v
  <2>6. Trim(u) = SubSeq(u, 2, TailMax + 1)
    BY <1>0, <2>4 DEF Trim
  <2>7. Trim(v) = SubSeq(v, m + 1, Len(x) + 1)
    BY <1>0, <1>2, <2>5 DEF Trim
  <2>8. /\ SubSeq(u, 2, TailMax + 1) \in Seq(Line)
        /\ Len(SubSeq(u, 2, TailMax + 1)) = TailMax
        /\ \A i \in 1..TailMax : SubSeq(u, 2, TailMax + 1)[i] = u[i + 1]
    <3>1. \A i \in 2..(TailMax + 1) : u[i] \in Line
      BY <1>0, <2>4
    <3>2. 2 \in Int /\ TailMax + 1 \in Int
      BY <1>0
    <3>3. /\ SubSeq(u, 2, TailMax + 1) \in Seq(Line)
          /\ Len(SubSeq(u, 2, TailMax + 1)) = IF 2 <= TailMax + 1 THEN (TailMax + 1) - 2 + 1 ELSE 0
          /\ \A i \in 1..((TailMax + 1) - 2 + 1) : SubSeq(u, 2, TailMax + 1)[i] = u[2 + i - 1]
      BY <3>1, <3>2, SubSeqProperties
    <3> QED BY <1>0, <3>3
  <2>9. /\ SubSeq(v, m + 1, Len(x) + 1) \in Seq(Line)
        /\ Len(SubSeq(v, m + 1, Len(x) + 1)) = TailMax
        /\ \A i \in 1..TailMax : SubSeq(v, m + 1, Len(x) + 1)[i] = v[m + i]
    <3>1. \A i \in (m + 1)..(Len(x) + 1) : v[i] \in Line
      BY <1>0, <1>2, <2>5
    <3>2. m + 1 \in Int /\ Len(x) + 1 \in Int
      BY <1>0
    <3>3. /\ SubSeq(v, m + 1, Len(x) + 1) \in Seq(Line)
          /\ Len(SubSeq(v, m + 1, Len(x) + 1)) =
                IF m + 1 <= Len(x) + 1 THEN (Len(x) + 1) - (m + 1) + 1 ELSE 0
          /\ \A i \in 1..((Len(x) + 1) - (m + 1) + 1) :
                SubSeq(v, m + 1, Len(x) + 1)[i] = v[(m + 1) + i - 1]
      <4> HIDE DEF m
      <4> QED BY <3>1, <3>2, SubSeqProperties
    <3> QED BY <1>0, <1>2, <3>3
  <2>10. \A i \in 1..TailMax : u[i + 1] = v[m + i]
    <3> TAKE i \in 1..TailMax
    <3>1. CASE i = TailMax
      BY <1>0, <2>4, <2>5, <3>1
    <3>2. CASE i # TailMax
      <4>1. i + 1 \in 1..TailMax /\ m + i \in 1..Len(x)
        BY <1>0, <1>2, <3>2
      <4>2. u[i + 1] = x[m + (i + 1) - 1] /\ v[m + i] = x[m + i]
        BY <2>3, <2>4, <2>5, <4>1
      <4> QED BY <1>0, <4>2
    <3> QED BY <3>1, <3>2
  <2>11. SubSeq(u, 2, TailMax + 1) = SubSeq(v, m + 1, Len(x) + 1)
    <3> DEFINE p == SubSeq(u, 2, TailMax + 1)
               q == SubSeq(v, m + 1, Len(x) + 1)
    <3>1. /\ p \in Seq(Line) /\ q \in Seq(Line) /\ Len(p) = TailMax /\ Len(q) = TailMax
          /\ \A i \in 1..TailMax : p[i] = q[i]
      BY <2>8, <2>9, <2>10
    <3> HIDE DEF p, q
    <3>2. Len(p) = Len(q) /\ \A i \in 1..Len(p) : p[i] = q[i]
      BY <3>1
    <3>3. p \in Seq(Line) /\ q \in Seq(Line)
      BY <3>1
    <3>4. p = q
      BY <3>2, <3>3, SeqEqual
    <3> QED BY <3>4 DEF p, q
  <2> QED BY <2>1, <2>6, <2>7, <2>11 DEF u, v
<1>3. QED
  BY <1>1, <1>2

\* The tail after an append is the tail of the longer log.
LEMMA TailAppend ==
    ASSUME NEW s \in Seq(Line), NEW e \in Line
    PROVE  MonitorTailFrom(Append(s, e)) =
               IF IsMonitorEvent(e) THEN Trim(Append(MonitorTailFrom(s), e))
               ELSE MonitorTailFrom(s)
<1>1. MonitorEvents(s) \in Seq(Line)
  BY MonitorEventsTyped
<1>2. MonitorEvents(Append(s, e)) = Keep(MonitorEvents(s), e)
  BY MonitorEventsAppend
<1>3. Trim(Append(Trim(MonitorEvents(s)), e)) = Trim(Append(MonitorEvents(s), e))
  BY <1>1, TrimAppend
<1>4. QED
  BY <1>2, <1>3, Zenon DEF MonitorTailFrom, Keep

\* An empty log has an empty tail.
LEMMA TailEmpty == MonitorTailFrom(<<>>) = <<>>
<1>1. MonitorEvents(<<>>) = <<>>
  BY MonitorEventsEmpty DEF NoEvents
<1>2. QED
  BY <1>1, BoundAssumption DEF MonitorTailFrom, Trim

-----------------------------------------------------------------------------
(* What the helpers shared by several actions do to the typed variables *)

\* load and ensure_genesis leave a typed file that verifies.
LEMMA LoadDiskTyped ==
    ASSUME TypeOK, LoadDisk
    PROVE  /\ disk' \in Seq(Line) /\ VerifyChain(disk')
           /\ ver' \in Nat /\ appends' \in Nat
<1>1. disk' \in Seq(Line) /\ VerifyChain(disk')
  BY LoadedChain DEF TypeOK, LoadDisk
<1>2. ver' \in Nat /\ appends' \in Nat
  BY DEF TypeOK, LoadDisk
<1>3. QED
  BY <1>1, <1>2

\* TrustLog.append keeps the file and the memory typed, and a chain a chain.
LEMMA AppendLineTyped ==
    ASSUME TypeOK, NEW t \in Thread, NEW op \in OpRecord, op.type \in OpTypes,
           AppendLine(t, op)
    PROVE  /\ NewEntry(mem, op) \in Line
           /\ disk' \in Seq(Line) /\ mem' \in Seq(Line)
           /\ ver' \in Nat /\ appends' \in Nat /\ logLock' = t
           /\ VerifyChain(mem) => VerifyChain(mem')
<1>1. NewEntry(mem, op) \in Line
  BY NewEntryTyped DEF TypeOK
<1>2. VerifyChain(mem) => VerifyChain(mem')
  BY AppendKeepsChain DEF TypeOK, AppendLine
<1>3. QED
  BY <1>1, <1>2 DEF TypeOK, AppendLine

\* So does an append whose write fails.
LEMMA AppendFailsTyped ==
    ASSUME TypeOK, NEW t \in Thread, NEW op \in OpRecord, op.type \in OpTypes,
           AppendFails(t, op)
    PROVE  TypeOK' /\ (VerifyChain(mem) => VerifyChain(mem'))
<1>1. NewEntry(mem, op) \in Line
  BY NewEntryTyped DEF TypeOK
<1>2. VerifyChain(mem) => VerifyChain(mem')
  BY AppendKeepsChain DEF TypeOK, AppendFails
<1>3. TornLine \in Line
  BY DEF TornLine, Line, Op, OpRecord
<1>4. mem' \in Seq(Line) /\ appends' \in Nat
  BY <1>1 DEF TypeOK, AppendFails
<1>5. disk' \in Seq(Line) /\ ver' \in Nat
  <2>1. CASE UNCHANGED <<disk, ver>>
    BY <2>1 DEF TypeOK
  <2>2. CASE disk' = Append(disk, TornLine) /\ ver' = ver + 1
    BY <1>3, <2>2 DEF TypeOK
  <2>3. QED
    BY <2>1, <2>2 DEF AppendFails
<1>6. QED
  BY <1>2, <1>4, <1>5 DEF TypeOK, AppendFails

-----------------------------------------------------------------------------
(* Type correctness *)

\* Every step, of the daemon or of the command line, preserves the types.
LEMMA NextKeepsTypes ==
    ASSUME TypeOK, [Next]_vars
    PROVE  TypeOK'
<1>1. CASE StartDaemon
  <2>1. disk' \in Seq(Line) /\ ver' \in Nat /\ appends' \in Nat
    BY <1>1, LoadDiskTyped DEF StartDaemon
  <2>2. QED
    BY <1>1, <2>1 DEF TypeOK, StartDaemon
<1>2. CASE StopDaemon
  <2>1. <<>> \in Seq(Line)
    OBVIOUS
  <2>2. up' \in BOOLEAN /\ sock' \in BOOLEAN
    BY <1>2, Zenon DEF TypeOK, StopDaemon
  <2>3. QED
    BY <1>2, <2>1, <2>2 DEF TypeOK, StopDaemon, Stopped
<1>3. CASE RecordEvent
  <2>1. PICK op \in Events : AppendLine(Loop, op)
    BY <1>3 DEF RecordEvent
  <2>2. op \in OpRecord /\ op.type \in OpTypes
    BY EventsTyped
  <2>3. Loop \in Thread
    BY DEF Thread
  <2>4. /\ disk' \in Seq(Line) /\ mem' \in Seq(Line)
        /\ ver' \in Nat /\ appends' \in Nat /\ logLock' = Loop
    BY <2>1, <2>2, <2>3, AppendLineTyped
  <2>5. QED
    BY <1>3, <2>3, <2>4 DEF TypeOK, RecordEvent
<1>4. CASE RecordEventFails
  <2>1. PICK op \in Events : AppendFails(Loop, op)
    BY <1>4 DEF RecordEventFails
  <2>2. QED
    BY <2>1, EventsTyped, AppendFailsTyped DEF Thread
<1>5. CASE UnlinkSocket
  BY <1>5 DEF TypeOK, UnlinkSocket
<1>6. CASE CliLoad
  <2>1. disk' \in Seq(Line) /\ ver' \in Nat /\ appends' \in Nat
    BY <1>6, LoadDiskTyped DEF CliLoad
  <2>2. QED
    BY <1>6, <2>1 DEF TypeOK, CliLoad, daemonVars
<1>7. CASE CliMutate
  <2>1. PICK op \in Mutations(Materialize(cliMem)) :
             /\ disk' = Append(disk, NewEntry(cliMem, op)) /\ ver' = ver + 1
             /\ acked' = acked \cup {NewEntry(cliMem, op)}
    BY <1>7 DEF CliMutate
  <2>2. NewEntry(cliMem, op) \in Line
    BY MutationsTyped, NewEntryTyped DEF TypeOK
  <2>3. disk' \in Seq(Line) /\ ver' \in Nat /\ acked' \in SUBSET Line
    BY <2>1, <2>2 DEF TypeOK
  <2>4. QED
    BY <1>7, <2>3 DEF TypeOK, CliMutate, daemonVars
<1>8. CASE CliExit
  BY <1>8 DEF TypeOK, CliExit, daemonVars
<1>9. ASSUME NEW t \in Thread, Mutate(t)
      PROVE  TypeOK'
  <2>1. PICK op \in Mutations(view) :
             AppendLine(t, op) /\ cur' = [cur EXCEPT ![t] = NewEntry(mem, op)]
    BY <1>9 DEF Mutate
  <2>2. op \in OpRecord /\ op.type \in OpTypes
    BY MutationsTyped
  <2>3. /\ NewEntry(mem, op) \in Line
        /\ disk' \in Seq(Line) /\ mem' \in Seq(Line)
        /\ ver' \in Nat /\ appends' \in Nat /\ logLock' = t
    BY <2>1, <2>2, AppendLineTyped
  <2>4. cur' \in [Thread -> Line \cup {None}]
    BY <2>1, <2>3 DEF TypeOK
  <2>5. QED
    BY <1>9, <2>3, <2>4 DEF TypeOK, Mutate
<1>10. ASSUME NEW t \in Thread, MutateFails(t)
       PROVE  TypeOK'
  <2>1. PICK op \in Mutations(view) : AppendFails(t, op)
    BY <1>10 DEF MutateFails
  <2>2. QED
    BY <2>1, MutationsTyped, AppendFailsTyped
<1>11. ASSUME NEW t \in Thread, Stamp(t)
       PROVE  TypeOK'
  BY <1>11 DEF TypeOK, Stamp
<1>12. ASSUME NEW t \in Thread, ReloadRead(t)
       PROVE  TypeOK'
  BY <1>12 DEF TypeOK, ReloadRead
<1>13. ASSUME NEW t \in Thread, ReloadInstall(t)
       PROVE  TypeOK'
  <2>1. <<>> \in Seq(Line)
    OBVIOUS
  <2>2. QED
    BY <1>13, <2>1 DEF TypeOK, ReloadInstall
<1>14. ASSUME NEW t \in Thread, Rebuild(t)
       PROVE  TypeOK'
  BY <1>14 DEF TypeOK, Rebuild
<1>15. CASE UNCHANGED vars
  BY <1>15 DEF TypeOK, vars, daemonVars
<1>16. QED
  BY <1>1, <1>2, <1>3, <1>4, <1>5, <1>6, <1>7, <1>8, <1>9, <1>10, <1>11, <1>12,
     <1>13, <1>14, <1>15 DEF Next

\* The initial state is typed.
LEMMA TypeCorrectInit == Init => TypeOK
<1> SUFFICES ASSUME Init PROVE TypeOK
  OBVIOUS
<1>1. <<>> \in Seq(Line) /\ {} \in SUBSET Line
  OBVIOUS
<1>2. /\ pc \in [Thread -> {"idle", "stamp", "install", "rebuild"}]
      /\ cur \in [Thread -> Line \cup {None}]
      /\ buf \in [Thread -> Seq(Line)]
  BY <1>1 DEF Init
<1>3. up \in BOOLEAN /\ sock \in BOOLEAN
  BY Zenon DEF Init
<1>4. /\ disk \in Seq(Line) /\ mem \in Seq(Line) /\ cliMem \in Seq(Line)
      /\ acked \in SUBSET Line
  BY <1>1, Zenon DEF Init
<1>5. /\ ver \in Nat /\ lastVer \in Nat /\ appends \in Nat
      /\ logLock \in Thread \cup {None} /\ trustLock \in Thread \cup {None}
      /\ cli \in {"idle", "loaded"}
  BY DEF Init
<1>6. QED
  BY <1>2, <1>3, <1>4, <1>5 DEF TypeOK

\* The variables always hold values of their types, whatever the threads, the
\* bounds and the races.
THEOREM TypeCorrect == Spec => []TypeOK
<1>1. Init => TypeOK
  BY TypeCorrectInit
<1>2. TypeOK /\ [Next]_vars => TypeOK'
  BY NextKeepsTypes
<1>3. QED
  BY <1>1, <1>2, PTL DEF Spec

-----------------------------------------------------------------------------
(* The chain in memory verifies, whatever happens to the file *)

\* MemChainOK is not inductive: a reload installs what it has read earlier, so
\* the invariant also speaks of what the reloads in progress hold.
ChainInv == /\ TypeOK
            /\ up => VerifyChain(mem)
            /\ \A t \in Thread : pc[t] = "install" => VerifyChain(buf[t])

\* Every step preserves the chains in memory and in the reload buffers.
LEMMA NextKeepsChains ==
    ASSUME ChainInv, [Next]_vars
    PROVE  ChainInv'
<1> USE DEF ChainInv
<1>0. TypeOK /\ TypeOK'
  BY NextKeepsTypes
<1>1. CASE StartDaemon
  <2>1. VerifyChain(mem')
    BY <1>0, <1>1, LoadDiskTyped DEF StartDaemon
  <2>2. QED
    BY <1>0, <1>1, <2>1 DEF StartDaemon
<1>2. CASE StopDaemon
  BY <1>0, <1>2 DEF StopDaemon, Stopped
<1>3. CASE RecordEvent
  <2>1. PICK op \in Events : AppendLine(Loop, op)
    BY <1>3 DEF RecordEvent
  <2>2. VerifyChain(mem')
    BY <1>0, <1>3, <2>1, EventsTyped, AppendLineTyped DEF RecordEvent, Thread
  <2>3. QED
    BY <1>0, <1>3, <2>2 DEF RecordEvent, TypeOK
<1>4. CASE RecordEventFails
  <2>1. PICK op \in Events : AppendFails(Loop, op)
    BY <1>4 DEF RecordEventFails
  <2>2. VerifyChain(mem')
    BY <1>0, <1>4, <2>1, EventsTyped, AppendFailsTyped DEF RecordEventFails, Thread
  <2>3. QED
    BY <1>0, <2>1, <2>2 DEF AppendFails
<1>5. CASE UnlinkSocket
  BY <1>0, <1>5 DEF UnlinkSocket
<1>6. CASE CliLoad \/ CliMutate \/ CliExit
  BY <1>0, <1>6 DEF CliLoad, CliMutate, CliExit, daemonVars
<1>7. ASSUME NEW t \in Thread, Mutate(t)
      PROVE  ChainInv'
  <2>1. PICK op \in Mutations(view) : AppendLine(t, op)
    BY <1>7 DEF Mutate
  <2>2. VerifyChain(mem')
    BY <1>0, <1>7, <2>1, MutationsTyped, AppendLineTyped DEF Mutate
  <2>3. QED
    BY <1>0, <1>7, <2>2 DEF Mutate, TypeOK
<1>8. ASSUME NEW t \in Thread, MutateFails(t)
      PROVE  ChainInv'
  <2>1. PICK op \in Mutations(view) : AppendFails(t, op)
    BY <1>8 DEF MutateFails
  <2>2. VerifyChain(mem')
    BY <1>0, <1>8, <2>1, MutationsTyped, AppendFailsTyped DEF MutateFails
  <2>3. QED
    BY <1>0, <2>1, <2>2 DEF AppendFails
<1>9. ASSUME NEW t \in Thread, Stamp(t)
      PROVE  ChainInv'
  BY <1>0, <1>9 DEF Stamp, TypeOK
<1>10. ASSUME NEW t \in Thread, ReloadRead(t)
       PROVE  ChainInv'
  <2>1. ASSUME NEW u \in Thread, pc'[u] = "install"
        PROVE  VerifyChain(buf'[u])
    BY <1>0, <1>10, <2>1 DEF ReloadRead, TypeOK
  <2>2. QED
    BY <1>0, <1>10, <2>1 DEF ReloadRead
<1>11. ASSUME NEW t \in Thread, ReloadInstall(t)
       PROVE  ChainInv'
  <2>1. VerifyChain(mem')
    BY <1>11 DEF ReloadInstall
  <2>2. ASSUME NEW u \in Thread, pc'[u] = "install"
        PROVE  VerifyChain(buf'[u])
    BY <1>0, <1>11, <2>2 DEF ReloadInstall, TypeOK
  <2>3. QED
    BY <1>0, <2>1, <2>2
<1>12. ASSUME NEW t \in Thread, Rebuild(t)
       PROVE  ChainInv'
  BY <1>0, <1>12 DEF Rebuild, TypeOK
<1>13. CASE UNCHANGED vars
  BY <1>0, <1>13 DEF vars, daemonVars
<1>14. QED
  BY <1>1, <1>2, <1>3, <1>4, <1>5, <1>6, <1>7, <1>8, <1>9, <1>10, <1>11, <1>12,
     <1>13 DEF Next

\* The daemon never works from a log that does not verify: not with another
\* process forking the file, not with torn lines, not with reloads overtaken
\* by appends.
THEOREM MemChain == Spec => []MemChainOK
<1>1. Init => ChainInv
  BY TypeCorrectInit DEF Init, ChainInv
<1>2. ChainInv /\ [Next]_vars => ChainInv'
  BY NextKeepsChains
<1>3. ChainInv => MemChainOK
  BY DEF ChainInv, MemChainOK
<1>4. QED
  BY <1>1, <1>2, <1>3, PTL DEF Spec

-----------------------------------------------------------------------------
(* One writer at a time: no process overlaps the daemon, no reload reads    *)
(* between a write and its stamp, no write fails                            *)

Occurs(e, s) == \E i \in 1..Len(s) : s[i] = e

\* The memory of whoever may write is the file, reloads find nothing new, and
\* what was acknowledged, or is about to be, is in the file.
SingleInv ==
    /\ TypeOK
    /\ VerifyChain(disk)
    /\ up => mem = disk
    /\ cli = "loaded" => ~up /\ cliMem = disk
    /\ \A t \in Thread : pc[t] # "install"
    /\ (up /\ logLock = None) => lastVer = ver
    /\ \A e \in acked : Occurs(e, disk)
    /\ \A t \in Thread : cur[t] # None => Occurs(cur[t], disk)

\* An append leaves the file a chain, equal to the memory of its writer, and
\* keeps every entry that was in it.
LEMMA AppendToFile ==
    ASSUME TypeOK, NEW op \in OpRecord, op.type \in OpTypes, VerifyChain(disk),
           disk' = Append(disk, NewEntry(disk, op))
    PROVE  /\ VerifyChain(disk')
           /\ Occurs(NewEntry(disk, op), disk')
           /\ \A e : Occurs(e, disk) => Occurs(e, disk')
<1>1. NewEntry(disk, op) \in Line
  BY NewEntryTyped DEF TypeOK
<1>2. VerifyChain(disk')
  BY AppendKeepsChain DEF TypeOK
<1>3. /\ Len(disk') = Len(disk) + 1 /\ Len(disk) \in Nat
      /\ disk'[Len(disk) + 1] = NewEntry(disk, op)
      /\ \A i \in 1..Len(disk) : disk'[i] = disk[i]
  BY <1>1 DEF TypeOK
<1>4. \E i \in 1..Len(disk') : disk'[i] = NewEntry(disk, op)
  <2>1. Len(disk) + 1 \in 1..Len(disk')
    BY <1>3
  <2>2. QED
    BY <1>3, <2>1
<1>5. ASSUME NEW e, Occurs(e, disk)
      PROVE  \E i \in 1..Len(disk') : disk'[i] = e
  BY <1>3, <1>5 DEF Occurs
<1>6. QED
  BY <1>2, <1>4, <1>5 DEF Occurs

\* Loading keeps what is in the file.
LEMMA LoadKeepsFile ==
    ASSUME TypeOK, LoadDisk
    PROVE  \A e : Occurs(e, disk) => Occurs(e, disk')
<1>1. CASE disk = <<>>
  BY <1>1 DEF Occurs
<1>2. CASE disk # <<>>
  BY <1>2 DEF LoadDisk, Loaded, Occurs
<1>3. QED
  BY <1>1, <1>2

\* With one writer at a time, every step preserves the single-writer invariant.
LEMMA NextKeepsSingle ==
    ASSUME Races = {}, SingleInv, [Next]_vars
    PROVE  SingleInv'
<1> USE DEF SingleInv
<1>0. TypeOK /\ TypeOK'
  BY NextKeepsTypes
<1>1. CASE StartDaemon
  <2>1. VerifyChain(disk') /\ \A e : Occurs(e, disk) => Occurs(e, disk')
    BY <1>0, <1>1, LoadDiskTyped, LoadKeepsFile DEF StartDaemon
  <2>2. cli' # "loaded"
    BY <1>1 DEF StartDaemon
  <2>3. QED
    BY <1>0, <1>1, <2>1, <2>2 DEF StartDaemon
<1>2. CASE StopDaemon
  BY <1>0, <1>2 DEF StopDaemon, Stopped
<1>3. CASE RecordEvent
  <2>1. PICK op \in Events : AppendLine(Loop, op)
    BY <1>3 DEF RecordEvent
  <2>2. up /\ mem = disk /\ disk' = Append(disk, NewEntry(disk, op)) /\ mem' = disk'
    BY <1>3, <2>1 DEF RecordEvent, AppendLine
  <2>3. VerifyChain(disk') /\ \A e : Occurs(e, disk) => Occurs(e, disk')
    BY <1>0, <2>2, EventsTyped, AppendToFile
  <2>4. logLock' = Loop /\ Loop # None
    BY <2>1, ThreadAssumption DEF AppendLine
  <2>5. QED
    BY <1>0, <1>3, <2>2, <2>3, <2>4 DEF RecordEvent, TypeOK
<1>4. CASE UnlinkSocket \/ RecordEventFails \/ \E t \in Thread : MutateFails(t)
  BY <1>4 DEF UnlinkSocket, RecordEventFails, MutateFails, AppendFails
<1>5. CASE CliLoad
  <2>1. VerifyChain(disk') /\ \A e : Occurs(e, disk) => Occurs(e, disk')
    BY <1>0, <1>5, LoadDiskTyped, LoadKeepsFile DEF CliLoad
  <2>2. ~up /\ ~up'
    BY <1>5 DEF CliLoad, daemonVars
  <2>3. QED
    BY <1>0, <1>5, <2>1, <2>2 DEF CliLoad, daemonVars
<1>6. CASE CliMutate
  <2>1. PICK op \in Mutations(Materialize(cliMem)) :
             /\ disk' = Append(disk, NewEntry(cliMem, op))
             /\ acked' = acked \cup {NewEntry(cliMem, op)}
    BY <1>6 DEF CliMutate
  <2>2. ~up /\ ~up' /\ cliMem = disk /\ disk' = Append(disk, NewEntry(disk, op))
    BY <1>6, <2>1 DEF CliMutate, daemonVars
  <2>3. op \in OpRecord /\ op.type \in OpTypes
    BY MutationsTyped
  <2>4. /\ VerifyChain(disk') /\ \A e : Occurs(e, disk) => Occurs(e, disk')
        /\ Occurs(NewEntry(disk, op), disk')
    BY <1>0, <2>2, <2>3, AppendToFile
  <2>5. \A e \in acked' : Occurs(e, disk')
    BY <2>1, <2>2, <2>4
  <2>6. QED
    BY <1>0, <1>6, <2>2, <2>4, <2>5 DEF CliMutate, daemonVars
<1>7. CASE CliExit
  BY <1>0, <1>7 DEF CliExit, daemonVars
<1>8. ASSUME NEW t \in Thread, Mutate(t)
      PROVE  SingleInv'
  <2>1. PICK op \in Mutations(view) :
             AppendLine(t, op) /\ cur' = [cur EXCEPT ![t] = NewEntry(mem, op)]
    BY <1>8 DEF Mutate
  <2>2. up /\ mem = disk /\ disk' = Append(disk, NewEntry(disk, op)) /\ mem' = disk'
    BY <1>8, <2>1 DEF Mutate, AppendLine
  <2>3. op \in OpRecord /\ op.type \in OpTypes
    BY MutationsTyped
  <2>4. /\ VerifyChain(disk') /\ \A e : Occurs(e, disk) => Occurs(e, disk')
        /\ Occurs(NewEntry(disk, op), disk')
    BY <1>0, <2>2, <2>3, AppendToFile
  <2>5. logLock' = t /\ t # None
    BY <2>1, ThreadAssumption DEF AppendLine, Thread
  <2>6. \A u \in Thread : cur'[u] # None => Occurs(cur'[u], disk')
    BY <1>0, <2>1, <2>2, <2>4 DEF TypeOK
  <2>7. QED
    BY <1>0, <1>8, <2>2, <2>4, <2>5, <2>6 DEF Mutate, TypeOK
<1>9. ASSUME NEW t \in Thread, Stamp(t)
      PROVE  SingleInv'
  BY <1>0, <1>9 DEF Stamp, TypeOK
<1>10. ASSUME NEW t \in Thread, ReloadRead(t) \/ ReloadInstall(t)
       PROVE  SingleInv'
  <2>1. ~ReloadRead(t)
    BY <1>0 DEF ReloadRead, TypeOK
  <2>2. ~ReloadInstall(t)
    BY DEF ReloadInstall
  <2>3. QED
    BY <1>10, <2>1, <2>2
<1>11. ASSUME NEW t \in Thread, Rebuild(t)
       PROVE  SingleInv'
  <2>1. \A e \in acked' : Occurs(e, disk')
    BY <1>11 DEF Rebuild
  <2>2. \A u \in Thread : cur'[u] # None => Occurs(cur'[u], disk')
    BY <1>0, <1>11 DEF Rebuild, TypeOK
  <2>3. QED
    BY <1>0, <1>11, <2>1, <2>2 DEF Rebuild, TypeOK
<1>12. CASE UNCHANGED vars
  BY <1>0, <1>12 DEF vars, daemonVars
<1>13. QED
  BY <1>1, <1>2, <1>3, <1>4, <1>5, <1>6, <1>7, <1>8, <1>9, <1>10, <1>11, <1>12
  DEF Next

\* The single-writer invariant holds initially.
LEMMA InitSingle == Init => SingleInv
BY TypeCorrectInit, ThreadAssumption DEF Init, SingleInv, VerifyChain

\* With one writer at a time, the next load of log.jsonl verifies, after any
\* number of mutations, events, crashes and restarts.
THEOREM SingleWriterDiskLoads ==
    ASSUME Races = {}
    PROVE  Spec => []DiskLoads
<1>1. SingleInv /\ [Next]_vars => SingleInv'
  BY NextKeepsSingle
<1>2. SingleInv => DiskLoads
  BY DEF SingleInv, DiskLoads
<1>3. QED
  BY InitSingle, <1>1, <1>2, PTL DEF Spec

\* With one writer at a time, a mutation that returned True survives crashes
\* and restarts, and is in force whenever a daemon runs.
THEOREM SingleWriterAcked ==
    ASSUME Races = {}
    PROVE  Spec => []AckedInForce
<1>1. SingleInv /\ [Next]_vars => SingleInv'
  BY NextKeepsSingle
<1>2. SingleInv => AckedInForce
  BY DEF SingleInv, AckedInForce, Occurs
<1>3. QED
  BY InitSingle, <1>1, <1>2, PTL DEF Spec

-----------------------------------------------------------------------------
(* The tail of monitor events is what a scan of the log returns *)

\* Every step keeps the tail in step with the entries in memory.
LEMMA NextKeepsTail ==
    ASSUME TypeOK, TailOK, [Next]_vars
    PROVE  TailOK'
<1>1. ASSUME NEW t \in Thread, NEW op \in OpRecord,
             AppendLine(t, op) \/ AppendFails(t, op)
      PROVE  TailOK'
  <2>1. NewEntry(mem, op) \in Line /\ mem \in Seq(Line)
    BY NewEntryTyped DEF TypeOK
  <2> DEFINE e == NewEntry(mem, op)
  <2>2. mem' = Append(mem, e) /\ tail' = IF IsMonitorEvent(e) THEN Trim(Append(tail, e)) ELSE tail
    BY <1>1 DEF AppendLine, AppendFails
  <2> HIDE DEF e
  <2>3. MonitorTailFrom(Append(mem, e)) =
            IF IsMonitorEvent(e) THEN Trim(Append(MonitorTailFrom(mem), e))
            ELSE MonitorTailFrom(mem)
    BY <2>1, TailAppend DEF e
  <2>4. QED
    BY <2>2, <2>3 DEF TailOK
<1>2. CASE StartDaemon
  BY <1>2 DEF StartDaemon, TailOK
<1>3. CASE StopDaemon
  BY <1>3, TailEmpty DEF StopDaemon, Stopped, TailOK
<1>4. CASE RecordEvent
  BY <1>1, <1>4, EventsTyped DEF RecordEvent, Thread
<1>5. CASE RecordEventFails
  BY <1>1, <1>5, EventsTyped DEF RecordEventFails, Thread
<1>6. CASE UnlinkSocket \/ CliLoad \/ CliMutate \/ CliExit
  BY <1>6 DEF UnlinkSocket, CliLoad, CliMutate, CliExit, daemonVars, TailOK
<1>7. ASSUME NEW t \in Thread, Mutate(t) \/ MutateFails(t)
      PROVE  TailOK'
  BY <1>1, <1>7, MutationsTyped DEF Mutate, MutateFails
<1>8. ASSUME NEW t \in Thread, Stamp(t) \/ ReloadRead(t) \/ Rebuild(t)
      PROVE  TailOK'
  BY <1>8 DEF Stamp, ReloadRead, Rebuild, TailOK
<1>9. ASSUME NEW t \in Thread, ReloadInstall(t)
      PROVE  TailOK'
  BY <1>9 DEF ReloadInstall, TailOK
<1>10. CASE UNCHANGED vars
  BY <1>10 DEF vars, daemonVars, TailOK
<1>11. QED
  BY <1>2, <1>3, <1>4, <1>5, <1>6, <1>7, <1>8, <1>9, <1>10 DEF Next

\* The deque of monitor events, kept up to date by one append at a time and
\* bounded, never differs from what a scan of the whole log would give.
THEOREM TailCorrect == Spec => []TailOK
<1>1. Init => TypeOK /\ TailOK
  BY TypeCorrectInit, TailEmpty DEF Init, TailOK
<1>2. (TypeOK /\ TailOK) /\ [Next]_vars => (TypeOK /\ TailOK)'
  BY NextKeepsTypes, NextKeepsTail
<1>3. QED
  BY <1>1, <1>2, PTL DEF Spec

-----------------------------------------------------------------------------
(* The peer view is the replay of the log in memory *)

Signed(s) == \A i \in 1..Len(s) : s[i].hash <= appends
Pending(t) == pc[t] = "rebuild" \/ (pc[t] = "stamp" /\ cur[t] # None)
Unwritten == \E i \in 1..Len(mem) : ~Occurs(mem[i], disk)

\* ViewFresh is not inductive.  A thread that has changed the entries and is
\* not done holds the promise to rebuild the view; the loop's events make no
\* such promise and need none.  An entry that a failed write left in memory
\* stays out of the file because every later entry carries a new signature.
ViewInv ==
    /\ Signed(disk) /\ Signed(mem)
    /\ \A t \in Thread : Signed(buf[t])
    /\ up => view = Materialize(mem) \/ Unwritten \/ \E t \in Thread : Pending(t)

\* What is in a log after an append.
LEMMA OccursAppend ==
    ASSUME NEW s \in Seq(Line), NEW e \in Line
    PROVE  \A x : Occurs(x, Append(s, e)) <=> Occurs(x, s) \/ x = e
<1>1. /\ Len(s) \in Nat /\ Len(Append(s, e)) = Len(s) + 1
      /\ Append(s, e)[Len(s) + 1] = e
      /\ \A i \in 1..Len(s) : Append(s, e)[i] = s[i]
  OBVIOUS
<1>2. Len(s) + 1 \in 1..(Len(s) + 1)
  BY <1>1
<1>3. ASSUME NEW x PROVE Occurs(x, Append(s, e)) <=> Occurs(x, s) \/ x = e
  <2>1. Occurs(x, s) => Occurs(x, Append(s, e))
    BY <1>1 DEF Occurs
  <2>2. x = e => Occurs(x, Append(s, e))
    BY <1>1, <1>2 DEF Occurs
  <2>3. ASSUME NEW i \in 1..Len(Append(s, e)), Append(s, e)[i] = x, x # e
        PROVE  Occurs(x, s)
    <3>1. i \in 1..Len(s)
      BY <1>1, <2>3
    <3> QED BY <1>1, <2>3, <3>1 DEF Occurs
  <2>4. QED
    BY <2>1, <2>2, <2>3 DEF Occurs
<1>4. QED
  BY <1>3

\* A log whose signatures are old stays so after an append.
LEMMA SignedAppend ==
    ASSUME TypeOK, NEW s \in Seq(Line), NEW e \in Line, Signed(s),
           appends' = appends + 1, e.hash <= appends + 1
    PROVE  \A i \in 1..Len(Append(s, e)) : Append(s, e)[i].hash <= appends'
<1>1. /\ Len(s) \in Nat /\ Len(Append(s, e)) = Len(s) + 1
      /\ Append(s, e)[Len(s) + 1] = e
      /\ \A i \in 1..Len(s) : Append(s, e)[i] = s[i] /\ s[i] \in Line
  OBVIOUS
<1>2. appends \in Nat
  BY DEF TypeOK
<1>3. ASSUME NEW i \in 1..Len(s)
      PROVE  Append(s, e)[i].hash <= appends'
  BY <1>1, <1>2 DEF Signed, Line
<1>4. QED
  BY <1>1, <1>3

\* ... and when nothing is appended to it.
LEMMA SignedLater ==
    ASSUME TypeOK, NEW s \in Seq(Line), Signed(s), appends' \in {appends, appends + 1}
    PROVE  \A i \in 1..Len(s) : s[i].hash <= appends'
<1>1. appends \in Nat
  BY DEF TypeOK
<1>2. \A i \in 1..Len(s) : s[i] \in Line
  OBVIOUS
<1>3. QED
  BY <1>1, <1>2 DEF Signed, Line

\* An entry that only memory has stays out of the file.
LEMMA UnwrittenStays ==
    ASSUME TypeOK, Signed(mem), Unwritten, NEW e \in Line, e.hash \notin {mem[i].hash : i \in 1..Len(mem)},
           disk' = Append(disk, e), mem' \in {mem, Append(mem, e)}
    PROVE  Unwritten'
<1>1. PICK i \in 1..Len(mem) : ~Occurs(mem[i], disk)
  BY DEF Unwritten
<1>2. mem[i] # e
  BY <1>1
<1>3. ~Occurs(mem[i], disk')
  BY <1>1, <1>2, OccursAppend DEF TypeOK
<1>4. i \in 1..Len(mem') /\ mem'[i] = mem[i]
  BY <1>1 DEF TypeOK
<1>5. QED
  BY <1>3, <1>4 DEF Unwritten
\* What an append to memory and file, or one whose write fails, does to it.
LEMMA AppendKeepsView ==
    ASSUME TypeOK, ViewInv, NEW t \in Thread, NEW op \in OpRecord,
           AppendLine(t, op) \/ AppendFails(t, op)
    PROVE  /\ Signed(disk)' /\ Signed(mem)'
           /\ AppendLine(t, op) => (Unwritten => Unwritten')
           /\ AppendFails(t, op) => Unwritten'
           /\ Materialize(mem') = ApplyOp(Materialize(mem), op)
<1> DEFINE e == NewEntry(mem, op)
<1>1. e \in Line /\ e.hash = appends + 1 /\ e.op = op
  BY NewEntryTyped DEF TypeOK, NewEntry
<1>2. mem' = Append(mem, e) /\ appends' = appends + 1
  BY DEF AppendLine, AppendFails
<1> HIDE DEF e
<1>3. disk \in Seq(Line) /\ mem \in Seq(Line) /\ appends \in Nat
  BY DEF TypeOK
<1>4. \A s \in Seq(Line) : Signed(s) => ~Occurs(e, s)
  <2> TAKE s \in Seq(Line)
  <2>1. \A i \in 1..Len(s) : s[i] \in Line
    OBVIOUS
  <2> QED BY <1>1, <1>3, <2>1 DEF Signed, Occurs, Line
<1>5. Signed(mem)'
  BY <1>1, <1>2, <1>3, SignedAppend DEF ViewInv, Signed
<1>6. TornLine \in Line /\ TornLine.hash = -1
  BY DEF TornLine, Line, Op, OpRecord
<1>7. Materialize(mem') = ApplyOp(Materialize(mem), op)
  BY <1>1, <1>2, <1>3, MaterializeAppend
<1>8. CASE AppendLine(t, op)
  <2>1. disk' = Append(disk, e)
    BY <1>8 DEF AppendLine, e
  <2>2. Signed(disk)'
    <3>1. Signed(disk) /\ e.hash <= appends + 1
      BY <1>1, <1>3 DEF ViewInv
    <3> QED BY <1>1, <1>2, <1>3, <2>1, <3>1, SignedAppend DEF Signed
  <2>3. e.hash \notin {mem[i].hash : i \in 1..Len(mem)}
    <3>1. \A i \in 1..Len(mem) : mem[i] \in Line /\ mem[i].hash <= appends
      BY <1>3 DEF ViewInv, Signed
    <3> QED BY <1>1, <1>3, <3>1 DEF Line
  <2>4. Unwritten => Unwritten'
    BY <1>1, <1>2, <2>1, <2>3, UnwrittenStays DEF ViewInv
  <2>5. ~AppendFails(t, op)
    <3>1. disk' # disk
      <4>1. Len(Append(disk, e)) = Len(disk) + 1 /\ Len(disk) \in Nat
        BY <1>1, <1>3
      <4> QED BY <2>1, <4>1
    <3>2. Append(disk, e) # Append(disk, TornLine)
      <4>1. /\ Append(disk, e)[Len(disk) + 1] = e
            /\ Append(disk, TornLine)[Len(disk) + 1] = TornLine
        BY <1>1, <1>3, <1>6
      <4> QED BY <1>1, <1>3, <1>6, <4>1
    <3> QED BY <2>1, <3>1, <3>2 DEF AppendFails
  <2> QED BY <1>5, <1>7, <2>2, <2>4, <2>5
<1>9. CASE AppendFails(t, op) /\ ~AppendLine(t, op)
  <2>1. disk' \in {disk, Append(disk, TornLine)}
    BY <1>9 DEF AppendFails
  <2>2. Signed(disk)'
    <3>1. CASE disk' = disk
      BY <1>2, <1>3, <3>1, SignedLater DEF ViewInv, Signed
    <3>2. CASE disk' = Append(disk, TornLine)
      <4>1. Signed(disk) /\ TornLine.hash <= appends + 1
        BY <1>3, <1>6 DEF ViewInv
      <4> QED BY <1>2, <1>3, <1>6, <3>2, <4>1, SignedAppend DEF Signed
    <3> QED BY <2>1, <3>1, <3>2
  <2>3. ~Occurs(e, disk')
    <3>1. ~Occurs(e, disk) /\ e # TornLine
      BY <1>1, <1>3, <1>4, <1>6 DEF ViewInv
    <3> QED BY <1>3, <1>6, <2>1, <3>1, OccursAppend
  <2>4. Len(mem) + 1 \in 1..Len(mem') /\ mem'[Len(mem) + 1] = e
    BY <1>1, <1>2, <1>3
  <2>5. Unwritten'
    BY <2>3, <2>4 DEF Unwritten
  <2> QED BY <1>5, <1>7, <1>9, <2>2, <2>5
<1>10. QED
  BY <1>8, <1>9
\* Reading or loading does not touch it; a CLI process writes what memory has not.
LEMMA NextKeepsView ==
    ASSUME TypeOK, ViewInv, [Next]_vars
    PROVE  ViewInv'
<1>0. disk \in Seq(Line) /\ mem \in Seq(Line) /\ appends \in Nat /\ buf \in [Thread -> Seq(Line)]
  BY DEF TypeOK
<1>1. ASSUME LoadDisk
      PROVE  /\ Signed(disk)' /\ appends' \in {appends, appends + 1}
             /\ disk' = disk \/ \E e \in Line : disk' = Append(disk, e) /\ e.hash = appends + 1
  <2>1. CASE disk = <<>>
    <3> DEFINE e == NewEntry(disk, Genesis)
    <3>1. e \in Line /\ e.hash = appends + 1
      BY <1>0, EventsTyped, NewEntryTyped DEF NewEntry
    <3>2. disk' = Append(disk, e) /\ appends' = appends + 1
      BY <1>1, <2>1, <3>1 DEF LoadDisk, Loaded
    <3> HIDE DEF e
    <3>3. Signed(disk) /\ e.hash <= appends + 1
      BY <1>0, <3>1 DEF ViewInv
    <3>4. Signed(disk)'
      BY <1>0, <3>1, <3>2, <3>3, SignedAppend DEF Signed
    <3> QED BY <3>1, <3>2, <3>4
  <2>2. CASE disk # <<>>
    <3>1. disk' = disk /\ appends' = appends
      BY <1>1, <2>2 DEF LoadDisk, Loaded
    <3> QED BY <3>1 DEF ViewInv, Signed
  <2> QED BY <2>1, <2>2
<1>2. ASSUME appends' \in {appends, appends + 1}
      PROVE  \A s \in Seq(Line) : Signed(s) => \A i \in 1..Len(s) : s[i].hash <= appends'
  BY <1>2, SignedLater
<1>3. ASSUME NEW e \in Line, e.hash = appends + 1, disk' = Append(disk, e), mem' = mem, Unwritten
      PROVE  Unwritten'
  <2>1. e.hash \notin {mem[i].hash : i \in 1..Len(mem)}
    <3>1. \A i \in 1..Len(mem) : mem[i] \in Line /\ mem[i].hash <= appends
      BY <1>0 DEF ViewInv, Signed
    <3> QED BY <1>0, <1>3, <3>1 DEF Line
  <2> QED BY <1>3, <2>1, UnwrittenStays DEF ViewInv
<1>4. CASE StartDaemon
  <2>1. /\ Signed(disk)' /\ appends' \in {appends, appends + 1}
        /\ mem' = disk' /\ view' = Materialize(mem') /\ buf' = buf
    BY <1>1, <1>4 DEF StartDaemon
  <2>2. Signed(mem)'
    BY <2>1 DEF Signed
  <2>3. \A t \in Thread : Signed(buf[t])'
    BY <1>0, <1>2, <2>1 DEF ViewInv, Signed
  <2> QED BY <2>1, <2>2, <2>3 DEF ViewInv
<1>5. CASE StopDaemon
  BY <1>5 DEF StopDaemon, Stopped, ViewInv, Signed
<1>6. ASSUME NEW t \in Thread, NEW op \in OpRecord, AppendLine(t, op),
             buf' = buf /\ view' = view /\ up' = up,
             \/ \E u \in Thread : Pending(u)'
             \/ op.type \notin PeerOps /\ ~\E u \in Thread : Pending(u)
      PROVE  ViewInv'
  <2>1. /\ Signed(disk)' /\ Signed(mem)'
        /\ Unwritten => Unwritten'
        /\ Materialize(mem') = ApplyOp(Materialize(mem), op)
    BY <1>6, AppendKeepsView
  <2>2. appends' = appends + 1
    BY <1>6 DEF AppendLine
  <2>3. \A u \in Thread : Signed(buf[u])'
    BY <1>0, <1>2, <1>6, <2>2 DEF ViewInv, Signed
  <2>4. op.type \notin PeerOps => Materialize(mem') = Materialize(mem)
    BY <2>1 DEF ApplyOp
  <2> QED BY <1>6, <2>1, <2>3, <2>4 DEF ViewInv
<1>7. CASE RecordEvent
  <2>1. PICK op \in Events : AppendLine(Loop, op)
    BY <1>7 DEF RecordEvent
  <2>2. op \in OpRecord /\ op.type \notin PeerOps /\ Loop \in Thread
    BY EventsTyped DEF Events, Op, PeerOps, Thread
  <2>3. /\ buf' = buf /\ view' = view /\ up' = up /\ cur' = cur
        /\ pc' = [pc EXCEPT ![Loop] = "stamp"] /\ pc[Loop] = "idle"
    BY <1>7 DEF RecordEvent
  <2>4. (\E u \in Thread : Pending(u)) => \E u \in Thread : Pending(u)'
    BY <2>3 DEF Pending, TypeOK
  <2>5. \/ \E u \in Thread : Pending(u)'
        \/ op.type \notin PeerOps /\ ~\E u \in Thread : Pending(u)
    BY <2>2, <2>4
  <2> QED BY <1>6, <2>1, <2>2, <2>3, <2>5
<1>8. CASE RecordEventFails \/ \E t \in Thread : MutateFails(t)
  <2>1. PICK t \in Thread, op \in OpRecord : AppendFails(t, op)
    BY <1>8, EventsTyped, MutationsTyped DEF RecordEventFails, MutateFails, Thread
  <2>2. Signed(disk)' /\ Signed(mem)' /\ Unwritten'
    BY <2>1, AppendKeepsView
  <2>3. appends' = appends + 1 /\ buf' = buf
    BY <2>1 DEF AppendFails
  <2>4. \A u \in Thread : Signed(buf[u])'
    BY <1>0, <1>2, <2>3 DEF ViewInv, Signed
  <2> QED BY <2>2, <2>4 DEF ViewInv
<1>9. ASSUME NEW t \in Thread, Mutate(t)
      PROVE  ViewInv'
  <2>1. PICK op \in Mutations(view) :
             AppendLine(t, op) /\ cur' = [cur EXCEPT ![t] = NewEntry(mem, op)]
    BY <1>9 DEF Mutate
  <2>2. op \in OpRecord
    BY MutationsTyped
  <2>3. NewEntry(mem, op) # None
    BY <1>0, <2>2, NewEntryTyped, NoneAssumption
  <2>4. Pending(t)'
    BY <1>9, <2>1, <2>3 DEF Mutate, Pending, TypeOK
  <2>5. buf' = buf /\ view' = view /\ up' = up
    BY <1>9 DEF Mutate
  <2>6. \E u \in Thread : Pending(u)'
    BY <2>4
  <2> QED BY <1>6, <2>1, <2>2, <2>5, <2>6
<1>10. CASE UnlinkSocket \/ CliExit
  BY <1>10 DEF UnlinkSocket, CliExit, daemonVars, ViewInv, Signed, Unwritten, Pending
<1>11. CASE CliLoad
  <2>1. /\ Signed(disk)' /\ appends' \in {appends, appends + 1}
        /\ disk' = disk \/ \E e \in Line : disk' = Append(disk, e) /\ e.hash = appends + 1
    BY <1>1, <1>11 DEF CliLoad
  <2>2. mem' = mem /\ view' = view /\ up' = up /\ pc' = pc /\ cur' = cur /\ buf' = buf
    BY <1>11 DEF CliLoad, daemonVars
  <2>3. Signed(mem)' /\ \A u \in Thread : Signed(buf[u])'
    BY <1>0, <1>2, <2>1, <2>2 DEF ViewInv, Signed
  <2>4. Unwritten => Unwritten'
    BY <1>3, <2>1, <2>2 DEF Unwritten
  <2> QED BY <2>1, <2>2, <2>3, <2>4 DEF ViewInv, Pending
<1>12. CASE CliMutate
  <2>1. PICK op \in Mutations(Materialize(cliMem)) : disk' = Append(disk, NewEntry(cliMem, op))
    BY <1>12 DEF CliMutate
  <2>2. NewEntry(cliMem, op) \in Line /\ NewEntry(cliMem, op).hash = appends + 1
    BY MutationsTyped, NewEntryTyped DEF TypeOK, NewEntry
  <2>3. /\ mem' = mem /\ view' = view /\ up' = up /\ pc' = pc /\ cur' = cur /\ buf' = buf
        /\ appends' = appends + 1
    BY <1>12 DEF CliMutate, daemonVars
  <2>4. Signed(mem)' /\ \A u \in Thread : Signed(buf[u])'
    BY <1>0, <1>2, <2>3 DEF ViewInv, Signed
  <2>5. Unwritten => Unwritten'
    BY <1>3, <2>1, <2>2, <2>3
  <2>6. Signed(disk)'
    <3>1. Signed(disk) /\ NewEntry(cliMem, op).hash <= appends + 1
      BY <1>0, <2>2 DEF ViewInv
    <3> QED BY <1>0, <2>1, <2>2, <2>3, <3>1, SignedAppend DEF Signed
  <2> QED BY <2>3, <2>4, <2>5, <2>6 DEF ViewInv, Pending
<1>13. ASSUME NEW t \in Thread, Stamp(t)
       PROVE  ViewInv'
  <2>1. \A u \in Thread : Pending(u) => Pending(u)'
    BY <1>13 DEF Stamp, Pending, TypeOK
  <2> QED BY <1>13, <2>1 DEF Stamp, ViewInv, Signed, Unwritten
<1>14. ASSUME NEW t \in Thread, ReloadRead(t)
       PROVE  ViewInv'
  <2>1. \A u \in Thread : Pending(u) => Pending(u)'
    BY <1>14 DEF ReloadRead, Pending, TypeOK
  <2>2. \A u \in Thread : Signed(buf[u])'
    BY <1>0, <1>14 DEF ReloadRead, ViewInv, Signed
  <2> QED BY <1>14, <2>1, <2>2 DEF ReloadRead, ViewInv, Signed, Unwritten
<1>15. ASSUME NEW t \in Thread, ReloadInstall(t)
       PROVE  ViewInv'
  <2>1. Pending(t)'
    BY <1>15 DEF ReloadInstall, Pending, TypeOK
  <2>2. \A u \in Thread : Signed(buf[u])'
    BY <1>0, <1>15 DEF ReloadInstall, ViewInv, Signed
  <2>3. Signed(mem)' /\ Signed(disk)'
    BY <1>15 DEF ReloadInstall, ViewInv, Signed
  <2> QED BY <2>1, <2>2, <2>3 DEF ViewInv
<1>16. ASSUME NEW t \in Thread, Rebuild(t)
       PROVE  ViewInv'
  BY <1>16 DEF Rebuild, ViewInv, Signed
<1>17. CASE UNCHANGED vars
  BY <1>17 DEF vars, daemonVars, ViewInv, Signed, Unwritten, Pending
<1>18. QED
  BY <1>4, <1>5, <1>7, <1>8, <1>9, <1>10, <1>11, <1>12, <1>13, <1>14, <1>15, <1>16,
     <1>17 DEF Next

\* Authorization is decided on the replay of the daemon's own log, whatever
\* mutations, reloads, failed writes and other processes interleave.
THEOREM ViewIsReplay == Spec => []ViewFresh
<1>1. Init => TypeOK /\ ViewInv
  BY TypeCorrectInit DEF Init, ViewInv, Signed
<1>2. (TypeOK /\ ViewInv) /\ [Next]_vars => (TypeOK /\ ViewInv)'
  BY NextKeepsTypes, NextKeepsView
<1>3. TypeOK /\ ViewInv => ViewFresh
  <2> SUFFICES ASSUME TypeOK, ViewInv, up, \A t \in Thread : pc[t] \notin {"stamp", "rebuild"},
                      \A i \in DOMAIN mem : \E j \in DOMAIN disk : disk[j] = mem[i]
               PROVE  view = Materialize(mem)
    BY DEF ViewFresh
  <2>1. DOMAIN mem = 1..Len(mem) /\ DOMAIN disk = 1..Len(disk)
    BY DEF TypeOK
  <2>2. ~Unwritten
    BY <2>1 DEF Unwritten, Occurs
  <2>3. \A t \in Thread : ~Pending(t)
    BY DEF Pending
  <2> QED BY <2>2, <2>3 DEF ViewInv
<1>4. QED
  BY <1>1, <1>2, <1>3, PTL DEF Spec

-----------------------------------------------------------------------------
(* With one writer, authorization is what the file says *)

PeerRecord == [present : BOOLEAN, revoked : BOOLEAN,
               perms : SUBSET ((UNION Perms) \cup Tag \cup Alias),
               alias : SUBSET ((UNION Perms) \cup Tag \cup Alias),
               tags : SUBSET ((UNION Perms) \cup Tag \cup Alias), maint : BOOLEAN]

Decides(op, p) == op.peer = p /\ op.type \in {"add_peer", "update_permissions", "revoke_peer"}
Grants(op, protocol) == op.type # "revoke_peer" /\ {protocol, "*"} \cap (op.arg \ Tag) # {}

\* The newest entry decides, when it is one of those that do.
LEMMA GrantedAppend ==
    ASSUME NEW s \in Seq(Line), NEW e \in Line, NEW p \in Peer, NEW protocol
    PROVE  Granted(Append(s, e), p, protocol) <=>
               IF Decides(e.op, p) THEN Grants(e.op, protocol) ELSE Granted(s, p, protocol)
<1> DEFINE r == Append(s, e)
           n == Len(s)
<1>1. /\ n \in Nat /\ Len(r) = n + 1 /\ r[n + 1] = e
      /\ \A i \in 1..n : r[i] = s[i]
  OBVIOUS
<1> HIDE DEF r, n
<1>2. CASE Decides(e.op, p)
  <2>1. ASSUME Grants(e.op, protocol) PROVE Granted(r, p, protocol)
    <3>1. n + 1 \in 1..Len(r) /\ r[n + 1] = e /\ \A j \in (n + 1 + 1)..Len(r) : FALSE
      BY <1>1
    <3>2. /\ e.op.peer = p /\ e.op.type \in {"add_peer", "update_permissions"}
          /\ {protocol, "*"} \cap (e.op.arg \ Tag) # {}
      BY <1>2, <2>1 DEF Decides, Grants
    <3> QED BY <3>1, <3>2 DEF Granted
  <2>2. ASSUME Granted(r, p, protocol) PROVE Grants(e.op, protocol)
    <3>1. PICK i \in 1..Len(r) :
            /\ r[i].op.peer = p /\ r[i].op.type \in {"add_peer", "update_permissions"}
            /\ {protocol, "*"} \cap (r[i].op.arg \ Tag) # {}
            /\ \A j \in (i + 1)..Len(r) :
                  r[j].op.peer = p => r[j].op.type \notin
                      {"add_peer", "update_permissions", "revoke_peer"}
      BY <2>2 DEF Granted
    <3>2. i = n + 1
      <4>1. i # n + 1 => n + 1 \in (i + 1)..Len(r)
        BY <1>1
      <4> QED BY <1>1, <1>2, <3>1, <4>1 DEF Decides
    <3> QED BY <1>1, <3>1, <3>2 DEF Grants
  <2> QED BY <1>2, <2>1, <2>2 DEF r
<1>3. CASE ~Decides(e.op, p)
  <2>1. ASSUME Granted(s, p, protocol) PROVE Granted(r, p, protocol)
    <3>1. PICK i \in 1..n :
            /\ s[i].op.peer = p /\ s[i].op.type \in {"add_peer", "update_permissions"}
            /\ {protocol, "*"} \cap (s[i].op.arg \ Tag) # {}
            /\ \A j \in (i + 1)..n :
                  s[j].op.peer = p => s[j].op.type \notin
                      {"add_peer", "update_permissions", "revoke_peer"}
      BY <2>1 DEF Granted, n
    <3>2. i \in 1..Len(r) /\ r[i] = s[i]
      BY <1>1
    <3>3. ASSUME NEW j \in (i + 1)..Len(r), r[j].op.peer = p
          PROVE  r[j].op.type \notin {"add_peer", "update_permissions", "revoke_peer"}
      <4>1. CASE j = n + 1
        BY <1>1, <1>3, <3>3, <4>1 DEF Decides
      <4>2. CASE j # n + 1
        <5>1. j \in (i + 1)..n /\ r[j] = s[j]
          BY <1>1, <4>2
        <5> QED BY <3>1, <3>3, <5>1
      <4> QED BY <4>1, <4>2
    <3> QED BY <3>1, <3>2, <3>3 DEF Granted
  <2>2. ASSUME Granted(r, p, protocol) PROVE Granted(s, p, protocol)
    <3>1. PICK i \in 1..Len(r) :
            /\ r[i].op.peer = p /\ r[i].op.type \in {"add_peer", "update_permissions"}
            /\ {protocol, "*"} \cap (r[i].op.arg \ Tag) # {}
            /\ \A j \in (i + 1)..Len(r) :
                  r[j].op.peer = p => r[j].op.type \notin
                      {"add_peer", "update_permissions", "revoke_peer"}
      BY <2>2 DEF Granted
    <3>2. i \in 1..n /\ r[i] = s[i]
      BY <1>1, <1>3, <3>1 DEF Decides
    <3>3. \A j \in (i + 1)..n : j \in (i + 1)..Len(r) /\ r[j] = s[j]
      BY <1>1, <3>2
    <3> QED BY <3>1, <3>2, <3>3 DEF Granted, n
  <2> QED BY <1>3, <2>1, <2>2 DEF r
<1>4. QED
  BY <1>2, <1>3

\* What add_peer and set_alias append.
LEMMA AddPeerOp ==
    ASSUME NEW v, NEW op \in add_peer(v)
    PROVE  op.type = "add_peer" /\ op.peer \in Peer
BY DEF add_peer, Op

\* set_alias is only about a peer that is present, and writes one alias.
LEMMA SetAliasOp ==
    ASSUME NEW v, NEW op \in set_alias(v)
    PROVE  \E q \in Peer : \E a \in Alias :
              op = Op("add_peer_alias", q, {a}) /\ v[q].present
BY DEF set_alias, Op

\* What one allowed operation does to the answer of verify_and_authorize.
LEMMA ApplyDecides ==
    ASSUME NEW v \in [Peer -> PeerRecord], NEW p \in Peer, NEW protocol,
           NEW op \in Mutations(v) \cup Events \cup {Genesis}
    PROVE  /\ ApplyOp(v, op) \in [Peer -> PeerRecord]
           /\ verify_and_authorize(ApplyOp(v, op), p, protocol) <=>
                  IF Decides(op, p) THEN Grants(op, protocol)
                  ELSE verify_and_authorize(v, p, protocol)
<1>1. CASE op \in Events \cup {Genesis}
  <2>1. op.type \notin PeerOps
    BY <1>1 DEF Events, Genesis, Op, PeerOps
  <2>2. ApplyOp(v, op) = v
    BY <2>1 DEF ApplyOp
  <2>3. ~Decides(op, p)
    BY <2>1 DEF Decides, PeerOps
  <2> QED BY <2>2, <2>3
<1>2. CASE op \in add_peer(v)
  <2> DEFINE q == op.peer
  <2>1. op \in Mutations(v)
    BY <1>2 DEF Mutations
  <2>2. op.type = "add_peer" /\ op.peer \in Peer
    BY <1>2, AddPeerOp
  <2> DEFINE new == [Unknown EXCEPT !.present = TRUE, !.perms = op.arg \ Tag,
                                    !.tags = op.arg \cap Tag]
  <2>3. ApplyOp(v, op) = [v EXCEPT ![q] = new]
    BY <2>2 DEF ApplyOp, PeerOps
  <2>4. op.arg \subseteq (UNION Perms) \cup Tag \cup Alias
    BY <2>1, MutationsTyped DEF OpRecord
  <2>5. /\ new \in PeerRecord
        /\ new.present = TRUE /\ new.revoked = FALSE /\ new.perms = op.arg \ Tag
    BY <2>4 DEF Unknown, PeerRecord
  <2> HIDE DEF new
  <2>6. ApplyOp(v, op) \in [Peer -> PeerRecord]
    BY <2>3, <2>5
  <2>7. CASE p = q
    <3>1. ApplyOp(v, op)[p] = new
      BY <2>3, <2>7
    <3>2. Decides(op, p)
      BY <2>2, <2>7 DEF Decides
    <3>3. verify_and_authorize(ApplyOp(v, op), p, protocol) <=>
              {protocol, "*"} \cap (op.arg \ Tag) # {}
      BY <2>5, <3>1 DEF verify_and_authorize, Active
    <3> QED BY <2>2, <2>6, <3>2, <3>3 DEF Grants
  <2>8. CASE p # q
    BY <2>2, <2>3, <2>6, <2>8 DEF verify_and_authorize, Active, Decides
  <2> QED BY <2>7, <2>8
<1>3. CASE op \in revoke_peer(v)
  <2>1. PICK q \in Peer : op = Op("revoke_peer", q, {}) /\ Active(v, q)
    BY <1>3 DEF revoke_peer
  <2>2. op.type = "revoke_peer" /\ op.peer = q
    BY <2>1 DEF Op
  <2>3. ApplyOp(v, op) = [v EXCEPT ![q] = [v[q] EXCEPT !.revoked = TRUE]]
    BY <2>1, <2>2 DEF ApplyOp, PeerOps, Active
  <2> DEFINE new == [v[q] EXCEPT !.revoked = TRUE]
  <2>4. new \in PeerRecord /\ new.revoked = TRUE
    BY DEF PeerRecord
  <2> HIDE DEF new
  <2>5. ApplyOp(v, op) = [v EXCEPT ![q] = new]
    BY <2>3 DEF new
  <2> QED
    BY <2>2, <2>4, <2>5 DEF verify_and_authorize, Active, Decides, Grants
<1>4. CASE op \in update_permissions(v)
  <2>1. PICK q \in Peer, a \in Perms : op = Op("update_permissions", q, a) /\ Active(v, q)
    BY <1>4 DEF update_permissions
  <2>2. op.type = "update_permissions" /\ op.peer = q /\ op.arg = a
    BY <2>1 DEF Op
  <2> DEFINE new == [v[q] EXCEPT !.perms = a]
  <2>3. ApplyOp(v, op) = [v EXCEPT ![q] = new]
    BY <2>1, <2>2 DEF ApplyOp, PeerOps, Active
  <2>4. /\ new \in PeerRecord /\ new.perms = a
        /\ new.present = v[q].present /\ new.revoked = v[q].revoked
    BY DEF PeerRecord
  <2> HIDE DEF new
  <2>5. ApplyOp(v, op) \in [Peer -> PeerRecord]
    BY <2>3, <2>4
  <2>6. a \ Tag = a
    BY TagAssumption
  <2>7. CASE p = q
    <3>1. ApplyOp(v, op)[p] = new /\ Active(v, p)
      BY <2>1, <2>3, <2>7
    <3>2. Decides(op, p)
      BY <2>2, <2>7 DEF Decides
    <3>3. verify_and_authorize(ApplyOp(v, op), p, protocol) <=>
              {protocol, "*"} \cap (op.arg \ Tag) # {}
      BY <2>2, <2>4, <2>6, <2>7, <3>1 DEF verify_and_authorize, Active
    <3> QED BY <2>2, <2>5, <3>2, <3>3 DEF Grants
  <2>8. CASE p # q
    BY <2>2, <2>3, <2>5, <2>8 DEF verify_and_authorize, Active, Decides
  <2> QED BY <2>7, <2>8
<1>5. CASE op \in set_alias(v) \cup set_tags(v) \cup set_maintenance(v) \cup clear_maintenance(v)
  <2>1. PICK q \in Peer : /\ op.peer = q /\ v[q].present
                          /\ op.type \in {"add_peer_alias", "set_tags", "set_maintenance",
                                          "clear_maintenance"}
                          /\ op.arg \in SUBSET ((UNION Perms) \cup Tag \cup Alias)
    <3>1. CASE op \in set_alias(v)
      <4>1. PICK q \in Peer, a \in Alias : op = Op("add_peer_alias", q, {a}) /\ v[q].present
        BY <3>1, SetAliasOp
      <4>2. {a} \in SUBSET ((UNION Perms) \cup Tag \cup Alias)
        OBVIOUS
      <4> QED BY <4>1, <4>2 DEF Op
    <3>2. CASE op \in set_tags(v)
      <4>1. PICK q \in Peer, t \in SUBSET Tag : op = Op("set_tags", q, t) /\ v[q].present
        BY <3>2 DEF set_tags
      <4>2. t \in SUBSET ((UNION Perms) \cup Tag \cup Alias)
        OBVIOUS
      <4> QED BY <4>1, <4>2 DEF Op
    <3>3. CASE op \in set_maintenance(v) \cup clear_maintenance(v)
      BY <3>3 DEF set_maintenance, clear_maintenance, Op
    <3> QED BY <1>5, <3>1, <3>2, <3>3
  <2>2. \E new \in PeerRecord :
           /\ ApplyOp(v, op) = [v EXCEPT ![q] = new]
           /\ new.present = v[q].present /\ new.revoked = v[q].revoked
           /\ new.perms = v[q].perms
    <3>0. v[q] \in PeerRecord
      OBVIOUS
    <3>1. CASE op.type = "add_peer_alias"
      <4> DEFINE new == [v[q] EXCEPT !.alias = op.arg]
      <4>1. ApplyOp(v, op) = [v EXCEPT ![q] = new]
        BY <2>1, <3>1 DEF ApplyOp, PeerOps
      <4>2. /\ new \in PeerRecord /\ new.present = v[q].present
            /\ new.revoked = v[q].revoked /\ new.perms = v[q].perms
        BY <2>1, <3>0 DEF PeerRecord
      <4> HIDE DEF new
      <4> QED BY <4>1, <4>2
    <3>2. CASE op.type = "set_tags"
      <4> DEFINE new == [v[q] EXCEPT !.tags = op.arg]
      <4>1. ApplyOp(v, op) = [v EXCEPT ![q] = new]
        BY <2>1, <3>2 DEF ApplyOp, PeerOps
      <4>2. /\ new \in PeerRecord /\ new.present = v[q].present
            /\ new.revoked = v[q].revoked /\ new.perms = v[q].perms
        BY <2>1, <3>0 DEF PeerRecord
      <4> HIDE DEF new
      <4> QED BY <4>1, <4>2
    <3>3. CASE op.type = "set_maintenance"
      <4> DEFINE new == [v[q] EXCEPT !.maint = TRUE]
      <4>1. ApplyOp(v, op) = [v EXCEPT ![q] = new]
        BY <2>1, <3>3 DEF ApplyOp, PeerOps
      <4>2. /\ new \in PeerRecord /\ new.present = v[q].present
            /\ new.revoked = v[q].revoked /\ new.perms = v[q].perms
        BY <3>0 DEF PeerRecord
      <4> HIDE DEF new
      <4> QED BY <4>1, <4>2
    <3>4. CASE op.type = "clear_maintenance"
      <4> DEFINE new == [v[q] EXCEPT !.maint = FALSE]
      <4>1. ApplyOp(v, op) = [v EXCEPT ![q] = new]
        BY <2>1, <3>4 DEF ApplyOp, PeerOps
      <4>2. /\ new \in PeerRecord /\ new.present = v[q].present
            /\ new.revoked = v[q].revoked /\ new.perms = v[q].perms
        BY <3>0 DEF PeerRecord
      <4> HIDE DEF new
      <4> QED BY <4>1, <4>2
    <3> QED BY <2>1, <3>1, <3>2, <3>3, <3>4
  <2>3. PICK new \in PeerRecord :
           /\ ApplyOp(v, op) = [v EXCEPT ![q] = new]
           /\ new.present = v[q].present /\ new.revoked = v[q].revoked
           /\ new.perms = v[q].perms
    BY <2>2
  <2>4. ~Decides(op, p)
    BY <2>1 DEF Decides
  <2>5. ApplyOp(v, op) \in [Peer -> PeerRecord]
    BY <2>3
  <2>6. verify_and_authorize(ApplyOp(v, op), p, protocol)
            <=> verify_and_authorize(v, p, protocol)
    BY <2>3 DEF verify_and_authorize, Active
  <2> QED BY <2>4, <2>5, <2>6
<1>6. QED
  BY <1>1, <1>2, <1>3, <1>4, <1>5 DEF Mutations
\* The view the file stands for authorizes what the file grants.
GrantsMatch(s) ==
    /\ Materialize(s) \in [Peer -> PeerRecord]
    /\ \A p \in Peer : \A protocol \in UNION Perms :
          verify_and_authorize(Materialize(s), p, protocol) <=> Granted(s, p, protocol)

\* The file decides; the view follows it unless a mutation holds the trust lock.
AuthInv ==
    /\ \A t \in Thread : pc[t] = "idle" => cur[t] = None
    /\ \A t \in Thread : Pending(t) => trustLock = t
    /\ trustLock # None => \E t \in Thread : Pending(t)
    /\ (up /\ trustLock = None) => view = Materialize(disk)
    /\ GrantsMatch(disk)

\* An entry that a method of PeerTrustManager, the loop or ensure_genesis signs
\* on top of a log keeps the replay and the newest deciding entry in agreement.
LEMMA AppendKeepsGrants ==
    ASSUME NEW s \in Seq(Line), GrantsMatch(s), NEW e \in Line,
           e.op \in Mutations(Materialize(s)) \cup Events \cup {Genesis}
    PROVE  GrantsMatch(Append(s, e))
<1> DEFINE v == Materialize(s)
<1>1. v \in [Peer -> PeerRecord]
  BY DEF GrantsMatch
<1>2. Materialize(Append(s, e)) = ApplyOp(v, e.op)
  BY MaterializeAppend
<1>3. ASSUME NEW p \in Peer, NEW protocol \in UNION Perms
      PROVE  /\ ApplyOp(v, e.op) \in [Peer -> PeerRecord]
             /\ verify_and_authorize(ApplyOp(v, e.op), p, protocol) <=>
                    Granted(Append(s, e), p, protocol)
  <2>1. verify_and_authorize(v, p, protocol) <=> Granted(s, p, protocol)
    BY DEF GrantsMatch
  <2>2. Granted(Append(s, e), p, protocol) <=>
            IF Decides(e.op, p) THEN Grants(e.op, protocol) ELSE Granted(s, p, protocol)
    BY GrantedAppend
  <2> DEFINE op == e.op
  <2>3. op \in Mutations(v) \cup Events \cup {Genesis}
    OBVIOUS
  <2>4. /\ ApplyOp(v, op) \in [Peer -> PeerRecord]
        /\ verify_and_authorize(ApplyOp(v, op), p, protocol) <=>
                  IF Decides(op, p) THEN Grants(op, protocol)
                  ELSE verify_and_authorize(v, p, protocol)
    <3> HIDE DEF v, op
    <3> QED BY <1>1, <2>3, ApplyDecides
  <2> QED BY <2>1, <2>2, <2>4
<1>4. ApplyOp(v, e.op) \in [Peer -> PeerRecord]
  <2> DEFINE op == e.op
  <2>1. op \in Mutations(v) \cup Events \cup {Genesis}
    OBVIOUS
  <2> HIDE DEF v, op
  <2>2. ApplyOp(v, op) \in [Peer -> PeerRecord]
    <3>1. CASE Peer = {}
      <4>1. op \in Events \cup {Genesis}
        BY <2>1, <3>1 DEF Mutations, add_peer, revoke_peer, update_permissions, set_alias,
                          set_tags, set_maintenance, clear_maintenance
      <4>2. op.type \notin PeerOps
        BY <4>1 DEF Events, Genesis, Op, PeerOps
      <4> QED BY <1>1, <4>2 DEF ApplyOp
    <3>2. CASE Peer # {}
      <4>1. PICK p \in Peer : TRUE
        BY <3>2
      <4> QED BY <1>1, <2>1, <4>1, ApplyDecides
    <3> QED BY <3>1, <3>2
  <2> QED BY <2>2 DEF op
<1>5. QED
  BY <1>2, <1>3, <1>4 DEF GrantsMatch
\* Loading writes at most the genesis entry.
LEMMA LoadKeepsGrants ==
    ASSUME TypeOK, GrantsMatch(disk), LoadDisk
    PROVE  GrantsMatch(disk')
<1>1. CASE disk = <<>>
  <2> DEFINE e == NewEntry(disk, Genesis)
  <2>1. e \in Line /\ e.op = Genesis
    BY EventsTyped, NewEntryTyped DEF NewEntry, TypeOK
  <2>2. disk' = Append(disk, e)
    BY <1>1, <2>1 DEF LoadDisk, Loaded
  <2> HIDE DEF e
  <2> QED BY <2>1, <2>2, AppendKeepsGrants DEF TypeOK
<1>2. CASE disk # <<>>
  BY <1>2 DEF LoadDisk, Loaded
<1>3. QED
  BY <1>1, <1>2

\* With one writer at a time, every step keeps view and file in agreement.
LEMMA NextKeepsAuth ==
    ASSUME Races = {}, SingleInv, AuthInv, [Next]_vars
    PROVE  AuthInv'
<1>0. TypeOK /\ disk \in Seq(Line)
  BY DEF SingleInv, TypeOK
<1>1. CASE StartDaemon
  <2>1. GrantsMatch(disk')
    BY <1>0, <1>1, LoadKeepsGrants DEF StartDaemon, AuthInv
  <2> QED BY <1>1, <2>1 DEF StartDaemon, AuthInv, Pending
<1>2. CASE StopDaemon
  BY <1>2 DEF StopDaemon, Stopped, AuthInv, Pending
<1>3. CASE RecordEvent
  <2>1. PICK op \in Events : AppendLine(Loop, op)
    BY <1>3 DEF RecordEvent
  <2> DEFINE e == NewEntry(mem, op)
  <2>2. e \in Line /\ e.op = op /\ op.type \notin PeerOps
    BY <1>0, EventsTyped, NewEntryTyped DEF NewEntry, TypeOK, Events, Op, PeerOps
  <2>3. disk' = Append(disk, e)
    BY <2>1 DEF AppendLine
  <2> HIDE DEF e
  <2>4. GrantsMatch(disk')
    BY <1>0, <2>2, <2>3, AppendKeepsGrants DEF AuthInv
  <2>5. Materialize(disk') = Materialize(disk)
    BY <1>0, <2>2, <2>3, MaterializeAppend DEF ApplyOp
  <2>6. \A t \in Thread : Pending(t)' <=> Pending(t)
    <3>1. cur[Loop] = None
      BY <1>3 DEF RecordEvent, AuthInv, Thread
    <3> QED BY <1>0, <1>3, <3>1 DEF RecordEvent, Pending, TypeOK
  <2>7. \A t \in Thread : pc'[t] = "idle" => cur'[t] = None
    BY <1>0, <1>3 DEF RecordEvent, AuthInv, TypeOK
  <2> QED BY <1>3, <2>4, <2>5, <2>6, <2>7 DEF RecordEvent, AuthInv
<1>4. CASE UnlinkSocket \/ RecordEventFails \/ \E t \in Thread : MutateFails(t)
  BY <1>4 DEF UnlinkSocket, RecordEventFails, MutateFails, AppendFails
<1>5. CASE CliLoad
  <2>1. GrantsMatch(disk')
    BY <1>0, <1>5, LoadKeepsGrants DEF CliLoad, AuthInv
  <2>2. ~up'
    BY <1>5 DEF CliLoad, daemonVars
  <2> QED BY <1>5, <2>1, <2>2 DEF CliLoad, daemonVars, AuthInv, Pending
<1>6. CASE CliMutate
  <2>1. PICK op \in Mutations(Materialize(cliMem)) : disk' = Append(disk, NewEntry(cliMem, op))
    BY <1>6 DEF CliMutate
  <2>2. cliMem = disk /\ ~up'
    BY <1>6 DEF CliMutate, SingleInv, daemonVars
  <2> DEFINE e == NewEntry(cliMem, op)
  <2>3. e \in Line /\ e.op = op
    BY <1>0, MutationsTyped, NewEntryTyped DEF NewEntry, TypeOK
  <2> HIDE DEF e
  <2>4. GrantsMatch(disk')
    BY <1>0, <2>1, <2>2, <2>3, AppendKeepsGrants DEF AuthInv, e
  <2> QED BY <1>6, <2>2, <2>4 DEF CliMutate, daemonVars, AuthInv, Pending
<1>7. CASE CliExit
  BY <1>7 DEF CliExit, daemonVars, AuthInv, Pending
<1>8. ASSUME NEW t \in Thread, Mutate(t)
      PROVE  AuthInv'
  <2>1. PICK op \in Mutations(view) : AppendLine(t, op)
    BY <1>8 DEF Mutate
  <2>2. view = Materialize(disk)
    BY <1>8 DEF Mutate, AuthInv
  <2> DEFINE e == NewEntry(mem, op)
  <2>3. e \in Line /\ e.op = op /\ disk' = Append(disk, e)
    BY <1>0, <2>1, MutationsTyped, NewEntryTyped DEF NewEntry, TypeOK, AppendLine
  <2> HIDE DEF e
  <2>4. GrantsMatch(disk')
    BY <1>0, <2>2, <2>3, AppendKeepsGrants DEF AuthInv
  <2>5. trustLock = None /\ trustLock' = t /\ t # None
    BY <1>8, ThreadAssumption DEF Mutate, Thread
  <2>6. \A u \in Thread : ~Pending(u)
    BY <2>5, ThreadAssumption DEF AuthInv, Thread
  <2>7. \A u \in Thread : Pending(u)' => u = t
    BY <1>0, <1>8, <2>6 DEF Mutate, Pending, TypeOK
  <2>8. \A u \in Thread : pc'[u] = "idle" => cur'[u] = None
    BY <1>0, <1>8 DEF Mutate, AuthInv, TypeOK
  <2>9. Pending(t)'
    <3>1. PICK op2 \in Mutations(view) : cur' = [cur EXCEPT ![t] = NewEntry(mem, op2)]
      BY <1>8 DEF Mutate
    <3>2. NewEntry(mem, op2) # None
      BY <1>0, MutationsTyped, NewEntryTyped, NoneAssumption DEF TypeOK
    <3> QED BY <1>0, <1>8, <3>1, <3>2 DEF Mutate, Pending, TypeOK
  <2> QED BY <2>4, <2>5, <2>7, <2>8, <2>9 DEF AuthInv
<1>9. ASSUME NEW t \in Thread, Stamp(t)
      PROVE  AuthInv'
  <2>1. \A u \in Thread : Pending(u)' <=> Pending(u)
    BY <1>0, <1>9 DEF Stamp, Pending, TypeOK
  <2>2. \A u \in Thread : pc'[u] = "idle" => cur'[u] = None
    BY <1>0, <1>9 DEF Stamp, AuthInv, TypeOK
  <2> QED BY <1>9, <2>1, <2>2 DEF Stamp, AuthInv
<1>10. ASSUME NEW t \in Thread, ReloadRead(t) \/ ReloadInstall(t)
       PROVE  AuthInv'
  <2>1. ~ReloadRead(t)
    BY DEF ReloadRead, SingleInv, TypeOK
  <2>2. ~ReloadInstall(t)
    BY DEF ReloadInstall, SingleInv
  <2> QED BY <1>10, <2>1, <2>2
<1>11. ASSUME NEW t \in Thread, Rebuild(t)
       PROVE  AuthInv'
  <2>1. trustLock = t /\ trustLock' = None
    BY <1>11 DEF Rebuild, AuthInv, Pending
  <2>2. \A u \in Thread : Pending(u) => u = t
    BY <2>1 DEF AuthInv
  <2>3. \A u \in Thread : ~Pending(u)'
    BY <1>0, <1>11, <2>2 DEF Rebuild, Pending, TypeOK
  <2>4. view' = Materialize(disk') /\ disk' = disk
    BY <1>11 DEF Rebuild, SingleInv
  <2>5. \A u \in Thread : pc'[u] = "idle" => cur'[u] = None
    BY <1>0, <1>11 DEF Rebuild, AuthInv, TypeOK
  <2> QED BY <2>1, <2>3, <2>4, <2>5 DEF AuthInv
<1>12. CASE UNCHANGED vars
  BY <1>12 DEF vars, daemonVars, AuthInv, Pending
<1>13. QED
  BY <1>1, <1>2, <1>3, <1>4, <1>5, <1>6, <1>7, <1>8, <1>9, <1>10, <1>11, <1>12
  DEF Next
\* An empty log grants nothing, and nothing is authorized.
LEMMA InitAuth == Init => AuthInv
<1> SUFFICES ASSUME Init PROVE AuthInv
  OBVIOUS
<1>1. Materialize(disk) = NoPeers
  BY MaterializeEmpty DEF Init
<1>2. NoPeers \in [Peer -> PeerRecord]
  BY DEF NoPeers, Unknown, PeerRecord
<1>3. \A p \in Peer : ~NoPeers[p].present
  BY DEF NoPeers, Unknown
<1>4. \A p \in Peer : \A protocol : ~Granted(disk, p, protocol)
  BY DEF Init, Granted
<1>5. GrantsMatch(disk)
  BY <1>1, <1>2, <1>3, <1>4 DEF GrantsMatch, verify_and_authorize, Active
<1>6. QED
  BY <1>5 DEF Init, AuthInv, Pending

\* With one writer at a time, a connection is authorized exactly when the
\* newest deciding entry of log.jsonl grants the protocol, after any history
\* of mutations, refusals, events, crashes and restarts.
THEOREM SingleWriterAuthorizes ==
    ASSUME Races = {}
    PROVE  Spec => []AuthorizedIffGranted
<1>1. (SingleInv /\ AuthInv) /\ [Next]_vars => (SingleInv /\ AuthInv)'
  BY NextKeepsSingle, NextKeepsAuth
<1>2. SingleInv /\ AuthInv => AuthorizedIffGranted
  <2> SUFFICES ASSUME SingleInv, AuthInv, up, \A t \in Thread : pc[t] = "idle"
               PROVE  \A p \in Peer : \A protocol \in UNION Perms :
                        verify_and_authorize(view, p, protocol) <=> Granted(disk, p, protocol)
    BY DEF AuthorizedIffGranted
  <2>1. view = Materialize(disk)
    BY DEF AuthInv, Pending
  <2> QED BY <2>1 DEF AuthInv, GrantsMatch
<1>3. QED
  BY InitSingle, InitAuth, <1>1, <1>2, PTL DEF Spec
=============================================================================
