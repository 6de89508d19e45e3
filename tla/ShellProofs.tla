----------------------------- MODULE ShellProofs -----------------------------
(***************************************************************************)
(* What holds of the remote shell for any number of peers, attempts and    *)
(* sessions.  The server's part and the client's part have an inductive    *)
(* invariant each; both rest on the types of the variables.                *)
(***************************************************************************)
EXTENDS Shell, FiniteSetTheorems, TLAPS

Serving == {"spawn", "primed", "running", "teardown", "reaping"}

\* The types, without the bounds of the two counters, which need the rest
Types ==
    /\ web \in [Attempt -> {"none", "waiting", "live", "gone"}]
    /\ cli \in [Attempt -> CliStates] /\ srv \in [Attempt -> SrvStates]
    /\ sem \in [Peer -> Nat] /\ sessions \subseteq Attempt
    /\ conn \in [Attempt -> {"none", "up", "down"}]
    /\ child \in [Attempt -> {"none", "alive", "dead"}]
    /\ teardowns \subseteq Attempt /\ counts \in [Peer -> Int]
    /\ granted \subseteq Peer /\ opened \subseteq Attempt /\ closed \subseteq Attempt
    /\ down \in {"up", "stopping", "down"}
    /\ faults \in 0..MaxFaults

\* A teardown event is registered exactly while _serve_shell runs
Registered == \A a \in Attempt : a \in teardowns <=> srv[a] \in Serving
\* bash runs only between its start and the wait in the teardown
ChildServed == \A a \in Attempt : child[a] = "alive" => srv[a] \in Serving \ {"spawn", "reaping"}
\* The count of a peer is the number of its registered sessions
CountsExact == \A p \in Peer : counts[p] = Cardinality(teardowns \cap Of(p))
Capped == Cardinality(teardowns) <= MaxSessions /\ \A p \in Peer : counts[p] <= MaxPerPeer
\* A session with a shell_close entry is over
Over == \A a \in closed : srv[a] = "closed"

ServerInv == Registered /\ ChildServed /\ CountsExact /\ Capped /\ Over

-----------------------------------------------------------------------------
(* Counting *)

LEMMA SubFinite == \A S : S \subseteq Attempt => IsFiniteSet(S) /\ Cardinality(S) \in Nat
BY ShellAssumption, FS_Subset, FS_CardinalityType

\* Adding an attempt to a set raises the number of its peer's, and no other.
LEMMA AddOne ==
    ASSUME NEW S \in SUBSET Attempt, NEW a \in Attempt, a \notin S, NEW p \in Peer
    PROVE  /\ Cardinality(S \cup {a}) = Cardinality(S) + 1
           /\ Cardinality((S \cup {a}) \cap Of(p)) =
                Cardinality(S \cap Of(p)) + (IF By[a] = p THEN 1 ELSE 0)
<1>1. IsFiniteSet(S) /\ IsFiniteSet(S \cap Of(p))
  BY SubFinite
<1>2. Cardinality(S \cup {a}) = Cardinality(S) + 1
  BY <1>1, FS_AddElement
<1>3. CASE By[a] = p
  <2>1. (S \cup {a}) \cap Of(p) = (S \cap Of(p)) \cup {a}
    BY <1>3 DEF Of
  <2>2. a \notin S \cap Of(p)
    OBVIOUS
  <2>3. Cardinality((S \cap Of(p)) \cup {a}) = Cardinality(S \cap Of(p)) + 1
    BY <1>1, <2>2, FS_AddElement
  <2>4. QED
    BY <1>2, <1>3, <2>1, <2>3
<1>4. CASE By[a] # p
  <2>1. (S \cup {a}) \cap Of(p) = S \cap Of(p)
    BY <1>4 DEF Of
  <2>2. Cardinality(S \cap Of(p)) \in Nat
    BY SubFinite
  <2>3. QED
    BY <1>2, <1>4, <2>1, <2>2
<1>5. QED
  BY <1>3, <1>4

\* Taking one away lowers it.
LEMMA RemoveOne ==
    ASSUME NEW S \in SUBSET Attempt, NEW a \in S, NEW p \in Peer
    PROVE  /\ Cardinality(S \ {a}) = Cardinality(S) - 1
           /\ Cardinality((S \ {a}) \cap Of(p)) =
                Cardinality(S \cap Of(p)) - (IF By[a] = p THEN 1 ELSE 0)
<1> DEFINE T == S \ {a}
<1>1. T \in SUBSET Attempt /\ a \notin T /\ a \in Attempt
  OBVIOUS
<1>2. T \cup {a} = S
  OBVIOUS
<1>3. Cardinality(T) \in Nat /\ Cardinality(T \cap Of(p)) \in Nat
  BY SubFinite
<1> HIDE DEF T
<1>4. /\ Cardinality(T \cup {a}) = Cardinality(T) + 1
      /\ Cardinality((T \cup {a}) \cap Of(p)) =
           Cardinality(T \cap Of(p)) + (IF By[a] = p THEN 1 ELSE 0)
  BY <1>1, AddOne
<1>5. /\ Cardinality(S) = Cardinality(T) + 1
      /\ Cardinality(S \cap Of(p)) =
           Cardinality(T \cap Of(p)) + (IF By[a] = p THEN 1 ELSE 0)
  BY <1>2, <1>4
<1>6. /\ Cardinality(T) = Cardinality(S) - 1
      /\ Cardinality(T \cap Of(p)) = Cardinality(S \cap Of(p)) - (IF By[a] = p THEN 1 ELSE 0)
  BY <1>3, <1>5
<1>7. QED
  BY <1>6 DEF T

-----------------------------------------------------------------------------
(* Types *)

LEMMA TypesInit == Init => Types
BY ShellAssumption DEF Init, Types, CliStates, SrvStates

LEMMA FaultTyped == faults \in 0..MaxFaults /\ Fault => faults' \in 0..MaxFaults
BY ShellAssumption DEF Fault

LEMMA TypesNext == Types /\ [Next]_vars => Types'
<1> SUFFICES ASSUME Types, [Next]_vars PROVE Types'
  OBVIOUS
<1> USE ShellAssumption
<1>1. ASSUME NEW a \in Attempt,
             \/ WebOpen(a) \/ WebResult(a) \/ WebGivesUp(a) \/ WebLeaves(a)
      PROVE  Types'
  BY <1>1 DEF Types, WebOpen, WebResult, WebGivesUp, WebLeaves, registry, audit, CliStates
<1>2. ASSUME NEW a \in Attempt,
             \/ OpenRaises(a) \/ Acquire(a) \/ Connect(a) \/ ClientStreams(a) \/ OpenFails(a)
             \/ ConnDrops(a) \/ AcloseEnd(a)
      PROVE  Types'
  BY <1>2 DEF Types, OpenRaises, Acquire, Connect, ClientStreams, OpenFails, ConnDrops, AcloseEnd,
              cvars, registry, audit, CliStates
<1>3. ASSUME NEW a \in Attempt, ClientShutdown(a) PROVE Types'
  BY <1>3, FaultTyped DEF Types, ClientShutdown, registry, audit, CliStates
<1>4. ASSUME NEW a \in Attempt,
             \/ Refuse(a) \/ Spawn(a) \/ Run(a) \/ ChildExits(a)
             \/ ServeFails(a) \/ Stop(a) \/ IdleStop(a) \/ Reap(a)
      PROVE  Types'
  BY <1>4 DEF Types, Refuse, Spawn, Run, ChildExits, ServeFails, Stop, IdleStop, Reap,
              cvars, registry, audit, SrvStates
<1>5. ASSUME NEW a \in Attempt, Accept(a) PROVE Types'
  BY <1>5, FaultTyped DEF Types, Accept, AppendEntry, cvars, SrvStates
<1>6. ASSUME NEW a \in Attempt, CloseSession(a) PROVE Types'
  BY <1>6, FaultTyped DEF Types, CloseSession, AppendEntry, cvars, SrvStates
<1>7. ASSUME NEW p \in Peer, SetPermission(p) PROVE Types'
  BY <1>7, FaultTyped DEF Types, SetPermission, cvars, registry, audit
<1>8. CASE ShutdownBegins
  BY <1>8, FaultTyped DEF Types, ShutdownBegins, cvars, registry, audit
<1>9. CASE ShutdownEnds
  BY <1>9 DEF Types, ShutdownEnds, cvars, audit, SrvStates
<1>10. CASE ServerStarts
  BY <1>10 DEF Types, ServerStarts, cvars, registry, audit
<1>11. CASE UNCHANGED vars
  BY <1>11 DEF Types, vars, cvars, registry, audit
<1>12. QED
  BY <1>1, <1>2, <1>3, <1>4, <1>5, <1>6, <1>7, <1>8, <1>9, <1>10, <1>11 DEF Next

-----------------------------------------------------------------------------
(* The server *)

LEMMA ServerInit == Init => ServerInv
<1> SUFFICES ASSUME Init PROVE ServerInv
  OBVIOUS
<1>1. Cardinality({}) = 0 /\ \A p \in Peer : {} \cap Of(p) = {}
  BY FS_EmptySet
<1>2. QED
  BY <1>1, ShellAssumption DEF Init, ServerInv, Registered, ChildServed, CountsExact, Capped,
     Over, Serving

\* Steps that leave the registry, srv, child and the log entries alone
LEMMA ServerIdle ==
    ASSUME ServerInv, UNCHANGED <<srv, child, registry, closed>>
    PROVE  ServerInv'
BY DEF ServerInv, Registered, ChildServed, CountsExact, Capped, Over, registry, Of

\* Steps that move one session within or outside of _serve_shell
LEMMA ServerMoves ==
    ASSUME Types, ServerInv, NEW a \in Attempt, UNCHANGED <<registry, closed>>,
           \/ Refuse(a) \/ Spawn(a) \/ Run(a) \/ ChildExits(a)
           \/ ServeFails(a) \/ Stop(a) \/ IdleStop(a) \/ Reap(a)
    PROVE  ServerInv'
<1>1. (CountsExact /\ Capped)'
  BY DEF ServerInv, CountsExact, Capped, registry, Of
<1>1a. Over'
  BY DEF ServerInv, Types, Over, Refuse, Spawn, Run, ChildExits, ServeFails, Stop, IdleStop, Reap
<1>2. Registered'
  BY DEF ServerInv, Types, Registered, Serving, registry, Refuse, Spawn, Run, ChildExits,
         ServeFails, Stop, IdleStop, Reap
<1>3. ChildServed'
  BY DEF ServerInv, Types, ChildServed, Serving, Refuse, Spawn, Run, ChildExits,
         ServeFails, Stop, IdleStop, Reap
<1>4. QED
  BY <1>1, <1>1a, <1>2, <1>3 DEF ServerInv

LEMMA ServerAccept ==
    ASSUME Types, ServerInv, NEW a \in Attempt, Accept(a)
    PROVE  ServerInv'
<1> USE ShellAssumption
<1>1. a \notin teardowns /\ teardowns' = teardowns \cup {a} /\ teardowns \in SUBSET Attempt
  BY DEF Accept, ServerInv, Registered, Serving, Types
<1>2. \A p \in Peer : Cardinality(teardowns' \cap Of(p)) =
                           Cardinality(teardowns \cap Of(p)) + (IF By[a] = p THEN 1 ELSE 0)
  BY <1>1, AddOne
<1>3. By[a] \in Peer /\ Cardinality(teardowns) \in Nat
  BY <1>1, SubFinite
<1>4. \A p \in Peer : counts[p] \in Int /\ counts'[p] = counts[p] + (IF By[a] = p THEN 1 ELSE 0)
  BY <1>3 DEF Accept, Types
<1>5. CountsExact'
  <2>1. SUFFICES ASSUME NEW p \in Peer PROVE counts'[p] = Cardinality(teardowns' \cap Of(p))
    BY DEF CountsExact, Of
  <2>2. counts[p] = Cardinality(teardowns \cap Of(p))
    BY DEF ServerInv, CountsExact
  <2>3. QED
    BY <1>2, <1>4, <2>2
<1>5a. Capped'
  <2>1. counts[By[a]] < MaxPerPeer /\ Cardinality(teardowns) < MaxSessions
    BY <1>3 DEF Accept, Refused, Types
  <2>2. \A p \in Peer : counts'[p] <= MaxPerPeer
    BY <1>4, <2>1, ShellAssumption DEF ServerInv, Capped
  <2>3. Cardinality(teardowns') = Cardinality(teardowns) + 1
    BY <1>1, SubFinite, FS_AddElement
  <2>4. Cardinality(teardowns') <= MaxSessions
    BY <1>3, <2>1, <2>3, ShellAssumption
  <2>5. QED
    BY <2>2, <2>4 DEF Capped
<1>6. Registered'
  BY DEF ServerInv, Registered, Serving, Accept, Types
<1>7. ChildServed'
  BY DEF ServerInv, ChildServed, Serving, Accept, Types
<1>8. Over'
  BY DEF ServerInv, Over, Accept, Types
<1>9. QED
  BY <1>5, <1>5a, <1>6, <1>7, <1>8 DEF ServerInv

LEMMA ServerClose ==
    ASSUME Types, ServerInv, NEW a \in Attempt, CloseSession(a)
    PROVE  ServerInv'
<1> USE ShellAssumption
<1>1. a \in teardowns /\ teardowns' = teardowns \ {a} /\ teardowns \in SUBSET Attempt
  BY DEF CloseSession, ServerInv, Registered, Serving, Types
<1>2. \A p \in Peer : Cardinality(teardowns' \cap Of(p)) =
                           Cardinality(teardowns \cap Of(p)) - (IF By[a] = p THEN 1 ELSE 0)
  BY <1>1, RemoveOne
<1>3. By[a] \in Peer /\ Cardinality(teardowns) \in Nat
  BY <1>1, SubFinite
<1>4. \A p \in Peer : counts[p] \in Int /\ counts'[p] = counts[p] - (IF By[a] = p THEN 1 ELSE 0)
  BY <1>3 DEF CloseSession, Types
<1>5. CountsExact'
  <2>1. SUFFICES ASSUME NEW p \in Peer PROVE counts'[p] = Cardinality(teardowns' \cap Of(p))
    BY DEF CountsExact, Of
  <2>2. counts[p] = Cardinality(teardowns \cap Of(p))
    BY DEF ServerInv, CountsExact
  <2>3. QED
    BY <1>2, <1>4, <2>2
<1>5a. Capped'
  <2>1. Cardinality(teardowns) - 1 < MaxSessions
    BY <1>3 DEF ServerInv, Capped
  <2>2. \A p \in Peer : counts'[p] <= MaxPerPeer
    BY <1>4, ShellAssumption DEF ServerInv, Capped
  <2>3. Cardinality(teardowns') = Cardinality(teardowns) - 1
    BY <1>1, SubFinite, FS_RemoveElement
  <2>4. Cardinality(teardowns') <= MaxSessions
    BY <1>3, <2>1, <2>3, ShellAssumption
  <2>5. QED
    BY <2>2, <2>4 DEF Capped
<1>6. Registered'
  BY DEF ServerInv, Registered, Serving, CloseSession, Types
<1>7. ChildServed'
  BY DEF ServerInv, ChildServed, Serving, CloseSession, Types
<1>8. Over'
  BY DEF ServerInv, Over, CloseSession, Types
<1>9. QED
  BY <1>5, <1>5a, <1>6, <1>7, <1>8 DEF ServerInv

LEMMA ServerShutdown == Types /\ ServerInv /\ ShutdownEnds => ServerInv'
<1> SUFFICES ASSUME Types, ServerInv, ShutdownEnds PROVE ServerInv'
  OBVIOUS
<1>1. Cardinality({}) = 0 /\ \A p \in Peer : {} \cap Of(p) = {}
  BY FS_EmptySet
<1>2. (CountsExact /\ Capped)'
  BY <1>1, ShellAssumption DEF CountsExact, Capped, ShutdownEnds, Of
<1>2a. Over'
  BY DEF ServerInv, Types, Over, ShutdownEnds, audit
<1>3. Registered'
  BY DEF Types, Registered, Serving, ShutdownEnds, SrvStates
<1>4. ChildServed'
  BY DEF Types, ChildServed, ShutdownEnds
<1>5. QED
  BY <1>2, <1>2a, <1>3, <1>4 DEF ServerInv

LEMMA ServerNext == Types /\ ServerInv /\ [Next]_vars => ServerInv'
<1> SUFFICES ASSUME Types, ServerInv, [Next]_vars PROVE ServerInv'
  OBVIOUS
<1>1. ASSUME NEW a \in Attempt,
             \/ WebOpen(a) \/ WebResult(a) \/ WebGivesUp(a) \/ WebLeaves(a)
             \/ OpenRaises(a) \/ Acquire(a) \/ Connect(a) \/ ClientStreams(a) \/ OpenFails(a) \/ ConnDrops(a)
             \/ ClientShutdown(a) \/ AcloseEnd(a)
      PROVE  ServerInv'
  BY <1>1, ServerIdle DEF WebOpen, WebResult, WebGivesUp, WebLeaves, OpenRaises, Acquire, Connect,
     ClientStreams, OpenFails, ConnDrops, ClientShutdown, AcloseEnd, audit
<1>2. ASSUME NEW a \in Attempt,
             \/ Refuse(a) \/ Spawn(a) \/ Run(a) \/ ChildExits(a)
             \/ ServeFails(a) \/ Stop(a) \/ IdleStop(a) \/ Reap(a)
      PROVE  ServerInv'
  <2>1. UNCHANGED <<registry, closed>>
    BY <1>2 DEF Refuse, Spawn, Run, ChildExits, ServeFails, Stop, IdleStop, Reap, audit
  <2>2. QED
    BY <1>2, <2>1, ServerMoves
<1>3. ASSUME NEW a \in Attempt, Accept(a) \/ CloseSession(a) PROVE ServerInv'
  BY <1>3, ServerAccept, ServerClose
<1>4. ASSUME NEW p \in Peer, SetPermission(p) PROVE ServerInv'
  BY <1>4, ServerIdle DEF SetPermission, audit
<1>5. CASE ShutdownBegins \/ ServerStarts \/ UNCHANGED vars
  BY <1>5, ServerIdle DEF ShutdownBegins, ServerStarts, vars, audit
<1>6. CASE ShutdownEnds
  BY <1>6, ServerShutdown
<1>7. QED
  BY <1>1, <1>2, <1>3, <1>4, <1>5, <1>6 DEF Next

-----------------------------------------------------------------------------
(* The clients *)

\* An attempt that no dashboard has begun is nowhere in the engine
Fresh == \A a \in Attempt : web[a] = "none" => cli[a] = "none"

LEMMA FreshInit == Init => Fresh
BY DEF Init, Fresh

LEMMA FreshNext == Types /\ Fresh /\ [Next]_vars => Fresh'
<1> SUFFICES ASSUME Types, Fresh, [Next]_vars PROVE Fresh'
  OBVIOUS
<1>1. ASSUME NEW a \in Attempt,
             \/ WebOpen(a) \/ WebResult(a) \/ WebGivesUp(a) \/ WebLeaves(a)
             \/ OpenRaises(a) \/ Acquire(a) \/ Connect(a) \/ ClientStreams(a) \/ OpenFails(a) \/ ConnDrops(a)
             \/ ClientShutdown(a) \/ AcloseEnd(a)
      PROVE  Fresh'
  BY <1>1 DEF Fresh, Types, WebOpen, WebResult, WebGivesUp, WebLeaves, OpenRaises, Acquire, Connect,
     ClientStreams, OpenFails, ConnDrops, ClientShutdown, AcloseEnd, cvars
<1>2. ASSUME NEW a \in Attempt,
             \/ Refuse(a) \/ Accept(a) \/ Spawn(a) \/ Run(a) \/ ChildExits(a)
             \/ ServeFails(a) \/ Stop(a) \/ IdleStop(a) \/ Reap(a) \/ CloseSession(a)
      PROVE  Fresh'
  BY <1>2 DEF Fresh, Refuse, Accept, Spawn, Run, ChildExits, ServeFails, Stop, IdleStop, Reap,
     CloseSession, cvars
<1>3. ASSUME NEW p \in Peer, SetPermission(p) PROVE Fresh'
  BY <1>3 DEF Fresh, SetPermission, cvars
<1>4. CASE ShutdownBegins \/ ShutdownEnds \/ ServerStarts \/ UNCHANGED vars
  BY <1>4 DEF Fresh, ShutdownBegins, ShutdownEnds, ServerStarts, vars, cvars
<1>5. QED
  BY <1>1, <1>2, <1>3, <1>4 DEF Next

LEMMA PermitsInit == Init => PermitsConserved
<1> SUFFICES ASSUME Init PROVE PermitsConserved
  OBVIOUS
<1>1. Holding = {} /\ \A p \in Peer : {} \cap Of(p) = {}
  BY DEF Init, Holding
<1>2. QED
  BY <1>1, FS_EmptySet, ShellAssumption DEF Init, PermitsConserved

\* A step that moves no attempt into or out of Holding
LEMMA PermitsIdle ==
    ASSUME PermitsConserved, sem' = sem, Holding' = Holding
    PROVE  PermitsConserved'
BY DEF PermitsConserved, Of

LEMMA PermitTaken ==
    ASSUME Types, PermitsConserved, NEW a \in Attempt, Acquire(a)
    PROVE  PermitsConserved'
<1> USE ShellAssumption
<1>1. a \notin Holding /\ Holding' = Holding \cup {a} /\ Holding \in SUBSET Attempt
  BY DEF Acquire, Holding, Types
<1>2. SUFFICES ASSUME NEW p \in Peer
               PROVE  sem'[p] + Cardinality(Holding' \cap Of(p)) = MaxSessions
  BY DEF PermitsConserved, Of
<1>3. Cardinality(Holding' \cap Of(p)) =
        Cardinality(Holding \cap Of(p)) + (IF By[a] = p THEN 1 ELSE 0)
  BY <1>1, AddOne
<1>4. sem[p] + Cardinality(Holding \cap Of(p)) = MaxSessions /\ sem[p] \in Nat
  BY DEF PermitsConserved, Types
<1>5. sem'[p] = sem[p] - (IF By[a] = p THEN 1 ELSE 0)
  BY DEF Acquire, Types
<1>6. Cardinality(Holding \cap Of(p)) \in Nat
  BY <1>1, SubFinite
<1>7. QED
  BY <1>3, <1>4, <1>5, <1>6

LEMMA PermitGiven ==
    ASSUME Types, PermitsConserved, NEW a \in Attempt, OpenFails(a) \/ AcloseEnd(a)
    PROVE  PermitsConserved'
<1> USE ShellAssumption
<1>1. a \in Holding /\ Holding' = Holding \ {a} /\ Holding \in SUBSET Attempt
  BY DEF OpenFails, AcloseEnd, Holding, Types
<1>2. SUFFICES ASSUME NEW p \in Peer
               PROVE  sem'[p] + Cardinality(Holding' \cap Of(p)) = MaxSessions
  BY DEF PermitsConserved, Of
<1>3. Cardinality(Holding' \cap Of(p)) =
        Cardinality(Holding \cap Of(p)) - (IF By[a] = p THEN 1 ELSE 0)
  BY <1>1, RemoveOne
<1>4. sem[p] + Cardinality(Holding \cap Of(p)) = MaxSessions /\ sem[p] \in Nat
  BY DEF PermitsConserved, Types
<1>5. sem'[p] = sem[p] + (IF By[a] = p THEN 1 ELSE 0)
  BY DEF OpenFails, AcloseEnd, Types
<1>6. Cardinality(Holding \cap Of(p)) \in Nat
  BY <1>1, SubFinite
<1>7. QED
  BY <1>3, <1>4, <1>5, <1>6

LEMMA PermitsNext == Types /\ Fresh /\ PermitsConserved /\ [Next]_vars => PermitsConserved'
<1> SUFFICES ASSUME Types, Fresh, PermitsConserved, [Next]_vars PROVE PermitsConserved'
  OBVIOUS
<1>1. ASSUME NEW a \in Attempt,
             WebOpen(a) \/ OpenRaises(a) \/ ClientStreams(a) \/ WebLeaves(a) \/ ClientShutdown(a)
      PROVE  PermitsConserved'
  <2>1. Holding' = Holding
    BY <1>1 DEF WebOpen, OpenRaises, ClientStreams, WebLeaves, ClientShutdown, Holding, Types, Fresh
  <2>2. sem' = sem
    BY <1>1 DEF WebOpen, OpenRaises, ClientStreams, WebLeaves, ClientShutdown
  <2>3. QED
    BY <2>1, <2>2, PermitsIdle
<1>2. ASSUME NEW a \in Attempt, Acquire(a) \/ OpenFails(a) \/ AcloseEnd(a)
      PROVE  PermitsConserved'
  BY <1>2, PermitTaken, PermitGiven
<1>3. ASSUME NEW a \in Attempt,
             \/ WebResult(a) \/ WebGivesUp(a) \/ Connect(a) \/ ConnDrops(a)
             \/ Refuse(a) \/ Accept(a) \/ Spawn(a) \/ Run(a) \/ ChildExits(a)
             \/ ServeFails(a) \/ Stop(a) \/ IdleStop(a) \/ Reap(a) \/ CloseSession(a)
      PROVE  PermitsConserved'
  <2>1. UNCHANGED <<cli, sem>>
    BY <1>3 DEF WebResult, WebGivesUp, Connect, ConnDrops, Refuse, Accept, Spawn, Run,
       ChildExits, ServeFails, Stop, IdleStop, Reap, CloseSession, cvars
  <2>2. QED
    BY <2>1, PermitsIdle DEF Holding
<1>4. ASSUME NEW p \in Peer, SetPermission(p) PROVE PermitsConserved'
  BY <1>4, PermitsIdle DEF SetPermission, cvars, Holding
<1>5. CASE ShutdownBegins \/ ShutdownEnds \/ ServerStarts \/ UNCHANGED vars
  BY <1>5, PermitsIdle DEF ShutdownBegins, ShutdownEnds, ServerStarts, vars, cvars, Holding
<1>6. QED
  BY <1>1, <1>2, <1>3, <1>4, <1>5 DEF Next

-----------------------------------------------------------------------------
(* The theorems *)

IInv == Types /\ ServerInv /\ Fresh /\ PermitsConserved

LEMMA Inductive == Spec => []IInv
<1>1. Init => IInv
  BY TypesInit, ServerInit, FreshInit, PermitsInit DEF IInv
<1>2. IInv /\ [Next]_vars => IInv'
  BY TypesNext, ServerNext, FreshNext, PermitsNext DEF IInv
<1>3. QED
  BY <1>1, <1>2, PTL DEF Spec

LEMMA CapsFollow == IInv => ChildrenCapped
<1> SUFFICES ASSUME IInv PROVE ChildrenCapped
  OBVIOUS
<1> USE ShellAssumption
<1>1. Alive \subseteq teardowns /\ teardowns \subseteq Attempt
  BY DEF IInv, ServerInv, Registered, ChildServed, Serving, Alive, Types
<1>2. IsFiniteSet(teardowns) /\ Cardinality(teardowns) \in Nat /\ Cardinality(Alive) \in Nat
  BY <1>1, SubFinite
<1>3. Cardinality(Alive) <= MaxSessions
  <2>1. Cardinality(Alive) <= Cardinality(teardowns)
    BY <1>1, <1>2, FS_Subset
  <2>2. QED
    BY <1>2, <2>1 DEF IInv, ServerInv, Capped
<1>4. ASSUME NEW p \in Peer PROVE Cardinality(Alive \cap Of(p)) <= MaxPerPeer
  <2>1. /\ Alive \cap Of(p) \subseteq teardowns \cap Of(p)
        /\ IsFiniteSet(teardowns \cap Of(p))
        /\ Cardinality(teardowns \cap Of(p)) \in Nat /\ Cardinality(Alive \cap Of(p)) \in Nat
    BY <1>1, SubFinite
  <2>2. Cardinality(Alive \cap Of(p)) <= Cardinality(teardowns \cap Of(p))
    BY <2>1, FS_Subset
  <2>3. Cardinality(teardowns \cap Of(p)) <= MaxPerPeer
    BY DEF IInv, ServerInv, Capped, CountsExact
  <2>4. QED
    BY <2>1, <2>2, <2>3
<1>5. QED
  BY <1>3, <1>4 DEF ChildrenCapped

LEMMA TypesFollow == IInv => TypeOK
<1> SUFFICES ASSUME IInv PROVE TypeOK
  OBVIOUS
<1> USE ShellAssumption
<1>1. Holding \subseteq Attempt /\ teardowns \subseteq Attempt
  BY DEF Holding, IInv, Types
<1>2. ASSUME NEW p \in Peer PROVE sem[p] \in 0..MaxSessions /\ counts[p] \in 0..MaxPerPeer
  <2>1. Cardinality(Holding \cap Of(p)) \in Nat /\ Cardinality(teardowns \cap Of(p)) \in Nat
    BY <1>1, SubFinite
  <2>2. sem[p] + Cardinality(Holding \cap Of(p)) = MaxSessions /\ sem[p] \in Nat
    BY DEF IInv, PermitsConserved, Types
  <2>3. counts[p] = Cardinality(teardowns \cap Of(p)) /\ counts[p] <= MaxPerPeer
    BY DEF IInv, ServerInv, CountsExact, Capped
  <2>4. QED
    BY <2>1, <2>2, <2>3
<1>3. sem \in [Peer -> 0..MaxSessions] /\ counts \in [Peer -> 0..MaxPerPeer]
  BY <1>2 DEF IInv, Types
<1>4. QED
  BY <1>3 DEF IInv, Types, TypeOK

\* Types, with the semaphore and the counts of the peers inside their limits:
\* no release exceeds what was acquired, no count goes below zero.
THEOREM TypeCorrect == Spec => []TypeOK
<1>1. QED
  BY Inductive, TypesFollow, PTL

\* The caps of the shell service bound the bash processes themselves, those
\* still being killed included (SHELL_MAX_SESSIONS and SHELL_MAX_PER_PEER in
\* _serve_shell), for any number of peers and attempts.
THEOREM ShellsCapped == Spec => []ChildrenCapped
<1>1. QED
  BY Inductive, CapsFollow, PTL

\* No way out of open_peer_shell or _aclose loses or invents a permit.
THEOREM PermitsKept == Spec => []PermitsConserved
<1>1. IInv => PermitsConserved
  BY DEF IInv
<1>2. QED
  BY <1>1, Inductive, PTL

\* A shell_close entry of the trust log is true when it is written and stays so:
\* the bash is gone and its place is free, however the session ended.
THEOREM CloseRecordsTrue == Spec => []ClosedMeansGone
<1>1. IInv => ClosedMeansGone
  BY DEF IInv, Types, ServerInv, Registered, ChildServed, Over, Serving, ClosedMeansGone
<1>2. QED
  BY <1>1, Inductive, PTL

-----------------------------------------------------------------------------
(* The refinement of ShellService *)

\* No process exists before Spawn
Unborn == \A a \in Attempt : srv[a] \in {"none", "refused", "spawn"} => child[a] = "none"

LEMMA UnbornNext == Types /\ Unborn /\ [Next]_vars => Unborn'
<1> SUFFICES ASSUME Types, Unborn, [Next]_vars PROVE Unborn'
  OBVIOUS
<1>1. ASSUME UNCHANGED <<srv, child>> PROVE Unborn'
  BY <1>1 DEF Unborn
<1>2. ASSUME NEW a \in Attempt,
             \/ Refuse(a) \/ Accept(a) \/ Spawn(a) \/ Run(a) \/ ChildExits(a) \/ ServeFails(a)
             \/ Stop(a) \/ IdleStop(a) \/ Reap(a) \/ CloseSession(a)
      PROVE  Unborn'
  BY <1>2 DEF Types, Unborn, Refuse, Accept, Spawn, Run, ChildExits, ServeFails, Stop, IdleStop,
              Reap, CloseSession
<1>3. CASE ShutdownEnds
  BY <1>3 DEF Types, Unborn, ShutdownEnds
<1>4. ASSUME NEW a \in Attempt,
             \/ WebOpen(a) \/ WebResult(a) \/ WebGivesUp(a) \/ WebLeaves(a) \/ OpenRaises(a)
             \/ Acquire(a)
             \/ Connect(a) \/ ClientStreams(a) \/ OpenFails(a) \/ ConnDrops(a)
             \/ ClientShutdown(a) \/ AcloseEnd(a)
      PROVE  UNCHANGED <<srv, child>>
  BY <1>4 DEF WebOpen, WebResult, WebGivesUp, WebLeaves, OpenRaises, Acquire, Connect, ClientStreams,
              OpenFails, ConnDrops, ClientShutdown, AcloseEnd
<1>5. ASSUME \/ \E p \in Peer : SetPermission(p)
             \/ ShutdownBegins \/ ServerStarts \/ UNCHANGED vars
      PROVE  UNCHANGED <<srv, child>>
  BY <1>5 DEF SetPermission, ShutdownBegins, ServerStarts, vars
<1>6. QED
  BY <1>1, <1>2, <1>3, <1>4, <1>5 DEF Next

LEMMA SameCardinality == \A S : Service!Cardinality(S) = Cardinality(S)
BY DEF Service!Cardinality, Cardinality

\* The attempts that the abstract service counts are the registered ones.
LEMMA InIsRegistered ==
    ASSUME IInv
    PROVE  /\ Service!In = teardowns
           /\ \A p : {b \in Service!In : By[b] = p} = teardowns \cap Of(p)
<1>1. \A a \in Attempt : Phase[a] \in {"admitted", "running", "ended"} <=> a \in teardowns
  BY DEF IInv, ServerInv, Registered, ChildServed, Serving, Types, SrvStates, Phase, PhaseOf
<1>2. Service!In = teardowns
  BY <1>1 DEF Service!In, IInv, Types
<1>3. QED
  BY <1>2 DEF Of, IInv, Types

\* A step that leaves srv and child alone is a stutter of the service.
LEMMA PhaseKept == UNCHANGED <<srv, child>> => UNCHANGED Phase
BY DEF Phase

\* A step that touches one attempt moves the service at that attempt.
LEMMA PhaseMoved ==
    ASSUME NEW a \in Attempt, \A b \in Attempt \ {a} : srv'[b] = srv[b] /\ child'[b] = child[b]
    PROVE  Phase' = [Phase EXCEPT ![a] = PhaseOf(srv'[a], child'[a])]
<1>1. Phase' = [b \in Attempt |-> PhaseOf(srv'[b], child'[b])]
  BY DEF Phase
<1>2. \A b \in Attempt \ {a} : PhaseOf(srv'[b], child'[b]) = Phase[b]
  BY DEF Phase
<1>3. Phase = [b \in Attempt |-> Phase[b]]
  BY DEF Phase
<1>4. QED
  BY <1>1, <1>2, <1>3

LEMMA AcceptAdmits ==
    ASSUME IInv, Unborn, NEW a \in Attempt, Accept(a) PROVE Service!Admit(a)
<1> USE ShellAssumption
<1>1. Phase[a] = "new"
  BY DEF Accept, Phase, PhaseOf, Unborn
<1>2. Phase' = [Phase EXCEPT ![a] = "admitted"]
  <2>1. srv' = [srv EXCEPT ![a] = "spawn"] /\ child' = child /\ child[a] = "none"
    BY DEF Accept, Unborn
  <2>2. srv \in [Attempt -> SrvStates]
    BY DEF IInv, Types
  <2>3. PhaseOf(srv'[a], child'[a]) = "admitted"
    BY <2>1, <2>2 DEF PhaseOf
  <2>4. QED
    BY <2>1, <2>2, <2>3, PhaseMoved
<1>3. Cardinality(teardowns) < MaxSessions
  <2>1. Cardinality(teardowns) \in Nat
    BY SubFinite DEF IInv, Types
  <2>2. QED
    BY <2>1 DEF Accept, Refused
<1>4. Cardinality(teardowns \cap Of(By[a])) < MaxPerPeer
  <2>1. By[a] \in Peer
    OBVIOUS
  <2>2. counts[By[a]] \in Int /\ counts[By[a]] = Cardinality(teardowns \cap Of(By[a]))
    BY <2>1 DEF IInv, Types, ServerInv, CountsExact
  <2>3. QED
    BY <2>2 DEF Accept, Refused
<1>5. QED
  BY <1>1, <1>2, <1>3, <1>4, InIsRegistered, SameCardinality DEF Service!Admit

LEMMA ServiceStep == IInv /\ Unborn /\ [Next]_vars => [Service!Next]_Phase
<1> SUFFICES ASSUME IInv, Unborn, [Next]_vars PROVE [Service!Next]_Phase
  OBVIOUS
<1> USE DEF IInv, Types
<1>1. ASSUME UNCHANGED <<srv, child>> PROVE UNCHANGED Phase
  BY <1>1, PhaseKept
<1>2. ASSUME NEW a \in Attempt, Accept(a) PROVE Service!Next
  BY <1>2, AcceptAdmits DEF Service!Next
<1>3. ASSUME NEW a \in Attempt, Spawn(a) PROVE Service!Next
  <2>1. Phase' = [Phase EXCEPT ![a] = PhaseOf("primed", "alive")]
    BY <1>3, PhaseMoved DEF Spawn
  <2>2. Phase[a] = "admitted"
    BY <1>3 DEF Spawn, Unborn, Phase, PhaseOf
  <2>3. QED
    BY <2>1, <2>2 DEF Service!Start, Service!Next, PhaseOf
<1>4. ASSUME NEW a \in Attempt, ChildExits(a) PROVE Service!Next
  <2>1. srv[a] \in Serving
    BY <1>4 DEF ChildExits, ServerInv, ChildServed
  <2>2. Phase' = [Phase EXCEPT ![a] = PhaseOf(srv[a], "dead")]
    BY <1>4, PhaseMoved DEF ChildExits
  <2>3. Phase[a] = "running" /\ PhaseOf(srv[a], "dead") = "ended"
    BY <1>4, <2>1 DEF ChildExits, Serving, Phase, PhaseOf
  <2>4. QED
    BY <2>2, <2>3 DEF Service!End, Service!Next
<1>5. ASSUME NEW a \in Attempt, Reap(a) PROVE [Service!Next]_Phase
  <2>1. CASE child[a] = "alive"
    <3>1. Phase' = [Phase EXCEPT ![a] = PhaseOf("reaping", "dead")]
      BY <1>5, <2>1, PhaseMoved DEF Reap
    <3>2. Phase[a] = "running"
      BY <1>5, <2>1 DEF Phase, PhaseOf
    <3>3. QED
      BY <3>1, <3>2 DEF Service!End, Service!Next, PhaseOf
  <2>2. CASE child[a] # "alive"
    BY <1>5, <2>2 DEF Reap, Phase, PhaseOf
  <2>3. QED
    BY <2>1, <2>2
<1>6. ASSUME NEW a \in Attempt, CloseSession(a) PROVE Service!Next
  <2>1. child[a] # "alive"
    BY <1>6 DEF CloseSession, ServerInv, ChildServed, Serving
  <2>2. Phase' = [Phase EXCEPT ![a] = PhaseOf("closed", child[a])]
    BY <1>6, PhaseMoved DEF CloseSession
  <2>3. Phase[a] \in {"admitted", "ended"} /\ PhaseOf("closed", child[a]) = "closed"
    BY <1>6, <2>1 DEF CloseSession, Phase, PhaseOf
  <2>4. QED
    BY <2>2, <2>3 DEF Service!Close, Service!Next
<1>7. ASSUME NEW a \in Attempt,
             Refuse(a) \/ Run(a) \/ ServeFails(a) \/ Stop(a) \/ IdleStop(a)
      PROVE  UNCHANGED Phase
  BY <1>7 DEF Refuse, Run, ServeFails, Stop, IdleStop, Phase, PhaseOf
<1>8. CASE ShutdownEnds
  <2>1. \A a \in Attempt : child[a] = "alive" => srv[a] \notin {"none", "refused"}
    BY DEF ServerInv, ChildServed, Serving
  <2>2. Service!StopNode
    BY <1>8, <2>1 DEF ShutdownEnds, Phase, PhaseOf, Service!StopNode
  <2>3. QED
    BY <2>2 DEF Service!Next
<1>9. ASSUME NEW a \in Attempt,
             \/ WebOpen(a) \/ WebResult(a) \/ WebGivesUp(a) \/ WebLeaves(a) \/ OpenRaises(a)
             \/ Acquire(a)
             \/ Connect(a) \/ ClientStreams(a) \/ OpenFails(a) \/ ConnDrops(a)
             \/ ClientShutdown(a) \/ AcloseEnd(a)
      PROVE  UNCHANGED <<srv, child>>
  BY <1>9 DEF WebOpen, WebResult, WebGivesUp, WebLeaves, OpenRaises, Acquire, Connect, ClientStreams,
              OpenFails, ConnDrops, ClientShutdown, AcloseEnd
<1>10. ASSUME \/ \E p \in Peer : SetPermission(p)
              \/ ShutdownBegins \/ ServerStarts \/ UNCHANGED vars
       PROVE  UNCHANGED <<srv, child>>
  BY <1>10 DEF SetPermission, ShutdownBegins, ServerStarts, vars
<1>11. QED
  BY <1>1, <1>2, <1>3, <1>4, <1>5, <1>6, <1>7, <1>8, <1>9, <1>10 DEF Next

\* The shell server of the code, with any number of peers and attempts, is an
\* implementation of ShellService: its registry, its teardown and its shutdown
\* never free a place in the caps whose bash still runs.
THEOREM Refinement == Spec => ImplementsService
<1>1. Init => Service!Init /\ Unborn
  BY DEF Init, Phase, PhaseOf, Service!Init, Unborn
<1>2. IInv /\ Unborn /\ [Next]_vars => Unborn'
  BY UnbornNext DEF IInv
<1>3. Spec => []Unborn
  BY <1>1, <1>2, Inductive, PTL DEF Spec
<1>4. QED
  BY <1>1, <1>3, Inductive, ServiceStep, PTL DEF Spec, ImplementsService, Service!Spec
=============================================================================
