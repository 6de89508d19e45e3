-------------------------- MODULE IrohRefreshProofs --------------------------
(***************************************************************************)
(* The safety of the node refresh, for any number of peers and of rebuild  *)
(* tasks, and any threshold and cooldown.                                  *)
(***************************************************************************)
EXTENDS IrohRefresh, TLAPS

\* TypeOK without the lock, and the lock
Numbers == /\ node \in {"up", "down"} /\ age \in 0..Cooldown
           /\ alive \subseteq Peer /\ pulling \subseteq Peer
           /\ fails \in [Peer -> 0..Threshold] /\ spawned \in Nat /\ waiting \in Nat
           /\ since \in 0..Cooldown

LockBoolean == holder \in BOOLEAN

LEMMA Parts == TypeOK <=> Numbers /\ LockBoolean
BY Zenon DEF TypeOK, Numbers, LockBoolean

LEMMA LockTyped == LockBoolean /\ [Next]_vars => LockBoolean'
BY Zenon DEF LockBoolean, Next, vars, Tick, StartPulls, CheckCooldown, TakeLock, BuildSucceeds, BuildFails,
             ChangeStatus, PullSucceeds, PullFails

LEMMA NumbersNext == Numbers /\ [Next]_vars => Numbers'
<1> SUFFICES ASSUME Numbers, [Next]_vars PROVE Numbers'
  OBVIOUS
<1> USE RefreshAssumption DEF Numbers
<1>1. CASE Tick
  BY <1>1 DEF Tick
<1>2. CASE StartPulls
  BY <1>2 DEF StartPulls
<1>3. CASE CheckCooldown
  BY <1>3 DEF CheckCooldown
<1>4. CASE TakeLock
  BY <1>4 DEF TakeLock
<1>5. CASE BuildSucceeds
  BY <1>5 DEF BuildSucceeds
<1>6. CASE BuildFails
  BY <1>6 DEF BuildFails
<1>7. ASSUME NEW p \in Peer, ChangeStatus(p) PROVE Numbers'
  BY <1>7 DEF ChangeStatus
<1>8. ASSUME NEW p \in Peer, PullSucceeds(p) PROVE Numbers'
  BY <1>8 DEF PullSucceeds
<1>9. ASSUME NEW p \in Peer, PullFails(p) PROVE Numbers'
  <2>1. fails' \in [Peer -> 0..Threshold]
    BY <1>9 DEF PullFails
  <2>2. spawned' \in Nat
    BY <1>9 DEF PullFails
  <2>3. QED
    BY <1>9, <2>1, <2>2 DEF PullFails
<1>10. CASE UNCHANGED vars
  BY <1>10 DEF vars
<1>11. QED
  BY <1>1, <1>2, <1>3, <1>4, <1>5, <1>6, <1>7, <1>8, <1>9, <1>10 DEF Next

\* The counters stay within their limits; no task is taken from an empty queue.
THEOREM TypeCorrect == Spec => []TypeOK
<1>1. Init => Numbers
  BY RefreshAssumption DEF Init, Numbers
<1>2. Init => LockBoolean
  BY Zenon DEF Init, LockBoolean
<1>3. QED
  BY <1>1, <1>2, NumbersNext, LockTyped, Parts, PTL DEF Spec

\* Once a teardown has ended in a rebuild or in its failure, the stamp the
\* cooldown is measured from is younger than the teardown
Stamped == holder \/ age <= since

LEMMA StampedNext == TypeOK /\ Stamped /\ [Next]_vars => Stamped'
<1> SUFFICES ASSUME TypeOK, Stamped, [Next]_vars PROVE Stamped'
  OBVIOUS
<1>1. age \in 0..Cooldown /\ since \in 0..Cooldown
  BY Zenon DEF TypeOK
<1>2. CASE Tick
  <2>1. CASE holder
    BY <1>2, <2>1, Zenon DEF Tick, Stamped
  <2>2. CASE age <= since
    <3>1. age' <= since'
      BY <1>1, <1>2, <2>2, RefreshAssumption DEF Tick
    <3>2. QED
      BY <3>1 DEF Stamped
  <2>3. QED
    BY <2>1, <2>2, Zenon DEF Stamped
<1>3. CASE TakeLock
  BY <1>3, Zenon DEF TakeLock, Stamped
<1>4. CASE BuildSucceeds \/ BuildFails
  <2>1. age' = 0 /\ since' = since
    BY <1>4, Zenon DEF BuildSucceeds, BuildFails
  <2>2. age' <= since'
    BY <1>1, <2>1
  <2>3. QED
    BY <2>2, Zenon DEF Stamped
<1>5. CASE UNCHANGED <<age, since, holder>>
  BY <1>5, Zenon DEF Stamped
<1>6. QED
  BY <1>2, <1>3, <1>4, <1>5, Zenon DEF Next, vars, StartPulls, CheckCooldown, ChangeStatus, PullSucceeds,
     PullFails

\* Tasks that queued at _iroh_rebuild_lock before the last rebuild ended or
\* failed find the cooldown running once they hold it, because both ends are
\* stamped: no teardown begins within a cooldown of the one before.
THEOREM Spaced == Spec => TeardownsSpaced
<1>1. Init => Stamped
  BY RefreshAssumption DEF Init, Stamped
<1>2. TypeOK /\ Stamped /\ [Next]_vars => [(~holder /\ holder') => since = Cooldown]_vars
  <2> SUFFICES ASSUME TypeOK, Stamped, Next, ~holder, holder' PROVE since = Cooldown
    OBVIOUS
  <2>1. TakeLock
    BY Zenon DEF Next, Tick, StartPulls, CheckCooldown, BuildSucceeds, BuildFails, ChangeStatus,
                 PullSucceeds, PullFails, TypeOK
  <2>2. ~(age < Cooldown)
    BY <2>1, Zenon DEF TakeLock
  <2>3. age <= since
    BY Zenon DEF Stamped
  <2>4. age \in 0..Cooldown /\ since \in 0..Cooldown
    BY Zenon DEF TypeOK
  <2>5. QED
    BY <2>2, <2>3, <2>4, RefreshAssumption
<1>3. QED
  BY <1>1, <1>2, StampedNext, TypeCorrect, PTL DEF Spec, TeardownsSpaced
=============================================================================
