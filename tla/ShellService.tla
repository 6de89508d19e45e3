---------------------------- MODULE ShellService ----------------------------
(***************************************************************************)
(* What a node that serves remote shells promises, whatever connections,   *)
(* clients and timeouts do: an attempt is let in only below both caps, and *)
(* counts against them until its process is gone; it gets one process, and *)
(* is never let in again.  Shell implements this specification.            *)
(***************************************************************************)
EXTENDS Integers, FiniteSets

CONSTANTS Attempt, By, MaxSessions, MaxPerPeer

VARIABLE phase  \* of each attempt

In == {a \in Attempt : phase[a] \in {"admitted", "running", "ended"}}

Init == phase = [a \in Attempt |-> "new"]

Admit(a) == /\ phase[a] = "new" /\ phase' = [phase EXCEPT ![a] = "admitted"]
            /\ Cardinality(In) < MaxSessions
            /\ Cardinality({b \in In : By[b] = By[a]}) < MaxPerPeer

Start(a) == phase[a] = "admitted" /\ phase' = [phase EXCEPT ![a] = "running"]

End(a) == phase[a] = "running" /\ phase' = [phase EXCEPT ![a] = "ended"]

\* The attempt leaves the caps, which it may not do while its process runs
Close(a) == phase[a] \in {"admitted", "ended"} /\ phase' = [phase EXCEPT ![a] = "closed"]

\* The node goes down, and every process with it
StopNode == phase' = [a \in Attempt |-> IF phase[a] = "new" THEN "new" ELSE "closed"]

Next == StopNode \/ \E a \in Attempt : Admit(a) \/ Start(a) \/ End(a) \/ Close(a)

Spec == Init /\ [][Next]_phase
=============================================================================
