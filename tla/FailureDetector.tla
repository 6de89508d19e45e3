-------------------------- MODULE FailureDetector --------------------------
(***************************************************************************)
(* What the monitor promises about each peer, whatever probes, pushes,     *)
(* webhooks, maintenance windows, restarts and failing writes do: a        *)
(* verdict that turns exactly when enough results in a row contradict it,  *)
(* and a log that says nothing but that a verdict has turned.  Nothing     *)
(* condemns a peer that has not been seen alive.  PeerMonitor implements   *)
(* this specification as long as nothing reloads its device table.         *)
(***************************************************************************)
EXTENDS Integers, Sequences

CONSTANTS Peer, DownAfter, UpAfter

VARIABLES
    verdict,  \* on each peer
    against,  \* how many results in a row contradict it
    run,      \* the run of equal results that ends the evidence
    log       \* the turns of the verdict that were put on record

vars == <<verdict, against, run, log>>

Init == /\ verdict = [p \in Peer |-> "UNKNOWN"] /\ against = [p \in Peer |-> 0]
        /\ run = [p \in Peer |-> [st |-> "UNKNOWN", len |-> 0]]
        /\ log = [p \in Peer |-> <<>>]

Patience(v) == IF v = "ALIVE" THEN DownAfter ELSE UpAfter

Longer(p, res) == run' = [run EXCEPT ![p] = [st |-> res, len |-> IF @.st = res THEN @.len + 1
                                                                 ELSE 1]]

\* The result agrees with the verdict, or condemns a peer not seen alive yet
Confirm(p, res) ==
    /\ res = verdict[p] \/ (verdict[p] = "UNKNOWN" /\ res = "DEAD")
    /\ Longer(p, res) /\ against' = [against EXCEPT ![p] = 0]
    /\ UNCHANGED <<verdict, log>>

\* The result contradicts the verdict, but there are not enough of them yet
Doubt(p, res) ==
    /\ verdict[p] \in {"ALIVE", "DEAD"} \ {res} /\ against[p] + 1 < Patience(verdict[p])
    /\ Longer(p, res) /\ against' = [against EXCEPT ![p] = @ + 1]
    /\ UNCHANGED <<verdict, log>>

\* The first sign of life
Meet(p) ==
    /\ verdict[p] = "UNKNOWN" /\ verdict' = [verdict EXCEPT ![p] = "ALIVE"]
    /\ Longer(p, "ALIVE") /\ UNCHANGED <<against, log>>

\* The last result that was missing for the opposite verdict; a maintenance
\* window or a failing write keeps it off the record
Turn(p, res) ==
    /\ verdict[p] \in {"ALIVE", "DEAD"} \ {res} /\ against[p] + 1 >= Patience(verdict[p])
    /\ verdict' = [verdict EXCEPT ![p] = res] /\ against' = [against EXCEPT ![p] = 0]
    /\ Longer(p, res)
    /\ \/ log' = [log EXCEPT ![p] = Append(@, IF res = "ALIVE" THEN "up" ELSE "down")]
       \/ UNCHANGED log

\* A restart: verdicts start again from what history tells, and no result
\* counts against them yet
Forget == /\ verdict' \in [Peer -> {"UNKNOWN", "ALIVE", "DEAD"}]
          /\ against' = [p \in Peer |-> 0] /\ UNCHANGED <<run, log>>

Next == \/ Forget
        \/ \E p \in Peer : \/ Meet(p)
                           \/ \E res \in {"ALIVE", "DEAD"} :
                                 Confirm(p, res) \/ Doubt(p, res) \/ Turn(p, res)

Spec == Init /\ [][Next]_vars
=============================================================================
