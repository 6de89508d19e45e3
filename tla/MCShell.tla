------------------------------- MODULE MCShell -------------------------------
(* Small instances of Shell for TLC. *)
EXTENDS Shell

CONSTANTS a1, a2, p1

MCAttempt == {a1, a2}
MCPeer == {p1}
MCBy == [a \in MCAttempt |-> p1]
=============================================================================
