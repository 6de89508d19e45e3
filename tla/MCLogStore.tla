----------------------------- MODULE MCLogStore -----------------------------
(* Small instances of LogStore for TLC. *)
EXTENDS LogStore

\* The instance meets the hypothesis of the theorems about the rollups.
ASSUME InstanceTiming == Timing(1)
=============================================================================
