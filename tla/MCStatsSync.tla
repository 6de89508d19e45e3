----------------------------- MODULE MCStatsSync -----------------------------
(* Small instances of StatsSync for TLC. *)
EXTENDS StatsSync
=============================================================================
