----------------------------- MODULE MCTrustLog -----------------------------
(* Small instances of TrustLog for TLC. *)
EXTENDS TrustLog

CONSTANTS p1, a1, g1, loop, c1, c2

MCPeer == {p1}
MCPerms == {{"monitor"}, {"shell"}}
MCAlias == {a1}
MCTag == {g1}
MCNoTag == {}
MCControl1 == {c1}
MCControl2 == {c1, c2}
MCNoRaces == {}
MCAllRaces == {"stat_window", "cli_overlap", "write_fail"}
MCStatWindow == {"stat_window"}
MCCliOverlap == {"cli_overlap"}
=============================================================================
