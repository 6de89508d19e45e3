--------------------------- MODULE MCPeerMonitor ---------------------------
(* Small instances of PeerMonitor for TLC. *)
EXTENDS PeerMonitor

CONSTANT p1

MCOnePeer == {p1}
MCNothing == {}
MCNoReload == {"restart", "maintenance", "hist_fail", "log_fail"}
MCEverything == {"reload", "external", "restart", "maintenance", "hist_fail",
                 "log_fail"}
MCRestart == {"restart"}
=============================================================================
