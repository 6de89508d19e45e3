--------------------------- MODULE MCIrohRefresh ---------------------------
(* Small instances of IrohRefresh for TLC. *)
EXTENDS IrohRefresh

CONSTANTS p1, p2
MCPeer == {p1, p2}
=============================================================================
