---------------------------- MODULE MCDashboard ----------------------------
(* A small instance of Dashboard for TLC. *)
EXTENDS Dashboard

CONSTANT p1

MCOnePeer == {p1}
MCNothing == {}
=============================================================================
