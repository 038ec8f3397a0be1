---------------------------- MODULE MCDashboard ----------------------------
(* A page opened before the only run of a process over two slots.           *)
EXTENDS Dashboard

CONSTANTS f1, a1
MCRanges == {Slots}
=============================================================================
