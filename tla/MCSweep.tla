------------------------------ MODULE MCSweep -------------------------------
(* Two projects and one browser. *)
EXTENDS Sweep, TLC

CONSTANTS p1, p2
=============================================================================
