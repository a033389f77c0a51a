----------------------------- MODULE MCFindings -----------------------------
(* Two findings, each in a file of its own, and one browser of the owner. *)
EXTENDS Findings, TLC

CONSTANTS f1, f2

MCFinding == {f1, f2}
MCManifest == {1, 2}
MCFileOf == (f1 :> 1) @@ (f2 :> 2)

\* The smallest project: one finding in one file.
MCOneFile == (f1 :> 1)
=============================================================================
