------------------------------ MODULE MCHandoff ------------------------------
(* Small instances of Handoff for TLC: two sizes of a window, so that a plan, *)
(* a server, a config and its sidecar can each be ahead of the others.       *)
EXTENDS Handoff

TwoSizes == {1, 2}

OneAgent == {"continue"}                    \* keeps its key in its file
TwoFiles == {"aider"}                       \* pins its context in a second file
=============================================================================
