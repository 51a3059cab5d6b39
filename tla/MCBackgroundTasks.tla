------------------------- MODULE MCBackgroundTasks -------------------------
(* Small instances of BackgroundTasks for TLC. *)
EXTENDS BackgroundTasks, TLC

\* Callers, and runs, and tags, are interchangeable (used by the safety runs only).
Symmetry == Permutations(Callers) \cup Permutations(Runs) \cup Permutations(Tags)
=============================================================================
