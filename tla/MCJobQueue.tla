----------------------------- MODULE MCJobQueue -----------------------------
(* Small instances of JobQueue, and of its refinement, for TLC. *)
EXTENDS JobQueueRefines, TLC

(* Jobs and processes are interchangeable; used by the safety runs only. *)
MCSymmetry == Permutations(Jobs) \cup Permutations(Workers)
=============================================================================
