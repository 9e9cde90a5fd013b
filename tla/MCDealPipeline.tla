--------------------------- MODULE MCDealPipeline ---------------------------
(* Small instances of DealPipeline for TLC. *)
EXTENDS DealPipeline, TLC

(* Used by the safety runs only. *)
MCSymmetry == Permutations(Deals) \cup Permutations(Jobs)
                \cup Permutations(Runners) \cup Permutations(Analysts)
=============================================================================
