--------------------------- MODULE MCAuthSessions ---------------------------
(* Small instances of AuthSessions for TLC. *)
EXTENDS AuthSessions, TLC

(* Used by the run without liveness only. *)
MCSymmetry == Permutations(Ids) \cup Permutations(Calls)
=============================================================================
