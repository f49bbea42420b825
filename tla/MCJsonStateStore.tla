-------------------------- MODULE MCJsonStateStore --------------------------
(* JsonStateStore with symmetric threads and sessions. *)
EXTENDS JsonStateStore, TLC

Symmetry == Permutations(Thread) \cup Permutations(Session)
=============================================================================
