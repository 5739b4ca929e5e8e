---------------------------- MODULE MCEditLocks ----------------------------
(* EditLocks for TLC.  The sets of the instance are sets of model values and *)
(* interchangeable; only safety is checked, so symmetry is sound.            *)
EXTENDS EditLocks, TLC

Symmetry ==
  Permutations(Procs) \cup Permutations(Users) \cup Permutations(LockIds)
    \cup Permutations(SessionIds) \cup Permutations(Tokens)
=============================================================================
