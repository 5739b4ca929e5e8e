---------------------------- MODULE MCShareLinks ----------------------------
(* ShareLinks for TLC: one link that both requests follow, created with any  *)
(* of the budgets and lifetimes below.                                       *)
EXTENDS ShareLinks, TLC

(* Only a safety check: requests are interchangeable. *)
Symmetry == Permutations(Procs)

NoLimitOrOne == {1, None}
Both == {{"download", "preview"}}
=============================================================================
