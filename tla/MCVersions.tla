----------------------------- MODULE MCVersions -----------------------------
(* Versions for TLC. *)
EXTENDS Versions, TLC

(* Only safety is checked: requests, contents and row ids are               *)
(* interchangeable.                                                         *)
Symmetry == Permutations(Procs) \cup Permutations(Contents) \cup Permutations(RecordIds)
=============================================================================
