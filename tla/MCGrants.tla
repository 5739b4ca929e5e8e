------------------------------ MODULE MCGrants ------------------------------
(* Grants with small sets, for TLC. *)
EXTENDS Grants, TLC

TwoIds == 1 .. 2
ThreeIds == 1 .. 3
ProcSymmetry == Permutations(Procs)
=============================================================================
