---------------------------- MODULE MCObjectOps ----------------------------
(* ObjectOps for TLC. *)
EXTENDS ObjectOps, TLC

(* Every key stands for itself; or unescaping m gives n, as a%2Fb gives a/b, *)
(* in the trash too; or it gives the trash of n, as %2Etrash/n, and the     *)
(* trash of m a key that is not there.                                      *)
ReadAs(m, n) == [k \in Keys |-> IF k[2] = m THEN <<k[1], n>> ELSE k]

ReadAsTrash(m, n) ==
  [k \in Keys |-> CASE k = Live(m) -> Trash(n) [] k = Trash(m) -> None [] OTHER -> k]

Readings ==
  {ReadAs(m, n) : m, n \in Names} \cup
  UNION {{ReadAsTrash(m, n) : n \in Names \ {m}} : m \in Names}

(* For two operations at a time, without keys that are not there. *)
NameReadings == {ReadAs(m, n) : m, n \in Names}

(* Only safety is checked: operations and names are interchangeable. *)
Symmetry == Permutations(Procs) \cup Permutations(Names)

(* Names alone, for a single operation at a time. *)
NameSymmetry == Permutations(Names)

(* Once everything is lost, and it stays so, NothingVanishes says nothing.  *)
Kept == lost # Contents

(* orderly and whole never become TRUE again; without them the properties   *)
(* of ObjectRows say nothing.                                               *)
Undisturbed == orderly /\ whole
=============================================================================
