----------------------------- MODULE EditLease -----------------------------
(***************************************************************************)
(* What the edit lock of one object promises: a lease with an owner and a  *)
(* token.  It is granted only while it is free, only under a token that    *)
(* was never the lease's before; its owner may rotate the token; it ends   *)
(* by becoming free.  It never passes from one owner straight to another.  *)
(***************************************************************************)
CONSTANTS Users, Tokens, None

VARIABLES
  holder,  \* None, or the owner and the token of the lease
  spent    \* every token the lease has ever had

vars == <<holder, spent>>

TypeOK ==
  /\ holder \in [by : Users, token : Tokens] \cup {None}
  /\ spent \subseteq Tokens

Init == holder = None /\ spent = {}

(* The lease takes a token it has never had. *)
Fresh(u, t) ==
  /\ t \notin spent
  /\ holder' = [by |-> u, token |-> t]
  /\ spent' = spent \cup {t}

Grant(u, t) == holder = None /\ Fresh(u, t)

Rotate(u, t) == holder # None /\ holder.by = u /\ Fresh(u, t)

End == holder # None /\ holder' = None /\ UNCHANGED spent

Next == End \/ \E u \in Users, t \in Tokens : Grant(u, t) \/ Rotate(u, t)

Spec == Init /\ [][Next]_vars
=============================================================================
