------------------------------ MODULE Requests ------------------------------
(***************************************************************************)
(* Requests in flight, for the modules that extend this one.  net/http     *)
(* runs a handler per request; a request is idle or the record of what its *)
(* handler remembers, whose pc names the statement or call that is next.   *)
(***************************************************************************)
EXTENDS Integers, FiniteSets

CONSTANTS
  Procs,      \* requests that can be in flight at the same time
  None        \* no row, no value, no limit

ASSUME RequestsAssumption == IsFiniteSet(Procs)

VARIABLE req  \* the requests in flight

Idle == [pc |-> "idle"]

At(p, point) == req[p].pc = point

Moves(p, r) == req' = [req EXCEPT ![p] = r]

Goes(p, point) == Moves(p, [req[p] EXCEPT !.pc = point])

Ends(p) == Moves(p, Idle)

(* A failed statement, a client that is gone, a process that died. *)
Dies(p) == ~At(p, "idle") /\ Ends(p)
=============================================================================
