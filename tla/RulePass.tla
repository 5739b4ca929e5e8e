----------------------------- MODULE RulePass -----------------------------
(***************************************************************************)
(* The pass of internal/rbac/match.go over the rules that were loaded, in  *)
(* whatever order the database returns them.                               *)
(***************************************************************************)
EXTENDS Rules, Integers

CONSTANTS
  RuleChoices,  \* the rules there can be
  MaxRules,     \* bound: rules that are loaded
  Questions     \* who asks, for which bucket, path and action

ASSUME RulePassAssumption ==
  /\ \A r \in RuleChoices : r.prefix \in Seq(Range(r.prefix))
  /\ MaxRules \in Nat

VARIABLES
  asked,    \* the question
  rules,    \* the rules that were loaded
  left,     \* those the pass has not looked at
  best,     \* the longest prefix that matched so far, -1 before one did
  matched   \* what the rules with that prefix allow

ruleVars == <<asked, rules, left, best, matched>>

-----------------------------------------------------------------------------
(* The pass *)

RulesInit ==
  /\ asked \in Questions
  /\ rules \in {ToSet(rows) : rows \in BoundedSeq(RuleChoices, MaxRules)}
  /\ left = rules /\ best = -1 /\ matched = {}

(* Mutation: the first of several rules with the same prefix decides. *)
JoinedNot(r) == matched

Joined(r) == matched \cup r.actions

Look(r) ==
  /\ r \in left /\ left' = left \ {r}
  /\ LET matches == Matches(r, asked.who, asked.bucket, asked.path)
         n == Len(r.prefix)
     IN \/ matches /\ n > best /\ best' = n /\ matched' = r.actions
        \/ matches /\ n = best /\ matched' = Joined(r) /\ UNCHANGED best
        \/ (~matches \/ n < best) /\ UNCHANGED <<best, matched>>
  /\ UNCHANGED <<asked, rules>>

RulesNext == \E r \in left : Look(r)

RulesSpec == RulesInit /\ [][RulesNext]_ruleVars

-----------------------------------------------------------------------------
(* Properties *)

(* Whatever the order of the rows, the pass ends with what the rules say.   *)
(* (match.go:85-114)                                                        *)
PassAgrees ==
  left = {} =>
    /\ matched = Granted(rules, asked.who, asked.bucket, asked.path)
    /\ (best >= 0 /\ matched \cap {asked.action, "admin"} # {})
         <=> Allowed(rules, asked.who, asked.bucket, asked.path, asked.action)
=============================================================================
