------------------------------- MODULE Rules -------------------------------
(***************************************************************************)
(* What a set of permission rules allows: internal/rbac/match.go.          *)
(*                                                                         *)
(* A subject is a pair of "user", "role" or "group" and which one; who are *)
(* the subjects that a user is.  A prefix is the sequence of its characters,*)
(* <<>> for none and for "*".                                              *)
(***************************************************************************)
EXTENDS Sequences, SequencesExt

(* The bucket of what is asked of, or ruled for, the account. *)
NoBucket == ""

-----------------------------------------------------------------------------
(* One rule *)

ruleApplies(r, who) == r.subject \in who

bucketMatches(r, bucket) == r.bucket \in {NoBucket, bucket}

prefixMatches(r, path) == IsPrefix(r.prefix, path)

Matches(r, who, bucket, path) ==
  ruleApplies(r, who) /\ bucketMatches(r, bucket) /\ prefixMatches(r, path)

-----------------------------------------------------------------------------
(* What the rules say: those with the longest prefix speak, together, and   *)
(* admin covers the other actions (README.md:55).                           *)

Speaking(rs, who, bucket, path) ==
  LET M == {r \in rs : Matches(r, who, bucket, path)} IN
  {r \in M : \A s \in M : Len(s.prefix) <= Len(r.prefix)}

Granted(rs, who, bucket, path) ==
  UNION {r.actions : r \in Speaking(rs, who, bucket, path)}

Allowed(rs, who, bucket, path, action) ==
  Granted(rs, who, bucket, path) \cap {action, "admin"} # {}

accountLevel(rs, who, action) == Allowed(rs, who, NoBucket, <<>>, action)

CreatorAllows(rs, who, isCreator) == isCreator /\ accountLevel(rs, who, "bucket_create")

(* Who may create buckets, and is no more than that for the others' ones.   *)
CreatorScopedList(rs, who) ==
  accountLevel(rs, who, "bucket_create") /\ ~accountLevel(rs, who, "admin")

bucketOnlyRules(rs, bucket) == {r \in rs : r.bucket = bucket}
=============================================================================
