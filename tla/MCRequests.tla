----------------------------- MODULE MCRequests -----------------------------
(***************************************************************************)
(* Components whose requests do not meet, side by side for TLC: a behaviour *)
(* is one of a single component, the part, with the others at rest.  The   *)
(* properties of a component hold trivially while another one is the part; *)
(* only what a request may be is told apart.                               *)
(***************************************************************************)
EXTENDS Uploads, Quota, ApiAccess, Rbac, RulePass, Grants, Listing, BucketSettings,
        TLC

VARIABLE part

-----------------------------------------------------------------------------
(* Small sets *)

NoLimits == [upload |-> None, bytes |-> None, count |-> None, daily |-> None,
             bucketBytes |-> None, bucketCount |-> None]

(* Nothing in a day at all is a limit too. *)
SomeLimits ==
  {[NoLimits EXCEPT !.daily = 0],
   [NoLimits EXCEPT !.bytes = 1, !.daily = 1],
   [NoLimits EXCEPT !.upload = 2, !.bucketBytes = 1, !.count = 1, !.bucketCount = 1]}

OneAndThree == {1, 3}

TwoIds == 1 .. 2

(* A prefix, and a longer one. *)
P == <<"p">>
PQ == <<"p", "q">>

PassRules == [subject : {<<"user", "u">>, <<"group", "g">>}, bucket : {NoBucket, "b"},
              prefix : {<<>>, P, PQ}, actions : {{"read"}, {"write"}}]

PassQuestions ==
  {[who |-> who, bucket |-> "b", path |-> PQ, action |-> "write"] :
     who \in {{<<"user", "u">>}, {<<"user", "u">>, <<"group", "g">>}}}

(* With and without the alias, versioning and a log; a log's prefix, or the *)
(* default; and a target that is there without a log.                       *)
SomeSettings ==
  {s \in Settings : /\ s.prefix # DefaultLogPrefix
                    /\ ~s.logging => s.prefix = None
                    /\ s.logging => s.target # None}

(* The marker of the prefix, a folder, and one with an object in between. *)
SixKeys == 1 .. 6
TheirFolders == <<"itself", "f", "f", "g", "none", "g">>

ShortPaths == {<<>>, P}

Writes(b, x, acts) == [bucket |-> b, prefix |-> x, actions |-> acts]

ReadBelow == Writes("b", P, {"read"})

SomeBodies == {ReadBelow, Writes(NoBucket, <<>>, {"bucket_create", "read"}),
               Writes(NoBucket, <<>>, {"admin"})}

Everyone == [u \in Users |-> [role |-> IF u = Owner THEN "tenant_admin" ELSE "normal_user",
                              active |-> TRUE]]

Nothing(ids) == [i \in ids |-> None]

(* A member of a group with a permission for its role and a template for    *)
(* the group; all of them without a rule; and the owner alone.              *)
SomeTables ==
  {[users |-> Everyone, groups |-> Groups, members |-> Groups \X {"u"},
    perms |-> [i \in PermIds |-> Rule(<<"role", "normal_user">>, ReadBelow)], templates |-> Templates,
    trules |-> [i \in RuleIds |-> ReadBelow @@ [template |-> "t"]],
    assigned |-> [i \in AssignIds |-> [template |-> "t", subject |-> <<"group", "g">>]],
    buckets |-> SeenBuckets, createdBy |-> [b \in SeenBuckets |-> "u"]]}
  \cup
  {[users |-> IF alone THEN [Everyone EXCEPT !["u"] = None] ELSE Everyone,
    groups |-> IF alone THEN {} ELSE Groups, members |-> {}, perms |-> Nothing(PermIds),
    templates |-> IF alone THEN {} ELSE Templates, trules |-> Nothing(RuleIds),
    assigned |-> Nothing(AssignIds), buckets |-> SeenBuckets,
    createdBy |-> [b \in SeenBuckets |-> Owner]] : alone \in BOOLEAN}

-----------------------------------------------------------------------------
(* Each component starts as it does, or rests in one of its initial states. *)

One(S) == CHOOSE x \in S : TRUE

QuotaRests == limits = One(LimitChoices) /\ QuotaInit

RbacRests ==
  /\ RbacInit
  /\ One(Tables) = [users |-> users, members |-> members, groups |-> groups, perms |-> perms,
                    templates |-> templates, trules |-> trules, assigned |-> assigned,
                    buckets |-> buckets, createdBy |-> createdBy]

RulesRest == asked = One(Questions) /\ rules = {} /\ left = {} /\ best = -1 /\ matched = {}

GrantsRest == GrantsInit /\ stored = {}

ListRests == ListInit /\ listable = {}

SettingsRest == SettingsInit /\ row = None

Init ==
  /\ part \in {"uploads", "quota", "api", "rbac", "pass", "grants", "list", "settings"}
  /\ UploadsInit /\ ApiInit
  /\ IF part = "quota" THEN QuotaInit ELSE QuotaRests
  /\ IF part = "rbac" THEN RbacInit ELSE RbacRests
  /\ IF part = "grants" THEN GrantsInit ELSE GrantsRest
  /\ IF part = "pass" THEN RulesInit ELSE RulesRest
  /\ IF part = "list" THEN ListInit ELSE ListRests
  /\ IF part = "settings" THEN SettingsInit ELSE SettingsRest

Next ==
  /\ UNCHANGED part
  /\ \/ /\ part = "uploads" /\ UploadsNext
        /\ UNCHANGED <<quotaVars, apiVars, rbacVars, ruleVars, grantVars, listVars, settingVars>>
     \/ /\ part = "quota" /\ QuotaNext
        /\ UNCHANGED <<uploadVars, apiVars, rbacVars, ruleVars, grantVars, listVars, settingVars>>
     \/ /\ part = "api" /\ ApiNext
        /\ UNCHANGED <<uploadVars, quotaVars, rbacVars, ruleVars, grantVars, listVars, settingVars>>
     \/ /\ part = "rbac" /\ RbacNext
        /\ UNCHANGED <<uploadVars, quotaVars, apiVars, ruleVars, grantVars, listVars, settingVars>>
     \/ /\ part = "pass" /\ RulesNext
        /\ UNCHANGED <<uploadVars, quotaVars, apiVars, rbacVars, grantVars, listVars, settingVars,
                       req>>
     \/ /\ part = "grants" /\ GrantsNext
        /\ UNCHANGED <<uploadVars, quotaVars, apiVars, rbacVars, ruleVars, listVars, settingVars>>
     \/ /\ part = "list" /\ ListNext
        /\ UNCHANGED <<uploadVars, quotaVars, apiVars, rbacVars, ruleVars, grantVars, settingVars,
                       req>>
     \/ /\ part = "settings" /\ SettingsNext
        /\ UNCHANGED <<uploadVars, quotaVars, apiVars, rbacVars, ruleVars, grantVars, listVars>>

Spec ==
  Init /\ [][Next]_<<part, req, uploadVars, quotaVars, apiVars, rbacVars, ruleVars, grantVars,
                     listVars, settingVars>>

(* The requests and rows of each component are what its handlers make them. *)
TypesOK ==
  CASE part = "uploads"  -> UploadsTypeOK
    [] part = "quota"    -> QuotaTypeOK
    [] part = "api"      -> ApiTypeOK
    [] part = "rbac"     -> RbacTypeOK
    [] part = "grants"   -> GrantsTypeOK
    [] part = "pass"     -> left \subseteq rules
    [] part = "list"     -> ListTypeOK
    [] part = "settings" -> SettingsTypeOK

(* The same two values stand for applications, buckets, uploads and accounts, *)
(* which are never in play together: one permutation serves them all.        *)
Symmetry ==
  Permutations(Procs) \cup Permutations(Admissions) \cup Permutations(Applications)
=============================================================================
