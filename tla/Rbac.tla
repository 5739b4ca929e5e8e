-------------------------------- MODULE Rbac --------------------------------
(***************************************************************************)
(* The members of one account, its groups, its permissions and its         *)
(* permission templates: internal/rbac and the user rows of internal/auth. *)
(*                                                                         *)
(* Every request is authenticated from the user's row and then decided on  *)
(* rows that Checker.Allow reads in four statements, one after the other,  *)
(* while other requests change them.  A statement is atomic: it checks the *)
(* foreign keys of what it writes and cascades along those of what it      *)
(* deletes (migrations/00010_rbac.sql).  Where a handler first looks       *)
(* something up and only a foreign key depends on it later, the look-ups   *)
(* and the write are one step here: what goes between them makes the write *)
(* fail as it would have failed the look-up.                               *)
(***************************************************************************)
EXTENDS Requests, Rules

CONSTANTS
  Users,        \* tenant_users.id of members
  Owner,        \* the member whose id is the account's
  Groups,       \* tenant_user_groups.id
  PermIds,      \* tenant_permissions.id
  Templates,    \* tenant_permission_templates.id
  RuleIds,      \* tenant_permission_template_rules.id
  AssignIds,    \* tenant_permission_template_assignments.id
  SeenBuckets,  \* names of the buckets the account sees
  Paths,        \* prefixes, of rules and of objects
  Bodies,       \* what requests write into a rule: bucket, prefix, actions
  Tables,       \* the tables an instance starts with
  MaxAdmin      \* bound: requests that begin

VARIABLES
  users,      \* id -> [role, active], or None
  members,    \* rows of tenant_user_group_members
  groups,     \* ids of groups there are
  perms,      \* id -> [subject, bucket, prefix, actions], or None
  templates,  \* ids of templates there are
  trules,     \* id -> [template, bucket, prefix, actions], or None
  assigned,   \* id -> [template, subject], or None
  buckets,    \* names of buckets there are
  createdBy,  \* buckets.created_by
  used,       \* ids that had a row: sequences do not return them again
  asking      \* how many requests have begun

rbacVars == <<users, members, groups, perms, templates, trules, assigned, buckets,
              createdBy, used, asking>>

-----------------------------------------------------------------------------
(* Types *)

Roles == {"tenant_admin", "normal_user"}

Acts == {"read", "write", "bucket_create", "admin"}

Member == [role : Roles, active : BOOLEAN]

UserSubjects == {"user"} \X Users
GroupSubjects == {"group"} \X Groups
RoleSubjects == {"role"} \X Roles

Body == [bucket : SeenBuckets \cup {NoBucket}, prefix : Paths, actions : SUBSET Acts]

Permission == [subject : UserSubjects \cup RoleSubjects \cup GroupSubjects,
               bucket : SeenBuckets \cup {NoBucket}, prefix : Paths, actions : SUBSET Acts]

TemplateRule == [template : Templates, bucket : SeenBuckets \cup {NoBucket}, prefix : Paths,
                 actions : SUBSET Acts]

Assignment == [template : Templates, subject : UserSubjects \cup GroupSubjects]

(* rules and gids: what was read; then stale, a history: whether a table    *)
(* has changed since the request began.                                     *)
Asking == [pc : {"groups", "rules", "templates", "owner"}, user : Users, role : Roles,
           gids : SUBSET Groups, rules : SUBSET Permission, stale : BOOLEAN]

Decided == [pc : {"decided"}, user : Users, bucket : SeenBuckets \cup {NoBucket}, path : Paths,
            action : Acts, allowed : BOOLEAN, stale : BOOLEAN]

(* Past requireAdmin; None is operations. *)
Managing == [pc : {"manage"}, user : Users \cup {None}]

Updating == [pc : {"update"}, id : PermIds, cur : Body]
              \cup [pc : {"updaterule"}, id : RuleIds, cur : Body]

Filling == [pc : {"addrules"}, template : Templates]
             \cup [pc : {"addmembers"}, group : Groups, todo : SUBSET Users]

RowIds(table) == {i \in DOMAIN table : table[i] # None}

SubjectIn(us, gs, subject) ==
  CASE subject[1] = "user"  -> us[subject[2]] # None
    [] subject[1] = "group" -> subject[2] \in gs
    [] OTHER                -> TRUE

SubjectThere(subject) == SubjectIn(users, groups, subject)

BucketThere(b) == b \in buckets \cup {NoBucket}

scopeOK(body) == "bucket_create" \in body.actions => body.bucket = NoBucket

(* The tables d with the columns and the foreign keys of the schema. *)
SchemaOK(d) ==
  LET SubjectKeyHolds(row) == SubjectIn(d.users, d.groups, row.subject)
      BucketKeyHolds(row) == row.bucket \in d.buckets \cup {NoBucket}
      TemplateKeyHolds(row) == row.template \in d.templates
  IN
  /\ d.users \in [Users -> Member \cup {None}] /\ d.users[Owner] # None
  /\ d.members \subseteq d.groups \X RowIds(d.users)
  /\ d.groups \subseteq Groups /\ d.templates \subseteq Templates /\ d.buckets \subseteq SeenBuckets
  /\ d.perms \in [PermIds -> Permission \cup {None}]
  /\ d.trules \in [RuleIds -> TemplateRule \cup {None}]
  /\ d.assigned \in [AssignIds -> Assignment \cup {None}]
  /\ \A i \in RowIds(d.perms) : SubjectKeyHolds(d.perms[i]) /\ BucketKeyHolds(d.perms[i])
  /\ \A i \in RowIds(d.trules) : TemplateKeyHolds(d.trules[i]) /\ BucketKeyHolds(d.trules[i])
  /\ \A i \in RowIds(d.assigned) : TemplateKeyHolds(d.assigned[i]) /\ SubjectKeyHolds(d.assigned[i])
  /\ d.createdBy \in [SeenBuckets -> RowIds(d.users) \cup {None}]

RbacTypeOK ==
  /\ SchemaOK([users |-> users, members |-> members, groups |-> groups, perms |-> perms,
               templates |-> templates, trules |-> trules, assigned |-> assigned,
               buckets |-> buckets, createdBy |-> createdBy])
  /\ used \subseteq Users \cup Groups \cup PermIds \cup Templates \cup RuleIds \cup AssignIds
  /\ asking \in Nat
  /\ req \in [Procs -> {Idle} \cup Asking \cup Decided \cup Managing \cup Updating \cup Filling]

(* No permission of an instance breaks what its handlers check. *)
ASSUME RbacAssumption ==
  /\ Owner \in Users /\ Bodies \subseteq Body
  /\ None \notin Users \cup Member \cup Permission \cup TemplateRule \cup Assignment
  /\ \A t \in Tables : SchemaOK(t) /\ \A i \in RowIds(t.perms) : scopeOK(t.perms[i])

-----------------------------------------------------------------------------
(* What the statements return *)

GroupsOf(u) == {g \in Groups : <<g, u>> \in members}

Who(u, role, gids) == {<<"user", u>>, <<"role", role>>} \cup {<<"group", g>> : g \in gids}

(* LoadRules, the first statement *)
Permissions(u, role) ==
  {perms[i] : i \in {j \in RowIds(perms) : perms[j].subject \in Who(u, role, GroupsOf(u))}}

Rule(s, t) == [subject |-> s, bucket |-> t.bucket, prefix |-> t.prefix, actions |-> t.actions]

AssignedTo(t, subjects) ==
  \E a \in RowIds(assigned) : assigned[a].template = t /\ assigned[a].subject \in subjects

(* Mutation: templates are for users only. *)
TemplateRulesOwn(u) ==
  {Rule(<<"user", u>>, trules[i]) :
     i \in {j \in RowIds(trules) : AssignedTo(trules[j].template, {<<"user", u>>})}}

(* LoadRules, the second statement: rules of the user's templates become    *)
(* rules of the user.                                                       *)
TemplateRules(u) ==
  {Rule(<<"user", u>>, trules[i]) :
     i \in {j \in RowIds(trules) :
              AssignedTo(trules[j].template,
                         {<<"user", u>>} \cup {<<"group", g>> : g \in GroupsOf(u)})}}

-----------------------------------------------------------------------------
(* Requests *)

Reads(q) == req[q].pc \in {"groups", "rules", "templates", "owner", "decided"}

(* p goes on, and what the others have read is old. *)
Changes(p, r) ==
  req' = [q \in Procs |-> IF q = p THEN r
                          ELSE IF Reads(q) THEN [req[q] EXCEPT !.stale = TRUE] ELSE req[q]]

Manages(u) == [pc |-> "manage", user |-> u]

Comes(p) == At(p, "idle") /\ asking < MaxAdmin /\ asking' = asking + 1

Same == UNCHANGED <<users, members, groups, perms, templates, trules, assigned, buckets,
                    createdBy, used>>

(* RequireUser: a token names a user, whose row decides.  A tenant_admin    *)
(* may do everything; what it may do without changing rules is left out.    *)
RequireUser(p, u) ==
  /\ Comes(p) /\ users[u] # None /\ users[u].active
  /\ Moves(p, IF users[u].role = "tenant_admin" THEN Manages(u)
              ELSE [pc |-> "groups", user |-> u, role |-> users[u].role,
                    gids |-> {}, rules |-> {}, stale |-> FALSE])
  /\ Same

(* gateInternal: operations act for the account. *)
GateInternal(p) == Comes(p) /\ Moves(p, Manages(None)) /\ Same

(* GroupIDs *)
ReadGroups(p) ==
  /\ At(p, "groups")
  /\ Moves(p, [req[p] EXCEPT !.pc = "rules", !.gids = GroupsOf(req[p].user)])
  /\ UNCHANGED rbacVars

ReadRules(p) ==
  /\ At(p, "rules")
  /\ Moves(p, [req[p] EXCEPT !.pc = "templates", !.rules = Permissions(req[p].user, req[p].role)])
  /\ UNCHANGED rbacVars

ReadTemplates(p) ==
  /\ At(p, "templates")
  /\ Moves(p, [req[p] EXCEPT !.pc = "owner", !.rules = @ \cup TemplateRules(req[p].user)])
  /\ UNCHANGED rbacVars

(* The end of Allow. *)
Decision(rs, who, isCreator, b, path, action) ==
  \/ b # NoBucket /\ CreatorAllows(rs, who, isCreator)
  \/ LET scoped == b # NoBucket /\ action = "read" /\ CreatorScopedList(rs, who) IN
     Allowed(IF scoped THEN bucketOnlyRules(rs, b) ELSE rs, who, b, path, action)

IsCreator(u, b) == b \in buckets /\ createdBy[b] = u

(* Owner, if the question is about a bucket.  What the question is makes no *)
(* difference before.                                                       *)
Decide(p, b, path, action) ==
  LET r == req[p] IN
  /\ At(p, "owner")
  /\ Moves(p, [pc |-> "decided", user |-> r.user, bucket |-> b, path |-> path,
               action |-> action, stale |-> r.stale,
               allowed |-> Decision(r.rules, Who(r.user, r.role, r.gids), IsCreator(r.user, b),
                                    b, path, action)])
  /\ UNCHANGED rbacVars

(* requireAdmin *)
RequireAdmin(p) ==
  LET r == req[p] IN
  /\ At(p, "decided") /\ r.allowed
  /\ <<r.bucket, r.path, r.action>> = <<NoBucket, <<>>, "admin">>
  /\ Moves(p, Manages(r.user))
  /\ UNCHANGED rbacVars

(* A refusal, another handler, a failed statement. *)
RbacEnds(p) == Dies(p) /\ UNCHANGED rbacVars

-----------------------------------------------------------------------------
(* The statements that insert rows, whose ids are never used again, and     *)
(* those that update them *)

InsertPermission(i, row) == perms' = [perms EXCEPT ![i] = row] /\ used' = used \cup {i}

InsertTemplate(t) == templates' = templates \cup {t} /\ used' = used \cup {t}

RuleOf(t, body) ==
  [template |-> t, bucket |-> body.bucket, prefix |-> body.prefix, actions |-> body.actions]

InsertRule(i, t, body) == trules' = [trules EXCEPT ![i] = RuleOf(t, body)] /\ used' = used \cup {i}

UpdateRule(i, body) == trules' = [trules EXCEPT ![i] = RuleOf(trules[i].template, body)]

InsertAssignment(i, t, s) ==
  assigned' = [assigned EXCEPT ![i] = [template |-> t, subject |-> s]] /\ used' = used \cup {i}

InsertGroup(g) == groups' = groups \cup {g} /\ used' = used \cup {g}

InsertMember(u, role) ==
  users' = [users EXCEPT ![u] = [role |-> role, active |-> TRUE]] /\ used' = used \cup {u}

UpdateMember(u, role, active) == users' = [users EXCEPT ![u] = [role |-> role, active |-> active]]

-----------------------------------------------------------------------------
(* Permissions *)

CreatePermission(p) ==
  /\ At(p, "manage") /\ Changes(p, Idle)
  /\ \E i \in PermIds \ used, s \in UserSubjects \cup RoleSubjects \cup GroupSubjects, body \in Bodies :
       /\ SubjectThere(s) /\ scopeOK(body) /\ BucketThere(body.bucket)
       /\ InsertPermission(i, Rule(s, body))
  /\ UNCHANGED <<users, members, groups, templates, trules, assigned, buckets, createdBy, asking>>

BodyOf(row) == [bucket |-> row.bucket, prefix |-> row.prefix, actions |-> row.actions]

LoadPermission(p) ==
  /\ At(p, "manage")
  /\ \E i \in RowIds(perms) : Moves(p, [pc |-> "update", id |-> i, cur |-> BodyOf(perms[i])])
  /\ UNCHANGED rbacVars

(* What the request names, and the rest as it was read. *)
Merged(cur, body, named) == [f \in DOMAIN cur |-> IF f \in named THEN body[f] ELSE cur[f]]

(* Mutation: only the columns that the request names are written. *)
WrittenNamed(row, cur, body, named) == Merged(BodyOf(row), body, named)

Written(row, cur, body, named) == Merged(cur, body, named)

Fields == SUBSET {"bucket", "prefix", "actions"}

UpdatePermission(p) ==
  LET i == req[p].id
      cur == req[p].cur IN
  /\ At(p, "update") /\ Changes(p, Idle)
  /\ \E body \in Bodies, named \in Fields :
       /\ scopeOK(Merged(cur, body, named)) /\ perms[i] # None
       /\ BucketThere(Merged(cur, body, named).bucket)
       /\ perms' = [perms EXCEPT ![i] = Rule(perms[i].subject, Written(perms[i], cur, body, named))]
  /\ UNCHANGED <<users, members, groups, templates, trules, assigned, buckets, createdBy, used, asking>>

DeletePermission(p) ==
  /\ At(p, "manage") /\ Changes(p, Idle)
  /\ \E i \in RowIds(perms) : perms' = [perms EXCEPT ![i] = None]
  /\ UNCHANGED <<users, members, groups, templates, trules, assigned, buckets, createdBy, used, asking>>

-----------------------------------------------------------------------------
(* Templates *)

CreateTemplate(p) ==
  /\ At(p, "manage")
  /\ \E t \in Templates \ used :
       /\ InsertTemplate(t)
       /\ Changes(p, [pc |-> "addrules", template |-> t])
  /\ UNCHANGED <<users, members, groups, perms, trules, assigned, buckets, createdBy, asking>>

(* POST .../rules adds one, the creation adds several; scopeOK is not asked. *)
LoadTemplate(p) ==
  /\ At(p, "manage")
  /\ \E t \in templates : Moves(p, [pc |-> "addrules", template |-> t])
  /\ UNCHANGED rbacVars

InsertTemplateRule(p) ==
  LET t == req[p].template IN
  /\ At(p, "addrules") /\ t \in templates
  /\ \E i \in RuleIds \ used, body \in Bodies :
       BucketThere(body.bucket) /\ InsertRule(i, t, body)
  /\ \/ Changes(p, req[p]) \/ Changes(p, Idle)
  /\ UNCHANGED <<users, members, groups, perms, templates, assigned, buckets, createdBy, asking>>

LoadTemplateRule(p) ==
  /\ At(p, "manage")
  /\ \E i \in RowIds(trules) : Moves(p, [pc |-> "updaterule", id |-> i, cur |-> BodyOf(trules[i])])
  /\ UNCHANGED rbacVars

UpdateTemplateRule(p) ==
  LET i == req[p].id IN
  /\ At(p, "updaterule") /\ Changes(p, Idle) /\ trules[i] # None
  /\ \E body \in Bodies, named \in Fields :
       LET new == Merged(req[p].cur, body, named) IN
       BucketThere(new.bucket) /\ UpdateRule(i, new)
  /\ UNCHANGED <<users, members, groups, perms, templates, assigned, buckets, createdBy, used, asking>>

DeleteTemplateRule(p) ==
  /\ At(p, "manage") /\ Changes(p, Idle)
  /\ \E i \in RowIds(trules) : trules' = [trules EXCEPT ![i] = None]
  /\ UNCHANGED <<users, members, groups, perms, templates, assigned, buckets, createdBy, used, asking>>

DeleteTemplate(p) ==
  /\ At(p, "manage") /\ Changes(p, Idle)
  /\ \E t \in templates :
       /\ templates' = templates \ {t}
       /\ trules' = [i \in RuleIds |-> IF i \in RowIds(trules) /\ trules[i].template = t
                                       THEN None ELSE trules[i]]
       /\ assigned' = [i \in AssignIds |-> IF i \in RowIds(assigned) /\ assigned[i].template = t
                                           THEN None ELSE assigned[i]]
  /\ UNCHANGED <<users, members, groups, perms, buckets, createdBy, used, asking>>

CreateAssignment(p) ==
  /\ At(p, "manage") /\ Changes(p, Idle)
  /\ \E i \in AssignIds \ used, t \in templates, s \in UserSubjects \cup GroupSubjects :
       SubjectThere(s) /\ InsertAssignment(i, t, s)
  /\ UNCHANGED <<users, members, groups, perms, templates, trules, buckets, createdBy, asking>>

DeleteAssignment(p) ==
  /\ At(p, "manage") /\ Changes(p, Idle)
  /\ \E i \in RowIds(assigned) : assigned' = [assigned EXCEPT ![i] = None]
  /\ UNCHANGED <<users, members, groups, perms, templates, trules, buckets, createdBy, used, asking>>

-----------------------------------------------------------------------------
(* Groups and users *)

(* Mutation: subject columns without ON DELETE CASCADE. *)
SubjectStays(s) ==
  /\ perms' = perms
  /\ assigned' = assigned

(* The rows that name a subject go with it. *)
SubjectGoes(s) ==
  /\ perms' = [i \in PermIds |-> IF i \in RowIds(perms) /\ perms[i].subject = s
                                 THEN None ELSE perms[i]]
  /\ assigned' = [i \in AssignIds |-> IF i \in RowIds(assigned) /\ assigned[i].subject = s
                                      THEN None ELSE assigned[i]]

CreateGroup(p) ==
  /\ At(p, "manage") /\ Changes(p, Idle)
  /\ \E g \in Groups \ used : InsertGroup(g)
  /\ UNCHANGED <<users, members, perms, templates, trules, assigned, buckets, createdBy, asking>>

DeleteGroup(p) ==
  /\ At(p, "manage") /\ Changes(p, Idle)
  /\ \E g \in groups :
       /\ groups' = groups \ {g} /\ members' = {m \in members : m[1] # g}
       /\ SubjectGoes(<<"group", g>>)
  /\ UNCHANGED <<users, templates, trules, buckets, createdBy, used, asking>>

(* addMembers looks every user up before it adds the first. *)
LoadGroup(p) ==
  /\ At(p, "manage")
  /\ \E g \in groups, S \in SUBSET RowIds(users) \ {{}} :
       Moves(p, [pc |-> "addmembers", group |-> g, todo |-> S])
  /\ UNCHANGED rbacVars

AddMember(p) ==
  LET g == req[p].group IN
  /\ At(p, "addmembers") /\ g \in groups
  /\ \E u \in req[p].todo :
       /\ users[u] # None /\ members' = members \cup {<<g, u>>}
       /\ Changes(p, IF req[p].todo = {u} THEN Idle ELSE [req[p] EXCEPT !.todo = @ \ {u}])
  /\ UNCHANGED <<users, groups, perms, templates, trules, assigned, buckets, createdBy, used, asking>>

RemoveMember(p) ==
  /\ At(p, "manage") /\ Changes(p, Idle)
  /\ \E m \in members : members' = members \ {m}
  /\ UNCHANGED <<users, groups, perms, templates, trules, assigned, buckets, createdBy, used, asking>>

(* Operations do not manage users. *)
InConsole(p) == At(p, "manage") /\ req[p].user # None

CreateUser(p) ==
  /\ InConsole(p) /\ Changes(p, Idle)
  /\ \E u \in Users \ used, role \in Roles : InsertMember(u, role)
  /\ UNCHANGED <<members, groups, perms, templates, trules, assigned, buckets, createdBy, asking>>

(* Of anyone, oneself and the owner too. *)
UpdateUser(p) ==
  /\ InConsole(p) /\ Changes(p, Idle)
  /\ \E u \in RowIds(users), role \in Roles, active \in BOOLEAN : UpdateMember(u, role, active)
  /\ UNCHANGED <<members, groups, perms, templates, trules, assigned, buckets, createdBy, used, asking>>

DeleteUser(p) ==
  /\ InConsole(p) /\ Changes(p, Idle)
  /\ \E u \in RowIds(users) \ {req[p].user, Owner} :
       /\ users' = [users EXCEPT ![u] = None] /\ members' = {m \in members : m[2] # u}
       /\ SubjectGoes(<<"user", u>>)
       /\ createdBy' = [b \in SeenBuckets |-> IF createdBy[b] = u THEN None ELSE createdBy[b]]
  /\ UNCHANGED <<groups, templates, trules, buckets, used, asking>>

(* PUT /internal/accounts/{username}, for a name that has its row: whoever  *)
(* it is becomes a tenant_admin.                                            *)
Upsert(p) ==
  /\ Comes(p) /\ Changes(p, Idle)
  /\ \E u \in RowIds(users), active \in BOOLEAN :
       users' = [users EXCEPT ![u] = [role |-> "tenant_admin", active |-> active]]
  /\ UNCHANGED <<members, groups, perms, templates, trules, assigned, buckets, createdBy, used>>

(* A bucket is removed (see Grants), and the rules about it. *)
DropBucket(p) ==
  /\ Comes(p) /\ Changes(p, Idle)
  /\ \E b \in buckets :
       /\ buckets' = buckets \ {b} /\ createdBy' = [createdBy EXCEPT ![b] = None]
       /\ perms' = [i \in PermIds |-> IF i \in RowIds(perms) /\ perms[i].bucket = b
                                      THEN None ELSE perms[i]]
       /\ trules' = [i \in RuleIds |-> IF i \in RowIds(trules) /\ trules[i].bucket = b
                                       THEN None ELSE trules[i]]
  /\ UNCHANGED <<users, members, groups, templates, assigned, used>>

-----------------------------------------------------------------------------
RbacInit ==
  /\ \E t \in Tables :
       /\ users = t.users /\ members = t.members /\ groups = t.groups /\ perms = t.perms
       /\ templates = t.templates /\ trules = t.trules /\ assigned = t.assigned
       /\ buckets = t.buckets /\ createdBy = t.createdBy
       /\ used = RowIds(t.users) \cup t.groups \cup RowIds(t.perms) \cup t.templates
                   \cup RowIds(t.trules) \cup RowIds(t.assigned)
  /\ req = [p \in Procs |-> Idle] /\ asking = 0

RbacSteps(p) ==
  \/ \E u \in Users : RequireUser(p, u)
  \/ GateInternal(p) \/ ReadGroups(p) \/ ReadRules(p) \/ ReadTemplates(p)
  \/ \E b \in SeenBuckets \cup {NoBucket}, path \in Paths, action \in Acts : Decide(p, b, path, action)
  \/ RequireAdmin(p) \/ RbacEnds(p)
  \/ CreatePermission(p) \/ LoadPermission(p) \/ UpdatePermission(p) \/ DeletePermission(p)
  \/ CreateTemplate(p) \/ LoadTemplate(p) \/ InsertTemplateRule(p) \/ LoadTemplateRule(p)
  \/ UpdateTemplateRule(p) \/ DeleteTemplateRule(p) \/ DeleteTemplate(p)
  \/ CreateAssignment(p) \/ DeleteAssignment(p)
  \/ CreateGroup(p) \/ DeleteGroup(p) \/ LoadGroup(p) \/ AddMember(p) \/ RemoveMember(p)
  \/ CreateUser(p) \/ UpdateUser(p) \/ DeleteUser(p) \/ Upsert(p) \/ DropBucket(p)

RbacNext == \E p \in Procs : RbacSteps(p)

RbacSpec == RbacInit /\ [][RbacNext]_<<req, rbacVars>>

-----------------------------------------------------------------------------
(* Properties *)

(* The rules there are: a permission is one of its subject, the rules of a  *)
(* template are rules of whoever it is assigned to.                         *)
RulesNow ==
  {perms[i] : i \in RowIds(perms)}
    \cup {Rule(assigned[x[1]].subject, trules[x[2]]) :
            x \in {y \in RowIds(assigned) \X RowIds(trules) :
                     assigned[y[1]].template = trules[y[2]].template}}

Entitled(u, b, path, action) ==
  LET who == Who(u, users[u].role, GroupsOf(u)) IN
  Decision({r \in RulesNow : r.subject \in who}, who, IsCreator(u, b), b, path, action)

(* A decision during which no table changed is the one the tables call for, *)
(* although groups are read once by GroupIDs and twice within LoadRules, and *)
(* rules of templates come under another subject (check.go:43-68,           *)
(* store.go:320-375).                                                       *)
DecisionsAreRight ==
  \A p \in Procs :
    At(p, "decided") /\ ~req[p].stale =>
      LET r == req[p] IN r.allowed = Entitled(r.user, r.bucket, r.path, r.action)

(* No permission on a bucket holds bucket_create, although an update checks *)
(* what it merged from a row that others may have rewritten since           *)
(* (permissions.go:166-196).                                                *)
BucketCreateIsAccountWide ==
  \A i \in RowIds(perms) : scopeOK(perms[i])
=============================================================================
