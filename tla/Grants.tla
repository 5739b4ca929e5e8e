------------------------------- MODULE Grants -------------------------------
(***************************************************************************)
(* Buckets and the grants that make them visible: internal/bucket creates  *)
(* and removes them for the console, internal/project replaces the grants  *)
(* of an account, and deletes accounts, for operations.                    *)
(*                                                                         *)
(* A creation is a series of statements and storage calls that undoes what *)
(* it did when one fails.  A replacement holds the one transaction of this *)
(* code: at READ COMMITTED it sees what is committed, waits for rows that  *)
(* others have changed, and may be chosen as the victim of a deadlock.  So *)
(* may a deletion, which locks its row and then the grants that go with it.*)
(***************************************************************************)
EXTENDS Requests

CONSTANTS
  Accounts,     \* tenant_users.id of accounts
  BucketNames,  \* names of buckets
  BucketIds,    \* buckets.id, from a sequence that does not run out
  MaxRequests   \* bound: requests that begin

ASSUME GrantsAssumption ==
  /\ BucketIds \subseteq Nat /\ MaxRequests \in Nat
  /\ None \notin BucketNames /\ "gone" \notin BucketNames /\ None # "gone"

VARIABLES
  accounts,   \* accounts there are
  rows,       \* rows of buckets: id -> name, None before there is one, "gone"
  stored,     \* names of the buckets in storage
  grants,     \* committed rows of account_bucket_grants: "no", "local", "ops"
  created,    \* history: account and bucket of the creations that succeeded
  wanted,     \* history: what the last replacement named, if it was lone
  begun,      \* how many requests have begun
  spoiled     \* history: names whose removal overlapped with another use of
              \* the row, or stopped between storage and row

grantVars == <<accounts, rows, stored, grants, created, wanted, begun, spoiled>>

-----------------------------------------------------------------------------
(* Types *)

(* A creation or a removal, and the bucket it carries. *)
Carrying == [pc : {"grantlocal", "ensurestore", "configure", "undostore",
                   "dropstore", "droprow", "cascade"},
             acct : Accounts, id : BucketIds, name : BucketNames]

(* A replacement.  names: those Ensure has yet to see; old: what       *)
(* OpsGrantIDs returned, in the end those not named again; ids: what Ensure  *)
(* returned; todo: what the current loop has left; del, ins: what the        *)
(* transaction has done; lone: whether no other request has changed a grant  *)
(* since the transaction began.                                              *)
Replacing == [pc : {"ensure", "clear", "insert", "unbound", "purge"}, acct : Accounts,
              names : SUBSET BucketNames, old : SUBSET BucketIds, ids : SUBSET BucketIds,
              todo : SUBSET BucketIds, del : SUBSET BucketIds, ins : SUBSET BucketIds,
              lone : BOOLEAN]

(* The deletion of an account.  todo: the grants the cascade has left; del: *)
(* those it has deleted.                                                     *)
Leaving == [pc : {"lockuser", "dropgrants"}, acct : Accounts,
            todo : SUBSET BucketIds, del : SUBSET BucketIds]

GrantsTypeOK ==
  /\ accounts \subseteq Accounts
  /\ rows \in [BucketIds -> BucketNames \cup {None, "gone"}]
  /\ stored \subseteq BucketNames
  /\ grants \in [Accounts -> [BucketIds -> {"no", "local", "ops"}]]
  /\ req \in [Procs -> {Idle} \cup Carrying \cup Replacing \cup Leaving]
  /\ created \subseteq Accounts \X BucketIds
  /\ wanted \in [Accounts -> (SUBSET BucketIds) \cup {None}]
  /\ begun \in 0 .. MaxRequests
  /\ spoiled \subseteq BucketNames

-----------------------------------------------------------------------------
(* Rows and locks *)

There(i) == rows[i] \in BucketNames

Named(n) == {i \in BucketIds : rows[i] = n}

(* Also a mutation: the DELETE without AND NOT local. *)
AllGrants(a) == {i \in BucketIds : grants[a][i] # "no"}

OpsGrants(a) == {i \in BucketIds : grants[a][i] = "ops"}

Unbound(i) == \A a \in Accounts : grants[a][i] = "no"

(* The foreign keys of a grant. *)
KeysHold(p, i) == req[p].acct \in accounts /\ There(i)

NextId(i) == rows[i] = None /\ \A j \in BucketIds : rows[j] = None => i <= j

Carries(p, i) == req[p].pc \in {"grantlocal", "ensurestore", "configure", "undostore",
                                "dropstore", "droprow", "cascade"} /\ req[p].id = i

InTx(p) == req[p].pc \in {"clear", "insert"}

(* The bucket's row is locked by its deletion, which goes on to the grants. *)
Deleting(p, i) == At(p, "cascade") /\ req[p].id = i

(* An inserted grant holds a key share lock on the bucket's row. *)
Inserted(p, i) == InTx(p) /\ i \in req[p].ins

Cleared(p, i) == (InTx(p) \/ At(p, "dropgrants")) /\ i \in req[p].del

Holds(p, a, i) == (Inserted(p, i) \/ Cleared(p, i)) /\ req[p].acct = a

(* So does it on the row of its account, which the account's deletion locks. *)
SharesUser(p, a) == InTx(p) /\ req[p].acct = a /\ req[p].ins # {}

LocksUser(p, a) == At(p, "dropgrants") /\ req[p].acct = a

Conflicts(p, i) == grants[req[p].acct][i] # "no" /\ ~Cleared(p, i)

(* Whom p waits for before its statement can go on with bucket i. *)
BlockersOn(p, i) ==
  {q \in Procs \ {p} :
     CASE At(p, "droprow") -> Inserted(q, i) \/ Deleting(q, i)
       [] At(p, "cascade") -> Cleared(q, i)
       [] At(p, "ensure") -> Deleting(q, i)
       [] At(p, "clear") \/ At(p, "dropgrants") -> Holds(q, req[p].acct, i)
       [] OTHER -> \/ Deleting(q, i) \/ Holds(q, req[p].acct, i)
                   \/ LocksUser(q, req[p].acct) /\ ~Conflicts(p, i)}

Free(p, i) == BlockersOn(p, i) = {}

(* What p's statement still has to touch inside locks that others wait for. *)
Ahead(p) == IF InTx(p) \/ At(p, "dropgrants") THEN req[p].todo
            ELSE IF req[p].pc \in {"grantlocal", "droprow", "cascade"} THEN {req[p].id} ELSE {}

Blocked(p) == Ahead(p) # {} /\ \A i \in Ahead(p) : ~Free(p, i)

Blockers(p) == UNION {BlockersOn(p, i) : i \in Ahead(p)}

(* p takes up r.  The grants of account a that have been deleted meanwhile   *)
(* are no longer there for the DELETEs that have seen them, even if they     *)
(* have been inserted again; and nobody's transaction is lone.               *)
MovesAmid(p, r, a, deleted) ==
  req' = [q \in Procs |->
            IF q = p THEN r
            ELSE IF req[q].pc \in {"clear", "insert", "unbound", "purge"}
              THEN [req[q] EXCEPT
                      !.lone = FALSE,
                      !.todo = IF At(q, "clear") /\ req[q].acct = a THEN @ \ deleted ELSE @]
              ELSE req[q]]

-----------------------------------------------------------------------------
(* POST /api/buckets *)

Begins == begun < MaxRequests /\ begun' = begun + 1

Carry(a, i, n) == [pc |-> "grantlocal", acct |-> a, id |-> i, name |-> n]

Insert(p, a, n) ==
  /\ At(p, "idle") /\ Begins /\ a \in accounts /\ Named(n) = {}
  /\ \A q \in Procs : ~LocksUser(q, a)
  /\ \E i \in BucketIds :
       /\ NextId(i)
       /\ rows' = [rows EXCEPT ![i] = n]
       /\ Moves(p, Carry(a, i, n))
  /\ UNCHANGED <<accounts, stored, grants, created, wanted, spoiled>>

(* ON CONFLICT DO NOTHING: a grant that is there already stays what it is. *)
AsLocal(g) == IF g = "no" THEN "local" ELSE g

GrantLocal(p) ==
  /\ At(p, "grantlocal") /\ Free(p, req[p].id)
  /\ KeysHold(p, req[p].id)
  /\ grants' = [grants EXCEPT ![req[p].acct][req[p].id] = AsLocal(@)]
  /\ MovesAmid(p, [req[p] EXCEPT !.pc = "ensurestore"], req[p].acct, {})
  /\ UNCHANGED <<begun, accounts, rows, stored, created, wanted, spoiled>>

GrantLocalFails(p) ==
  /\ At(p, "grantlocal") /\ Goes(p, "droprow")
  /\ UNCHANGED grantVars

EnsureBucket(p) ==
  /\ At(p, "ensurestore")
  /\ stored' = stored \cup {req[p].name} /\ Goes(p, "configure")
  /\ UNCHANGED <<begun, accounts, rows, grants, created, wanted, spoiled>>

(* Mutation: the error is only logged. *)
EnsureBucketFailsOpen(p) ==
  /\ At(p, "ensurestore") /\ Goes(p, "configure")
  /\ UNCHANGED grantVars

(* A creation that is reported as failed may have happened. *)
EnsureBucketFails(p) ==
  /\ At(p, "ensurestore") /\ Goes(p, "droprow")
  /\ stored' \in {stored, stored \cup {req[p].name}}
  /\ UNCHANGED <<begun, accounts, rows, grants, created, wanted, spoiled>>

(* The CORS rules, versioning and logging. *)
Configure(p) ==
  /\ At(p, "configure") /\ Ends(p)
  /\ created' = created \cup {<<req[p].acct, req[p].id>>}
  /\ UNCHANGED <<begun, accounts, rows, stored, grants, wanted, spoiled>>

ConfigureFails(p) ==
  /\ At(p, "configure") /\ Goes(p, "undostore")
  /\ UNCHANGED grantVars

UndoBucket(p) ==
  /\ At(p, "undostore") /\ Goes(p, "droprow")
  /\ stored' \in {stored, stored \ {req[p].name}}
  /\ UNCHANGED <<begun, accounts, rows, grants, created, wanted, spoiled>>

-----------------------------------------------------------------------------
(* DELETE /api/buckets/{bucket_name} *)

Load(p, a, i) ==
  /\ At(p, "idle") /\ Begins /\ a \in accounts /\ There(i) /\ grants[a][i] # "no"
  /\ Moves(p, [Carry(a, i, rows[i]) EXCEPT !.pc = "dropstore"])
  /\ spoiled' = IF \E q \in Procs : Carries(q, i) THEN spoiled \cup {rows[i]} ELSE spoiled
  /\ UNCHANGED <<accounts, rows, stored, grants, created, wanted>>

(* ErrNotFound is as good as success. *)
DeleteBucket(p) ==
  /\ At(p, "dropstore") /\ Goes(p, "droprow")
  /\ stored' = stored \ {req[p].name}
  /\ UNCHANGED <<begun, accounts, rows, grants, created, wanted, spoiled>>

DeleteBucketFails(p) ==
  /\ At(p, "dropstore") /\ Ends(p)
  /\ UNCHANGED grantVars

(* Store.Delete, of a removal or of a creation that is undone. *)
LockRow(p) ==
  /\ At(p, "droprow") /\ Free(p, req[p].id)
  /\ IF There(req[p].id) THEN Goes(p, "cascade") ELSE Ends(p)
  /\ UNCHANGED grantVars

DeleteRow(p) ==
  /\ At(p, "cascade") /\ Free(p, req[p].id)
  /\ rows' = [rows EXCEPT ![req[p].id] = "gone"]
  /\ grants' = [a \in Accounts |-> [grants[a] EXCEPT ![req[p].id] = "no"]]
  /\ MovesAmid(p, Idle, req[p].acct, {})
  /\ UNCHANGED <<begun, accounts, stored, created, wanted, spoiled>>

-----------------------------------------------------------------------------
(* PUT /internal/accounts/{username}/buckets *)

OpsGrantIDs(p, a, S) ==
  /\ At(p, "idle") /\ Begins /\ a \in accounts
  /\ Moves(p, [pc |-> "ensure", acct |-> a, names |-> S, old |-> OpsGrants(a), ids |-> {},
               todo |-> {}, del |-> {}, ins |-> {}, lone |-> TRUE])
  /\ UNCHANGED <<accounts, rows, stored, grants, created, wanted, spoiled>>

Ensure(p) ==
  /\ At(p, "ensure")
  /\ \E n \in req[p].names, i \in BucketIds :
       /\ IF Named(n) = {} THEN NextId(i) ELSE i \in Named(n) /\ Free(p, i)
       /\ rows' = [rows EXCEPT ![i] = n]
       /\ Moves(p, [req[p] EXCEPT !.names = @ \ {n}, !.ids = @ \cup {i}])
  /\ UNCHANGED <<begun, accounts, stored, grants, created, wanted, spoiled>>

(* The statement DELETE ... AND NOT local sees what is committed now. *)
BeginTx(p) ==
  /\ At(p, "ensure") /\ req[p].names = {}
  /\ Moves(p, [req[p] EXCEPT !.pc = "clear", !.todo = OpsGrants(req[p].acct)])
  /\ UNCHANGED grantVars

ClearOpsGrant(p) ==
  /\ At(p, "clear")
  /\ \E i \in req[p].todo :
       /\ Free(p, i)
       /\ Moves(p, [req[p] EXCEPT !.todo = @ \ {i},
                                  !.del = IF i \in OpsGrants(req[p].acct) THEN @ \cup {i} ELSE @])
  /\ UNCHANGED grantVars

OpsGrantsCleared(p) ==
  /\ At(p, "clear") /\ req[p].todo = {}
  /\ Moves(p, [req[p] EXCEPT !.pc = "insert", !.todo = @ \cup req[p].ids])
  /\ UNCHANGED grantVars

InsertOpsGrant(p) ==
  /\ At(p, "insert")
  /\ \E i \in req[p].todo :
       /\ Free(p, i) /\ (Conflicts(p, i) \/ KeysHold(p, i))
       /\ Moves(p, [req[p] EXCEPT !.todo = @ \ {i},
                                  !.ins = IF Conflicts(p, i) THEN @ ELSE @ \cup {i}])
  /\ UNCHANGED grantVars

(* Mutations: the statement is tried again; a state of its own. *)
InsertsAgain(p) == Goes(p, "insert")

(* The foreign keys of a grant fail; the transaction is rolled back. *)
AfterForeignKey(p) == Ends(p)

InsertOpsGrantFails(p) ==
  /\ At(p, "insert")
  /\ \E i \in req[p].todo :
       Free(p, i) /\ ~Conflicts(p, i) /\ ~KeysHold(p, i)
  /\ AfterForeignKey(p)
  /\ UNCHANGED grantVars

(* Mutation: the DELETE without its user_id. *)
CommittedForAll(r) ==
  [a \in Accounts |->
     [i \in BucketIds |-> IF a = r.acct /\ i \in r.ins THEN "ops"
                          ELSE IF i \in r.del /\ grants[a][i] = "ops" THEN "no" ELSE grants[a][i]]]

Committed(r) ==
  [grants EXCEPT ![r.acct] =
     [i \in BucketIds |-> IF i \in r.ins THEN "ops" ELSE IF i \in r.del THEN "no" ELSE @[i]]]

Commit(p) ==
  LET r == req[p] IN
  /\ At(p, "insert") /\ r.todo = {}
  /\ grants' = Committed(r)
  /\ wanted' = [wanted EXCEPT ![r.acct] = IF r.lone THEN r.ids ELSE None]
  /\ MovesAmid(p, [r EXCEPT !.pc = "unbound", !.old = @ \ r.ids, !.ids = {}, !.del = {}, !.ins = {}],
               r.acct, r.del)
  /\ UNCHANGED <<begun, accounts, rows, stored, created, spoiled>>

UnboundIDs(p) ==
  /\ At(p, "unbound")
  /\ Moves(p, [req[p] EXCEPT !.pc = "purge", !.old = {},
                             !.todo = {i \in req[p].old : There(i) /\ Unbound(i)}])
  /\ UNCHANGED grantVars

(* The object_records of the bucket go; a failure is only logged. *)
DeleteByBucket(p) ==
  /\ At(p, "purge")
  /\ \E i \in req[p].todo : Moves(p, [req[p] EXCEPT !.todo = @ \ {i}])
  /\ UNCHANGED grantVars

Replaced(p) ==
  /\ At(p, "purge") /\ req[p].todo = {} /\ Ends(p)
  /\ UNCHANGED grantVars

-----------------------------------------------------------------------------
(* DELETE /internal/accounts/{username}: one statement, its grants go with it *)

DeleteByUsername(p, a) ==
  /\ At(p, "idle") /\ Begins /\ a \in accounts
  /\ Moves(p, [pc |-> "lockuser", acct |-> a, todo |-> {}, del |-> {}])
  /\ UNCHANGED <<accounts, rows, stored, grants, created, wanted, spoiled>>

LockUser(p) ==
  LET a == req[p].acct IN
  /\ At(p, "lockuser")
  /\ \A q \in Procs \ {p} : ~SharesUser(q, a) /\ ~LocksUser(q, a)
  /\ IF a \in accounts THEN Moves(p, [req[p] EXCEPT !.pc = "dropgrants", !.todo = AllGrants(a)])
                        ELSE Ends(p)
  /\ UNCHANGED grantVars

DropGrant(p) ==
  /\ At(p, "dropgrants")
  /\ \E i \in req[p].todo :
       /\ Free(p, i)
       /\ Moves(p, [req[p] EXCEPT !.todo = @ \ {i},
                                  !.del = IF i \in AllGrants(req[p].acct) THEN @ \cup {i} ELSE @])
  /\ UNCHANGED grantVars

DeleteAccount(p) ==
  LET a == req[p].acct IN
  /\ At(p, "dropgrants") /\ req[p].todo = {}
  /\ accounts' = accounts \ {a}
  /\ grants' = [grants EXCEPT ![a] = [i \in BucketIds |-> "no"]]
  /\ wanted' = [wanted EXCEPT ![a] = None]
  /\ MovesAmid(p, Idle, a, BucketIds)
  /\ UNCHANGED <<begun, rows, stored, created, spoiled>>

-----------------------------------------------------------------------------
(* Failures, and all of it *)

(* A statement or the process fails; an open transaction is rolled back. *)
GrantsDies(p) ==
  /\ Dies(p)
  /\ spoiled' = IF req[p].pc \in {"droprow", "cascade"} THEN spoiled \cup {req[p].name} ELSE spoiled
  /\ UNCHANGED <<begun, accounts, rows, stored, grants, created, wanted>>

(* PostgreSQL ends one of the statements that wait for each other. *)
Victim(p) ==
  /\ \E S \in SUBSET Procs :
       p \in S /\ \A q \in S : Blocked(q) /\ Blockers(q) \subseteq S
  /\ GrantsDies(p)

(* Operations have granted buckets before: the first ids are theirs. *)
GrantsInit ==
  /\ accounts = Accounts
  /\ rows \in [BucketIds -> BucketNames \cup {None}]
  /\ \A i, j \in BucketIds : There(j) /\ i < j => There(i) /\ rows[i] # rows[j]
  /\ grants \in [Accounts -> [BucketIds -> {"no", "ops"}]]
  /\ \A i \in BucketIds : Unbound(i) <=> ~There(i)
  /\ stored = {rows[i] : i \in {j \in BucketIds : There(j)}} /\ created = {} /\ spoiled = {} /\ begun = 0
  /\ wanted = [a \in Accounts |-> None]
  /\ req = [p \in Procs |-> Idle]

(* The next statement or call of a request in flight. *)
GrantsStep(p) ==
  \/ GrantLocal(p) \/ GrantLocalFails(p) \/ EnsureBucket(p) \/ EnsureBucketFails(p)
  \/ Configure(p) \/ ConfigureFails(p) \/ UndoBucket(p)
  \/ DeleteBucket(p) \/ DeleteBucketFails(p) \/ LockRow(p) \/ DeleteRow(p)
  \/ Ensure(p) \/ BeginTx(p) \/ ClearOpsGrant(p) \/ OpsGrantsCleared(p)
  \/ InsertOpsGrant(p) \/ InsertOpsGrantFails(p) \/ Commit(p)
  \/ UnboundIDs(p) \/ DeleteByBucket(p) \/ Replaced(p)
  \/ LockUser(p) \/ DropGrant(p) \/ DeleteAccount(p)

GrantsNext ==
  \E p \in Procs :
    \/ GrantsStep(p) \/ GrantsDies(p) \/ Victim(p)
    \/ \E a \in Accounts : \/ \E n \in BucketNames : Insert(p, a, n)
                           \/ \E i \in BucketIds : Load(p, a, i)
                           \/ \E S \in SUBSET BucketNames : OpsGrantIDs(p, a, S)
                           \/ DeleteByUsername(p, a)

(* Row locks queue first come, first served, so a request that gets its turn *)
(* again and again takes it; a deadlock is resolved after deadlock_timeout.  *)
GrantsFairness ==
  /\ \A p \in Procs : SF_<<grantVars, req>>(GrantsStep(p))
  /\ WF_<<grantVars, req>>(\E p \in Procs : Victim(p))

GrantsSafe == GrantsInit /\ [][GrantsNext]_<<grantVars, req>>

GrantsSpec == GrantsSafe /\ GrantsFairness

-----------------------------------------------------------------------------
(* Properties *)

(* A local grant ends only with its bucket or its account: whatever          *)
(* operations replace, and however replacements, creations and removals      *)
(* overlap, the DELETE of internal/bucket/store.go:169 leaves it.            *)
LocalGrantStays ==
  [][\A a \in Accounts, i \in BucketIds :
       grants[a][i] = "local" /\ grants'[a][i] # "local" => rows'[i] = "gone" \/ a \notin accounts'
    ]_<<grantVars, req>>

(* After a replacement that no other change of grants overlapped, the        *)
(* account has the grants of operations it named and no others, until the    *)
(* next one: nothing that creations, removals, other accounts or failed      *)
(* replacements do adds or takes one (store.go:163-180).                     *)
LatestReplaceRules ==
  \A a \in Accounts :
    wanted[a] # None =>
      /\ OpsGrants(a) \subseteq wanted[a]
      /\ \A i \in wanted[a] : There(i) => grants[a][i] # "no"

(* A bucket that was created has its storage as long as it has its row,      *)
(* except while it is removed, or when removals overlapped or stopped:       *)
(* storage is deleted before the row and undone in the reverse order of its  *)
(* making, so that neither leaves a visible bucket behind that is not there  *)
(* (bucket/handler.go:189-218, 308-329).                                     *)
RowsHaveBuckets ==
  \A c \in created :
    LET i == c[2] IN
    There(i) /\ rows[i] \notin spoiled /\ (\A p \in Procs : ~Carries(p, i) \/ At(p, "dropstore"))
      => rows[i] \in stored

(* Every request ends, whoever waits for whose rows: deadlocks are broken    *)
(* and nothing is retried for ever.                                          *)
EveryRequestEnds == \A p \in Procs : []<>At(p, "idle")

(* README.md:55: the bucket an account has created in the console keeps its  *)
(* grant when operations change the grants.                                  *)
OwnBucketsStay ==
  \A c \in created : c[1] \in accounts /\ There(c[2]) => grants[c[1]][c[2]] # "no"
=============================================================================
