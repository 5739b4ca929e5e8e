---------------------------- MODULE Grants_proofs ----------------------------
(***************************************************************************)
(* The theorems of Grants and BucketSettings, for any number of requests,  *)
(* accounts, buckets, names and settings, and any bound on the requests    *)
(* that begin.                                                             *)
(*                                                                         *)
(* What a transaction has deleted and inserted stays as it saw it because  *)
(* the rows are locked (Exclusive), and what it has not touched only as    *)
(* long as it is lone.  A step that changes a grant ends that for every    *)
(* other replacement (Loses), so that of these only the locked rows have   *)
(* to be looked at (LosingFits).  The deletion of an account takes with it *)
(* the grants it has locked and no others, because it has the account's    *)
(* row (UsersLocked).                                                      *)
(*                                                                         *)
(* That created buckets are stored rests on who carries a bucket (RowsInv):*)
(* until its name is spoiled, a row has one creation or one removal at     *)
(* work on it, and storage goes only with the one that drops it.           *)
(*                                                                         *)
(* That storage does what the row says of the settings rests on what a     *)
(* request that nothing overlaps has told storage when it gets where it is *)
(* (Sound), and that telling it settings twice, or those it was not told   *)
(* because they had not changed, makes no difference (AppliedTwice,        *)
(* SameLog).                                                               *)
(***************************************************************************)
EXTENDS Grants, BucketSettings, TLAPS

-----------------------------------------------------------------------------
(* The inductive invariant *)

GrantsRequest == {Idle} \cup Carrying \cup Replacing \cup Leaving

After == {"clear", "insert", "unbound", "purge"}

(* The grants that a transaction holds. *)
Held(r) == r.del \cup r.ins

(* What is true of the request r. *)
GrantFits(r) ==
  /\ r \in GrantsRequest
  /\ r.pc \in {"ensure", "clear"} => r.ins = {}
  /\ r.pc = "ensure" => r.del = {}
  /\ r.pc \in {"ensure", "clear", "insert"} => \A i \in r.ids : rows[i] # None
  /\ r.pc \in {"clear", "insert"} =>
       /\ \A i \in r.del : grants[r.acct][i] = "ops"
       /\ \A i \in r.ins : grants[r.acct][i] = "no" \/ i \in r.del
  /\ r.pc = "clear" /\ r.lone => OpsGrants(r.acct) \subseteq r.del \cup r.todo
  /\ r.pc = "insert" => r.ins \subseteq r.ids /\ r.todo \subseteq r.ids
  /\ r.pc = "insert" /\ r.lone =>
       /\ OpsGrants(r.acct) \subseteq r.del
       /\ \A i \in r.ids : i \in r.todo \cup r.ins \/ (grants[r.acct][i] # "no" /\ i \notin r.del)
  /\ r.pc = "lockuser" => r.del = {}
  /\ r.pc = "dropgrants" => \A i \in BucketIds : grants[r.acct][i] # "no" => i \in r.todo \cup r.del

GrantsFit == \A p \in Procs : GrantFits(req[p])

(* No two transactions hold the same grant. *)
Exclusive ==
  \A p, q \in Procs :
    p # q /\ InTx(p) /\ InTx(q) /\ req[p].acct = req[q].acct => Held(req[p]) \cap Held(req[q]) = {}

(* Who deletes an account is alone with it: it has the locked row, no        *)
(* transaction has inserted a grant, and none has deleted one that it has.   *)
UsersLocked ==
  \A p, q \in Procs :
    p # q /\ At(p, "dropgrants") /\ req[q].acct = req[p].acct =>
      /\ ~At(q, "dropgrants")
      /\ InTx(q) => req[q].ins = {} /\ req[q].del \cap req[p].del = {}

(* What was wanted had its row. *)
WantedHadRows == \A a \in Accounts : wanted[a] # None => \A i \in wanted[a] : rows[i] # None

GrantsInv ==
  GrantsTypeOK /\ GrantsFit /\ Exclusive /\ UsersLocked /\ WantedHadRows /\ LatestReplaceRules

-----------------------------------------------------------------------------
(* Requests that move *)

LEMMA GrantsRequestTypes ==
  ASSUME NEW r \in GrantsRequest
  PROVE  /\ r.pc \in After \cup {"ensure"} => r \in Replacing
         /\ r.pc \in {"grantlocal", "ensurestore", "configure", "undostore", "dropstore",
                      "droprow", "cascade"} => r \in Carrying
         /\ r.pc \in {"lockuser", "dropgrants"} => r \in Leaving
BY DEF GrantsRequest, After, Idle, Carrying, Replacing, Leaving

LEMMA GrantsMoved ==
  ASSUME GrantsTypeOK, NEW p \in Procs, NEW r, Moves(p, r)
  PROVE  /\ req'[p] = r
         /\ \A q \in Procs : q # p => req'[q] = req[q]
         /\ r \in GrantsRequest => req' \in [Procs -> GrantsRequest]
BY DEF GrantsTypeOK, Moves, GrantsRequest

(* A row that is there is not unmade. *)
RowsKept == \A i \in BucketIds : rows[i] # None => rows'[i] # None

(* q is as before, but if it is a replacement it is not lone any more, and  *)
(* may have less to do.                                                     *)
Loses(q) ==
  \/ req[q].pc \notin After /\ req'[q] = req[q]
  \/ /\ req[q].pc \in After /\ req'[q] \in Replacing
     /\ req'[q].pc = req[q].pc /\ req'[q].acct = req[q].acct /\ req'[q].ids = req[q].ids
     /\ req'[q].del = req[q].del /\ req'[q].ins = req[q].ins
     /\ req'[q].todo \subseteq req[q].todo /\ req'[q].lone = FALSE

LEMMA LosingFits ==
  ASSUME GrantsInv, NEW q \in Procs, Loses(q), RowsKept,
         InTx(q) => \A i \in Held(req[q]) :
                      \/ grants'[req[q].acct][i] = grants[req[q].acct][i]
                      \/ i \notin req[q].del /\ grants'[req[q].acct][i] = "no",
         At(q, "dropgrants") =>
           \A i \in BucketIds : grants[req[q].acct][i] = "no" => grants'[req[q].acct][i] = "no"
  PROVE  GrantFits(req[q])'
<1>1. GrantFits(req[q])
  BY DEF GrantsInv, GrantsFit
<1>2. CASE req[q].pc \notin After
  <2>1. req'[q] = req[q]
    BY <1>2 DEF Loses
  <2>2. req[q].pc = "ensure" => req[q].ids \subseteq BucketIds
    BY <1>1, GrantsRequestTypes DEF GrantFits, Replacing
  <2>3. req[q].pc = "ensure" => \A i \in req[q].ids : rows'[i] # None
    BY <1>1, <2>2 DEF GrantFits, RowsKept
  <2>4. QED
    BY <1>1, <1>2, <2>1, <2>3 DEF GrantFits, After, At
<1>3. CASE req[q].pc \in After
  <2>1. /\ req'[q] \in Replacing
        /\ req'[q].pc = req[q].pc /\ req'[q].acct = req[q].acct /\ req'[q].ids = req[q].ids
        /\ req'[q].del = req[q].del /\ req'[q].ins = req[q].ins
        /\ req'[q].todo \subseteq req[q].todo /\ req'[q].lone = FALSE
    BY <1>3 DEF Loses
  <2>2. req[q] \in Replacing
    BY <1>1, <1>3, GrantsRequestTypes DEF GrantFits
  <2>3. req[q].pc \in {"clear", "insert"} => \A i \in req[q].ids : rows'[i] # None
    BY <1>1, <2>2 DEF GrantFits, RowsKept, Replacing
  <2>4. req[q].pc \in {"clear", "insert"} =>
          /\ \A i \in req[q].del : grants'[req[q].acct][i] = "ops"
          /\ \A i \in req[q].ins : grants'[req[q].acct][i] = "no" \/ i \in req[q].del
    BY <1>1 DEF GrantFits, InTx, At, Held
  <2>5. QED
    BY <1>1, <1>3, <2>1, <2>3, <2>4 DEF GrantFits, GrantsRequest, After
<1>4. QED
  BY <1>2, <1>3

(* What MovesAmid does. *)
LEMMA Amid ==
  ASSUME GrantsInv, NEW p \in Procs, NEW r \in GrantsRequest, NEW a, NEW D, MovesAmid(p, r, a, D)
  PROVE  /\ req'[p] = r
         /\ \A q \in Procs : q # p => Loses(q)
         /\ req' \in [Procs -> GrantsRequest]
<1>1. req'[p] = r /\ req' = [q \in Procs |-> req'[q]]
  BY DEF MovesAmid
<1>2. ASSUME NEW q \in Procs, q # p
      PROVE  Loses(q) /\ req'[q] \in GrantsRequest
  <2>0. req[q] \in GrantsRequest
    BY DEF GrantsInv, GrantsFit, GrantFits
  <2>1. CASE req[q].pc \notin After
    BY <2>0, <2>1, <1>2 DEF MovesAmid, Loses, After
  <2>2. CASE req[q].pc \in After
    <3> DEFINE rest == IF At(q, "clear") /\ req[q].acct = a THEN req[q].todo \ D ELSE req[q].todo
               new == [req[q] EXCEPT !.lone = FALSE, !.todo = rest]
    <3>1. req'[q] = new
      BY <2>2, <1>2 DEF MovesAmid, After
    <3>2. req[q] \in Replacing
      BY <2>0, <2>2, GrantsRequestTypes
    <3>3. rest \subseteq req[q].todo /\ rest \subseteq BucketIds
      BY <3>2 DEF Replacing
    <3> HIDE DEF rest
    <3>4. /\ new \in Replacing /\ new.lone = FALSE /\ new.todo = rest
          /\ new.pc = req[q].pc /\ new.acct = req[q].acct /\ new.ids = req[q].ids
          /\ new.del = req[q].del /\ new.ins = req[q].ins
      BY <3>2, <3>3 DEF Replacing
    <3>5. QED
      BY <2>2, <3>1, <3>3, <3>4 DEF Loses, GrantsRequest
  <2>3. QED
    BY <2>1, <2>2
<1>3. QED
  BY <1>1, <1>2

(* The requests hold no more than before, but for what nobody else held. *)
LEMMA StaysExclusive ==
  ASSUME GrantsInv, NEW p \in Procs, \A q \in Procs : q # p => Loses(q) \/ req'[q] = req[q],
         InTx(p)' => \A i \in Held(req'[p]) :
           \/ InTx(p) /\ req'[p].acct = req[p].acct /\ i \in Held(req[p])
           \/ \A q \in Procs : q # p /\ InTx(q) /\ req[q].acct = req'[p].acct => i \notin Held(req[q])
  PROVE  Exclusive'
<1>1. \A q \in Procs : q # p /\ InTx(q)' =>
        InTx(q) /\ req'[q].acct = req[q].acct /\ Held(req'[q]) = Held(req[q])
  BY DEF Loses, InTx, At, Held, After
<1>2. QED
  BY <1>1 DEF GrantsInv, Exclusive

(* What p does not do to who deletes its account, nor to the transactions on *)
(* the account that it deletes.                                              *)
LocksFit(p) ==
  /\ At(p, "dropgrants")' =>
       \A q \in Procs : q # p /\ req[q].acct = req'[p].acct =>
         /\ ~At(q, "dropgrants")
         /\ InTx(q) => req[q].ins = {} /\ req[q].del \cap req'[p].del = {}
  /\ InTx(p)' =>
       \A q \in Procs : q # p /\ LocksUser(q, req'[p].acct) =>
         req'[p].ins = {} /\ req'[p].del \cap req[q].del = {}

LEMMA StaysLocked ==
  ASSUME GrantsInv, NEW p \in Procs, \A q \in Procs : q # p => Loses(q) \/ req'[q] = req[q],
         LocksFit(p)
  PROVE  UsersLocked'
<1>1. \A q \in Procs : q # p =>
        /\ At(q, "dropgrants")' => At(q, "dropgrants") /\ req'[q] = req[q]
        /\ InTx(q)' => InTx(q) /\ req'[q].ins = req[q].ins /\ req'[q].del = req[q].del
        /\ At(q, "dropgrants")' \/ InTx(q)' => req'[q].acct = req[q].acct
  BY DEF Loses, InTx, At, After
<1> SUFFICES ASSUME NEW q \in Procs, NEW t \in Procs, q # t, At(q, "dropgrants")',
                    req'[t].acct = req'[q].acct
             PROVE  /\ ~At(t, "dropgrants")'
                    /\ InTx(t)' => req'[t].ins = {} /\ req'[t].del \cap req'[q].del = {}
  BY DEF UsersLocked
<1>2. CASE q # p /\ t # p
  BY <1>1, <1>2 DEF GrantsInv, UsersLocked
<1>3. CASE q = p
  BY <1>1, <1>3 DEF LocksFit
<1>4. CASE t = p
  <2>1. At(q, "dropgrants") /\ req'[q] = req[q]
    BY <1>1, <1>4
  <2>2. ~At(p, "dropgrants")'
    BY <1>4, <2>1 DEF LocksFit
  <2>3. QED
    BY <1>4, <2>1, <2>2 DEF LocksFit, LocksUser
<1>5. QED
  BY <1>2, <1>3, <1>4

-----------------------------------------------------------------------------
(* Steps that change no grant *)

RowsStay == \A i \in BucketIds : rows[i] # None => rows'[i] = rows[i]

(* The types of what no replacement looks at. *)
RestTypeOK ==
  /\ rows \in [BucketIds -> BucketNames \cup {None, "gone"}]
  /\ stored \subseteq BucketNames
  /\ created \subseteq Accounts \X BucketIds
  /\ begun \in 0 .. MaxRequests
  /\ spoiled \subseteq BucketNames

LEMMA OwnGrantsStep ==
  ASSUME GrantsInv, NEW p \in Procs, NEW r \in GrantsRequest, Moves(p, r),
         UNCHANGED <<grants, wanted, accounts>>, RowsStay, RestTypeOK', GrantFits(req[p])',
         InTx(p)' => \A i \in Held(req'[p]) :
           \/ InTx(p) /\ req'[p].acct = req[p].acct /\ i \in Held(req[p])
           \/ \A q \in Procs : q # p /\ InTx(q) /\ req[q].acct = req'[p].acct => i \notin Held(req[q]),
         LocksFit(p)
  PROVE  GrantsInv'
<1> USE DEF GrantsInv
<1>1. (\A q \in Procs : q # p => req'[q] = req[q]) /\ req' \in [Procs -> GrantsRequest]
  BY GrantsMoved
<1>2. RowsKept
  BY DEF RowsStay, RowsKept
<1>3. GrantsFit'
  <2> SUFFICES ASSUME NEW q \in Procs, q # p
               PROVE  GrantFits(req[q])'
    BY DEF GrantsFit
  <2>1. GrantFits(req[q]) /\ req'[q] = req[q]
    BY <1>1 DEF GrantsFit
  <2>2. req[q].pc \in {"ensure", "clear", "insert"} => \A i \in req[q].ids : rows'[i] # None
    BY <1>2, <2>1, GrantsRequestTypes DEF GrantFits, RowsKept, Replacing, After
  <2>3. QED
    BY <2>1, <2>2 DEF GrantFits, OpsGrants
<1>4. Exclusive' /\ UsersLocked'
  BY <1>1, StaysExclusive, StaysLocked
<1>5. WantedHadRows'
  BY <1>2 DEF WantedHadRows, RowsKept, GrantsTypeOK
<1>6. LatestReplaceRules'
  <2> SUFFICES ASSUME NEW a \in Accounts, wanted[a] # None
               PROVE  /\ OpsGrants(a)' \subseteq wanted[a]
                      /\ \A i \in wanted[a] : There(i)' => grants[a][i] # "no"
    BY DEF LatestReplaceRules
  <2>1. wanted[a] \subseteq BucketIds
    BY DEF GrantsTypeOK
  <2>2. \A i \in wanted[a] : There(i)' => There(i)
    BY <2>1 DEF WantedHadRows, RowsStay, There
  <2>3. QED
    BY <2>2 DEF LatestReplaceRules, OpsGrants
<1>7. GrantsTypeOK'
  BY <1>1 DEF GrantsTypeOK, RestTypeOK, GrantsRequest
<1>8. QED
  BY <1>3, <1>4, <1>5, <1>6, <1>7

LEMMA PlainStep ==
  ASSUME GrantsInv, NEW p \in Procs, NEW r \in {Idle} \cup Carrying, Moves(p, r),
         UNCHANGED <<grants, wanted, accounts>>, RowsStay, RestTypeOK'
  PROVE  GrantsInv'
<1>1. r \in GrantsRequest /\ r.pc \notin After \cup {"ensure", "lockuser", "dropgrants"}
  BY DEF GrantsRequest, Idle, Carrying, After
<1>2. req'[p] = r
  BY <1>1, GrantsMoved DEF GrantsInv
<1>3. GrantFits(req[p])' /\ ~InTx(p)' /\ LocksFit(p)
  BY <1>1, <1>2 DEF GrantFits, After, InTx, At, LocksFit
<1>4. QED
  BY <1>1, <1>3, OwnGrantsStep

(* A creation or removal at its next point. *)
LEMMA CarryingGoes ==
  ASSUME GrantsInv, NEW p \in Procs,
         req[p].pc \in {"grantlocal", "ensurestore", "configure", "undostore", "dropstore",
                        "droprow", "cascade"},
         NEW point \in {"ensurestore", "configure", "undostore", "droprow", "cascade"}
  PROVE  /\ [req[p] EXCEPT !.pc = point] \in Carrying
         /\ req[p] \in Carrying /\ req[p].acct \in Accounts /\ req[p].id \in BucketIds
         /\ req[p].name \in BucketNames
<1>1. req[p] \in Carrying
  BY GrantsRequestTypes DEF GrantsInv, GrantsFit, GrantFits
<1>2. QED
  BY <1>1 DEF Carrying

LEMMA RestStays ==
  ASSUME GrantsInv, UNCHANGED <<rows, stored, created, begun, spoiled>>
  PROVE  RowsStay /\ RestTypeOK'
BY DEF GrantsInv, GrantsTypeOK, RowsStay, RestTypeOK

LEMMA CreateSteps ==
  ASSUME GrantsInv, NEW p \in Procs,
         \/ GrantLocalFails(p) \/ EnsureBucket(p) \/ EnsureBucketFails(p) \/ Configure(p)
         \/ ConfigureFails(p) \/ UndoBucket(p)
  PROVE  GrantsInv'
<1>1. /\ req[p].pc \in {"grantlocal", "ensurestore", "configure", "undostore"}
      /\ UNCHANGED <<grants, wanted, accounts, rows, begun, spoiled>>
  BY DEF GrantLocalFails, EnsureBucket, EnsureBucketFails, Configure, ConfigureFails, UndoBucket,
         At, grantVars
<1>2. req[p].acct \in Accounts /\ req[p].id \in BucketIds /\ req[p].name \in BucketNames
  BY <1>1, CarryingGoes
<1>3. stored' \subseteq BucketNames /\ created' \subseteq Accounts \X BucketIds
  BY <1>2 DEF GrantsInv, GrantsTypeOK, GrantLocalFails, EnsureBucket, EnsureBucketFails, Configure,
              ConfigureFails, UndoBucket, grantVars
<1>4. RowsStay /\ RestTypeOK'
  BY <1>1, <1>3 DEF GrantsInv, GrantsTypeOK, RowsStay, RestTypeOK
<1>5. \/ Ends(p)
      \/ \E point \in {"ensurestore", "configure", "undostore", "droprow", "cascade"} : Goes(p, point)
  BY DEF GrantLocalFails, EnsureBucket, EnsureBucketFails, Configure, ConfigureFails, UndoBucket
<1>6. \E r \in {Idle} \cup Carrying : Moves(p, r)
  BY <1>1, <1>5, CarryingGoes DEF Ends, Goes
<1>7. QED
  BY <1>1, <1>4, <1>6, PlainStep

LEMMA RemoveSteps ==
  ASSUME GrantsInv, NEW p \in Procs, DeleteBucket(p) \/ DeleteBucketFails(p) \/ LockRow(p)
  PROVE  GrantsInv'
<1>1. /\ req[p].pc \in {"dropstore", "droprow"}
      /\ UNCHANGED <<grants, wanted, accounts, rows, begun, spoiled, created>>
  BY DEF DeleteBucket, DeleteBucketFails, LockRow, At, grantVars
<1>2. stored' \subseteq BucketNames
  BY DEF GrantsInv, GrantsTypeOK, DeleteBucket, DeleteBucketFails, LockRow, grantVars
<1>3. RowsStay /\ RestTypeOK'
  BY <1>1, <1>2 DEF GrantsInv, GrantsTypeOK, RowsStay, RestTypeOK
<1>4. Ends(p) \/ \E point \in {"droprow", "cascade"} : Goes(p, point)
  BY DEF DeleteBucket, DeleteBucketFails, LockRow
<1>5. \E r \in {Idle} \cup Carrying : Moves(p, r)
  BY <1>1, <1>4, CarryingGoes DEF Ends, Goes
<1>6. QED
  BY <1>1, <1>3, <1>5, PlainStep

LEMMA InsertStep ==
  ASSUME GrantsInv, NEW p \in Procs, NEW a \in Accounts, NEW n \in BucketNames, Insert(p, a, n)
  PROVE  GrantsInv'
<1>1. PICK i \in BucketIds :
        NextId(i) /\ rows' = [rows EXCEPT ![i] = n] /\ Moves(p, Carry(a, i, n))
  BY DEF Insert
<1>2. UNCHANGED <<accounts, stored, grants, created, wanted, spoiled>> /\ begun' \in 0 .. MaxRequests
  BY GrantsAssumption DEF Insert, Begins, GrantsInv, GrantsTypeOK
<1>3. Carry(a, i, n) \in Carrying
  BY DEF Carry, Carrying
<1>4. RowsStay /\ RestTypeOK'
  BY <1>1, <1>2 DEF GrantsInv, GrantsTypeOK, RowsStay, RestTypeOK, NextId
<1>5. QED
  BY <1>1, <1>2, <1>3, <1>4, PlainStep

LEMMA LoadStep ==
  ASSUME GrantsInv, NEW p \in Procs, NEW a \in Accounts, NEW i \in BucketIds, Load(p, a, i)
  PROVE  GrantsInv'
<1>1. /\ rows[i] \in BucketNames /\ Moves(p, [Carry(a, i, rows[i]) EXCEPT !.pc = "dropstore"])
      /\ UNCHANGED <<accounts, rows, stored, grants, created, wanted>>
      /\ begun' \in 0 .. MaxRequests /\ spoiled' \subseteq BucketNames
  BY GrantsAssumption DEF Load, There, Begins, GrantsInv, GrantsTypeOK
<1>2. [Carry(a, i, rows[i]) EXCEPT !.pc = "dropstore"] \in Carrying
  BY <1>1 DEF Carry, Carrying
<1>3. RowsStay /\ RestTypeOK'
  BY <1>1 DEF GrantsInv, GrantsTypeOK, RowsStay, RestTypeOK
<1>4. QED
  BY <1>1, <1>2, <1>3, PlainStep

LEMMA GrantsDiesStep ==
  ASSUME GrantsInv, NEW p \in Procs, GrantsDies(p)
  PROVE  GrantsInv'
<1>1. /\ Moves(p, Idle) /\ UNCHANGED <<begun, accounts, rows, stored, grants, created, wanted>>
      /\ req[p].pc # "idle"
  BY DEF GrantsDies, Dies, Ends, At
<1>2. spoiled' \subseteq BucketNames
  BY CarryingGoes DEF GrantsDies, GrantsInv, GrantsTypeOK
<1>3. RowsStay /\ RestTypeOK'
  BY <1>1, <1>2 DEF GrantsInv, GrantsTypeOK, RowsStay, RestTypeOK
<1>4. QED
  BY <1>1, <1>3, PlainStep

-----------------------------------------------------------------------------
(* Replacements, up to their commit and after it *)

LEMMA OpsGrantIDsStep ==
  ASSUME GrantsInv, NEW p \in Procs, NEW a \in Accounts, NEW S \in SUBSET BucketNames,
         OpsGrantIDs(p, a, S)
  PROVE  GrantsInv'
<1> DEFINE r == [pc |-> "ensure", acct |-> a, names |-> S, old |-> OpsGrants(a), ids |-> {},
                 todo |-> {}, del |-> {}, ins |-> {}, lone |-> TRUE]
<1>1. /\ Moves(p, r) /\ UNCHANGED <<accounts, rows, stored, grants, created, wanted, spoiled>>
      /\ begun' \in 0 .. MaxRequests
  BY GrantsAssumption DEF OpsGrantIDs, Begins, GrantsInv, GrantsTypeOK
<1>2. r \in Replacing /\ r.pc = "ensure" /\ r.ids = {} /\ r.del = {} /\ r.ins = {}
  BY DEF Replacing, OpsGrants
<1> HIDE DEF r
<1>3. r \in GrantsRequest /\ req'[p] = r
  BY <1>1, <1>2, GrantsMoved DEF GrantsRequest, GrantsInv
<1>4. GrantFits(req[p])' /\ ~InTx(p)' /\ LocksFit(p)
  BY <1>2, <1>3 DEF GrantFits, InTx, At, LocksFit
<1>5. RowsStay /\ RestTypeOK'
  BY <1>1 DEF GrantsInv, GrantsTypeOK, RowsStay, RestTypeOK
<1>6. QED
  BY <1>1, <1>3, <1>4, <1>5, OwnGrantsStep

LEMMA EnsureStep ==
  ASSUME GrantsInv, NEW p \in Procs, Ensure(p)
  PROVE  GrantsInv'
<1>1. PICK n \in req[p].names, i \in BucketIds :
        /\ IF Named(n) = {} THEN NextId(i) ELSE i \in Named(n) /\ Free(p, i)
        /\ rows' = [rows EXCEPT ![i] = n]
        /\ Moves(p, [req[p] EXCEPT !.names = @ \ {n}, !.ids = @ \cup {i}])
  BY DEF Ensure
<1>2. req[p].pc = "ensure" /\ UNCHANGED <<begun, accounts, stored, grants, created, wanted, spoiled>>
  BY DEF Ensure, At
<1>3. req[p] \in Replacing /\ GrantFits(req[p]) /\ n \in BucketNames
  BY <1>1, <1>2, GrantsRequestTypes DEF GrantsInv, GrantsFit, GrantFits, After, Replacing
<1> DEFINE names == req[p].names \ {n}
           ids == req[p].ids \cup {i}
           r == [req[p] EXCEPT !.names = names, !.ids = ids]
<1>4. names \subseteq BucketNames /\ ids \subseteq BucketIds
  BY <1>3 DEF Replacing
<1>5. Moves(p, r)
  BY <1>1
<1> HIDE DEF names, ids
<1>6. r \in Replacing /\ r.pc = "ensure" /\ r.ids = ids /\ r.del = {} /\ r.ins = {}
  BY <1>2, <1>3, <1>4 DEF Replacing, GrantFits
<1> HIDE DEF r
<1>7. rows[i] = None \/ rows[i] = n
  BY <1>1 DEF NextId, Named
<1>8. RowsStay /\ RestTypeOK' /\ rows'[i] = n
  BY <1>1, <1>2, <1>3, <1>7 DEF GrantsInv, GrantsTypeOK, RowsStay, RestTypeOK
<1>9. r \in GrantsRequest /\ req'[p] = r
  BY <1>5, <1>6, GrantsMoved DEF GrantsRequest, GrantsInv
<1>10. \A j \in ids : rows'[j] # None
  BY <1>2, <1>3, <1>4, <1>8, GrantsAssumption DEF ids, GrantFits, RowsStay
<1>11. GrantFits(req[p])' /\ ~InTx(p)' /\ LocksFit(p)
  BY <1>6, <1>9, <1>10 DEF GrantFits, InTx, At, LocksFit
<1>12. QED
  BY <1>2, <1>5, <1>8, <1>9, <1>11, OwnGrantsStep

LEMMA BeginTxStep ==
  ASSUME GrantsInv, NEW p \in Procs, BeginTx(p)
  PROVE  GrantsInv'
<1> DEFINE ops == OpsGrants(req[p].acct)
           r == [req[p] EXCEPT !.pc = "clear", !.todo = ops]
<1>1. req[p].pc = "ensure" /\ Moves(p, r) /\ UNCHANGED grantVars
  BY DEF BeginTx, At
<1>2. req[p] \in Replacing /\ GrantFits(req[p]) /\ ops \subseteq BucketIds
  BY <1>1, GrantsRequestTypes DEF GrantsInv, GrantsFit, GrantFits, OpsGrants
<1> HIDE DEF ops
<1>3. /\ r \in Replacing /\ r.pc = "clear" /\ r.ids = req[p].ids /\ r.del = {} /\ r.ins = {}
      /\ r.acct = req[p].acct /\ r.todo = ops
  BY <1>1, <1>2 DEF Replacing, GrantFits
<1> HIDE DEF r
<1>4. r \in GrantsRequest /\ req'[p] = r
  BY <1>1, <1>3, GrantsMoved DEF GrantsRequest, GrantsInv
<1>5. GrantFits(req[p])' /\ Held(req'[p]) = {}
  <2>1. \A j \in BucketIds : grants'[r.acct][j] = "ops" => j \in ops
    BY <1>1, <1>3 DEF ops, OpsGrants, grantVars
  <2>2. \A i \in r.ids : rows'[i] # None
    BY <1>1, <1>2, <1>3 DEF GrantFits, grantVars
  <2>3. QED
    BY <1>3, <1>4, <2>1, <2>2 DEF GrantFits, Held, OpsGrants
<1>6. RowsStay /\ RestTypeOK' /\ UNCHANGED <<grants, wanted, accounts>>
  BY <1>1, RestStays DEF grantVars
<1>7. LocksFit(p)
  BY <1>3, <1>4 DEF LocksFit, At
<1>8. QED
  BY <1>1, <1>4, <1>5, <1>6, <1>7, OwnGrantsStep

LEMMA ClearStep ==
  ASSUME GrantsInv, NEW p \in Procs, ClearOpsGrant(p)
  PROVE  GrantsInv'
<1>1. PICK i \in req[p].todo :
        /\ Free(p, i)
        /\ Moves(p, [req[p] EXCEPT !.todo = @ \ {i},
                                   !.del = IF i \in OpsGrants(req[p].acct) THEN @ \cup {i} ELSE @])
  BY DEF ClearOpsGrant
<1>2. req[p].pc = "clear" /\ UNCHANGED grantVars
  BY DEF ClearOpsGrant, At
<1>3. req[p] \in Replacing /\ GrantFits(req[p]) /\ i \in BucketIds
  BY <1>1, <1>2, GrantsRequestTypes DEF GrantsInv, GrantsFit, GrantFits, After, Replacing
<1> DEFINE todo == req[p].todo \ {i}
           del == IF i \in OpsGrants(req[p].acct) THEN req[p].del \cup {i} ELSE req[p].del
           r == [req[p] EXCEPT !.todo = todo, !.del = del]
<1>4. todo \subseteq BucketIds /\ del \subseteq BucketIds /\ Moves(p, r)
  BY <1>1, <1>3 DEF Replacing
<1> HIDE DEF todo, del
<1>5. /\ r \in Replacing /\ r.pc = "clear" /\ r.ids = req[p].ids /\ r.del = del /\ r.ins = {}
      /\ r.acct = req[p].acct /\ r.todo = todo /\ r.lone = req[p].lone
  BY <1>2, <1>3, <1>4 DEF Replacing, GrantFits
<1> HIDE DEF r
<1>6. r \in GrantsRequest /\ req'[p] = r
  BY <1>4, <1>5, GrantsMoved DEF GrantsRequest, GrantsInv
<1>7. /\ \A j \in del : grants[req[p].acct][j] = "ops"
      /\ req[p].lone => OpsGrants(req[p].acct) \subseteq del \cup todo
      /\ \A j \in del : j = i \/ j \in req[p].del
  BY <1>2, <1>3 DEF GrantFits, del, todo, OpsGrants
<1>8. GrantFits(req[p])'
  <2>1. /\ \A j \in r.del : grants'[r.acct][j] = "ops"
        /\ \A j \in r.ids : rows'[j] # None
        /\ r.lone => \A j \in BucketIds : grants'[r.acct][j] = "ops" => j \in r.del \cup r.todo
    BY <1>2, <1>3, <1>5, <1>7 DEF GrantFits, OpsGrants, grantVars
  <2>2. QED
    BY <1>5, <1>6, <2>1 DEF GrantFits, OpsGrants
<1>9. \A j \in Held(req'[p]) :
        \/ InTx(p) /\ req'[p].acct = req[p].acct /\ j \in Held(req[p])
        \/ \A q \in Procs : q # p /\ InTx(q) /\ req[q].acct = req'[p].acct => j \notin Held(req[q])
  <2>1. \A q \in Procs : q # p /\ InTx(q) /\ req[q].acct = req[p].acct => i \notin Held(req[q])
    BY <1>1, <1>2 DEF Free, BlockersOn, At, Holds, Inserted, Cleared, Held
  <2>2. QED
    BY <2>1, <1>2, <1>5, <1>6, <1>7 DEF Held, InTx, At
<1>10. LocksFit(p)
  <2>1. \A q \in Procs : q # p /\ LocksUser(q, req[p].acct) =>
          i \notin req[q].del /\ req[p].del \cap req[q].del = {}
    BY <1>1, <1>2 DEF Free, BlockersOn, At, Holds, Cleared, InTx, LocksUser, GrantsInv, UsersLocked
  <2>2. \A q \in Procs : q # p /\ LocksUser(q, req[p].acct) => del \cap req[q].del = {}
    BY <2>1, <1>7
  <2>3. QED
    BY <2>2, <1>5, <1>6 DEF LocksFit, At
<1>11. RowsStay /\ RestTypeOK' /\ UNCHANGED <<grants, wanted, accounts>>
  BY <1>2, RestStays DEF grantVars
<1>12. QED
  BY <1>4, <1>6, <1>8, <1>9, <1>10, <1>11, OwnGrantsStep

LEMMA ClearedStep ==
  ASSUME GrantsInv, NEW p \in Procs, OpsGrantsCleared(p)
  PROVE  GrantsInv'
<1> DEFINE todo == req[p].todo \cup req[p].ids
           r == [req[p] EXCEPT !.pc = "insert", !.todo = todo]
<1>1. req[p].pc = "clear" /\ req[p].todo = {} /\ Moves(p, r) /\ UNCHANGED grantVars
  BY DEF OpsGrantsCleared, At
<1>2. req[p] \in Replacing /\ GrantFits(req[p]) /\ todo = req[p].ids /\ todo \subseteq BucketIds
  BY <1>1, GrantsRequestTypes DEF GrantsInv, GrantsFit, GrantFits, After, Replacing
<1> HIDE DEF todo
<1>3. /\ r \in Replacing /\ r.pc = "insert" /\ r.ids = req[p].ids /\ r.del = req[p].del /\ r.ins = {}
      /\ r.acct = req[p].acct /\ r.todo = req[p].ids /\ r.lone = req[p].lone
  BY <1>1, <1>2 DEF Replacing, GrantFits
<1> HIDE DEF r
<1>4. r \in GrantsRequest /\ req'[p] = r
  BY <1>1, <1>3, GrantsMoved DEF GrantsRequest, GrantsInv
<1>5. GrantFits(req[p])'
  <2>1. /\ \A j \in r.del : grants'[r.acct][j] = "ops"
        /\ \A j \in r.ids : rows'[j] # None
        /\ r.lone => \A j \in BucketIds : grants'[r.acct][j] = "ops" => j \in r.del
    BY <1>1, <1>2, <1>3 DEF GrantFits, OpsGrants, grantVars
  <2>2. QED
    BY <1>3, <1>4, <2>1 DEF GrantFits, OpsGrants
<1>6. \A j \in Held(req'[p]) : InTx(p) /\ req'[p].acct = req[p].acct /\ j \in Held(req[p])
  BY <1>1, <1>3, <1>4 DEF Held, InTx, At
<1>7. LocksFit(p)
  <2>1. \A q \in Procs : q # p /\ LocksUser(q, req[p].acct) => req[p].del \cap req[q].del = {}
    BY <1>1 DEF At, InTx, LocksUser, GrantsInv, UsersLocked
  <2>2. QED
    BY <2>1, <1>3, <1>4 DEF LocksFit, At
<1>8. RowsStay /\ RestTypeOK' /\ UNCHANGED <<grants, wanted, accounts>>
  BY <1>1, RestStays DEF grantVars
<1>9. QED
  BY <1>1, <1>4, <1>5, <1>6, <1>7, <1>8, OwnGrantsStep

LEMMA InsertOpsStep ==
  ASSUME GrantsInv, NEW p \in Procs, InsertOpsGrant(p)
  PROVE  GrantsInv'
<1>1. PICK i \in req[p].todo :
        /\ Free(p, i)
        /\ Moves(p, [req[p] EXCEPT !.todo = @ \ {i},
                                   !.ins = IF Conflicts(p, i) THEN @ ELSE @ \cup {i}])
  BY DEF InsertOpsGrant
<1>2. req[p].pc = "insert" /\ UNCHANGED grantVars
  BY DEF InsertOpsGrant, At
<1>3. /\ req[p] \in Replacing /\ GrantFits(req[p]) /\ i \in BucketIds /\ i \in req[p].ids
      /\ req[p].acct \in Accounts
  BY <1>1, <1>2, GrantsRequestTypes DEF GrantsInv, GrantsFit, GrantFits, After, Replacing
<1> DEFINE todo == req[p].todo \ {i}
           ins == IF Conflicts(p, i) THEN req[p].ins ELSE req[p].ins \cup {i}
           r == [req[p] EXCEPT !.todo = todo, !.ins = ins]
<1>4. todo \subseteq BucketIds /\ ins \subseteq BucketIds /\ Moves(p, r)
  BY <1>1, <1>3 DEF Replacing
<1> HIDE DEF todo, ins
<1>5. /\ r \in Replacing /\ r.pc = "insert" /\ r.ids = req[p].ids /\ r.del = req[p].del
      /\ r.ins = ins /\ r.acct = req[p].acct /\ r.todo = todo /\ r.lone = req[p].lone
  BY <1>2, <1>3, <1>4 DEF Replacing
<1> HIDE DEF r
<1>6. r \in GrantsRequest /\ req'[p] = r
  BY <1>4, <1>5, GrantsMoved DEF GrantsRequest, GrantsInv
<1>7. /\ \A j \in ins : grants[req[p].acct][j] = "no" \/ j \in req[p].del
      /\ ins \subseteq req[p].ids /\ todo \subseteq req[p].ids
      /\ \A j \in ins : j = i \/ j \in req[p].ins
  BY <1>2, <1>3 DEF GrantFits, todo, ins, Conflicts, Cleared, InTx, At
<1>8. req[p].lone =>
        \A j \in req[p].ids : j \in todo \cup ins \/ (grants[req[p].acct][j] # "no" /\ j \notin req[p].del)
  BY <1>2, <1>3 DEF GrantFits, todo, ins, Conflicts, Cleared, InTx, At
<1>9. GrantFits(req[p])'
  <2>1. /\ \A j \in r.del : grants'[r.acct][j] = "ops"
        /\ \A j \in r.ids : rows'[j] # None
        /\ r.lone => \A j \in BucketIds : grants'[r.acct][j] = "ops" => j \in r.del
    BY <1>2, <1>3, <1>5 DEF GrantFits, OpsGrants, grantVars
  <2>2. grants' = grants
    BY <1>2 DEF grantVars
  <2>3. QED
    BY <1>5, <1>6, <1>7, <1>8, <2>1, <2>2 DEF GrantFits, OpsGrants
<1>10. \A j \in Held(req'[p]) :
        \/ InTx(p) /\ req'[p].acct = req[p].acct /\ j \in Held(req[p])
        \/ \A q \in Procs : q # p /\ InTx(q) /\ req[q].acct = req'[p].acct => j \notin Held(req[q])
  <2>1. \A q \in Procs : q # p /\ InTx(q) /\ req[q].acct = req[p].acct => i \notin Held(req[q])
    BY <1>1, <1>2 DEF Free, BlockersOn, At, Holds, Inserted, Cleared, Held
  <2>2. QED
    BY <2>1, <1>2, <1>5, <1>6, <1>7 DEF Held, InTx, At
<1>11. LocksFit(p)
  <2>1. ASSUME NEW q \in Procs, q # p, LocksUser(q, req[p].acct)
        PROVE  ins = {} /\ req[p].del \cap req[q].del = {}
    <3>1. req[p].ins = {} /\ req[p].del \cap req[q].del = {}
      BY <1>2, <2>1 DEF At, InTx, LocksUser, GrantsInv, UsersLocked
    <3>2. Conflicts(p, i)
      BY <1>1, <1>2, <2>1 DEF Free, BlockersOn, At
    <3>3. QED
      BY <3>1, <3>2 DEF ins
  <2>2. QED
    BY <2>1, <1>5, <1>6 DEF LocksFit, At
<1>12. RowsStay /\ RestTypeOK' /\ UNCHANGED <<grants, wanted, accounts>>
  BY <1>2, RestStays DEF grantVars
<1>13. QED
  BY <1>4, <1>6, <1>9, <1>10, <1>11, <1>12, OwnGrantsStep

LEMMA ReplaceEnds ==
  ASSUME GrantsInv, NEW p \in Procs, InsertOpsGrantFails(p) \/ Replaced(p)
  PROVE  GrantsInv'
<1>1. Moves(p, Idle) /\ UNCHANGED grantVars
  BY DEF InsertOpsGrantFails, AfterForeignKey, Replaced, Ends
<1>2. RowsStay /\ RestTypeOK' /\ UNCHANGED <<grants, wanted, accounts>>
  BY <1>1, RestStays DEF grantVars
<1>3. QED
  BY <1>1, <1>2, PlainStep

LEMMA PurgeSteps ==
  ASSUME GrantsInv, NEW p \in Procs, UnboundIDs(p) \/ DeleteByBucket(p)
  PROVE  GrantsInv'
<1>1. UNCHANGED grantVars /\ req[p].pc \in {"unbound", "purge"}
  BY DEF UnboundIDs, DeleteByBucket, At
<1>2. req[p] \in Replacing /\ GrantFits(req[p])
  BY <1>1, GrantsRequestTypes DEF GrantsInv, GrantsFit, GrantFits, After
<1>3. PICK r \in Replacing : Moves(p, r) /\ r.pc = "purge"
  <2>1. CASE UnboundIDs(p)
    <3> DEFINE todo == {i \in req[p].old : There(i) /\ Unbound(i)}
               r == [req[p] EXCEPT !.pc = "purge", !.old = {}, !.todo = todo]
    <3>1. todo \subseteq BucketIds /\ Moves(p, r)
      BY <2>1, <1>2 DEF UnboundIDs, Replacing
    <3> HIDE DEF todo
    <3>2. r \in Replacing /\ r.pc = "purge"
      BY <3>1, <1>2 DEF Replacing
    <3> HIDE DEF r
    <3>3. QED
      BY <3>1, <3>2
  <2>2. CASE DeleteByBucket(p)
    <3>1. PICK i \in req[p].todo : Moves(p, [req[p] EXCEPT !.todo = @ \ {i}])
      BY <2>2 DEF DeleteByBucket
    <3> DEFINE todo == req[p].todo \ {i}
               r == [req[p] EXCEPT !.todo = todo]
    <3>2. todo \subseteq BucketIds /\ Moves(p, r)
      BY <3>1, <1>2 DEF Replacing
    <3> HIDE DEF todo
    <3>3. r \in Replacing /\ r.pc = "purge"
      BY <2>2, <3>2, <1>2 DEF Replacing, DeleteByBucket, At
    <3> HIDE DEF r
    <3>4. QED
      BY <3>2, <3>3
  <2>3. QED
    BY <2>1, <2>2
<1>4. r \in GrantsRequest /\ req'[p] = r
  BY <1>3, GrantsMoved DEF GrantsRequest, GrantsInv
<1>5. GrantFits(req[p])' /\ ~InTx(p)' /\ LocksFit(p)
  BY <1>3, <1>4 DEF GrantFits, InTx, At, LocksFit
<1>6. RowsStay /\ RestTypeOK' /\ UNCHANGED <<grants, wanted, accounts>>
  BY <1>1, RestStays DEF grantVars
<1>7. QED
  BY <1>3, <1>4, <1>5, <1>6, OwnGrantsStep

-----------------------------------------------------------------------------
(* The deletion of an account, until it deletes it *)

LEMMA DeleteByUsernameStep ==
  ASSUME GrantsInv, NEW p \in Procs, NEW a \in Accounts, DeleteByUsername(p, a)
  PROVE  GrantsInv'
<1> DEFINE r == [pc |-> "lockuser", acct |-> a, todo |-> {}, del |-> {}]
<1>1. /\ Moves(p, r) /\ UNCHANGED <<accounts, rows, stored, grants, created, wanted, spoiled>>
      /\ begun' \in 0 .. MaxRequests
  BY GrantsAssumption DEF DeleteByUsername, Begins, GrantsInv, GrantsTypeOK
<1>2. r \in Leaving /\ r.pc = "lockuser" /\ r.del = {}
  BY DEF Leaving
<1> HIDE DEF r
<1>3. r \in GrantsRequest /\ req'[p] = r
  BY <1>1, <1>2, GrantsMoved DEF GrantsRequest, GrantsInv
<1>4. GrantFits(req[p])' /\ ~InTx(p)' /\ LocksFit(p)
  BY <1>2, <1>3 DEF GrantFits, InTx, At, LocksFit
<1>5. RowsStay /\ RestTypeOK'
  BY <1>1 DEF GrantsInv, GrantsTypeOK, RowsStay, RestTypeOK
<1>6. QED
  BY <1>1, <1>3, <1>4, <1>5, OwnGrantsStep

LEMMA LockUserStep ==
  ASSUME GrantsInv, NEW p \in Procs, LockUser(p)
  PROVE  GrantsInv'
<1> DEFINE a == req[p].acct
           all == AllGrants(a)
           r == [req[p] EXCEPT !.pc = "dropgrants", !.todo = all]
<1>1. /\ req[p].pc = "lockuser" /\ UNCHANGED grantVars
      /\ \A q \in Procs \ {p} : ~SharesUser(q, a) /\ ~LocksUser(q, a)
      /\ Moves(p, r) \/ Moves(p, Idle)
  BY DEF LockUser, At, Ends
<1>2. RowsStay /\ RestTypeOK' /\ UNCHANGED <<grants, wanted, accounts>>
  BY <1>1, RestStays DEF grantVars
<1>3. CASE Moves(p, Idle)
  BY <1>2, <1>3, PlainStep
<1>4. CASE Moves(p, r)
  <2>1. req[p] \in Leaving /\ req[p].del = {} /\ all \subseteq BucketIds
    BY <1>1, GrantsRequestTypes DEF GrantsInv, GrantsFit, GrantFits, AllGrants
  <2>2. \A i \in BucketIds : grants'[a][i] # "no" => i \in all
    BY <1>2 DEF AllGrants
  <2> HIDE DEF all
  <2>3. r \in Leaving /\ r.pc = "dropgrants" /\ r.acct = a /\ r.todo = all /\ r.del = {}
    BY <2>1 DEF Leaving
  <2> HIDE DEF r
  <2>4. r \in GrantsRequest /\ req'[p] = r
    BY <1>4, <2>3, GrantsMoved DEF GrantsRequest, GrantsInv
  <2>5. GrantFits(req[p])'
    BY <2>2, <2>3, <2>4 DEF GrantFits
  <2>6. LocksFit(p) /\ ~InTx(p)'
    BY <1>1, <2>3, <2>4 DEF LocksFit, InTx, At, SharesUser, LocksUser
  <2>7. QED
    BY <1>2, <1>4, <2>4, <2>5, <2>6, OwnGrantsStep
<1>5. QED
  BY <1>1, <1>3, <1>4

LEMMA DropGrantStep ==
  ASSUME GrantsInv, NEW p \in Procs, DropGrant(p)
  PROVE  GrantsInv'
<1>1. PICK i \in req[p].todo :
        /\ Free(p, i)
        /\ Moves(p, [req[p] EXCEPT !.todo = @ \ {i},
                                   !.del = IF i \in AllGrants(req[p].acct) THEN @ \cup {i} ELSE @])
  BY DEF DropGrant
<1>2. req[p].pc = "dropgrants" /\ UNCHANGED grantVars
  BY DEF DropGrant, At
<1>3. req[p] \in Leaving /\ GrantFits(req[p]) /\ i \in BucketIds
  BY <1>1, <1>2, GrantsRequestTypes DEF GrantsInv, GrantsFit, GrantFits, Leaving
<1> DEFINE todo == req[p].todo \ {i}
           del == IF i \in AllGrants(req[p].acct) THEN req[p].del \cup {i} ELSE req[p].del
           r == [req[p] EXCEPT !.todo = todo, !.del = del]
<1>4. todo \subseteq BucketIds /\ del \subseteq BucketIds /\ Moves(p, r)
  BY <1>1, <1>3 DEF Leaving
<1>5. /\ \A j \in BucketIds : grants[req[p].acct][j] # "no" => j \in todo \cup del
      /\ \A j \in del : j = i \/ j \in req[p].del
  BY <1>2, <1>3 DEF GrantFits, AllGrants
<1> HIDE DEF todo, del
<1>6. /\ r \in Leaving /\ r.pc = "dropgrants" /\ r.acct = req[p].acct /\ r.todo = todo
      /\ r.del = del
  BY <1>2, <1>3, <1>4 DEF Leaving
<1> HIDE DEF r
<1>7. r \in GrantsRequest /\ req'[p] = r
  BY <1>4, <1>6, GrantsMoved DEF GrantsRequest, GrantsInv
<1>8. RowsStay /\ RestTypeOK' /\ UNCHANGED <<grants, wanted, accounts>>
  BY <1>2, RestStays DEF grantVars
<1>9. GrantFits(req[p])'
  BY <1>5, <1>6, <1>7, <1>8 DEF GrantFits
<1>10. LocksFit(p) /\ ~InTx(p)'
  <2>1. \A q \in Procs : q # p /\ req[q].acct = req[p].acct =>
          /\ ~At(q, "dropgrants")
          /\ InTx(q) => req[q].ins = {} /\ req[q].del \cap req[p].del = {} /\ i \notin req[q].del
    BY <1>1, <1>2 DEF Free, BlockersOn, At, Holds, Cleared, InTx, GrantsInv, UsersLocked
  <2>2. \A q \in Procs : q # p /\ req[q].acct = req[p].acct /\ InTx(q) => req[q].del \cap del = {}
    BY <2>1, <1>5
  <2>3. QED
    BY <2>1, <2>2, <1>6, <1>7 DEF LocksFit, InTx, At
<1>11. QED
  BY <1>4, <1>7, <1>8, <1>9, <1>10, OwnGrantsStep

-----------------------------------------------------------------------------
(* Steps that change grants *)

LEMMA LosingStep ==
  ASSUME GrantsInv, NEW p \in Procs, NEW r \in GrantsRequest, NEW a, NEW D, MovesAmid(p, r, a, D),
         r.pc \notin {"ensure", "clear", "insert", "lockuser", "dropgrants"},
         RowsKept, RestTypeOK', accounts' \subseteq accounts,
         grants' \in [Accounts -> [BucketIds -> {"no", "local", "ops"}]],
         wanted' \in [Accounts -> (SUBSET BucketIds) \cup {None}],
         \A q \in Procs : q # p /\ InTx(q) =>
           \A i \in Held(req[q]) :
             \/ grants'[req[q].acct][i] = grants[req[q].acct][i]
             \/ i \notin req[q].del /\ grants'[req[q].acct][i] = "no",
         \A q \in Procs : q # p /\ At(q, "dropgrants") =>
           \A i \in BucketIds : grants[req[q].acct][i] = "no" => grants'[req[q].acct][i] = "no",
         WantedHadRows', LatestReplaceRules'
  PROVE  GrantsInv'
<1>1. /\ req'[p] = r /\ (\A q \in Procs : q # p => Loses(q))
      /\ req' \in [Procs -> GrantsRequest]
  BY Amid
<1>2. GrantsFit'
  <2>1. GrantFits(req[p])'
    BY <1>1 DEF GrantFits
  <2>2. ASSUME NEW q \in Procs, q # p
        PROVE  GrantFits(req[q])'
    BY <1>1, <2>2, LosingFits
  <2>3. QED
    BY <2>1, <2>2 DEF GrantsFit
<1>3. ~InTx(p)' /\ LocksFit(p)
  BY <1>1 DEF InTx, At, LocksFit
<1>4. Exclusive' /\ UsersLocked'
  BY <1>1, <1>3, StaysExclusive, StaysLocked
<1>5. GrantsTypeOK'
  BY <1>1 DEF GrantsInv, GrantsTypeOK, RestTypeOK, GrantsRequest
<1>6. QED
  BY <1>2, <1>4, <1>5 DEF GrantsInv

LEMMA GrantLocalStep ==
  ASSUME GrantsInv, NEW p \in Procs, GrantLocal(p)
  PROVE  GrantsInv'
<1> USE DEF GrantsInv
<1> DEFINE a == req[p].acct
           i == req[p].id
           r == [req[p] EXCEPT !.pc = "ensurestore"]
<1>1. /\ req[p].pc = "grantlocal" /\ Free(p, i)
      /\ grants' = [grants EXCEPT ![a][i] = AsLocal(@)] /\ MovesAmid(p, r, a, {})
      /\ UNCHANGED <<begun, accounts, rows, stored, created, wanted, spoiled>>
  BY DEF GrantLocal, At
<1>2. r \in Carrying /\ req[p] \in Carrying /\ a \in Accounts /\ i \in BucketIds
  BY <1>1, CarryingGoes
<1>3. r \in GrantsRequest /\ r.pc = "ensurestore"
  BY <1>2 DEF GrantsRequest, Carrying
<1> HIDE DEF r
<1>4. /\ grants' \in [Accounts -> [BucketIds -> {"no", "local", "ops"}]]
      /\ \A b \in Accounts, j \in BucketIds :
           grants'[b][j] = IF b = a /\ j = i THEN AsLocal(grants[b][j]) ELSE grants[b][j]
  BY <1>1, <1>2 DEF GrantsTypeOK, AsLocal
<1>5. RowsKept /\ RestTypeOK'
  BY <1>1 DEF RowsKept, RestTypeOK, GrantsTypeOK
<1>6. ASSUME NEW q \in Procs, q # p, InTx(q), NEW j \in Held(req[q])
      PROVE  grants'[req[q].acct][j] = grants[req[q].acct][j]
  <2>1. req[q] \in Replacing
    BY <1>6, GrantsRequestTypes DEF GrantsFit, GrantFits, InTx, At, After
  <2>2. req[q].acct \in Accounts /\ j \in BucketIds
    BY <2>1, <1>6 DEF Replacing, Held
  <2>3. ~(req[q].acct = a /\ j = i)
    BY <1>1, <1>6 DEF Free, BlockersOn, At, Holds, Inserted, Cleared, Held
  <2>4. QED
    BY <2>2, <2>3, <1>4
<1>7. WantedHadRows'
  BY <1>1 DEF WantedHadRows
<1>8. LatestReplaceRules'
  BY <1>1, <1>4 DEF LatestReplaceRules, OpsGrants, AsLocal, There, GrantsTypeOK
<1>9. wanted' \in [Accounts -> (SUBSET BucketIds) \cup {None}]
  BY <1>1 DEF GrantsTypeOK
<1>10. ASSUME NEW q \in Procs, q # p, At(q, "dropgrants"), NEW j \in BucketIds,
              grants[req[q].acct][j] = "no"
       PROVE  grants'[req[q].acct][j] = "no"
  <2>1. req[q].acct \in Accounts
    BY <1>10, GrantsRequestTypes DEF GrantsFit, GrantFits, At, Leaving
  <2>2. ~(req[q].acct = a /\ j = i)
    BY <1>1, <1>10 DEF Free, BlockersOn, At, LocksUser, Conflicts
  <2>3. QED
    BY <2>1, <2>2, <1>4, <1>10
<1> HIDE DEF a
<1>11. QED
  BY <1>1, <1>3, <1>4, <1>5, <1>6, <1>7, <1>8, <1>9, <1>10, LosingStep

LEMMA DeleteRowStep ==
  ASSUME GrantsInv, NEW p \in Procs, DeleteRow(p)
  PROVE  GrantsInv'
<1> USE DEF GrantsInv
<1> DEFINE i == req[p].id
<1>1. /\ req[p].pc = "cascade" /\ Free(p, i) /\ MovesAmid(p, Idle, req[p].acct, {})
      /\ rows' = [rows EXCEPT ![i] = "gone"]
      /\ grants' = [a \in Accounts |-> [grants[a] EXCEPT ![i] = "no"]]
      /\ UNCHANGED <<begun, accounts, stored, created, wanted, spoiled>>
  BY DEF DeleteRow, At
<1>2. i \in BucketIds
  BY <1>1, CarryingGoes
<1>3. Idle \in GrantsRequest /\ Idle.pc = "idle"
  BY DEF GrantsRequest, Idle
<1>4. /\ grants' \in [Accounts -> [BucketIds -> {"no", "local", "ops"}]]
      /\ \A b \in Accounts, j \in BucketIds :
           grants'[b][j] = IF j = i THEN "no" ELSE grants[b][j]
      /\ \A j \in BucketIds : rows'[j] = IF j = i THEN "gone" ELSE rows[j]
  BY <1>1, <1>2 DEF GrantsTypeOK
<1>5. RowsKept /\ RestTypeOK'
  BY <1>1, <1>2, <1>4, GrantsAssumption DEF RowsKept, RestTypeOK, GrantsTypeOK
<1>6. ASSUME NEW q \in Procs, q # p, InTx(q), NEW j \in Held(req[q])
      PROVE  \/ grants'[req[q].acct][j] = grants[req[q].acct][j]
             \/ j \notin req[q].del /\ grants'[req[q].acct][j] = "no"
  <2>1. req[q] \in Replacing
    BY <1>6, GrantsRequestTypes DEF GrantsFit, GrantFits, InTx, At, After
  <2>2. req[q].acct \in Accounts /\ j \in BucketIds
    BY <2>1, <1>6 DEF Replacing, Held
  <2>3. j = i => j \notin req[q].del
    BY <1>1, <1>6 DEF Free, BlockersOn, At, Cleared
  <2>4. QED
    BY <2>2, <2>3, <1>4
<1>7. WantedHadRows' /\ wanted' \in [Accounts -> (SUBSET BucketIds) \cup {None}]
  BY <1>1, <1>5 DEF WantedHadRows, RowsKept, GrantsTypeOK
<1>8. LatestReplaceRules'
  <2> SUFFICES ASSUME NEW a \in Accounts, wanted[a] # None
               PROVE  /\ \A j \in BucketIds : grants'[a][j] = "ops" => j \in wanted[a]
                      /\ \A j \in wanted[a] : rows'[j] \in BucketNames => grants'[a][j] # "no"
    BY <1>1 DEF LatestReplaceRules, OpsGrants, There
  <2>1. wanted[a] \subseteq BucketIds
    BY DEF GrantsTypeOK
  <2>2. /\ \A j \in BucketIds : grants[a][j] = "ops" => j \in wanted[a]
        /\ \A j \in wanted[a] : rows[j] \in BucketNames => grants[a][j] # "no"
    BY DEF LatestReplaceRules, OpsGrants, There
  <2>3. \A j \in BucketIds : grants'[a][j] = "ops" => grants[a][j] = "ops"
    BY <1>4
  <2>4. \A j \in BucketIds : rows'[j] \in BucketNames =>
          rows[j] \in BucketNames /\ grants'[a][j] = grants[a][j]
    BY <1>4, GrantsAssumption
  <2>5. QED
    BY <2>1, <2>2, <2>3, <2>4
<1>9. accounts' = accounts
  BY <1>1
<1>10. ASSUME NEW q \in Procs, q # p, At(q, "dropgrants"), NEW j \in BucketIds,
              grants[req[q].acct][j] = "no"
       PROVE  grants'[req[q].acct][j] = "no"
  BY <1>4, <1>10, GrantsRequestTypes DEF GrantsFit, GrantFits, At, Leaving
<1> HIDE DEF i
<1>11. QED
  BY <1>1, <1>3, <1>4, <1>5, <1>6, <1>7, <1>8, <1>9, <1>10, LosingStep

LEMMA CommitStep ==
  ASSUME GrantsInv, NEW p \in Procs, Commit(p)
  PROVE  GrantsInv'
<1> USE DEF GrantsInv
<1> DEFINE a == req[p].acct
           del == req[p].del
           ins == req[p].ins
           old == req[p].old \ req[p].ids
           r == [req[p] EXCEPT !.pc = "unbound", !.old = old, !.ids = {}, !.del = {}, !.ins = {}]
<1>1. /\ req[p].pc = "insert" /\ req[p].todo = {} /\ MovesAmid(p, r, a, del)
      /\ grants' = [grants EXCEPT ![a] =
                      [i \in BucketIds |-> IF i \in ins THEN "ops" ELSE IF i \in del THEN "no" ELSE @[i]]]
      /\ wanted' = [wanted EXCEPT ![a] = IF req[p].lone THEN req[p].ids ELSE None]
      /\ UNCHANGED <<begun, accounts, rows, stored, created, spoiled>>
  BY DEF Commit, Committed, At
<1>2. /\ req[p] \in Replacing /\ GrantFits(req[p]) /\ a \in Accounts /\ del \subseteq BucketIds
      /\ ins \subseteq BucketIds /\ req[p].ids \subseteq BucketIds /\ old \subseteq BucketIds
  BY <1>1, GrantsRequestTypes DEF GrantsFit, GrantFits, After, Replacing
<1> HIDE DEF old
<1>3. r \in Replacing /\ r \in GrantsRequest /\ r.pc = "unbound"
  BY <1>2 DEF Replacing, GrantsRequest
<1> HIDE DEF r
<1>4. /\ grants' \in [Accounts -> [BucketIds -> {"no", "local", "ops"}]]
      /\ \A b \in Accounts, j \in BucketIds :
           grants'[b][j] = IF b = a /\ j \in ins THEN "ops"
                           ELSE IF b = a /\ j \in del THEN "no" ELSE grants[b][j]
  BY <1>1, <1>2 DEF GrantsTypeOK
<1>5. RowsKept /\ RestTypeOK' /\ accounts' = accounts
  BY <1>1 DEF RowsKept, RestTypeOK, GrantsTypeOK
<1>6. ASSUME NEW q \in Procs, q # p, InTx(q), NEW j \in Held(req[q])
      PROVE  grants'[req[q].acct][j] = grants[req[q].acct][j]
  <2>1. req[q] \in Replacing
    BY <1>6, GrantsRequestTypes DEF GrantsFit, GrantFits, InTx, At, After
  <2>2. req[q].acct \in Accounts /\ j \in BucketIds
    BY <2>1, <1>6 DEF Replacing, Held
  <2>3. req[q].acct = a => j \notin ins /\ j \notin del
    <3>1. InTx(p)
      BY <1>1 DEF InTx, At
    <3>2. req[q].acct = req[p].acct => Held(req[q]) \cap Held(req[p]) = {}
      BY <3>1, <1>6 DEF Exclusive
    <3>3. QED
      BY <3>2, <1>6 DEF Held
  <2>4. QED
    BY <2>2, <2>3, <1>4
<1>7. /\ wanted' \in [Accounts -> (SUBSET BucketIds) \cup {None}]
      /\ \A b \in Accounts :
           wanted'[b] = IF b = a THEN (IF req[p].lone THEN req[p].ids ELSE None) ELSE wanted[b]
  BY <1>1, <1>2 DEF GrantsTypeOK
<1>8. WantedHadRows'
  <2> SUFFICES ASSUME NEW b \in Accounts, wanted'[b] # None
               PROVE  \A j \in wanted'[b] : rows[j] # None
    BY <1>1 DEF WantedHadRows
  <2>1. CASE b = a
    BY <2>1, <1>1, <1>2, <1>7 DEF GrantFits
  <2>2. CASE b # a
    BY <2>2, <1>7 DEF WantedHadRows
  <2>3. QED
    BY <2>1, <2>2
<1>9. LatestReplaceRules'
  <2> SUFFICES ASSUME NEW b \in Accounts, wanted'[b] # None
               PROVE  /\ \A j \in BucketIds : grants'[b][j] = "ops" => j \in wanted'[b]
                      /\ \A j \in wanted'[b] : rows[j] \in BucketNames => grants'[b][j] # "no"
    BY <1>1 DEF LatestReplaceRules, OpsGrants, There
  <2>1. CASE b = a
    <3>1. wanted'[b] = req[p].ids /\ req[p].lone
      BY <2>1, <1>7
    <3>2. /\ ins \subseteq req[p].ids
          /\ \A j \in BucketIds : grants[a][j] = "ops" => j \in del
          /\ \A j \in req[p].ids : j \in ins \/ (grants[a][j] # "no" /\ j \notin del)
      BY <3>1, <1>1, <1>2 DEF GrantFits, OpsGrants
    <3>3. QED
      BY <2>1, <3>1, <3>2, <1>2, <1>4
  <2>2. CASE b # a
    <3>1. wanted'[b] = wanted[b] /\ wanted[b] \subseteq BucketIds
      BY <2>2, <1>7 DEF GrantsTypeOK
    <3>2. QED
      BY <2>2, <3>1, <1>4 DEF LatestReplaceRules, OpsGrants, There
  <2>3. QED
    BY <2>1, <2>2
<1>10. ASSUME NEW q \in Procs, q # p, At(q, "dropgrants"), NEW j \in BucketIds,
              grants[req[q].acct][j] = "no"
       PROVE  grants'[req[q].acct][j] = "no"
  <2>1. req[q].acct \in Accounts
    BY <1>10, GrantsRequestTypes DEF GrantsFit, GrantFits, At, Leaving
  <2>2. req[q].acct = a => ins = {}
    BY <1>1, <1>10 DEF UsersLocked, InTx, At
  <2>3. QED
    BY <2>1, <2>2, <1>4, <1>10
<1> HIDE DEF a, del
<1>11. QED
  BY <1>1, <1>3, <1>4, <1>5, <1>6, <1>7, <1>8, <1>9, <1>10, LosingStep

LEMMA DeleteAccountStep ==
  ASSUME GrantsInv, NEW p \in Procs, DeleteAccount(p)
  PROVE  GrantsInv'
<1> USE DEF GrantsInv
<1> DEFINE a == req[p].acct
<1>1. /\ req[p].pc = "dropgrants" /\ req[p].todo = {} /\ accounts' = accounts \ {a}
      /\ grants' = [grants EXCEPT ![a] = [i \in BucketIds |-> "no"]]
      /\ wanted' = [wanted EXCEPT ![a] = None]
      /\ MovesAmid(p, Idle, a, BucketIds)
      /\ UNCHANGED <<begun, rows, stored, created, spoiled>>
  BY DEF DeleteAccount, At
<1>2. a \in Accounts /\ \A i \in BucketIds : grants[a][i] # "no" => i \in req[p].del
  BY <1>1, GrantsRequestTypes DEF GrantsFit, GrantFits, Leaving
<1>3. Idle \in GrantsRequest /\ Idle.pc = "idle"
  BY DEF GrantsRequest, Idle
<1>4. /\ grants' \in [Accounts -> [BucketIds -> {"no", "local", "ops"}]]
      /\ wanted' \in [Accounts -> (SUBSET BucketIds) \cup {None}]
      /\ \A b \in Accounts, j \in BucketIds :
           grants'[b][j] = IF b = a THEN "no" ELSE grants[b][j]
      /\ \A b \in Accounts : wanted'[b] = IF b = a THEN None ELSE wanted[b]
  BY <1>1, <1>2 DEF GrantsTypeOK
<1>5. RowsKept /\ RestTypeOK' /\ accounts' \subseteq accounts
  BY <1>1 DEF RowsKept, RestTypeOK, GrantsTypeOK
<1>6. ASSUME NEW q \in Procs, q # p, InTx(q), NEW j \in Held(req[q])
      PROVE  grants'[req[q].acct][j] = grants[req[q].acct][j]
  <2>1. req[q] \in Replacing /\ GrantFits(req[q])
    BY <1>6, GrantsRequestTypes DEF GrantsFit, GrantFits, InTx, At, After
  <2>2. req[q].acct \in Accounts /\ j \in BucketIds
    BY <2>1, <1>6 DEF Replacing, Held
  <2>3. ASSUME req[q].acct = a
        PROVE  FALSE
    <3>1. req[q].ins = {} /\ req[q].del \cap req[p].del = {}
      BY <1>1, <1>6, <2>3 DEF UsersLocked, At
    <3>2. j \in req[q].del /\ grants[a][j] = "ops"
      BY <3>1, <2>1, <2>3, <1>6 DEF Held, GrantFits, InTx, At
    <3>3. QED
      BY <3>1, <3>2, <2>2, <1>2
  <2>4. QED
    BY <2>2, <2>3, <1>4
<1>7. WantedHadRows' /\ LatestReplaceRules'
  BY <1>1, <1>4 DEF WantedHadRows, LatestReplaceRules, OpsGrants, There
<1>8. ASSUME NEW q \in Procs, q # p, At(q, "dropgrants"), NEW j \in BucketIds,
              grants[req[q].acct][j] = "no"
      PROVE  grants'[req[q].acct][j] = "no"
  BY <1>4, <1>8, GrantsRequestTypes DEF GrantsFit, GrantFits, At, Leaving
<1> HIDE DEF a
<1>9. QED
  BY <1>1, <1>3, <1>4, <1>5, <1>6, <1>7, <1>8, LosingStep

-----------------------------------------------------------------------------
(* The rows of buckets, their storage and who carries them *)

CarryPoints == {"grantlocal", "ensurestore", "configure", "undostore", "dropstore", "droprow", "cascade"}

(* A row is its creation's, or one removal's, unless its name is spoiled. *)
CarrierFits(p) ==
  LET r == req[p] IN
  r.pc \in CarryPoints =>
    /\ rows[r.id] \in {r.name, "gone"}
    /\ r.name \notin spoiled =>
         /\ rows[r.id] = r.name
         /\ r.pc = "configure" => r.name \in stored
         /\ \A q \in Procs : Carries(q, r.id) => q = p

(* A bucket that was created is stored, or a removal has come past that. *)
CreatedFits(i) ==
  /\ rows[i] # None
  /\ There(i) /\ rows[i] \notin spoiled =>
       /\ \A p \in Procs : Carries(p, i) => req[p].pc \in {"dropstore", "droprow", "cascade"}
       /\ rows[i] \in stored \/ \E p \in Procs : Carries(p, i) /\ req[p].pc \in {"droprow", "cascade"}

NamesDiffer == \A i, j \in BucketIds : There(i) /\ rows[i] = rows[j] => i = j

RowsInv ==
  /\ NamesDiffer
  /\ \A p \in Procs : CarrierFits(p)
  /\ \A c \in created : CreatedFits(c[2])

(* Requests that do not carry a bucket *)

SameCarrier(q) ==
  IF req[q].pc \in CarryPoints THEN req'[q] = req[q] ELSE req'[q].pc \notin CarryPoints

LEMMA CarrierTypes ==
  ASSUME GrantsInv, NEW p \in Procs, req[p].pc \in CarryPoints
  PROVE  /\ req[p] \in Carrying /\ req[p].id \in BucketIds /\ req[p].name \in BucketNames
         /\ req[p].acct \in Accounts
<1>1. req[p] \in Carrying
  BY GrantsRequestTypes DEF GrantsInv, GrantsFit, GrantFits, CarryPoints
<1>2. QED
  BY <1>1 DEF Carrying

LEMMA SameCarries ==
  ASSUME NEW q, SameCarrier(q)
  PROVE  \A i : (Carries(q, i))' <=> Carries(q, i)
BY DEF SameCarrier, Carries, CarryPoints

LEMMA MovedCarriers ==
  ASSUME GrantsInv, NEW p \in Procs, NEW r, Moves(p, r)
  PROVE  req'[p] = r /\ \A q \in Procs : q # p => SameCarrier(q)
BY GrantsMoved DEF GrantsInv, SameCarrier

LEMMA AmidCarriers ==
  ASSUME GrantsInv, NEW p \in Procs, NEW r \in GrantsRequest, NEW a, NEW D, MovesAmid(p, r, a, D)
  PROVE  req'[p] = r /\ \A q \in Procs : q # p => SameCarrier(q)
<1>1. req'[p] = r /\ \A q \in Procs : q # p => Loses(q)
  BY Amid
<1>2. QED
  BY <1>1 DEF Loses, SameCarrier, After, CarryPoints

(* Rows are added, at most. *)
LEMMA OthersRows ==
  ASSUME GrantsInv, RowsInv, \A q \in Procs : SameCarrier(q), RowsStay, NamesDiffer',
         UNCHANGED <<stored, created, spoiled>>
  PROVE  RowsInv'
<1>1. ASSUME NEW p \in Procs
      PROVE  CarrierFits(p)'
  <2> SUFFICES ASSUME req[p].pc \in CarryPoints, req'[p] = req[p]
               PROVE  CarrierFits(p)'
    BY DEF SameCarrier, CarrierFits
  <2>1. CarrierFits(p) /\ req[p].id \in BucketIds /\ req[p].name \in BucketNames
    BY CarrierTypes DEF RowsInv
  <2>2. rows'[req[p].id] = rows[req[p].id]
    BY <2>1, GrantsAssumption DEF CarrierFits, RowsStay
  <2>3. \A q \in Procs : Carries(q, req[p].id)' <=> Carries(q, req[p].id)
    BY SameCarries
  <2>4. QED
    BY <2>1, <2>2, <2>3 DEF CarrierFits
<1>2. ASSUME NEW c \in created
      PROVE  CreatedFits(c[2])'
  <2>1. c[2] \in BucketIds /\ CreatedFits(c[2])
    BY DEF GrantsInv, GrantsTypeOK, RowsInv
  <2>2. rows'[c[2]] = rows[c[2]]
    BY <2>1 DEF CreatedFits, RowsStay
  <2>3. \A q \in Procs : Carries(q, c[2])' => Carries(q, c[2]) /\ req'[q].pc = req[q].pc
    BY SameCarries DEF SameCarrier, Carries, CarryPoints
  <2>4. \A q \in Procs : Carries(q, c[2]) => Carries(q, c[2])' /\ req'[q].pc = req[q].pc
    BY SameCarries DEF SameCarrier, Carries, CarryPoints
  <2>5. QED
    BY <2>1, <2>2, <2>3, <2>4 DEF CreatedFits, There
<1>3. QED
  BY <1>1, <1>2 DEF RowsInv

(* Requests that do *)

(* What the others know: the row may go with the request that drops it. *)
LEMMA OthersCarry ==
  ASSUME GrantsInv, RowsInv, NEW p \in Procs, \A q \in Procs : q # p => SameCarrier(q),
         spoiled \subseteq spoiled',
         \A i \in BucketIds : \/ rows'[i] = rows[i] \/ rows[i] = None
                              \/ rows'[i] = "gone" /\ Carries(p, i),
         \A n \in BucketNames : n \in stored => n \in stored' \/ \E i \in BucketIds : Carries(p, i) /\ req[p].name = n,
         NEW q \in Procs, q # p,
         \A i \in BucketIds :
           Carries(p, i)' /\ Carries(q, i) => Carries(p, i) \/ rows[i] \in spoiled' \cup {None}
  PROVE  CarrierFits(q)'
<1> SUFFICES ASSUME req[q].pc \in CarryPoints, req'[q] = req[q]
             PROVE  CarrierFits(q)'
  BY DEF SameCarrier, CarrierFits
<1> DEFINE i == req[q].id
           n == req[q].name
<1>1. CarrierFits(q) /\ i \in BucketIds /\ n \in BucketNames
  BY CarrierTypes DEF RowsInv
<1>2. rows'[i] \in {n, "gone"}
  BY <1>1, GrantsAssumption DEF CarrierFits
<1>3. ASSUME n \notin spoiled'
      PROVE  /\ rows'[i] = n
             /\ req[q].pc = "configure" => n \in stored'
             /\ \A o \in Procs : Carries(o, i)' => o = q
  <2>1. /\ rows[i] = n /\ (req[q].pc = "configure" => n \in stored)
        /\ \A o \in Procs : Carries(o, i) => o = q
    BY <1>1, <1>3 DEF CarrierFits
  <2>2. ~Carries(p, i)
    BY <2>1
  <2>3. rows'[i] = n
    BY <1>1, <2>1, <2>2, GrantsAssumption
  <2>4. \A j \in BucketIds : ~(Carries(p, j) /\ req[p].name = n)
    <3> SUFFICES ASSUME NEW j \in BucketIds, Carries(p, j), req[p].name = n
                 PROVE  FALSE
      OBVIOUS
    <3>1. req[p].id = j /\ req[p].pc \in CarryPoints
      BY DEF Carries, CarryPoints
    <3>2. rows[j] = n
      BY <1>3, <3>1 DEF RowsInv, CarrierFits
    <3>3. i = j
      BY <1>1, <2>1, <3>2 DEF RowsInv, NamesDiffer, There
    <3>4. QED
      BY <2>2, <3>3
  <2>5. \A o \in Procs : Carries(o, i)' => o = q
    <3>1. Carries(q, i) /\ rows[i] \notin spoiled' \cup {None}
      BY <1>1, <1>3, <2>1, GrantsAssumption DEF Carries, CarryPoints
    <3>2. ~Carries(p, i)'
      BY <1>1, <2>2, <3>1
    <3>3. QED
      BY <2>1, <3>2, SameCarries
  <2>6. QED
    BY <1>1, <2>1, <2>3, <2>4, <2>5
<1> HIDE DEF i, n
<1>4. i' = i /\ n' = n
  BY DEF i, n
<1>5. QED
  BY <1>2, <1>3 DEF CarrierFits, i, n

(* A bucket that p does not carry. *)
LEMMA OthersCreated ==
  ASSUME GrantsInv, RowsInv, NEW p \in Procs, \A q \in Procs : q # p => SameCarrier(q),
         spoiled \subseteq spoiled', NEW i \in BucketIds, CreatedFits(i), rows'[i] = rows[i],
         ~Carries(p, i), ~Carries(p, i)',
         \A n \in BucketNames : n \in stored => n \in stored' \/ \E j \in BucketIds : Carries(p, j) /\ req[p].name = n
  PROVE  CreatedFits(i)'
<1> SUFFICES ASSUME There(i), rows[i] \notin spoiled'
             PROVE  /\ \A q \in Procs : Carries(q, i)' => req'[q].pc \in {"dropstore", "droprow", "cascade"}
                    /\ \/ rows[i] \in stored'
                       \/ \E q \in Procs : Carries(q, i)' /\ req'[q].pc \in {"droprow", "cascade"}
  BY DEF CreatedFits, There
<1>1. /\ \A q \in Procs : Carries(q, i) => req[q].pc \in {"dropstore", "droprow", "cascade"}
      /\ rows[i] \in stored \/ \E q \in Procs : Carries(q, i) /\ req[q].pc \in {"droprow", "cascade"}
  BY DEF CreatedFits
<1>2. \A q \in Procs : Carries(q, i)' <=> Carries(q, i)
  BY SameCarries
<1>3. \A q \in Procs : Carries(q, i) => req'[q] = req[q]
  BY DEF SameCarrier, Carries, CarryPoints
<1>4. rows[i] \in stored => rows[i] \in stored'
  <2> SUFFICES ASSUME NEW j \in BucketIds, Carries(p, j), req[p].name = rows[i]
               PROVE  FALSE
    BY DEF There
  <2>1. req[p].id = j /\ req[p].pc \in CarryPoints
    BY DEF Carries, CarryPoints
  <2>2. rows[j] = rows[i]
    BY <2>1 DEF RowsInv, CarrierFits
  <2>3. QED
    BY <2>2 DEF RowsInv, NamesDiffer
<1>5. QED
  BY <1>1, <1>2, <1>3, <1>4

LEMMA CarrierGoes ==
  ASSUME GrantsInv, RowsInv, NEW p \in Procs, \A q \in Procs : q # p => SameCarrier(q),
         UNCHANGED <<rows, created, spoiled>>,
         req[p].pc \in CarryPoints, req'[p].pc \in CarryPoints,
         req'[p].id = req[p].id, req'[p].name = req[p].name,
         \A n \in BucketNames : n \in stored => n \in stored' \/ (n = req[p].name /\ req'[p].pc = "droprow"),
         req'[p].pc = "configure" => req[p].name \in stored',
         req[p].pc \in {"droprow", "cascade"} => req'[p].pc \in {"droprow", "cascade"},
         req[p].pc = "dropstore" => req'[p].pc = "droprow"
  PROVE  RowsInv'
<1>1. CarrierFits(p) /\ req[p].id \in BucketIds /\ req[p].name \in BucketNames
  BY CarrierTypes DEF RowsInv
<1>2. \A q \in Procs : \A i : Carries(q, i)' <=> Carries(q, i)
  BY SameCarries DEF Carries, CarryPoints
<1>3. Carries(p, req[p].id)
  BY DEF Carries, CarryPoints
<1>4. \A n \in BucketNames : n \in stored => n \in stored' \/ \E i \in BucketIds : Carries(p, i) /\ req[p].name = n
  BY <1>1, <1>3
<1>5. CarrierFits(p)'
  BY <1>1, <1>2 DEF CarrierFits
<1>6. \A q \in Procs : q # p => CarrierFits(q)'
  BY <1>2, <1>4, OthersCarry
<1>7. ASSUME NEW c \in created
      PROVE  CreatedFits(c[2])'
  <2> DEFINE i == c[2]
  <2>1. i \in BucketIds /\ CreatedFits(i)
    BY DEF GrantsInv, GrantsTypeOK, RowsInv
  <2>2. CASE ~Carries(p, i)
    BY <1>2, <1>4, <2>1, <2>2, OthersCreated
  <2>3. CASE Carries(p, i)
    <3>1. req[p].id = i /\ rows'[i] = rows[i]
      BY <2>3 DEF Carries
    <3>2. \A q \in Procs : q # p /\ Carries(q, i) => req'[q] = req[q]
      BY DEF SameCarrier, Carries, CarryPoints
    <3>3. There(i) => rows[i] = req[p].name
      BY <1>1, <3>1, GrantsAssumption DEF CarrierFits, There
    <3> HIDE DEF i
    <3> SUFFICES ASSUME There(i), rows[i] \notin spoiled
                 PROVE  /\ \A q \in Procs : Carries(q, i)' => req'[q].pc \in {"dropstore", "droprow", "cascade"}
                        /\ \/ rows[i] \in stored'
                           \/ \E q \in Procs : Carries(q, i)' /\ req'[q].pc \in {"droprow", "cascade"}
      BY <2>1, <3>1 DEF CreatedFits, There, i
    <3>4. /\ \A q \in Procs : Carries(q, i) => req[q].pc \in {"dropstore", "droprow", "cascade"}
          /\ rows[i] \in stored \/ \E q \in Procs : Carries(q, i) /\ req[q].pc \in {"droprow", "cascade"}
      BY <2>1 DEF CreatedFits
    <3>5. req'[p].pc \in {"droprow", "cascade"}
      BY <2>3, <3>4
    <3>6. QED
      BY <1>2, <2>3, <3>2, <3>4, <3>5
  <2>4. QED
    BY <2>2, <2>3
<1>8. QED
  BY <1>5, <1>6, <1>7 DEF RowsInv, NamesDiffer, There

LEMMA CarrierEnds ==
  ASSUME GrantsInv, RowsInv, NEW p \in Procs, \A q \in Procs : q # p => SameCarrier(q),
         UNCHANGED <<rows, stored>>, spoiled \subseteq spoiled',
         req[p].pc \in CarryPoints, req'[p] = Idle,
         req[p].pc \in {"droprow", "cascade"} => ~There(req[p].id) \/ req[p].name \in spoiled'
  PROVE  /\ NamesDiffer' /\ \A q \in Procs : CarrierFits(q)'
         /\ \A c \in created : CreatedFits(c[2])'
<1>1. \A i : ~Carries(p, i)'
  BY DEF Carries, Idle
<1>2. CarrierFits(p)'
  BY DEF CarrierFits, Idle, CarryPoints
<1>3. \A q \in Procs : q # p => CarrierFits(q)'
  BY <1>1, OthersCarry
<1>4. ASSUME NEW c \in created
      PROVE  CreatedFits(c[2])'
  <2> DEFINE i == c[2]
  <2>1. i \in BucketIds /\ CreatedFits(i)
    BY DEF GrantsInv, GrantsTypeOK, RowsInv
  <2>2. CASE ~Carries(p, i)
    BY <1>1, <2>1, <2>2, OthersCreated
  <2>3. CASE Carries(p, i)
    <3>1. req[p].id = i /\ rows'[i] = rows[i]
      BY <2>3 DEF Carries
    <3>2. \A q \in Procs : Carries(q, i)' => Carries(q, i) /\ q # p /\ req'[q] = req[q]
      BY <1>1, SameCarries DEF SameCarrier, Carries, CarryPoints
    <3>3. \A q \in Procs : Carries(q, i) /\ q # p => Carries(q, i)' /\ req'[q] = req[q]
      BY SameCarries DEF SameCarrier, Carries, CarryPoints
    <3>4. There(i) => rows[i] = req[p].name
      BY <3>1, GrantsAssumption DEF CarrierFits, There, RowsInv
    <3> HIDE DEF i
    <3> SUFFICES ASSUME There(i), rows[i] \notin spoiled'
                 PROVE  /\ \A q \in Procs : Carries(q, i)' => req'[q].pc \in {"dropstore", "droprow", "cascade"}
                        /\ \/ rows[i] \in stored
                           \/ \E q \in Procs : Carries(q, i)' /\ req'[q].pc \in {"droprow", "cascade"}
      BY <2>1, <3>1 DEF CreatedFits, There, i
    <3>5. /\ \A q \in Procs : Carries(q, i) => req[q].pc \in {"dropstore", "droprow", "cascade"}
          /\ rows[i] \in stored \/ \E q \in Procs : Carries(q, i) /\ req[q].pc \in {"droprow", "cascade"}
      BY <2>1 DEF CreatedFits
    <3>6. req[p].pc \notin {"droprow", "cascade"}
      BY <3>1, <3>4
    <3>7. QED
      BY <3>2, <3>3, <3>5, <3>6
  <2>4. QED
    BY <2>2, <2>3
<1>5. QED
  BY <1>2, <1>3, <1>4 DEF RowsInv, NamesDiffer, There

(* The steps *)

LEMMA CreationRows ==
  ASSUME GrantsInv, RowsInv, NEW p \in Procs,
         \/ GrantLocalFails(p) \/ EnsureBucket(p) \/ EnsureBucketFails(p) \/ ConfigureFails(p)
         \/ UndoBucket(p) \/ DeleteBucket(p)
  PROVE  RowsInv'
<1>1. /\ req[p].pc \in CarryPoints \ {"droprow", "cascade"} /\ UNCHANGED <<rows, created, spoiled>>
      /\ req[p].pc # "configure" \/ ConfigureFails(p)
  BY DEF GrantLocalFails, EnsureBucket, EnsureBucketFails, ConfigureFails, UndoBucket, DeleteBucket, At,
         grantVars, CarryPoints
<1>2. req[p] \in Carrying /\ req[p].name \in BucketNames
  BY <1>1, CarrierTypes
<1>3. PICK point \in {"configure", "undostore", "droprow"} :
        /\ Goes(p, point)
        /\ point = "configure" => req[p].name \in stored'
        /\ req[p].pc = "dropstore" => point = "droprow"
        /\ \A n \in BucketNames : n \in stored => n \in stored' \/ (n = req[p].name /\ point = "droprow")
  BY DEF GrantLocalFails, EnsureBucket, EnsureBucketFails, ConfigureFails, UndoBucket, DeleteBucket,
         grantVars, At
<1> DEFINE r == [req[p] EXCEPT !.pc = point]
<1>4. r.pc = point /\ r.id = req[p].id /\ r.name = req[p].name
  BY <1>2 DEF Carrying
<1>5. req'[p] = r /\ \A q \in Procs : q # p => SameCarrier(q)
  BY <1>3, MovedCarriers DEF Goes
<1> HIDE DEF r
<1>6. point \in CarryPoints
  BY DEF CarryPoints
<1>7. QED
  BY <1>1, <1>3, <1>4, <1>5, <1>6, CarrierGoes

LEMMA GrantLocalRows ==
  ASSUME GrantsInv, RowsInv, NEW p \in Procs, GrantLocal(p)
  PROVE  RowsInv'
<1> DEFINE r == [req[p] EXCEPT !.pc = "ensurestore"]
<1>1. /\ req[p].pc = "grantlocal" /\ UNCHANGED <<rows, stored, created, spoiled>>
      /\ MovesAmid(p, r, req[p].acct, {})
  BY DEF GrantLocal, At
<1>2. req[p] \in Carrying /\ req[p].pc \in CarryPoints
  BY <1>1, CarrierTypes DEF CarryPoints
<1>3. r.pc = "ensurestore" /\ r.id = req[p].id /\ r.name = req[p].name /\ r \in GrantsRequest
  BY <1>2 DEF Carrying, GrantsRequest
<1> HIDE DEF r
<1>4. req'[p] = r /\ \A q \in Procs : q # p => SameCarrier(q)
  BY <1>1, <1>3, AmidCarriers
<1>5. r.pc \in CarryPoints
  BY <1>3 DEF CarryPoints
<1>6. QED
  BY <1>1, <1>2, <1>3, <1>4, <1>5, CarrierGoes

LEMMA LockRowRows ==
  ASSUME GrantsInv, RowsInv, NEW p \in Procs, LockRow(p)
  PROVE  RowsInv'
<1>1. req[p].pc = "droprow" /\ UNCHANGED <<rows, stored, created, spoiled>> /\ req[p].pc \in CarryPoints
  BY DEF LockRow, At, grantVars, CarryPoints
<1>2. req[p] \in Carrying
  BY <1>1, CarrierTypes
<1>3. CASE There(req[p].id)
  <2> DEFINE r == [req[p] EXCEPT !.pc = "cascade"]
  <2>1. r.pc = "cascade" /\ r.id = req[p].id /\ r.name = req[p].name
    BY <1>2 DEF Carrying
  <2>2. req'[p] = r /\ \A q \in Procs : q # p => SameCarrier(q)
    BY <1>3, MovedCarriers DEF LockRow, Goes
  <2> HIDE DEF r
  <2>3. r.pc \in CarryPoints
    BY <2>1 DEF CarryPoints
  <2>4. QED
    BY <1>1, <2>1, <2>2, <2>3, CarrierGoes
<1>4. CASE ~There(req[p].id)
  <2>1. req'[p] = Idle /\ \A q \in Procs : q # p => SameCarrier(q)
    BY <1>4, MovedCarriers DEF LockRow, Ends
  <2>2. QED
    BY <1>1, <1>4, <2>1, CarrierEnds DEF RowsInv
<1>5. QED
  BY <1>3, <1>4

LEMMA EndsRows ==
  ASSUME GrantsInv, RowsInv, NEW p \in Procs, DeleteBucketFails(p) \/ GrantsDies(p)
  PROVE  RowsInv'
<1>1. /\ UNCHANGED <<rows, stored, created>> /\ spoiled \subseteq spoiled'
      /\ req[p].pc \in {"droprow", "cascade"} => req[p].name \in spoiled'
      /\ Moves(p, Idle)
  BY DEF DeleteBucketFails, GrantsDies, Dies, Ends, At, grantVars
<1>2. req'[p] = Idle /\ \A q \in Procs : q # p => SameCarrier(q)
  BY <1>1, MovedCarriers
<1>3. CASE req[p].pc \in CarryPoints
  BY <1>1, <1>2, <1>3, CarrierEnds DEF RowsInv
<1>4. CASE req[p].pc \notin CarryPoints
  <2>1. SameCarrier(p)
    BY <1>2, <1>4 DEF SameCarrier, Idle, CarryPoints
  <2>2. spoiled' = spoiled
    BY <1>4 DEF DeleteBucketFails, GrantsDies, At, CarryPoints, grantVars
  <2>3. RowsStay /\ NamesDiffer'
    BY <1>1 DEF RowsStay, RowsInv, NamesDiffer, There
  <2>4. QED
    BY <1>1, <1>2, <2>1, <2>2, <2>3, OthersRows
<1>5. QED
  BY <1>3, <1>4

LEMMA ConfigureRows ==
  ASSUME GrantsInv, RowsInv, NEW p \in Procs, Configure(p)
  PROVE  RowsInv'
<1>1. /\ UNCHANGED <<rows, stored, spoiled>> /\ req[p].pc = "configure" /\ Moves(p, Idle)
      /\ created' = created \cup {<<req[p].acct, req[p].id>>}
  BY DEF Configure, At, Ends
<1>2. /\ req'[p] = Idle /\ req[p].pc \in CarryPoints
      /\ \A q \in Procs : q # p => SameCarrier(q)
  BY <1>1, MovedCarriers DEF CarryPoints
<1>3. /\ NamesDiffer' /\ \A q \in Procs : CarrierFits(q)'
      /\ \A c \in created : CreatedFits(c[2])'
  BY <1>1, <1>2, CarrierEnds
<1>4. PICK i \in BucketIds : i = req[p].id
  BY <1>2, CarrierTypes
<1>5. CreatedFits(i)'
  <2>1. CarrierFits(p) /\ req[p].name \in BucketNames
    BY <1>2, CarrierTypes DEF RowsInv
  <2>2. /\ rows[i] # None /\ (There(i) => rows[i] = req[p].name)
    BY <1>2, <1>4, <2>1, GrantsAssumption DEF CarrierFits, There
  <2>3. rows[i] \notin spoiled /\ There(i) => rows[i] \in stored /\ \A q \in Procs : Carries(q, i) => q = p
    BY <1>1, <1>2, <1>4, <2>1, <2>2 DEF CarrierFits
  <2>4. ~Carries(p, i)'
    BY <1>2 DEF Carries, Idle
  <2>5. \A q \in Procs : Carries(q, i)' => Carries(q, i) /\ q # p
    BY <1>2, <2>4, SameCarries
  <2>6. QED
    BY <1>1, <2>2, <2>3, <2>5 DEF CreatedFits, There
<1>6. ASSUME NEW c \in created'
      PROVE  CreatedFits(c[2])'
  <2>1. c \in created \/ c[2] = i
    BY <1>1, <1>4
  <2>2. QED
    BY <1>3, <1>5, <2>1
<1>7. QED
  BY <1>3, <1>6 DEF RowsInv

LEMMA DeleteRowRows ==
  ASSUME GrantsInv, RowsInv, NEW p \in Procs, DeleteRow(p)
  PROVE  RowsInv'
<1>1. /\ UNCHANGED <<stored, created, spoiled>> /\ req[p].pc = "cascade"
      /\ rows' = [rows EXCEPT ![req[p].id] = "gone"] /\ MovesAmid(p, Idle, req[p].acct, {})
  BY DEF DeleteRow, At
<1>2. req'[p] = Idle /\ req[p].pc \in CarryPoints /\ \A q \in Procs : q # p => SameCarrier(q)
  BY <1>1, AmidCarriers DEF CarryPoints, GrantsRequest
<1>3. PICK i \in BucketIds : i = req[p].id
  BY <1>2, CarrierTypes
<1>4. /\ rows'[i] = "gone" /\ (\A j \in BucketIds : j # i => rows'[j] = rows[j])
      /\ \A j : Carries(p, j) <=> j = i
      /\ \A j : ~Carries(p, j)'
  BY <1>1, <1>2, <1>3 DEF GrantsInv, GrantsTypeOK, Carries, CarryPoints, Idle
<1>5. CarrierFits(p)'
  BY <1>2 DEF CarrierFits, Idle, CarryPoints
<1>6. \A q \in Procs : q # p => CarrierFits(q)'
  BY <1>1, <1>2, <1>4, OthersCarry
<1>7. ASSUME NEW c \in created
      PROVE  CreatedFits(c[2])'
  <2>1. c[2] \in BucketIds /\ CreatedFits(c[2])
    BY DEF GrantsInv, GrantsTypeOK, RowsInv
  <2>2. CASE c[2] = i
    BY <1>4, <2>2, GrantsAssumption DEF CreatedFits, There
  <2>3. CASE c[2] # i
    BY <1>1, <1>2, <1>4, <2>1, <2>3, OthersCreated
  <2>4. QED
    BY <2>2, <2>3
<1>8. NamesDiffer'
  BY <1>4, GrantsAssumption DEF RowsInv, NamesDiffer, There
<1>9. QED
  BY <1>1, <1>5, <1>6, <1>7, <1>8 DEF RowsInv

LEMMA InsertRows ==
  ASSUME GrantsInv, RowsInv, NEW p \in Procs, NEW a \in Accounts, NEW n \in BucketNames, Insert(p, a, n)
  PROVE  RowsInv'
<1>1. PICK i \in BucketIds :
        rows[i] = None /\ rows' = [rows EXCEPT ![i] = n] /\ Moves(p, Carry(a, i, n))
  BY DEF Insert, NextId
<1>2. UNCHANGED <<stored, created, spoiled>> /\ req[p].pc = "idle" /\ \A j \in BucketIds : rows[j] # n
  BY DEF Insert, At, Named
<1>3. req'[p] = Carry(a, i, n) /\ \A q \in Procs : q # p => SameCarrier(q)
  BY <1>1, MovedCarriers
<1>4. /\ rows'[i] = n /\ (\A j \in BucketIds : j # i => rows'[j] = rows[j])
      /\ \A j : ~Carries(p, j)
      /\ \A j : Carries(p, j)' <=> j = i
  BY <1>1, <1>2, <1>3 DEF GrantsInv, GrantsTypeOK, Carries, Carry
<1>5. \A q \in Procs : ~Carries(q, i)
  BY <1>1, GrantsAssumption, CarrierTypes DEF RowsInv, CarrierFits, Carries, CarryPoints
<1>6. CarrierFits(p)'
  <2>1. \A q \in Procs : Carries(q, i)' => q = p
    BY <1>3, <1>5, SameCarries
  <2>2. QED
    BY <1>3, <1>4, <2>1 DEF CarrierFits, Carry
<1>7. \A q \in Procs : q # p => CarrierFits(q)'
  BY <1>1, <1>2, <1>3, <1>4, OthersCarry
<1>8. ASSUME NEW c \in created
      PROVE  CreatedFits(c[2])'
  <2>1. c[2] \in BucketIds /\ CreatedFits(c[2])
    BY DEF GrantsInv, GrantsTypeOK, RowsInv
  <2>2. c[2] # i
    BY <1>1, <2>1 DEF CreatedFits
  <2>3. QED
    BY <1>2, <1>3, <1>4, <2>1, <2>2, OthersCreated
<1>9. NamesDiffer'
  BY <1>2, <1>4 DEF RowsInv, NamesDiffer, There
<1>10. QED
  BY <1>2, <1>6, <1>7, <1>8, <1>9 DEF RowsInv

LEMMA LoadRows ==
  ASSUME GrantsInv, RowsInv, NEW p \in Procs, NEW a \in Accounts, NEW i \in BucketIds, Load(p, a, i)
  PROVE  RowsInv'
<1> DEFINE r == [Carry(a, i, rows[i]) EXCEPT !.pc = "dropstore"]
<1>1. /\ UNCHANGED <<rows, stored, created>> /\ req[p].pc = "idle" /\ Moves(p, r) /\ There(i)
      /\ spoiled \subseteq spoiled'
      /\ (\E q \in Procs : Carries(q, i)) => rows[i] \in spoiled'
  BY DEF Load, At
<1>2. r.pc = "dropstore" /\ r.id = i /\ r.name = rows[i]
  BY DEF Carry
<1>3. req'[p] = r /\ \A q \in Procs : q # p => SameCarrier(q)
  BY <1>1, MovedCarriers
<1> HIDE DEF r
<1>4. (\A j : ~Carries(p, j)) /\ \A j : Carries(p, j)' <=> j = i
  BY <1>1, <1>2, <1>3 DEF Carries
<1>5. CarrierFits(p)'
  <2>1. rows[i] \notin spoiled' => \A q \in Procs : Carries(q, i)' => q = p
    BY <1>1, <1>3, SameCarries
  <2>2. QED
    BY <1>1, <1>2, <1>3, <2>1 DEF CarrierFits
<1>6. ASSUME NEW q \in Procs, q # p
      PROVE  CarrierFits(q)'
  <2>1. \A j \in BucketIds : Carries(p, j)' /\ Carries(q, j) => rows[j] \in spoiled'
    BY <1>1, <1>4
  <2>2. QED
    BY <1>1, <1>3, <1>6, <2>1, OthersCarry
<1>7. ASSUME NEW c \in created
      PROVE  CreatedFits(c[2])'
  <2>1. c[2] \in BucketIds /\ CreatedFits(c[2])
    BY DEF GrantsInv, GrantsTypeOK, RowsInv
  <2>2. CASE c[2] # i
    BY <1>1, <1>3, <1>4, <2>1, <2>2, OthersCreated
  <2>3. CASE c[2] = i
    <3> SUFFICES ASSUME rows[i] \notin spoiled'
                 PROVE  /\ \A q \in Procs : Carries(q, i)' => req'[q].pc \in {"dropstore", "droprow", "cascade"}
                        /\ rows[i] \in stored
      BY <1>1, <2>1, <2>3 DEF CreatedFits, There
    <3>1. \A q \in Procs : ~Carries(q, i)
      BY <1>1
    <3>2. rows[i] \in stored
      BY <1>1, <2>1, <2>3, <3>1 DEF CreatedFits
    <3>3. \A q \in Procs : Carries(q, i)' => q = p
      BY <1>3, <3>1, SameCarries
    <3>4. QED
      BY <1>2, <1>3, <3>2, <3>3
  <2>4. QED
    BY <2>2, <2>3
<1>8. QED
  BY <1>1, <1>5, <1>6, <1>7 DEF RowsInv, NamesDiffer, There

LEMMA ReplacementRows ==
  ASSUME GrantsInv, RowsInv, NEW p \in Procs,
         \/ BeginTx(p) \/ ClearOpsGrant(p) \/ OpsGrantsCleared(p) \/ InsertOpsGrant(p)
         \/ InsertOpsGrantFails(p) \/ UnboundIDs(p) \/ DeleteByBucket(p) \/ Replaced(p)
         \/ Ensure(p) \/ Commit(p)
         \/ \E a \in Accounts, S \in SUBSET BucketNames : OpsGrantIDs(p, a, S)
  PROVE  RowsInv'
<1>1. /\ req[p].pc \notin CarryPoints \cup {"lockuser", "dropgrants"}
      /\ UNCHANGED <<stored, created, spoiled>>
  BY DEF BeginTx, ClearOpsGrant, OpsGrantsCleared, InsertOpsGrant, InsertOpsGrantFails, UnboundIDs,
         DeleteByBucket, Replaced, Ensure, Commit, OpsGrantIDs, At, CarryPoints, grantVars
<1>2. req[p].pc # "idle" => req[p] \in Replacing
  BY <1>1 DEF GrantsInv, GrantsFit, GrantFits, GrantsRequest, CarryPoints, Idle, Carrying, Leaving
<1>3. \A q \in Procs : SameCarrier(q)
  <2>1. CASE Commit(p)
    <3> DEFINE r == [req[p] EXCEPT !.pc = "unbound", !.old = @ \ req[p].ids, !.ids = {}, !.del = {}, !.ins = {}]
    <3>1. r \in GrantsRequest /\ r.pc \notin CarryPoints
      BY <1>2, <2>1 DEF Commit, At, Replacing, GrantsRequest, CarryPoints
    <3>2. MovesAmid(p, r, req[p].acct, req[p].del)
      BY <2>1 DEF Commit
    <3> HIDE DEF r
    <3>3. QED
      BY <1>1, <3>1, <3>2, AmidCarriers DEF SameCarrier
  <2>2. CASE ~Commit(p)
    <3>1. PICK r : Moves(p, r) /\ r.pc \notin CarryPoints
      <4>1. CASE Ends(p)
        BY <4>1 DEF Ends, Idle, CarryPoints
      <4>2. CASE \E a \in Accounts, S \in SUBSET BucketNames : OpsGrantIDs(p, a, S)
        BY <4>2 DEF OpsGrantIDs, CarryPoints
      <4>3. CASE ~Ends(p) /\ ~(\E a \in Accounts, S \in SUBSET BucketNames : OpsGrantIDs(p, a, S))
        <5>1. req[p] \in Replacing
          BY <1>2, <2>2, <4>3 DEF BeginTx, ClearOpsGrant, OpsGrantsCleared, InsertOpsGrant, InsertOpsGrantFails,
                 UnboundIDs, DeleteByBucket, Replaced, Ensure, At, AfterForeignKey
        <5>2. req[p].pc \notin CarryPoints
          BY <1>1
        <5>3. CASE BeginTx(p)
          <6> DEFINE r == [req[p] EXCEPT !.pc = "clear", !.todo = OpsGrants(req[p].acct)]
          <6>1. Moves(p, r) /\ r.pc \notin CarryPoints
            BY <5>1, <5>3 DEF BeginTx, Replacing, CarryPoints
          <6>2. QED
            BY <6>1
        <5>4. CASE ClearOpsGrant(p)
          <6>1. PICK i \in req[p].todo :
                  Moves(p, [req[p] EXCEPT !.todo = @ \ {i},
                                          !.del = IF i \in OpsGrants(req[p].acct) THEN @ \cup {i} ELSE @])
            BY <5>4 DEF ClearOpsGrant
          <6> DEFINE r == [req[p] EXCEPT !.todo = @ \ {i},
                                         !.del = IF i \in OpsGrants(req[p].acct) THEN @ \cup {i} ELSE @]
          <6>2. r.pc \notin CarryPoints
            BY <5>1, <5>2 DEF Replacing
          <6>3. QED
            BY <6>1, <6>2
        <5>5. CASE OpsGrantsCleared(p)
          <6> DEFINE r == [req[p] EXCEPT !.pc = "insert", !.todo = @ \cup req[p].ids]
          <6>1. Moves(p, r) /\ r.pc \notin CarryPoints
            BY <5>1, <5>5 DEF OpsGrantsCleared, Replacing, CarryPoints
          <6>2. QED
            BY <6>1
        <5>6. CASE InsertOpsGrant(p)
          <6>1. PICK i \in req[p].todo :
                  Moves(p, [req[p] EXCEPT !.todo = @ \ {i}, !.ins = IF Conflicts(p, i) THEN @ ELSE @ \cup {i}])
            BY <5>6 DEF InsertOpsGrant
          <6> DEFINE r == [req[p] EXCEPT !.todo = @ \ {i}, !.ins = IF Conflicts(p, i) THEN @ ELSE @ \cup {i}]
          <6>2. r.pc \notin CarryPoints
            BY <5>1, <5>2 DEF Replacing
          <6>3. QED
            BY <6>1, <6>2
        <5>7. CASE UnboundIDs(p)
          <6> DEFINE r == [req[p] EXCEPT !.pc = "purge", !.old = {},
                                         !.todo = {i \in req[p].old : There(i) /\ Unbound(i)}]
          <6>1. Moves(p, r) /\ r.pc \notin CarryPoints
            BY <5>1, <5>7 DEF UnboundIDs, Replacing, CarryPoints
          <6>2. QED
            BY <6>1
        <5>8. CASE DeleteByBucket(p)
          <6>1. PICK i \in req[p].todo : Moves(p, [req[p] EXCEPT !.todo = @ \ {i}])
            BY <5>8 DEF DeleteByBucket
          <6>2. [req[p] EXCEPT !.todo = @ \ {i}].pc \notin CarryPoints
            BY <5>1, <5>2 DEF Replacing
          <6>3. QED
            BY <6>1, <6>2
        <5>9. CASE Ensure(p)
          <6>1. PICK n \in req[p].names, i \in BucketIds :
                  Moves(p, [req[p] EXCEPT !.names = @ \ {n}, !.ids = @ \cup {i}])
            BY <5>9 DEF Ensure
          <6>2. [req[p] EXCEPT !.names = @ \ {n}, !.ids = @ \cup {i}].pc \notin CarryPoints
            BY <5>1, <5>2 DEF Replacing
          <6>3. QED
            BY <6>1, <6>2
        <5>10. QED
          BY <2>2, <4>3, <5>3, <5>4, <5>5, <5>6, <5>7, <5>8, <5>9
             DEF InsertOpsGrantFails, AfterForeignKey, Replaced
      <4>4. QED
        BY <4>1, <4>2, <4>3
    <3>2. QED
      BY <1>1, <3>1, MovedCarriers DEF SameCarrier
  <2>3. QED
    BY <2>1, <2>2
<1>4. RowsStay /\ NamesDiffer'
  <2>1. CASE Ensure(p)
    <3>1. PICK n \in BucketNames, i \in BucketIds :
            /\ IF Named(n) = {} THEN NextId(i) ELSE i \in Named(n)
            /\ rows' = [rows EXCEPT ![i] = n]
      BY <1>2, <2>1 DEF Ensure, Replacing, At
    <3>2. rows'[i] = n /\ \A j \in BucketIds : j # i => rows'[j] = rows[j]
      BY <3>1 DEF GrantsInv, GrantsTypeOK
    <3>3. CASE Named(n) = {}
      <4>1. rows[i] = None /\ \A j \in BucketIds : rows[j] # n
        BY <3>1, <3>3 DEF Named, NextId
      <4>2. QED
        BY <3>2, <4>1 DEF RowsStay, RowsInv, NamesDiffer, There
    <3>4. CASE Named(n) # {}
      BY <3>1, <3>2, <3>4 DEF Named, RowsStay, RowsInv, NamesDiffer, There
    <3>5. QED
      BY <3>3, <3>4
  <2>2. CASE ~Ensure(p)
    <3>1. rows' = rows
      BY <2>2 DEF BeginTx, ClearOpsGrant, OpsGrantsCleared, InsertOpsGrant, InsertOpsGrantFails, UnboundIDs,
                  DeleteByBucket, Replaced, Commit, OpsGrantIDs, grantVars
    <3>2. QED
      BY <3>1 DEF RowsStay, RowsInv, NamesDiffer, There
  <2>3. QED
    BY <2>1, <2>2
<1>5. QED
  BY <1>1, <1>3, <1>4, OthersRows

LEMMA LeavingRows ==
  ASSUME GrantsInv, RowsInv, NEW p \in Procs,
         \/ LockUser(p) \/ DropGrant(p) \/ DeleteAccount(p)
         \/ \E a \in Accounts : DeleteByUsername(p, a)
  PROVE  RowsInv'
<1>1. UNCHANGED <<rows, stored, created, spoiled>> /\ req[p].pc \in {"idle", "lockuser", "dropgrants"}
  BY DEF DeleteAccount, LockUser, DropGrant, DeleteByUsername, grantVars, At
<1>2. req[p].pc \notin CarryPoints
  BY <1>1 DEF CarryPoints
<1>3. \A q \in Procs : SameCarrier(q)
  <2>1. CASE DeleteAccount(p)
    <3>1. Idle \in GrantsRequest /\ Idle.pc \notin CarryPoints
      BY DEF GrantsRequest, Idle, CarryPoints
    <3>2. MovesAmid(p, Idle, req[p].acct, BucketIds)
      BY <2>1 DEF DeleteAccount
    <3>3. QED
      BY <1>2, <3>1, <3>2, AmidCarriers DEF SameCarrier
  <2>2. CASE ~DeleteAccount(p)
    <3>1. PICK r : Moves(p, r) /\ r.pc \notin CarryPoints
      <4>1. req[p].pc # "idle" => req[p] \in Leaving
        BY <1>1, GrantsRequestTypes DEF GrantsInv, GrantsFit, GrantFits
      <4>2. CASE Ends(p)
        BY <4>2 DEF Ends, Idle, CarryPoints
      <4>3. CASE \E a \in Accounts : DeleteByUsername(p, a)
        BY <4>3 DEF DeleteByUsername, CarryPoints
      <4>4. CASE LockUser(p) /\ ~Ends(p)
        <5> DEFINE r == [req[p] EXCEPT !.pc = "dropgrants", !.todo = AllGrants(req[p].acct)]
        <5>1. Moves(p, r) /\ r.pc \notin CarryPoints
          BY <4>1, <4>4 DEF LockUser, At, Leaving, CarryPoints
        <5>2. QED
          BY <5>1
      <4>5. CASE DropGrant(p)
        <5>1. PICK i \in req[p].todo :
                Moves(p, [req[p] EXCEPT !.todo = @ \ {i},
                                        !.del = IF i \in AllGrants(req[p].acct) THEN @ \cup {i} ELSE @])
          BY <4>5 DEF DropGrant
        <5> DEFINE r == [req[p] EXCEPT !.todo = @ \ {i},
                                       !.del = IF i \in AllGrants(req[p].acct) THEN @ \cup {i} ELSE @]
        <5>2. r.pc \notin CarryPoints
          BY <1>2, <4>1, <4>5 DEF Leaving, DropGrant, At
        <5>3. QED
          BY <5>1, <5>2
      <4>6. QED
        BY <2>2, <4>2, <4>3, <4>4, <4>5
    <3>2. QED
      BY <1>2, <3>1, MovedCarriers DEF SameCarrier
  <2>3. QED
    BY <2>1, <2>2
<1>4. RowsStay /\ NamesDiffer'
  BY <1>1 DEF RowsStay, RowsInv, NamesDiffer, There
<1>5. QED
  BY <1>1, <1>3, <1>4, OthersRows

LEMMA RowsInvStep == GrantsInv /\ RowsInv /\ [GrantsNext]_<<grantVars, req>> => RowsInv'
<1> SUFFICES ASSUME GrantsInv, RowsInv, [GrantsNext]_<<grantVars, req>>
             PROVE  RowsInv'
  OBVIOUS
<1>1. CASE UNCHANGED <<grantVars, req>>
  BY <1>1 DEF grantVars, RowsInv, NamesDiffer, CarrierFits, CreatedFits, Carries, There
<1>2. ASSUME NEW p \in Procs, GrantsStep(p)
      PROVE  RowsInv'
  BY <1>2, GrantLocalRows, CreationRows, ConfigureRows, EndsRows, LockRowRows, DeleteRowRows, ReplacementRows,
     LeavingRows DEF GrantsStep
<1>3. ASSUME NEW p \in Procs, GrantsDies(p) \/ Victim(p)
      PROVE  RowsInv'
  BY <1>3, EndsRows DEF Victim
<1>4. QED
  BY <1>1, <1>2, <1>3, InsertRows, LoadRows, ReplacementRows, LeavingRows DEF GrantsNext

-----------------------------------------------------------------------------
(* The theorems *)

LEMMA GrantsInvStep == GrantsInv /\ [GrantsNext]_<<grantVars, req>> => GrantsInv'
<1> SUFFICES ASSUME GrantsInv, [GrantsNext]_<<grantVars, req>>
             PROVE  GrantsInv'
  OBVIOUS
<1>1. CASE UNCHANGED <<grantVars, req>>
  BY <1>1 DEF grantVars, GrantsInv, GrantsTypeOK, GrantsFit, GrantFits, OpsGrants, Exclusive, UsersLocked,
              InTx, At, WantedHadRows, LatestReplaceRules, There
<1>2. ASSUME NEW p \in Procs, GrantsStep(p)
      PROVE  GrantsInv'
  BY <1>2, GrantLocalStep, CreateSteps, RemoveSteps, DeleteRowStep, EnsureStep, BeginTxStep, ClearStep,
     ClearedStep, InsertOpsStep, ReplaceEnds, CommitStep, PurgeSteps, LockUserStep, DropGrantStep,
     DeleteAccountStep DEF GrantsStep
<1>3. ASSUME NEW p \in Procs, GrantsDies(p) \/ Victim(p)
      PROVE  GrantsInv'
  BY <1>3, GrantsDiesStep DEF Victim
<1>4. QED
  BY <1>1, <1>2, <1>3, InsertStep, LoadStep, OpsGrantIDsStep, DeleteByUsernameStep DEF GrantsNext

LEMMA GrantsInvariance == GrantsSafe => []GrantsInv
<1>1. GrantsInit => GrantsInv
  <2> SUFFICES ASSUME GrantsInit
               PROVE  GrantsInv
    OBVIOUS
  <2>1. GrantsTypeOK
    BY GrantsAssumption DEF GrantsInit, GrantsTypeOK, There
  <2>2. \A p \in Procs : GrantFits(req[p]) /\ ~InTx(p) /\ ~At(p, "dropgrants")
    BY DEF GrantsInit, GrantFits, GrantsRequest, Idle, InTx, At
  <2>3. WantedHadRows /\ LatestReplaceRules
    BY DEF GrantsInit, WantedHadRows, LatestReplaceRules
  <2>4. QED
    BY <2>1, <2>2, <2>3 DEF GrantsInv, GrantsFit, Exclusive, UsersLocked
<1>2. QED
  BY <1>1, GrantsInvStep, PTL DEF GrantsSafe

(* Buckets, grants and requests have their types. *)
THEOREM GrantsTypes == GrantsSpec => []GrantsTypeOK
BY GrantsInvariance, PTL DEF GrantsInv, GrantsSpec

(* After a lone replacement the account has the grants of operations it     *)
(* named, until the next one.  (internal/bucket/store.go:163-180)           *)
THEOREM LatestReplaceRulesAlways == GrantsSpec => []LatestReplaceRules
BY GrantsInvariance, PTL DEF GrantsInv, GrantsSpec

(* A local grant ends only with its bucket or its account.                  *)
(* (internal/bucket/store.go:169)                                           *)
THEOREM LocalGrantStaysAlways == GrantsSpec => LocalGrantStays
<1> DEFINE Stays == \A a \in Accounts, i \in BucketIds :
              grants[a][i] = "local" /\ grants'[a][i] # "local" => rows'[i] = "gone" \/ a \notin accounts'
<1>1. GrantsInv /\ [GrantsNext]_<<grantVars, req>> => [Stays]_<<grantVars, req>>
  <2> SUFFICES ASSUME GrantsInv, GrantsNext, NEW a \in Accounts, NEW i \in BucketIds,
                      grants[a][i] = "local", grants'[a][i] # "local"
               PROVE  rows'[i] = "gone" \/ a \notin accounts'
    OBVIOUS
  <2>0. /\ grants \in [Accounts -> [BucketIds -> {"no", "local", "ops"}]]
        /\ rows \in [BucketIds -> BucketNames \cup {None, "gone"}]
    BY DEF GrantsInv, GrantsTypeOK
  <2>1. ASSUME NEW p \in Procs, GrantLocal(p)
        PROVE  FALSE
    BY <2>0, <2>1 DEF GrantLocal, AsLocal
  <2>2. ASSUME NEW p \in Procs, DeleteRow(p)
        PROVE  rows'[i] = "gone"
    BY <2>0, <2>2 DEF DeleteRow
  <2>3. ASSUME NEW p \in Procs, Commit(p)
        PROVE  FALSE
    <3>1. GrantFits(req[p]) /\ req[p].pc = "insert"
      BY <2>3 DEF GrantsInv, GrantsFit, Commit, At
    <3>2. a = req[p].acct => i \notin req[p].ins /\ i \notin req[p].del
      BY <3>1 DEF GrantFits
    <3>3. QED
      BY <2>0, <2>3, <3>2 DEF Commit, Committed
  <2>4. ASSUME NEW p \in Procs, DeleteAccount(p)
        PROVE  a \notin accounts'
    BY <2>0, <2>4 DEF DeleteAccount
  <2>5. QED
    BY <2>1, <2>2, <2>3, <2>4
    DEF GrantsNext, GrantsStep, GrantLocalFails, EnsureBucket, EnsureBucketFails, Configure, ConfigureFails,
        UndoBucket, DeleteBucket, DeleteBucketFails, LockRow, Ensure, BeginTx, ClearOpsGrant, OpsGrantsCleared,
        InsertOpsGrant, InsertOpsGrantFails, UnboundIDs, DeleteByBucket, Replaced, GrantsDies, Victim, Insert,
        Load, OpsGrantIDs, LockUser, DropGrant, DeleteByUsername, grantVars
<1>2. QED
  BY <1>1, GrantsInvariance, PTL DEF GrantsSafe, GrantsSpec, LocalGrantStays

(* A bucket that was created has its storage as long as it has its row,     *)
(* except while it is removed, or when removals overlapped or stopped.      *)
(* (internal/bucket/handler.go:189-218, 308-329)                            *)
THEOREM RowsHaveBucketsAlways == GrantsSpec => []RowsHaveBuckets
<1>1. GrantsInit => RowsInv
  <2> SUFFICES ASSUME GrantsInit
               PROVE  RowsInv
    OBVIOUS
  <2>1. ASSUME NEW i \in BucketIds, NEW j \in BucketIds, There(i), rows[i] = rows[j]
        PROVE  i = j
    <3>1. i \in Nat /\ j \in Nat /\ There(j)
      BY <2>1, GrantsAssumption DEF There
    <3>2. ~(i < j) /\ ~(j < i)
      BY <2>1, <3>1 DEF GrantsInit
    <3>3. QED
      BY <3>1, <3>2
  <2>2. \A p \in Procs : CarrierFits(p)
    BY DEF GrantsInit, CarrierFits, Idle, CarryPoints
  <2>3. QED
    BY <2>1, <2>2 DEF GrantsInit, RowsInv, NamesDiffer
<1>2. RowsInv => RowsHaveBuckets
  BY DEF RowsInv, CreatedFits, RowsHaveBuckets, At
<1>3. GrantsSafe => [](GrantsInv /\ RowsInv)
  BY <1>1, GrantsInvariance, RowsInvStep, PTL DEF GrantsSafe
<1>4. QED
  BY <1>2, <1>3, PTL DEF GrantsSpec

-----------------------------------------------------------------------------
(* That requests end: every change counts down *)

(* How many statements and calls a request is from its end at most, but for *)
(* what its loops have left.                                                *)
Distance(point) ==
  CASE point = "grantlocal" -> 6
    [] point \in {"ensurestore", "ensure"} -> 5
    [] point \in {"configure", "clear"} -> 4
    [] point \in {"undostore", "dropstore", "insert"} -> 3
    [] point \in {"droprow", "unbound", "lockuser"} -> 2
    [] point \in {"cascade", "purge", "dropgrants"} -> 1
    [] OTHER -> 0

Less(A, B) == A # B /\ A \subseteq B

(* s is nearer to the end than r: further on, or with less left of its loop, *)
(* or not lone any more.                                                     *)
Nearer(s, r) ==
  \/ Distance(s.pc) < Distance(r.pc)
  \/ /\ s.pc = r.pc /\ r.pc \in After \cup {"ensure"}
     /\ \/ Less(s.names, r.names)
        \/ s.names = r.names /\ Less(s.todo, r.todo)
        \/ s.names = r.names /\ s.todo = r.todo /\ r.lone /\ ~s.lone
  \/ s.pc = r.pc /\ r.pc = "dropgrants" /\ Less(s.todo, r.todo)

(* A change of the request in flight p, by whomever, brings it nearer.       *)
CountsDown(p) == ~At(p, "idle") /\ req'[p] # req[p] => Nearer(req'[p], req[p])

LEMMA NearerEnd == \A r \in GrantsRequest : r.pc # "idle" => Nearer(Idle, r)
BY DEF GrantsRequest, Carrying, Replacing, Leaving, Idle, Nearer, Distance

(* Only p moves. *)
LEMMA OneCountsDown ==
  ASSUME GrantsInv, NEW p \in Procs, NEW r, Moves(p, r), At(p, "idle") \/ Nearer(r, req[p])
  PROVE  \A q \in Procs : CountsDown(q)
BY DEF GrantsInv, GrantsTypeOK, Moves, CountsDown

(* p moves, and the other replacements are not lone any more. *)
LEMMA AllCountDown ==
  ASSUME GrantsInv, NEW p \in Procs, NEW r, NEW a, NEW D, MovesAmid(p, r, a, D), Nearer(r, req[p])
  PROVE  \A q \in Procs : CountsDown(q)
<1> SUFFICES ASSUME NEW q \in Procs, q # p, req'[q] # req[q]
             PROVE  Nearer(req'[q], req[q])
  BY DEF MovesAmid, CountsDown
<1> DEFINE rest == IF At(q, "clear") /\ req[q].acct = a THEN req[q].todo \ D ELSE req[q].todo
           s == [req[q] EXCEPT !.lone = FALSE, !.todo = rest]
<1>1. req[q].pc \in After /\ req'[q] = s
  BY DEF MovesAmid, After
<1>2. req[q] \in Replacing
  BY <1>1, GrantsRequestTypes DEF GrantsInv, GrantsFit, GrantFits
<1>3. rest \subseteq req[q].todo
  OBVIOUS
<1> HIDE DEF rest
<1>4. s.pc = req[q].pc /\ s.names = req[q].names /\ s.todo = rest /\ s.lone = FALSE
  BY <1>2 DEF Replacing
<1>5. rest # req[q].todo \/ req[q].lone = TRUE
  <2>1. CASE rest = req[q].todo /\ req[q].lone = FALSE
    <3>1. s = req[q]
      BY <1>2, <2>1 DEF Replacing
    <3>2. QED
      BY <1>1, <3>1
  <2>2. QED
    BY <1>2, <2>1 DEF Replacing
<1>6. QED
  BY <1>1, <1>3, <1>4, <1>5 DEF Nearer, Less

(* A creation or a removal goes on, the creation forwards or backwards. *)
LEMMA CarryingCountsDown ==
  ASSUME GrantsInv, NEW p \in Procs,
         \/ GrantLocalFails(p) \/ EnsureBucket(p) \/ EnsureBucketFails(p) \/ Configure(p)
         \/ ConfigureFails(p) \/ UndoBucket(p) \/ DeleteBucket(p) \/ DeleteBucketFails(p) \/ LockRow(p)
  PROVE  \A q \in Procs : CountsDown(q)
<1>1. req[p].pc \in CarryPoints /\ req[p].pc # "idle"
  BY DEF GrantLocalFails, EnsureBucket, EnsureBucketFails, Configure, ConfigureFails, UndoBucket,
         DeleteBucket, DeleteBucketFails, LockRow, At, CarryPoints
<1>2. req[p] \in GrantsRequest /\ req[p] \in Carrying
  BY <1>1, GrantsRequestTypes DEF GrantsInv, GrantsFit, GrantFits, CarryPoints
<1>3. CASE Ends(p)
  BY <1>1, <1>2, <1>3, NearerEnd, OneCountsDown DEF Ends
<1>4. ASSUME NEW point \in CarryPoints, Goes(p, point), Distance(point) < Distance(req[p].pc)
      PROVE  \A q \in Procs : CountsDown(q)
  <2>1. [req[p] EXCEPT !.pc = point].pc = point
    BY <1>2 DEF Carrying
  <2>2. QED
    BY <1>4, <2>1, OneCountsDown DEF Goes, Nearer
<1>5. \/ Ends(p)
      \/ At(p, "grantlocal") /\ Goes(p, "droprow")
      \/ At(p, "ensurestore") /\ (Goes(p, "configure") \/ Goes(p, "droprow"))
      \/ At(p, "configure") /\ Goes(p, "undostore")
      \/ At(p, "undostore") /\ Goes(p, "droprow")
      \/ At(p, "dropstore") /\ Goes(p, "droprow")
      \/ At(p, "droprow") /\ Goes(p, "cascade")
  BY DEF GrantLocalFails, EnsureBucket, EnsureBucketFails, Configure, ConfigureFails, UndoBucket,
         DeleteBucket, DeleteBucketFails, LockRow
<1>6. QED
  BY <1>3, <1>4, <1>5 DEF At, Distance, CarryPoints

(* A replacement goes on, or has less left of its loop. *)
LEMMA ReplacingCountsDown ==
  ASSUME GrantsInv, NEW p \in Procs,
         \/ Ensure(p) \/ BeginTx(p) \/ ClearOpsGrant(p) \/ OpsGrantsCleared(p) \/ InsertOpsGrant(p)
         \/ InsertOpsGrantFails(p) \/ UnboundIDs(p) \/ DeleteByBucket(p) \/ Replaced(p)
  PROVE  \A q \in Procs : CountsDown(q)
<1>1. req[p].pc \in After \cup {"ensure"} /\ ~At(p, "idle")
  BY DEF Ensure, BeginTx, ClearOpsGrant, OpsGrantsCleared, InsertOpsGrant, InsertOpsGrantFails,
         UnboundIDs, DeleteByBucket, Replaced, At, After
<1>2. req[p] \in GrantsRequest /\ req[p] \in Replacing
  BY <1>1, GrantsRequestTypes DEF GrantsInv, GrantsFit, GrantFits
<1>3. CASE Ends(p)
  BY <1>1, <1>2, <1>3, NearerEnd, OneCountsDown DEF Ends, At
<1>4. CASE Ensure(p)
  <2>1. PICK n \in req[p].names, i \in BucketIds :
          Moves(p, [req[p] EXCEPT !.names = @ \ {n}, !.ids = @ \cup {i}])
    BY <1>4 DEF Ensure
  <2> DEFINE s == [req[p] EXCEPT !.names = @ \ {n}, !.ids = @ \cup {i}]
  <2>2. s.pc = req[p].pc /\ s.names = req[p].names \ {n}
    BY <1>2 DEF Replacing
  <2>3. Nearer(s, req[p])
    BY <1>1, <2>2 DEF Nearer, Less
  <2>4. QED
    BY <2>1, <2>3, OneCountsDown
<1>5. ASSUME NEW s, Moves(p, s), Distance(s.pc) < Distance(req[p].pc)
      PROVE  \A q \in Procs : CountsDown(q)
  BY <1>5, OneCountsDown DEF Nearer
<1>6. CASE BeginTx(p)
  <2> DEFINE s == [req[p] EXCEPT !.pc = "clear", !.todo = OpsGrants(req[p].acct)]
  <2>1. s.pc = "clear" /\ At(p, "ensure") /\ Moves(p, s)
    BY <1>2, <1>6 DEF BeginTx, Replacing
  <2> HIDE DEF s
  <2>2. QED
    BY <1>5, <2>1 DEF At, Distance
<1>7. CASE OpsGrantsCleared(p)
  <2> DEFINE s == [req[p] EXCEPT !.pc = "insert", !.todo = @ \cup req[p].ids]
  <2>1. s.pc = "insert" /\ At(p, "clear") /\ Moves(p, s)
    BY <1>2, <1>7 DEF OpsGrantsCleared, Replacing
  <2> HIDE DEF s
  <2>2. QED
    BY <1>5, <2>1 DEF At, Distance
<1>8. CASE UnboundIDs(p)
  <2> DEFINE s == [req[p] EXCEPT !.pc = "purge", !.old = {},
                                 !.todo = {i \in req[p].old : There(i) /\ Unbound(i)}]
  <2>1. s.pc = "purge" /\ At(p, "unbound") /\ Moves(p, s)
    BY <1>2, <1>8 DEF UnboundIDs, Replacing
  <2> HIDE DEF s
  <2>2. QED
    BY <1>5, <2>1 DEF At, Distance
<1>9. ASSUME NEW s, NEW i \in req[p].todo, Moves(p, s), s.pc = req[p].pc, s.names = req[p].names,
             s.todo = req[p].todo \ {i}
      PROVE  \A q \in Procs : CountsDown(q)
  <2>1. Nearer(s, req[p])
    BY <1>1, <1>9 DEF Nearer, Less
  <2>2. QED
    BY <1>9, <2>1, OneCountsDown
<1>10. CASE ClearOpsGrant(p)
  <2>1. PICK i \in req[p].todo :
          Moves(p, [req[p] EXCEPT !.todo = @ \ {i},
                                  !.del = IF i \in OpsGrants(req[p].acct) THEN @ \cup {i} ELSE @])
    BY <1>10 DEF ClearOpsGrant
  <2>2. QED
    BY <1>2, <1>9, <2>1 DEF Replacing
<1>11. CASE InsertOpsGrant(p)
  <2>1. PICK i \in req[p].todo :
          Moves(p, [req[p] EXCEPT !.todo = @ \ {i}, !.ins = IF Conflicts(p, i) THEN @ ELSE @ \cup {i}])
    BY <1>11 DEF InsertOpsGrant
  <2>2. QED
    BY <1>2, <1>9, <2>1 DEF Replacing
<1>12. CASE DeleteByBucket(p)
  <2>1. PICK i \in req[p].todo : Moves(p, [req[p] EXCEPT !.todo = @ \ {i}])
    BY <1>12 DEF DeleteByBucket
  <2>2. QED
    BY <1>2, <1>9, <2>1 DEF Replacing
<1>13. QED
  BY <1>3, <1>4, <1>6, <1>7, <1>8, <1>10, <1>11, <1>12 DEF InsertOpsGrantFails, AfterForeignKey, Replaced

(* The steps that change grants. *)
LEMMA ChangingCountsDown ==
  ASSUME GrantsInv, NEW p \in Procs, GrantLocal(p) \/ DeleteRow(p) \/ Commit(p) \/ DeleteAccount(p)
  PROVE  \A q \in Procs : CountsDown(q)
<1>1. req[p] \in GrantsRequest /\ req[p].pc # "idle"
  BY DEF GrantsInv, GrantsFit, GrantFits, GrantLocal, DeleteRow, Commit, DeleteAccount, At
<1>2. CASE GrantLocal(p)
  <2>1. req[p] \in Carrying /\ At(p, "grantlocal")
    BY <1>2, GrantsRequestTypes DEF GrantsInv, GrantsFit, GrantFits, GrantLocal, At
  <2>2. Nearer([req[p] EXCEPT !.pc = "ensurestore"], req[p])
    BY <2>1 DEF Carrying, At, Nearer, Distance
  <2>3. QED
    BY <1>2, <2>2, AllCountDown DEF GrantLocal
<1>3. CASE DeleteRow(p)
  BY <1>1, <1>3, NearerEnd, AllCountDown DEF DeleteRow
<1>4. CASE Commit(p)
  <2> DEFINE s == [req[p] EXCEPT !.pc = "unbound", !.old = @ \ req[p].ids, !.ids = {}, !.del = {}, !.ins = {}]
  <2>1. req[p] \in Replacing /\ At(p, "insert")
    BY <1>4, GrantsRequestTypes DEF GrantsInv, GrantsFit, GrantFits, Commit, At, After
  <2>2. Nearer(s, req[p])
    BY <2>1 DEF Replacing, At, Nearer, Distance
  <2>3. QED
    BY <1>4, <2>2, AllCountDown DEF Commit
<1>5. CASE DeleteAccount(p)
  BY <1>1, <1>5, NearerEnd, AllCountDown DEF DeleteAccount
<1>6. QED
  BY <1>2, <1>3, <1>4, <1>5

(* The deletion of an account goes on, or has less left to delete. *)
LEMMA LeavingCountsDown ==
  ASSUME GrantsInv, NEW p \in Procs, LockUser(p) \/ DropGrant(p)
  PROVE  \A q \in Procs : CountsDown(q)
<1>1. req[p] \in GrantsRequest /\ req[p] \in Leaving /\ req[p].pc # "idle"
  BY GrantsRequestTypes DEF GrantsInv, GrantsFit, GrantFits, LockUser, DropGrant, At
<1>2. CASE Ends(p)
  BY <1>1, <1>2, NearerEnd, OneCountsDown DEF Ends
<1>3. CASE LockUser(p) /\ ~Ends(p)
  <2> DEFINE s == [req[p] EXCEPT !.pc = "dropgrants", !.todo = AllGrants(req[p].acct)]
  <2>1. s.pc = "dropgrants" /\ req[p].pc = "lockuser" /\ Moves(p, s)
    BY <1>1, <1>3 DEF LockUser, Leaving, At
  <2> HIDE DEF s
  <2>2. Nearer(s, req[p])
    BY <2>1 DEF Nearer, Distance
  <2>3. QED
    BY <2>1, <2>2, OneCountsDown
<1>4. CASE DropGrant(p)
  <2>1. PICK i \in req[p].todo :
          Moves(p, [req[p] EXCEPT !.todo = @ \ {i},
                                  !.del = IF i \in AllGrants(req[p].acct) THEN @ \cup {i} ELSE @])
    BY <1>4 DEF DropGrant
  <2> DEFINE s == [req[p] EXCEPT !.todo = @ \ {i},
                                 !.del = IF i \in AllGrants(req[p].acct) THEN @ \cup {i} ELSE @]
  <2>2. s.pc = req[p].pc /\ req[p].pc = "dropgrants" /\ s.todo = req[p].todo \ {i}
    BY <1>1, <1>4 DEF DropGrant, At, Leaving
  <2>3. Nearer(s, req[p])
    BY <2>2 DEF Nearer, Less
  <2>4. QED
    BY <2>1, <2>3, OneCountsDown
<1>5. QED
  BY <1>2, <1>3, <1>4

LEMMA BeginningCountsDown ==
  ASSUME GrantsInv, NEW p \in Procs, NEW a \in Accounts,
         \/ \E n \in BucketNames : Insert(p, a, n)
         \/ \E i \in BucketIds : Load(p, a, i)
         \/ \E S \in SUBSET BucketNames : OpsGrantIDs(p, a, S)
         \/ DeleteByUsername(p, a)
  PROVE  \A q \in Procs : CountsDown(q)
<1>1. At(p, "idle") /\ \E r : Moves(p, r)
  BY DEF Insert, Load, OpsGrantIDs, DeleteByUsername
<1>2. QED
  BY <1>1, OneCountsDown

(* Whatever a request does, and whatever others do to it, brings it nearer  *)
(* to its end: no statement is repeated but in a loop that gets shorter, and *)
(* nothing another request does gives it more to do.                        *)
(* (internal/bucket/handler.go:182-228, store.go:163-180, auth/store.go:121) *)
THEOREM RequestsCountDown == GrantsSpec => [][\A p \in Procs : CountsDown(p)]_<<grantVars, req>>
<1>1. GrantsInv /\ [GrantsNext]_<<grantVars, req>> => [\A p \in Procs : CountsDown(p)]_<<grantVars, req>>
  <2> SUFFICES ASSUME GrantsInv, GrantsNext
               PROVE  \A q \in Procs : CountsDown(q)
    OBVIOUS
  <2>1. ASSUME NEW p \in Procs, GrantsStep(p)
        PROVE  \A q \in Procs : CountsDown(q)
    BY <2>1, CarryingCountsDown, ReplacingCountsDown, ChangingCountsDown, LeavingCountsDown DEF GrantsStep
  <2>2. ASSUME NEW p \in Procs, GrantsDies(p) \/ Victim(p)
        PROVE  \A q \in Procs : CountsDown(q)
    <3>1. req[p] \in GrantsRequest /\ req[p].pc # "idle" /\ Moves(p, Idle)
      BY <2>2 DEF GrantsInv, GrantsFit, GrantFits, GrantsDies, Victim, Dies, At, Ends
    <3>2. QED
      BY <3>1, NearerEnd, OneCountsDown
  <2>3. QED
    BY <2>1, <2>2, BeginningCountsDown DEF GrantsNext
<1>2. QED
  BY <1>1, GrantsInvariance, PTL DEF GrantsSafe, GrantsSpec

-----------------------------------------------------------------------------
(* The settings of a bucket *)

ConfigPoints == {"ensurestore", "versioning", "logging", "write"}

CoherentSettings(s) == (s.alias => s.display # None) /\ ValidLogging(s)

(* What a creation or an update remembers of what it did. *)
WellMade(r) ==
  r.pc \in ConfigPoints =>
    /\ CoherentSettings(r.new)
    /\ r.creates => r.old = Default
    /\ r.pc = "ensurestore" => r.creates
    /\ r.pc \in {"ensurestore", "versioning"} => ~r.touched
    /\ r.pc = "logging" => (r.touched <=> r.new.versioning # r.old.versioning)
    /\ r.pc = "write" /\ ~r.touched => Configured(r.new) = Configured(r.old)

(* What storage has been told when the request r gets where it is. *)
Before(r) == IF r.creates THEN Fresh ELSE Configured(r.old)

(* What is true of the only request in flight, the row w and storage c. *)
Sound(r, w, c) ==
  /\ w # None => w.id = r.id
  /\ r.pc # "droprow" => w # None
  /\ r.pc = "droprow" => c = None
  /\ r.pc = "dropstore" => c = Configured(w.settings)
  /\ r.pc \in ConfigPoints => Configured(w.settings) = Configured(IF r.creates THEN r.new ELSE r.old)
  /\ r.pc = "ensurestore" => c = None
  /\ r.pc = "versioning" => c = Before(r)
  /\ r.pc = "logging" => c = [Before(r) EXCEPT !.versioning = r.new.versioning]
  /\ r.pc = "write" => c = Configured(r.new)

StorageMatches(w, c) == c = IF w = None THEN None ELSE Configured(w.settings)

InOrder ==
  clean => \A p \in Procs : ~At(p, "idle") => NoOthers(p) /\ Sound(req[p], row, config)

SettingsInv ==
  /\ SettingsTypeOK /\ RowIsCoherent
  /\ \A p \in Procs : WellMade(req[p])
  /\ InOrder /\ SettingsMatch

-----------------------------------------------------------------------------
(* Settings *)

LEMMA AppliedType ==
  ASSUME NEW s \in Settings, ValidLogging(s)
  PROVE  /\ Applied(s) \in Settings
         /\ Applied(s).versioning = s.versioning
         /\ CoherentSettings(s) => CoherentSettings(Applied(s))
         /\ LogOf(Applied(s)) \in (LogTargets \X LogPrefixes) \cup {None}
<1> USE SettingsAssumption
<1>1. CASE s.logging
  <2> DEFINE pre == IF s.prefix = None THEN DefaultLogPrefix ELSE s.prefix
  <2>1. Applied(s) = [s EXCEPT !.prefix = pre]
    BY <1>1 DEF Applied
  <2>2. pre \in LogPrefixes /\ s.target \in LogTargets
    BY <1>1 DEF Settings, ValidLogging
  <2> HIDE DEF pre
  <2>3. /\ Applied(s) \in Settings /\ Applied(s).versioning = s.versioning
        /\ Applied(s).logging /\ Applied(s).target = s.target /\ Applied(s).prefix = pre
        /\ Applied(s).alias = s.alias /\ Applied(s).display = s.display
    BY <1>1, <2>1, <2>2 DEF Settings
  <2>4. QED
    BY <1>1, <2>2, <2>3 DEF CoherentSettings, ValidLogging, LogOf
<1>2. CASE ~s.logging
  <2>1. Applied(s) = [s EXCEPT !.target = None, !.prefix = None]
    BY <1>2 DEF Applied
  <2>2. /\ Applied(s) \in Settings /\ Applied(s).versioning = s.versioning
        /\ ~Applied(s).logging
        /\ Applied(s).alias = s.alias /\ Applied(s).display = s.display
    BY <1>2, <2>1 DEF Settings
  <2>3. QED
    BY <1>2, <2>2 DEF CoherentSettings, ValidLogging, LogOf
<1>3. QED
  BY <1>1, <1>2

(* To apply settings twice makes no difference, nor does the name. *)
LEMMA AppliedTwice ==
  ASSUME NEW s \in Settings
  PROVE  Configured(Applied(s)) = Configured(s)
<1> USE SettingsAssumption
<1>1. Applied(s).versioning = s.versioning
  BY DEF Settings, Applied
<1>2. Applied(Applied(s)) = Applied(s)
  <2>1. CASE s.logging
    <3> DEFINE pre == IF s.prefix = None THEN DefaultLogPrefix ELSE s.prefix
    <3>1. Applied(s) = [s EXCEPT !.prefix = pre]
      BY <2>1 DEF Applied
    <3>2. pre # None
      BY DEF Settings
    <3> HIDE DEF pre
    <3>3. Applied(s).logging /\ Applied(s).prefix = pre
      BY <2>1, <3>1 DEF Settings
    <3>4. Applied(Applied(s)) = [Applied(s) EXCEPT !.prefix = pre]
      BY <3>2, <3>3 DEF Applied
    <3>5. QED
      BY <3>1, <3>4 DEF Settings
  <2>2. CASE ~s.logging
    <3>1. Applied(s) = [s EXCEPT !.target = None, !.prefix = None]
      BY <2>2 DEF Applied
    <3>2. ~Applied(s).logging
      BY <2>2, <3>1 DEF Settings
    <3>3. Applied(Applied(s)) = [Applied(s) EXCEPT !.target = None, !.prefix = None]
      BY <3>2 DEF Applied
    <3>4. QED
      BY <3>1, <3>3 DEF Settings
  <2>3. QED
    BY <2>1, <2>2
<1>3. QED
  BY <1>1, <1>2 DEF Configured

LEMMA ConfiguredType ==
  ASSUME NEW s \in Settings, ValidLogging(s)
  PROVE  Configured(s) \in Config /\ Configured(s) # None
BY AppliedType, SettingsAssumption DEF Configured, Config, Settings

LEMMA FreshType ==
  Fresh \in Config /\ Fresh # None /\ Fresh.versioning = Default.versioning
<1>1. Fresh \in Config
  BY DEF Fresh, Config
<1>2. Fresh # None
  BY <1>1, SettingsAssumption
<1>3. Fresh.versioning = Default.versioning
  BY DEF Fresh, Default
<1>4. QED
  BY <1>1, <1>2, <1>3

(* What an update does not tell storage makes no difference to it. *)
LEMMA SameLog ==
  ASSUME NEW s \in Settings, NEW t \in Settings,
         s.logging = t.logging, s.target = t.target, s.prefix = t.prefix
  PROVE  LogOf(Applied(s)) = LogOf(Applied(t))
<1>1. CASE s.logging
  BY <1>1 DEF Applied, LogOf, Settings
<1>2. CASE ~s.logging
  BY <1>2 DEF Applied, LogOf, Settings
<1>3. QED
  BY <1>1, <1>2

LEMMA NoLog ==
  ASSUME NEW s \in Settings, ~s.logging
  PROVE  LogOf(Applied(s)) = None
BY DEF Applied, LogOf, Settings

LEMMA NamedSettings ==
  ASSUME NEW s \in Settings, NEW d \in DisplayNames
  PROVE  LET t == [s EXCEPT !.display = d] IN
         /\ t \in Settings /\ t.display # None
         /\ t.alias = s.alias /\ t.logging = s.logging /\ t.target = s.target
         /\ Configured(t) = Configured(s)
<1> DEFINE t == [s EXCEPT !.display = d]
<1>1. /\ t \in Settings /\ t.display # None
      /\ t.alias = s.alias /\ t.logging = s.logging /\ t.target = s.target
      /\ t.prefix = s.prefix /\ t.versioning = s.versioning
  BY SettingsAssumption DEF Settings
<1> HIDE DEF t
<1>2. LogOf(Applied(t)) = LogOf(Applied(s))
  BY <1>1, SameLog
<1>3. Configured(t) = Configured(s)
  BY <1>1, <1>2 DEF Configured
<1>4. QED
  BY <1>1, <1>3 DEF t

-----------------------------------------------------------------------------
(* Requests about settings that move *)

SettingsRequest == {Idle} \cup Configuring \cup Dropping

LEMMA SettingsRequestTypes ==
  ASSUME NEW r \in SettingsRequest
  PROVE  /\ r.pc \in ConfigPoints => r \in Configuring
         /\ r.pc \in {"dropstore", "undostore", "droprow"} => r \in Dropping
         /\ r.pc = "idle" => r = Idle
BY DEF SettingsRequest, ConfigPoints, Idle, Configuring, Dropping

(* p moves to r and leaves what has to be left. *)
LEMMA SettingsMoved ==
  ASSUME SettingsInv, NEW p \in Procs, NEW r \in SettingsRequest, Moves(p, r), WellMade(r),
         row' \in Rows \cup {None}, config' \in Config \cup {None},
         changes' \in 0 .. MaxChanges, clean' \in BOOLEAN,
         row' # None => CoherentSettings(row'.settings),
         clean' => /\ NoOthers(p)
                   /\ r.pc # "idle" => Sound(r, row', config')
                   /\ r.pc = "idle" => StorageMatches(row', config')
  PROVE  SettingsInv'
<1>1. /\ req \in [Procs -> SettingsRequest]
      /\ req' \in [Procs -> SettingsRequest] /\ req'[p] = r
      /\ \A q \in Procs : q # p => req'[q] = req[q]
  BY DEF SettingsInv, SettingsTypeOK, Moves, SettingsRequest
<1>2. SettingsTypeOK'
  BY <1>1 DEF SettingsTypeOK, SettingsRequest
<1>3. RowIsCoherent'
  BY DEF RowIsCoherent, CoherentSettings, ValidLogging
<1>4. \A q \in Procs : WellMade(req'[q])
  BY <1>1 DEF SettingsInv
<1>5. clean' => \A q \in Procs \ {p} : req'[q].pc = "idle"
  BY <1>1 DEF NoOthers, At
<1>6. InOrder'
  BY <1>1, <1>5 DEF InOrder, NoOthers, At
<1>7. SettingsMatch'
  BY <1>1 DEF SettingsMatch, StorageMatches, At
<1>8. QED
  BY <1>2, <1>3, <1>4, <1>6, <1>7 DEF SettingsInv

LEMMA IdleSettings == Idle \in SettingsRequest /\ WellMade(Idle) /\ Idle.pc = "idle"
BY DEF SettingsRequest, Idle, WellMade, ConfigPoints

(* What is known of a request that is in flight. *)
LEMMA InFlight ==
  ASSUME SettingsInv, NEW p \in Procs
  PROVE  /\ req[p] \in SettingsRequest /\ WellMade(req[p])
         /\ row \in Rows \cup {None} /\ config \in Config \cup {None}
         /\ changes \in 0 .. MaxChanges /\ clean \in BOOLEAN
         /\ row # None => /\ CoherentSettings(row.settings) /\ row.settings \in Settings
                          /\ row.id \in 0 .. MaxChanges
         /\ clean /\ ~At(p, "idle") => NoOthers(p) /\ Sound(req[p], row, config)
         /\ clean /\ At(p, "idle") /\ NoOthers(p) => StorageMatches(row, config)
<1>1. row # None => row \in Rows
  BY DEF SettingsInv, SettingsTypeOK
<1>2. row # None => CoherentSettings(row.settings)
  BY DEF SettingsInv, RowIsCoherent, CoherentSettings, ValidLogging
<1>3. clean /\ ~At(p, "idle") => NoOthers(p) /\ Sound(req[p], row, config)
  BY DEF SettingsInv, InOrder
<1>4. clean /\ At(p, "idle") /\ NoOthers(p) => StorageMatches(row, config)
  BY DEF SettingsInv, SettingsMatch, StorageMatches, NoOthers
<1>5. QED
  BY <1>1, <1>2, <1>3, <1>4 DEF SettingsInv, SettingsTypeOK, SettingsRequest, Rows

-----------------------------------------------------------------------------
(* Requests about settings begin *)

LEMMA CreateRowKeeps ==
  ASSUME SettingsInv, NEW p \in Procs, CreateRow(p)
  PROVE  SettingsInv'
<1>0. AskedSettings \subseteq Settings
  BY SettingsAssumption
<1>1. PICK s \in Settings :
        /\ ~s.alias /\ ValidLogging(s)
        /\ row' = [id |-> changes', settings |-> s]
        /\ Moves(p, [pc |-> "ensurestore", creates |-> TRUE, id |-> changes', old |-> Default,
                     new |-> s, touched |-> FALSE])
  BY <1>0 DEF CreateRow
<1>2. PICK n : n = changes'
  OBVIOUS
<1> DEFINE r == [pc |-> "ensurestore", creates |-> TRUE, id |-> n, old |-> Default,
                 new |-> s, touched |-> FALSE]
<1>3. n \in 0 .. MaxChanges
  BY <1>2, InFlight, SettingsAssumption DEF CreateRow, Starts
<1>4. Default \in Settings
  BY DEF Default, Settings
<1>5. r \in SettingsRequest /\ WellMade(r)
  BY <1>1, <1>3, <1>4 DEF SettingsRequest, Configuring, WellMade, ConfigPoints, CoherentSettings
<1>6. row' \in Rows /\ CoherentSettings(row'.settings) /\ row'.id = n /\ row'.settings = s /\ row' # None
  BY <1>1, <1>2, <1>3, SettingsAssumption DEF Rows, CoherentSettings
<1>7. clean' => NoOthers(p) /\ config = None
  BY InFlight DEF CreateRow, Starts, StorageMatches
<1>8. clean' => Sound(r, row', config')
  BY <1>6, <1>7 DEF CreateRow, Sound, ConfigPoints
<1>9. Moves(p, r)
  BY <1>1, <1>2
<1>10. clean' \in BOOLEAN
  BY InFlight DEF CreateRow
<1>11. QED
  BY <1>2, <1>3, <1>5, <1>6, <1>7, <1>8, <1>9, <1>10, SettingsMoved, InFlight DEF CreateRow

LEMMA LoadSettingsKeeps ==
  ASSUME SettingsInv, NEW p \in Procs, LoadSettings(p)
  PROVE  SettingsInv'
<1>0. AskedSettings \subseteq Settings
  BY SettingsAssumption
<1>1. PICK asked \in Settings :
        /\ ValidLogging(Taken(asked))
        /\ Moves(p, [pc |-> "versioning", creates |-> FALSE, id |-> row.id, old |-> row.settings,
                     new |-> Taken(asked), touched |-> FALSE])
  BY <1>0 DEF LoadSettings
<1>2. PICK r : r = [pc |-> "versioning", creates |-> FALSE, id |-> row.id, old |-> row.settings,
                    new |-> Taken(asked), touched |-> FALSE]
  OBVIOUS
<1>3. Taken(asked) \in Settings /\ CoherentSettings(Taken(asked))
  BY <1>1 DEF Taken, Settings, CoherentSettings, ValidLogging
<1>4. row # None
  BY DEF LoadSettings
<1>5. r \in SettingsRequest /\ WellMade(r)
  BY <1>2, <1>3, <1>4, InFlight DEF SettingsRequest, Configuring, WellMade, ConfigPoints
<1>6. clean' => NoOthers(p) /\ StorageMatches(row, config)
  BY InFlight DEF LoadSettings, Starts, Shares
<1>7. clean' => Sound(r, row, config)
  BY <1>2, <1>4, <1>6 DEF Sound, StorageMatches, ConfigPoints, Before
<1>8. changes' \in 0 .. MaxChanges /\ clean' \in BOOLEAN
  BY InFlight, SettingsAssumption DEF LoadSettings, Starts, Shares
<1>9. QED
  BY <1>1, <1>2, <1>5, <1>6, <1>7, <1>8, SettingsMoved, InFlight DEF LoadSettings

LEMMA LoadForRemovalKeeps ==
  ASSUME SettingsInv, NEW p \in Procs, LoadForRemoval(p)
  PROVE  SettingsInv'
<1>1. PICK r : r = [pc |-> "dropstore", id |-> row.id]
  OBVIOUS
<1>2. row # None
  BY DEF LoadForRemoval
<1>3. r \in SettingsRequest /\ WellMade(r)
  BY <1>1, <1>2, InFlight DEF SettingsRequest, Dropping, WellMade, ConfigPoints
<1>4. clean' => NoOthers(p) /\ StorageMatches(row, config)
  BY InFlight DEF LoadForRemoval, Starts, Shares
<1>5. clean' => Sound(r, row, config)
  BY <1>1, <1>2, <1>4 DEF Sound, StorageMatches, ConfigPoints
<1>6. changes' \in 0 .. MaxChanges /\ clean' \in BOOLEAN
  BY InFlight, SettingsAssumption DEF LoadForRemoval, Starts, Shares
<1>7. QED
  BY <1>1, <1>3, <1>4, <1>5, <1>6, SettingsMoved, InFlight DEF LoadForRemoval

-----------------------------------------------------------------------------
(* Storage calls about settings *)

LEMMA EnsureStoreKeeps ==
  ASSUME SettingsInv, NEW p \in Procs, EnsureStore(p)
  PROVE  SettingsInv'
<1>1. PICK r : r = [req[p] EXCEPT !.pc = "versioning"]
  OBVIOUS
<1>2. req[p].pc = "ensurestore" /\ req[p] \in Configuring
  BY InFlight, SettingsRequestTypes DEF EnsureStore, At, ConfigPoints
<1>3. /\ r.pc = "versioning" /\ r.creates = req[p].creates /\ r.id = req[p].id /\ r.old = req[p].old
      /\ r.new = req[p].new /\ r.touched = req[p].touched /\ r \in Configuring
  BY <1>1, <1>2 DEF Configuring
<1>4. WellMade(r)
  BY <1>2, <1>3, InFlight DEF WellMade, ConfigPoints
<1>5. Fresh \in Config
  BY FreshType
<1>6. clean => Sound(r, row, config')
  <2>1. clean => Sound(req[p], row, config)
    BY <1>2, InFlight DEF At
  <2>2. req[p].creates
    BY <1>2, InFlight DEF WellMade, ConfigPoints
  <2>3. clean => config' = Fresh
    BY <1>2, <2>1 DEF Sound, EnsureStore
  <2>4. QED
    BY <1>2, <1>3, <2>1, <2>2, <2>3 DEF Sound, ConfigPoints, Before
<1>7. clean => NoOthers(p)
  BY <1>2, InFlight DEF At
<1>8. QED
  BY <1>1, <1>3, <1>4, <1>5, <1>6, <1>7, SettingsMoved, InFlight DEF EnsureStore, Goes, SettingsRequest

LEMMA PutVersioningKeeps ==
  ASSUME SettingsInv, NEW p \in Procs, PutVersioning(p)
  PROVE  SettingsInv'
<1>0. PICK t : t = IF req[p].new.versioning = req[p].old.versioning THEN req[p].touched ELSE TRUE
  OBVIOUS
<1>1. PICK r : r = [req[p] EXCEPT !.pc = "logging", !.touched = t]
  OBVIOUS
<1>2. req[p].pc = "versioning" /\ req[p] \in Configuring
  BY InFlight, SettingsRequestTypes DEF PutVersioning, At, ConfigPoints
<1>3. /\ r.pc = "logging" /\ r.creates = req[p].creates /\ r.id = req[p].id /\ r.old = req[p].old
      /\ r.new = req[p].new /\ r.touched = t /\ r \in Configuring
  BY <1>0, <1>1, <1>2 DEF Configuring
<1>4. WellMade(r)
  BY <1>0, <1>2, <1>3, InFlight DEF WellMade, ConfigPoints
<1>5. Moves(p, r)
  <2>1. CASE req[p].new.versioning = req[p].old.versioning
    <3>1. r = [req[p] EXCEPT !.pc = "logging"]
      BY <1>0, <1>1, <1>2, <2>1 DEF Configuring
    <3>2. QED
      BY <2>1, <3>1 DEF PutVersioning, Goes
  <2>2. CASE req[p].new.versioning # req[p].old.versioning
    BY <1>0, <1>1, <2>2 DEF PutVersioning
  <2>3. QED
    BY <2>1, <2>2
<1>6. req[p].new.versioning \in BOOLEAN
  BY <1>2 DEF Configuring, Settings
<1>7. config' \in Config \cup {None}
  BY <1>6, InFlight DEF PutVersioning, Config
<1>8. clean => Sound(r, row, config')
  <2>1. clean => Sound(req[p], row, config)
    BY <1>2, InFlight DEF At
  <2>2. clean => config = Before(req[p]) /\ config # None
    <3>1. CASE req[p].creates
      BY <1>2, <2>1, <3>1, FreshType DEF Sound, Before
    <3>2. CASE ~req[p].creates
      <4>1. clean => config = Configured(row.settings) /\ row # None
        BY <1>2, <2>1, <3>2 DEF Sound, Before, ConfigPoints
      <4>2. clean => config # None
        BY <4>1, InFlight, ConfiguredType DEF CoherentSettings
      <4>3. QED
        BY <1>2, <2>1, <4>2 DEF Sound
    <3>3. QED
      BY <3>1, <3>2
  <2>3. CASE req[p].new.versioning = req[p].old.versioning
    <3>1. clean => config.versioning = req[p].old.versioning
      <4>1. CASE req[p].creates
        <5>1. req[p].old = Default
          BY <1>2, <4>1, InFlight DEF WellMade, ConfigPoints
        <5>2. QED
          BY <2>2, <4>1, <5>1, FreshType DEF Before
      <4>2. CASE ~req[p].creates
        BY <2>2, <4>2 DEF Before, Configured
      <4>3. QED
        BY <4>1, <4>2
    <3>2. clean => config = [config EXCEPT !.versioning = req[p].new.versioning]
      BY <2>2, <2>3, <3>1, InFlight DEF Config
    <3>3. QED
      BY <1>2, <1>3, <2>1, <2>2, <2>3, <3>2 DEF Sound, ConfigPoints, Before, PutVersioning
  <2>4. CASE req[p].new.versioning # req[p].old.versioning
    <3>1. config' = [config EXCEPT !.versioning = req[p].new.versioning]
      BY <2>4 DEF PutVersioning
    <3>2. QED
      BY <1>2, <1>3, <2>1, <2>2, <3>1 DEF Sound, ConfigPoints, Before
  <2>5. QED
    BY <2>3, <2>4
<1>9. clean => NoOthers(p)
  BY <1>2, InFlight DEF At
<1>10. QED
  BY <1>3, <1>4, <1>5, <1>7, <1>8, <1>9, SettingsMoved, InFlight DEF PutVersioning, SettingsRequest

(* Before it is told of the logging, storage has the versioning. *)
LEMMA AtLogging ==
  ASSUME SettingsInv, NEW p \in Procs, At(p, "logging"), clean
  PROVE  /\ config \in Config /\ config.versioning = req[p].new.versioning
         /\ config.log = Before(req[p]).log
<1>1. req[p] \in Configuring /\ Sound(req[p], row, config)
  BY InFlight, SettingsRequestTypes DEF At, ConfigPoints
<1>2. Before(req[p]) \in Config
  <2>1. CASE req[p].creates
    BY <2>1, FreshType DEF Before
  <2>2. CASE ~req[p].creates
    <3>1. Before(req[p]) = Configured(row.settings) /\ row # None
      BY <1>1, <2>2 DEF Sound, Before, ConfigPoints, At
    <3>2. QED
      BY <3>1, InFlight, ConfiguredType DEF CoherentSettings
  <2>3. QED
    BY <2>1, <2>2
<1>3. req[p].new.versioning \in BOOLEAN
  BY <1>1 DEF Configuring, Settings
<1>4. config = [Before(req[p]) EXCEPT !.versioning = req[p].new.versioning]
  BY <1>1 DEF Sound, At
<1>5. QED
  BY <1>2, <1>3, <1>4 DEF Config

LEMMA ToldStorage ==
  ASSUME NEW c \in Config, NEW s, c.versioning = s.versioning
  PROVE  /\ [c EXCEPT !.log = LogOf(Applied(s))] = Configured(s)
         /\ c.log = LogOf(Applied(s)) => c = Configured(s)
BY DEF Config, Configured

(* Before storage is told anything, it is as the row says. *)
LEMMA UntouchedMatches ==
  ASSUME SettingsInv, NEW p \in Procs, clean,
         req[p].pc \in {"versioning", "logging", "write"}, ~req[p].creates, ~req[p].touched
  PROVE  StorageMatches(row, config)
<1>1. /\ req[p] \in Configuring /\ WellMade(req[p]) /\ Sound(req[p], row, config)
      /\ req[p].old \in Settings /\ req[p].new \in Settings
  BY InFlight, SettingsRequestTypes DEF At, ConfigPoints, Configuring
<1>2. row # None /\ Configured(row.settings) = Configured(req[p].old)
  BY <1>1 DEF Sound, ConfigPoints
<1>3. CASE req[p].pc = "versioning"
  BY <1>1, <1>2, <1>3 DEF Sound, StorageMatches, Before
<1>4. CASE req[p].pc = "logging"
  <2>1. req[p].new.versioning = req[p].old.versioning
    BY <1>1, <1>4 DEF WellMade, ConfigPoints
  <2>2. config.log = LogOf(Applied(req[p].old)) /\ config \in Config /\ config.versioning = req[p].old.versioning
    BY <1>4, <2>1, AtLogging DEF At, Before, Configured
  <2>3. config = Configured(req[p].old)
    BY <2>2, ToldStorage
  <2>4. QED
    BY <1>2, <2>3 DEF StorageMatches
<1>5. CASE req[p].pc = "write"
  BY <1>1, <1>2, <1>5 DEF Sound, StorageMatches, WellMade, ConfigPoints
<1>6. QED
  BY <1>3, <1>4, <1>5

LEMMA PutLoggingKeeps ==
  ASSUME SettingsInv, NEW p \in Procs, PutLogging(p)
  PROVE  SettingsInv'
<1>1. At(p, "logging") /\ req[p] \in Configuring
  BY InFlight, SettingsRequestTypes DEF PutLogging, At, ConfigPoints
<1>2. CoherentSettings(req[p].new) /\ req[p].new \in Settings /\ req[p].old \in Settings
  BY <1>1, InFlight DEF WellMade, ConfigPoints, Configuring, At
<1>3. clean => /\ NoOthers(p) /\ Sound(req[p], row, config)
               /\ config \in Config /\ config.versioning = req[p].new.versioning
               /\ config.log = Before(req[p]).log
  BY <1>1, InFlight, AtLogging DEF At
<1>4. row' = row /\ changes' = changes /\ clean' = clean
  BY DEF PutLogging
<1>5. CASE LogChanges(req[p])
  <2>1. PICK r : r = [req[p] EXCEPT !.pc = "write", !.new = Applied(req[p].new), !.touched = TRUE]
    OBVIOUS
  <2>2. /\ Applied(req[p].new) \in Settings /\ CoherentSettings(Applied(req[p].new))
        /\ LogOf(Applied(req[p].new)) \in (LogTargets \X LogPrefixes) \cup {None}
        /\ Configured(Applied(req[p].new)) = Configured(req[p].new)
    BY <1>2, AppliedType, AppliedTwice DEF CoherentSettings
  <2>3. /\ r.pc = "write" /\ r.creates = req[p].creates /\ r.id = req[p].id /\ r.old = req[p].old
        /\ r.new = Applied(req[p].new) /\ r.touched /\ r \in Configuring
    BY <1>1, <2>1, <2>2 DEF Configuring
  <2>4. WellMade(r)
    BY <1>1, <2>2, <2>3, InFlight DEF WellMade, ConfigPoints, At
  <2>5. config' = [config EXCEPT !.log = LogOf(Applied(req[p].new))] /\ config # None /\ Moves(p, r)
    BY <1>5, <2>1 DEF PutLogging
  <2>6. config' \in Config
    BY <2>2, <2>5, InFlight DEF Config
  <2>7. clean => config' = Configured(req[p].new)
    BY <1>3, <2>5, ToldStorage
  <2>8. clean => Sound(r, row, config')
    BY <1>1, <1>3, <2>2, <2>3, <2>7 DEF Sound, ConfigPoints, At
  <2>9. QED
    BY <1>3, <1>4, <2>3, <2>4, <2>5, <2>6, <2>8, SettingsMoved, InFlight DEF SettingsRequest
<1>6. CASE ~LogChanges(req[p]) /\ req[p].creates
  <2>1. ~req[p].new.logging
    BY <1>6 DEF LogChanges
  <2>2. LogOf(Applied(req[p].new)) = None
    BY <1>2, <2>1, NoLog
  <2>3. clean => config.log = None
    BY <1>3, <1>6 DEF Before, Fresh
  <2>4. clean => config = Configured(req[p].new)
    BY <1>3, <2>2, <2>3, ToldStorage
  <2>5. clean => StorageMatches(row, config)
    BY <1>1, <1>3, <1>6, <2>4 DEF Sound, StorageMatches, ConfigPoints, At
  <2>6. Moves(p, Idle) /\ config' = config
    BY <1>6 DEF PutLogging, Ends
  <2>7. QED
    BY <1>3, <1>4, <2>5, <2>6, IdleSettings, SettingsMoved, InFlight
<1>7. CASE ~LogChanges(req[p]) /\ ~req[p].creates
  <2>1. PICK r : r = [req[p] EXCEPT !.pc = "write"]
    OBVIOUS
  <2>2. /\ r.pc = "write" /\ r.creates = req[p].creates /\ r.id = req[p].id /\ r.old = req[p].old
        /\ r.new = req[p].new /\ r.touched = req[p].touched /\ r \in Configuring
    BY <1>1, <2>1 DEF Configuring
  <2>3. LogOf(Applied(req[p].new)) = LogOf(Applied(req[p].old))
    BY <1>2, <1>7, SameLog DEF LogChanges
  <2>4. WellMade(r)
    BY <1>1, <2>2, <2>3, InFlight DEF WellMade, ConfigPoints, At, Configured
  <2>5. clean => config.log = LogOf(Applied(req[p].new))
    BY <1>3, <1>7, <2>3 DEF Before, Configured
  <2>6. clean => config = Configured(req[p].new)
    BY <1>3, <2>5, ToldStorage
  <2>7. clean => Sound(r, row, config)
    BY <1>1, <1>3, <2>2, <2>6 DEF Sound, ConfigPoints, At
  <2>8. Moves(p, r) /\ config' = config
    BY <1>7, <2>1 DEF PutLogging, Goes
  <2>9. QED
    BY <1>3, <1>4, <2>2, <2>4, <2>7, <2>8, SettingsMoved, InFlight DEF SettingsRequest
<1>8. QED
  BY <1>5, <1>6, <1>7

(* What a removal, or the undoing of a creation, goes on with. *)
LEMMA DropFits ==
  ASSUME SettingsInv, NEW p \in Procs, ~At(p, "idle"), NEW r,
         \E point \in {"droprow", "undostore"} : r = [pc |-> point, id |-> req[p].id]
  PROVE  /\ r \in SettingsRequest /\ WellMade(r) /\ r.id = req[p].id
         /\ r.pc \in {"droprow", "undostore"}
<1>1. req[p].id \in 0 .. MaxChanges
  BY InFlight DEF SettingsRequest, Configuring, Dropping, At, Idle
<1>2. QED
  BY <1>1 DEF SettingsRequest, Dropping, WellMade, ConfigPoints

LEMMA DropStoreKeeps ==
  ASSUME SettingsInv, NEW p \in Procs, DropStore(p) \/ UndoStore(p)
  PROVE  SettingsInv'
<1>1. PICK r : r = [pc |-> "droprow", id |-> req[p].id]
  OBVIOUS
<1>2. ~At(p, "idle") /\ Moves(p, r)
  BY <1>1 DEF DropStore, UndoStore, At, Drops
<1>3. r \in SettingsRequest /\ WellMade(r) /\ r.id = req[p].id /\ r.pc = "droprow"
  BY <1>1, <1>2, DropFits
<1>4. clean => NoOthers(p) /\ Sound(req[p], row, config)
  BY <1>2, InFlight
<1>5. clean' => clean /\ config' = None
  BY InFlight DEF DropStore, UndoStore
<1>6. clean' => Sound(r, row, config')
  BY <1>3, <1>4, <1>5 DEF Sound, ConfigPoints
<1>7. row' = row /\ changes' = changes /\ clean' \in BOOLEAN /\ config' \in Config \cup {None}
  BY InFlight DEF DropStore, UndoStore
<1>8. QED
  BY <1>2, <1>3, <1>4, <1>5, <1>6, <1>7, SettingsMoved, InFlight

LEMMA CallFailsKeeps ==
  ASSUME SettingsInv, NEW p \in Procs, CallFails(p)
  PROVE  SettingsInv'
<1>1. ~At(p, "idle") /\ row' = row /\ changes' = changes
  BY DEF CallFails, At
<1>2. clean => NoOthers(p) /\ Sound(req[p], row, config)
  BY <1>1, InFlight
<1>3. config' \in Config \cup {None}
  <2>1. CASE /\ At(p, "versioning") /\ config # None
             /\ config' = [config EXCEPT !.versioning = req[p].new.versioning]
    <3>1. req[p].new.versioning \in BOOLEAN
      BY <2>1, InFlight, SettingsRequestTypes DEF At, ConfigPoints, Configuring, Settings
    <3>2. QED
      BY <2>1, <3>1, InFlight DEF Config
  <2>2. CASE /\ At(p, "logging") /\ config # None
             /\ config' = [config EXCEPT !.log = LogOf(Applied(req[p].new))]
    <3>1. req[p].new \in Settings /\ ValidLogging(req[p].new)
      BY <2>2, InFlight, SettingsRequestTypes DEF At, ConfigPoints, Configuring, WellMade, CoherentSettings
    <3>2. LogOf(Applied(req[p].new)) \in (LogTargets \X LogPrefixes) \cup {None}
      BY <3>1, AppliedType
    <3>3. QED
      BY <2>2, <3>2, InFlight DEF Config
  <2>3. QED
    BY <2>1, <2>2, InFlight, FreshType DEF CallFails, MayHaveHappened
<1>4. CASE At(p, "ensurestore") /\ Drops(p, "droprow") /\ clean' = (clean /\ config' = config)
  <2>1. PICK r : r = [pc |-> "droprow", id |-> req[p].id]
    OBVIOUS
  <2>2. Moves(p, r) /\ r \in SettingsRequest /\ WellMade(r) /\ r.id = req[p].id /\ r.pc = "droprow"
    BY <1>1, <1>4, <2>1, DropFits DEF Drops
  <2>3. clean' => Sound(r, row, config')
    BY <1>2, <1>4, <2>2 DEF Sound, ConfigPoints, At
  <2>4. QED
    BY <1>1, <1>2, <1>3, <1>4, <2>2, <2>3, SettingsMoved, InFlight
<1>5. CASE /\ At(p, "versioning") \/ At(p, "logging")
           /\ req[p].creates /\ Drops(p, "undostore") /\ UNCHANGED clean
  <2>1. PICK r : r = [pc |-> "undostore", id |-> req[p].id]
    OBVIOUS
  <2>2. Moves(p, r) /\ r \in SettingsRequest /\ WellMade(r) /\ r.id = req[p].id /\ r.pc = "undostore"
    BY <1>1, <1>5, <2>1, DropFits DEF Drops
  <2>3. clean' => Sound(r, row, config')
    BY <1>2, <1>5, <2>2 DEF Sound, ConfigPoints, At
  <2>4. QED
    BY <1>1, <1>2, <1>3, <1>5, <2>2, <2>3, SettingsMoved, InFlight
<1>6. CASE /\ At(p, "versioning") \/ At(p, "logging")
           /\ ~req[p].creates /\ Ends(p) /\ clean' = (clean /\ ~req[p].touched /\ config' = config)
  <2>1. clean' => StorageMatches(row, config')
    <3>1. clean' => clean /\ ~req[p].touched /\ config' = config
      BY <1>6
    <3>2. req[p].pc \in {"versioning", "logging"} /\ ~req[p].creates
      BY <1>6 DEF At
    <3>3. clean /\ ~req[p].touched => StorageMatches(row, config)
      BY <3>2, UntouchedMatches
    <3>4. QED
      BY <3>1, <3>3
  <2>2. QED
    BY <1>1, <1>2, <1>3, <1>6, <2>1, IdleSettings, SettingsMoved, InFlight DEF Ends
<1>7. CASE At(p, "dropstore") /\ Ends(p) /\ clean' = (clean /\ config' = config)
  <2>1. clean' => StorageMatches(row, config')
    BY <1>2, <1>7 DEF Sound, StorageMatches, At
  <2>2. QED
    BY <1>1, <1>2, <1>3, <1>7, <2>1, IdleSettings, SettingsMoved, InFlight DEF Ends
<1>8. QED
  BY <1>4, <1>5, <1>6, <1>7 DEF CallFails

-----------------------------------------------------------------------------
(* Statements about settings *)

LEMMA WriteRowKeeps ==
  ASSUME SettingsInv, NEW p \in Procs, WriteRow(p)
  PROVE  SettingsInv'
<1>1. req[p].pc = "write" /\ req[p] \in Configuring /\ Moves(p, Idle)
  BY InFlight, SettingsRequestTypes DEF WriteRow, At, ConfigPoints, Ends
<1>2. CoherentSettings(req[p].new) /\ req[p].new \in Settings
  BY <1>1, InFlight DEF WellMade, ConfigPoints, Configuring
<1>3. clean => NoOthers(p) /\ Sound(req[p], row, config)
  BY <1>1, InFlight DEF At
<1>4. CASE TheirRow(req[p])
  <2>1. row # None /\ row' = [row EXCEPT !.settings = req[p].new]
    BY <1>4 DEF WriteRow, TheirRow, WholeRow
  <2>2. row' \in Rows /\ row'.settings = req[p].new
    BY <1>2, <2>1, InFlight DEF Rows
  <2>3. clean => StorageMatches(row', config)
    BY <1>1, <1>3, <2>2, SettingsAssumption DEF Sound, StorageMatches
  <2>4. QED
    BY <1>1, <1>2, <1>3, <2>2, <2>3, IdleSettings, SettingsMoved, InFlight DEF WriteRow
<1>5. CASE ~TheirRow(req[p])
  <2>1. row' = row
    BY <1>5 DEF WriteRow
  <2>2. ~clean
    BY <1>1, <1>3, <1>5 DEF Sound, TheirRow
  <2>3. QED
    BY <1>1, <2>1, <2>2, IdleSettings, SettingsMoved, InFlight DEF WriteRow
<1>6. QED
  BY <1>4, <1>5

LEMMA DropRowKeeps ==
  ASSUME SettingsInv, NEW p \in Procs, DropRow(p)
  PROVE  SettingsInv'
<1>1. req[p].pc = "droprow" /\ Moves(p, Idle)
  BY DEF DropRow, At, Ends
<1>2. clean => NoOthers(p) /\ Sound(req[p], row, config)
  BY <1>1, InFlight DEF At
<1>3. row' \in {row, None}
  BY DEF DropRow
<1>4. clean => StorageMatches(row', config)
  BY <1>1, <1>2 DEF Sound, StorageMatches, DropRow, TheirRow
<1>5. QED
  BY <1>1, <1>2, <1>3, <1>4, IdleSettings, SettingsMoved, InFlight DEF DropRow

LEMMA SettingsDieKeeps ==
  ASSUME SettingsInv, NEW p \in Procs, SettingsDie(p)
  PROVE  SettingsInv'
<1>1. ~At(p, "idle") /\ Moves(p, Idle)
  BY DEF SettingsDie, Dies, Ends
<1>2. clean => NoOthers(p) /\ Sound(req[p], row, config)
  BY <1>1, InFlight
<1>3. clean' => clean /\ Harmless(req[p])
  BY DEF SettingsDie
<1>4. clean' => StorageMatches(row, config)
  <2>1. CASE req[p].pc \in {"versioning", "logging", "write"} /\ ~req[p].creates /\ ~req[p].touched
    BY <1>2, <1>3, <2>1, UntouchedMatches
  <2>2. CASE req[p].pc = "write" /\ req[p].creates
    BY <1>2, <1>3, <2>2 DEF Sound, StorageMatches, ConfigPoints
  <2>3. CASE req[p].pc = "dropstore"
    BY <1>2, <1>3, <2>3 DEF Sound, StorageMatches
  <2>4. QED
    BY <1>3, <2>1, <2>2, <2>3 DEF Harmless
<1>5. clean' \in BOOLEAN
  BY DEF SettingsDie
<1>6. QED
  BY <1>1, <1>2, <1>3, <1>4, <1>5, IdleSettings, SettingsMoved, InFlight DEF SettingsDie

LEMMA NameRowKeeps ==
  ASSUME SettingsInv, NameRow
  PROVE  SettingsInv'
<1>1. PICK d \in DisplayNames : row' = [row EXCEPT !.settings.display = d]
  BY DEF NameRow
<1>2. row \in Rows /\ row # None
  BY DEF SettingsInv, SettingsTypeOK, NameRow
<1>3. PICK t : t = [row.settings EXCEPT !.display = d]
  OBVIOUS
<1>4. row' \in [id : {row.id}, settings : {t}]
  BY <1>1, <1>2, <1>3 DEF Rows
<1>5. row.settings \in Settings /\ row.id \in 0 .. MaxChanges
  BY <1>2 DEF Rows
<1>6. /\ t \in Settings /\ t.display # None
      /\ t.alias = row.settings.alias /\ t.logging = row.settings.logging
      /\ t.target = row.settings.target
      /\ Configured(t) = Configured(row.settings)
  BY <1>3, <1>5, NamedSettings
<1>7. row' \in Rows /\ row'.id = row.id /\ row'.settings = t /\ row' # None
  BY <1>4, <1>5, <1>6, SettingsAssumption DEF Rows
<1>8. UNCHANGED <<req, config, changes, clean>>
  BY DEF NameRow
<1>9. SettingsTypeOK'
  BY <1>7, <1>8 DEF SettingsInv, SettingsTypeOK
<1>10. RowIsCoherent'
  BY <1>2, <1>6, <1>7 DEF SettingsInv, RowIsCoherent
<1>11. \A p \in Procs : WellMade(req'[p])
  BY <1>8 DEF SettingsInv
<1>12. ASSUME NEW p \in Procs, Sound(req[p], row, config)
       PROVE  Sound(req[p], row', config)
  BY <1>2, <1>6, <1>7, <1>12 DEF Sound
<1>13. InOrder'
  BY <1>8, <1>12 DEF SettingsInv, InOrder, NoOthers, At
<1>14. SettingsMatch'
  BY <1>2, <1>6, <1>7, <1>8 DEF SettingsInv, SettingsMatch, At
<1>15. QED
  BY <1>9, <1>10, <1>11, <1>13, <1>14 DEF SettingsInv

-----------------------------------------------------------------------------
(* The theorems about settings *)

LEMMA SettingsStep == SettingsInv /\ [SettingsNext]_<<req, settingVars>> => SettingsInv'
<1>1. ASSUME SettingsInv, UNCHANGED <<req, settingVars>>
      PROVE  SettingsInv'
  BY <1>1 DEF SettingsInv, SettingsTypeOK, RowIsCoherent, InOrder, SettingsMatch, NoOthers, At, settingVars
<1>2. ASSUME SettingsInv, SettingsNext
      PROVE  SettingsInv'
  BY <1>2, CreateRowKeeps, LoadSettingsKeeps, LoadForRemovalKeeps, EnsureStoreKeeps, PutVersioningKeeps,
     PutLoggingKeeps, DropStoreKeeps, CallFailsKeeps, WriteRowKeeps, DropRowKeeps, SettingsDieKeeps,
     NameRowKeeps DEF SettingsNext
<1>3. QED
  BY <1>1, <1>2

LEMMA SettingsBegin == SettingsInit => SettingsInv
<1> SUFFICES ASSUME SettingsInit
             PROVE  SettingsInv
  OBVIOUS
<1>1. \A p \in Procs : req[p] = Idle
  BY DEF SettingsInit
<1>2. InOrder /\ \A p \in Procs : WellMade(req[p])
  BY <1>1, IdleSettings DEF InOrder, At
<1>3. CASE row = None /\ config = None
  BY <1>1, <1>2, <1>3, SettingsAssumption
  DEF SettingsInit, SettingsInv, SettingsTypeOK, RowIsCoherent, SettingsMatch
<1>4. ASSUME NEW s \in Settings, s.alias => s.display # None, ValidLogging(s),
             row = [id |-> 0, settings |-> s], config = Configured(s)
      PROVE  SettingsInv
  <2>1. row \in Rows /\ row # None /\ row.settings = s
    BY <1>4, SettingsAssumption DEF Rows
  <2>2. config \in Config
    BY <1>4, ConfiguredType
  <2>3. SettingsTypeOK
    BY <1>1, <2>1, <2>2, SettingsAssumption DEF SettingsInit, SettingsTypeOK
  <2>4. RowIsCoherent /\ SettingsMatch
    BY <1>4, <2>1 DEF RowIsCoherent, SettingsMatch, ValidLogging
  <2>5. QED
    BY <1>2, <2>3, <2>4 DEF SettingsInv
<1>5. AskedSettings \subseteq Settings
  BY SettingsAssumption
<1>6. QED
  BY <1>3, <1>4, <1>5 DEF SettingsInit

LEMMA SettingsInvariance == SettingsSpec => []SettingsInv
BY SettingsBegin, SettingsStep, PTL DEF SettingsSpec

(* The row, what storage keeps of a bucket and the requests keep their      *)
(* types.  (internal/bucket/store.go:16-31, storage/client.go:365-375)      *)
THEOREM SettingsTypes == SettingsSpec => []SettingsTypeOK
<1>1. SettingsInv => SettingsTypeOK
  BY DEF SettingsInv
<1>2. QED
  BY <1>1, SettingsInvariance, PTL

(* Rows that are written back whole stay coherent, whatever was written in  *)
(* between.  (internal/bucket/handler.go:249-281, store.go:206-220)         *)
THEOREM RowIsCoherentAlways == SettingsSpec => []RowIsCoherent
<1>1. SettingsInv => RowIsCoherent
  BY DEF SettingsInv
<1>2. QED
  BY <1>1, SettingsInvariance, PTL

(* Storage versions and logs as the row says, after any requests that did   *)
(* not overlap, wherever they failed.                                       *)
(* (internal/bucket/handler.go:189-225, 274-304)                            *)
THEOREM SettingsMatchAlways == SettingsSpec => []SettingsMatch
<1>1. SettingsInv => SettingsMatch
  BY DEF SettingsInv
<1>2. QED
  BY <1>1, SettingsInvariance, PTL
=============================================================================
