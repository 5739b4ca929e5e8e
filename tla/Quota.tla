------------------------------- MODULE Quota -------------------------------
(***************************************************************************)
(* The quotas of an account: internal/quota, the handlers of               *)
(* internal/uploads that ask for it and that record what was uploaded, and *)
(* the presigned uploads of the open API, which take the same steps.       *)
(*                                                                         *)
(* An upload is admitted when its URL is signed, on the size the client    *)
(* declares; the bytes arrive later, of any size, and are counted when     *)
(* another request completes the task.  The check is three statements and  *)
(* reserves nothing.                                                       *)
(*                                                                         *)
(* How tasks and multipart uploads end is the subject of Uploads; here an  *)
(* abort is one step.                                                      *)
(***************************************************************************)
EXTENDS Requests, FiniteSetsExt

CONSTANTS
  Buckets,      \* the buckets of the account
  Names,        \* object keys
  Admissions,   \* ids of upload_tasks
  Declared,     \* the sizes clients declare
  MaxObject,    \* no object is larger
  MaxInt,       \* the largest int64
  LimitChoices  \* the limits an instance starts with

Keys == Buckets \X Names
Sizes == 0..MaxObject

(* The columns of quota.Limits, and max_upload_bytes. *)
Limit == (0..MaxInt) \cup {None}
Limits == [upload : Limit, bytes : Limit, count : Limit, daily : Limit,
           bucketBytes : Limit, bucketCount : Limit]

VARIABLES
  limits,     \* of the account and of each of its buckets; they stay
  records,    \* rows of object_records: key -> size, or None
  admitted,   \* rows of upload_tasks: [key, size, pending], or None
  today,      \* the rows with status completed and completed_at >= dayStart
  stale       \* history: requests and tasks whose quota readings are out of date

quotaVars == <<limits, records, admitted, today, stale>>

-----------------------------------------------------------------------------
(* Types *)

(* A task that is not pending is aborted, or completed, today or before. *)
AdmittedTask == [key : Keys, size : Declared, pending : BOOLEAN]

Admission == [pc : {"usage"}, key : Keys, size : Declared, new : BOOLEAN]
               \cup [pc : {"daily", "admit"}, key : Keys, size : Declared]

Counting == [pc : {"head", "upsert", "count"}, task : Admissions,
             size : Sizes \cup {None}]

ASSUME QuotaAssumption ==
  /\ IsFiniteSet(Keys) /\ IsFiniteSet(Admissions)
  /\ MaxObject \in Nat /\ MaxInt \in Nat
  /\ Declared \subseteq 1..MaxInt
  /\ MaxObject * (Cardinality(Keys) + 1) <= MaxInt   \* storage is smaller than 2^63,
  /\ MaxObject * (Cardinality(Admissions) + 1) <= MaxInt   \* and so is all that is uploaded
  /\ LimitChoices \subseteq Limits
  /\ None \notin Int \cup AdmittedTask
  /\ Procs \cap Admissions = {}

QuotaTypeOK ==
  /\ limits \in LimitChoices
  /\ records \in [Keys -> Sizes \cup {None}]
  /\ admitted \in [Admissions -> AdmittedTask \cup {None}]
  /\ req \in [Procs -> {Idle} \cup Admission \cup Counting]
  /\ today \subseteq Admissions
  /\ stale \subseteq Procs \cup Admissions

-----------------------------------------------------------------------------
(* Limits *)

(* int64 addition of two amounts *)
Plus(a, b) == IF a + b > MaxInt THEN a + b - 2 * (MaxInt + 1) ELSE a + b

(* SUM of a column over some rows *)
SumOver(column, rows) == MapThenSumSet(LAMBDA x : column[x], rows)

(* UsageByID of some of the buckets.  (The keys here are live keys; those   *)
(* under .trash/ and .versions/ are not counted.)                           *)
Recorded(rows, buckets) == {k \in Keys : k[1] \in buckets /\ rows[k] # None}
UsedBytes(rows, buckets) == SumOver(rows, Recorded(rows, buckets))
ObjectCount(rows, buckets) == Cardinality(Recorded(rows, buckets))

(* Mutation: the limit may be passed once. *)
OverBytesLate(limit, used, add) == limit # None /\ used > limit

OverBytes(limit, used, add) == limit # None /\ Plus(used, add) > limit

OverCount(limit, used) == limit # None /\ Plus(used, 1) > limit

(* The limits that UsageByID and the settings are checked against. *)
OverUsage(b, size, new) ==
  \/ limits.upload # None /\ size > limits.upload
  \/ OverBytes(limits.bytes, UsedBytes(records, Buckets), size)
  \/ new /\ OverCount(limits.count, ObjectCount(records, Buckets))
  \/ OverBytes(limits.bucketBytes, UsedBytes(records, {b}), size)
  \/ new /\ OverCount(limits.bucketCount, ObjectCount(records, {b}))

(* CompletedBytesSince *)
DailyBytes(done) == SumOver([t \in done |-> admitted[t].size], done)

-----------------------------------------------------------------------------
(* History *)

Reading == {"usage", "daily", "admit"}

(* The readings that growth makes old; p completes task t.                  *)
Outdated(p, t) == {q \in Procs \ {p} : req[q].pc \in Reading}
                    \cup {s \in Admissions \ {t} : admitted[s] # None}

(* Whose readings a new row for k makes old: everyone's if it may have      *)
(* grown, those for k if it is gone.                                        *)
OutdatedBy(k, size) ==
  {q \in Procs : req[q].pc \in Reading /\ (size # None \/ req[q].key = k)}
    \cup {t \in Admissions : admitted[t] # None /\ (size # None \/ admitted[t].key = k)}

-----------------------------------------------------------------------------
(* presign, mpInit, presignUpload of the open API *)

(* Visibility and permission come first and change nothing; the bucket and  *)
(* the account that were read hold the limits.  Then Exists.                *)
Presign(p) ==
  /\ At(p, "idle")
  /\ \E k \in Keys, size \in Declared :
       Moves(p, [pc |-> "usage", key |-> k, size |-> size, new |-> records[k] = None])
  /\ UNCHANGED quotaVars

(* List and UsageByID.  The limits are compared after the last reading;     *)
(* what exceeds one of these is refused whatever is read then.              *)
ReadUsage(p) ==
  /\ At(p, "usage")
  /\ IF OverUsage(req[p].key[1], req[p].size, req[p].new)
       THEN Ends(p) /\ stale' = stale \ {p}
       ELSE /\ Moves(p, [pc |-> "daily", key |-> req[p].key, size |-> req[p].size])
            /\ UNCHANGED stale
  /\ UNCHANGED <<limits, records, admitted, today>>

(* CompletedBytesSince, and Check *)
ReadDaily(p) ==
  /\ At(p, "daily")
  /\ IF OverBytes(limits.daily, DailyBytes(today), req[p].size)
       THEN Ends(p) /\ stale' = stale \ {p}
       ELSE Goes(p, "admit") /\ UNCHANGED stale
  /\ UNCHANGED <<limits, records, admitted, today>>

(* tasks.Insert *)
Admit(p) ==
  /\ At(p, "admit")
  /\ \E t \in Admissions :
       /\ admitted[t] = None
       /\ admitted' = [admitted EXCEPT ![t] =
                         [key |-> req[p].key, size |-> req[p].size, pending |-> TRUE]]
       /\ stale' = (stale \ {p, t}) \cup (IF p \in stale THEN {t} ELSE {})
  /\ Ends(p)
  /\ UNCHANGED <<limits, records, today>>

-----------------------------------------------------------------------------
(* finalize *)

(* GetPending *)
CompleteTask(p) ==
  /\ At(p, "idle")
  /\ \E t \in Admissions :
       /\ admitted[t] # None /\ admitted[t].pending
       /\ Moves(p, [pc |-> "head", task |-> t, size |-> None])
  /\ UNCHANGED quotaVars

(* What is stored under a key is not kept: the holder of a signed URL can   *)
(* write any size at any time, once or again, and others can delete it, so  *)
(* HeadObject finds anything.                                               *)
Found == Sizes \cup {None}

(* Mutation: whatever there is. *)
AnySize(size, declared) == size # None

(* There is an object, of the declared size. *)
AsDeclared(size, declared) == size # None /\ size = declared

HeadUpload(p) ==
  /\ At(p, "head")
  /\ \E size \in Found :
       IF AsDeclared(size, admitted[req[p].task].size)
         THEN Moves(p, [req[p] EXCEPT !.pc = "upsert", !.size = size])
         ELSE Ends(p)
  /\ UNCHANGED quotaVars

(* objects.Upsert, with the size the HEAD said. *)
UpsertUpload(p) ==
  LET k == admitted[req[p].task].key IN
  /\ At(p, "upsert")
  /\ records' = [records EXCEPT ![k] = req[p].size]
  /\ stale' = stale \cup Outdated(p, req[p].task)
  /\ Goes(p, "count")
  /\ UNCHANGED <<limits, admitted, today>>

(* Mutation: what is completed is not counted. *)
CountedNot(t) == today

Counted(t) == today \cup {t}

(* tasks.Finish *)
CountTask(p) ==
  LET t == req[p].task IN
  /\ At(p, "count")
  /\ admitted' = [admitted EXCEPT ![t].pending = FALSE]
  /\ today' = Counted(t)
  /\ stale' = stale \cup Outdated(p, t)
  /\ Ends(p)
  /\ UNCHANGED <<limits, records>>

-----------------------------------------------------------------------------
(* Everything else *)

(* mpAbort, which may have read the task as pending before it was completed. *)
AbortTask ==
  /\ \E t \in Admissions :
       /\ admitted[t] # None
       /\ admitted' = [admitted EXCEPT ![t].pending = FALSE]
       /\ today' = today \ {t}
  /\ UNCHANGED <<req, limits, records, stale>>

(* The other writers of object_records: listings, operations, inventory.    *)
SeenElsewhere ==
  /\ \E k \in Keys, size \in Found :
       /\ records[k] # size
       /\ records' = [records EXCEPT ![k] = size]
       /\ stale' = stale \cup OutdatedBy(k, size)
  /\ UNCHANGED <<req, limits, admitted, today>>

NewDay ==
  /\ today' = {}
  /\ UNCHANGED <<req, limits, records, admitted, stale>>

QuotaDies(p) ==
  /\ Dies(p)
  /\ stale' = stale \ {p}
  /\ UNCHANGED <<limits, records, admitted, today>>

-----------------------------------------------------------------------------
QuotaInit ==
  /\ limits \in LimitChoices
  /\ records = [k \in Keys |-> None]
  /\ admitted = [t \in Admissions |-> None]
  /\ req = [p \in Procs |-> Idle]
  /\ today = {} /\ stale = {}

QuotaSteps(p) ==
  \/ Presign(p) \/ ReadUsage(p) \/ ReadDaily(p) \/ Admit(p)
  \/ CompleteTask(p) \/ HeadUpload(p) \/ UpsertUpload(p) \/ CountTask(p)
  \/ QuotaDies(p)

QuotaNext ==
  \/ \E p \in Procs : QuotaSteps(p)
  \/ AbortTask \/ SeenElsewhere \/ NewDay

QuotaSpec == QuotaInit /\ [][QuotaNext]_<<req, quotaVars>>

-----------------------------------------------------------------------------
(* Properties *)

Within(limit, amount) == limit # None => amount <= limit

(* A completion that takes the recorded bytes or objects of the account or  *)
(* of the bucket past a limit was admitted on readings that had become old: *)
(* something else was recorded in between.  Uploads that do not overlap     *)
(* keep the quota, sums that wrap around int64 notwithstanding, because     *)
(* what is recorded is what HeadObject says and not what the client         *)
(* declared.  (quota/check.go:36, uploads/handler.go:292)                   *)
QuotaKept ==
  [][\A p \in Procs :
       LET t == req[p].task
           b == {admitted[t].key[1]} IN
       At(p, "upsert") /\ records' # records /\ req'[p].pc = "count" /\ t \notin stale
         => /\ Within(limits.bytes, UsedBytes(records', Buckets))
            /\ Within(limits.bucketBytes, UsedBytes(records', b))
            /\ ObjectCount(records', Buckets) > ObjectCount(records, Buckets)
                 => /\ Within(limits.count, ObjectCount(records', Buckets))
                    /\ Within(limits.bucketCount, ObjectCount(records', b))
    ]_<<req, quotaVars>>

(* The same of the bytes completed in a day.  A task counts once, however   *)
(* often it is completed.  (uploads/store.go:73)                            *)
DailyKept ==
  [][\A t \in today' \ today :
       t \notin stale => Within(limits.daily, DailyBytes(today)')]_<<req, quotaVars>>
=============================================================================
