--------------------------- MODULE Uploads_proofs ---------------------------
(***************************************************************************)
(* The theorems of Uploads and of Quota, for any number of requests, tasks,*)
(* keys, multipart uploads and rows.                                       *)
(*                                                                         *)
(* Uploads: tasks and uploads only move forward (Kept).  What a request    *)
(* knows of them therefore stays true (FitsStays), and a step has to be    *)
(* looked at only for the request that takes it and the rows it writes.    *)
(*                                                                         *)
(* Quota: what a request has read, or had read for its task, still leaves  *)
(* the room it left then, unless it is stale (AdmissionFits,               *)
(* AdmittedFits).  The room is that of sums over rows; that a sum does not *)
(* depend on the order of its terms is shown with a smallest               *)
(* counterexample.                                                         *)
(***************************************************************************)
EXTENDS Uploads, Quota, FiniteSetTheorems, WellFoundedInduction, TLAPS

-----------------------------------------------------------------------------
(* The inductive invariant *)

Ending == {"assemble", "abort", "record", "finish"}

(* What is true of a request, wherever it is. *)
UploadFits(r) ==
  /\ r \in {Idle} \cup Starting \cup Finishing
  /\ r.pc = "create" => r.type = "multipart"
  /\ r.pc = "insert" => (r.upload = None <=> r.type = "simple")
  /\ r.pc = "insert" /\ r.upload # None =>
       uploads[r.upload] # None /\ uploads[r.upload].key = r.key
  /\ r.pc \in Ending =>
       /\ tasks[r.task] # None /\ tasks[r.task].key = r.key
       /\ r.upload = None <=> tasks[r.task].type = "simple"
       /\ ~mixed => r.upload = tasks[r.task].upload
  /\ r.pc \in {"assemble", "abort"} => r.upload # None
  /\ r.pc \in {"assemble", "record"} => r.outcome = "completed"
  /\ r.pc = "abort" => r.outcome = "aborted"
  /\ r.pc \in {"record", "finish"} /\ r.outcome = "completed" /\ r.upload # None =>
       Assembled(r.upload, r.key)
  /\ r.pc = "finish" /\ r.outcome = "aborted" =>
       /\ r.upload # None
       /\ ~failed /\ ~mixed => uploads[r.upload] # None /\ uploads[r.upload].state # "open"

UploadsFit == \A p \in Procs : UploadFits(req[p])

(* A multipart task has its upload, of the same key. *)
TasksFit ==
  \A t \in TaskIds :
    tasks[t] # None /\ tasks[t].type = "multipart" =>
      /\ tasks[t].upload \in UploadIds /\ uploads[tasks[t].upload] # None
      /\ uploads[tasks[t].upload].key = tasks[t].key

(* A task that is not contested is pending until its one request ends it. *)
Uncontested ==
  \A p \in Procs :
    req[p].pc \in Ending /\ req[p].task \notin contested =>
      /\ Pending(req[p].task)
      /\ \A q \in Procs : q # p /\ req[q].pc \in Ending => req[q].task # req[p].task

UploadsInv ==
  /\ UploadsTypeOK /\ UploadsFit /\ TasksFit /\ Uncontested
  /\ OpenUploadsAreSwept /\ CompletedWereAssembled

-----------------------------------------------------------------------------
(* Tasks and uploads move forward *)

Kept ==
  /\ \A t \in TaskIds :
       tasks[t] # None =>
         /\ tasks'[t] # None /\ tasks'[t].key = tasks[t].key
         /\ tasks'[t].type = tasks[t].type /\ tasks'[t].upload = tasks[t].upload
  /\ \A u \in UploadIds :
       uploads[u] # None =>
         /\ uploads'[u] # None /\ uploads'[u].key = uploads[u].key
         /\ uploads[u].state # "open" => uploads'[u].state = uploads[u].state
  /\ mixed => mixed'
  /\ failed => failed'

(* What is true of a request that does not move stays true. *)
LEMMA FitsStays ==
  ASSUME NEW p \in Procs, UploadFits(req[p]), req'[p] = req[p], Kept
  PROVE  UploadFits(req[p])'
<1>1. req[p] \in {Idle} \cup Starting \cup Finishing
  BY DEF UploadFits
<1>2. CASE req[p] = Idle
  BY <1>2 DEF UploadFits, Idle, Ending
<1>3. CASE req[p] \in Starting
  <2>1. /\ req[p].pc \in {"create", "insert"} /\ req[p].upload \in UploadIds \cup {None}
    BY <1>3 DEF Starting
  <2>2. QED
    BY <1>3, <2>1 DEF UploadFits, Kept, Ending
<1>4. CASE req[p] \in Finishing
  <2>1. /\ req[p].pc \in Ending /\ req[p].task \in TaskIds
        /\ req[p].upload \in UploadIds \cup {None}
    BY <1>4 DEF Finishing, Ending
  <2>2. /\ tasks'[req[p].task] # None /\ tasks'[req[p].task].key = req[p].key
        /\ req[p].upload = None <=> tasks'[req[p].task].type = "simple"
        /\ ~mixed' => req[p].upload = tasks'[req[p].task].upload
    BY <2>1 DEF UploadFits, Kept
  <2>3. req[p].upload # None =>
          /\ Assembled(req[p].upload, req[p].key) => Assembled(req[p].upload, req[p].key)'
          /\ uploads[req[p].upload] # None /\ uploads[req[p].upload].state # "open" =>
               uploads'[req[p].upload] # None /\ uploads'[req[p].upload].state # "open"
    BY <2>1 DEF Assembled, Kept
  <2>4. (~mixed' => ~mixed) /\ (~failed' => ~failed)
    BY DEF Kept
  <2>5. req[p].pc \notin {"create", "insert"}
    BY <2>1 DEF Ending
  <2>6. QED
    BY <2>1, <2>2, <2>3, <2>4, <2>5, <1>4 DEF UploadFits
<1>5. QED
  BY <1>1, <1>2, <1>3, <1>4

-----------------------------------------------------------------------------
(* A request moves *)

LEMMA UploadMoved ==
  ASSUME UploadsTypeOK, NEW p \in Procs, NEW r, Moves(p, r)
  PROVE  /\ req'[p] = r
         /\ \A q \in Procs : q # p => req'[q] = req[q]
         /\ r \in {Idle} \cup Starting \cup Finishing => req' \in [Procs -> {Idle} \cup Starting \cup Finishing]
BY DEF UploadsTypeOK, Moves

(* The requests that do not move fit, and so does the one that fits its new *)
(* place.                                                                   *)
LEMMA AllFitStays ==
  ASSUME UploadsTypeOK, UploadsFit, NEW p \in Procs, NEW r, Moves(p, r), Kept, UploadFits(req[p])'
  PROVE  UploadsFit'
<1>1. \A q \in Procs : q # p => req'[q] = req[q]
  BY UploadMoved
<1>2. ASSUME NEW q \in Procs, q # p
      PROVE  UploadFits(req[q])'
  <2>1. UploadFits(req[q]) /\ req'[q] = req[q]
    BY <1>1, <1>2 DEF UploadsFit
  <2>2. QED
    BY <2>1, FitsStays
<1>3. QED
  BY <1>2 DEF UploadsFit

LEMMA TasksFitStays ==
  ASSUME UploadsTypeOK, TasksFit, Kept, \A t \in TaskIds : tasks[t] = None => tasks'[t] = None
  PROVE  TasksFit'
BY DEF UploadsTypeOK, Task, TasksFit, Kept

(* No task becomes completed by this step. *)
LEMMA CompletedStay ==
  ASSUME UploadsTypeOK, TasksFit, CompletedWereAssembled, Kept,
         \A t \in TaskIds : tasks'[t] # None /\ tasks'[t].status = "completed" =>
                              tasks[t] # None /\ tasks[t].status = "completed"
  PROVE  CompletedWereAssembled'
<1> SUFFICES ASSUME ~mixed', NEW t \in TaskIds, tasks'[t] # None,
                    tasks'[t].type = "multipart", tasks'[t].status = "completed"
             PROVE  Assembled(tasks[t].upload, tasks[t].key)'
  BY DEF CompletedWereAssembled
<1>1. /\ ~mixed /\ tasks[t] # None /\ tasks[t].status = "completed"
      /\ tasks[t].type = "multipart" /\ tasks'[t].upload = tasks[t].upload
      /\ tasks'[t].key = tasks[t].key
  BY DEF Kept
<1>2. Assembled(tasks[t].upload, tasks[t].key) /\ tasks[t].upload \in UploadIds
  BY <1>1 DEF CompletedWereAssembled, TasksFit
<1>3. QED
  BY <1>1, <1>2 DEF Assembled, Kept

(* A step that neither writes a task nor opens an upload nor loads a task   *)
(* preserves the invariant, if the request fits its new place and does not  *)
(* give up an upload it was to insert.                                      *)
LEMMA QuietUpload ==
  ASSUME UploadsInv, NEW p \in Procs, NEW r, Moves(p, r),
         UploadsTypeOK', Kept, UploadFits(req[p])', tasks' = tasks, contested' = contested,
         \A u \in UploadIds :
           uploads'[u] # None /\ uploads'[u].state = "open" => uploads'[u] = uploads[u],
         r.pc \in Ending => req[p].pc \in Ending /\ r.task = req[p].task,
         At(p, "insert") => failed' \/ req[p].upload = None
  PROVE  UploadsInv'
<1> USE DEF UploadsInv
<1>1. req'[p] = r /\ \A q \in Procs : q # p => req'[q] = req[q]
  BY UploadMoved
<1>2. UploadsFit'
  BY AllFitStays
<1>3. TasksFit' /\ CompletedWereAssembled'
  BY TasksFitStays, CompletedStay
<1>4. Uncontested'
  BY <1>1 DEF Uncontested, Pending
<1>5. OpenUploadsAreSwept'
  <2> SUFFICES ASSUME ~failed', ~mixed', NEW u \in UploadIds,
                      uploads'[u] # None, uploads'[u].state = "open"
               PROVE  \/ \E t \in StaleMultipart' : tasks'[t].upload = u
                      \/ \E q \in Procs : req'[q].pc = "insert" /\ req'[q].upload = u
    BY DEF OpenUploadsAreSwept, At
  <2>1. ~failed /\ ~mixed /\ uploads[u] # None /\ uploads[u].state = "open"
    BY DEF Kept
  <2>2. CASE \E t \in StaleMultipart : tasks[t].upload = u
    BY <2>2 DEF StaleMultipart, Pending
  <2>3. CASE \E q \in Procs : req[q].pc = "insert" /\ req[q].upload = u
    <3>1. PICK q \in Procs : req[q].pc = "insert" /\ req[q].upload = u
      BY <2>3
    <3>2. q # p
      BY <3>1, UploadsAssumption DEF At
    <3>3. QED
      BY <3>1, <3>2, <1>1
  <2>4. QED
    BY <2>1, <2>2, <2>3 DEF OpenUploadsAreSwept, At
<1>6. QED
  BY <1>2, <1>3, <1>4, <1>5

-----------------------------------------------------------------------------
(* The steps *)

LEMMA StartStep ==
  ASSUME UploadsInv, NEW p \in Procs, PresignTask(p) \/ MpInit(p)
  PROVE  UploadsInv'
<1>1. At(p, "idle") /\ UNCHANGED uploadVars
  BY DEF PresignTask, MpInit
<1>2. PICK r \in Starting :
        /\ Moves(p, r) /\ r.upload = None
        /\ r.pc = "create" => r.type = "multipart"
        /\ r.pc = "insert" => r.type = "simple"
  <2>1. CASE PresignTask(p)
    <3>1. PICK k \in ObjectKeys :
            Moves(p, [pc |-> "insert", type |-> "simple", key |-> k, upload |-> None])
      BY <2>1 DEF PresignTask
    <3>2. [pc |-> "insert", type |-> "simple", key |-> k, upload |-> None] \in Starting
      BY DEF Starting
    <3>3. QED
      BY <3>1, <3>2
  <2>2. CASE MpInit(p)
    <3>1. PICK k \in ObjectKeys :
            Moves(p, [pc |-> "create", type |-> "multipart", key |-> k, upload |-> None])
      BY <2>2 DEF MpInit
    <3>2. [pc |-> "create", type |-> "multipart", key |-> k, upload |-> None] \in Starting
      BY DEF Starting
    <3>3. QED
      BY <3>1, <3>2
  <2>3. QED
    BY <2>1, <2>2
<1>3. Kept
  BY <1>1 DEF Kept, uploadVars
<1>4. req'[p] = r /\ r.pc \in {"create", "insert"} /\ UploadsTypeOK'
  BY <1>1, <1>2, UploadMoved DEF UploadsInv, UploadsTypeOK, uploadVars, Starting
<1>5. UploadFits(req[p])'
  BY <1>2, <1>4 DEF UploadFits, Ending
<1>6. QED
  BY <1>1, <1>2, <1>3, <1>4, <1>5, QuietUpload DEF Ending, At, uploadVars

LEMMA CreateMultipartStep ==
  ASSUME UploadsInv, NEW p \in Procs, CreateMultipart(p)
  PROVE  UploadsInv'
<1> USE DEF UploadsInv
<1> DEFINE r(u) == [req[p] EXCEPT !.pc = "insert", !.upload = u]
<1>1. PICK u \in UploadIds :
        /\ uploads[u] = None
        /\ uploads' = [uploads EXCEPT ![u] = [key |-> req[p].key, state |-> "open"]]
        /\ Moves(p, r(u))
  BY DEF CreateMultipart
<1>2. UNCHANGED <<tasks, contested, failed, mixed>> /\ req[p].pc = "create"
  BY DEF CreateMultipart, At
<1>3. req[p] \in Starting /\ req[p].type = "multipart" /\ req[p].key \in ObjectKeys
  BY <1>2 DEF UploadsTypeOK, UploadsFit, UploadFits, Idle, Starting, Finishing
<1>4. /\ r(u) \in Starting /\ r(u).pc = "insert" /\ r(u).upload = u
      /\ r(u).key = req[p].key /\ r(u).type = "multipart"
  BY <1>3 DEF Starting
<1>5. req'[p] = r(u) /\ \A q \in Procs : q # p => req'[q] = req[q]
  BY <1>1, UploadMoved
<1>6. UploadsTypeOK'
  BY <1>1, <1>2, <1>3, <1>4, UploadMoved DEF UploadsTypeOK, Upload
<1> HIDE DEF r
<1>7. uploads'[u] # None /\ uploads'[u].key = req[p].key
  BY <1>1, <1>3, <1>6, UploadsAssumption DEF UploadsTypeOK, Upload
<1>8. Kept
  BY <1>1, <1>2 DEF Kept
<1>9. UploadFits(req[p])'
  BY <1>4, <1>5, <1>7, UploadsAssumption DEF UploadFits, Ending
<1>10. UploadsFit' /\ TasksFit' /\ CompletedWereAssembled'
  BY <1>1, <1>2, <1>8, <1>9, AllFitStays, TasksFitStays, CompletedStay
<1>11. Uncontested'
  BY <1>2, <1>4, <1>5 DEF Uncontested, Pending, Ending
<1>12. OpenUploadsAreSwept'
  <2> SUFFICES ASSUME ~failed', ~mixed', NEW v \in UploadIds,
                      uploads'[v] # None, uploads'[v].state = "open"
               PROVE  \/ \E x \in StaleMultipart' : tasks'[x].upload = v
                      \/ \E q \in Procs : req'[q].pc = "insert" /\ req'[q].upload = v
    BY DEF OpenUploadsAreSwept, At
  <2>1. CASE v = u
    BY <2>1, <1>4, <1>5
  <2>2. CASE v # u
    <3>1. uploads'[v] = uploads[v] /\ StaleMultipart' = StaleMultipart
      BY <2>2, <1>1, <1>2 DEF UploadsTypeOK, StaleMultipart, Pending
    <3>2. \A q \in Procs : req[q].pc = "insert" => req'[q] = req[q]
      BY <1>2, <1>5
    <3>3. QED
      BY <3>1, <3>2, <1>2 DEF OpenUploadsAreSwept, At
  <2>3. QED
    BY <2>1, <2>2
<1>13. QED
  BY <1>6, <1>10, <1>11, <1>12

LEMMA InsertTaskStep ==
  ASSUME UploadsInv, NEW p \in Procs, InsertTask(p)
  PROVE  UploadsInv'
<1> USE DEF UploadsInv
<1> DEFINE row == [type |-> req[p].type, key |-> req[p].key,
                   upload |-> req[p].upload, status |-> "pending"]
<1>1. PICK t \in TaskIds : tasks[t] = None /\ tasks' = [tasks EXCEPT ![t] = row]
  BY DEF InsertTask
<1>2. /\ UNCHANGED <<uploads, contested, failed, mixed>> /\ req[p].pc = "insert"
      /\ Moves(p, Idle)
  BY DEF InsertTask, At, Ends
<1>3. req[p] \in Starting /\ UploadFits(req[p])
  BY <1>2 DEF UploadsTypeOK, UploadsFit, Idle, Finishing
<1>4. row \in Task
  BY <1>3 DEF Starting, Task
<1>5. req'[p] = Idle /\ \A q \in Procs : q # p => req'[q] = req[q]
  BY <1>2, UploadMoved
<1>6. UploadsTypeOK'
  BY <1>1, <1>2, <1>4, UploadMoved DEF UploadsTypeOK
<1>7. tasks'[t] = row /\ tasks'[t] # None
  BY <1>1, <1>4, UploadsAssumption DEF UploadsTypeOK
<1>8. Kept
  BY <1>1, <1>2 DEF Kept
<1>9. UploadFits(req[p])'
  BY <1>5 DEF UploadFits, Idle, Ending
<1>10. UploadsFit'
  BY <1>2, <1>8, <1>9, AllFitStays
<1>11. TasksFit'
  <2>1. ASSUME NEW x \in TaskIds, tasks'[x] # None, tasks'[x].type = "multipart"
        PROVE  /\ tasks'[x].upload \in UploadIds /\ uploads'[tasks'[x].upload] # None
               /\ uploads'[tasks'[x].upload].key = tasks'[x].key
    <3>1. CASE x = t
      BY <3>1, <2>1, <1>2, <1>3, <1>7 DEF UploadFits, Starting
    <3>2. CASE x # t
      BY <3>2, <2>1, <1>1, <1>2 DEF TasksFit, UploadsTypeOK
    <3>3. QED
      BY <3>1, <3>2
  <2>2. QED
    BY <2>1 DEF TasksFit
<1>12. CompletedWereAssembled'
  BY <1>1, <1>7, <1>8, CompletedStay DEF UploadsTypeOK
<1>13. Uncontested'
  <2>1. \A x \in TaskIds : Pending(x) => Pending(x)'
    BY <1>1 DEF Pending, UploadsTypeOK
  <2>2. ASSUME NEW q \in Procs, req'[q].pc \in Ending
        PROVE  q # p /\ req'[q] = req[q] /\ req[q].task \in TaskIds
    BY <2>2, <1>5 DEF Idle, Ending, UploadsTypeOK, Starting, Finishing
  <2>3. QED
    BY <2>1, <2>2, <1>2 DEF Uncontested
<1>14. OpenUploadsAreSwept'
  <2> SUFFICES ASSUME ~failed', ~mixed', NEW u \in UploadIds,
                      uploads'[u] # None, uploads'[u].state = "open"
               PROVE  \/ \E x \in StaleMultipart' : tasks'[x].upload = u
                      \/ \E q \in Procs : req'[q].pc = "insert" /\ req'[q].upload = u
    BY DEF OpenUploadsAreSwept, At
  <2>1. CASE \E x \in StaleMultipart : tasks[x].upload = u
    BY <2>1, <1>1 DEF StaleMultipart, Pending, UploadsTypeOK
  <2>2. CASE req[p].upload = u
    <3>1. row.type = "multipart"
      BY <2>2, <1>2, <1>3, UploadsAssumption DEF UploadFits, Starting
    <3>2. t \in StaleMultipart'
      BY <3>1, <1>7 DEF StaleMultipart, Pending
    <3>3. QED
      BY <3>2, <2>2, <1>7
  <2>3. CASE \E q \in Procs : q # p /\ req[q].pc = "insert" /\ req[q].upload = u
    BY <2>3, <1>5
  <2>4. QED
    BY <2>1, <2>2, <2>3, <1>2 DEF OpenUploadsAreSwept, At
<1>15. QED
  BY <1>6, <1>10, <1>11, <1>12, <1>13, <1>14

(* What a request that ends a task knows. *)
LEMMA EndingFits ==
  ASSUME UploadsInv, NEW p \in Procs, req[p].pc \in Ending
  PROVE  /\ req[p] \in Finishing /\ UploadFits(req[p])
         /\ req[p].task \in TaskIds /\ req[p].upload \in UploadIds \cup {None}
         /\ tasks[req[p].task] \in Task
BY DEF UploadsInv, UploadsTypeOK, UploadsFit, UploadFits, Ending, Idle, Starting, Finishing

(* To another point of the same request. *)
LEMMA Onward ==
  ASSUME UploadsTypeOK, NEW p \in Procs, req[p] \in Finishing,
         NEW point \in Ending, Goes(p, point)
  PROVE  /\ req'[p] = [req[p] EXCEPT !.pc = point] /\ req'[p] \in Finishing
         /\ req'[p].pc = point /\ req'[p].task = req[p].task /\ req'[p].key = req[p].key
         /\ req'[p].upload = req[p].upload /\ req'[p].outcome = req[p].outcome
         /\ Moves(p, req'[p]) /\ req' \in [Procs -> {Idle} \cup Starting \cup Finishing]
<1> DEFINE r == [req[p] EXCEPT !.pc = point]
<1>1. /\ r \in Finishing /\ r.pc = point /\ r.task = req[p].task /\ r.key = req[p].key
      /\ r.upload = req[p].upload /\ r.outcome = req[p].outcome
  BY DEF Finishing, Ending
<1>2. Moves(p, r)
  BY DEF Goes
<1> HIDE DEF r
<1>3. req'[p] = r /\ req' \in [Procs -> {Idle} \cup Starting \cup Finishing]
  BY <1>1, <1>2, UploadMoved
<1>4. QED
  BY <1>1, <1>2, <1>3 DEF r

LEMMA EndsIdle ==
  ASSUME UploadsTypeOK, NEW p \in Procs, Ends(p)
  PROVE  /\ req'[p] = Idle /\ Moves(p, Idle) /\ UploadFits(req[p])'
         /\ req' \in [Procs -> {Idle} \cup Starting \cup Finishing]
<1>1. Moves(p, Idle)
  BY DEF Ends
<1>2. req'[p] = Idle /\ req' \in [Procs -> {Idle} \cup Starting \cup Finishing]
  BY <1>1, UploadMoved
<1>3. QED
  BY <1>1, <1>2 DEF UploadFits, Idle, Ending

(* A request that ends without writing anything. *)
LEMMA QuietEnd ==
  ASSUME UploadsInv, NEW p \in Procs, Ends(p), req[p].pc # "insert",
         UNCHANGED <<tasks, uploads, contested, failed, mixed>>
  PROVE  UploadsInv'
<1>1. UploadsTypeOK' /\ Kept
  BY EndsIdle DEF UploadsInv, UploadsTypeOK, Kept
<1>2. QED
  BY <1>1, EndsIdle, QuietUpload DEF UploadsInv, Idle, Ending, At

(* A task is read as pending. *)
LEMMA LoadsStep ==
  ASSUME UploadsInv, NEW p \in Procs, NEW t \in TaskIds, NEW u \in UploadIds \cup {None},
         NEW point \in Ending \ {"finish"}, NEW outcome \in {"completed", "aborted"},
         tasks[t].type = "simple" <=> u = None,
         point = "record" <=> u = None,
         point = "abort" <=> outcome = "aborted",
         Loads(p, t, u, point, outcome)
  PROVE  UploadsInv'
<1> USE DEF UploadsInv
<1> DEFINE r == [pc |-> point, task |-> t, key |-> tasks[t].key, upload |-> u,
                 outcome |-> outcome]
<1>1. /\ At(p, "idle") /\ Pending(t) /\ Moves(p, r)
      /\ contested' = contested \cup (IF \E q \in Procs : Finishes(q, t) THEN {t} ELSE {})
      /\ mixed' = (mixed \/ u # tasks[t].upload)
      /\ UNCHANGED <<tasks, uploads, failed>>
  BY DEF Loads
<1>2. tasks[t] \in Task /\ tasks[t] # None
  BY <1>1 DEF UploadsTypeOK, Pending
<1>3. /\ r \in Finishing /\ r.pc = point /\ r.task = t /\ r.key = tasks[t].key
      /\ r.upload = u /\ r.outcome = outcome
  BY <1>2 DEF Finishing, Task, Ending
<1> HIDE DEF r
<1>4. req'[p] = r /\ \A q \in Procs : q # p => req'[q] = req[q]
  BY <1>1, UploadMoved
<1>5. UploadsTypeOK'
  BY <1>1, <1>3, UploadMoved DEF UploadsTypeOK
<1>6. Kept
  BY <1>1, <1>2 DEF Kept
<1>7. UploadFits(req[p])'
  <2>1. /\ tasks'[t] # None /\ tasks'[t].key = r.key
        /\ r.upload = None <=> tasks'[t].type = "simple"
        /\ ~mixed' => r.upload = tasks'[t].upload
    BY <1>1, <1>2, <1>3 DEF Task
  <2>2. QED
    BY <2>1, <1>3, <1>4 DEF UploadFits, Ending
<1>8. UploadsFit' /\ TasksFit' /\ CompletedWereAssembled'
  BY <1>1, <1>6, <1>7, AllFitStays, TasksFitStays, CompletedStay
<1>9. Uncontested'
  <2> SUFFICES ASSUME NEW x \in Procs, req'[x].pc \in Ending, req'[x].task \notin contested'
               PROVE  /\ Pending(req'[x].task)
                      /\ \A q \in Procs : q # x /\ req'[q].pc \in Ending => req'[q].task # req'[x].task
    BY <1>1 DEF Uncontested, Pending
  <2>1. CASE x = p
    <3>1. \A q \in Procs : ~Finishes(q, t)
      BY <2>1, <1>1, <1>3, <1>4
    <3>2. QED
      BY <3>1, <2>1, <1>1, <1>3, <1>4 DEF Finishes, Ending
  <2>2. CASE x # p
    <3>1. req'[x] = req[x] /\ req[x].task \notin contested
      BY <2>2, <1>1, <1>4
    <3>2. req[x].task # t
      BY <3>1, <1>1 DEF Finishes, Ending
    <3>3. QED
      BY <3>1, <3>2, <1>3, <1>4 DEF Uncontested
  <2>3. QED
    BY <2>1, <2>2
<1>10. OpenUploadsAreSwept'
  <2>1. ~mixed' => ~mixed
    BY <1>1
  <2>2. \A q \in Procs : req[q].pc = "insert" => req'[q] = req[q]
    BY <1>1, <1>4 DEF At
  <2>3. QED
    BY <2>1, <2>2, <1>1 DEF OpenUploadsAreSwept, At, StaleMultipart, Pending
<1>11. QED
  BY <1>5, <1>8, <1>9, <1>10

LEMMA LoadTaskSteps ==
  ASSUME UploadsInv, NEW p \in Procs, Complete(p) \/ MpComplete(p) \/ MpAbort(p)
  PROVE  UploadsInv'
<1>1. CASE Complete(p)
  BY <1>1, LoadsStep DEF Complete, Ending
<1>2. CASE MpComplete(p)
  <2>1. PICK t \in TaskIds, u \in UploadIds :
          tasks[t].type = "multipart" /\ Loads(p, t, u, "assemble", "completed")
    BY <1>2 DEF MpComplete, AssemblePoint
  <2>2. u # None
    BY UploadsAssumption
  <2>3. QED
    BY <2>1, <2>2, LoadsStep DEF Ending
<1>3. CASE MpAbort(p)
  <2>1. PICK t \in TaskIds, u \in UploadIds :
          tasks[t].type = "multipart" /\ Loads(p, t, u, "abort", "aborted")
    BY <1>3 DEF MpAbort, AbortPoint
  <2>2. u # None
    BY UploadsAssumption
  <2>3. QED
    BY <2>1, <2>2, LoadsStep DEF Ending
<1>4. QED
  BY <1>1, <1>2, <1>3

LEMMA CompleteMultipartStep ==
  ASSUME UploadsInv, NEW p \in Procs, CompleteMultipart(p)
  PROVE  UploadsInv'
<1> USE DEF UploadsInv
<1> DEFINE u == req[p].upload
           k == req[p].key
<1>1. /\ req[p].pc = "assemble" /\ UNCHANGED <<tasks, contested, failed, mixed>>
      /\ req[p].pc \in Ending
  BY DEF CompleteMultipart, At, Ending
<1>2. /\ req[p] \in Finishing /\ u \in UploadIds /\ req[p].outcome = "completed"
      /\ req[p].upload # None
  BY <1>1, EndingFits DEF UploadFits
<1>3. CASE Goes(p, "record") /\ OpenFor(u, k)
             /\ uploads' = [uploads EXCEPT ![u].state = "completed"]
  <2>1. UploadsTypeOK' /\ Kept /\ Assembled(u, k)'
    <3>1. uploads[u] \in Upload /\ uploads[u].state = "open" /\ uploads[u].key = k
      BY <1>2, <1>3 DEF UploadsTypeOK, OpenFor
    <3>2. [uploads[u] EXCEPT !.state = "completed"] \in Upload
      BY <3>1 DEF Upload
    <3>3. uploads'[u].state = "completed" /\ uploads'[u].key = k /\ uploads'[u] # None
      BY <3>1, <3>2, <1>2, <1>3, UploadsAssumption DEF UploadsTypeOK, Upload
    <3>4. /\ req' \in [Procs -> {Idle} \cup Starting \cup Finishing]
          /\ req'[p].upload = u /\ req'[p].key = k
      BY <1>2, <1>3, Onward DEF Ending
    <3>5. UploadsTypeOK'
      BY <3>2, <3>4, <1>1, <1>2, <1>3 DEF UploadsTypeOK
    <3>6. Kept
      BY <3>1, <3>3, <1>1, <1>2, <1>3 DEF UploadsTypeOK, Kept
    <3>7. QED
      BY <3>3, <3>4, <3>5, <3>6 DEF Assembled
  <2>2. UploadFits(req[p])'
    <3>1. /\ req'[p].pc = "record" /\ req'[p] \in Finishing /\ req'[p].task = req[p].task
          /\ req'[p].key = k /\ req'[p].upload = u /\ req'[p].outcome = "completed"
      BY <1>2, <1>3, Onward DEF Ending
    <3>2. UploadFits(req[p])
      BY <1>1, EndingFits
    <3>3. QED
      BY <3>1, <3>2, <2>1, <1>1 DEF UploadFits, Ending, Assembled
  <2>3. QED
    BY <2>1, <2>2, <1>1, <1>2, <1>3, Onward, QuietUpload DEF Ending, At, UploadsTypeOK
<1>4. CASE Goes(p, "record") /\ Assembled(u, k) /\ UNCHANGED uploads
  <2>1. UploadsTypeOK' /\ Kept
    BY <1>1, <1>2, <1>4, Onward DEF UploadsTypeOK, Kept, Ending
  <2>2. UploadFits(req[p])'
    <3>1. /\ req'[p].pc = "record" /\ req'[p] \in Finishing /\ req'[p].task = req[p].task
          /\ req'[p].key = k /\ req'[p].upload = u /\ req'[p].outcome = "completed"
      BY <1>2, <1>4, Onward DEF Ending
    <3>2. UploadFits(req[p])
      BY <1>1, EndingFits
    <3>3. QED
      BY <3>1, <3>2, <2>1, <1>1, <1>4 DEF UploadFits, Ending, Assembled
  <2>3. QED
    BY <2>1, <2>2, <1>1, <1>2, <1>4, Onward, QuietUpload DEF Ending, At
<1>5. CASE Ends(p) /\ UNCHANGED uploads
  BY <1>1, <1>5, QuietEnd
<1>6. QED
  BY <1>3, <1>4, <1>5 DEF CompleteMultipart

LEMMA AbortMultipartStep ==
  ASSUME UploadsInv, NEW p \in Procs, AbortMultipart(p)
  PROVE  UploadsInv'
<1> USE DEF UploadsInv
<1> DEFINE u == req[p].upload
           k == req[p].key
<1>1. /\ req[p].pc = "abort" /\ UNCHANGED <<tasks, contested, mixed>>
      /\ Goes(p, "finish") /\ req[p].pc \in Ending
  BY DEF AbortMultipart, At, Ending
<1>2. /\ req[p] \in Finishing /\ u \in UploadIds /\ req[p].outcome = "aborted"
      /\ UploadFits(req[p])
  BY <1>1, EndingFits DEF UploadFits
<1>3. /\ req'[p].pc = "finish" /\ req'[p] \in Finishing /\ req'[p].task = req[p].task
      /\ req'[p].key = k /\ req'[p].upload = u /\ req'[p].outcome = "aborted"
      /\ Moves(p, req'[p]) /\ req' \in [Procs -> {Idle} \cup Starting \cup Finishing]
  BY <1>1, <1>2, Onward DEF Ending
<1>4. /\ UploadsTypeOK' /\ Kept
      /\ \A v \in UploadIds :
           uploads'[v] # None /\ uploads'[v].state = "open" => uploads'[v] = uploads[v]
      /\ failed' \/ (~mixed => uploads'[u] # None /\ uploads'[u].state # "open")
  <2>1. CASE OpenFor(u, k) /\ uploads' = [uploads EXCEPT ![u].state = "aborted"] /\ UNCHANGED failed
    <3>1. uploads[u] \in Upload /\ uploads[u] # None
      BY <2>1, <1>2 DEF UploadsTypeOK, OpenFor
    <3>2. [uploads[u] EXCEPT !.state = "aborted"] \in Upload
      BY <3>1 DEF Upload
    <3>3. uploads'[u].state = "aborted" /\ uploads'[u].key = uploads[u].key /\ uploads'[u] # None
      BY <3>1, <3>2, <2>1, <1>2, UploadsAssumption DEF UploadsTypeOK, Upload
    <3>4. UploadsTypeOK'
      BY <3>2, <2>1, <1>1, <1>2, <1>3 DEF UploadsTypeOK
    <3>5. Kept
      BY <3>1, <3>3, <2>1, <1>1, <1>2 DEF UploadsTypeOK, Kept, OpenFor
    <3>6. QED
      BY <3>3, <3>4, <3>5, <2>1, <1>2 DEF UploadsTypeOK
  <2>2. CASE ~OpenFor(u, k) /\ UNCHANGED <<uploads, failed>>
    <3>1. ~mixed => uploads[u] # None /\ uploads[u].key = k
      BY <1>1, <1>2, UploadsAssumption DEF UploadFits, TasksFit, Ending, Finishing, UploadsTypeOK, Task
    <3>2. QED
      BY <3>1, <2>2, <1>1, <1>3 DEF UploadsTypeOK, Kept, OpenFor
  <2>3. CASE failed' = TRUE /\ UNCHANGED uploads
    BY <2>3, <1>1, <1>3 DEF UploadsTypeOK, Kept
  <2>4. QED
    BY <2>1, <2>2, <2>3 DEF AbortMultipart
<1>5. UploadFits(req[p])'
  BY <1>1, <1>2, <1>3, <1>4, UploadsAssumption DEF UploadFits, Ending
<1>6. QED
  BY <1>1, <1>3, <1>4, <1>5, QuietUpload DEF Ending, At

LEMMA RecordStep ==
  ASSUME UploadsInv, NEW p \in Procs, RecordUpload(p)
  PROVE  UploadsInv'
<1> USE DEF UploadsInv
<1>1. req[p].pc = "record" /\ UNCHANGED uploadVars /\ req[p].pc \in Ending
  BY DEF RecordUpload, At, Ending
<1>2. CASE Ends(p)
  BY <1>1, <1>2, QuietEnd DEF uploadVars
<1>3. CASE Goes(p, "finish")
  <2>1. UploadFits(req[p]) /\ req[p] \in Finishing /\ req[p].outcome = "completed"
    BY <1>1, EndingFits DEF UploadFits
  <2>2. /\ req'[p].pc = "finish" /\ req'[p] \in Finishing /\ req'[p].task = req[p].task
        /\ req'[p].key = req[p].key /\ req'[p].upload = req[p].upload
        /\ req'[p].outcome = "completed" /\ Moves(p, req'[p])
        /\ req' \in [Procs -> {Idle} \cup Starting \cup Finishing]
    BY <2>1, <1>3, Onward DEF Ending
  <2>3. UploadsTypeOK' /\ Kept
    BY <2>2, <1>1 DEF UploadsTypeOK, Kept, uploadVars
  <2>4. UploadFits(req[p])'
    BY <2>1, <2>2, <1>1 DEF UploadFits, Ending, Assembled, uploadVars
  <2>5. QED
    BY <2>2, <2>3, <2>4, <1>1, QuietUpload DEF At, uploadVars
<1>4. QED
  BY <1>2, <1>3 DEF RecordUpload

LEMMA FinishTaskStep ==
  ASSUME UploadsInv, NEW p \in Procs, FinishTask(p)
  PROVE  UploadsInv'
<1> USE DEF UploadsInv
<1> DEFINE t == req[p].task
           row == [tasks[t] EXCEPT !.status = req[p].outcome]
<1>1. /\ req[p].pc = "finish" /\ UNCHANGED <<uploads, contested, failed, mixed>>
      /\ Ends(p) /\ tasks' = [tasks EXCEPT ![t].status = req[p].outcome]
      /\ req[p].pc \in Ending
  BY DEF FinishTask, At, Ending
<1>2. /\ t \in TaskIds /\ tasks[t] \in Task /\ tasks[t] # None /\ UploadFits(req[p])
      /\ req[p].outcome \in {"completed", "aborted"}
  BY <1>1, EndingFits DEF UploadFits, Finishing
<1>3. /\ row \in Task /\ row # None /\ row.key = tasks[t].key /\ row.type = tasks[t].type
      /\ row.upload = tasks[t].upload /\ row.status = req[p].outcome
  BY <1>2, UploadsAssumption DEF Task
<1>4. tasks'[t] = row /\ \A x \in TaskIds : x # t => tasks'[x] = tasks[x]
  BY <1>1, <1>2 DEF UploadsTypeOK
<1>5. /\ req'[p] = Idle /\ Moves(p, Idle) /\ UploadFits(req[p])'
      /\ \A q \in Procs : q # p => req'[q] = req[q]
  BY <1>1, EndsIdle, UploadMoved
<1>6. UploadsTypeOK'
  BY <1>1, <1>3, <1>4, EndsIdle DEF UploadsTypeOK
<1> HIDE DEF row
<1>7. Kept
  BY <1>1, <1>3, <1>4 DEF Kept
<1>8. UploadsFit' /\ TasksFit'
  BY <1>2, <1>4, <1>5, <1>7, AllFitStays, TasksFitStays
<1>9. CompletedWereAssembled'
  <2> SUFFICES ASSUME ~mixed', NEW x \in TaskIds, tasks'[x] # None,
                      tasks'[x].type = "multipart", tasks'[x].status = "completed"
               PROVE  Assembled(tasks'[x].upload, tasks'[x].key)
    BY <1>1 DEF CompletedWereAssembled, Assembled
  <2>1. CASE x = t
    BY <2>1, <1>1, <1>2, <1>3, <1>4 DEF UploadFits, Ending
  <2>2. CASE x # t
    BY <2>2, <1>1, <1>4 DEF CompletedWereAssembled
  <2>3. QED
    BY <2>1, <2>2
<1>10. Uncontested'
  <2> SUFFICES ASSUME NEW x \in Procs, req'[x].pc \in Ending, req'[x].task \notin contested
               PROVE  /\ Pending(req[x].task)'
                      /\ \A q \in Procs : q # x /\ req'[q].pc \in Ending => req'[q].task # req'[x].task
    BY <1>1 DEF Uncontested
  <2>1. x # p /\ req'[x] = req[x]
    BY <1>5 DEF Idle, Ending
  <2>2. /\ Pending(req[x].task) /\ req[x].task # t /\ req[x].task \in TaskIds
        /\ \A q \in Procs : q # x /\ req[q].pc \in Ending => req[q].task # req[x].task
    BY <2>1, <1>1, EndingFits DEF Uncontested
  <2>3. \A q \in Procs : req'[q].pc \in Ending => req'[q] = req[q]
    BY <1>5 DEF Idle, Ending
  <2>4. QED
    BY <2>1, <2>2, <2>3, <1>4 DEF Pending
<1>11. OpenUploadsAreSwept'
  <2> SUFFICES ASSUME ~failed, ~mixed, NEW u \in UploadIds,
                      uploads[u] # None, uploads[u].state = "open"
               PROVE  \/ \E x \in StaleMultipart' : tasks'[x].upload = u
                      \/ \E q \in Procs : req'[q].pc = "insert" /\ req'[q].upload = u
    BY <1>1 DEF OpenUploadsAreSwept, At
  <2>1. CASE \E x \in StaleMultipart : tasks[x].upload = u
    <3>1. PICK x \in StaleMultipart : tasks[x].upload = u
      BY <2>1
    <3>2. x # t
      BY <3>1, <1>1, <1>2, UploadsAssumption DEF UploadFits, Ending, Assembled
    <3>3. QED
      BY <3>1, <3>2, <1>4 DEF StaleMultipart, Pending
  <2>2. CASE \E q \in Procs : req[q].pc = "insert" /\ req[q].upload = u
    BY <2>2, <1>1, <1>5
  <2>3. QED
    BY <2>1, <2>2 DEF OpenUploadsAreSwept, At
<1>12. QED
  BY <1>6, <1>8, <1>9, <1>10, <1>11

LEMMA UploadDiesStep ==
  ASSUME UploadsInv, NEW p \in Procs, UploadDies(p)
  PROVE  UploadsInv'
<1> USE DEF UploadsInv
<1>1. /\ Ends(p) /\ failed' = (failed \/ (At(p, "insert") /\ req[p].upload # None))
      /\ UNCHANGED <<tasks, uploads, contested, mixed>>
  BY DEF UploadDies, Dies
<1>2. req'[p] = Idle /\ Moves(p, Idle) /\ UploadFits(req[p])'
  BY <1>1, EndsIdle
<1>3. UploadsTypeOK' /\ Kept
  BY <1>1, EndsIdle DEF UploadsTypeOK, Kept
<1>4. QED
  BY <1>1, <1>2, <1>3, QuietUpload DEF Idle, Ending, At, UploadsTypeOK

-----------------------------------------------------------------------------
(* The theorems *)

LEMMA UploadsStep == UploadsInv /\ [UploadsNext]_<<req, uploadVars>> => UploadsInv'
<1> SUFFICES ASSUME UploadsInv, [UploadsNext]_<<req, uploadVars>>
             PROVE  UploadsInv'
  OBVIOUS
<1>1. CASE UNCHANGED <<req, uploadVars>>
  BY <1>1 DEF uploadVars, UploadsInv, UploadsTypeOK, UploadsFit, UploadFits, Assembled, TasksFit, Uncontested, Pending,
              OpenUploadsAreSwept, StaleMultipart, At, CompletedWereAssembled
<1>2. ASSUME NEW p \in Procs, UploadSteps(p)
      PROVE  UploadsInv'
  BY <1>2, StartStep, CreateMultipartStep, InsertTaskStep, LoadTaskSteps, CompleteMultipartStep,
     AbortMultipartStep, RecordStep, FinishTaskStep, UploadDiesStep DEF UploadSteps
<1>3. QED
  BY <1>1, <1>2 DEF UploadsNext

LEMMA UploadsInvariance == UploadsSpec => []UploadsInv
<1>1. UploadsInit => UploadsInv
  <2> SUFFICES ASSUME UploadsInit
               PROVE  UploadsInv
    OBVIOUS
  <2>1. UploadsTypeOK
    BY DEF UploadsInit, UploadsTypeOK
  <2>2. \A p \in Procs : req[p] = Idle /\ UploadFits(req[p]) /\ req[p].pc \notin Ending
    BY DEF UploadsInit, Idle, UploadFits, Ending
  <2>3. (\A t \in TaskIds : tasks[t] = None) /\ \A u \in UploadIds : uploads[u] = None
    BY DEF UploadsInit
  <2>4. QED
    BY <2>1, <2>2, <2>3
    DEF UploadsInv, UploadsFit, TasksFit, Uncontested, OpenUploadsAreSwept, CompletedWereAssembled
<1>2. QED
  BY <1>1, UploadsStep, PTL DEF UploadsSpec

(* Tasks, uploads and requests have their types. *)
THEOREM UploadTypes == UploadsSpec => []UploadsTypeOK
BY UploadsInvariance, PTL DEF UploadsInv

(* Unless a storage call and its row came apart or a client named another   *)
(* upload than its task's, no upload stays open where the worker does not   *)
(* look.  (uploads/handler.go:240)                                          *)
THEOREM OpenUploadsAreSweptAlways == UploadsSpec => []OpenUploadsAreSwept
BY UploadsInvariance, PTL DEF UploadsInv

(* A multipart task is completed only after its upload.                     *)
(* (uploads/handler.go:272)                                                 *)
THEOREM CompletedWereAssembledAlways == UploadsSpec => []CompletedWereAssembled
BY UploadsInvariance, PTL DEF UploadsInv

(* A finished task changes only if two requests were about to finish it.    *)
(* (uploads/store.go:68)                                                    *)
THEOREM FinishedStaysAlways == UploadsSpec => FinishedStays
<1> DEFINE Stays == \A t \in TaskIds :
              tasks[t] # None /\ tasks[t].status # "pending" /\ tasks'[t] # tasks[t] => t \in contested
<1>1. UploadsInv /\ [UploadsNext]_<<req, uploadVars>> => [Stays]_<<req, uploadVars>>
  <2> SUFFICES ASSUME UploadsInv, UploadsNext, NEW t \in TaskIds, tasks[t] # None,
                      tasks[t].status # "pending", tasks'[t] # tasks[t]
               PROVE  t \in contested
    OBVIOUS
  <2>0. tasks \in [TaskIds -> Task \cup {None}]
    BY DEF UploadsInv, UploadsTypeOK
  <2>1. ASSUME NEW p \in Procs, InsertTask(p)
        PROVE  t \in contested
    BY <2>0, <2>1 DEF InsertTask
  <2>2. ASSUME NEW p \in Procs, FinishTask(p)
        PROVE  t \in contested
    <3>1. req[p].pc \in Ending /\ t = req[p].task
      BY <2>0, <2>2 DEF FinishTask, At, Ending
    <3>2. QED
      BY <3>1 DEF UploadsInv, Uncontested, Pending
  <2>3. QED
    BY <2>1, <2>2
    DEF UploadsNext, UploadSteps, PresignTask, MpInit, CreateMultipart, Complete, MpComplete, MpAbort, Loads,
        CompleteMultipart, AbortMultipart, RecordUpload, UploadDies, uploadVars
<1>2. QED
  BY <1>1, UploadsInvariance, PTL DEF UploadsSpec, FinishedStays

-----------------------------------------------------------------------------
(* Quota: sums *)

(* Finite sets have no infinite descent: what fails for one fails for a     *)
(* smallest one.                                                            *)
LEMMA SmallestSet ==
  ASSUME NEW S, IsFiniteSet(S), NEW F, F \subseteq SUBSET S, F # {}
  PROVE  \E X \in F : \A Y \in F : Y \subseteq X => Y = X
<1>1. IsWellFoundedOn(StrictSubsetOrdering(S), FiniteSubsetsOf(S))
  BY FS_StrictSubsetOrderingWellFounded
<1>2. F \subseteq FiniteSubsetsOf(S)
  BY FS_FiniteSubsetsOfFinite
<1>3. PICK X \in F : \A Y \in F : ~ (<<Y, X>> \in StrictSubsetOrdering(S))
  BY <1>1, <1>2, WFMin
<1>4. QED
  BY <1>3 DEF StrictSubsetOrdering

Chosen(s) == CHOOSE x \in s : TRUE

(* g takes each set of S to its sum: the recursion behind SumOver. *)
Summed(f, S, g) ==
  g = [s \in SUBSET S |-> IF s = {} THEN 0 ELSE f[Chosen(s)] + g[s \ {Chosen(s)}]]

LEMMA SumOverDef ==
  ASSUME NEW f, NEW S
  PROVE  SumOver(f, S) = (CHOOSE g : Summed(f, S, g))[S]
BY DEF SumOver, MapThenSumSet, MapThenFoldSet, Summed, Chosen

LEMMA SummedStep ==
  ASSUME NEW f, NEW S, NEW g, Summed(f, S, g), NEW s \in SUBSET S
  PROVE  g[s] = IF s = {} THEN 0 ELSE f[Chosen(s)] + g[s \ {Chosen(s)}]
BY DEF Summed

LEMMA SummedUnique ==
  ASSUME NEW f, NEW S, IsFiniteSet(S), NEW T \in SUBSET S, NEW g, NEW h, Summed(f, S, g), Summed(f, T, h)
  PROVE  g[T] = h[T]
<1> SUFFICES ASSUME \E s \in SUBSET T : g[s] # h[s]
             PROVE  FALSE
  OBVIOUS
<1> DEFINE F == {s \in SUBSET T : g[s] # h[s]}
<1>1. F \subseteq SUBSET S /\ F # {}
  OBVIOUS
<1> HIDE DEF F
<1>2. PICK X \in F : \A Y \in F : Y \subseteq X => Y = X
  BY <1>1, SmallestSet
<1> USE DEF F
<1>3. X # {}
  BY <1>2, SummedStep
<1>4. Chosen(X) \in X
  BY <1>3 DEF Chosen
<1>5. X \ {Chosen(X)} \in SUBSET T /\ X \ {Chosen(X)} \notin F
  BY <1>2, <1>4
<1>6. g[X \ {Chosen(X)}] = h[X \ {Chosen(X)}]
  BY <1>5
<1>7. QED
  BY <1>2, <1>3, <1>6, SummedStep

LEMMA SummedExists ==
  ASSUME NEW f, NEW S, IsFiniteSet(S)
  PROVE  \E g : Summed(f, S, g)
<1> SUFFICES ASSUME ~ \E g : Summed(f, S, g)
             PROVE  FALSE
  OBVIOUS
<1> DEFINE F == {s \in SUBSET S : ~ \E g : Summed(f, s, g)}
<1>1. F # {} /\ F \subseteq SUBSET S
  OBVIOUS
<1> HIDE DEF F
<1>2. PICK X \in F : \A Y \in F : Y \subseteq X => Y = X
  BY <1>1, SmallestSet
<1> USE DEF F
<1> DEFINE G(s) == CHOOSE g : Summed(f, s, g)
           h == [s \in SUBSET X |->
                   IF s = X THEN (IF s = {} THEN 0 ELSE f[Chosen(s)] + G(s \ {Chosen(s)})[s \ {Chosen(s)}])
                   ELSE G(s)[s]]
<1>3. \A s \in SUBSET X : s # X => Summed(f, s, G(s))
  BY <1>2
<1>4. \A s \in SUBSET X : s # {} => Chosen(s) \in s
  BY DEF Chosen
<1>5. ASSUME NEW s \in SUBSET X
      PROVE  h[s] = IF s = {} THEN 0 ELSE f[Chosen(s)] + h[s \ {Chosen(s)}]
  <2>1. CASE s = {}
    <3>1. s # X => G(s)[s] = 0
      BY <2>1, <1>3, SummedStep
    <3>2. QED
      BY <2>1, <3>1
  <2>2. CASE s # {}
    <3> DEFINE r == s \ {Chosen(s)}
    <3>1. r \in SUBSET X /\ r # X /\ r \in SUBSET s
      BY <2>2, <1>4
    <3>2. h[r] = G(r)[r]
      BY <3>1
    <3>3. CASE s = X
      BY <2>2, <3>2, <3>3
    <3>4. CASE s # X
      <4>1. Summed(f, s, G(s)) /\ Summed(f, r, G(r)) /\ IsFiniteSet(s)
        BY <1>3, <3>1, <3>4, <1>2, FS_Subset
      <4>2. G(s)[s] = f[Chosen(s)] + G(s)[r]
        BY <4>1, <2>2, SummedStep
      <4>3. G(s)[r] = G(r)[r]
        BY <4>1, <3>1, SummedUnique
      <4>4. QED
        BY <2>2, <3>2, <3>4, <4>2, <4>3
    <3>5. QED
      BY <3>3, <3>4
  <2>3. QED
    BY <2>1, <2>2
<1>6. Summed(f, X, h)
  <2>1. h = [s \in SUBSET X |-> h[s]]
    OBVIOUS
  <2> HIDE DEF h
  <2>2. QED
    BY <1>5, <2>1 DEF Summed
<1>7. QED
  BY <1>2, <1>6

(* What a sum is: any element, and the sum of the others. *)
LEMMA SumOverChosen ==
  ASSUME NEW f, NEW S, IsFiniteSet(S)
  PROVE  SumOver(f, S) = IF S = {} THEN 0 ELSE f[Chosen(S)] + SumOver(f, S \ {Chosen(S)})
<1> DEFINE g == CHOOSE g : Summed(f, S, g)
           c == Chosen(S)
           h == CHOOSE h : Summed(f, S \ {c}, h)
<1>1. Summed(f, S, g) /\ SumOver(f, S) = g[S]
  BY SummedExists, SumOverDef
<1>2. Summed(f, S \ {c}, h) /\ SumOver(f, S \ {c}) = h[S \ {c}]
  BY SummedExists, SumOverDef, FS_RemoveElement
<1>3. g[S] = IF S = {} THEN 0 ELSE f[c] + g[S \ {c}]
  BY <1>1, SummedStep
<1>4. g[S \ {c}] = h[S \ {c}]
  BY <1>1, <1>2, SummedUnique
<1>5. QED
  BY <1>1, <1>2, <1>3, <1>4

(* Sums of naturals, in any order. *)
LEMMA SumOverElement ==
  ASSUME NEW f, NEW S, IsFiniteSet(S), \A x \in S : f[x] \in Nat
  PROVE  /\ SumOver(f, S) \in Nat
         /\ \A x \in S : SumOver(f, S) = f[x] + SumOver(f, S \ {x})
<1> DEFINE Good(s) == /\ SumOver(f, s) \in Nat
                      /\ \A x \in s : SumOver(f, s) = f[x] + SumOver(f, s \ {x})
           F == {s \in SUBSET S : ~ Good(s)}
<1> SUFFICES ASSUME F # {}
             PROVE  FALSE
  OBVIOUS
<1>1. F \subseteq SUBSET S
  OBVIOUS
<1> HIDE DEF F
<1>2. PICK X \in F : \A Y \in F : Y \subseteq X => Y = X
  BY <1>1, SmallestSet
<1> USE DEF F
<1> HIDE DEF Good
<1>3. \A s \in SUBSET X : s # X => Good(s)
  BY <1>2
<1> USE DEF Good
<1>4. IsFiniteSet(X) /\ X \subseteq S
  BY <1>2, FS_Subset
<1>5. CASE X = {}
  <2>1. SumOver(f, X) = 0
    BY <1>4, <1>5, SumOverChosen
  <2>2. Good(X)
    BY <1>5, <2>1
  <2>3. QED
    BY <1>2, <2>2
<1>6. CASE X # {}
  <2> DEFINE c == Chosen(X)
             R == X \ {c}
  <2>1. c \in X /\ f[c] \in Nat
    BY <1>4, <1>6 DEF Chosen
  <2>2. SumOver(f, X) = f[c] + SumOver(f, R)
    BY <1>4, <1>6, SumOverChosen
  <2>3. SumOver(f, R) \in Nat /\ \A x \in R : SumOver(f, R) = f[x] + SumOver(f, R \ {x})
    BY <1>3, <2>1
  <2>4. ASSUME NEW x \in X, x # c
        PROVE  SumOver(f, X) = f[x] + SumOver(f, X \ {x})
    <3> DEFINE Q == X \ {x}
    <3>1. SumOver(f, Q) \in Nat /\ SumOver(f, Q) = f[c] + SumOver(f, Q \ {c})
      BY <1>3, <2>1, <2>4
    <3>2. SumOver(f, R) = f[x] + SumOver(f, R \ {x})
      BY <2>3, <2>4
    <3>3. R \ {x} = Q \ {c}
      OBVIOUS
    <3>4. SumOver(f, Q \ {c}) \in Nat /\ f[x] \in Nat
      BY <1>3, <1>4, <2>1, <2>4
    <3>5. SumOver(f, Q) = f[c] + SumOver(f, Q \ {c}) /\ SumOver(f, R \ {x}) = SumOver(f, Q \ {c})
      BY <3>1, <3>3
    <3> HIDE DEF R, c, F
    <3>6. SumOver(f, X) = f[x] + SumOver(f, Q)
      <4> HIDE DEF Q
      <4>1. QED
        BY <2>1, <2>2, <3>2, <3>4, <3>5
    <3>7. QED
      BY <3>6
  <2>5. SumOver(f, X) \in Nat
    <3> HIDE DEF R, c
    <3>1. QED
      BY <2>1, <2>2, <2>3
  <2>6. \A x \in X : SumOver(f, X) = f[x] + SumOver(f, X \ {x})
    BY <2>2, <2>4
  <2>7. Good(X)
    BY <2>5, <2>6
  <2>8. QED
    BY <1>2, <2>7
<1>7. QED
  BY <1>5, <1>6

(* A sum grows with what is summed, and its terms. *)
LEMMA SumOverGrows ==
  ASSUME NEW f, NEW g, NEW S, IsFiniteSet(S), NEW T \in SUBSET S,
         \A x \in S : f[x] \in Nat, \A x \in T : g[x] \in Nat /\ g[x] <= f[x]
  PROVE  SumOver(g, T) <= SumOver(f, S)
<1> DEFINE F == {s \in SUBSET S : ~ (SumOver(g, s \cap T) <= SumOver(f, s))}
<1> SUFFICES ASSUME F # {}
             PROVE  FALSE
  <2>1. S \cap T = T
    OBVIOUS
  <2>2. QED
    BY <2>1
<1>1. F \subseteq SUBSET S
  OBVIOUS
<1> HIDE DEF F
<1>2. PICK X \in F : \A Y \in F : Y \subseteq X => Y = X
  BY <1>1, SmallestSet
<1> USE DEF F
<1>3. IsFiniteSet(X) /\ IsFiniteSet(X \cap T) /\ X \subseteq S
  BY <1>2, FS_Subset
<1>0. ~ (SumOver(g, X \cap T) <= SumOver(f, X))
  BY <1>2
<1>4. X # {}
  <2> SUFFICES ASSUME X = {}
               PROVE  FALSE
    OBVIOUS
  <2>1. X \cap T = {} /\ IsFiniteSet({})
    BY FS_EmptySet
  <2>2. SumOver(g, {}) = 0 /\ SumOver(f, {}) = 0
    BY <2>1, SumOverChosen
  <2>3. QED
    BY <1>2, <2>1, <2>2
<1>5. PICK x \in X : TRUE
  BY <1>4
<1> DEFINE R == X \ {x}
<1>6. SumOver(g, R \cap T) <= SumOver(f, R)
  BY <1>2, <1>5
<1>7. SumOver(f, X) = f[x] + SumOver(f, R) /\ SumOver(f, R) \in Nat /\ f[x] \in Nat
  <2>1. IsFiniteSet(R)
    BY <1>3, FS_Subset
  <2>2. QED
    BY <1>3, <2>1, SumOverElement
<1>8. SumOver(g, X \cap T) \in Nat /\ SumOver(g, R \cap T) \in Nat
  <2>1. IsFiniteSet(R \cap T)
    BY <1>3, FS_Subset
  <2>2. QED
    BY <1>3, <2>1, SumOverElement
<1>9. CASE x \in T
  <2>1. (X \cap T) \ {x} = R \cap T /\ x \in X \cap T
    BY <1>9
  <2>2. SumOver(g, X \cap T) = g[x] + SumOver(g, R \cap T)
    BY <1>3, <2>1, SumOverElement
  <2>3. g[x] \in Nat /\ g[x] <= f[x]
    BY <1>9
  <2> HIDE DEF R, F
  <2>4. QED
    BY <1>0, <1>6, <1>7, <1>8, <2>2, <2>3
<1>10. CASE x \notin T
  <2>1. X \cap T = R \cap T
    BY <1>10
  <2> HIDE DEF R, F
  <2>2. QED
    BY <1>0, <1>6, <1>7, <1>8, <2>1
<1>11. QED
  BY <1>9, <1>10

LEMMA SumOverSame ==
  ASSUME NEW f, NEW g, NEW S, IsFiniteSet(S), \A x \in S : f[x] \in Nat /\ g[x] = f[x]
  PROVE  SumOver(g, S) = SumOver(f, S)
<1>1. SumOver(g, S) <= SumOver(f, S) /\ SumOver(f, S) <= SumOver(g, S)
  BY SumOverGrows
<1>2. SumOver(g, S) \in Nat /\ SumOver(f, S) \in Nat
  BY SumOverElement
<1>3. QED
  BY <1>1, <1>2

LEMMA SumOverBound ==
  ASSUME NEW f, NEW S, IsFiniteSet(S), NEW M \in Nat, \A x \in S : f[x] \in 0 .. M
  PROVE  SumOver(f, S) <= M * Cardinality(S)
<1> DEFINE F == {s \in SUBSET S : ~ (SumOver(f, s) <= M * Cardinality(s))}
<1> SUFFICES ASSUME F # {}
             PROVE  FALSE
  OBVIOUS
<1>1. F \subseteq SUBSET S
  OBVIOUS
<1> HIDE DEF F
<1>2. PICK X \in F : \A Y \in F : Y \subseteq X => Y = X
  BY <1>1, SmallestSet
<1> USE DEF F
<1>3. IsFiniteSet(X) /\ X \subseteq S
  BY <1>2, FS_Subset
<1>0. ~ (SumOver(f, X) <= M * Cardinality(X))
  BY <1>2
<1>4. X # {}
  <2> SUFFICES ASSUME X = {}
               PROVE  FALSE
    OBVIOUS
  <2>1. Cardinality(X) = 0 /\ SumOver(f, X) = 0
    BY <1>3, FS_EmptySet, SumOverChosen
  <2> HIDE DEF F
  <2>2. M * 0 = 0
    OBVIOUS
  <2>3. QED
    BY <1>0, <2>1, <2>2
<1>5. PICK x \in X : TRUE
  BY <1>4
<1> DEFINE R == X \ {x}
           n == Cardinality(R)
<1>6. IsFiniteSet(R) /\ n \in Nat /\ Cardinality(X) = n + 1
  <2>1. IsFiniteSet(R) /\ n = Cardinality(X) - 1
    BY <1>3, <1>5, FS_RemoveElement
  <2>2. n \in Nat /\ Cardinality(X) \in Nat
    BY <1>3, <2>1, FS_CardinalityType
  <2>3. QED
    BY <2>1, <2>2
<1>7. SumOver(f, R) <= M * n
  BY <1>2, <1>5
<1>8. SumOver(f, X) = f[x] + SumOver(f, R) /\ SumOver(f, R) \in Nat /\ f[x] \in 0 .. M
  BY <1>3, <1>6, SumOverElement
<1> HIDE DEF n, R
<1>9. M * (n + 1) = M * n + M
  BY <1>6
<1>10. M * n \in Nat
  BY <1>6
<1> HIDE DEF F
<1>11. QED
  BY <1>0, <1>6, <1>7, <1>8, <1>9, <1>10

-----------------------------------------------------------------------------
(* Usage and the day's bytes *)

QuotaRow == [Keys -> Sizes \cup {None}]

LEMMA UsageTypes ==
  ASSUME NEW rows \in QuotaRow, NEW B
  PROVE  /\ IsFiniteSet(Recorded(rows, B)) /\ \A k \in Recorded(rows, B) : rows[k] \in 0 .. MaxObject
         /\ UsedBytes(rows, B) \in Nat /\ UsedBytes(rows, B) + MaxObject <= MaxInt
         /\ ObjectCount(rows, B) \in Nat
         /\ ObjectCount(rows, B) <= Cardinality(Keys)
<1> DEFINE R == Recorded(rows, B)
<1>1. /\ R \subseteq Keys /\ IsFiniteSet(Keys) /\ MaxObject \in Nat /\ MaxInt \in Nat
      /\ MaxObject * (Cardinality(Keys) + 1) <= MaxInt
  BY QuotaAssumption DEF Recorded
<1>2. IsFiniteSet(R) /\ Cardinality(R) <= Cardinality(Keys)
  BY <1>1, FS_Subset
<1>3. Cardinality(R) \in Nat /\ Cardinality(Keys) \in Nat
  BY <1>1, <1>2, FS_CardinalityType
<1>4. \A k \in R : rows[k] \in 0 .. MaxObject
  BY DEF Recorded, QuotaRow, Sizes
<1>5. SumOver(rows, R) \in Nat
  BY <1>2, <1>4, SumOverElement
<1>6. SumOver(rows, R) <= MaxObject * Cardinality(R)
  BY <1>1, <1>2, <1>4, SumOverBound
<1> HIDE DEF R
<1>7. MaxObject * Cardinality(R) <= MaxObject * Cardinality(Keys)
  <2>1. \A m, i, j \in Nat : i <= j => m * i <= m * j
    OBVIOUS
  <2>2. QED
    BY <2>1, <1>1, <1>2, <1>3
<1>8. MaxObject * (Cardinality(Keys) + 1) = MaxObject * Cardinality(Keys) + MaxObject
  BY <1>1, <1>3
<1>9. MaxObject * Cardinality(Keys) \in Nat /\ MaxObject * Cardinality(R) \in Nat
  BY <1>1, <1>3
<1>10. SumOver(rows, R) + MaxObject <= MaxInt
  BY <1>1, <1>5, <1>6, <1>7, <1>8, <1>9
<1>11. QED
  BY <1>2, <1>3, <1>4, <1>5, <1>10 DEF R, UsedBytes, ObjectCount

(* Rows that shrink take up less. *)
LEMMA UsageShrinks ==
  ASSUME NEW rows \in QuotaRow, NEW less \in QuotaRow, \A k \in Keys : less[k] \in {rows[k], None},
         NEW B
  PROVE  /\ UsedBytes(less, B) <= UsedBytes(rows, B)
         /\ ObjectCount(less, B) <= ObjectCount(rows, B)
<1>1. Recorded(less, B) \subseteq Recorded(rows, B)
  BY DEF Recorded
<1>2. \A k \in Recorded(less, B) : less[k] = rows[k]
  BY DEF Recorded
<1>3. IsFiniteSet(Recorded(rows, B)) /\ \A k \in Recorded(rows, B) : rows[k] \in Nat
  BY UsageTypes
<1>4. \A k \in Recorded(less, B) : less[k] \in Nat /\ less[k] <= rows[k]
  BY <1>1, <1>2, <1>3
<1>5. UsedBytes(less, B) <= UsedBytes(rows, B)
  BY <1>1, <1>3, <1>4, SumOverGrows DEF UsedBytes
<1>6. QED
  BY <1>1, <1>3, <1>5, FS_Subset DEF ObjectCount

(* A row that is written adds at most its size, and one row. *)
LEMMA UsageGrows ==
  ASSUME NEW rows \in QuotaRow, NEW k \in Keys, NEW size \in Sizes, NEW more \in QuotaRow,
         more[k] = size, \A j \in Keys : j # k => more[j] = rows[j], NEW B
  PROVE  /\ UsedBytes(more, B) <= UsedBytes(rows, B) + size
         /\ ObjectCount(more, B) <= ObjectCount(rows, B) + (IF rows[k] = None THEN 1 ELSE 0)
<1> DEFINE R == Recorded(rows, B)
           Q == Recorded(more, B)
<1>0. None \notin Int /\ MaxObject \in Nat
  BY QuotaAssumption
<1>1. /\ IsFiniteSet(R) /\ \A j \in R : rows[j] \in Nat
      /\ IsFiniteSet(Q) /\ \A j \in Q : more[j] \in Nat
      /\ SumOver(rows, R) \in Nat /\ SumOver(more, Q) \in Nat
  <2>1. \A x \in QuotaRow :
          /\ IsFiniteSet(Recorded(x, B)) /\ \A j \in Recorded(x, B) : x[j] \in 0 .. MaxObject
          /\ UsedBytes(x, B) \in Nat
    BY UsageTypes
  <2>2. QED
    BY <1>0, <2>1 DEF UsedBytes
<1>2. \A j \in Keys : j # k => more[j] = rows[j]
  OBVIOUS
<1>3. more[k] = size /\ size # None /\ size \in Nat
  BY <1>0 DEF QuotaRow, Sizes
<1>4. CASE k \in Q
  <2>1. SumOver(more, Q) = size + SumOver(more, Q \ {k})
    <3> HIDE DEF Q
    <3>1. \A j \in Q : SumOver(more, Q) = more[j] + SumOver(more, Q \ {j})
      BY <1>1, SumOverElement
    <3>2. QED
      BY <1>3, <1>4, <3>1
  <2>2. Q \ {k} \subseteq R /\ \A j \in Q \ {k} : more[j] \in Nat /\ more[j] <= rows[j]
    BY <1>1, <1>2 DEF Recorded
  <2>3. SumOver(more, Q \ {k}) <= SumOver(rows, R)
    BY <1>1, <2>2, SumOverGrows
  <2>4. SumOver(more, Q \ {k}) \in Nat
    <3>1. IsFiniteSet(Q \ {k})
      BY <1>1, FS_RemoveElement
    <3>2. QED
      BY <1>1, <3>1, SumOverElement
  <2>5. Q = R \cup {k} /\ (k \in R <=> rows[k] # None)
    BY <1>2, <1>3, <1>4 DEF Recorded
  <2>6. Cardinality(R) \in Nat /\ Cardinality(Q) = IF rows[k] = None THEN Cardinality(R) + 1 ELSE Cardinality(R)
    BY <2>5, <1>1, FS_AddElement, FS_CardinalityType
  <2> HIDE DEF R, Q
  <2>7. QED
    BY <1>1, <1>3, <2>1, <2>3, <2>4, <2>6 DEF R, Q, UsedBytes, ObjectCount
<1>5. CASE k \notin Q
  <2>1. Q = R
    BY <1>2, <1>3, <1>5 DEF Recorded
  <2>2. \A j \in R : more[j] = rows[j]
    BY <1>2, <1>5, <2>1 DEF Recorded
  <2>3. SumOver(more, R) = SumOver(rows, R)
    BY <1>1, <2>2, SumOverSame
  <2>4. Cardinality(R) \in Nat
    BY <1>1, FS_CardinalityType
  <2> HIDE DEF R, Q
  <2>5. QED
    BY <1>1, <1>3, <2>1, <2>3, <2>4 DEF R, Q, UsedBytes, ObjectCount
<1>6. QED
  BY <1>4, <1>5

(* The same of a day's bytes. *)
LEMMA DailyTypes ==
  ASSUME NEW sizes, NEW done \in SUBSET Admissions, \A t \in done : sizes[t] \in Sizes
  PROVE  SumOver(sizes, done) \in Nat /\ SumOver(sizes, done) + MaxObject <= MaxInt
<1>1. /\ IsFiniteSet(Admissions) /\ MaxObject \in Nat /\ MaxInt \in Nat
      /\ MaxObject * (Cardinality(Admissions) + 1) <= MaxInt
  BY QuotaAssumption
<1>2. IsFiniteSet(done) /\ Cardinality(done) <= Cardinality(Admissions)
  BY <1>1, FS_Subset
<1>3. Cardinality(done) \in Nat /\ Cardinality(Admissions) \in Nat
  BY <1>1, <1>2, FS_CardinalityType
<1>4. \A t \in done : sizes[t] \in 0 .. MaxObject /\ sizes[t] \in Nat
  BY <1>1 DEF Sizes
<1>5. SumOver(sizes, done) \in Nat
  BY <1>2, <1>4, SumOverElement
<1>6. SumOver(sizes, done) <= MaxObject * Cardinality(done)
  BY <1>1, <1>2, <1>4, SumOverBound
<1>7. MaxObject * Cardinality(done) <= MaxObject * Cardinality(Admissions)
  <2>1. \A m, i, j \in Nat : i <= j => m * i <= m * j
    OBVIOUS
  <2>2. QED
    BY <2>1, <1>1, <1>2, <1>3
<1>8. MaxObject * (Cardinality(Admissions) + 1) = MaxObject * Cardinality(Admissions) + MaxObject
  BY <1>1, <1>3
<1>9. MaxObject * Cardinality(Admissions) \in Nat /\ MaxObject * Cardinality(done) \in Nat
  BY <1>1, <1>3
<1>10. QED
  BY <1>1, <1>5, <1>6, <1>7, <1>8, <1>9

-----------------------------------------------------------------------------
(* The inductive invariant *)

(* The room that an upload of this size needs to be completed. *)
Room(k, size) ==
  size \in Sizes =>
    /\ Within(limits.bytes, UsedBytes(records, Buckets) + size)
    /\ Within(limits.bucketBytes, UsedBytes(records, {k[1]}) + size)
    /\ records[k] = None =>
         /\ Within(limits.count, ObjectCount(records, Buckets) + 1)
         /\ Within(limits.bucketCount, ObjectCount(records, {k[1]}) + 1)

DailyRoom(size, done) == size \in Sizes => Within(limits.daily, DailyBytes(done) + size)

(* What a request that asks for room, or counts a task, has read is still so *)
(* unless it is stale.                                                       *)
AdmissionFits(p) ==
  /\ req[p].pc \in {"head", "upsert", "count"} => admitted[req[p].task] # None
  /\ req[p].pc \in {"upsert", "count"} => req[p].size = admitted[req[p].task].size
  /\ p \notin stale =>
       /\ At(p, "usage") => req[p].new = (records[req[p].key] = None)
       /\ req[p].pc \in {"daily", "admit"} => Room(req[p].key, req[p].size)
       /\ At(p, "admit") => DailyRoom(req[p].size, today)

(* There is room for a task that was admitted, or it is recorded, unless it  *)
(* is stale; and what is counted was found as declared.                      *)
AdmittedFits(t) ==
  admitted[t] # None =>
    /\ t \in today => admitted[t].size \in Sizes
    /\ t \notin stale =>
         /\ Room(admitted[t].key, admitted[t].size)
              \/ records[admitted[t].key] = admitted[t].size
         /\ DailyRoom(admitted[t].size, today \ {t})

QuotaInv ==
  /\ QuotaTypeOK
  /\ \A t \in today : admitted[t] # None
  /\ \A p \in Procs : AdmissionFits(p)
  /\ \A t \in Admissions : AdmittedFits(t)

-----------------------------------------------------------------------------
(* Steps that take no room *)

(* The rows have shrunk at most, and k has its row if it had it. *)
Shrunk(k) == records'[k] = records[k] /\ \A j \in Keys : records'[j] \in {records[j], None}

TasksStay ==
  \A t \in Admissions :
    admitted[t] # None =>
      /\ admitted'[t] # None
      /\ admitted'[t].key = admitted[t].key /\ admitted'[t].size = admitted[t].size

LEMMA DeclaredInt == \A x \in Declared : x \in Int
BY QuotaAssumption

LEMMA LimitTypes ==
  ASSUME QuotaTypeOK
  PROVE  \A l \in {limits.upload, limits.bytes, limits.count, limits.daily, limits.bucketBytes,
                   limits.bucketCount} : l # None => l \in Nat
<1>1. limits \in Limits
  BY QuotaAssumption DEF QuotaTypeOK
<1>2. QED
  BY <1>1 DEF Limits, Limit

LEMMA RoomStays ==
  ASSUME QuotaTypeOK, QuotaTypeOK', limits' = limits, NEW k \in Keys, Shrunk(k),
         NEW size, Room(k, size)
  PROVE  Room(k, size)'
<1> SUFFICES ASSUME size \in Sizes
             PROVE  Room(k, size)'
  BY DEF Room
<1>1. records \in QuotaRow /\ records' \in QuotaRow
  BY DEF QuotaTypeOK, QuotaRow
<1>2. \A B : /\ UsedBytes(records', B) <= UsedBytes(records, B)
             /\ ObjectCount(records', B) <= ObjectCount(records, B)
             /\ UsedBytes(records', B) \in Nat /\ UsedBytes(records, B) \in Nat
             /\ ObjectCount(records', B) \in Nat /\ ObjectCount(records, B) \in Nat
  BY <1>1, UsageShrinks, UsageTypes DEF Shrunk
<1>3. size \in Nat
  BY QuotaAssumption DEF Sizes
<1>4. \A l, a, b : (l # None => l \in Nat) /\ a \in Nat /\ b \in Nat /\ a <= b /\ Within(l, b) => Within(l, a)
  BY DEF Within
<1>5. ASSUME NEW l \in {limits.bytes, limits.bucketBytes}, NEW B, Within(l, UsedBytes(records, B) + size)
      PROVE  Within(l, UsedBytes(records', B) + size)
  <2>1. /\ UsedBytes(records', B) + size \in Nat /\ UsedBytes(records, B) + size \in Nat
        /\ UsedBytes(records', B) + size <= UsedBytes(records, B) + size
    BY <1>2, <1>3
  <2>2. l # None => l \in Nat
    BY LimitTypes
  <2>3. QED
    BY <1>4, <1>5, <2>1, <2>2
<1>6. ASSUME NEW l \in {limits.count, limits.bucketCount}, NEW B, Within(l, ObjectCount(records, B) + 1)
      PROVE  Within(l, ObjectCount(records', B) + 1)
  <2>1. /\ ObjectCount(records', B) + 1 \in Nat /\ ObjectCount(records, B) + 1 \in Nat
        /\ ObjectCount(records', B) + 1 <= ObjectCount(records, B) + 1
    BY <1>2
  <2>2. l # None => l \in Nat
    BY LimitTypes
  <2>3. QED
    BY <1>4, <1>6, <2>1, <2>2
<1>7. QED
  BY <1>5, <1>6 DEF Room, Shrunk

LEMMA DailyStays ==
  ASSUME QuotaInv, limits' = limits, TasksStay, NEW done \in SUBSET today, NEW less \in SUBSET done,
         NEW size, DailyRoom(size, done)
  PROVE  DailyRoom(size, less)'
<1> SUFFICES ASSUME size \in Sizes
             PROVE  Within(limits.daily, DailyBytes(less)' + size)
  BY DEF DailyRoom
<1> DEFINE old == [t \in done |-> admitted[t].size]
           new == [t \in less |-> admitted'[t].size]
<1>1. done \subseteq Admissions /\ less \subseteq Admissions
  BY DEF QuotaInv, QuotaTypeOK
<1>2. \A t \in done : old[t] \in Sizes
  BY <1>1 DEF QuotaInv, AdmittedFits
<1>3. \A t \in less : new[t] = old[t]
  BY <1>1 DEF TasksStay, QuotaInv
<1> HIDE DEF old, new
<1>4. \A t \in less : new[t] \in Sizes
  BY <1>2, <1>3
<1>5. IsFiniteSet(done) /\ \A s \in Sizes : s \in Nat
  BY <1>1, FS_Subset, QuotaAssumption DEF Sizes
<1>6. SumOver(new, less) <= SumOver(old, done)
  <2>1. \A t \in done : old[t] \in Nat
    BY <1>2, <1>5
  <2>2. \A t \in less : new[t] \in Nat /\ new[t] <= old[t]
    BY <1>3, <1>4, <1>5
  <2>3. QED
    BY <1>5, <2>1, <2>2, SumOverGrows
<1>7. SumOver(new, less) \in Nat /\ SumOver(old, done) \in Nat
  BY <1>1, <1>2, <1>4, DailyTypes
<1>8. limits.daily # None => limits.daily \in Nat
  BY LimitTypes DEF QuotaInv
<1>9. DailyBytes(done) = SumOver(old, done) /\ DailyBytes(less)' = SumOver(new, less)
  BY DEF DailyBytes, old, new
<1>10. Within(limits.daily, SumOver(old, done) + size)
  BY <1>9 DEF DailyRoom
<1>11. size \in Nat
  BY <1>5
<1>12. QED
  BY <1>6, <1>7, <1>8, <1>9, <1>10, <1>11 DEF Within

(* What a request that does not move knows. *)
LEMMA OthersFit ==
  ASSUME QuotaInv, QuotaTypeOK', limits' = limits, TasksStay, NEW q \in Procs, req'[q] = req[q],
         q \notin stale' /\ req[q].pc \in Reading =>
           q \notin stale /\ Shrunk(req[q].key) /\ today' \subseteq today
  PROVE  AdmissionFits(q)'
<1>1. AdmissionFits(q) /\ req[q] \in {Idle} \cup Admission \cup Counting
  BY DEF QuotaInv, QuotaTypeOK
<1>2. /\ req[q].pc \in {"head", "upsert", "count"} => admitted'[req[q].task] # None
      /\ req[q].pc \in {"upsert", "count"} => req[q].size = admitted'[req[q].task].size
  <2>1. req[q].pc \in {"head", "upsert", "count"} => req[q].task \in Admissions
    BY <1>1 DEF Idle, Admission, Counting
  <2>2. QED
    BY <1>1, <2>1 DEF AdmissionFits, TasksStay
<1>3. ASSUME q \notin stale', req[q].pc \in Reading
      PROVE  /\ req[q].pc = "usage" => req[q].new = (records'[req[q].key] = None)
             /\ req[q].pc \in {"daily", "admit"} => Room(req[q].key, req[q].size)'
             /\ req[q].pc = "admit" => DailyRoom(req[q].size, today)'
  <2>1. q \notin stale /\ Shrunk(req[q].key) /\ today' \subseteq today
    BY <1>3
  <2>2. req[q].key \in Keys
    BY <1>1, <1>3 DEF Reading, Idle, Admission, Counting
  <2>3. req[q].pc \in {"daily", "admit"} => Room(req[q].key, req[q].size)'
    <3> DEFINE k == req[q].key
               size == req[q].size
    <3> SUFFICES ASSUME req[q].pc \in {"daily", "admit"}
                 PROVE  Room(k, size)'
      OBVIOUS
    <3>1. Room(k, size)
      BY <1>1, <2>1 DEF AdmissionFits
    <3>2. k' = k /\ size' = size /\ k \in Keys /\ Shrunk(k) /\ QuotaTypeOK
      BY <2>1, <2>2 DEF QuotaInv
    <3> HIDE DEF k, size
    <3>3. \A j \in Keys : \A s : Shrunk(j) /\ Room(j, s) => Room(j, s)'
      BY RoomStays DEF QuotaInv
    <3>4. QED
      BY <3>1, <3>2, <3>3
  <2>4. req[q].pc = "admit" => DailyRoom(req[q].size, today)'
    <3> SUFFICES ASSUME req[q].pc = "admit"
                 PROVE  DailyRoom(req[q].size, today)'
      OBVIOUS
    <3>1. DailyRoom(req[q].size, today)
      BY <1>1, <2>1 DEF AdmissionFits, At
    <3>2. \A s : DailyRoom(s, today) => \A less \in SUBSET today : DailyRoom(s, less)'
      BY DailyStays
    <3>3. \A s : DailyRoom(s, today) => DailyRoom(s, today)'
      <4>1. \A s, less : DailyRoom(s, less)' <=> (s \in Sizes => Within(limits'.daily, DailyBytes(less)' + s))
        BY DEF DailyRoom
      <4>2. QED
        BY <2>1, <3>2, <4>1 DEF DailyRoom
    <3>4. QED
      BY <3>1, <3>3
  <2>5. req[q].pc = "usage" => req[q].new = (records'[req[q].key] = None)
    BY <1>1, <2>1 DEF AdmissionFits, At, Shrunk
  <2>6. QED
    BY <2>3, <2>4, <2>5
<1>4. QED
  BY <1>2, <1>3 DEF AdmissionFits, At, Reading

(* What is true of a task that was there. *)
LEMMA AdmittedStays ==
  ASSUME QuotaInv, QuotaTypeOK', limits' = limits, TasksStay, NEW t \in Admissions, admitted[t] # None,
         t \in today' => t \in today \/ admitted[t].size \in Sizes,
         t \notin stale' =>
           /\ t \notin stale /\ today' \ {t} \subseteq today \ {t}
           /\ Shrunk(admitted[t].key) \/ records'[admitted[t].key] = admitted[t].size
  PROVE  AdmittedFits(t)'
<1> DEFINE k == admitted[t].key
           size == admitted[t].size
<1>1. AdmittedFits(t) /\ k \in Keys
  BY DEF QuotaInv, QuotaTypeOK, AdmittedTask
<1>2. admitted'[t].key = k /\ admitted'[t].size = size
  BY DEF TasksStay
<1>3. t \in today' => size \in Sizes
  BY <1>1 DEF AdmittedFits
<1>4. ASSUME t \notin stale'
      PROVE  (Room(admitted[t].key, admitted[t].size)' \/ records'[k] = size)
  <2>1. CASE records'[k] = size
    BY <2>1
  <2>2. CASE records'[k] # size
    <3>1. Shrunk(k) /\ Room(k, size)
      BY <1>1, <1>4, <2>2 DEF AdmittedFits, Shrunk
    <3>2. \A j \in Keys : \A s : Shrunk(j) /\ Room(j, s) => Room(j, s)'
      BY RoomStays DEF QuotaInv
    <3>3. QED
      BY <1>1, <1>2, <3>1, <3>2
  <2>3. QED
    BY <2>1, <2>2
<1>5. ASSUME t \notin stale'
      PROVE  DailyRoom(admitted[t].size, today \ {t})'
  <2>1. DailyRoom(size, today \ {t}) /\ today' \ {t} \subseteq today \ {t}
    BY <1>1, <1>5 DEF AdmittedFits
  <2>2. \A s : \A done \in SUBSET today : DailyRoom(s, done) => \A less \in SUBSET done : DailyRoom(s, less)'
    BY DailyStays
  <2>3. \A less \in SUBSET (today \ {t}) : DailyRoom(size, less)'
    BY <1>2, <2>1, <2>2
  <2>4. QED
    BY <1>2, <2>1, <2>3
<1>6. QED
  BY <1>2, <1>3, <1>4, <1>5 DEF AdmittedFits

-----------------------------------------------------------------------------
(* Admission *)

QuotaRequest == {Idle} \cup Admission \cup Counting

(* Steps that write no row. *)
LEMMA AskStep ==
  ASSUME QuotaInv, NEW p \in Procs, NEW r \in QuotaRequest, Moves(p, r),
         UNCHANGED <<limits, records, admitted, today>>, stale' \in {stale, stale \ {p}},
         AdmissionFits(p)'
  PROVE  QuotaInv'
<1>1. /\ req' \in [Procs -> QuotaRequest] /\ \A q \in Procs : q # p => req'[q] = req[q]
  BY DEF QuotaInv, QuotaTypeOK, QuotaRequest, Moves
<1>2. QuotaTypeOK'
  BY <1>1 DEF QuotaInv, QuotaTypeOK, QuotaRequest
<1>3. TasksStay /\ \A k \in Keys : Shrunk(k)
  BY DEF TasksStay, Shrunk
<1>4. ASSUME NEW q \in Procs, q # p
      PROVE  AdmissionFits(q)'
  <2>1. q \notin stale' => q \notin stale
    BY <1>4
  <2>2. req[q].pc \in Reading => req[q].key \in Keys
    BY DEF QuotaInv, QuotaTypeOK, Reading, Idle, Admission, Counting
  <2>3. QED
    BY <1>1, <1>2, <1>3, <1>4, <2>1, <2>2, OthersFit
<1>5. ASSUME NEW t \in Admissions
      PROVE  AdmittedFits(t)'
  <2>1. t \notin stale' => t \notin stale
    BY <1>5, QuotaAssumption
  <2>2. admitted[t] # None => admitted[t].key \in Keys
    BY DEF QuotaInv, QuotaTypeOK, AdmittedTask
  <2>3. CASE admitted[t] = None
    BY <2>3 DEF AdmittedFits
  <2>4. CASE admitted[t] # None
    BY <1>2, <1>3, <2>1, <2>2, <2>4, AdmittedStays
  <2>5. QED
    BY <2>3, <2>4
<1>6. QED
  BY <1>2, <1>4, <1>5 DEF QuotaInv

LEMMA IdleUpload ==
  ASSUME QuotaInv, NEW p \in Procs, Ends(p), UNCHANGED <<limits, records, admitted, today>>,
         stale' \in {stale, stale \ {p}}
  PROVE  QuotaInv'
<1>1. Idle \in QuotaRequest /\ Moves(p, Idle)
  BY DEF QuotaRequest, Ends
<1>2. req'[p] = Idle
  BY DEF QuotaInv, QuotaTypeOK, Ends, Moves
<1>3. AdmissionFits(p)'
  BY <1>2 DEF AdmissionFits, Idle, At
<1>4. QED
  BY <1>1, <1>3, AskStep

(* What the limits admit has room: the sums of what is stored do not wrap,   *)
(* and a size that makes them wrap is of no object.                          *)
LEMMA RoomFound ==
  ASSUME QuotaTypeOK, NEW k \in Keys, NEW size \in Declared, ~ OverUsage(k[1], size, records[k] = None)
  PROVE  Room(k, size)
<1> SUFFICES ASSUME size \in Sizes
             PROVE  Room(k, size)
  BY DEF Room
<1>1. records \in QuotaRow
  BY DEF QuotaTypeOK, QuotaRow
<1>2. MaxObject \in Nat /\ MaxInt \in Nat /\ size \in 1 .. MaxObject
  BY QuotaAssumption DEF Sizes
<1>3. ASSUME NEW l \in {limits.bytes, limits.bucketBytes}, NEW B,
             ~ OverBytes(l, UsedBytes(records, B), size)
      PROVE  Within(l, UsedBytes(records, B) + size)
  <2>1. UsedBytes(records, B) \in Nat /\ UsedBytes(records, B) + MaxObject <= MaxInt
    BY <1>1, UsageTypes
  <2>2. l # None => l \in Nat
    BY LimitTypes
  <2>3. Plus(UsedBytes(records, B), size) = UsedBytes(records, B) + size
    BY <1>2, <2>1 DEF Plus
  <2>4. QED
    BY <1>2, <1>3, <2>1, <2>2, <2>3 DEF OverBytes, Within
<1>4. ASSUME NEW l \in {limits.count, limits.bucketCount}, NEW B,
             ~ OverCount(l, ObjectCount(records, B))
      PROVE  Within(l, ObjectCount(records, B) + 1)
  <2>1. ObjectCount(records, B) \in Nat /\ ObjectCount(records, B) <= Cardinality(Keys)
    BY <1>1, UsageTypes
  <2>2. l # None => l \in Nat
    BY LimitTypes
  <2>3. Cardinality(Keys) + 1 <= MaxInt /\ Cardinality(Keys) \in Nat
    <3>1. Cardinality(Keys) \in Nat
      BY QuotaAssumption, FS_CardinalityType
    <3>2. \A m, n \in Nat : m >= 1 => n <= m * n
      OBVIOUS
    <3>3. Cardinality(Keys) + 1 <= MaxObject * (Cardinality(Keys) + 1)
      BY <1>2, <3>1, <3>2
    <3>4. MaxObject * (Cardinality(Keys) + 1) \in Nat
      BY <1>2, <3>1
    <3>5. QED
      BY <1>2, <3>1, <3>3, <3>4, QuotaAssumption
  <2>4. Plus(ObjectCount(records, B), 1) = ObjectCount(records, B) + 1
    BY <1>2, <2>1, <2>3 DEF Plus
  <2>5. QED
    BY <1>4, <2>1, <2>2, <2>4 DEF OverCount, Within
<1>5. QED
  BY <1>3, <1>4 DEF OverUsage, Room

LEMMA DailyRoomFound ==
  ASSUME QuotaInv, NEW size \in Declared, ~ OverBytes(limits.daily, DailyBytes(today), size)
  PROVE  DailyRoom(size, today)
<1> SUFFICES ASSUME size \in Sizes
             PROVE  Within(limits.daily, DailyBytes(today) + size)
  BY DEF DailyRoom
<1> DEFINE sizes == [t \in today |-> admitted[t].size]
<1>1. today \subseteq Admissions /\ \A t \in today : sizes[t] \in Sizes
  BY DEF QuotaInv, QuotaTypeOK, AdmittedFits
<1>2. MaxObject \in Nat /\ MaxInt \in Nat /\ size \in 1 .. MaxObject
  BY QuotaAssumption DEF Sizes
<1> HIDE DEF sizes
<1>3. SumOver(sizes, today) \in Nat /\ SumOver(sizes, today) + MaxObject <= MaxInt
  BY <1>1, DailyTypes
<1>4. DailyBytes(today) = SumOver(sizes, today)
  BY DEF DailyBytes, sizes
<1>5. limits.daily # None => limits.daily \in Nat
  BY LimitTypes DEF QuotaInv
<1>6. Plus(DailyBytes(today), size) = DailyBytes(today) + size
  BY <1>2, <1>3, <1>4 DEF Plus
<1>7. QED
  BY <1>2, <1>3, <1>4, <1>5, <1>6 DEF OverBytes, Within

LEMMA PresignStep ==
  ASSUME QuotaInv, NEW p \in Procs, Presign(p)
  PROVE  QuotaInv'
<1>1. PICK k \in Keys, size \in Declared :
        Moves(p, [pc |-> "usage", key |-> k, size |-> size, new |-> records[k] = None])
  BY DEF Presign
<1> DEFINE r == [pc |-> "usage", key |-> k, size |-> size, new |-> records[k] = None]
<1>2. r \in Admission /\ UNCHANGED <<limits, records, admitted, today, stale>>
  BY DEF Admission, Presign, quotaVars
<1>3. req'[p] = r
  BY <1>1 DEF QuotaInv, QuotaTypeOK, Moves
<1>4. AdmissionFits(p)'
  BY <1>2, <1>3 DEF AdmissionFits, At
<1>5. QED
  BY <1>1, <1>2, <1>4, AskStep DEF QuotaRequest

LEMMA ReadUsageStep ==
  ASSUME QuotaInv, NEW p \in Procs, ReadUsage(p)
  PROVE  QuotaInv'
<1>1. /\ UNCHANGED <<limits, records, admitted, today>> /\ stale' \in {stale, stale \ {p}}
      /\ req[p].pc = "usage"
  BY DEF ReadUsage, At
<1>2. req[p] \in Admission /\ req[p].key \in Keys /\ req[p].size \in Declared
  BY <1>1 DEF QuotaInv, QuotaTypeOK, Idle, Admission, Counting
<1>3. CASE OverUsage(req[p].key[1], req[p].size, req[p].new)
  BY <1>1, <1>3, IdleUpload DEF ReadUsage
<1>4. CASE ~ OverUsage(req[p].key[1], req[p].size, req[p].new)
  <2> DEFINE r == [pc |-> "daily", key |-> req[p].key, size |-> req[p].size]
  <2>1. Moves(p, r) /\ stale' = stale /\ r \in Admission
    BY <1>2, <1>4 DEF ReadUsage, Admission
  <2>2. req'[p] = r
    BY <2>1 DEF QuotaInv, QuotaTypeOK, Moves
  <2>3. p \notin stale => Room(req[p].key, req[p].size)
    <3>1. p \notin stale => req[p].new = (records[req[p].key] = None)
      BY <1>1 DEF QuotaInv, AdmissionFits, At
    <3>2. QED
      BY <1>2, <1>4, <3>1, RoomFound DEF QuotaInv
  <2>4. p \notin stale' => Room(req[p].key, req[p].size)'
    BY <1>1, <2>1, <2>2, <2>3 DEF Room
  <2>5. AdmissionFits(p)'
    BY <2>2, <2>4 DEF AdmissionFits, At
  <2>6. QED
    BY <1>1, <2>1, <2>5, AskStep DEF QuotaRequest
<1>5. QED
  BY <1>3, <1>4

LEMMA ReadDailyStep ==
  ASSUME QuotaInv, NEW p \in Procs, ReadDaily(p)
  PROVE  QuotaInv'
<1>1. /\ UNCHANGED <<limits, records, admitted, today>> /\ stale' \in {stale, stale \ {p}}
      /\ req[p].pc = "daily"
  BY DEF ReadDaily, At
<1>2. req[p] \in [pc : {"daily", "admit"}, key : Keys, size : Declared]
  BY <1>1 DEF QuotaInv, QuotaTypeOK, Idle, Admission, Counting
<1>3. CASE OverBytes(limits.daily, DailyBytes(today), req[p].size)
  BY <1>1, <1>3, IdleUpload DEF ReadDaily
<1>4. CASE ~ OverBytes(limits.daily, DailyBytes(today), req[p].size)
  <2> DEFINE r == [req[p] EXCEPT !.pc = "admit"]
  <2>1. Moves(p, r) /\ stale' = stale /\ r \in Admission
    BY <1>2, <1>4 DEF ReadDaily, Goes, Admission
  <2>2. req'[p] = r /\ r.pc = "admit" /\ r.key = req[p].key /\ r.size = req[p].size
    BY <1>2, <2>1 DEF QuotaInv, QuotaTypeOK, Moves
  <2>3. p \notin stale => Room(req[p].key, req[p].size) /\ DailyRoom(req[p].size, today)
    BY <1>1, <1>2, <1>4, DailyRoomFound DEF QuotaInv, AdmissionFits
  <2> HIDE DEF r
  <2>4. p \notin stale' => Room(req[p].key, req[p].size)' /\ DailyRoom(req[p].size, today)'
    BY <1>1, <2>1, <2>2, <2>3 DEF Room, DailyRoom, DailyBytes
  <2>5. AdmissionFits(p)'
    BY <2>2, <2>4 DEF AdmissionFits, At
  <2>6. QED
    BY <1>1, <2>1, <2>5, AskStep DEF QuotaRequest
<1>5. QED
  BY <1>3, <1>4

LEMMA CompleteTaskStep ==
  ASSUME QuotaInv, NEW p \in Procs, CompleteTask(p)
  PROVE  QuotaInv'
<1>1. PICK t \in Admissions :
        admitted[t] # None /\ Moves(p, [pc |-> "head", task |-> t, size |-> None])
  BY DEF CompleteTask
<1> DEFINE r == [pc |-> "head", task |-> t, size |-> None]
<1>2. r \in Counting /\ UNCHANGED <<limits, records, admitted, today, stale>>
  BY DEF Counting, CompleteTask, quotaVars
<1>3. req'[p] = r
  BY <1>1 DEF QuotaInv, QuotaTypeOK, Moves
<1>4. AdmissionFits(p)'
  BY <1>1, <1>2, <1>3 DEF AdmissionFits, At
<1>5. QED
  BY <1>1, <1>2, <1>4, AskStep DEF QuotaRequest

LEMMA HeadUploadStep ==
  ASSUME QuotaInv, NEW p \in Procs, HeadUpload(p)
  PROVE  QuotaInv'
<1>1. PICK size \in Found :
        IF AsDeclared(size, admitted[req[p].task].size)
          THEN Moves(p, [req[p] EXCEPT !.pc = "upsert", !.size = size])
          ELSE Ends(p)
  BY DEF HeadUpload
<1>2. /\ UNCHANGED <<limits, records, admitted, today, stale>> /\ req[p].pc = "head"
      /\ admitted[req[p].task] # None
  BY DEF HeadUpload, quotaVars, At, QuotaInv, AdmissionFits
<1>3. req[p] \in Counting
  BY <1>2 DEF QuotaInv, QuotaTypeOK, Idle, Admission, Counting
<1>4. CASE ~ AsDeclared(size, admitted[req[p].task].size)
  BY <1>1, <1>2, <1>4, IdleUpload
<1>5. CASE AsDeclared(size, admitted[req[p].task].size)
  <2> DEFINE r == [req[p] EXCEPT !.pc = "upsert", !.size = size]
  <2>1. Moves(p, r) /\ r \in Counting /\ r.pc = "upsert" /\ r.task = req[p].task /\ r.size = size
    BY <1>1, <1>3, <1>5 DEF Counting, Found
  <2>2. req'[p] = r
    BY <2>1 DEF QuotaInv, QuotaTypeOK, Moves
  <2> HIDE DEF r
  <2>3. AdmissionFits(p)'
    BY <1>2, <1>5, <2>1, <2>2 DEF AdmissionFits, At, AsDeclared
  <2>4. QED
    BY <1>2, <2>1, <2>3, AskStep DEF QuotaRequest
<1>6. QED
  BY <1>4, <1>5

LEMMA AdmitStep ==
  ASSUME QuotaInv, NEW p \in Procs, Admit(p)
  PROVE  QuotaInv'
<1>1. PICK t \in Admissions :
        /\ admitted[t] = None
        /\ admitted' = [admitted EXCEPT ![t] =
                          [key |-> req[p].key, size |-> req[p].size, pending |-> TRUE]]
        /\ stale' = (stale \ {p, t}) \cup (IF p \in stale THEN {t} ELSE {})
  BY DEF Admit
<1>2. req[p].pc = "admit" /\ Moves(p, Idle) /\ UNCHANGED <<limits, records, today>>
  BY DEF Admit, At, Ends
<1>3. req[p].key \in Keys /\ req[p].size \in Declared
  BY <1>2 DEF QuotaInv, QuotaTypeOK, Idle, Admission, Counting
<1> DEFINE new == [key |-> req[p].key, size |-> req[p].size, pending |-> TRUE]
<1>4. new \in AdmittedTask
  BY <1>3 DEF AdmittedTask
<1>5. /\ req' \in [Procs -> QuotaRequest] /\ req'[p] = Idle
      /\ \A q \in Procs : q # p => req'[q] = req[q]
  BY <1>2 DEF QuotaInv, QuotaTypeOK, QuotaRequest, Moves
<1>6. admitted'[t] = new /\ \A s \in Admissions : s # t => admitted'[s] = admitted[s]
  BY <1>1 DEF QuotaInv, QuotaTypeOK
<1>7. QuotaTypeOK'
  BY <1>1, <1>2, <1>4, <1>5 DEF QuotaInv, QuotaTypeOK, QuotaRequest
<1>8. TasksStay /\ (\A k \in Keys : Shrunk(k)) /\ t \notin today
  BY <1>1, <1>2, <1>6 DEF TasksStay, Shrunk, QuotaInv
<1>9. ASSUME NEW q \in Procs
      PROVE  AdmissionFits(q)'
  <2>1. CASE q = p
    BY <1>5, <2>1 DEF AdmissionFits, Idle, At
  <2>2. CASE q # p
    <3>1. q \notin stale' => q \notin stale
      BY <1>1, <2>2, QuotaAssumption
    <3>2. req[q].pc \in Reading => req[q].key \in Keys
      BY DEF QuotaInv, QuotaTypeOK, Reading, Idle, Admission, Counting
    <3>3. QED
      BY <1>2, <1>5, <1>7, <1>8, <2>2, <3>1, <3>2, OthersFit
  <2>3. QED
    BY <2>1, <2>2
<1>10. ASSUME NEW s \in Admissions, s # t
       PROVE  AdmittedFits(s)'
  <2>1. s \notin stale' => s \notin stale
    BY <1>1, <1>10, QuotaAssumption
  <2>2. admitted[s] # None => admitted[s].key \in Keys
    BY DEF QuotaInv, QuotaTypeOK, AdmittedTask
  <2>3. CASE admitted[s] = None
    BY <1>6, <1>10, <2>3 DEF AdmittedFits
  <2>4. CASE admitted[s] # None
    BY <1>2, <1>7, <1>8, <2>1, <2>2, <2>4, AdmittedStays
  <2>5. QED
    BY <2>3, <2>4
<1>11. AdmittedFits(t)'
  <2>1. t \notin stale' => p \notin stale
    BY <1>1
  <2>2. p \notin stale => Room(req[p].key, req[p].size) /\ DailyRoom(req[p].size, today)
    BY <1>2 DEF QuotaInv, AdmissionFits, At
  <2>3. t \notin stale' => Room(new.key, new.size) /\ DailyRoom(new.size, today)
    BY <2>1, <2>2
  <2>4. today' \ {t} = today
    BY <1>2, <1>8
  <2>5. t \notin stale' => Room(admitted[t].key, admitted[t].size)'
    BY <1>2, <1>6, <2>3 DEF Room
  <2>6. t \notin stale' => DailyRoom(admitted[t].size, today \ {t})'
    <3>1. \A s : DailyRoom(s, today) => \A less \in SUBSET today : DailyRoom(s, less)'
      BY <1>2, <1>8, DailyStays
    <3>2. t \notin stale' => \A less \in SUBSET today : DailyRoom(admitted[t].size, less)'
      BY <1>6, <2>3, <3>1
    <3>3. QED
      BY <2>4, <3>2
  <2>7. t \notin today'
    BY <1>2, <1>8
  <2>8. QED
    BY <2>5, <2>6, <2>7 DEF AdmittedFits
<1>12. \A s \in today' : admitted'[s] # None
  BY <1>2, <1>8 DEF QuotaInv, QuotaTypeOK, TasksStay
<1>13. QED
  BY <1>7, <1>9, <1>10, <1>11, <1>12 DEF QuotaInv

-----------------------------------------------------------------------------
(* Completion, and what else there is *)

(* What has grown makes everyone else's readings old. *)
LEMMA GrowthStep ==
  ASSUME QuotaInv, QuotaTypeOK', limits' = limits, TasksStay,
         NEW p \in Procs, NEW t \in Admissions, admitted[t] # None,
         \A q \in Procs : q # p => req'[q] = req[q],
         stale' = stale \cup Outdated(p, t), AdmissionFits(p)', AdmittedFits(t)',
         \A s \in today' : s \in today \/ s = t,
         \A s \in Admissions : admitted'[s] # None => admitted[s] # None
  PROVE  QuotaInv'
<1>1. ASSUME NEW q \in Procs, q # p
      PROVE  AdmissionFits(q)'
  <2>1. q \notin stale' => req[q].pc \notin Reading
    BY <1>1 DEF Outdated
  <2>2. QED
    BY <1>1, <2>1, OthersFit
<1>2. ASSUME NEW s \in Admissions, s # t
      PROVE  AdmittedFits(s)'
  <2>1. CASE admitted[s] = None
    BY <2>1 DEF AdmittedFits
  <2>2. CASE admitted[s] # None
    <3>1. s \in stale'
      BY <1>2, <2>2 DEF Outdated
    <3>2. s \in today' => s \in today
      BY <1>2
    <3>3. QED
      BY <2>2, <3>1, <3>2, AdmittedStays
  <2>3. QED
    BY <2>1, <2>2
<1>3. \A s \in today' : admitted'[s] # None
  BY DEF QuotaInv, QuotaTypeOK, TasksStay
<1>4. QED
  BY <1>1, <1>2, <1>3 DEF QuotaInv

LEMMA UpsertUploadStep ==
  ASSUME QuotaInv, NEW p \in Procs, UpsertUpload(p)
  PROVE  QuotaInv'
<1> DEFINE t == req[p].task
           k == admitted[t].key
<1>1. /\ req[p].pc = "upsert" /\ records' = [records EXCEPT ![k] = req[p].size]
      /\ stale' = stale \cup Outdated(p, t) /\ Moves(p, [req[p] EXCEPT !.pc = "count"])
      /\ UNCHANGED <<limits, admitted, today>>
  BY DEF UpsertUpload, At, Goes
<1>2. req[p] \in Counting /\ t \in Admissions /\ req[p].size \in Sizes \cup {None}
  BY <1>1 DEF QuotaInv, QuotaTypeOK, Idle, Admission, Counting
<1>3. admitted[t] # None /\ req[p].size = admitted[t].size /\ k \in Keys
  BY <1>1, <1>2 DEF QuotaInv, QuotaTypeOK, AdmissionFits, AdmittedTask
<1> DEFINE r == [req[p] EXCEPT !.pc = "count"]
<1>4. r \in Counting /\ r.pc = "count" /\ r.task = t /\ r.size = req[p].size
  BY <1>2 DEF Counting
<1>5. req' \in [Procs -> QuotaRequest] /\ req'[p] = r /\ \A q \in Procs : q # p => req'[q] = req[q]
  BY <1>1, <1>4 DEF QuotaInv, QuotaTypeOK, QuotaRequest, Moves
<1> HIDE DEF r
<1>6. QuotaTypeOK'
  <2>1. records' \in [Keys -> Sizes \cup {None}] /\ stale' \subseteq Procs \cup Admissions
    BY <1>1, <1>2, <1>3 DEF QuotaInv, QuotaTypeOK, Outdated
  <2>2. QED
    BY <1>1, <1>5, <2>1 DEF QuotaInv, QuotaTypeOK, QuotaRequest
<1>7. TasksStay
  BY <1>1 DEF TasksStay
<1>8. AdmissionFits(p)'
  BY <1>1, <1>3, <1>4, <1>5 DEF AdmissionFits, At
<1>9. AdmittedFits(t)'
  <2>1. records'[k] = admitted[t].size
    BY <1>1, <1>3 DEF QuotaInv, QuotaTypeOK
  <2>2. t \notin stale' => t \notin stale
    BY <1>1
  <2> HIDE DEF k, t
  <2>3. today' = today /\ limits' = limits /\ t \in Admissions /\ admitted[t] # None
    BY <1>1, <1>2, <1>3
  <2>4. \A s \in Admissions :
          /\ admitted[s] # None
          /\ s \in today' => s \in today \/ admitted[s].size \in Sizes
          /\ s \notin stale' =>
               /\ s \notin stale /\ today' \ {s} \subseteq today \ {s}
               /\ Shrunk(admitted[s].key) \/ records'[admitted[s].key] = admitted[s].size
          => AdmittedFits(s)'
    BY <1>6, <1>7, <2>3, AdmittedStays
  <2>5. t' = t
    BY <1>4, <1>5 DEF t
  <2>6. QED
    BY <2>1, <2>2, <2>3, <2>4, <2>5 DEF k
<1>10. \A s \in today' : s \in today
  BY <1>1
<1>11. \A s \in Admissions : admitted'[s] # None => admitted[s] # None
  BY <1>1
<1>12. limits' = limits /\ stale' = stale \cup Outdated(p, t)
  BY <1>1
<1>13. t' = t
  BY <1>4, <1>5
<1> HIDE DEF t
<1>14. QED
  BY <1>2, <1>3, <1>5, <1>6, <1>7, <1>8, <1>9, <1>10, <1>11, <1>12, <1>13, GrowthStep

LEMMA CountTaskStep ==
  ASSUME QuotaInv, NEW p \in Procs, CountTask(p)
  PROVE  QuotaInv'
<1>1. req[p].pc = "count" /\ Moves(p, Idle) /\ UNCHANGED <<limits, records>>
  BY DEF CountTask, At, Ends
<1>2. req[p] \in Counting
  BY <1>1 DEF QuotaInv, QuotaTypeOK, Idle, Admission, Counting
<1>3. PICK t \in Admissions : t = req[p].task
  BY <1>2 DEF Counting
<1>4. /\ admitted' = [admitted EXCEPT ![t].pending = FALSE] /\ today' = today \cup {t}
      /\ stale' = stale \cup Outdated(p, t)
  BY <1>3 DEF CountTask, Counted
<1>5. admitted[t] \in AdmittedTask /\ admitted[t] # None /\ admitted[t].size \in Sizes
  <2>1. admitted[t] # None /\ req[p].size = admitted[t].size
    BY <1>1, <1>3 DEF QuotaInv, AdmissionFits
  <2>2. admitted[t] \in AdmittedTask
    BY <2>1 DEF QuotaInv, QuotaTypeOK
  <2>3. req[p].size \in Sizes \cup {None} /\ admitted[t].size \in Int
    BY <1>2, <2>2, DeclaredInt DEF Counting, AdmittedTask
  <2>4. QED
    BY <2>1, <2>2, <2>3, QuotaAssumption
<1>6. /\ admitted'[t] \in AdmittedTask /\ admitted'[t].key = admitted[t].key
      /\ admitted'[t].size = admitted[t].size
      /\ \A s \in Admissions : s # t => admitted'[s] = admitted[s]
      /\ admitted' \in [Admissions -> AdmittedTask \cup {None}]
  <2> DEFINE new == [admitted[t] EXCEPT !.pending = FALSE]
  <2>1. new \in AdmittedTask /\ new.key = admitted[t].key /\ new.size = admitted[t].size
    BY <1>5 DEF AdmittedTask
  <2> HIDE DEF new
  <2>2. admitted' = [admitted EXCEPT ![t] = new]
    BY <1>4 DEF new
  <2>3. QED
    BY <2>1, <2>2 DEF QuotaInv, QuotaTypeOK
<1>7. admitted'[t] # None
  BY <1>6, QuotaAssumption
<1>8. req' \in [Procs -> QuotaRequest] /\ req'[p] = Idle /\ \A q \in Procs : q # p => req'[q] = req[q]
  BY <1>1 DEF QuotaInv, QuotaTypeOK, QuotaRequest, Moves
<1>9. QuotaTypeOK'
  <2>1. today' \subseteq Admissions /\ stale' \subseteq Procs \cup Admissions
    BY <1>4 DEF QuotaInv, QuotaTypeOK, Outdated
  <2>2. QED
    BY <1>1, <1>6, <1>8, <2>1 DEF QuotaInv, QuotaTypeOK, QuotaRequest
<1>11. TasksStay
  BY <1>6, <1>7 DEF TasksStay
<1>12. AdmissionFits(p)'
  BY <1>8 DEF AdmissionFits, Idle, At
<1>13. AdmittedFits(t)'
  <2>1. t \notin stale' => t \notin stale
    BY <1>4
  <2>2. today' \ {t} \subseteq today \ {t} /\ Shrunk(admitted[t].key)
    BY <1>1, <1>4 DEF Shrunk
  <2>3. QED
    BY <1>1, <1>5, <1>9, <1>11, <2>1, <2>2, AdmittedStays
<1>14. /\ \A s \in today' : s \in today \/ s = t
       /\ \A s \in Admissions : admitted'[s] # None => admitted[s] # None
  BY <1>4, <1>5, <1>6
<1>15. QED
  BY <1>1, <1>4, <1>5, <1>8, <1>9, <1>11, <1>12, <1>13, <1>14, GrowthStep

(* Steps of nobody here: a task that ends, rows that others write, a new day. *)
LEMMA ElsewhereStep ==
  ASSUME QuotaInv, QuotaTypeOK', UNCHANGED <<req, limits>>, TasksStay, today' \subseteq today,
         \A q \in Procs :
           q \notin stale' /\ req[q].pc \in Reading => q \notin stale /\ Shrunk(req[q].key),
         \A t \in Admissions :
           admitted'[t] # None =>
             admitted[t] # None /\ (t \notin stale' => t \notin stale /\ Shrunk(admitted[t].key))
  PROVE  QuotaInv'
<1>1. ASSUME NEW q \in Procs
      PROVE  AdmissionFits(q)'
  BY <1>1, OthersFit
<1>2. ASSUME NEW t \in Admissions
      PROVE  AdmittedFits(t)'
  <2>1. CASE admitted'[t] = None
    BY <2>1 DEF AdmittedFits
  <2>2. CASE admitted'[t] # None
    BY <2>2, AdmittedStays
  <2>3. QED
    BY <2>1, <2>2
<1>3. \A t \in today' : admitted'[t] # None
  BY DEF QuotaInv, QuotaTypeOK, TasksStay
<1>4. QED
  BY <1>1, <1>2, <1>3 DEF QuotaInv

LEMMA AbortTaskStep ==
  ASSUME QuotaInv, AbortTask
  PROVE  QuotaInv'
<1>1. PICK t \in Admissions :
        /\ admitted[t] # None /\ admitted' = [admitted EXCEPT ![t].pending = FALSE]
        /\ today' = today \ {t}
  BY DEF AbortTask
<1>2. UNCHANGED <<req, limits, records, stale>>
  BY DEF AbortTask
<1> DEFINE new == [admitted[t] EXCEPT !.pending = FALSE]
<1>3. admitted[t] \in AdmittedTask
  BY <1>1 DEF QuotaInv, QuotaTypeOK
<1>4. new \in AdmittedTask /\ new.key = admitted[t].key /\ new.size = admitted[t].size
  BY <1>3 DEF AdmittedTask
<1>5. new # None
  BY <1>4, QuotaAssumption
<1>6. admitted' = [admitted EXCEPT ![t] = new]
  BY <1>1
<1> HIDE DEF new
<1>7. /\ admitted'[t] = new /\ admitted' \in [Admissions -> AdmittedTask \cup {None}]
      /\ \A s \in Admissions : s # t => admitted'[s] = admitted[s]
  BY <1>4, <1>6 DEF QuotaInv, QuotaTypeOK
<1>8. QuotaTypeOK'
  BY <1>1, <1>2, <1>7 DEF QuotaInv, QuotaTypeOK
<1>9. TasksStay /\ today' \subseteq today /\ \A k \in Keys : Shrunk(k)
  BY <1>1, <1>2, <1>4, <1>5, <1>7 DEF TasksStay, Shrunk
<1>10. \A s \in Admissions : admitted'[s] # None => admitted[s] # None /\ admitted[s].key \in Keys
  BY <1>1, <1>7 DEF QuotaInv, QuotaTypeOK, AdmittedTask
<1>11. \A q \in Procs : req[q].pc \in Reading => req[q].key \in Keys
  BY DEF QuotaInv, QuotaTypeOK, Reading, Idle, Admission, Counting
<1>12. QED
  BY <1>2, <1>8, <1>9, <1>10, <1>11, ElsewhereStep

LEMMA SeenElsewhereStep ==
  ASSUME QuotaInv, SeenElsewhere
  PROVE  QuotaInv'
<1>1. PICK k \in Keys, size \in Found :
        records' = [records EXCEPT ![k] = size] /\ stale' = stale \cup OutdatedBy(k, size)
  BY DEF SeenElsewhere
<1>2. UNCHANGED <<req, limits, admitted, today>>
  BY DEF SeenElsewhere
<1>3. QuotaTypeOK'
  <2>1. records' \in [Keys -> Sizes \cup {None}] /\ stale' \subseteq Procs \cup Admissions
    BY <1>1 DEF QuotaInv, QuotaTypeOK, OutdatedBy, Found
  <2>2. QED
    BY <1>2, <2>1 DEF QuotaInv, QuotaTypeOK
<1>4. size = None => \A j \in Keys : j # k => Shrunk(j)
  BY <1>1 DEF QuotaInv, QuotaTypeOK, Shrunk
<1>5. TasksStay /\ today' \subseteq today
  BY <1>2 DEF TasksStay
<1>6. \A q \in Procs :
        q \notin stale' /\ req[q].pc \in Reading => q \notin stale /\ Shrunk(req[q].key)
  <2>1. \A q \in Procs : req[q].pc \in Reading => req[q].key \in Keys
    BY DEF QuotaInv, QuotaTypeOK, Reading, Idle, Admission, Counting
  <2>2. QED
    BY <1>1, <1>4, <2>1 DEF OutdatedBy
<1>7. \A t \in Admissions :
        admitted'[t] # None =>
          admitted[t] # None /\ (t \notin stale' => t \notin stale /\ Shrunk(admitted[t].key))
  <2>1. \A t \in Admissions : admitted[t] # None => admitted[t].key \in Keys
    BY DEF QuotaInv, QuotaTypeOK, AdmittedTask
  <2>2. QED
    BY <1>1, <1>2, <1>4, <2>1 DEF OutdatedBy
<1>8. QED
  BY <1>2, <1>3, <1>5, <1>6, <1>7, ElsewhereStep

LEMMA NewDayStep ==
  ASSUME QuotaInv, NewDay
  PROVE  QuotaInv'
<1>1. UNCHANGED <<req, limits, records, admitted, stale>> /\ today' = {}
  BY DEF NewDay
<1>2. QuotaTypeOK'
  BY <1>1 DEF QuotaInv, QuotaTypeOK
<1>3. TasksStay /\ today' \subseteq today /\ \A k \in Keys : Shrunk(k)
  BY <1>1 DEF TasksStay, Shrunk
<1>4. /\ \A s \in Admissions : admitted[s] # None => admitted[s].key \in Keys
      /\ \A q \in Procs : req[q].pc \in Reading => req[q].key \in Keys
  BY DEF QuotaInv, QuotaTypeOK, AdmittedTask, Reading, Idle, Admission, Counting
<1>5. QED
  BY <1>1, <1>2, <1>3, <1>4, ElsewhereStep

LEMMA QuotaInvStep == QuotaInv /\ [QuotaNext]_<<req, quotaVars>> => QuotaInv'
<1> SUFFICES ASSUME QuotaInv, [QuotaNext]_<<req, quotaVars>>
             PROVE  QuotaInv'
  OBVIOUS
<1>1. CASE UNCHANGED <<req, quotaVars>>
  BY <1>1 DEF quotaVars, QuotaInv, QuotaTypeOK, AdmissionFits, AdmittedFits, Room, DailyRoom,
              DailyBytes, At
<1>2. ASSUME NEW p \in Procs, QuotaDies(p)
      PROVE  QuotaInv'
  BY <1>2, IdleUpload DEF QuotaDies, Dies
<1>3. ASSUME NEW p \in Procs, QuotaSteps(p)
      PROVE  QuotaInv'
  BY <1>2, <1>3, PresignStep, ReadUsageStep, ReadDailyStep, AdmitStep, CompleteTaskStep,
     HeadUploadStep, UpsertUploadStep, CountTaskStep DEF QuotaSteps
<1>4. QED
  BY <1>1, <1>3, AbortTaskStep, SeenElsewhereStep, NewDayStep DEF QuotaNext

LEMMA QuotaInvariance == QuotaSpec => []QuotaInv
<1>1. QuotaInit => QuotaInv
  BY DEF QuotaInit, QuotaInv, QuotaTypeOK, AdmissionFits, AdmittedFits, Idle, At
<1>2. QED
  BY <1>1, QuotaInvStep, PTL DEF QuotaSpec

(* Rows, tasks and requests of the quota checks have their types. *)
THEOREM QuotaTypes == QuotaSpec => []QuotaTypeOK
BY QuotaInvariance, PTL DEF QuotaInv

(* A completion that takes the recorded bytes or objects past a limit was   *)
(* admitted on readings that had become old.                                *)
(* (quota/check.go:36, uploads/handler.go:292)                              *)
THEOREM QuotaKeptAlways == QuotaSpec => QuotaKept
<1> DEFINE Stays ==
      \A p \in Procs :
        LET t == req[p].task
            b == {admitted[t].key[1]} IN
        At(p, "upsert") /\ records' # records /\ req'[p].pc = "count" /\ t \notin stale
          => /\ Within(limits.bytes, UsedBytes(records', Buckets))
             /\ Within(limits.bucketBytes, UsedBytes(records', b))
             /\ ObjectCount(records', Buckets) > ObjectCount(records, Buckets)
                  => /\ Within(limits.count, ObjectCount(records', Buckets))
                     /\ Within(limits.bucketCount, ObjectCount(records', b))
<1>1. QuotaInv /\ [QuotaNext]_<<req, quotaVars>> => [Stays]_<<req, quotaVars>>
  <2> SUFFICES ASSUME QuotaInv, QuotaNext, NEW p \in Procs, req[p].pc = "upsert", records' # records,
                      req'[p].pc = "count", req[p].task \notin stale
               PROVE  LET b == {admitted[req[p].task].key[1]} IN
                      /\ Within(limits.bytes, UsedBytes(records', Buckets))
                      /\ Within(limits.bucketBytes, UsedBytes(records', b))
                      /\ ObjectCount(records', Buckets) > ObjectCount(records, Buckets)
                           => /\ Within(limits.count, ObjectCount(records', Buckets))
                              /\ Within(limits.bucketCount, ObjectCount(records', b))
    BY DEF At
  <2>1. UpsertUpload(p)
    <3>1. \A q \in Procs : \A r : Moves(q, r) /\ q # p => req'[p] = req[p]
      BY DEF Moves, QuotaInv, QuotaTypeOK
    <3>2. ASSUME NEW q \in Procs, QuotaSteps(q), ~ UpsertUpload(p)
          PROVE  FALSE
      <4>1. CASE UpsertUpload(q)
        BY <3>1, <3>2, <4>1 DEF UpsertUpload, Goes
      <4>2. CASE ~ UpsertUpload(q)
        BY <3>2, <4>2 DEF QuotaSteps, Presign, ReadUsage, ReadDaily, Admit, CompleteTask, HeadUpload,
                          CountTask, QuotaDies, quotaVars
      <4>3. QED
        BY <4>1, <4>2
    <3>3. QED
      BY <3>2 DEF QuotaNext, AbortTask, SeenElsewhere, NewDay
  <2> DEFINE t == req[p].task
             k == admitted[t].key
             size == req[p].size
  <2>2. /\ records' = [records EXCEPT ![k] = size] /\ t \in Admissions /\ size \in Sizes
        /\ size = admitted[t].size /\ admitted[t] # None /\ k \in Keys
    <3>1. req[p] \in Counting
      BY DEF QuotaInv, QuotaTypeOK, Idle, Admission, Counting
    <3>2. t \in Admissions /\ size \in Sizes \cup {None} /\ size = admitted[t].size /\ admitted[t] # None
      BY <3>1 DEF Counting, QuotaInv, AdmissionFits
    <3>3. admitted[t] \in AdmittedTask
      BY <3>2 DEF QuotaInv, QuotaTypeOK
    <3>4. size \in Int /\ k \in Keys
      BY <3>2, <3>3, DeclaredInt DEF AdmittedTask
    <3>5. QED
      BY <2>1, <3>2, <3>4, QuotaAssumption DEF UpsertUpload
  <2>3. Room(k, size)
    <3>1. Room(k, size) \/ records[k] = size
      BY <2>2 DEF QuotaInv, AdmittedFits
    <3>2. records[k] # size
      BY <2>2 DEF QuotaInv, QuotaTypeOK
    <3>3. QED
      BY <3>1, <3>2
  <2>4. records \in QuotaRow /\ records' \in QuotaRow
    BY <2>2 DEF QuotaInv, QuotaTypeOK, QuotaRow
  <2>5. records'[k] = size /\ \A j \in Keys : j # k => records'[j] = records[j]
    BY <2>2 DEF QuotaInv, QuotaTypeOK
  <2> HIDE DEF k, size
  <2>6. \A B : /\ UsedBytes(records', B) <= UsedBytes(records, B) + size
               /\ ObjectCount(records', B) <= ObjectCount(records, B) + (IF records[k] = None THEN 1 ELSE 0)
    BY <2>2, <2>4, <2>5, UsageGrows
  <2>7. \A B : /\ UsedBytes(records', B) \in Nat /\ UsedBytes(records, B) \in Nat
               /\ ObjectCount(records', B) \in Nat /\ ObjectCount(records, B) \in Nat
    BY <2>4, UsageTypes
  <2>8. /\ limits.bytes # None => limits.bytes \in Nat
        /\ limits.bucketBytes # None => limits.bucketBytes \in Nat
        /\ limits.count # None => limits.count \in Nat
        /\ limits.bucketCount # None => limits.bucketCount \in Nat
    BY LimitTypes DEF QuotaInv
  <2>9. size \in Nat
    BY <2>2, QuotaAssumption DEF Sizes
  <2>10. /\ Within(limits.bytes, UsedBytes(records', Buckets))
         /\ Within(limits.bucketBytes, UsedBytes(records', {k[1]}))
    <3>1. /\ Within(limits.bytes, UsedBytes(records, Buckets) + size)
          /\ Within(limits.bucketBytes, UsedBytes(records, {k[1]}) + size)
      BY <2>2, <2>3 DEF Room
    <3>2. QED
      BY <2>6, <2>7, <2>8, <2>9, <3>1 DEF Within
  <2>11. ObjectCount(records', Buckets) > ObjectCount(records, Buckets)
           => /\ Within(limits.count, ObjectCount(records', Buckets))
              /\ Within(limits.bucketCount, ObjectCount(records', {k[1]}))
    <3> SUFFICES ASSUME ObjectCount(records', Buckets) > ObjectCount(records, Buckets)
                 PROVE  /\ Within(limits.count, ObjectCount(records', Buckets))
                        /\ Within(limits.bucketCount, ObjectCount(records', {k[1]}))
      OBVIOUS
    <3>1. records[k] = None
      BY <2>6, <2>7
    <3>2. /\ Within(limits.count, ObjectCount(records, Buckets) + 1)
          /\ Within(limits.bucketCount, ObjectCount(records, {k[1]}) + 1)
      BY <2>2, <2>3, <3>1 DEF Room
    <3>3. QED
      BY <2>6, <2>7, <2>8, <3>1, <3>2 DEF Within
  <2>12. QED
    BY <2>10, <2>11 DEF k
<1>2. QED
  BY <1>1, QuotaInvariance, PTL DEF QuotaSpec, QuotaKept

(* The same of the bytes completed in a day.  (uploads/store.go:73) *)
THEOREM DailyKeptAlways == QuotaSpec => DailyKept
<1> DEFINE Stays == \A t \in today' \ today : t \notin stale => Within(limits.daily, DailyBytes(today)')
<1>1. QuotaInv /\ [QuotaNext]_<<req, quotaVars>> => [Stays]_<<req, quotaVars>>
  <2> SUFFICES ASSUME QuotaInv, QuotaNext, NEW t \in today', t \notin today, t \notin stale
               PROVE  Within(limits.daily, DailyBytes(today)')
    OBVIOUS
  <2>1. PICK p \in Procs : CountTask(p)
    BY DEF QuotaNext, QuotaSteps, Presign, ReadUsage, ReadDaily, Admit, CompleteTask, HeadUpload,
           UpsertUpload, QuotaDies, quotaVars, AbortTask, SeenElsewhere, NewDay
  <2>2. req[p].pc = "count" /\ req[p] \in Counting
    BY <2>1 DEF CountTask, At, QuotaInv, QuotaTypeOK, Idle, Admission, Counting
  <2>3. t = req[p].task /\ today' = today \cup {t} /\ t \in Admissions
    BY <2>1, <2>2 DEF CountTask, Counted, Counting
  <2>4. limits' = limits /\ admitted' = [admitted EXCEPT ![t].pending = FALSE]
    BY <2>1, <2>3 DEF CountTask
  <2>5. admitted[t] # None /\ admitted[t] \in AdmittedTask /\ admitted[t].size \in Sizes
    <3>1. admitted[t] # None /\ req[p].size = admitted[t].size
      BY <2>2, <2>3 DEF QuotaInv, AdmissionFits
    <3>2. admitted[t] \in AdmittedTask
      BY <2>3, <3>1 DEF QuotaInv, QuotaTypeOK
    <3>3. req[p].size \in Sizes \cup {None} /\ admitted[t].size \in Int
      BY <2>2, <3>2, DeclaredInt DEF Counting, AdmittedTask
    <3>4. QED
      BY <3>1, <3>2, <3>3, QuotaAssumption
  <2>6. Within(limits.daily, DailyBytes(today) + admitted[t].size)
    <3>1. today \ {t} = today
      OBVIOUS
    <3>2. QED
      BY <2>3, <2>5, <3>1 DEF QuotaInv, AdmittedFits, DailyRoom
  <2> DEFINE old == [s \in today |-> admitted[s].size]
             new == [s \in today' |-> admitted'[s].size]
  <2>7. /\ \A s \in today : s \in Admissions /\ admitted[s] # None
        /\ \A s \in Admissions : admitted[s] # None => admitted'[s].size = admitted[s].size
    <3> DEFINE fresh == [admitted[t] EXCEPT !.pending = FALSE]
    <3>1. fresh.size = admitted[t].size /\ admitted' = [admitted EXCEPT ![t] = fresh]
      BY <2>4, <2>5 DEF AdmittedTask
    <3> HIDE DEF fresh
    <3>2. QED
      BY <3>1 DEF QuotaInv, QuotaTypeOK
  <2>8. (\A s \in today : new[s] = old[s]) /\ new[t] = admitted[t].size
    BY <2>3, <2>5, <2>7
  <2>9. \A s \in today : old[s] \in Sizes
    BY <2>7 DEF QuotaInv, AdmittedFits
  <2>10. DailyBytes(today) = SumOver(old, today) /\ DailyBytes(today)' = SumOver(new, today')
    BY DEF DailyBytes
  <2> HIDE DEF old, new
  <2>11. IsFiniteSet(today) /\ IsFiniteSet(today') /\ today' \ {t} = today /\ \A s \in Sizes : s \in Nat
    <3>1. IsFiniteSet(today)
      BY FS_Subset, QuotaAssumption DEF QuotaInv, QuotaTypeOK
    <3>2. IsFiniteSet(today \cup {t})
      BY <3>1, FS_AddElement
    <3>3. QED
      BY <2>3, <3>1, <3>2, QuotaAssumption DEF Sizes
  <2>12. \A s \in today' : new[s] \in Nat
    BY <2>3, <2>5, <2>8, <2>9, <2>11
  <2>13. SumOver(new, today') = new[t] + SumOver(new, today)
    <3>1. \A s \in today' : SumOver(new, today') = new[s] + SumOver(new, today' \ {s})
      BY <2>11, <2>12, SumOverElement
    <3>2. QED
      BY <2>11, <3>1
  <2>14. SumOver(new, today) = SumOver(old, today)
    BY <2>8, <2>9, <2>11, SumOverSame
  <2>15. SumOver(old, today) \in Nat /\ new[t] \in Nat
    BY <2>9, <2>11, <2>12, SumOverElement
  <2>16. SumOver(new, today') = DailyBytes(today) + admitted[t].size
    BY <2>8, <2>10, <2>13, <2>14, <2>15
  <2>17. QED
    BY <2>6, <2>10, <2>16
<1>2. QED
  BY <1>1, QuotaInvariance, PTL DEF QuotaSpec, DailyKept
=============================================================================
