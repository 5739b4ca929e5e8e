------------------------------ MODULE Uploads ------------------------------
(***************************************************************************)
(* The tasks of internal/uploads and the multipart uploads in storage they *)
(* stand for.  A task is a row, an upload is in the storage service, and   *)
(* the requests that create, complete and abort them take one step in each *)
(* with nothing around the two.                                            *)
(*                                                                         *)
(* Whether an upload is admitted, and what is recorded of it, is the       *)
(* subject of Quota; here both may go either way.                          *)
(***************************************************************************)
EXTENDS Requests

CONSTANTS
  ObjectKeys,   \* bucket and key of an upload
  TaskIds,      \* ids of upload_tasks
  UploadIds     \* ids of multipart uploads

VARIABLES
  tasks,      \* rows of upload_tasks: [type, key, upload, status], or None
  uploads,    \* storage: [key, state], or None
  contested,  \* history: tasks that two requests were about to finish
  failed,     \* history: whether a storage call and its row came apart
  mixed       \* history: whether a client named another upload than its task's

uploadVars == <<tasks, uploads, contested, failed, mixed>>

-----------------------------------------------------------------------------
(* Types *)

Task == [type : {"simple", "multipart"}, key : ObjectKeys,
         upload : UploadIds \cup {None}, status : {"pending", "completed", "aborted"}]

Upload == [key : ObjectKeys, state : {"open", "completed", "aborted"}]

ASSUME UploadsAssumption ==
  None \notin UploadIds \cup Task \cup Upload

Starting == [pc : {"create", "insert"}, type : {"simple", "multipart"},
             key : ObjectKeys, upload : UploadIds \cup {None}]

Finishing == [pc : {"assemble", "abort", "record", "finish"}, task : TaskIds,
              key : ObjectKeys, upload : UploadIds \cup {None},
              outcome : {"completed", "aborted"}]

UploadsTypeOK ==
  /\ tasks \in [TaskIds -> Task \cup {None}]
  /\ uploads \in [UploadIds -> Upload \cup {None}]
  /\ req \in [Procs -> {Idle} \cup Starting \cup Finishing]
  /\ contested \subseteq TaskIds /\ failed \in BOOLEAN /\ mixed \in BOOLEAN

-----------------------------------------------------------------------------
(* presign, mpInit, presignUpload of the open API *)

(* Everything up to the first call that changes something. *)
PresignTask(p) ==
  /\ At(p, "idle")
  /\ \E k \in ObjectKeys :
       Moves(p, [pc |-> "insert", type |-> "simple", key |-> k, upload |-> None])
  /\ UNCHANGED uploadVars

MpInit(p) ==
  /\ At(p, "idle")
  /\ \E k \in ObjectKeys :
       Moves(p, [pc |-> "create", type |-> "multipart", key |-> k, upload |-> None])
  /\ UNCHANGED uploadVars

CreateMultipart(p) ==
  /\ At(p, "create")
  /\ \E u \in UploadIds :
       /\ uploads[u] = None
       /\ uploads' = [uploads EXCEPT ![u] = [key |-> req[p].key, state |-> "open"]]
       /\ Moves(p, [req[p] EXCEPT !.pc = "insert", !.upload = u])
  /\ UNCHANGED <<tasks, contested, failed, mixed>>

InsertTask(p) ==
  /\ At(p, "insert")
  /\ \E t \in TaskIds :
       /\ tasks[t] = None
       /\ tasks' = [tasks EXCEPT ![t] =
                      [type |-> req[p].type, key |-> req[p].key,
                       upload |-> req[p].upload, status |-> "pending"]]
  /\ Ends(p)
  /\ UNCHANGED <<uploads, contested, failed, mixed>>

-----------------------------------------------------------------------------
(* complete, mpComplete, mpAbort *)

(* Mutation: a task that was aborted can still be completed. *)
PendingOrAborted(t) == tasks[t] # None /\ tasks[t].status # "completed"

(* GetPending *)
Pending(t) == tasks[t] # None /\ tasks[t].status = "pending"

Finishes(q, t) == req[q].pc \in {"assemble", "abort", "record", "finish"} /\ req[q].task = t

(* The upload is the one the client names: only mpParts compares it with    *)
(* the task's.                                                              *)
Loads(p, t, u, point, outcome) ==
  /\ At(p, "idle") /\ Pending(t)
  /\ Moves(p, [pc |-> point, task |-> t, key |-> tasks[t].key, upload |-> u,
               outcome |-> outcome])
  /\ contested' = contested \cup (IF \E q \in Procs : Finishes(q, t) THEN {t} ELSE {})
  /\ mixed' = (mixed \/ u # tasks[t].upload)
  /\ UNCHANGED <<tasks, uploads, failed>>

Complete(p) ==
  \E t \in TaskIds : tasks[t] # None /\ tasks[t].type = "simple"
                     /\ Loads(p, t, None, "record", "completed")

(* Mutation: the task is completed before its upload. *)
AssemblePointLate == "record"

AssemblePoint == "assemble"

MpComplete(p) ==
  \E t \in TaskIds, u \in UploadIds : tasks[t] # None /\ tasks[t].type = "multipart"
                                      /\ Loads(p, t, u, AssemblePoint, "completed")

(* Mutation: the task is aborted without its upload. *)
AbortPointLate == "finish"

AbortPoint == "abort"

MpAbort(p) ==
  \E t \in TaskIds, u \in UploadIds : tasks[t] # None /\ tasks[t].type = "multipart"
                                      /\ Loads(p, t, u, AbortPoint, "aborted")

OpenFor(u, k) == uploads[u] # None /\ uploads[u].state = "open" /\ uploads[u].key = k

Assembled(u, k) == uploads[u] # None /\ uploads[u].state = "completed" /\ uploads[u].key = k

(* CompleteMultipart.  An error ends the request; a service that takes a    *)
(* second completion for the first answers without doing anything.          *)
CompleteMultipart(p) ==
  LET u == req[p].upload
      k == req[p].key IN
  /\ At(p, "assemble")
  /\ \/ /\ OpenFor(u, k)
        /\ uploads' = [uploads EXCEPT ![u].state = "completed"]
        /\ Goes(p, "record")
     \/ Assembled(u, k) /\ Goes(p, "record") /\ UNCHANGED uploads
     \/ ~OpenFor(u, k) /\ Ends(p) /\ UNCHANGED uploads
  /\ UNCHANGED <<tasks, contested, failed, mixed>>

(* AbortMultipart, whose error is ignored.                                  *)
AbortMultipart(p) ==
  LET u == req[p].upload
      k == req[p].key IN
  /\ At(p, "abort")
  /\ \/ /\ OpenFor(u, k)
        /\ uploads' = [uploads EXCEPT ![u].state = "aborted"]
        /\ UNCHANGED failed
     \/ ~OpenFor(u, k) /\ UNCHANGED <<uploads, failed>>
     \/ failed' = TRUE /\ UNCHANGED uploads
  /\ Goes(p, "finish")
  /\ UNCHANGED <<tasks, contested, mixed>>

(* HeadObject, the size and objects.Upsert: see Quota. *)
RecordUpload(p) ==
  /\ At(p, "record")
  /\ Goes(p, "finish") \/ Ends(p)
  /\ UNCHANGED uploadVars

(* Finish, by id and whatever the status is by now. *)
FinishTask(p) ==
  /\ At(p, "finish")
  /\ tasks' = [tasks EXCEPT ![req[p].task].status = req[p].outcome]
  /\ Ends(p)
  /\ UNCHANGED <<uploads, contested, failed, mixed>>

(* A request stops anywhere.  A multipart upload without its row is nobody's. *)
UploadDies(p) ==
  /\ Dies(p)
  /\ failed' = (failed \/ (At(p, "insert") /\ req[p].upload # None))
  /\ UNCHANGED <<tasks, uploads, contested, mixed>>

(* The multipart tasks the worker clears away once their time is over. *)
StaleMultipart == {t \in TaskIds : Pending(t) /\ tasks[t].type = "multipart"}

-----------------------------------------------------------------------------
UploadsInit ==
  /\ tasks = [t \in TaskIds |-> None] /\ uploads = [u \in UploadIds |-> None]
  /\ req = [p \in Procs |-> Idle]
  /\ contested = {} /\ failed = FALSE /\ mixed = FALSE

UploadSteps(p) ==
  \/ PresignTask(p) \/ MpInit(p) \/ CreateMultipart(p) \/ InsertTask(p)
  \/ Complete(p) \/ MpComplete(p) \/ MpAbort(p)
  \/ CompleteMultipart(p) \/ AbortMultipart(p) \/ RecordUpload(p) \/ FinishTask(p)
  \/ UploadDies(p)

UploadsNext == \E p \in Procs : UploadSteps(p)

UploadsSpec == UploadsInit /\ [][UploadsNext]_<<req, uploadVars>>

-----------------------------------------------------------------------------
(* Properties *)

(* A task that is completed or aborted stays so, unless two requests had    *)
(* read it as pending at once: Finish updates by id.  (uploads/store.go:68) *)
FinishedStays ==
  [][\A t \in TaskIds :
       tasks[t] # None /\ tasks[t].status # "pending" /\ tasks'[t] # tasks[t] => t \in contested]_
    <<req, uploadVars>>

(* Every multipart upload that is open in storage belongs to a pending      *)
(* task, where StaleMultipart finds it, or to a request that is about to    *)
(* insert one; unless a storage call and its row came apart, or a client    *)
(* finished a task with the upload of another.  (uploads/handler.go:240)    *)
OpenUploadsAreSwept ==
  ~failed /\ ~mixed =>
    \A u \in UploadIds :
      uploads[u] # None /\ uploads[u].state = "open" =>
        \/ \E t \in StaleMultipart : tasks[t].upload = u
        \/ \E p \in Procs : At(p, "insert") /\ req[p].upload = u

(* A multipart task is completed only after its upload, also when requests  *)
(* that complete and abort it race, or a completion is repeated after a     *)
(* crash; unless a client named another upload.  (uploads/handler.go:272)   *)
CompletedWereAssembled ==
  ~mixed =>
    \A t \in TaskIds :
      tasks[t] # None /\ tasks[t].type = "multipart" /\ tasks[t].status = "completed"
        => Assembled(tasks[t].upload, tasks[t].key)
=============================================================================
