----------------------------- MODULE ObjectOps -----------------------------
(***************************************************************************)
(* The objects of a bucket, the rows of object_records that describe them, *)
(* and the operations of internal/objects: copy, move and rename, deletion *)
(* into the trash, restore, purge, permanent deletion, directories, and    *)
(* the reads that write what they saw.                                     *)
(*                                                                         *)
(* An operation on one key or pair of keys is a path of storage calls and  *)
(* statements; a batch, here or in the worker, is a series of them.  Each  *)
(* call is a step, nothing locks a key, and every operation may stop       *)
(* between two of them.                                                    *)
(*                                                                         *)
(* CopyObject sends the key it copies from unescaped, and the service       *)
(* unescapes it: a key with a literal %XX stands for another one there, and *)
(* only there.                                                              *)
(*                                                                         *)
(* Contents stand for bytes, size and etag alike.                          *)
(***************************************************************************)
EXTENDS Integers, FiniteSets

CONSTANTS
  Kinds,      \* the operations: "copy", "move", "trash" (delete), "permanent" (delete
              \* with permanent=true), "restore", "purge", "mkdir", "see" (reads)
  Names,      \* original keys
  Unescapings, \* what the service may make of keys, see unescaped
  Procs,      \* operations that can be in flight at the same time
  Contents,   \* what an object can contain
  Empty,      \* the content of a directory marker
  None        \* no object, no row, no key

(* .trash/{key} next to {key}.  (.versions/ has a module of its own.)       *)
Keys == {"live", "trash"} \X Names

Copying == {"move", "trash", "restore"}     \* copy, then delete the source
Erasing == {"permanent", "purge"}           \* delete only

ASSUME ObjectAssumption ==
  /\ Kinds \subseteq Copying \cup Erasing \cup {"copy", "mkdir", "see"}
  /\ IsFiniteSet(Names) /\ IsFiniteSet(Procs)
  /\ Unescapings \subseteq [Keys -> Keys \cup {None}]
  /\ Empty \in Contents /\ None \notin Contents \cup Keys

VARIABLES
  unescaped,  \* key -> the key whose object is copied from it: itself unless it holds
              \* a %XX, None for a key that is not one of Keys
  objects,    \* the bucket: key -> content, or None
  records,    \* object_records: key -> the content the row describes, or None
  req,        \* the operations in flight
  lost,       \* history: contents an object was replaced or erased with
  raced,      \* history: whether one was lost to an operation that had not seen it
  behind,     \* history: keys uploaded to since their row was written
  orderly,    \* history: no two uses of the bucket overlapped so far, and nothing was
              \* copied from a key that unescaping changes
  whole       \* history: no operation stopped between the bucket and its rows

vars == <<unescaped, objects, records, req, lost, raced, behind, orderly, whole>>

-----------------------------------------------------------------------------
(* Types *)

Live(n) == <<"live", n>>

(* Mutation: the trash is written under another prefix. *)
TrashElsewhere(n) == <<"deleted", n>>

Trash(n) == <<"trash", n>>

Points == {"idle", "dest", "source", "copy", "delete", "upsert", "movekey", "deleterow"}

(* meta: what HeadObject said of the source; copied: what was written to    *)
(* the destination.                                                         *)
Operation == [pc : Points, kind : Kinds \cup {None}, src : Keys \cup {None},
              dest : Keys \cup {None}, meta : Contents \cup {None},
              copied : Contents \cup {None}]

TypeOK ==
  /\ unescaped \in Unescapings
  /\ objects \in [Keys -> Contents \cup {None}]
  /\ records \in [Keys -> Contents \cup {None}]
  /\ req \in [Procs -> Operation]
  /\ lost \subseteq Contents /\ behind \subseteq Keys
  /\ raced \in BOOLEAN /\ orderly \in BOOLEAN /\ whole \in BOOLEAN

-----------------------------------------------------------------------------

Idle == [pc |-> "idle", kind |-> None, src |-> None, dest |-> None, meta |-> None,
         copied |-> None]

At(p, point) == req[p].pc = point
Moves(p, r) == req' = [req EXCEPT ![p] = r]
Goes(p, point) == Moves(p, [req[p] EXCEPT !.pc = point])
Ends(p) == Moves(p, Idle)

history == <<lost, raced, behind, orderly, whole>>

Begins(p, point, kind, src, dest) ==
  /\ At(p, "idle") /\ kind \in Kinds
  /\ Moves(p, [Idle EXCEPT !.pc = point, !.kind = kind, !.src = src, !.dest = dest])
  /\ orderly' = (orderly /\ \A q \in Procs : At(q, "idle"))
  /\ UNCHANGED <<unescaped, objects, records, lost, raced, behind, whole>>

Some(c) == {c} \ {None}

-----------------------------------------------------------------------------
(* Operations begin *)

(* The keys of another bucket behave like other names of this one. *)
Copy(p) ==
  \E m, n \in Names : Begins(p, "dest", "copy", Live(m), Live(n))

(* move and rename.  Only a move onto itself does without rejectIfExists.   *)
(* A rename takes keys under .trash/ too.                                   *)
Move(p) ==
  \E src, dest \in Keys :
    /\ src[1] = dest[1]
    /\ Begins(p, IF src = dest THEN "source" ELSE "dest", "move", src, dest)

Delete(p) ==
  \E n \in Names :
    \/ Begins(p, "source", "trash", Live(n), Trash(n))
    \/ Begins(p, "source", "permanent", Live(n), None)

RestoreTrash(p) ==
  \E n \in Names : Begins(p, "source", "restore", Trash(n), Live(n))

PurgeTrash(p) ==
  \E n \in Names : Begins(p, "source", "purge", Trash(n), None)

Mkdir(p) ==
  \E n \in Names : Begins(p, "dest", "mkdir", None, Live(n))

(* detail, the listings, the completion of an upload: a HEAD or a page and  *)
(* then a row for what it said.                                             *)
See(p) ==
  \E k \in Keys : Begins(p, "source", "see", k, k)

-----------------------------------------------------------------------------
(* Storage calls *)

(* rejectIfExists, and the second HEAD of a restore. *)
HeadDest(p) ==
  /\ At(p, "dest")
  /\ IF objects[req[p].dest] # None
       THEN Ends(p)
       ELSE Goes(p, IF req[p].kind \in {"restore", "mkdir"} THEN "copy" ELSE "source")
  /\ UNCHANGED <<unescaped, objects, records, history>>

(* Mutation: a restore does not look whether the original key is free. *)
AfterHeadUnchecked(kind) ==
  CASE kind \in {"copy", "move", "trash", "restore"} -> "copy"
    [] kind \in Erasing -> "delete"
    [] OTHER -> "upsert"

AfterHead(kind) ==
  CASE kind \in {"copy", "move", "trash"} -> "copy"
    [] kind = "restore" -> "dest"
    [] kind \in Erasing -> "delete"
    [] OTHER -> "upsert"

HeadSource(p) ==
  /\ At(p, "source")
  /\ IF objects[req[p].src] = None
       THEN Ends(p)
       ELSE Moves(p, [req[p] EXCEPT !.pc = AfterHead(req[p].kind),
                                    !.meta = objects[req[p].src]])
  /\ UNCHANGED <<unescaped, objects, records, history>>

(* Mutation: CopyObject asks for the metadata to be replaced. *)
CopiesOntoItselfToo == TRUE

(* Whether the service copies an object onto itself.  S3 and RGW refuse it  *)
(* unless the request replaces the metadata, which CopyObject of            *)
(* storage/client.go does not: ApplyMove relies on it.                      *)
CopiesOntoItself == FALSE

(* The key of the object that CopyObject copies; a marker is not a copy.    *)
CopiedFrom(r) == IF r.kind = "mkdir" THEN None ELSE unescaped[r.src]

(* What is written: the empty directory marker, or what the object that is  *)
(* copied is by now; None if the call fails.                                *)
Written(p) ==
  LET from == CopiedFrom(req[p]) IN
  IF req[p].kind = "mkdir" THEN {Empty}
  ELSE IF from = None THEN Contents \cup {None}
  ELSE IF from = req[p].dest /\ ~CopiesOntoItself THEN {None}
  ELSE {objects[from]}

(* CopyObject, PutObject.  A destination that has come into being since     *)
(* HeadDest is replaced; a deletion replaces an older object in the trash   *)
(* without looking.  A copy onto itself replaces nothing.                   *)
WriteDest(p) ==
  LET from == CopiedFrom(req[p])
      old == IF from = req[p].dest THEN None ELSE objects[req[p].dest]
  IN
  /\ At(p, "copy")
  /\ \E c \in Written(p) :
       \/ c = None /\ Ends(p) /\ UNCHANGED <<objects, lost, raced, orderly>>
       \/ /\ c # None
          /\ objects' = [objects EXCEPT ![req[p].dest] = c]
          /\ lost' = lost \cup Some(old)
          /\ raced' = (raced \/ (old # None /\ req[p].kind # "trash"))
          /\ orderly' = (orderly /\ from = req[p].src)
          /\ Moves(p, [req[p] EXCEPT !.copied = c,
               !.pc = IF req[p].kind \in Copying THEN "delete" ELSE "upsert"])
  /\ UNCHANGED <<unescaped, records, behind, whole>>

(* What an operation has copied from the key it is about to delete.         *)
CopiedOf(r) == IF r.kind \in Copying /\ unescaped[r.src] = r.src THEN {r.copied} ELSE {}

(* DeleteObject deletes whatever the source is by now, and succeeds when    *)
(* there is nothing.                                                        *)
DeleteSource(p) ==
  LET old == objects[req[p].src]
      erases == req[p].kind \in Erasing
  IN
  /\ At(p, "delete")
  /\ objects' = [objects EXCEPT ![req[p].src] = None]
  /\ lost' = lost \cup (Some(old) \ CopiedOf(req[p]))
  /\ raced' = (raced \/ old \notin {None, IF erases THEN req[p].meta ELSE req[p].copied})
  /\ Goes(p, IF erases THEN "deleterow" ELSE "movekey")
  /\ UNCHANGED <<unescaped, records, behind, orderly, whole>>

-----------------------------------------------------------------------------
(* Rows *)

(* Upsert, UpsertSeen *)
Upsert(p) ==
  LET k == req[p].dest IN
  /\ At(p, "upsert")
  /\ records' = [records EXCEPT
       ![k] = IF req[p].kind = "see" THEN req[p].meta ELSE req[p].copied]
  /\ behind' = behind \ {k}
  /\ Ends(p)
  /\ UNCHANGED <<unescaped, objects, lost, raced, orderly, whole>>

(* Mutation: the row of the source stays. *)
MovedLeaving(src, dest, c) == [records EXCEPT ![dest] = c]

(* The row of the destination goes, the row of the source gets its key, or  *)
(* a row is inserted if there is none.                                      *)
Moved(src, dest, c) == [records EXCEPT ![src] = None, ![dest] = c]

(* A move writes the etag of the copy, deletion and restore write what      *)
(* HeadSource saw.                                                          *)
MoveKey(p) ==
  /\ At(p, "movekey")
  /\ records' = Moved(req[p].src, req[p].dest,
                      IF req[p].kind = "move" THEN req[p].copied ELSE req[p].meta)
  /\ behind' = behind \ {req[p].src, req[p].dest}
  /\ Ends(p)
  /\ UNCHANGED <<unescaped, objects, lost, raced, orderly, whole>>

DeleteRow(p) ==
  /\ At(p, "deleterow")
  /\ records' = [records EXCEPT ![req[p].src] = None]
  /\ behind' = behind \ {req[p].src}
  /\ Ends(p)
  /\ UNCHANGED <<unescaped, objects, lost, raced, orderly, whole>>

-----------------------------------------------------------------------------
(* Everything else *)

(* A call fails, a check refuses the operation, the process goes away. *)
Abort(p) ==
  /\ ~At(p, "idle")
  /\ Ends(p)
  /\ whole' = (whole /\ ~(req[p].pc \in {"movekey", "deleterow"} \/
                          (At(p, "delete") /\ req[p].kind = "trash")))
  /\ UNCHANGED <<unescaped, objects, records, lost, raced, behind, orderly>>

(* An upload arrives: a presigned PUT, an editor, a multipart completion. *)
Put(k, c) ==
  /\ k[1] = "live"
  /\ objects' = [objects EXCEPT ![k] = c]
  /\ lost' = lost \cup Some(objects[k])
  /\ behind' = behind \cup {k}
  /\ orderly' = (orderly /\ \A p \in Procs : At(p, "idle"))
  /\ UNCHANGED <<unescaped, records, req, raced, whole>>

(* A bucket in use: its rows describe its objects. *)
Init ==
  /\ unescaped \in Unescapings
  /\ objects \in [Keys -> Contents \cup {None}]
  /\ records = objects
  /\ req = [p \in Procs |-> Idle]
  /\ lost = {} /\ raced = FALSE /\ behind = {}
  /\ orderly = TRUE /\ whole = TRUE

Start(p) ==
  Copy(p) \/ Move(p) \/ Delete(p) \/ RestoreTrash(p) \/ PurgeTrash(p) \/ Mkdir(p) \/ See(p)

Continue(p) ==
  \/ HeadDest(p) \/ HeadSource(p) \/ WriteDest(p) \/ DeleteSource(p)
  \/ Upsert(p) \/ MoveKey(p) \/ DeleteRow(p)

Next ==
  \/ \E p \in Procs : Start(p) \/ Continue(p) \/ Abort(p)
  \/ \E k \in Keys, c \in Contents : Put(k, c)

Spec == Init /\ [][Next]_vars

-----------------------------------------------------------------------------
(* Properties *)

Places(c) == {k \in Keys : objects[k] = c}

(* However many operations overlap, fail and repeat: a content disappears   *)
(* from the bucket only if an object that held it was erased on request,    *)
(* replaced, or deleted by an operation that had not copied it.  A chain or *)
(* a cycle of moves, deletions and restores never deletes the last copy.    *)
NothingVanishes ==
  [][\A c \in Contents : Places(c) # {} /\ Places(c)' = {} => c \in lost']_vars

(* Without overlap, and as long as nothing was copied from a key with a     *)
(* %XX, no operation replaces or deletes what it has not seen; only a       *)
(* deletion replaces an older object in the trash.                          *)
NoneRaced == orderly => ~raced

Quiet == \A p \in Procs : At(p, "idle")

Described(k) ==
  records[k] # None => objects[k] # None /\ (records[k] = objects[k] \/ k \in behind)

(* Without overlap, as long as nothing was copied from a key with a %XX and *)
(* no operation stopped between the bucket and its rows, a row has an       *)
(* object and describes it, unless that was uploaded since.  A copy that    *)
(* fails before its row and a move that fails before it deletes do no harm. *)
RecordsDescribeObjects ==
  orderly /\ whole /\ Quiet => \A k \in Keys : Described(k)

-----------------------------------------------------------------------------
(* The inductive invariant behind the theorems of ObjectOps_proofs *)

(* Which operation can be where with what. *)
InPlace(r) ==
  /\ r.pc = "dest" => r.kind \in {"copy", "move", "restore", "mkdir"}
  /\ r.pc = "source" => r.kind \in Copying \cup Erasing \cup {"copy", "see"}
  /\ r.pc = "copy" => r.kind \in Copying \cup {"copy", "mkdir"}
  /\ r.pc = "delete" => r.kind \in Copying \cup Erasing
  /\ r.pc = "upsert" => r.kind \in {"copy", "mkdir", "see"}
  /\ r.pc = "movekey" => r.kind \in Copying
  /\ r.pc = "deleterow" => r.kind \in Erasing
  /\ r.pc # "idle" /\ r.kind # "mkdir" => r.src \in Keys
  /\ r.pc # "idle" /\ r.kind \notin Erasing => r.dest \in Keys
  /\ r.pc = "delete" /\ r.kind \in Copying => r.copied \in Contents
  /\ r.kind = "see" => r.src = r.dest
  /\ r.kind = "mkdir" => r.src = None

Control == \A p \in Procs : InPlace(req[p])

(* Operations that are about to delete a copy they have made elsewhere. *)
Pending(c) == {p \in Procs : At(p, "delete") /\ c \in CopiedOf(req[p])}

(* A content that is not lost has more places than operations that will     *)
(* delete one of them.                                                      *)
Spread ==
  \A c \in Contents :
    c \notin lost => Pending(c) = {} \/ Cardinality(Pending(c)) < Cardinality(Places(c))

Free(r) == r.src = r.dest \/ objects[r.dest] = None

(* What an operation that is orderly knows of the bucket. *)
Knows(r) ==
  /\ r.pc = "source" /\ r.kind \in {"copy", "move"} => Free(r)
  /\ r.pc = "copy" /\ r.kind # "trash" => Free(r)
  /\ (r.pc = "copy" /\ r.kind # "mkdir") \/ (r.pc = "dest" /\ r.kind = "restore") =>
       r.meta = objects[r.src] /\ r.meta # None
  /\ r.pc = "delete" => r.meta = objects[r.src] /\ r.meta # None
  /\ r.pc \in {"delete", "movekey"} /\ r.kind \in Copying =>
       r.copied = r.meta /\ objects[r.dest] = r.copied /\ r.src # r.dest
  /\ r.pc = "movekey" => r.copied # None
  /\ r.pc \in {"movekey", "deleterow"} => objects[r.src] = None
  /\ r.pc = "upsert" =>
       /\ objects[r.dest] # None
       /\ objects[r.dest] = IF r.kind = "see" THEN r.meta ELSE r.copied

Serial ==
  orderly =>
    /\ \A p, q \in Procs : p # q => At(p, "idle") \/ At(q, "idle")
    /\ \A p \in Procs : Knows(req[p])

(* Keys whose row an operation still has to bring up to date. *)
Unsettled(r) ==
  CASE r.pc = "movekey" -> {r.src, r.dest}
    [] r.pc = "deleterow" -> {r.src}
    [] r.pc = "delete" /\ r.kind = "trash" -> {r.dest}
    [] OTHER -> {}

RowsFollow ==
  orderly /\ whole => \A k \in Keys : Described(k) \/ \E p \in Procs : k \in Unsettled(req[p])

IInv == TypeOK /\ Control /\ Spread /\ Serial /\ NoneRaced /\ RowsFollow
=============================================================================
