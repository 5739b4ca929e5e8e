------------------------------ MODULE Versions ------------------------------
(***************************************************************************)
(* The versions of one object: the rows of file_versions, the archived     *)
(* copies under .versions/, the object itself, and the requests that       *)
(* archive it before they overwrite it (text saves of internal/edit and    *)
(* restores of internal/versions) or remove a version.  Storage keys and   *)
(* rows are per object, so one object is enough.                           *)
(*                                                                         *)
(* Archiving is four separate steps (look at the object, read the next     *)
(* number, copy, insert the row), and the overwriting is a fifth.  Nothing *)
(* holds them together: not a transaction, and not the edit lock, which    *)
(* lets the saves of one session overlap and which a restore only looks at.*)
(*                                                                         *)
(* The object's key matters in one way: CopyObject sends the key it copies  *)
(* from unescaped, and the service unescapes it.  Contents stand for bytes  *)
(* and for their etag alike.                                                *)
(***************************************************************************)
EXTENDS Integers, FiniteSets

CONSTANTS
  Handlers,     \* what uses the object: "save", "presign" (text saves), "restore",
                \* "remove", "other" (uploads, deletions)
  Procs,        \* requests that can be in flight at the same time
  Contents,     \* what the object can contain
  RecordIds,    \* ids of file_versions rows
  MaxVersions,  \* bound on version numbers
  Keys,         \* the forms of keys the object may have, of KeyForms
  None          \* no object, no row

(* A key that url.PathEscape leaves as it is; one that it changes, such as  *)
(* every key with a folder in it; and one that holds a literal %XX, which   *)
(* is more than escaping changes: unescaping changes it too.                *)
KeyForms == {"plain", "escaped", "percent"}

ASSUME VersionAssumption ==
  /\ Handlers \subseteq {"save", "presign", "restore", "remove", "other"}
  /\ MaxVersions \in Nat /\ Keys \subseteq KeyForms
  /\ None \notin Contents /\ None \notin RecordIds

VARIABLES
  key,          \* the form of the object's key
  live,         \* the object, or None
  copies,       \* .versions/{bucket}/{key}/v{n}: n -> copy, or None
  rows,         \* file_versions: id -> row
  req,          \* the requests in flight
  overwritten,  \* history: what text saves and restores overwrote
  discarded,    \* history: copies that removals deleted
  alone         \* history: no two uses of the object overlapped so far

vars == <<key, live, copies, rows, req, overwritten, discarded, alone>>

-----------------------------------------------------------------------------
(* Types *)

Numbers == 1 .. MaxVersions

Row == [status : {"unused", "present", "deleted"}, no : 0 .. MaxVersions,
        etag : Contents \cup {None}]

Points == {"idle", "head", "number", "copy", "insert", "write", "locked", "version",
           "live", "deletecopy", "deleterow"}

(* What a request holds: the number and row of its archive, the etag it     *)
(* read, the version it restores or removes.                                *)
Request == [pc : Points, kind : {"none", "save", "presign", "restore", "remove"},
            no : 0 .. MaxVersions, rec : RecordIds \cup {None},
            etag : Contents \cup {None}, target : 0 .. MaxVersions]

Present == {i \in RecordIds : rows[i].status = "present"}

TypeOK ==
  /\ key \in Keys
  /\ live \in Contents \cup {None}
  /\ copies \in [Numbers -> Contents \cup {None}]
  /\ rows \in [RecordIds -> Row]
  /\ \A i \in Present : rows[i].no \in Numbers /\ rows[i].etag \in Contents
  /\ req \in [Procs -> Request]
  /\ overwritten \subseteq Contents /\ discarded \subseteq Contents
  /\ alone \in BOOLEAN

-----------------------------------------------------------------------------

NoRow == [status |-> "unused", no |-> 0, etag |-> None]

Idle == [pc |-> "idle", kind |-> "none", no |-> 0, rec |-> None, etag |-> None,
         target |-> 0]

At(p, point) == req[p].pc = point
Moves(p, r) == req' = [req EXCEPT ![p] = r]
Goes(p, point) == Moves(p, [req[p] EXCEPT !.pc = point])
Ends(p) == Moves(p, Idle)

Begins(p, r) ==
  /\ At(p, "idle")
  /\ Moves(p, r)
  /\ alone' = (alone /\ \A q \in Procs : At(q, "idle"))
  /\ UNCHANGED <<key, live, copies, rows, overwritten, discarded>>

(* What CopyObject finds where CopySource points, None if nothing: a        *)
(* literal %XX in the object's key makes it the object of another key, and  *)
(* the escaped key in the key of a copy makes it nothing, or, with a %XX,   *)
(* a copy of another object.                                                *)
Source == IF key = "percent" THEN Contents \cup {None} ELSE {live}

CopySource(n) == CASE key = "plain"   -> {copies[n]}
                   [] key = "escaped" -> {None}
                   [] key = "percent" -> Contents \cup {None}

Used == {rows[i].no : i \in Present}
Archived == {copies[rows[i].no] : i \in Present}
Restorable == {c \in Contents : \E i \in Present : CopySource(rows[i].no) = {c}}

Overwrites(c) ==
  /\ live' = c
  /\ overwritten' = overwritten \cup ({live} \ {None})

-----------------------------------------------------------------------------
(* Archive *)

(* HeadObject gives the etag of the row. *)
Head(p) ==
  /\ At(p, "head")
  /\ IF live = None
       THEN Ends(p)
       ELSE Moves(p, [req[p] EXCEPT !.pc = "number", !.etag = live])
  /\ UNCHANGED <<key, live, copies, rows, overwritten, discarded, alone>>

(* Mutation: the rows are counted. *)
IsNextByCount(n) == n = Cardinality(Present) + 1

(* Mutation: the first number is 0. *)
IsNextFromZero(n) == (\A k \in Used : k < n) /\ (n = 0 \/ n - 1 \in Used)

(* COALESCE(MAX(version_no), 0) + 1 *)
IsNext(n) == (\A k \in Used : k < n) /\ (n = 1 \/ n - 1 \in Used)

(* NextNo reads the number; nothing reserves it. *)
NextNo(p) ==
  /\ At(p, "number")
  /\ \E n \in 0 .. MaxVersions :
       IsNext(n) /\ Moves(p, [req[p] EXCEPT !.pc = "copy", !.no = n])
  /\ UNCHANGED <<key, live, copies, rows, overwritten, discarded, alone>>

(* Mutation: the error of a copy that found no object is ignored. *)
CopyIgnoringError(p) ==
  /\ At(p, "copy")
  /\ Goes(p, "insert")
  /\ \E c \in Source : copies' = [copies EXCEPT ![req[p].no] = c]
  /\ UNCHANGED <<key, live, rows, overwritten, discarded, alone>>

(* CopyObject writes whatever is at its source by now, over whatever the    *)
(* copy under this number was.                                              *)
Copy(p) ==
  /\ At(p, "copy")
  /\ \E c \in Source :
       \/ c = None /\ Ends(p) /\ UNCHANGED copies
       \/ c # None /\ Goes(p, "insert") /\ copies' = [copies EXCEPT ![req[p].no] = c]
  /\ UNCHANGED <<key, live, rows, overwritten, discarded, alone>>

(* Mutation: no unique index. *)
InsertTwice(p) ==
  /\ At(p, "insert")
  /\ \E i \in RecordIds :
       /\ rows[i].status = "unused"
       /\ rows' = [rows EXCEPT ![i] =
            [status |-> "present", no |-> req[p].no, etag |-> req[p].etag]]
       /\ Moves(p, [req[p] EXCEPT !.pc = "write", !.rec = i, !.etag = None])
  /\ UNCHANGED <<key, live, copies, overwritten, discarded, alone>>

(* Insert, unless a row has the number by now: then the request fails, and  *)
(* the copy stays as it left it.                                            *)
Insert(p) ==
  /\ At(p, "insert")
  /\ \/ req[p].no \in Used /\ Ends(p) /\ UNCHANGED rows
     \/ /\ req[p].no \notin Used
        /\ \E i \in RecordIds :
             /\ rows[i].status = "unused"
             /\ rows' = [rows EXCEPT ![i] =
                  [status |-> "present", no |-> req[p].no, etag |-> req[p].etag]]
             /\ Moves(p, [req[p] EXCEPT !.pc = "write", !.rec = i, !.etag = None])
  /\ UNCHANGED <<key, live, copies, overwritten, discarded, alone>>

-----------------------------------------------------------------------------
(* Text saves (internal/edit) *)

(* textSave, textPresignSave, past the checks of session and lock. *)
Save(p) ==
  \E kind \in Handlers \cap {"save", "presign"} :
    Begins(p, [Idle EXCEPT !.pc = "head", !.kind = kind])

(* PutObject, by the handler or with the presigned URL, which may be used   *)
(* more than once: a presigned save does all that the other one does.       *)
Put(p) ==
  /\ At(p, "write") /\ req[p].kind \in {"save", "presign"}
  /\ \E c \in Contents : Overwrites(c)
  /\ \/ Ends(p) /\ UNCHANGED alone
     \/ req[p].kind = "presign" /\ UNCHANGED req /\ alone' = FALSE
  /\ UNCHANGED <<key, copies, rows, discarded>>

-----------------------------------------------------------------------------
(* Restore *)

(* load *)
Restore(p, i) ==
  /\ "restore" \in Handlers /\ i \in Present
  /\ Begins(p, [Idle EXCEPT !.pc = "locked", !.kind = "restore", !.target = rows[i].no])

(* A locked object is refused.  The lock itself is in EditLocks.            *)
CheckLock(p) ==
  /\ At(p, "locked")
  /\ Ends(p) \/ Goes(p, "version")
  /\ UNCHANGED <<key, live, copies, rows, overwritten, discarded, alone>>

HeadVersion(p) ==
  /\ At(p, "version")
  /\ IF copies[req[p].target] = None THEN Ends(p) ELSE Goes(p, "live")
  /\ UNCHANGED <<key, live, copies, rows, overwritten, discarded, alone>>

(* Mutation: the object is not archived. *)
HeadLiveOnly(p) ==
  /\ At(p, "live")
  /\ Goes(p, "write")
  /\ UNCHANGED <<key, live, copies, rows, overwritten, discarded, alone>>

(* Only an object that is there is archived first. *)
HeadLive(p) ==
  /\ At(p, "live")
  /\ Goes(p, IF live = None THEN "write" ELSE "head")
  /\ UNCHANGED <<key, live, copies, rows, overwritten, discarded, alone>>

(* CopyObject back. *)
RestoreCopy(p) ==
  /\ At(p, "write") /\ req[p].kind = "restore"
  /\ \E c \in CopySource(req[p].target) :
       \/ c = None /\ UNCHANGED <<live, overwritten>>
       \/ c # None /\ Overwrites(c)
  /\ Ends(p)
  /\ UNCHANGED <<key, copies, rows, discarded, alone>>

-----------------------------------------------------------------------------
(* Remove *)

(* load *)
Remove(p, i) ==
  /\ "remove" \in Handlers /\ i \in Present
  /\ Begins(p, [Idle EXCEPT !.pc = "deletecopy", !.kind = "remove",
                            !.target = rows[i].no, !.rec = i])

(* DeleteObject succeeds whether or not there is a copy. *)
DeleteCopy(p) ==
  /\ At(p, "deletecopy")
  /\ copies' = [copies EXCEPT ![req[p].target] = None]
  /\ discarded' = discarded \cup ({copies[req[p].target]} \ {None})
  /\ Goes(p, "deleterow")
  /\ UNCHANGED <<key, live, rows, overwritten, alone>>

DeleteRow(p) ==
  /\ At(p, "deleterow")
  /\ rows' = [rows EXCEPT ![req[p].rec].status = "deleted"]
  /\ Ends(p)
  /\ UNCHANGED <<key, live, copies, overwritten, discarded, alone>>

-----------------------------------------------------------------------------
(* Everything else *)

(* A statement or storage call fails, the client or the process goes away.  *)
Abort(p) ==
  /\ ~At(p, "idle")
  /\ Ends(p)
  /\ UNCHANGED <<key, live, copies, rows, overwritten, discarded, alone>>

(* Uploads, Office callbacks, copies onto the object; deletion.  None of    *)
(* them archives.                                                           *)
OtherWrite ==
  /\ "other" \in Handlers
  /\ live' \in Contents \cup {None}
  /\ alone' = (alone /\ \A q \in Procs : At(q, "idle"))
  /\ UNCHANGED <<key, copies, rows, req, overwritten, discarded>>

Init ==
  /\ key \in Keys
  /\ live \in Contents \cup {None}
  /\ copies = [n \in Numbers |-> None]
  /\ rows = [i \in RecordIds |-> NoRow]
  /\ req = [p \in Procs |-> Idle]
  /\ overwritten = {} /\ discarded = {}
  /\ alone = TRUE

ArchiveStep(p) == Head(p) \/ NextNo(p) \/ Copy(p) \/ Insert(p)

SaveStep(p) == Save(p) \/ Put(p)

RestoreStep(p) ==
  \/ \E i \in RecordIds : Restore(p, i)
  \/ CheckLock(p) \/ HeadVersion(p) \/ HeadLive(p) \/ RestoreCopy(p)

RemoveStep(p) ==
  \/ \E i \in RecordIds : Remove(p, i)
  \/ DeleteCopy(p) \/ DeleteRow(p)

Next ==
  \/ \E p \in Procs :
       ArchiveStep(p) \/ SaveStep(p) \/ RestoreStep(p) \/ RemoveStep(p) \/ Abort(p)
  \/ OtherWrite

Spec == Init /\ [][Next]_vars

-----------------------------------------------------------------------------
(* Properties *)

(* As long as no copy was ever removed, the versions of an object are       *)
(* numbered 1, 2, 3, ... without a gap and each of them has its copy,       *)
(* however the archives of concurrent requests interleave and fail.         *)
Numbered ==
  discarded = {} =>
    /\ \A n \in Used : 1 .. n \subseteq Used
    /\ None \notin Archived

(* As long as no copy was ever removed, no two requests that are about to   *)
(* overwrite the object have archived it under the same number.             *)
OwnVersions ==
  discarded = {} =>
    \A p, q \in Procs :
      At(p, "write") /\ At(q, "write") /\ req[p].no = req[q].no /\ req[p].no # 0 => p = q

(* If requests on the object never overlap, and its key holds no %XX, the   *)
(* row of a version describes its copy, or the copy was removed; whatever   *)
(* steps failed in between.                                                 *)
RecordsDescribeCopies ==
  alone /\ key # "percent" => \A i \in Present :
    \/ copies[rows[i].no] = rows[i].etag
    \/ copies[rows[i].no] = None /\ rows[i].etag \in discarded

(* If requests on the object never overlap, what a text save or a restore   *)
(* overwrites is the copy of a version until that is removed, and restoring *)
(* that version writes it back if escaping does not change the key.  With   *)
(* a folder in the key the copy is kept, but no restore finds it; with a    *)
(* %XX neither is promised.                                                 *)
ArchivesKept ==
  alone =>
    /\ key # "percent" => overwritten \subseteq Archived \cup discarded
    /\ key = "plain" => overwritten \subseteq Restorable \cup discarded

(* The same whether or not requests overlap, as README.md:55 has it:        *)
(* versions are the archives copied before an object is overwritten, and    *)
(* text saves and restores archive first.                                   *)
OverwrittenIsArchived == overwritten \subseteq Archived \cup discarded

-----------------------------------------------------------------------------
(* The inductive invariant behind the theorems of Versions_proofs *)

(* What a request holds where. *)
Control ==
  \A p \in Procs :
    /\ req[p].pc \in {"number", "copy", "insert"} => req[p].etag \in Contents
    /\ req[p].pc \in {"copy", "insert"} => req[p].no \in Numbers
    /\ req[p].kind = "restore" => req[p].target \in Numbers
    /\ req[p].pc \in {"locked", "version", "live"} =>
         req[p].rec = None /\ req[p].no = 0 /\ req[p].kind = "restore"
    /\ At(p, "write") /\ req[p].rec = None => req[p].no = 0 /\ req[p].kind = "restore"
    /\ At(p, "write") /\ req[p].rec # None =>
         rows[req[p].rec].status # "unused" /\ rows[req[p].rec].no = req[p].no
    /\ req[p].pc \in {"deletecopy", "deleterow"} =>
         /\ req[p].rec \in RecordIds /\ rows[req[p].rec].status # "unused"
         /\ req[p].target \in Numbers /\ rows[req[p].rec].no = req[p].target

UniqueNumbers == \A i, j \in Present : rows[i].no = rows[j].no => i = j

NothingDeleted ==
  discarded = {} =>
    /\ \A i \in RecordIds : rows[i].status # "deleted"
    /\ \A p \in Procs : ~At(p, "deleterow")

(* A number that was read leaves no gap, and a copy once made is there.     *)
NumbersFit ==
  discarded = {} => \A p \in Procs :
    /\ req[p].pc \in {"copy", "insert"} => 1 .. (req[p].no - 1) \subseteq Used
    /\ At(p, "insert") => copies[req[p].no] # None

(* The row a request inserted is its own. *)
OwnRows ==
  \A p, q \in Procs :
    At(p, "write") /\ At(q, "write") /\ req[p].rec = req[q].rec /\ req[p].rec # None => p = q

(* How far a request that is alone has come: its copy is the object, unless *)
(* the key made it another one.                                             *)
Serial ==
  alone =>
    /\ \A p, q \in Procs : p # q => At(p, "idle") \/ At(q, "idle")
    /\ \A p \in Procs :
         /\ req[p].pc \in {"number", "copy", "insert"} => req[p].etag = live
         /\ req[p].pc \in {"copy", "insert"} => req[p].no \notin Used
         /\ At(p, "insert") /\ key # "percent" => copies[req[p].no] = live
         /\ At(p, "write") =>
              IF req[p].rec = None THEN live = None
              ELSE /\ req[p].rec \in Present
                   /\ key # "percent" => copies[req[p].no] = live
         /\ req[p].pc \in {"deletecopy", "deleterow"} => req[p].rec \in Present
         /\ At(p, "deleterow") => copies[req[p].target] = None

(* What is kept, whether or not a restore finds it. *)
CopiesKept == alone /\ key # "percent" => overwritten \subseteq Archived \cup discarded

IInv ==
  /\ TypeOK /\ Control /\ UniqueNumbers /\ NothingDeleted /\ NumbersFit /\ Numbered
  /\ OwnRows /\ Serial /\ RecordsDescribeCopies /\ CopiesKept
=============================================================================
