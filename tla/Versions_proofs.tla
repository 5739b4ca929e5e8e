-------------------------- MODULE Versions_proofs --------------------------
(***************************************************************************)
(* The theorems of Versions, for any number of requests, contents, rows    *)
(* and version numbers, and for keys that escaping changes or not.         *)
(*                                                                         *)
(* Steps that only read move one request: QuietStep deals with them once.  *)
(* The steps that write (Copy, Insert, Put, RestoreCopy, DeleteCopy,       *)
(* DeleteRow, OtherWrite) have a lemma each.                               *)
(***************************************************************************)
EXTENDS Versions, TLAPS

-----------------------------------------------------------------------------
(* Steps that only read *)

(* A request that only read may become r. *)
Fits(r) ==
  /\ r \in Request /\ r.pc \notin {"insert", "deleterow"}
  /\ r.pc \in {"number", "copy"} => r.etag \in Contents
  /\ r.pc = "copy" => r.no \in Numbers /\ (discarded = {} => 1 .. (r.no - 1) \subseteq Used)
  /\ r.kind = "restore" => r.target \in Numbers
  /\ r.pc \in {"locked", "version", "live", "write"} =>
       r.rec = None /\ r.no = 0 /\ r.kind = "restore"
  /\ r.pc = "deletecopy" =>
       /\ r.rec \in RecordIds /\ rows[r.rec].status # "unused"
       /\ r.target \in Numbers /\ rows[r.rec].no = r.target

(* And if it is alone: *)
FitsAlone(r) ==
  /\ r.pc \in {"number", "copy"} => r.etag = live
  /\ r.pc = "copy" => r.no \notin Used
  /\ r.pc = "write" => live = None
  /\ r.pc = "deletecopy" => r.rec \in Present

LEMMA QuietStep ==
  ASSUME IInv, NEW p \in Procs, NEW r, Fits(r), Moves(p, r),
         UNCHANGED <<key, live, copies, rows, overwritten, discarded>>,
         alone' \in BOOLEAN, alone' => alone,
         alone' => FitsAlone(r) /\ \A q \in Procs : q # p => At(q, "idle")
  PROVE  IInv'
<1> USE DEF IInv
<1>1. /\ req' \in [Procs -> Request] /\ req \in [Procs -> Request]
      /\ req'[p] = r /\ \A q \in Procs : q # p => req'[q] = req[q]
  BY DEF TypeOK, Moves, Fits
<1>2. Present' = Present /\ Used' = Used /\ Archived' = Archived
  BY DEF Present, Used, Archived
<1>3. TypeOK'
  BY <1>1, <1>2 DEF TypeOK
<1>4. Control'
  BY <1>1 DEF Control, Fits, At
<1>5. UniqueNumbers' /\ Numbered'
  BY <1>2 DEF UniqueNumbers, Numbered
<1>6. NothingDeleted'
  BY <1>1 DEF NothingDeleted, At, Fits
<1>7. NumbersFit'
  BY <1>1, <1>2 DEF NumbersFit, At, Fits
<1>8. OwnRows'
  BY <1>1 DEF OwnRows, At, Fits
<1>9. Serial'
  BY <1>1, <1>2 DEF Serial, At, Fits, FitsAlone
<1>10. RecordsDescribeCopies' /\ CopiesKept'
  BY <1>2 DEF RecordsDescribeCopies, CopiesKept
<1>11. QED
  BY <1>3, <1>4, <1>5, <1>6, <1>7, <1>8, <1>9, <1>10

(* What can be restored is what is archived, if escaping leaves the key. *)
LEMMA RestorableArchived ==
  ASSUME TypeOK
  PROVE  key = "plain" => Restorable = Archived \cap Contents
BY DEF Restorable, Archived, CopySource

LEMMA SourceType ==
  ASSUME TypeOK, NEW c \in Source
  PROVE  c \in Contents \cup {None} /\ (key # "percent" => c = live)
BY DEF Source, TypeOK

(* A request may always end. *)
LEMMA IdleFits == Idle \in Request /\ Fits(Idle) /\ FitsAlone(Idle) /\ Idle.pc = "idle"
<1>1. Idle \in Request
  BY VersionAssumption DEF Idle, Request, Points
<1>2. QED
  BY <1>1 DEF Idle, Fits, FitsAlone

(* What is known of the request that moves. *)
LEMMA MoverFacts ==
  ASSUME IInv, NEW p \in Procs
  PROVE  /\ req[p] \in Request
         /\ req[p].kind = "restore" => req[p].target \in Numbers
         /\ req[p].pc \in {"number", "copy", "insert"} => req[p].etag \in Contents
         /\ req[p].pc \in {"copy", "insert"} => req[p].no \in Numbers
         /\ req[p].pc \in {"locked", "version", "live"} =>
              req[p].rec = None /\ req[p].no = 0 /\ req[p].kind = "restore"
         /\ alone /\ ~At(p, "idle") => \A q \in Procs : q # p => At(q, "idle")
BY DEF IInv, TypeOK, Control, Serial

(* A step of a request under way that only reads. *)
LEMMA ReadStep ==
  ASSUME IInv, NEW p \in Procs, ~At(p, "idle"), NEW r, Fits(r), Moves(p, r),
         UNCHANGED <<key, live, copies, rows, overwritten, discarded, alone>>,
         alone => FitsAlone(r)
  PROVE  IInv'
<1>1. alone' \in BOOLEAN /\ (alone' => alone)
  BY DEF IInv, TypeOK
<1>2. QED
  BY <1>1, MoverFacts, QuietStep

LEMMA EndStep ==
  ASSUME IInv, NEW p \in Procs, ~At(p, "idle"), Ends(p),
         UNCHANGED <<key, live, copies, rows, overwritten, discarded, alone>>
  PROVE  IInv'
BY IdleFits, ReadStep DEF Ends

(* A request that begins. *)
LEMMA BeginStep ==
  ASSUME IInv, NEW p \in Procs, NEW r, Begins(p, r), Fits(r), FitsAlone(r)
  PROVE  IInv'
<1>1. alone \in BOOLEAN
  BY DEF IInv, TypeOK
<1>2. alone' \in BOOLEAN /\ (alone' => alone /\ \A q \in Procs : At(q, "idle"))
  BY <1>1 DEF Begins
<1>3. QED
  BY <1>2, QuietStep DEF Begins

-----------------------------------------------------------------------------
(* Archive *)

LEMMA HeadKeeps ==
  ASSUME IInv, NEW p \in Procs, Head(p)
  PROVE  IInv'
<1> DEFINE r == [req[p] EXCEPT !.pc = "number", !.etag = live]
<1>1. ~At(p, "idle") /\ UNCHANGED <<key, live, copies, rows, overwritten, discarded, alone>>
  BY DEF Head, At
<1>2. CASE live = None
  BY <1>1, <1>2, EndStep DEF Head
<1>3. CASE live # None
  <2>1. live \in Contents
    BY <1>3 DEF IInv, TypeOK
  <2>2. /\ r \in Request /\ r.pc = "number" /\ r.etag = live /\ r.kind = req[p].kind
        /\ r.target = req[p].target
    BY <2>1, MoverFacts DEF Request, Points
  <2>3. Fits(r) /\ FitsAlone(r)
    BY <2>1, <2>2, MoverFacts DEF Fits, FitsAlone
  <2>4. Moves(p, r)
    BY <1>3 DEF Head
  <2>5. QED
    BY <1>1, <2>3, <2>4, ReadStep
<1>4. QED
  BY <1>2, <1>3

LEMMA NextNoKeeps ==
  ASSUME IInv, NEW p \in Procs, NextNo(p)
  PROVE  IInv'
<1>1. PICK n \in 0 .. MaxVersions :
        IsNext(n) /\ Moves(p, [req[p] EXCEPT !.pc = "copy", !.no = n])
  BY DEF NextNo
<1> DEFINE r == [req[p] EXCEPT !.pc = "copy", !.no = n]
<1>2. Used \subseteq Numbers
  BY DEF IInv, TypeOK, Used
<1>3. n \in Numbers /\ n \notin Used
  BY <1>1, <1>2, VersionAssumption DEF IsNext, Numbers
<1>4. /\ r \in Request /\ r.pc = "copy" /\ r.no = n /\ r.etag = req[p].etag
      /\ r.kind = req[p].kind /\ r.target = req[p].target
  BY <1>3, MoverFacts DEF Request, Points, Numbers
<1>5. discarded = {} => 1 .. (n - 1) \subseteq Used
  BY <1>1, <1>3 DEF IInv, Numbered, IsNext, Numbers
<1>6. /\ ~At(p, "idle") /\ UNCHANGED <<key, live, copies, rows, overwritten, discarded, alone>>
      /\ req[p].pc = "number"
  BY DEF NextNo, At
<1>7. Fits(r)
  BY <1>3, <1>4, <1>5, <1>6, MoverFacts DEF Fits
<1>8. alone => FitsAlone(r)
  BY <1>3, <1>4, <1>6 DEF FitsAlone, IInv, Serial
<1>9. Moves(p, r)
  BY <1>1
<1>10. QED
  BY <1>6, <1>7, <1>8, <1>9, ReadStep

(* Copying makes sure of the copy, and touches no version if it is alone. *)
LEMMA CopyKeeps ==
  ASSUME IInv, NEW p \in Procs, Copy(p)
  PROVE  IInv'
<1> DEFINE n == req[p].no
           r == [req[p] EXCEPT !.pc = "insert"]
<1> USE DEF IInv
<1>0. PICK c \in Source :
        \/ c = None /\ Ends(p) /\ UNCHANGED copies
        \/ c # None /\ Goes(p, "insert") /\ copies' = [copies EXCEPT ![n] = c]
  BY DEF Copy
<1>1. CASE c = None
  BY <1>0, <1>1, EndStep DEF Copy, At
<1>2. CASE c # None
  <2>1. /\ req[p].pc = "copy" /\ Moves(p, r)
        /\ copies' = [copies EXCEPT ![n] = c]
        /\ UNCHANGED <<key, live, rows, overwritten, discarded, alone>>
    BY <1>0, <1>2 DEF Copy, Goes, At
  <2>2. /\ n \in Numbers /\ c \in Contents /\ req[p].etag \in Contents
        /\ key # "percent" => c = live
    BY <1>2, <2>1, MoverFacts, SourceType
  <2>3. /\ r \in Request /\ r.pc = "insert" /\ r.no = n /\ r.etag = req[p].etag
        /\ r.kind = req[p].kind /\ r.target = req[p].target /\ r.rec = req[p].rec
    BY MoverFacts DEF Request, Points
  <2>4. /\ req' \in [Procs -> Request] /\ req'[p] = r
        /\ \A q \in Procs : q # p => req'[q] = req[q]
    BY <2>1, <2>3 DEF TypeOK, Moves
  <2> HIDE DEF r
  <2>5. /\ copies' \in [Numbers -> Contents \cup {None}] /\ copies'[n] = c
        /\ \A k \in Numbers : k # n => copies'[k] = copies[k]
    BY <2>1, <2>2 DEF TypeOK
  <2>6. Present' = Present /\ Used' = Used
    BY <2>1 DEF Present, Used
  <2>7. alone => n \notin Used /\ req[p].etag = live /\ \A q \in Procs : q # p => At(q, "idle")
    BY <2>1 DEF Serial, At
  <2>8. TypeOK'
    BY <2>1, <2>4, <2>5, <2>6 DEF TypeOK
  <2>9. Control'
    BY <2>1, <2>2, <2>3, <2>4 DEF Control, At
  <2>10. UniqueNumbers' /\ NothingDeleted' /\ OwnRows'
    BY <2>1, <2>3, <2>4, <2>6 DEF UniqueNumbers, NothingDeleted, OwnRows, At
  <2>11. NumbersFit'
    BY <1>2, <2>1, <2>2, <2>3, <2>4, <2>5, <2>6 DEF NumbersFit, Control, At
  <2>12. Numbered'
    <3>1. \A i \in Present : rows[i].no \in Numbers
      BY DEF TypeOK
    <3>2. None \notin Archived => None \notin Archived'
      BY <1>2, <2>1, <2>2, <2>5, <2>6, <3>1 DEF Archived
    <3>3. QED
      BY <2>1, <2>6, <3>2 DEF Numbered
  <2>13. Serial'
    BY <2>1, <2>2, <2>3, <2>4, <2>5, <2>6, <2>7 DEF Serial, At
  <2>14. alone => \A i \in Present : copies'[rows[i].no] = copies[rows[i].no]
    BY <2>5, <2>7 DEF TypeOK, Used
  <2>15. RecordsDescribeCopies'
    BY <2>1, <2>6, <2>14 DEF RecordsDescribeCopies
  <2>16. CopiesKept'
    BY <2>1, <2>6, <2>14 DEF CopiesKept, Archived
  <2>17. QED
    BY <2>8, <2>9, <2>10, <2>11, <2>12, <2>13, <2>15, <2>16
<1>3. QED
  BY <1>1, <1>2

(* Inserting adds one version, whose copy is there. *)
LEMMA InsertKeeps ==
  ASSUME IInv, NEW p \in Procs, Insert(p)
  PROVE  IInv'
<1> DEFINE n == req[p].no
<1> USE DEF IInv
<1>1. /\ req[p].pc = "insert" /\ n \in Numbers /\ req[p].etag \in Contents
      /\ UNCHANGED <<key, live, copies, overwritten, discarded, alone>>
  BY MoverFacts DEF Insert, At
<1>2. CASE Ends(p) /\ UNCHANGED rows
  BY <1>1, <1>2, EndStep DEF At
<1>3. ASSUME n \notin Used, NEW i \in RecordIds, rows[i].status = "unused",
             rows' = [rows EXCEPT ![i] =
               [status |-> "present", no |-> n, etag |-> req[p].etag]],
             Moves(p, [req[p] EXCEPT !.pc = "write", !.rec = i, !.etag = None])
      PROVE  IInv'
  <2> DEFINE r == [req[p] EXCEPT !.pc = "write", !.rec = i, !.etag = None]
  <2>1. /\ r \in Request /\ r.pc = "write" /\ r.no = n /\ r.rec = i
        /\ r.kind = req[p].kind /\ r.target = req[p].target
    BY MoverFacts DEF Request, Points
  <2>2. /\ req' \in [Procs -> Request] /\ req'[p] = r
        /\ \A q \in Procs : q # p => req'[q] = req[q]
    BY <1>3, <2>1 DEF TypeOK, Moves
  <2> HIDE DEF r
  <2>3. /\ rows' \in [RecordIds -> Row]
        /\ rows'[i].status = "present" /\ rows'[i].no = n /\ rows'[i].etag = req[p].etag
        /\ \A j \in RecordIds : j # i => rows'[j] = rows[j]
    BY <1>1, <1>3 DEF TypeOK, Row, Numbers
  <2>4. i # None /\ i \notin Present
    BY <1>3, VersionAssumption DEF Present
  <2>5. Present' = Present \cup {i}
    BY <2>3 DEF Present
  <2>6. Used' = Used \cup {n}
    BY <2>3, <2>4, <2>5 DEF Used, Present
  <2>7. Archived' = Archived \cup {copies[n]}
    BY <1>1, <2>3, <2>4, <2>5 DEF Archived, Present
  <2>8. TypeOK'
    <3>1. \A j \in Present' : rows'[j].no \in Numbers /\ rows'[j].etag \in Contents
      BY <1>1, <2>3, <2>4, <2>5 DEF TypeOK, Present
    <3>2. QED
      BY <1>1, <2>2, <2>3, <3>1 DEF TypeOK
  <2>9. \A q \in Procs : req'[q].pc \in {"write", "deletecopy", "deleterow"} /\ q # p /\ req[q].rec # None =>
           /\ req[q].rec \in RecordIds /\ rows'[req[q].rec] = rows[req[q].rec]
           /\ rows[req[q].rec].status # "unused"
    BY <1>3, <2>2, <2>3 DEF TypeOK, Request, Control, At
  <2>10. Control'
    <3>1. ASSUME NEW q \in Procs, q # p
          PROVE  /\ req[q].pc \in {"deletecopy", "deleterow"} => req[q].rec # None
                 /\ req'[q] = req[q]
      BY <2>2, <3>1, VersionAssumption DEF Control
    <3>2. QED
      BY <2>1, <2>2, <2>3, <2>4, <2>9, <3>1 DEF Control, At
  <2>11. UniqueNumbers'
    BY <1>3, <2>3, <2>4, <2>5 DEF UniqueNumbers, Used, Present
  <2>12. NothingDeleted'
    BY <1>1, <2>1, <2>2, <2>3 DEF NothingDeleted, At
  <2>13. NumbersFit'
    BY <1>1, <2>1, <2>2, <2>6 DEF NumbersFit, At
  <2>14. Numbered'
    <3>1. ASSUME discarded = {}
          PROVE  1 .. (n - 1) \subseteq Used /\ copies[n] # None
      BY <1>1, <3>1 DEF NumbersFit, At
    <3>2. ASSUME discarded = {}
          PROVE  1 .. n \subseteq Used'
      BY <1>1, <2>6, <3>1, <3>2, VersionAssumption DEF Numbers
    <3>3. QED
      BY <1>1, <2>6, <2>7, <3>1, <3>2 DEF Numbered
  <2>15. OwnRows'
    <3>1. ASSUME NEW q \in Procs, q # p, At(q, "write")
          PROVE  req[q].rec # i
      BY <1>3, <2>4, <3>1 DEF Control
    <3>2. QED
      BY <2>1, <2>2, <3>1 DEF OwnRows, At
  <2>16. Serial'
    BY <1>1, <2>1, <2>2, <2>3, <2>4, <2>5 DEF Serial, At
  <2>17. RecordsDescribeCopies'
    BY <1>1, <2>3, <2>4, <2>5 DEF RecordsDescribeCopies, Serial, At, Present
  <2>18. CopiesKept'
    BY <1>1, <2>7 DEF CopiesKept
  <2>19. QED
    BY <2>8, <2>10, <2>11, <2>12, <2>13, <2>14, <2>15, <2>16, <2>17, <2>18
<1>4. QED
  BY <1>2, <1>3 DEF Insert

-----------------------------------------------------------------------------
(* Overwriting the object *)

(* Under UNCHANGED of the table and the copies, an overwriting request that *)
(* ends, or that was not alone, preserves the invariant.                    *)
LEMMA OverwriteStep ==
  ASSUME IInv, NEW p \in Procs, At(p, "write"), NEW c \in Contents, Overwrites(c),
         UNCHANGED <<key, copies, rows, discarded>>,
         \/ Ends(p) /\ UNCHANGED alone
         \/ UNCHANGED req /\ alone' = FALSE
  PROVE  IInv'
<1> USE DEF IInv
<1>1. Present' = Present /\ Used' = Used /\ Archived' = Archived
  BY DEF Present, Used, Archived
<1>2. /\ req' \in [Procs -> Request] /\ req \in [Procs -> Request]
      /\ \A q \in Procs : req'[q] = req[q] \/ req'[q] = Idle
  BY IdleFits DEF TypeOK, Ends, Moves
<1>3. alone' \in BOOLEAN /\ (alone' => alone /\ Ends(p))
  <2>0. alone \in BOOLEAN
    BY DEF TypeOK
  <2>1. CASE Ends(p) /\ alone' = alone
    BY <2>0, <2>1
  <2>2. CASE alone' = FALSE
    BY <2>2
  <2>3. QED
    BY <2>1, <2>2
<1>4. alone' => req'[p] = Idle
  BY <1>2, <1>3 DEF Ends, Moves
<1>5. live' \in Contents /\ overwritten' = overwritten \cup ({live} \ {None})
  BY DEF Overwrites
<1>6. TypeOK'
  BY <1>1, <1>2, <1>5, <1>3 DEF TypeOK
<1>7. Idle.pc = "idle" /\ Idle.kind # "restore"
  BY DEF Idle
<1>8. Control' /\ OwnRows' /\ NumbersFit' /\ NothingDeleted'
  BY <1>1, <1>2, <1>7 DEF Control, OwnRows, NumbersFit, NothingDeleted, At
<1>9. UniqueNumbers' /\ Numbered'
  BY <1>1 DEF UniqueNumbers, Numbered
<1>10. alone' => \A q \in Procs : req'[q].pc = "idle"
  BY <1>2, <1>7, <1>3, <1>4, MoverFacts DEF At
<1>11. Serial'
  BY <1>10 DEF Serial, At
<1>12. RecordsDescribeCopies'
  BY <1>1, <1>3 DEF RecordsDescribeCopies
<1>13. CopiesKept'
  <2>1. CASE req[p].rec = None
    BY <1>1, <1>5, <1>3, <2>1 DEF CopiesKept, Serial
  <2>2. CASE req[p].rec # None
    <3>1. alone => req[p].rec \in Present /\ rows[req[p].rec].no = req[p].no
                     /\ (key # "percent" => copies[req[p].no] = live)
      BY <2>2 DEF Serial, Control
    <3>2. alone /\ key # "percent" => live \in Archived
      BY <3>1 DEF Archived
    <3>3. QED
      BY <1>1, <1>5, <1>3, <3>2 DEF CopiesKept
  <2>3. QED
    BY <2>1, <2>2
<1>14. QED
  BY <1>6, <1>8, <1>9, <1>11, <1>12, <1>13

LEMMA PutKeeps ==
  ASSUME IInv, NEW p \in Procs, Put(p)
  PROVE  IInv'
BY OverwriteStep DEF Put

LEMMA RestoreCopyKeeps ==
  ASSUME IInv, NEW p \in Procs, RestoreCopy(p)
  PROVE  IInv'
<1>1. At(p, "write") /\ Ends(p) /\ UNCHANGED <<key, copies, rows, discarded, alone>>
  BY DEF RestoreCopy
<1>2. PICK c \in CopySource(req[p].target) :
        \/ c = None /\ UNCHANGED <<live, overwritten>>
        \/ c # None /\ Overwrites(c)
  BY DEF RestoreCopy
<1>3. CASE c = None
  BY <1>1, <1>2, <1>3, EndStep DEF At
<1>4. CASE c # None
  <2>1. c \in Contents
    <3>1. key \in {"plain", "escaped", "percent"} /\ req[p].target \in Numbers
      BY MoverFacts, VersionAssumption DEF RestoreCopy, IInv, TypeOK, KeyForms
    <3>2. copies[req[p].target] \in Contents \cup {None}
      BY <3>1 DEF IInv, TypeOK
    <3>3. CopySource(req[p].target) \subseteq Contents \cup {None}
      BY <3>1, <3>2 DEF CopySource
    <3>4. QED
      BY <1>4, <3>3
  <2>2. QED
    BY <1>1, <1>2, <1>4, <2>1, OverwriteStep
<1>5. QED
  BY <1>3, <1>4

(* Other writers archive nothing; what they overwrite is not promised.      *)
LEMMA OtherWriteKeeps ==
  ASSUME IInv, OtherWrite
  PROVE  IInv'
<1> USE DEF IInv
<1>1. /\ Present' = Present /\ Used' = Used /\ Archived' = Archived
      /\ live' \in Contents \cup {None}
      /\ UNCHANGED <<key, copies, rows, req, overwritten, discarded>>
  BY DEF OtherWrite, Present, Used, Archived
<1>2. alone' \in BOOLEAN /\ (alone' => alone /\ \A q \in Procs : req[q].pc = "idle")
  BY DEF OtherWrite, TypeOK, At
<1>3. TypeOK'
  BY <1>1, <1>2 DEF TypeOK
<1>4. Control' /\ OwnRows' /\ NumbersFit' /\ NothingDeleted' /\ UniqueNumbers' /\ Numbered'
  BY <1>1 DEF Control, OwnRows, NumbersFit, NothingDeleted, UniqueNumbers, Numbered, At
<1>5. Serial'
  BY <1>1, <1>2 DEF Serial, At
<1>6. RecordsDescribeCopies' /\ CopiesKept'
  BY <1>1, <1>2 DEF RecordsDescribeCopies, CopiesKept
<1>7. QED
  BY <1>3, <1>4, <1>5, <1>6

-----------------------------------------------------------------------------
(* Restoring and removing *)

LEMMA RestoreStepKeeps ==
  ASSUME IInv, NEW p \in Procs, RestoreStep(p)
  PROVE  IInv'
<1>1. ASSUME NEW i \in RecordIds, Restore(p, i)
      PROVE  IInv'
  <2> DEFINE n == rows[i].no
             r == [Idle EXCEPT !.pc = "locked", !.kind = "restore", !.target = n]
  <2>1. n \in Numbers /\ n \in 0 .. MaxVersions
    BY <1>1, VersionAssumption DEF Restore, IInv, TypeOK, Numbers
  <2>4. Begins(p, r)
    BY <1>1 DEF Restore
  <2> HIDE DEF n
  <2>2. /\ r \in Request /\ r.pc = "locked" /\ r.target = n /\ r.kind = "restore"
        /\ r.rec = None /\ r.no = 0
    BY <2>1, IdleFits DEF Request, Points, Idle
  <2>3. Fits(r) /\ FitsAlone(r)
    BY <2>1, <2>2 DEF Fits, FitsAlone
  <2>5. QED
    BY <2>3, <2>4, BeginStep
<1>2. ASSUME NEW point \in {"version", "live", "head", "write"}, Goes(p, point),
             req[p].pc \in {"locked", "version", "live"}, point = "write" => live = None,
             UNCHANGED <<key, live, copies, rows, overwritten, discarded, alone>>
      PROVE  IInv'
  <2> DEFINE r == [req[p] EXCEPT !.pc = point]
  <2>1. r \in Request /\ r.pc = point /\ r.target = req[p].target /\ r.kind = req[p].kind
        /\ r.rec = req[p].rec /\ r.no = req[p].no
    BY MoverFacts DEF Request, Points
  <2>2. Fits(r) /\ FitsAlone(r)
    BY <1>2, <2>1, MoverFacts DEF Fits, FitsAlone
  <2>3. Moves(p, r)
    BY <1>2 DEF Goes
  <2>4. QED
    BY <1>2, <2>2, <2>3, ReadStep DEF At
<1>3. CASE CheckLock(p) \/ HeadVersion(p)
  BY <1>2, <1>3, EndStep DEF CheckLock, HeadVersion, At
<1>4. CASE HeadLive(p)
  BY <1>2, <1>4 DEF HeadLive, At
<1>5. QED
  BY <1>1, <1>3, <1>4, RestoreCopyKeeps DEF RestoreStep

(* Deleting a copy discards it; afterwards nothing is promised of numbers.  *)
LEMMA DeleteCopyKeeps ==
  ASSUME IInv, NEW p \in Procs, DeleteCopy(p)
  PROVE  IInv'
<1> DEFINE n == req[p].target
           i == req[p].rec
           r == [req[p] EXCEPT !.pc = "deleterow"]
<1> USE DEF IInv
<1>1. /\ req[p].pc = "deletecopy" /\ copies' = [copies EXCEPT ![n] = None] /\ Moves(p, r)
      /\ discarded' = discarded \cup ({copies[n]} \ {None})
      /\ UNCHANGED <<key, live, rows, overwritten, alone>>
  BY DEF DeleteCopy, Goes, At
<1>2. n \in Numbers /\ i \in RecordIds /\ rows[i].status # "unused" /\ rows[i].no = n
  BY <1>1 DEF Control
<1>3. Present' = Present /\ Used' = Used
  BY <1>1 DEF Present, Used
<1>4. /\ copies' \in [Numbers -> Contents \cup {None}] /\ copies'[n] = None
      /\ \A k \in Numbers : k # n => copies'[k] = copies[k]
  BY <1>1, <1>2 DEF TypeOK
<1>5. discarded' # {}
  <2>1. CASE discarded = {}
    <3>1. i \in Present
      BY <1>2, <2>1 DEF NothingDeleted, Present, TypeOK, Row
    <3>2. copies[n] # None
      BY <1>2, <2>1, <3>1 DEF Numbered, Archived
    <3>3. QED
      BY <1>1, <3>2
  <2>2. CASE discarded # {}
    BY <1>1, <2>2
  <2>3. QED
    BY <2>1, <2>2
<1>6. /\ r \in Request /\ r.pc = "deleterow" /\ r.target = n /\ r.rec = i
      /\ r.kind = req[p].kind
  BY MoverFacts DEF Request, Points
<1> HIDE DEF r
<1>7. /\ req' \in [Procs -> Request] /\ req'[p] = r
      /\ \A q \in Procs : q # p => req'[q] = req[q]
  BY <1>1, <1>6 DEF TypeOK, Moves
<1>8. TypeOK'
  BY <1>1, <1>3, <1>4, <1>7 DEF TypeOK
<1>9. Control'
  BY <1>1, <1>2, <1>6, <1>7, MoverFacts DEF Control, At
<1>10. UniqueNumbers' /\ NothingDeleted' /\ NumbersFit' /\ Numbered' /\ OwnRows'
  BY <1>1, <1>3, <1>5, <1>6, <1>7
  DEF UniqueNumbers, NothingDeleted, NumbersFit, Numbered, OwnRows, At
<1>11. alone => i \in Present /\ \A q \in Procs : q # p => req[q].pc = "idle"
  BY <1>1 DEF Serial, At
<1>12. Serial'
  BY <1>1, <1>3, <1>4, <1>6, <1>7, <1>11 DEF Serial, At
<1>13. \A j \in Present : rows[j].no \in Numbers /\ rows[j].etag \in Contents
  BY DEF TypeOK
<1>14. RecordsDescribeCopies'
  <2>1. ASSUME alone, key # "percent", NEW j \in Present
        PROVE  \/ copies'[rows[j].no] = rows[j].etag
               \/ copies'[rows[j].no] = None /\ rows[j].etag \in discarded'
    <3>0. /\ \/ copies[rows[j].no] = rows[j].etag
             \/ copies[rows[j].no] = None /\ rows[j].etag \in discarded
          /\ rows[j].no \in Numbers /\ rows[j].etag # None
      BY <1>13, <2>1, VersionAssumption DEF RecordsDescribeCopies
    <3>1. CASE rows[j].no = n
      BY <1>1, <1>4, <3>0, <3>1
    <3>2. CASE rows[j].no # n
      BY <1>1, <1>4, <3>0, <3>2
    <3>3. QED
      BY <3>1, <3>2
  <2>2. QED
    BY <1>1, <1>3, <2>1 DEF RecordsDescribeCopies
<1>15. CopiesKept'
  <2>1. ASSUME alone, key # "percent", NEW x \in overwritten
        PROVE  x \in Archived' \cup discarded'
    <3>1. x # None /\ x \in Archived \cup discarded
      BY <2>1, VersionAssumption DEF CopiesKept, TypeOK
    <3>2. CASE x \in discarded
      BY <1>1, <3>2
    <3>3. ASSUME NEW j \in Present, x = copies[rows[j].no]
          PROVE  x \in Archived' \cup discarded'
      <4>1. CASE rows[j].no = n
        BY <1>1, <3>1, <3>3, <4>1
      <4>2. CASE rows[j].no # n
        BY <1>1, <1>3, <1>4, <1>13, <3>3, <4>2 DEF Archived
      <4>3. QED
        BY <4>1, <4>2
    <3>4. QED
      BY <3>1, <3>2, <3>3 DEF Archived
  <2>2. QED
    BY <1>1, <2>1 DEF CopiesKept
<1>16. QED
  BY <1>8, <1>9, <1>10, <1>12, <1>14, <1>15

(* Deleting a row takes away a version whose copy is gone. *)
LEMMA DeleteRowKeeps ==
  ASSUME IInv, NEW p \in Procs, DeleteRow(p)
  PROVE  IInv'
<1> DEFINE i == req[p].rec
<1> USE DEF IInv
<1>1. /\ req[p].pc = "deleterow" /\ rows' = [rows EXCEPT ![i].status = "deleted"] /\ Ends(p)
      /\ UNCHANGED <<key, live, copies, overwritten, discarded, alone>>
  BY DEF DeleteRow, At
<1>2. /\ i \in RecordIds /\ rows[i].status # "unused" /\ rows[i].no = req[p].target
      /\ discarded # {}
  BY <1>1 DEF Control, NothingDeleted, At
<1>3. /\ rows' \in [RecordIds -> Row] /\ rows'[i].status = "deleted"
      /\ \A j \in RecordIds : j # i => rows'[j] = rows[j]
      /\ \A j \in RecordIds : rows'[j].no = rows[j].no /\ rows'[j].etag = rows[j].etag
  BY <1>1, <1>2 DEF TypeOK, Row
<1>4. Present' = Present \ {i}
  BY <1>3 DEF Present
<1>5. /\ req' \in [Procs -> Request] /\ req'[p] = Idle
      /\ \A q \in Procs : q # p => req'[q] = req[q]
  BY <1>1, IdleFits DEF TypeOK, Ends, Moves
<1>6. Idle.pc = "idle" /\ Idle.kind = "none"
  BY DEF Idle
<1>7. TypeOK'
  BY <1>1, <1>3, <1>4, <1>5 DEF TypeOK
<1>8. Control'
  <2>1. \A j \in RecordIds : rows[j].status # "unused" => rows'[j].status # "unused"
    BY <1>3
  <2>2. \A q \in Procs : req[q].rec # None => req[q].rec \in RecordIds
    BY DEF TypeOK, Request
  <2>3. QED
    BY <1>3, <1>5, <1>6, <2>1, <2>2 DEF Control, At
<1>9. NothingDeleted' /\ NumbersFit' /\ Numbered'
  BY <1>1, <1>2 DEF NothingDeleted, NumbersFit, Numbered
<1>10. UniqueNumbers' /\ OwnRows'
  BY <1>3, <1>4, <1>5, <1>6 DEF UniqueNumbers, OwnRows, At, Present
<1>11. alone => \A q \in Procs : req'[q].pc = "idle"
  BY <1>1, <1>5, <1>6 DEF Serial, At
<1>12. Serial'
  BY <1>1, <1>11 DEF Serial, At
<1>13. RecordsDescribeCopies'
  BY <1>1, <1>3, <1>4 DEF RecordsDescribeCopies, Present
<1>14. CopiesKept'
  <2>1. ASSUME alone, key # "percent", NEW x \in overwritten
        PROVE  x \in Archived' \cup discarded
    <3>1. x # None /\ x \in Archived \cup discarded /\ copies[rows[i].no] = None
      BY <1>1, <1>2, <2>1, VersionAssumption DEF CopiesKept, TypeOK, Serial, At
    <3>2. ASSUME NEW j \in Present, x = copies[rows[j].no]
          PROVE  x \in Archived'
      BY <1>1, <1>3, <1>4, <3>1, <3>2 DEF Archived, Present
    <3>3. QED
      BY <3>1, <3>2 DEF Archived
  <2>2. QED
    BY <1>1, <2>1 DEF CopiesKept
<1>15. QED
  BY <1>7, <1>8, <1>9, <1>10, <1>12, <1>13, <1>14

LEMMA RemoveKeeps ==
  ASSUME IInv, NEW p \in Procs, NEW i \in RecordIds, Remove(p, i)
  PROVE  IInv'
<1> DEFINE n == rows[i].no
           r == [Idle EXCEPT !.pc = "deletecopy", !.kind = "remove", !.target = n, !.rec = i]
<1>1. n \in Numbers /\ n \in 0 .. MaxVersions /\ i \in Present /\ rows[i].status # "unused"
  BY VersionAssumption DEF Remove, IInv, TypeOK, Numbers, Present
<1>2. Begins(p, r)
  BY DEF Remove
<1>3. rows[i].no = n
  OBVIOUS
<1> HIDE DEF n
<1>4. /\ r \in Request /\ r.pc = "deletecopy" /\ r.kind = "remove" /\ r.target = n /\ r.rec = i
  BY <1>1, IdleFits DEF Request, Points, Idle
<1>5. Fits(r) /\ FitsAlone(r)
  BY <1>1, <1>3, <1>4 DEF Fits, FitsAlone
<1>6. QED
  BY <1>2, <1>5, BeginStep

LEMMA SaveKeeps ==
  ASSUME IInv, NEW p \in Procs, Save(p)
  PROVE  IInv'
<1>1. PICK kind \in {"save", "presign"} : Begins(p, [Idle EXCEPT !.pc = "head", !.kind = kind])
  BY DEF Save
<1> DEFINE r == [Idle EXCEPT !.pc = "head", !.kind = kind]
<1>2. r \in Request /\ r.pc = "head" /\ r.kind # "restore"
  BY IdleFits DEF Request, Points, Idle
<1>3. Fits(r) /\ FitsAlone(r)
  BY <1>2 DEF Fits, FitsAlone
<1>4. QED
  BY <1>1, <1>3, BeginStep

-----------------------------------------------------------------------------
(* The theorems *)

LEMMA InitHolds == Init => IInv
<1> SUFFICES ASSUME Init
             PROVE  IInv
  OBVIOUS
<1>1. Present = {} /\ Used = {} /\ Archived = {}
  BY DEF Init, Present, Used, Archived, NoRow
<1>2. NoRow \in Row
  BY VersionAssumption DEF NoRow, Row
<1>3. TypeOK
  BY <1>1, <1>2, IdleFits DEF Init, TypeOK
<1>4. Control /\ UniqueNumbers /\ NothingDeleted /\ NumbersFit /\ OwnRows
  BY <1>1 DEF Init, Control, UniqueNumbers, NothingDeleted, NumbersFit, OwnRows, At, Idle, NoRow
<1>5. Numbered /\ Serial /\ RecordsDescribeCopies /\ CopiesKept
  BY <1>1 DEF Init, Numbered, Serial, RecordsDescribeCopies, CopiesKept, At, Idle
<1>6. QED
  BY <1>3, <1>4, <1>5 DEF IInv

LEMMA NextKeeps == IInv /\ [Next]_vars => IInv'
<1> SUFFICES ASSUME IInv, [Next]_vars
             PROVE  IInv'
  OBVIOUS
<1>1. ASSUME NEW p \in Procs, ArchiveStep(p)
      PROVE  IInv'
  BY <1>1, HeadKeeps, NextNoKeeps, CopyKeeps, InsertKeeps DEF ArchiveStep
<1>2. ASSUME NEW p \in Procs, SaveStep(p)
      PROVE  IInv'
  BY <1>2, SaveKeeps, PutKeeps DEF SaveStep
<1>3. ASSUME NEW p \in Procs, RemoveStep(p)
      PROVE  IInv'
  BY <1>3, RemoveKeeps, DeleteCopyKeeps, DeleteRowKeeps DEF RemoveStep
<1>4. ASSUME NEW p \in Procs, Abort(p)
      PROVE  IInv'
  BY <1>4, EndStep DEF Abort
<1>5. CASE UNCHANGED vars
  BY <1>5 DEF vars, IInv, TypeOK, Control, UniqueNumbers, NothingDeleted, NumbersFit, Numbered,
              OwnRows, Serial, RecordsDescribeCopies, CopiesKept, Present, Used, Archived, At
<1>6. QED
  BY <1>1, <1>2, <1>3, <1>4, <1>5, RestoreStepKeeps, OtherWriteKeeps DEF Next

(* The invariant of Versions holds of every behaviour. *)
THEOREM Invariance == Spec => []IInv
BY InitHolds, NextKeeps, PTL DEF Spec

(* Rows, copies and requests stay what their types say. *)
THEOREM TypeCorrectness == Spec => []TypeOK
<1>1. IInv => TypeOK
  BY DEF IInv
<1>2. QED
  BY <1>1, Invariance, PTL

(* Until a copy is removed, versions are numbered without a gap and have    *)
(* their copies, however requests interleave.                               *)
THEOREM NumberedAlways == Spec => []Numbered
<1>1. IInv => Numbered
  BY DEF IInv
<1>2. QED
  BY <1>1, Invariance, PTL

(* Until a copy is removed, no two overwriting requests have archived under *)
(* the same number.                                                         *)
THEOREM OwnVersionsAlways == Spec => []OwnVersions
<1>1. IInv => OwnVersions
  <2> SUFFICES ASSUME IInv, discarded = {}, NEW p \in Procs, NEW q \in Procs,
                      At(p, "write"), At(q, "write"),
                      req[p].no = req[q].no, req[p].no # 0
               PROVE  p = q
    BY DEF OwnVersions
  <2>1. req[p].rec # None /\ req[q].rec # None
    BY DEF IInv, Control
  <2>2. req[p].rec \in Present /\ req[q].rec \in Present
    BY <2>1 DEF IInv, TypeOK, Request, Row, Control, NothingDeleted, Present
  <2>3. req[p].rec = req[q].rec
    BY <2>1, <2>2 DEF IInv, Control, UniqueNumbers
  <2>4. QED
    BY <2>1, <2>3 DEF IInv, OwnRows
<1>2. QED
  BY <1>1, Invariance, PTL

(* Without overlapping requests a row describes its copy, whatever fails,   *)
(* unless the key holds a %XX.                                              *)
THEOREM RecordsDescribeCopiesAlways == Spec => []RecordsDescribeCopies
<1>1. IInv => RecordsDescribeCopies
  BY DEF IInv
<1>2. QED
  BY <1>1, Invariance, PTL

(* Without overlapping requests a version keeps what a save or a restore    *)
(* overwrites, unless the key holds a %XX, and a restore brings it back if  *)
(* escaping leaves the key alone; whatever fails.                           *)
THEOREM ArchivesKeptAlways == Spec => []ArchivesKept
<1>1. IInv => ArchivesKept
  BY RestorableArchived DEF IInv, CopiesKept, ArchivesKept, TypeOK
<1>2. QED
  BY <1>1, Invariance, PTL
=============================================================================
