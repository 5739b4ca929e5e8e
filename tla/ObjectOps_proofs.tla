-------------------------- MODULE ObjectOps_proofs --------------------------
(***************************************************************************)
(* The theorems of ObjectOps, for any number of keys, contents and         *)
(* operations in flight.                                                   *)
(*                                                                         *)
(* Steps that change neither the bucket nor its rows move one operation:   *)
(* QuietStep deals with them once.  RowStep deals with the three steps     *)
(* that end an operation with its row.  The steps that write the bucket    *)
(* (WriteDest, DeleteSource, Put) have lemmas of their own, first about    *)
(* Places and Pending, then about the rest.                                *)
(***************************************************************************)
EXTENDS ObjectOps, FiniteSetTheorems, TLAPS

-----------------------------------------------------------------------------
(* Counting *)

LEMMA KeysFinite == IsFiniteSet(Keys)
<1>1. IsFiniteSet({"live"} \cup {"trash"})
  BY FS_Singleton, FS_AddElement
<1>2. {"live"} \cup {"trash"} = {"live", "trash"}
  OBVIOUS
<1>3. QED
  BY <1>1, <1>2, FS_Product, ObjectAssumption DEF Keys

(* Places and pending deletions of a content can be counted. *)
LEMMA Countable ==
  ASSUME NEW c
  PROVE  /\ IsFiniteSet(Places(c)) /\ Cardinality(Places(c)) \in Nat
         /\ IsFiniteSet(Pending(c)) /\ Cardinality(Pending(c)) \in Nat
         /\ Cardinality(Places(c)) = 0 <=> Places(c) = {}
         /\ Cardinality(Pending(c)) = 0 <=> Pending(c) = {}
<1>1. Places(c) \in SUBSET Keys /\ Pending(c) \in SUBSET Procs
  BY DEF Places, Pending
<1>2. IsFiniteSet(Places(c)) /\ IsFiniteSet(Pending(c))
  BY <1>1, KeysFinite, FS_Subset, ObjectAssumption
<1>3. QED
  BY <1>2, FS_CardinalityType, FS_EmptySet

(* What is known of the operation that moves. *)
LEMMA MoverFacts ==
  ASSUME IInv, NEW p \in Procs
  PROVE  /\ req[p] \in Operation /\ InPlace(req[p])
         /\ orderly => Knows(req[p])
         /\ orderly /\ ~At(p, "idle") => \A q \in Procs : q # p => At(q, "idle")
BY DEF IInv, TypeOK, Control, Serial

(* An operation that is alone is the only one with rows to bring up to date.*)
LEMMA AloneUnsettled ==
  ASSUME IInv, orderly, whole, NEW p \in Procs, ~At(p, "idle"),
         NEW k \in Keys, k \notin Unsettled(req[p])
  PROVE  Described(k)
<1>1. \A q \in Procs : q # p => Unsettled(req[q]) = {}
  BY MoverFacts DEF At, Unsettled
<1>2. QED
  BY <1>1 DEF IInv, RowsFollow

-----------------------------------------------------------------------------
(* Steps that write neither the bucket nor its rows *)

LEMMA QuietStep ==
  ASSUME IInv, NEW p \in Procs, NEW r \in Operation, InPlace(r), Moves(p, r),
         ~(r.pc = "delete" /\ r.kind \in Copying),
         UNCHANGED <<unescaped, objects, records, lost, raced, behind>>,
         orderly' \in BOOLEAN, whole' \in BOOLEAN, orderly' => orderly, whole' => whole,
         orderly' => Knows(r) /\ \A q \in Procs : q # p => At(q, "idle"),
         orderly' /\ whole' => Unsettled(req[p]) \subseteq Unsettled(r)
  PROVE  IInv'
<1>1. /\ req' \in [Procs -> Operation] /\ req' = [req EXCEPT ![p] = r]
      /\ req'[p] = r /\ \A q \in Procs : q # p => req'[q] = req[q]
  BY DEF IInv, TypeOK, Moves
<1>2. TypeOK'
  BY <1>1 DEF IInv, TypeOK
<1>3. Control'
  BY <1>1 DEF IInv, Control
<1>4. Spread'
  <2> SUFFICES ASSUME NEW c \in Contents, c \notin lost, Pending(c)' # {}
               PROVE  Cardinality(Pending(c)') < Cardinality(Places(c)')
    BY DEF Spread
  <2>1. Places(c)' = Places(c)
    BY DEF Places
  <2>2. Pending(c)' \in SUBSET Pending(c)
    BY <1>1 DEF Pending, CopiedOf, At
  <2>3. Pending(c) # {} /\ Cardinality(Pending(c)) < Cardinality(Places(c))
    BY <2>2 DEF IInv, Spread
  <2>4. Cardinality(Pending(c)') <= Cardinality(Pending(c)) /\ IsFiniteSet(Pending(c)')
    BY <2>2, Countable, FS_Subset
  <2>5. Cardinality(Pending(c)') \in Nat
    BY <2>4, FS_CardinalityType
  <2>6. QED
    BY <2>1, <2>3, <2>4, <2>5, Countable
<1>5. Serial'
  BY <1>1 DEF Serial, At, Knows, Free
<1>6. NoneRaced'
  BY DEF IInv, NoneRaced
<1>7. RowsFollow'
  <2> SUFFICES ASSUME orderly', whole', NEW k \in Keys, ~Described(k)'
               PROVE  \E q \in Procs : k \in Unsettled(req'[q])
    BY DEF RowsFollow, Unsettled
  <2>1. ~Described(k)
    BY DEF Described
  <2>2. PICK q \in Procs : k \in Unsettled(req[q])
    BY <2>1 DEF IInv, RowsFollow
  <2>3. QED
    BY <1>1, <2>2
<1>8. QED
  BY <1>2, <1>3, <1>4, <1>5, <1>6, <1>7 DEF IInv

(* An operation may always end. *)
LEMMA IdleFits == Idle \in Operation /\ InPlace(Idle) /\ Knows(Idle) /\ Unsettled(Idle) = {}
<1>1. Idle \in Operation
  BY DEF Idle, Operation, Points
<1>2. QED
  BY <1>1 DEF Idle, InPlace, Knows, Unsettled

(* A step of an operation under way that only reads. *)
LEMMA ReadStep ==
  ASSUME IInv, NEW p \in Procs, ~At(p, "idle"), NEW r \in Operation, InPlace(r), Moves(p, r),
         ~(r.pc = "delete" /\ r.kind \in Copying),
         UNCHANGED <<unescaped, objects, records, history>>,
         orderly => Knows(r), Unsettled(req[p]) = {}
  PROVE  IInv'
<1>1. orderly' \in BOOLEAN /\ whole' \in BOOLEAN /\ (orderly' => orderly) /\ (whole' => whole)
  BY DEF history, IInv, TypeOK
<1>2. UNCHANGED <<unescaped, objects, records, lost, raced, behind>>
  BY DEF history
<1>3. orderly' => Knows(r) /\ \A q \in Procs : q # p => At(q, "idle")
  BY <1>1, MoverFacts
<1>4. QED
  BY <1>1, <1>2, <1>3, QuietStep

LEMMA EndStep ==
  ASSUME IInv, NEW p \in Procs, ~At(p, "idle"), Ends(p),
         UNCHANGED <<unescaped, objects, records, history>>, Unsettled(req[p]) = {}
  PROVE  IInv'
<1>1. ~(Idle.pc = "delete")
  BY DEF Idle
<1>2. QED
  BY <1>1, IdleFits, ReadStep DEF Ends

LEMMA AbortKeeps ==
  ASSUME IInv, NEW p \in Procs, Abort(p)
  PROVE  IInv'
<1>1. UNCHANGED <<unescaped, objects, records, lost, raced, behind>> /\ Moves(p, Idle) /\ ~At(p, "idle")
  BY DEF Abort, Ends
<1>2. orderly' \in BOOLEAN /\ whole' \in BOOLEAN /\ (orderly' => orderly) /\ (whole' => whole)
  BY DEF Abort, IInv, TypeOK
<1>3. whole' => Unsettled(req[p]) = {}
  BY DEF Abort, Unsettled, At
<1>4. ~(Idle.pc = "delete")
  BY DEF Idle
<1>5. orderly' => Knows(Idle) /\ \A q \in Procs : q # p => At(q, "idle")
  BY <1>1, <1>2, IdleFits, MoverFacts
<1>6. QED
  BY <1>1, <1>2, <1>3, <1>4, <1>5, IdleFits, QuietStep

-----------------------------------------------------------------------------
(* Operations begin *)

LEMMA BeginStep ==
  ASSUME IInv, NEW p \in Procs, NEW point, NEW kind, NEW src, NEW dest,
         Begins(p, point, kind, src, dest),
         point \in {"source", "dest"}, src \in Keys \cup {None}, dest \in Keys \cup {None},
         point = "source" => kind \in Copying \cup Erasing \cup {"copy", "see"},
         point = "dest" => kind \in {"copy", "move", "mkdir"},
         kind # "mkdir" => src \in Keys, kind \notin Erasing => dest \in Keys,
         kind = "see" => src = dest, kind = "mkdir" => src = None,
         point = "source" /\ kind \in {"copy", "move"} => src = dest
  PROVE  IInv'
<1> DEFINE r == [Idle EXCEPT !.pc = point, !.kind = kind, !.src = src, !.dest = dest]
<1>1. /\ r.pc = point /\ r.kind = kind /\ r.src = src /\ r.dest = dest
      /\ r.meta = None /\ r.copied = None
  BY DEF Idle
<1>2. r \in Operation
  BY DEF Begins, Operation, Points, Idle
<1>3. Moves(p, r) /\ UNCHANGED <<unescaped, objects, records, lost, raced, behind, whole>>
      /\ orderly' = (orderly /\ \A q \in Procs : At(q, "idle")) /\ At(p, "idle")
  BY DEF Begins
<1> HIDE DEF r
<1>4. InPlace(r)
  BY <1>1 DEF InPlace
<1>5. Knows(r)
  BY <1>1 DEF Knows, Free
<1>6. Unsettled(req[p]) = {}
  BY <1>3 DEF At, Unsettled
<1>7. orderly' \in BOOLEAN /\ whole' \in BOOLEAN /\ (orderly' => orderly) /\ (whole' => whole)
  BY <1>3 DEF IInv, TypeOK
<1>8. QED
  BY <1>1, <1>2, <1>3, <1>4, <1>5, <1>6, <1>7, QuietStep

LEMMA StartKeeps ==
  ASSUME IInv, NEW p \in Procs, Start(p)
  PROVE  IInv'
<1>1. \A n \in Names : Live(n) \in Keys /\ Trash(n) \in Keys
  BY DEF Live, Trash, Keys
<1>2. CASE Copy(p)
  BY <1>1, <1>2, BeginStep DEF Copy, Erasing
<1>3. CASE Move(p)
  <2>1. PICK src \in Keys, dest \in Keys :
          Begins(p, IF src = dest THEN "source" ELSE "dest", "move", src, dest)
    BY <1>3 DEF Move
  <2>2. QED
    BY <2>1, BeginStep DEF Copying, Erasing
<1>4. CASE Delete(p)
  BY <1>1, <1>4, BeginStep DEF Delete, Copying, Erasing
<1>5. CASE RestoreTrash(p)
  BY <1>1, <1>5, BeginStep DEF RestoreTrash, Copying, Erasing
<1>6. CASE PurgeTrash(p)
  BY <1>1, <1>6, BeginStep DEF PurgeTrash, Copying, Erasing
<1>7. CASE Mkdir(p)
  BY <1>1, <1>7, BeginStep DEF Mkdir, Erasing
<1>8. CASE See(p)
  BY <1>8, BeginStep DEF See, Erasing
<1>9. QED
  BY <1>2, <1>3, <1>4, <1>5, <1>6, <1>7, <1>8 DEF Start

-----------------------------------------------------------------------------
(* HEAD requests *)

LEMMA HeadDestKeeps ==
  ASSUME IInv, NEW p \in Procs, HeadDest(p)
  PROVE  IInv'
<1>1. ~At(p, "idle") /\ req[p].pc = "dest" /\ UNCHANGED <<unescaped, objects, records, history>>
  BY DEF HeadDest, At
<1>2. Unsettled(req[p]) = {}
  BY <1>1 DEF Unsettled
<1>3. CASE objects[req[p].dest] # None
  BY <1>1, <1>2, <1>3, EndStep DEF HeadDest
<1>4. CASE objects[req[p].dest] = None
  <2> DEFINE point == IF req[p].kind \in {"restore", "mkdir"} THEN "copy" ELSE "source"
             r == [req[p] EXCEPT !.pc = point]
  <2>1. r \in Operation /\ Moves(p, r)
    BY <1>4, MoverFacts DEF HeadDest, Goes, Operation, Points
  <2>2. /\ r.pc = point /\ r.kind = req[p].kind /\ r.src = req[p].src /\ r.dest = req[p].dest
        /\ r.meta = req[p].meta /\ r.copied = req[p].copied
    BY MoverFacts DEF Operation
  <2> HIDE DEF r
  <2>3. InPlace(req[p])
    BY MoverFacts
  <2>4. InPlace(r) /\ point \in {"copy", "source"}
    BY <1>1, <2>2, <2>3 DEF InPlace, Copying, Erasing
  <2>5. orderly => Knows(r)
    <3> SUFFICES ASSUME orderly PROVE Knows(r)
      OBVIOUS
    <3>1. Knows(req[p])
      BY MoverFacts
    <3>2. req[p].kind \in {"copy", "move", "restore", "mkdir"}
      BY <1>1, <2>3 DEF InPlace
    <3>3. QED
      BY <1>1, <1>4, <2>2, <2>4, <3>1, <3>2 DEF Knows, Free
  <2>6. QED
    BY <1>1, <1>2, <2>1, <2>2, <2>4, <2>5, ReadStep
<1>5. QED
  BY <1>3, <1>4

LEMMA HeadSourceKeeps ==
  ASSUME IInv, NEW p \in Procs, HeadSource(p)
  PROVE  IInv'
<1>1. ~At(p, "idle") /\ req[p].pc = "source" /\ UNCHANGED <<unescaped, objects, records, history>>
  BY DEF HeadSource, At
<1>2. Unsettled(req[p]) = {}
  BY <1>1 DEF Unsettled
<1>3. CASE objects[req[p].src] = None
  BY <1>1, <1>2, <1>3, EndStep DEF HeadSource
<1>4. CASE objects[req[p].src] # None
  <2> DEFINE point == AfterHead(req[p].kind)
             r == [req[p] EXCEPT !.pc = point, !.meta = objects[req[p].src]]
  <2>1. InPlace(req[p]) /\ req[p] \in Operation
    BY MoverFacts
  <2>2. req[p].kind \in Copying \cup Erasing \cup {"copy", "see"} /\ req[p].src \in Keys
    BY <1>1, <2>1 DEF InPlace, Copying, Erasing
  <2>3. /\ point \in {"copy", "dest", "delete", "upsert"}
        /\ point = "copy" <=> req[p].kind \in {"copy", "move", "trash"}
        /\ point = "dest" <=> req[p].kind = "restore"
        /\ point = "delete" <=> req[p].kind \in Erasing
        /\ point = "upsert" <=> req[p].kind = "see"
    BY <2>2 DEF AfterHead, Copying, Erasing
  <2> HIDE DEF point
  <2>4. objects[req[p].src] \in Contents
    BY <1>4, <2>2 DEF IInv, TypeOK
  <2>5. r \in Operation
    BY <2>1, <2>3, <2>4 DEF Operation, Points
  <2>6. Moves(p, r)
    BY <1>4 DEF HeadSource, point
  <2>7. /\ r.pc = point /\ r.kind = req[p].kind /\ r.src = req[p].src /\ r.dest = req[p].dest
        /\ r.meta = objects[req[p].src] /\ r.copied = req[p].copied
    BY <2>1 DEF Operation
  <2> HIDE DEF r
  <2>8. InPlace(r)
    BY <1>1, <2>1, <2>2, <2>3, <2>7 DEF InPlace, Copying, Erasing
  <2>9. orderly => Knows(r)
    <3> SUFFICES ASSUME orderly PROVE Knows(r)
      OBVIOUS
    <3>1. Knows(req[p])
      BY MoverFacts
    <3>2. QED
      BY <1>1, <1>4, <2>1, <2>2, <2>3, <2>7, <3>1 DEF Knows, Free, InPlace, Copying, Erasing
  <2>10. ~(r.pc = "delete" /\ r.kind \in Copying)
    BY <2>3, <2>7 DEF Copying, Erasing
  <2>11. QED
    BY <1>1, <1>2, <2>5, <2>6, <2>8, <2>9, <2>10, ReadStep
<1>5. QED
  BY <1>3, <1>4

-----------------------------------------------------------------------------
(* Steps that end with the row *)

LEMMA RowStep ==
  ASSUME IInv, NEW p \in Procs, ~At(p, "idle"), Ends(p),
         UNCHANGED <<unescaped, objects, lost, raced, orderly, whole>>,
         records' \in [Keys -> Contents \cup {None}], behind' \subseteq Keys,
         NEW S, Unsettled(req[p]) \subseteq S,
         \A k \in Keys \ S : records'[k] = records[k] /\ (k \in behind <=> k \in behind'),
         orderly => \A k \in S : records'[k] = None \/
                                (objects[k] # None /\ records'[k] = objects[k])
  PROVE  IInv'
<1>1. /\ req' \in [Procs -> Operation] /\ req'[p] = Idle
      /\ \A q \in Procs : q # p => req'[q] = req[q]
  BY IdleFits DEF IInv, TypeOK, Ends, Moves
<1>2. TypeOK'
  BY <1>1 DEF IInv, TypeOK
<1>3. Control'
  BY <1>1, IdleFits DEF IInv, Control
<1>4. Spread'
  <2> SUFFICES ASSUME NEW c \in Contents, c \notin lost, Pending(c)' # {}
               PROVE  Cardinality(Pending(c)') < Cardinality(Places(c)')
    BY DEF Spread
  <2>1. Places(c)' = Places(c)
    BY DEF Places
  <2>2. Pending(c)' \in SUBSET Pending(c)
    BY <1>1 DEF Pending, CopiedOf, At, Idle
  <2>3. Pending(c) # {} /\ Cardinality(Pending(c)) < Cardinality(Places(c))
    BY <2>2 DEF IInv, Spread
  <2>4. Cardinality(Pending(c)') <= Cardinality(Pending(c)) /\ IsFiniteSet(Pending(c)')
    BY <2>2, Countable, FS_Subset
  <2>5. Cardinality(Pending(c)') \in Nat
    BY <2>4, FS_CardinalityType
  <2>6. QED
    BY <2>1, <2>3, <2>4, <2>5, Countable
<1>5. Serial'
  <2> SUFFICES ASSUME orderly PROVE Serial'
    BY DEF Serial
  <2>1. \A q \in Procs : At(q, "idle")'
    BY <1>1, MoverFacts DEF At, Idle
  <2>2. QED
    BY <2>1 DEF Serial, Knows, At
<1>6. NoneRaced'
  BY DEF IInv, NoneRaced
<1>7. RowsFollow'
  <2> SUFFICES ASSUME orderly, whole, NEW k \in Keys
               PROVE  Described(k)'
    BY DEF RowsFollow
  <2>1. CASE k \in S
    BY <2>1 DEF Described
  <2>2. CASE k \notin S
    BY <2>2, AloneUnsettled DEF Described
  <2>3. QED
    BY <2>1, <2>2
<1>8. QED
  BY <1>2, <1>3, <1>4, <1>5, <1>6, <1>7 DEF IInv

LEMMA UpsertKeeps ==
  ASSUME IInv, NEW p \in Procs, Upsert(p)
  PROVE  IInv'
<1> DEFINE k == req[p].dest
           c == IF req[p].kind = "see" THEN req[p].meta ELSE req[p].copied
<1>1. /\ req[p].pc = "upsert" /\ ~At(p, "idle") /\ Ends(p)
      /\ records' = [records EXCEPT ![k] = c] /\ behind' = behind \ {k}
      /\ UNCHANGED <<unescaped, objects, lost, raced, orderly, whole>>
  BY DEF Upsert, At
<1>2. InPlace(req[p]) /\ req[p] \in Operation /\ (orderly => Knows(req[p]))
  BY MoverFacts
<1>3. k \in Keys
  BY <1>1, <1>2 DEF InPlace, Erasing
<1>4. c \in Contents \cup {None}
  BY <1>2 DEF Operation
<1>5. records' \in [Keys -> Contents \cup {None}] /\ behind' \subseteq Keys
  BY <1>1, <1>4 DEF IInv, TypeOK
<1>6. /\ records'[k] = c
      /\ \A j \in Keys \ {k} : records'[j] = records[j] /\ (j \in behind <=> j \in behind')
  BY <1>1, <1>3 DEF IInv, TypeOK
<1>7. orderly => objects[k] # None /\ c = objects[k]
  BY <1>1, <1>2 DEF Knows
<1>8. Unsettled(req[p]) = {}
  BY <1>1 DEF Unsettled
<1>9. orderly => \A j \in {k} : records'[j] = None \/
                                 (objects[j] # None /\ records'[j] = objects[j])
  BY <1>6, <1>7
<1>10. Unsettled(req[p]) \subseteq {k}
  BY <1>8
<1> HIDE DEF k, c
<1>11. QED
  BY <1>1, <1>5, <1>6, <1>9, <1>10, RowStep

LEMMA MoveKeyKeeps ==
  ASSUME IInv, NEW p \in Procs, MoveKey(p)
  PROVE  IInv'
<1> DEFINE src == req[p].src
           dest == req[p].dest
           c == IF req[p].kind = "move" THEN req[p].copied ELSE req[p].meta
<1>1. /\ req[p].pc = "movekey" /\ ~At(p, "idle") /\ Ends(p)
      /\ records' = [records EXCEPT ![src] = None, ![dest] = c]
      /\ behind' = behind \ {src, dest}
      /\ UNCHANGED <<unescaped, objects, lost, raced, orderly, whole>>
  BY DEF MoveKey, Moved, At
<1>2. InPlace(req[p]) /\ req[p] \in Operation /\ (orderly => Knows(req[p]))
  BY MoverFacts
<1>3. src \in Keys /\ dest \in Keys /\ req[p].kind \in Copying
  BY <1>1, <1>2 DEF InPlace, Copying, Erasing
<1>4. c \in Contents \cup {None}
  BY <1>2 DEF Operation
<1>5. records' \in [Keys -> Contents \cup {None}] /\ behind' \subseteq Keys
  BY <1>1, <1>4 DEF IInv, TypeOK
<1>6. /\ records'[dest] = c /\ (src # dest => records'[src] = None)
      /\ \A j \in Keys \ {src, dest} :
            records'[j] = records[j] /\ (j \in behind <=> j \in behind')
  BY <1>1, <1>3 DEF IInv, TypeOK
<1>7. orderly => objects[dest] # None /\ c = objects[dest] /\ src # dest
  BY <1>1, <1>2, <1>3 DEF Knows
<1>8. Unsettled(req[p]) = {src, dest}
  BY <1>1 DEF Unsettled
<1>9. orderly => \A j \in {src, dest} : records'[j] = None \/
                                         (objects[j] # None /\ records'[j] = objects[j])
  BY <1>6, <1>7
<1>10. Unsettled(req[p]) \subseteq {src, dest}
  BY <1>8
<1> HIDE DEF src, dest, c
<1>11. QED
  BY <1>1, <1>5, <1>6, <1>9, <1>10, RowStep

LEMMA DeleteRowKeeps ==
  ASSUME IInv, NEW p \in Procs, DeleteRow(p)
  PROVE  IInv'
<1> DEFINE src == req[p].src
<1>1. /\ req[p].pc = "deleterow" /\ ~At(p, "idle") /\ Ends(p)
      /\ records' = [records EXCEPT ![src] = None] /\ behind' = behind \ {src}
      /\ UNCHANGED <<unescaped, objects, lost, raced, orderly, whole>>
  BY DEF DeleteRow, At
<1>2. InPlace(req[p])
  BY MoverFacts
<1>3. src \in Keys
  BY <1>1, <1>2 DEF InPlace, Erasing
<1>4. records' \in [Keys -> Contents \cup {None}] /\ behind' \subseteq Keys
  BY <1>1 DEF IInv, TypeOK
<1>5. /\ records'[src] = None
      /\ \A j \in Keys \ {src} : records'[j] = records[j] /\ (j \in behind <=> j \in behind')
  BY <1>1, <1>3 DEF IInv, TypeOK
<1>6. Unsettled(req[p]) = {src}
  BY <1>1 DEF Unsettled
<1> HIDE DEF src
<1>7. QED
  BY <1>1, <1>4, <1>5, <1>6, RowStep

-----------------------------------------------------------------------------
(* WriteDest *)

(* The call of p wrote c, and its new place is r. *)
Wrote(p, c, r) ==
  /\ req[p].pc = "copy" /\ req[p].kind \in Copying \cup {"copy", "mkdir"}
  /\ req[p].dest \in Keys
  /\ req[p].kind # "mkdir" => req[p].src \in Keys
  /\ req[p].kind # "mkdir" /\ unescaped[req[p].src] = req[p].src =>
       c = objects[req[p].src] /\ req[p].src # req[p].dest
  /\ req[p].kind = "mkdir" => req[p].src = None
  /\ objects' = [objects EXCEPT ![req[p].dest] = c]
  /\ lost' = lost \cup Some(objects[req[p].dest])
  /\ raced' = (raced \/ (objects[req[p].dest] # None /\ req[p].kind # "trash"))
  /\ orderly' = (orderly /\ CopiedFrom(req[p]) = req[p].src)
  /\ UNCHANGED <<unescaped, records, behind, whole>>
  /\ Moves(p, r) /\ InPlace(r)
  /\ r.pc = IF req[p].kind \in Copying THEN "delete" ELSE "upsert"
  /\ r.kind = req[p].kind /\ r.src = req[p].src /\ r.dest = req[p].dest
  /\ r.meta = req[p].meta /\ r.copied = c

LEMMA WriteFacts ==
  ASSUME IInv, NEW p \in Procs, WriteDest(p)
  PROVE  \/ Ends(p) /\ UNCHANGED <<unescaped, objects, records, history>>
         \/ \E c \in Contents, r \in Operation : Wrote(p, c, r)
<1> DEFINE from == CopiedFrom(req[p])
           old == IF from = req[p].dest THEN None ELSE objects[req[p].dest]
<1>1. req[p] \in Operation /\ InPlace(req[p])
  BY MoverFacts
<1>2. /\ req[p].pc = "copy" /\ req[p].kind \in Copying \cup {"copy", "mkdir"}
      /\ req[p].dest \in Keys /\ (req[p].kind # "mkdir" => req[p].src \in Keys)
      /\ (req[p].kind = "mkdir" => req[p].src = None)
  BY <1>1 DEF WriteDest, At, InPlace, Copying, Erasing
<1>0. CASE Ends(p) /\ UNCHANGED <<objects, lost, raced, orderly>>
  BY <1>0 DEF WriteDest, history
<1> SUFFICES ASSUME ~(Ends(p) /\ UNCHANGED <<objects, lost, raced, orderly>>)
             PROVE  \E c \in Contents, r \in Operation : Wrote(p, c, r)
  BY <1>0
<1>3. PICK c \in Written(p) :
        /\ c # None
        /\ objects' = [objects EXCEPT ![req[p].dest] = c]
        /\ lost' = lost \cup Some(old)
        /\ raced' = (raced \/ (old # None /\ req[p].kind # "trash"))
        /\ orderly' = (orderly /\ from = req[p].src)
        /\ Moves(p, [req[p] EXCEPT !.copied = c,
             !.pc = IF req[p].kind \in Copying THEN "delete" ELSE "upsert"])
  BY DEF WriteDest
<1> DEFINE r == [req[p] EXCEPT !.copied = c,
                   !.pc = IF req[p].kind \in Copying THEN "delete" ELSE "upsert"]
<1>4. UNCHANGED <<unescaped, records, behind, whole>> /\ Moves(p, r)
  BY <1>3 DEF WriteDest
<1>5. from \in Keys \cup {None} /\ (req[p].kind # "mkdir" => from = unescaped[req[p].src])
  BY <1>2, ObjectAssumption DEF CopiedFrom, IInv, TypeOK
<1>6. /\ from # req[p].dest
      /\ from # None => c = objects[from]
      /\ c \in Contents
  BY <1>2, <1>3, <1>5, ObjectAssumption DEF Written, CopiedFrom, CopiesOntoItself, IInv, TypeOK
<1>7. /\ old = objects[req[p].dest]
      /\ req[p].kind # "mkdir" /\ unescaped[req[p].src] = req[p].src =>
           c = objects[req[p].src] /\ req[p].src # req[p].dest
  BY <1>2, <1>5, <1>6, ObjectAssumption
<1>8. r \in Operation
  BY <1>1, <1>6 DEF Operation, Points
<1>9. /\ r.pc = IF req[p].kind \in Copying THEN "delete" ELSE "upsert"
      /\ r.kind = req[p].kind /\ r.src = req[p].src /\ r.dest = req[p].dest
      /\ r.meta = req[p].meta /\ r.copied = c
  BY <1>1 DEF Operation
<1> HIDE DEF r, old, from
<1>10. InPlace(r)
  BY <1>2, <1>6, <1>9 DEF InPlace, Copying, Erasing
<1>11. QED
  BY <1>2, <1>3, <1>4, <1>6, <1>7, <1>8, <1>9, <1>10 DEF from, Wrote

(* A content that is not lost loses no place to a copy; the content copied  *)
(* gains one.                                                               *)
LEMMA WritePlaces ==
  ASSUME IInv, NEW k \in Keys, NEW c \in Contents,
         objects' = [objects EXCEPT ![k] = c], lost' = lost \cup Some(objects[k]),
         NEW x \in Contents, x \notin lost'
  PROVE  /\ x \notin lost
         /\ x # c => Places(x)' = Places(x)
         /\ x = c => Places(x)' = Places(x) \cup {k} /\ k \notin Places(x)
<1>1. x \notin lost /\ objects[k] # x
  BY ObjectAssumption DEF Some
<1>2. objects'[k] = c /\ \A j \in Keys : j # k => objects'[j] = objects[j]
  BY DEF IInv, TypeOK
<1>3. QED
  BY <1>1, <1>2 DEF Places

LEMMA WriteSpread ==
  ASSUME IInv, NEW p \in Procs, NEW c \in Contents, NEW r \in Operation, Wrote(p, c, r)
  PROVE  Spread'
<1>1. /\ req[p].pc = "copy" /\ req[p].kind \in Copying \cup {"copy", "mkdir"}
      /\ req[p].dest \in Keys /\ unescaped' = unescaped
      /\ req[p].kind # "mkdir" /\ unescaped[req[p].src] = req[p].src =>
           req[p].src \in Keys /\ c = objects[req[p].src]
      /\ objects' = [objects EXCEPT ![req[p].dest] = c]
      /\ lost' = lost \cup Some(objects[req[p].dest])
      /\ Moves(p, r)
      /\ r.pc = IF req[p].kind \in Copying THEN "delete" ELSE "upsert"
      /\ r.kind = req[p].kind /\ r.copied = c /\ r.src = req[p].src
  BY DEF Wrote
<1>2. req'[p] = r /\ \A q \in Procs : q # p => req'[q] = req[q]
  BY <1>1 DEF IInv, TypeOK, Moves
<1>3. SUFFICES ASSUME NEW x \in Contents, x \notin lost', Pending(x)' # {}
               PROVE  Cardinality(Pending(x)') < Cardinality(Places(x)')
  BY DEF Spread
<1>4. /\ x \notin lost
      /\ x # c => Places(x)' = Places(x)
      /\ x = c => Places(x)' = Places(x) \cup {req[p].dest} /\ req[p].dest \notin Places(x)
  BY <1>1, <1>3, WritePlaces
<1>5. Pending(x) = {} \/ Cardinality(Pending(x)) < Cardinality(Places(x))
  BY <1>4 DEF IInv, Spread
<1>6. p \notin Pending(x)
  BY <1>1 DEF Pending, CopiedOf, At
<1>7. CASE x = c
  <2>1. Cardinality(Places(x)') = Cardinality(Places(x)) + 1
    BY <1>4, <1>7, Countable, FS_AddElement
  <2>2. CASE req[p].kind \in Copying /\ unescaped[req[p].src] = req[p].src
    <3>1. Pending(x)' = Pending(x) \cup {p}
      BY <1>1, <1>2, <1>7, <2>2 DEF Pending, CopiedOf, At
    <3>2. Cardinality(Pending(x)') = Cardinality(Pending(x)) + 1
      BY <1>6, <3>1, Countable, FS_AddElement
    <3>3. req[p].src \in Places(x)
      BY <1>1, <1>7, <2>2 DEF Places, Copying
    <3>4. Cardinality(Places(x)) > 0
      BY <3>3, Countable
    <3>5. QED
      BY <1>5, <2>1, <3>2, <3>4, Countable
  <2>3. CASE ~(req[p].kind \in Copying /\ unescaped[req[p].src] = req[p].src)
    <3>1. Pending(x)' = Pending(x)
      BY <1>1, <1>2, <1>6, <2>3 DEF Pending, CopiedOf, At
    <3>2. QED
      BY <1>3, <1>5, <2>1, <3>1, Countable
  <2>4. QED
    BY <2>2, <2>3
<1>8. CASE x # c
  <2>1. Pending(x)' = Pending(x)
    BY <1>1, <1>2, <1>6, <1>8 DEF Pending, CopiedOf, At
  <2>2. QED
    BY <1>3, <1>4, <1>5, <1>8, <2>1
<1>9. QED
  BY <1>7, <1>8

LEMMA WriteDestKeeps ==
  ASSUME IInv, NEW p \in Procs, WriteDest(p)
  PROVE  IInv'
<1>1. CASE Ends(p) /\ UNCHANGED <<unescaped, objects, records, history>>
  <2>1. ~At(p, "idle") /\ req[p].pc = "copy"
    BY DEF WriteDest, At
  <2>2. Unsettled(req[p]) = {}
    BY <2>1 DEF Unsettled
  <2>3. QED
    BY <1>1, <2>1, <2>2, EndStep
<1>2. ASSUME NEW c \in Contents, NEW r \in Operation, Wrote(p, c, r)
      PROVE  IInv'
  <2>1. /\ req[p].pc = "copy" /\ req[p].kind \in Copying \cup {"copy", "mkdir"}
        /\ req[p].dest \in Keys
        /\ orderly' => /\ orderly
                       /\ req[p].kind # "mkdir" =>
                            /\ req[p].src \in Keys /\ req[p].src # req[p].dest
                            /\ c = objects[req[p].src]
        /\ req[p].kind = "mkdir" => req[p].src = None
        /\ objects' = [objects EXCEPT ![req[p].dest] = c]
        /\ lost' = lost \cup Some(objects[req[p].dest])
        /\ raced' = (raced \/ (objects[req[p].dest] # None /\ req[p].kind # "trash"))
        /\ UNCHANGED <<unescaped, records, behind, whole>> /\ orderly' \in BOOLEAN
        /\ Moves(p, r) /\ InPlace(r)
        /\ r.pc = IF req[p].kind \in Copying THEN "delete" ELSE "upsert"
        /\ r.kind = req[p].kind /\ r.src = req[p].src /\ r.dest = req[p].dest
        /\ r.meta = req[p].meta /\ r.copied = c
    BY <1>2 DEF Wrote, CopiedFrom
  <2> DEFINE d == req[p].dest
  <2>2. /\ req' \in [Procs -> Operation] /\ req'[p] = r
        /\ \A q \in Procs : q # p => req'[q] = req[q]
    BY <2>1 DEF IInv, TypeOK, Moves
  <2>3. /\ objects' \in [Keys -> Contents \cup {None}] /\ objects'[d] = c
        /\ \A k \in Keys : k # d => objects'[k] = objects[k]
    BY <2>1 DEF IInv, TypeOK
  <2>4. TypeOK'
    <3>1. Some(objects[d]) \subseteq Contents
      BY <2>1 DEF Some, IInv, TypeOK
    <3>2. raced' \in BOOLEAN
      BY <2>1
    <3>3. QED
      BY <2>1, <2>2, <2>3, <3>1, <3>2 DEF IInv, TypeOK
  <2>5. Control'
    BY <2>1, <2>2 DEF IInv, Control
  <2>6. orderly' => /\ Knows(req[p]) /\ \A q \in Procs : q # p => At(q, "idle")
                    /\ req[p].kind = "trash" \/ objects[d] = None
    <3>1. ~At(p, "idle")
      BY <2>1 DEF At
    <3>2. orderly => Knows(req[p]) /\ \A q \in Procs : q # p => At(q, "idle")
      BY <3>1, MoverFacts
    <3>3. orderly' => req[p].src # d
      BY <2>1, ObjectAssumption
    <3>4. QED
      BY <2>1, <3>2, <3>3 DEF Knows, Free
  <2>7. Serial'
    <3> SUFFICES ASSUME orderly' PROVE Serial'
      BY <2>1 DEF Serial
    <3>1. \A q \in Procs : q # p => At(q, "idle")' /\ Knows(req[q])'
      BY <2>2, <2>6 DEF At, Knows
    <3>2. CASE req[p].kind \in Copying
      <4>1. r.pc = "delete" /\ r.kind # "see" /\ req[p].src \in Keys
        BY <2>1, <3>2 DEF Copying
      <4>2. req[p].meta = objects[req[p].src] /\ req[p].meta # None
        BY <2>1, <2>6, <3>2 DEF Knows, Copying
      <4>3. c = objects[req[p].src] /\ objects'[req[p].src] = c /\ objects'[d] = c
        BY <2>1, <2>3, <3>2, <4>1 DEF Copying
      <4>4. /\ r.meta = objects'[r.src] /\ r.meta # None /\ r.copied = r.meta
            /\ objects'[r.dest] = r.copied /\ r.src # r.dest
        BY <2>1, <3>2, <4>2, <4>3 DEF Copying
      <4>5. Knows(r)'
        BY <4>1, <4>4 DEF Knows
      <4>6. QED
        BY <2>2, <3>1, <4>5 DEF Serial
    <3>3. CASE req[p].kind \notin Copying
      <4>1. r.pc = "upsert" /\ r.kind # "see" /\ c # None
        BY <2>1, <3>3, ObjectAssumption DEF Copying
      <4>2. Knows(r)'
        BY <2>1, <2>3, <4>1 DEF Knows
      <4>3. QED
        BY <2>2, <3>1, <4>2 DEF Serial
    <3>4. QED
      BY <3>2, <3>3
  <2>8. NoneRaced'
    BY <2>1, <2>6 DEF IInv, NoneRaced
  <2>9. RowsFollow'
    <3>0. Unsettled(req[p])' = Unsettled(r)
      BY <2>2 DEF Unsettled
    <3> SUFFICES ASSUME orderly', whole, NEW k \in Keys
                 PROVE  Described(k)' \/ k \in Unsettled(r)
      BY <2>1, <3>0 DEF RowsFollow
    <3>1. Unsettled(req[p]) = {} /\ ~At(p, "idle")
      BY <2>1 DEF Unsettled, At
    <3>2. Described(k)
      BY <2>1, <3>1, AloneUnsettled
    <3>3. CASE k # d
      BY <2>1, <2>3, <3>2, <3>3 DEF Described
    <3>4. CASE k = d /\ req[p].kind = "trash"
      BY <2>1, <3>4 DEF Unsettled, Copying
    <3>5. CASE k = d /\ req[p].kind # "trash"
      BY <2>1, <2>6, <3>2, <3>5 DEF Described
    <3>6. QED
      BY <3>3, <3>4, <3>5
  <2>10. QED
    BY <1>2, <2>4, <2>5, <2>7, <2>8, <2>9, WriteSpread DEF IInv
<1>3. QED
  BY <1>1, <1>2, WriteFacts

-----------------------------------------------------------------------------
(* DeleteSource *)

(* The operation's new place is r. *)
LEMMA DeleteFacts ==
  ASSUME IInv, NEW p \in Procs, DeleteSource(p)
  PROVE  \E r \in Operation :
           /\ req[p].pc = "delete" /\ req[p].kind \in Copying \cup Erasing
           /\ req[p].src \in Keys
           /\ objects' = [objects EXCEPT ![req[p].src] = None]
           /\ req[p].kind \in Erasing => lost' = lost \cup Some(objects[req[p].src])
           /\ req[p].kind \in Copying =>
                lost' = lost \cup (Some(objects[req[p].src]) \ CopiedOf(req[p]))
           /\ raced' = (raced \/ objects[req[p].src] \notin
                {None, IF req[p].kind \in Erasing THEN req[p].meta ELSE req[p].copied})
           /\ UNCHANGED <<unescaped, records, behind, orderly, whole>>
           /\ Moves(p, r) /\ InPlace(r)
           /\ r.pc = IF req[p].kind \in Erasing THEN "deleterow" ELSE "movekey"
           /\ r.kind = req[p].kind /\ r.src = req[p].src /\ r.dest = req[p].dest
           /\ r.meta = req[p].meta /\ r.copied = req[p].copied
<1> DEFINE point == IF req[p].kind \in Erasing THEN "deleterow" ELSE "movekey"
           r == [req[p] EXCEPT !.pc = point]
<1>1. req[p] \in Operation /\ InPlace(req[p])
  BY MoverFacts
<1>2. /\ req[p].pc = "delete" /\ req[p].kind \in Copying \cup Erasing
      /\ req[p].src \in Keys
  BY <1>1 DEF DeleteSource, At, InPlace, Copying, Erasing
<1>3. /\ objects' = [objects EXCEPT ![req[p].src] = None]
      /\ lost' = lost \cup (Some(objects[req[p].src]) \ CopiedOf(req[p]))
      /\ raced' = (raced \/ objects[req[p].src] \notin
                {None, IF req[p].kind \in Erasing THEN req[p].meta ELSE req[p].copied})
      /\ UNCHANGED <<unescaped, records, behind, orderly, whole>>
      /\ Moves(p, r)
  BY DEF DeleteSource, Goes
<1>4. /\ req[p].kind \in Erasing => lost' = lost \cup Some(objects[req[p].src])
      /\ req[p].kind \in Copying =>
           lost' = lost \cup (Some(objects[req[p].src]) \ CopiedOf(req[p]))
  BY <1>2, <1>3 DEF CopiedOf, Copying, Erasing
<1>5. r \in Operation
  BY <1>1 DEF Operation, Points
<1>6. /\ r.pc = point /\ r.kind = req[p].kind /\ r.src = req[p].src /\ r.dest = req[p].dest
      /\ r.meta = req[p].meta /\ r.copied = req[p].copied
  BY <1>1 DEF Operation
<1> HIDE DEF r
<1>7. InPlace(r)
  BY <1>1, <1>2, <1>6 DEF InPlace, Copying, Erasing
<1>8. QED
  BY <1>2, <1>3, <1>4, <1>5, <1>6, <1>7

(* A content that is not lost loses a place only to an operation that       *)
(* counts as pending for it, and so has another.                            *)
LEMMA DeletePlaces ==
  ASSUME IInv, NEW p \in Procs, DeleteSource(p), NEW x \in Contents, x \notin lost'
  PROVE  /\ Pending(x)' = Pending(x) \ {p}
         /\ p \in Pending(x) => Places(x)' = Places(x) \ {req[p].src}
         /\ p \notin Pending(x) => Places(x)' = Places(x)
         /\ x \notin lost
<1>1. PICK r \in Operation :
           /\ req[p].pc = "delete" /\ req[p].kind \in Copying \cup Erasing
           /\ req[p].src \in Keys
           /\ objects' = [objects EXCEPT ![req[p].src] = None]
           /\ req[p].kind \in Erasing => lost' = lost \cup Some(objects[req[p].src])
           /\ req[p].kind \in Copying =>
                lost' = lost \cup (Some(objects[req[p].src]) \ CopiedOf(req[p]))
           /\ Moves(p, r) /\ unescaped' = unescaped
           /\ r.pc = IF req[p].kind \in Erasing THEN "deleterow" ELSE "movekey"
  BY DeleteFacts
<1>2. req'[p] = r /\ \A q \in Procs : q # p => req'[q] = req[q]
  BY <1>1 DEF IInv, TypeOK, Moves
<1>3. /\ objects'[req[p].src] = None
      /\ \A j \in Keys : j # req[p].src => objects'[j] = objects[j]
  BY <1>1 DEF IInv, TypeOK
<1>4. x # None
  BY ObjectAssumption
<1>5. Pending(x)' = Pending(x) \ {p}
  BY <1>1, <1>2 DEF Pending, CopiedOf, At
<1>6. Places(x)' = Places(x) \ {req[p].src}
  BY <1>3, <1>4 DEF Places
<1>7. ASSUME p \notin Pending(x)
      PROVE  objects[req[p].src] # x
  <2>1. CASE req[p].kind \in Erasing
    BY <1>1, <1>4, <2>1 DEF Some
  <2>2. CASE req[p].kind \in Copying
    <3>1. x \notin CopiedOf(req[p])
      BY <1>1, <1>7, <2>2 DEF Pending, At
    <3>2. QED
      BY <1>1, <1>4, <2>2, <3>1 DEF Some
  <2>3. QED
    BY <1>1, <2>1, <2>2
<1>8. p \notin Pending(x) => Places(x)' = Places(x)
  BY <1>6, <1>7 DEF Places
<1>9. x \notin lost
  BY <1>1
<1>10. QED
  BY <1>5, <1>6, <1>8, <1>9

LEMMA DeleteSpread ==
  ASSUME IInv, NEW p \in Procs, DeleteSource(p)
  PROVE  Spread'
<1> SUFFICES ASSUME NEW x \in Contents, x \notin lost', Pending(x)' # {}
             PROVE  Cardinality(Pending(x)') < Cardinality(Places(x)')
  BY DEF Spread
<1>1. /\ Pending(x)' = Pending(x) \ {p} /\ x \notin lost
      /\ p \in Pending(x) => Places(x)' = Places(x) \ {req[p].src}
      /\ p \notin Pending(x) => Places(x)' = Places(x)
  BY DeletePlaces
<1>2. Pending(x) # {} /\ Cardinality(Pending(x)) < Cardinality(Places(x))
  BY <1>1 DEF IInv, Spread
<1>3. CASE p \in Pending(x)
  <2>1. Cardinality(Pending(x)') = Cardinality(Pending(x)) - 1
    BY <1>1, <1>3, Countable, FS_RemoveElement
  <2>2. Cardinality(Places(x)') = Cardinality(Places(x)) \/
        Cardinality(Places(x)') = Cardinality(Places(x)) - 1
    BY <1>1, <1>3, Countable, FS_RemoveElement
  <2>3. QED
    BY <1>2, <2>1, <2>2, Countable
<1>4. CASE p \notin Pending(x)
  BY <1>1, <1>2, <1>4
<1>5. QED
  BY <1>3, <1>4

LEMMA DeleteSourceKeeps ==
  ASSUME IInv, NEW p \in Procs, DeleteSource(p)
  PROVE  IInv'
<1>1. PICK r \in Operation :
           /\ req[p].pc = "delete" /\ req[p].kind \in Copying \cup Erasing
           /\ req[p].src \in Keys
           /\ objects' = [objects EXCEPT ![req[p].src] = None]
           /\ req[p].kind \in Erasing => lost' = lost \cup Some(objects[req[p].src])
           /\ req[p].kind \in Copying =>
                lost' = lost \cup (Some(objects[req[p].src]) \ CopiedOf(req[p]))
           /\ raced' = (raced \/ objects[req[p].src] \notin
                {None, IF req[p].kind \in Erasing THEN req[p].meta ELSE req[p].copied})
           /\ UNCHANGED <<unescaped, records, behind, orderly, whole>>
           /\ Moves(p, r) /\ InPlace(r)
           /\ r.pc = IF req[p].kind \in Erasing THEN "deleterow" ELSE "movekey"
           /\ r.kind = req[p].kind /\ r.src = req[p].src /\ r.dest = req[p].dest
           /\ r.meta = req[p].meta /\ r.copied = req[p].copied
  BY DeleteFacts
<1> DEFINE s == req[p].src
<1>2. /\ req' \in [Procs -> Operation] /\ req'[p] = r
      /\ \A q \in Procs : q # p => req'[q] = req[q]
  BY <1>1 DEF IInv, TypeOK, Moves
<1>3. /\ objects' \in [Keys -> Contents \cup {None}] /\ objects'[s] = None
      /\ \A k \in Keys : k # s => objects'[k] = objects[k]
  BY <1>1 DEF IInv, TypeOK
<1>4. TypeOK'
  <2>1. Some(objects[s]) \subseteq Contents
    BY <1>1 DEF Some, IInv, TypeOK
  <2>2. raced' \in BOOLEAN
    BY <1>1
  <2>3. lost' \subseteq Contents
    BY <1>1, <2>1 DEF IInv, TypeOK
  <2>4. QED
    BY <1>1, <1>2, <1>3, <2>2, <2>3 DEF IInv, TypeOK
<1>5. Control'
  BY <1>1, <1>2 DEF IInv, Control
<1>6. /\ ~At(p, "idle")
      /\ orderly => Knows(req[p]) /\ \A q \in Procs : q # p => At(q, "idle")
  BY <1>1, MoverFacts DEF At
<1>7. orderly => /\ req[p].kind \in Erasing => objects[s] = req[p].meta
                 /\ req[p].kind \in Copying =>
                      /\ objects[s] = req[p].copied /\ req[p].copied = req[p].meta
                      /\ req[p].meta # None /\ req[p].dest # s /\ req[p].dest \in Keys
                      /\ objects[req[p].dest] = req[p].copied
  <2>1. req[p].kind \in Copying => req[p].dest \in Keys
    BY <1>1, MoverFacts DEF InPlace, Copying, Erasing
  <2>2. QED
    BY <1>1, <1>6, <2>1 DEF Knows
<1>8. Serial'
  <2> SUFFICES ASSUME orderly PROVE Serial'
    BY <1>1 DEF Serial
  <2>1. \A q \in Procs : q # p => At(q, "idle")' /\ Knows(req[q])'
    BY <1>2, <1>6 DEF At, Knows
  <2>2. CASE req[p].kind \in Erasing
    <3>1. /\ r.pc = "deleterow" /\ objects'[r.src] = None
      BY <1>1, <1>3, <2>2
    <3>2. Knows(r)'
      BY <3>1 DEF Knows
    <3>3. QED
      BY <1>2, <2>1, <3>2 DEF Serial
  <2>3. CASE req[p].kind \in Copying
    <3>1. /\ r.pc = "movekey" /\ objects'[r.src] = None /\ r.src # r.dest
          /\ r.copied = r.meta /\ r.copied # None
      BY <1>1, <1>3, <1>7, <2>3 DEF Copying, Erasing
    <3>2. objects'[r.dest] = r.copied
      BY <1>1, <1>3, <1>7, <2>3
    <3>3. Knows(r)'
      BY <3>1, <3>2 DEF Knows
    <3>4. QED
      BY <1>2, <2>1, <3>3 DEF Serial
  <2>4. QED
    BY <1>1, <2>2, <2>3
<1>9. NoneRaced'
  <2>1. orderly => raced' = raced
    BY <1>1, <1>7 DEF IInv, TypeOK, Copying, Erasing
  <2>2. QED
    BY <1>1, <2>1 DEF IInv, NoneRaced
<1>10. RowsFollow'
  <2>1. Unsettled(req[p])' = Unsettled(r)
    BY <1>2 DEF Unsettled
  <2> SUFFICES ASSUME orderly, whole, NEW k \in Keys, k \notin Unsettled(r)
               PROVE  Described(k)'
    BY <1>1, <2>1 DEF RowsFollow
  <2>2. k # s /\ k \notin Unsettled(req[p])
    BY <1>1 DEF Unsettled, Copying, Erasing
  <2>3. Described(k)
    BY <1>6, <2>2, AloneUnsettled
  <2>4. QED
    BY <1>1, <1>3, <2>2, <2>3 DEF Described
<1>11. QED
  BY <1>4, <1>5, <1>8, <1>9, <1>10, DeleteSpread DEF IInv

-----------------------------------------------------------------------------
(* Uploads *)

LEMMA PutKeeps ==
  ASSUME IInv, NEW k \in Keys, NEW c \in Contents, Put(k, c)
  PROVE  IInv'
<1>1. /\ objects' = [objects EXCEPT ![k] = c] /\ lost' = lost \cup Some(objects[k])
      /\ behind' = behind \cup {k} /\ UNCHANGED <<unescaped, records, req, raced, whole>>
      /\ orderly' = (orderly /\ \A p \in Procs : At(p, "idle"))
  BY DEF Put
<1>2. /\ objects' \in [Keys -> Contents \cup {None}] /\ objects'[k] = c
      /\ \A j \in Keys : j # k => objects'[j] = objects[j]
  BY <1>1 DEF IInv, TypeOK
<1>3. TypeOK'
  <2>1. Some(objects[k]) \subseteq Contents /\ orderly' \in BOOLEAN
    BY <1>1 DEF Some, IInv, TypeOK
  <2>2. QED
    BY <1>1, <1>2, <2>1 DEF IInv, TypeOK
<1>4. Control'
  BY <1>1 DEF IInv, Control
<1>5. Spread'
  <2> SUFFICES ASSUME NEW x \in Contents, x \notin lost', Pending(x)' # {}
               PROVE  Cardinality(Pending(x)') < Cardinality(Places(x)')
    BY DEF Spread
  <2>1. /\ x \notin lost
        /\ x # c => Places(x)' = Places(x)
        /\ x = c => Places(x)' = Places(x) \cup {k}
    BY <1>1, WritePlaces
  <2>2. Pending(x)' = Pending(x)
    BY <1>1 DEF Pending, CopiedOf, At
  <2>3. Cardinality(Pending(x)) < Cardinality(Places(x))
    BY <2>1, <2>2 DEF IInv, Spread
  <2>4. Cardinality(Places(x)') = Cardinality(Places(x)) \/
        Cardinality(Places(x)') = Cardinality(Places(x)) + 1
    BY <2>1, Countable, FS_AddElement
  <2>5. QED
    BY <2>2, <2>3, <2>4, Countable
<1>6. Serial'
  <2> SUFFICES ASSUME orderly' PROVE Serial'
    BY DEF Serial
  <2>1. \A p \in Procs : At(p, "idle")'
    BY <1>1 DEF At
  <2>2. QED
    BY <2>1 DEF Serial, At, Knows
<1>7. NoneRaced'
  BY <1>1 DEF IInv, NoneRaced
<1>8. RowsFollow'
  <2> SUFFICES ASSUME orderly', whole', NEW j \in Keys PROVE Described(j)'
    BY DEF RowsFollow
  <2>1. orderly /\ whole /\ \A p \in Procs : Unsettled(req[p]) = {}
    BY <1>1 DEF At, Unsettled
  <2>2. Described(j)
    BY <2>1 DEF IInv, RowsFollow
  <2>3. CASE j = k
    BY <1>1, <1>2, <2>3, ObjectAssumption DEF Described
  <2>4. CASE j # k
    BY <1>1, <1>2, <2>2, <2>4 DEF Described
  <2>5. QED
    BY <2>3, <2>4
<1>9. QED
  BY <1>3, <1>4, <1>5, <1>6, <1>7, <1>8 DEF IInv

-----------------------------------------------------------------------------

LEMMA InitHolds == Init => IInv
<1> SUFFICES ASSUME Init PROVE IInv
  OBVIOUS
<1>1. \A p \in Procs : req[p] = Idle /\ At(p, "idle")
  BY DEF Init, Idle, At
<1>2. TypeOK
  BY <1>1, IdleFits DEF Init, TypeOK
<1>3. Control
  BY <1>1, IdleFits DEF Control
<1>4. Spread
  BY <1>1 DEF Spread, Pending, At, Idle
<1>5. Serial
  BY <1>1, IdleFits DEF Serial
<1>6. NoneRaced
  BY DEF Init, NoneRaced
<1>7. RowsFollow
  BY DEF Init, RowsFollow, Described
<1>8. QED
  BY <1>2, <1>3, <1>4, <1>5, <1>6, <1>7 DEF IInv

LEMMA NextKeeps == IInv /\ [Next]_vars => IInv'
<1> SUFFICES ASSUME IInv, [Next]_vars
             PROVE  IInv'
  OBVIOUS
<1>1. ASSUME NEW p \in Procs, Continue(p)
      PROVE  IInv'
  BY <1>1, HeadDestKeeps, HeadSourceKeeps, WriteDestKeeps, DeleteSourceKeeps, UpsertKeeps,
     MoveKeyKeeps, DeleteRowKeeps DEF Continue
<1>2. CASE UNCHANGED vars
  BY <1>2 DEF vars, IInv, TypeOK, Control, Spread, Serial, NoneRaced, RowsFollow, Described,
              Places, Pending, CopiedOf, At, Knows, Free, Unsettled
<1>3. QED
  BY <1>1, <1>2, StartKeeps, AbortKeeps, PutKeeps DEF Next

(* The invariant of ObjectOps holds of every behaviour. *)
THEOREM Invariance == Spec => []IInv
BY InitHolds, NextKeeps, PTL DEF Spec

(* Objects, rows and operations stay what their types say. *)
THEOREM TypeCorrectness == Spec => []TypeOK
<1>1. IInv => TypeOK
  BY DEF IInv
<1>2. QED
  BY <1>1, Invariance, PTL

(* Without overlap no operation replaces or deletes what it has not seen.   *)
THEOREM NoneRacedAlways == Spec => []NoneRaced
<1>1. IInv => NoneRaced
  BY DEF IInv
<1>2. QED
  BY <1>1, Invariance, PTL

(* Without overlap, rows have objects and describe them, as long as no      *)
(* operation stopped between the bucket and its rows.                       *)
THEOREM RecordsDescribeObjectsAlways == Spec => []RecordsDescribeObjects
<1>1. IInv => RecordsDescribeObjects
  BY DEF IInv, RowsFollow, RecordsDescribeObjects, Quiet, At, Unsettled
<1>2. QED
  BY <1>1, Invariance, PTL

-----------------------------------------------------------------------------
(* What a single step can take from the bucket *)

LEMMA NothingVanishesStep ==
  ASSUME IInv, Next, NEW c \in Contents, Places(c) # {}, c \notin lost'
  PROVE  Places(c)' # {}
<1>1. CASE UNCHANGED objects
  BY <1>1 DEF Places
<1>2. ASSUME NEW k \in Keys, NEW d \in Contents, Put(k, d)
      PROVE  Places(c)' # {}
  BY <1>2, WritePlaces DEF Put
<1>3. ASSUME NEW p \in Procs, WriteDest(p)
      PROVE  Places(c)' # {}
  <2>1. CASE Ends(p) /\ UNCHANGED <<unescaped, objects, records, history>>
    BY <1>1, <2>1
  <2>2. ASSUME NEW d \in Contents, NEW r \in Operation, Wrote(p, d, r)
        PROVE  Places(c)' # {}
    <3>1. /\ req[p].dest \in Keys /\ objects' = [objects EXCEPT ![req[p].dest] = d]
          /\ lost' = lost \cup Some(objects[req[p].dest])
      BY <2>2 DEF Wrote
    <3>2. QED
      BY <3>1, WritePlaces
  <2>3. QED
    BY <1>3, <2>1, <2>2, WriteFacts
<1>4. ASSUME NEW p \in Procs, DeleteSource(p)
      PROVE  Places(c)' # {}
  <2>1. /\ p \in Pending(c) => Places(c)' = Places(c) \ {req[p].src}
        /\ p \notin Pending(c) => Places(c)' = Places(c)
        /\ c \notin lost
    BY <1>4, DeletePlaces
  <2>2. CASE p \in Pending(c)
    <3>1. Cardinality(Pending(c)) # 0 /\ Cardinality(Pending(c)) < Cardinality(Places(c))
      BY <2>1, <2>2, Countable DEF IInv, Spread
    <3>2. Cardinality(Places(c)) > 1
      BY <3>1, Countable
    <3>3. Cardinality(Places(c) \ {req[p].src}) > 0
      <4>1. Cardinality(Places(c) \ {req[p].src}) \in
              {Cardinality(Places(c)), Cardinality(Places(c)) - 1}
        BY Countable, FS_RemoveElement
      <4>2. QED
        BY <3>2, <4>1, Countable
    <3>4. QED
      BY <2>1, <2>2, <3>3, FS_EmptySet
  <2>3. QED
    BY <2>1, <2>2
<1>5. ASSUME NEW p \in Procs, Start(p) \/ Abort(p)
      PROVE  UNCHANGED objects
  BY <1>5 DEF Start, Copy, Move, Delete, RestoreTrash, PurgeTrash, Mkdir, See, Begins, Abort
<1>6. ASSUME NEW p \in Procs, HeadDest(p) \/ HeadSource(p) \/ Upsert(p) \/ MoveKey(p) \/ DeleteRow(p)
      PROVE  UNCHANGED objects
  BY <1>6 DEF HeadDest, HeadSource, Upsert, MoveKey, DeleteRow
<1>7. QED
  BY <1>1, <1>2, <1>3, <1>4, <1>5, <1>6 DEF Next, Continue

(* However operations overlap and fail: a content disappears from the       *)
(* bucket only when an object that holds it is erased on request, replaced, *)
(* or deleted by an operation that had copied something else.               *)
THEOREM NothingVanishesEver == Spec => NothingVanishes
<1>1. IInv /\ [Next]_vars =>
        [\A c \in Contents : Places(c) # {} /\ Places(c)' = {} => c \in lost']_vars
  BY NothingVanishesStep
<1>2. QED
  BY <1>1, Invariance, PTL DEF Spec, NothingVanishes
=============================================================================
