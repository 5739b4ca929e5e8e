------------------------------ MODULE Listing ------------------------------
(***************************************************************************)
(* A listing of one prefix of a bucket, page after page, from              *)
(* object_records: Store.Folded of internal/objects, while rows come and   *)
(* go.  Keys stand for their position in the order of the database, which  *)
(* is that of its collation: where that looks at case or at slashes last,  *)
(* the keys of a folder need not be next to each other.                    *)
(* (Handlers list the storage service instead; Folded has no caller there  *)
(* at this time.)                                                          *)
(***************************************************************************)
EXTENDS Integers, FiniteSets, SequencesExt

CONSTANTS
  Positions,  \* keys under the prefix, hidden ones apart
  FolderOf,   \* the folder that a key is in; "itself" for the prefix, "none"
  MaxKeys,    \* max_keys
  ScanCap     \* records that one page reads

ASSUME ListingAssumption ==
  /\ IsFiniteSet(Positions) /\ Positions \subseteq Nat \ {0}
  /\ MaxKeys \in Nat \ {0} /\ ScanCap \in Nat \ {0} /\ MaxKeys <= ScanCap

VARIABLES
  listable,  \* keys with a row
  page,      \* the page that is put together
  after,     \* the token the client holds: 0 at first, End in the end
  answered,  \* what it was told: objects and folders, in order
  stayed,    \* history: keys that have had their row all the time
  refilled   \* history: folders that were put into, or that the cap cut

listVars == <<listable, page, after, answered, stayed, refilled>>

End == -1

(* left are the records that the loop has not come to. *)
NoPage == [open |-> FALSE, left |-> {}, more |-> FALSE, entries |-> <<>>, last |-> "none",
           token |-> 0, full |-> FALSE]

-----------------------------------------------------------------------------
(* ListPrefix: ORDER BY and LIMIT *)

Records ==
  LET rows == {k \in listable : k > after}
      n == IF Cardinality(rows) < ScanCap THEN Cardinality(rows) ELSE ScanCap IN
  {recs \in SUBSET rows : Cardinality(recs) = n /\ \A j \in recs, k \in rows \ recs : j < k}

ReadRecords ==
  /\ after # End /\ ~page.open
  /\ \E recs \in Records :
       page' = [NoPage EXCEPT !.open = TRUE, !.left = recs, !.more = Cardinality(recs) = ScanCap]
  /\ UNCHANGED <<listable, after, answered, stayed, refilled>>

-----------------------------------------------------------------------------
(* foldList, a record at a time *)

InFolder(k) == FolderOf[k] \notin {"none", "itself"}

Entry(k) == IF InFolder(k) THEN [folder |-> FolderOf[k]] ELSE [key |-> k]

Entries == {Entry(k) : k \in Positions}

Folders == {FolderOf[k] : k \in Positions} \cup {"none"}

(* Folders whose keys the order of the database does not keep together. *)
Scattered ==
  {f \in Folders : \E i, j, k \in Positions :
     /\ i < j /\ j < k
     /\ FolderOf[i] = f /\ FolderOf[k] = f /\ FolderOf[j] \notin {f, "itself"}}

(* The records of the folder that was listed last, and of the prefix. *)
NoEntry(k) == FolderOf[k] = "itself" \/ (InFolder(k) /\ FolderOf[k] = page.last)

(* Mutation: the token stays at the folder's first record. *)
PassedNot(k) == [page EXCEPT !.left = @ \ {k}]

Passed(k) == [page EXCEPT !.left = @ \ {k}, !.token = k]

(* Mutation: the token is the record that has no room. *)
FullPast(k) == [page EXCEPT !.full = TRUE, !.token = k]

Full(k) == [page EXCEPT !.full = TRUE]

Listed(k) ==
  [page EXCEPT !.left = @ \ {k}, !.entries = Append(@, Entry(k)), !.last = FolderOf[k], !.token = k]

Fold ==
  /\ ~page.full
  /\ \E k \in page.left :
       /\ \A j \in page.left : k <= j
       /\ page' = IF NoEntry(k) THEN Passed(k)
                  ELSE IF Len(page.entries) = MaxKeys THEN Full(k)
                  ELSE Listed(k)
  /\ UNCHANGED <<listable, after, answered, stayed, refilled>>

(* The token is of the last record that was passed or listed. *)
Answer ==
  /\ page.open /\ (page.full \/ page.left = {})
  /\ answered' = answered \o page.entries
  /\ after' = IF page.full \/ page.more THEN page.token ELSE End
  /\ refilled' = refilled \cup (IF page.more /\ ~page.full THEN {page.last} ELSE {})
  /\ page' = NoPage
  /\ UNCHANGED <<listable, stayed>>

-----------------------------------------------------------------------------
(* Rows that come and go *)

PutKey(k) ==
  /\ k \notin listable
  /\ listable' = listable \cup {k}
  /\ refilled' = refilled \cup {FolderOf[k]}
  /\ UNCHANGED <<page, after, answered, stayed>>

RemoveKey(k) ==
  /\ k \in listable
  /\ listable' = listable \ {k} /\ stayed' = stayed \ {k}
  /\ UNCHANGED <<page, after, answered, refilled>>

ListInit ==
  /\ listable \in SUBSET Positions /\ stayed = listable
  /\ page = NoPage /\ after = 0 /\ answered = <<>> /\ refilled = {}

ListNext == ReadRecords \/ Fold \/ Answer \/ \E k \in Positions : PutKey(k) \/ RemoveKey(k)

ListSpec == ListInit /\ [][ListNext]_listVars

-----------------------------------------------------------------------------
(* Properties *)

ListTypeOK ==
  /\ listable \subseteq Positions /\ stayed \subseteq listable /\ refilled \subseteq Folders
  /\ page \in [open : BOOLEAN, left : SUBSET Positions, more : BOOLEAN, entries : Seq(Entries),
               last : Folders, token : Positions \cup {0}, full : BOOLEAN]
  /\ after \in Positions \cup {0, End}
  /\ answered \in Seq(Entries)

(* Page by page, every key that has its row all the time is listed, as an   *)
(* object or by its folder, whatever comes and goes between the pages       *)
(* (list.go:135-190).                                                       *)
StayingAreListed ==
  \A k \in stayed :
    FolderOf[k] # "itself" /\ (after = End \/ k <= after) => Entry(k) \in ToSet(answered)

(* Nothing is listed twice: no object in any order of the database, and no  *)
(* folder unless it was put into, the cap on records ended a page inside    *)
(* it, or that order has other keys between its own (list.go:160 compares   *)
(* with the last prefix only).                                              *)
ListedOnce ==
  \A i, j \in DOMAIN answered :
    i < j /\ answered[i] = answered[j] =>
      \E f \in refilled \cup Scattered : answered[i] = [folder |-> f]
=============================================================================
