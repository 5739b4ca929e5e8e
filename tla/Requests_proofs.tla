--------------------------- MODULE Requests_proofs ---------------------------
(***************************************************************************)
(* First the theorems of Listing, for any keys, folders and page sizes.    *)
(* A page is a loop, and what the client was told or is about to be (Told) *)
(* reaches to its last record: what is ahead of it is left for the loop    *)
(* (AheadIsLeft), and is not of a folder that was told (FolderBehind).     *)
(*                                                                         *)
(* Then those of the composition: its behaviours are the behaviours of its *)
(* components (PartsAreComponents), whose type invariants are its own.     *)
(***************************************************************************)
EXTENDS MCRequests, Uploads_proofs, Access_proofs, Grants_proofs, TLAPS

-----------------------------------------------------------------------------
(* Listing: the inductive invariant *)

(* What the client has been told, or is about to be, and how far that goes. *)
Told == answered \o page.entries

Reached == IF page.token = 0 THEN after ELSE page.token

Beyond(k) == after # End /\ k > Reached

(* What is ahead is left for the page, unless the cap cut it off, or it was *)
(* put there since the records were read.                                   *)
AheadIsLeft ==
  page.open =>
    \A k \in listable :
      k > Reached =>
        \/ k \in page.left
        \/ page.more /\ \A j \in page.left : j < k
        \/ k \notin stayed /\ FolderOf[k] \in refilled

(* A folder that was told has no record ahead, unless the page is in it. *)
FolderBehind ==
  \A f \in Folders \ (refilled \cup Scattered) :
    f # page.last /\ [folder |-> f] \in ToSet(Told) =>
      \A k \in listable \cup page.left : FolderOf[k] = f => ~Beyond(k)

ToldOnce ==
  \A i, j \in DOMAIN Told :
    i < j /\ Told[i] = Told[j] => \E f \in refilled \cup Scattered : Told[i] = [folder |-> f]

PageFits ==
  /\ IF page.open THEN after # End ELSE page = NoPage
  /\ \A k \in page.left : k > Reached
  /\ page.token = 0 => /\ page.entries = <<>> /\ page.last = "none" /\ ~page.full
                       /\ page.more => page.left # {}
  /\ page.last # "none" => [folder |-> page.last] \in ToSet(page.entries)
  /\ page.last # "itself"
  /\ page.full => \E k \in page.left : ~NoEntry(k) /\ \A j \in page.left : k <= j

ListInv ==
  /\ ListTypeOK
  /\ PageFits
  /\ \A e \in ToSet(Told) : \E i \in Positions : Entry(i) = e /\ ~Beyond(i)
  /\ AheadIsLeft
  /\ FolderBehind
  /\ ToldOnce
  /\ StayingAreListed
  /\ page.open =>
       \A k \in stayed : FolderOf[k] # "itself" /\ k <= Reached => Entry(k) \in ToSet(Told)

-----------------------------------------------------------------------------
(* Listing: entries *)

LEMMA EntriesDiffer ==
  ASSUME NEW i \in Positions, NEW j \in Positions, Entry(i) = Entry(j)
  PROVE  i = j \/ (InFolder(i) /\ InFolder(j) /\ FolderOf[i] = FolderOf[j])
<1>1. \A x, y : [folder |-> x] # [key |-> y]
  OBVIOUS
<1>2. \A x, y : [key |-> x] = [key |-> y] => x = y
  OBVIOUS
<1>3. \A x, y : [folder |-> x] = [folder |-> y] => x = y
  OBVIOUS
<1>4. CASE InFolder(i) /\ InFolder(j)
  BY <1>3, <1>4 DEF Entry
<1>5. CASE ~InFolder(i) /\ ~InFolder(j)
  <2>1. Entry(i) = [key |-> i] /\ Entry(j) = [key |-> j]
    BY <1>5 DEF Entry
  <2>2. QED
    BY <1>2, <2>1
<1>6. CASE InFolder(i) # InFolder(j)
  BY <1>1, <1>6 DEF Entry
<1>7. QED
  BY <1>4, <1>5, <1>6

LEMMA FolderEntry ==
  ASSUME NEW i \in Positions, NEW f, Entry(i) = [folder |-> f]
  PROVE  InFolder(i) /\ FolderOf[i] = f
<1>1. \A x, y : [folder |-> x] # [key |-> y]
  OBVIOUS
<1>2. \A x, y : [folder |-> x] = [folder |-> y] => x = y
  OBVIOUS
<1>3. QED
  BY <1>1, <1>2 DEF Entry

LEMMA ToSetConcat ==
  ASSUME NEW S, NEW s \in Seq(S), NEW t \in Seq(S)
  PROVE  /\ s \o t \in Seq(S) /\ ToSet(s \o t) = ToSet(s) \cup ToSet(t)
         /\ DOMAIN (s \o t) = 1..(Len(s) + Len(t)) /\ Len(s) \in Nat /\ Len(t) \in Nat
         /\ \A i \in 1..Len(s) : (s \o t)[i] = s[i]
<1>1. /\ s \o t \in Seq(S) /\ DOMAIN (s \o t) = 1..(Len(s) + Len(t)) /\ Len(s) \in Nat /\ Len(t) \in Nat
      /\ \A i \in 1..Len(s) : (s \o t)[i] = s[i]
      /\ \A i \in 1..Len(t) : (s \o t)[Len(s) + i] = t[i]
      /\ \A i \in (Len(s) + 1)..(Len(s) + Len(t)) : (s \o t)[i] = t[i - Len(s)]
      /\ DOMAIN s = 1..Len(s) /\ DOMAIN t = 1..Len(t)
  OBVIOUS
<1>2. ASSUME NEW e \in ToSet(s \o t)
      PROVE  e \in ToSet(s) \cup ToSet(t)
  <2>1. PICK i \in 1..(Len(s) + Len(t)) : e = (s \o t)[i]
    BY <1>1 DEF ToSet
  <2>2. i \in 1..Len(s) \/ (i \in (Len(s) + 1)..(Len(s) + Len(t)) /\ i - Len(s) \in 1..Len(t))
    BY <1>1
  <2>3. QED
    BY <1>1, <2>1, <2>2 DEF ToSet
<1>3. ASSUME NEW e \in ToSet(s) \cup ToSet(t)
      PROVE  e \in ToSet(s \o t)
  <2>1. CASE e \in ToSet(s)
    <3>1. PICK i \in 1..Len(s) : e = s[i]
      BY <1>1, <2>1 DEF ToSet
    <3>2. i \in 1..(Len(s) + Len(t))
      BY <1>1
    <3>3. QED
      BY <1>1, <3>1, <3>2 DEF ToSet
  <2>2. CASE e \in ToSet(t)
    <3>1. PICK i \in 1..Len(t) : e = t[i]
      BY <1>1, <2>2 DEF ToSet
    <3>2. Len(s) + i \in 1..(Len(s) + Len(t))
      BY <1>1
    <3>3. QED
      BY <1>1, <3>1, <3>2 DEF ToSet
  <2>3. QED
    BY <1>3, <2>1, <2>2
<1>4. QED
  BY <1>1, <1>2, <1>3

(* An entry is added at the end. *)
LEMMA ToldAppend ==
  ASSUME NEW S, NEW s \in Seq(S), NEW t \in Seq(S), NEW e \in S
  PROVE  /\ Append(t, e) \in Seq(S) /\ s \o Append(t, e) = Append(s \o t, e)
         /\ ToSet(s \o Append(t, e)) = ToSet(s \o t) \cup {e}
         /\ ToSet(Append(t, e)) = ToSet(t) \cup {e}
<1>1. s \o t \in Seq(S) /\ Append(t, e) \in Seq(S) /\ <<e>> \in Seq(S)
  OBVIOUS
<1>2. s \o Append(t, e) = Append(s \o t, e)
  OBVIOUS
<1>3. \A r \in Seq(S) : Append(r, e) = r \o <<e>>
  OBVIOUS
<1>4. ToSet(<<e>>) = {e}
  BY DEF ToSet
<1>5. ASSUME NEW r \in Seq(S)
      PROVE  ToSet(Append(r, e)) = ToSet(r) \cup {e}
  <2> DEFINE one == <<e>>
  <2>0. one \in Seq(S)
    BY <1>1
  <2> HIDE DEF one
  <2>1. ToSet(r \o one) = ToSet(r) \cup ToSet(one)
    BY <1>5, <2>0, ToSetConcat
  <2> USE DEF one
  <2>2. QED
    BY <1>3, <1>4, <2>1
<1>6. QED
  BY <1>1, <1>2, <1>5

LEMMA ToldTypes ==
  ASSUME ListTypeOK
  PROVE  /\ Told \in Seq(Entries) /\ ToSet(Told) = ToSet(answered) \cup ToSet(page.entries)
         /\ DOMAIN Told = 1..(Len(answered) + Len(page.entries))
         /\ Len(answered) \in Nat /\ Len(page.entries) \in Nat
         /\ \A i \in DOMAIN answered : i \in DOMAIN Told /\ Told[i] = answered[i]
<1>1. answered \in Seq(Entries) /\ page.entries \in Seq(Entries)
  BY DEF ListTypeOK
<1>2. DOMAIN answered = 1..Len(answered)
  BY <1>1
<1>3. QED
  BY <1>1, <1>2, ToSetConcat DEF Told

LEMMA Numbers ==
  ASSUME ListTypeOK
  PROVE  /\ \A k \in Positions : k \in Nat /\ k # 0
         /\ Reached \in Int /\ after \in Int /\ page.token \in Nat
         /\ MaxKeys \in Nat /\ MaxKeys # 0 /\ ScanCap \in Nat /\ ScanCap # 0
<1>1. \A k \in Positions : k \in Nat /\ k # 0
  BY ListingAssumption
<1>2. page.token \in Positions \cup {0}
  BY DEF ListTypeOK
<1>3. after \in Int
  BY <1>1 DEF ListTypeOK, End
<1>4. MaxKeys \in Nat /\ MaxKeys # 0 /\ ScanCap \in Nat /\ ScanCap # 0
  BY ListingAssumption
<1>5. page.token \in Nat
  BY <1>1, <1>2
<1>6. QED
  BY <1>1, <1>3, <1>4, <1>5 DEF Reached

(* Keys that have another one between them are of a scattered folder. *)
LEMMA Between ==
  ASSUME NEW i \in Positions, NEW j \in Positions, NEW k \in Positions, i < j, j < k,
         FolderOf[i] = FolderOf[k], FolderOf[j] \notin {FolderOf[i], "itself"}
  PROVE  FolderOf[i] \in Scattered
BY DEF Scattered, Folders

-----------------------------------------------------------------------------
(* Listing: steps *)

LEMMA ReadRecordsStep ==
  ASSUME ListInv, ReadRecords
  PROVE  ListInv'
<1>1. /\ page = NoPage /\ after # End /\ UNCHANGED <<listable, after, answered, stayed, refilled>>
  BY DEF ListInv, PageFits, ReadRecords
<1> DEFINE there == {k \in listable : k > after}
<1>2. PICK recs \in Records :
        page' = [NoPage EXCEPT !.open = TRUE, !.left = recs, !.more = Cardinality(recs) = ScanCap]
  BY DEF ReadRecords
<1>3. /\ page'.open /\ page'.left = recs /\ page'.more = (Cardinality(recs) = ScanCap)
      /\ page'.entries = <<>> /\ page'.last = "none" /\ page'.token = 0 /\ ~page'.full
      /\ ~page.open /\ page.left = {} /\ page.entries = <<>> /\ page.last = "none" /\ page.token = 0
  BY <1>1, <1>2 DEF NoPage
<1>4. /\ recs \subseteq there /\ \A j \in recs, k \in there \ recs : j < k
      /\ Cardinality(recs) = IF Cardinality(there) < ScanCap THEN Cardinality(there) ELSE ScanCap
  BY DEF Records
<1>5. listable \subseteq Positions /\ IsFiniteSet(there) /\ recs \subseteq Positions
  BY <1>4, FS_Subset, ListingAssumption DEF ListInv, ListTypeOK
<1>6. recs = there \/ Cardinality(recs) = ScanCap
  BY <1>4, <1>5, FS_Subset
<1>7. Told' = Told /\ Reached' = Reached /\ Reached = after /\ \A k : Beyond(k)' = Beyond(k)
  BY <1>1, <1>3 DEF Told, Reached, Beyond
<1>8. ListTypeOK'
  <2>1. <<>> \in Seq(Entries) /\ "none" \in Folders
    BY DEF Folders
  <2>2. page' \in [open : BOOLEAN, left : SUBSET Positions, more : BOOLEAN, entries : Seq(Entries),
                   last : Folders, token : Positions \cup {0}, full : BOOLEAN]
    BY <1>2, <1>5, <2>1 DEF NoPage
  <2>3. QED
    BY <1>1, <2>2 DEF ListInv, ListTypeOK
<1>9. PageFits'
  <2>1. page'.more => page'.left # {}
    BY <1>3, FS_EmptySet, Numbers DEF ListInv
  <2>2. \A k \in page'.left : k > Reached'
    BY <1>3, <1>4, <1>7
  <2>3. QED
    BY <1>1, <1>3, <2>1, <2>2 DEF PageFits
<1>10. AheadIsLeft'
  BY <1>1, <1>3, <1>4, <1>6, <1>7 DEF AheadIsLeft
<1>11. FolderBehind'
  BY <1>1, <1>3, <1>4, <1>7 DEF FolderBehind, ListInv
<1>12. ToldOnce' /\ StayingAreListed'
  BY <1>1, <1>7 DEF ToldOnce, StayingAreListed, ListInv
<1>13. \A k \in stayed' : FolderOf[k] # "itself" /\ k <= Reached' => Entry(k) \in ToSet(Told)'
  BY <1>1, <1>7, ToldTypes DEF ListInv, StayingAreListed
<1>14. \A e \in ToSet(Told)' : \E i \in Positions : Entry(i) = e /\ ~Beyond(i)'
  BY <1>7 DEF ListInv
<1>15. QED
  BY <1>8, <1>9, <1>10, <1>11, <1>12, <1>13, <1>14 DEF ListInv

LEMMA ListRowStep ==
  ASSUME ListInv, UNCHANGED <<page, after, answered>>, ListTypeOK',
         \A k \in listable' \ listable : k \notin stayed' /\ FolderOf[k] \in refilled',
         stayed' \subseteq stayed, refilled \subseteq refilled'
  PROVE  ListInv'
<1>1. Told' = Told /\ Reached' = Reached /\ \A k : Beyond(k)' = Beyond(k)
  BY DEF Told, Reached, Beyond
<1>2. PageFits'
  BY <1>1 DEF PageFits, ListInv, NoEntry
<1>3. AheadIsLeft'
  BY <1>1 DEF AheadIsLeft, ListInv
<1>4. FolderBehind'
  BY <1>1 DEF FolderBehind, ListInv
<1>5. ToldOnce' /\ StayingAreListed'
  BY <1>1 DEF ToldOnce, StayingAreListed, ListInv
<1>6. QED
  BY <1>1, <1>2, <1>3, <1>4, <1>5 DEF ListInv

LEMMA PutKeyStep ==
  ASSUME ListInv, NEW k \in Positions, PutKey(k)
  PROVE  ListInv'
<1>1. /\ UNCHANGED <<page, after, answered, stayed>> /\ k \notin listable
      /\ listable' = listable \cup {k} /\ refilled' = refilled \cup {FolderOf[k]}
  BY DEF PutKey
<1>2. ListTypeOK'
  BY <1>1 DEF ListInv, ListTypeOK, Folders
<1>3. k \notin stayed
  BY <1>1 DEF ListInv, ListTypeOK
<1>4. QED
  BY <1>1, <1>2, <1>3, ListRowStep

LEMMA RemoveKeyStep ==
  ASSUME ListInv, NEW k \in Positions, RemoveKey(k)
  PROVE  ListInv'
<1>1. /\ UNCHANGED <<page, after, answered, refilled>>
      /\ listable' = listable \ {k} /\ stayed' = stayed \ {k}
  BY DEF RemoveKey
<1>2. ListTypeOK'
  BY <1>1 DEF ListInv, ListTypeOK
<1>3. QED
  BY <1>1, <1>2, ListRowStep

(* The loop is at the first record ahead of what was reached. *)
LEMMA AtFirst ==
  ASSUME ListInv, NEW k \in page.left, \A j \in page.left : k <= j
  PROVE  /\ page.open /\ after # End /\ k \in Positions /\ k \in Nat /\ k # 0 /\ k > Reached
         /\ \A j \in Positions : ~Beyond(j) => j < k
         /\ \A j \in stayed : j <= Reached \/ j = k \/ j > k
         /\ \A j \in page.left \ {k} : j > k
<1>1. page.open /\ after # End /\ k > Reached /\ k \in Positions
  BY DEF ListInv, PageFits, NoPage, ListTypeOK
<1>2. k \in Nat /\ k # 0 /\ Reached \in Int /\ \A j \in Positions : j \in Nat
  BY <1>1, Numbers DEF ListInv
<1>3. \A j \in Positions : ~Beyond(j) => j < k
  BY <1>1, <1>2 DEF Beyond
<1>4. stayed \subseteq Positions /\ page.left \subseteq Positions
  BY DEF ListInv, ListTypeOK
<1>5. \A j \in stayed : j <= Reached \/ j = k \/ j > k
  <2> SUFFICES ASSUME NEW j \in stayed
               PROVE  j <= Reached \/ j = k \/ j > k
    OBVIOUS
  <2>1. j \in Nat /\ j \in listable /\ j \in stayed
    BY <1>2, <1>4 DEF ListInv, ListTypeOK
  <2>2. CASE j > Reached
    <3>1. j \in page.left \/ \A i \in page.left : i < j
      BY <1>1, <2>1, <2>2 DEF ListInv, AheadIsLeft
    <3>2. QED
      BY <1>2, <2>1, <3>1
  <2>3. QED
    BY <1>2, <2>1, <2>2
<1>6. \A j \in page.left \ {k} : j > k
  <2> SUFFICES ASSUME NEW j \in page.left \ {k}
               PROVE  j > k
    OBVIOUS
  <2>1. j \in Nat /\ k <= j /\ j # k
    BY <1>2, <1>4
  <2>2. QED
    BY <1>2, <2>1
<1>7. QED
  BY <1>1, <1>2, <1>3, <1>5, <1>6

LEMMA FoldFields ==
  ASSUME ListInv, NEW k \in page.left
  PROVE  /\ LET q == Passed(k) IN
              /\ q.open = page.open /\ q.left = page.left \ {k} /\ q.more = page.more
              /\ q.entries = page.entries /\ q.last = page.last /\ q.token = k /\ q.full = page.full
         /\ LET q == Full(k) IN
              /\ q.open = page.open /\ q.left = page.left /\ q.more = page.more
              /\ q.entries = page.entries /\ q.last = page.last /\ q.token = page.token /\ q.full = TRUE
         /\ LET q == Listed(k) IN
              /\ q.open = page.open /\ q.left = page.left \ {k} /\ q.more = page.more
              /\ q.entries = Append(page.entries, Entry(k)) /\ q.last = FolderOf[k]
              /\ q.token = k /\ q.full = page.full
BY DEF ListInv, ListTypeOK, Passed, Full, Listed

LEMMA FoldTypes ==
  ASSUME ListInv, NEW k \in page.left, page' \in {Passed(k), Full(k), Listed(k)},
         UNCHANGED <<listable, after, answered, stayed, refilled>>
  PROVE  ListTypeOK'
<1> DEFINE T == [open : BOOLEAN, left : SUBSET Positions, more : BOOLEAN, entries : Seq(Entries),
                 last : Folders, token : Positions \cup {0}, full : BOOLEAN]
<1>1. k \in Positions /\ page \in T
  BY DEF ListInv, ListTypeOK
<1>2. Entry(k) \in Entries /\ FolderOf[k] \in Folders
  BY <1>1 DEF Entries, Folders
<1>3. Append(page.entries, Entry(k)) \in Seq(Entries)
  BY <1>1, <1>2
<1>4. Passed(k) \in T
  BY <1>1 DEF Passed
<1>5. Full(k) \in T
  BY <1>1 DEF Full
<1>6. Listed(k) \in T
  BY <1>1, <1>2, <1>3 DEF Listed
<1>7. page' \in T
  BY <1>4, <1>5, <1>6
<1> HIDE DEF T
<1>8. QED
  BY <1>7 DEF ListInv, ListTypeOK, T

LEMMA PassedStep ==
  ASSUME ListInv, NEW k \in page.left, \A j \in page.left : k <= j, ~page.full, NoEntry(k),
         page' = Passed(k), UNCHANGED <<listable, after, answered, stayed, refilled>>
  PROVE  ListInv'
<1>1. /\ page'.open = page.open /\ page'.left = page.left \ {k} /\ page'.more = page.more
      /\ page'.entries = page.entries /\ page'.last = page.last /\ page'.token = k
      /\ page'.full = page.full
  BY FoldFields
<1>2. /\ page.open /\ after # End /\ k \in Positions /\ k \in Nat /\ k # 0 /\ k > Reached
      /\ \A j \in Positions : ~Beyond(j) => j < k
      /\ \A j \in stayed : j <= Reached \/ j = k \/ j > k
      /\ \A j \in page.left \ {k} : j > k
  BY AtFirst
<1>3. Told' = Told /\ Reached' = k
  BY <1>1, <1>2 DEF Told, Reached
<1>4. Reached \in Int /\ \A j \in Positions : j \in Nat
  BY Numbers DEF ListInv
<1>5. \A j \in Positions : ~Beyond(j) => ~Beyond(j)'
  <2> SUFFICES ASSUME NEW j \in Positions, ~Beyond(j)
               PROVE  ~Beyond(j)'
    OBVIOUS
  <2>1. j < k /\ j \in Nat
    BY <1>2, <1>3, <1>4
  <2>2. ~(j > Reached')
    BY <1>2, <1>3, <1>4, <2>1
  <2>3. QED
    BY <2>2 DEF Beyond
<1>6. listable \subseteq Positions /\ stayed \subseteq listable /\ page.left \subseteq Positions
  BY DEF ListInv, ListTypeOK
<1>7. PageFits'
  BY <1>1, <1>2, <1>3 DEF ListInv, PageFits
<1>8. AheadIsLeft'
  <2>1. ASSUME NEW j \in listable, j > k
        PROVE  j > Reached /\ j # k
    <3>1. j \in Nat
      BY <1>2, <1>4, <1>6
    <3>2. QED
      BY <1>2, <1>4, <1>6, <2>1, <3>1
  <2>2. QED
    BY <1>1, <1>2, <1>3, <2>1 DEF ListInv, AheadIsLeft
<1>9. FolderBehind'
  BY <1>1, <1>3, <1>5, <1>6 DEF ListInv, FolderBehind
<1>10. ToldOnce' /\ StayingAreListed'
  BY <1>3 DEF ListInv, ToldOnce, StayingAreListed
<1>11. \A j \in stayed : FolderOf[j] # "itself" /\ j <= k => Entry(j) \in ToSet(Told)
  <2>1. FolderOf[k] # "itself" => Entry(k) \in ToSet(Told)
    BY ToldTypes DEF ListInv, PageFits, NoEntry, InFolder, Entry
  <2>2. ASSUME NEW j \in stayed, j <= k
        PROVE  j <= Reached \/ j = k
    <3>1. j \in Nat
      BY <1>4, <1>6
    <3>2. ~(j > k)
      BY <1>2, <2>2, <3>1
    <3>3. QED
      BY <1>2, <3>2
  <2>3. QED
    BY <1>2, <2>1, <2>2 DEF ListInv
<1>12. ListTypeOK'
  BY FoldTypes
<1>13. \A e \in ToSet(Told)' : \E i \in Positions : Entry(i) = e /\ ~Beyond(i)'
  BY <1>3, <1>5 DEF ListInv
<1>14. QED
  BY <1>3, <1>7, <1>8, <1>9, <1>10, <1>11, <1>12, <1>13 DEF ListInv

LEMMA FullStep ==
  ASSUME ListInv, NEW k \in page.left, \A j \in page.left : k <= j, ~page.full, ~NoEntry(k),
         Len(page.entries) = MaxKeys,
         page' = Full(k), UNCHANGED <<listable, after, answered, stayed, refilled>>
  PROVE  ListInv'
<1>1. /\ page'.open = page.open /\ page'.left = page.left /\ page'.more = page.more
      /\ page'.entries = page.entries /\ page'.last = page.last /\ page'.token = page.token
      /\ page'.full
  BY FoldFields
<1>2. Told' = Told /\ Reached' = Reached /\ \A j : Beyond(j)' = Beyond(j)
  BY <1>1 DEF Told, Reached, Beyond
<1>3. page.token # 0
  <2>1. Len(<<>>) = 0
    OBVIOUS
  <2>2. QED
    BY <2>1, Numbers DEF ListInv, PageFits
<1>4. PageFits'
  <2>1. page.open
    BY AtFirst
  <2>2. NoEntry(k)' = NoEntry(k)
    BY <1>1 DEF NoEntry
  <2>3. QED
    BY <1>1, <1>2, <1>3, <2>1, <2>2 DEF ListInv, PageFits
<1>5. AheadIsLeft'
  BY <1>1, <1>2 DEF ListInv, AheadIsLeft
<1>6. FolderBehind'
  BY <1>1, <1>2 DEF ListInv, FolderBehind
<1>7. ToldOnce' /\ StayingAreListed'
  BY <1>2 DEF ListInv, ToldOnce, StayingAreListed
<1>8. ListTypeOK'
  BY FoldTypes
<1>9. QED
  BY <1>1, <1>2, <1>4, <1>5, <1>6, <1>7, <1>8 DEF ListInv

LEMMA ListedStep ==
  ASSUME ListInv, NEW k \in page.left, \A j \in page.left : k <= j, ~page.full, ~NoEntry(k),
         page' = Listed(k), UNCHANGED <<listable, after, answered, stayed, refilled>>
  PROVE  ListInv'
<1>1. /\ page'.open = page.open /\ page'.left = page.left \ {k} /\ page'.more = page.more
      /\ page'.entries = Append(page.entries, Entry(k)) /\ page'.last = FolderOf[k]
      /\ page'.token = k /\ page'.full = page.full
  BY FoldFields
<1>2. /\ page.open /\ after # End /\ k \in Positions /\ k \in Nat /\ k # 0 /\ k > Reached
      /\ \A j \in Positions : ~Beyond(j) => j < k
      /\ \A j \in stayed : j <= Reached \/ j = k \/ j > k
      /\ \A j \in page.left \ {k} : j > k
  BY AtFirst
<1>3. Reached' = k /\ Reached \in Int /\ \A j \in Positions : j \in Nat
  BY <1>1, <1>2, Numbers DEF Reached, ListInv
<1>4. /\ Told' = Append(Told, Entry(k)) /\ ToSet(Told)' = ToSet(Told) \cup {Entry(k)}
      /\ ToSet(page'.entries) = ToSet(page.entries) \cup {Entry(k)}
  <2>1. Entry(k) \in Entries /\ answered \in Seq(Entries) /\ page.entries \in Seq(Entries)
    BY <1>2 DEF Entries, ListInv, ListTypeOK
  <2>2. QED
    BY <1>1, <2>1, ToldAppend DEF Told
<1>5. \A j \in Positions : ~Beyond(j) => ~Beyond(j)'
  <2> SUFFICES ASSUME NEW j \in Positions, ~Beyond(j)
               PROVE  ~Beyond(j)'
    OBVIOUS
  <2>1. j < k /\ j \in Nat
    BY <1>2, <1>3
  <2>2. ~(j > Reached')
    BY <1>2, <1>3, <2>1
  <2>3. QED
    BY <2>2 DEF Beyond
<1>6. listable \subseteq Positions /\ stayed \subseteq listable /\ page.left \subseteq Positions
  BY DEF ListInv, ListTypeOK
<1>7. FolderOf[k] # "itself" /\ (InFolder(k) => FolderOf[k] # page.last /\ Entry(k) = [folder |-> FolderOf[k]])
  BY DEF NoEntry, Entry
<1>8. PageFits'
  BY <1>1, <1>2, <1>3, <1>4, <1>7 DEF ListInv, PageFits, InFolder
<1>9. AheadIsLeft'
  <2>1. ASSUME NEW j \in listable, j > k
        PROVE  j > Reached /\ j # k
    <3>1. j \in Nat
      BY <1>2, <1>3, <1>6
    <3>2. QED
      BY <1>2, <1>3, <1>6, <2>1, <3>1
  <2>2. QED
    BY <1>1, <1>2, <1>3, <2>1 DEF ListInv, AheadIsLeft
<1>10. FolderBehind'
  <2> SUFFICES ASSUME NEW f \in Folders \ Scattered, f # FolderOf[k], [folder |-> f] \in ToSet(Told)',
                      NEW j \in Positions, FolderOf[j] = f, j > k
               PROVE  FALSE
    BY <1>1, <1>3, <1>6 DEF FolderBehind, Beyond
  <2>1. [folder |-> f] # Entry(k)
    BY <1>2, FolderEntry
  <2>2. PICK i \in Positions : Entry(i) = [folder |-> f] /\ ~Beyond(i)
    BY <1>4, <2>1 DEF ListInv
  <2>3. InFolder(i) /\ FolderOf[i] = f
    BY <2>2, FolderEntry
  <2>4. i < k /\ k < j
    BY <1>2, <1>3, <2>2
  <2>5. QED
    BY <1>2, <1>7, <2>3, <2>4, Between
<1>11. ToldOnce'
  <2>1. Told \in Seq(Entries)
    BY ToldTypes DEF ListInv
  <2>2. /\ DOMAIN Told = 1..Len(Told) /\ Len(Told) \in Nat /\ DOMAIN Told' = 1..(Len(Told) + 1)
        /\ Told'[Len(Told) + 1] = Entry(k) /\ \A i \in 1..Len(Told) : Told'[i] = Told[i]
    BY <1>4, <2>1
  <2>3. ASSUME Entry(k) \in ToSet(Told)
        PROVE  \E f \in refilled \cup Scattered : Entry(k) = [folder |-> f]
    <3>1. PICK i \in Positions : Entry(i) = Entry(k) /\ ~Beyond(i)
      BY <2>3 DEF ListInv
    <3>2. i # k
      BY <1>2, <3>1
    <3>3. InFolder(k)
      BY <1>2, <3>1, <3>2, EntriesDiffer
    <3>4. Beyond(k) /\ FolderOf[k] \in Folders
      BY <1>2 DEF Beyond, Folders
    <3>5. FolderOf[k] \in refilled \cup Scattered
      BY <1>7, <2>3, <3>3, <3>4 DEF ListInv, FolderBehind
    <3>6. QED
      BY <1>7, <3>3, <3>5
  <2>4. \A i \in 1..Len(Told) : Told[i] \in ToSet(Told)
    BY <2>2 DEF ToSet
  <2>5. ASSUME NEW i \in DOMAIN Told', NEW j \in DOMAIN Told', i < j, Told'[i] = Told'[j]
        PROVE  \E f \in refilled \cup Scattered : Told'[i] = [folder |-> f]
    <3>1. CASE j = Len(Told) + 1
      BY <2>2, <2>3, <2>4, <2>5, <3>1
    <3>2. CASE j # Len(Told) + 1
      <4>1. i \in 1..Len(Told) /\ j \in 1..Len(Told)
        BY <2>2, <2>5, <3>2
      <4>2. QED
        BY <2>2, <2>5, <4>1 DEF ListInv, ToldOnce
    <3>3. QED
      BY <3>1, <3>2
  <2>6. QED
    BY <2>5 DEF ToldOnce
<1>12. StayingAreListed'
  BY DEF ListInv, StayingAreListed
<1>13. \A j \in stayed : FolderOf[j] # "itself" /\ j <= k => Entry(j) \in ToSet(Told)'
  <2>1. ASSUME NEW j \in stayed, j <= k
        PROVE  j <= Reached \/ j = k
    <3>1. j \in Nat /\ ~(j > k)
      BY <1>2, <1>3, <1>6, <2>1
    <3>2. QED
      BY <1>2, <3>1
  <2>2. QED
    BY <1>2, <1>4, <2>1 DEF ListInv
<1>14. ListTypeOK'
  BY FoldTypes
<1>15. \A e \in ToSet(Told)' : \E i \in Positions : Entry(i) = e /\ ~Beyond(i)'
  <2>1. ~Beyond(k)'
    BY <1>2, <1>3 DEF Beyond
  <2>2. QED
    BY <1>2, <1>4, <1>5, <2>1 DEF ListInv
<1>16. QED
  BY <1>3, <1>8, <1>9, <1>10, <1>11, <1>12, <1>13, <1>14, <1>15 DEF ListInv

(* A page that ends has come past every record it does not leave ahead. *)
LEMMA AnswerStep ==
  ASSUME ListInv, Answer
  PROVE  ListInv'
<1>1. /\ page.open /\ (page.full \/ page.left = {})
      /\ answered' = answered \o page.entries /\ UNCHANGED <<listable, stayed>>
      /\ after' = IF page.full \/ page.more THEN page.token ELSE End
      /\ refilled' = refilled \cup (IF page.more /\ ~page.full THEN {page.last} ELSE {})
      /\ page' = NoPage
  BY DEF Answer
<1>2. /\ ~page'.open /\ page'.left = {} /\ page'.more = FALSE /\ page'.entries = <<>>
      /\ page'.last = "none" /\ page'.token = 0 /\ ~page'.full /\ page'.left = {}
  BY <1>1 DEF NoPage
<1>3. answered' = Told /\ Told' = Told /\ Told \in Seq(Entries) /\ Reached' = after'
  <2>1. Told \in Seq(Entries)
    BY ToldTypes DEF ListInv
  <2>2. Told \o <<>> = Told
    BY <2>1
  <2>3. QED
    BY <1>1, <1>2, <2>1, <2>2 DEF Told, Reached
<1>4. Reached \in Int /\ page.token \in Nat /\ after # End /\ \A j \in Positions : j \in Nat
  BY <1>1, Numbers DEF ListInv, PageFits
<1>5. after' # End => after' = Reached /\ page.token # 0 /\ (page.full \/ page.more)
  BY <1>1, <1>4 DEF ListInv, PageFits, Reached
<1>6. after' = End => ~page.full /\ ~page.more /\ page.left = {}
  BY <1>1, <1>4 DEF End
<1>7. \A j : Beyond(j)' => Beyond(j)
  BY <1>3, <1>4, <1>5 DEF Beyond
<1>8. listable \subseteq Positions /\ stayed \subseteq listable /\ page.left \subseteq Positions
  BY DEF ListInv, ListTypeOK
<1>9. ListTypeOK'
  <2>1. <<>> \in Seq(Entries) /\ "none" \in Folders
    BY DEF Folders
  <2>2. page' \in [open : BOOLEAN, left : SUBSET Positions, more : BOOLEAN, entries : Seq(Entries),
                   last : Folders, token : Positions \cup {0}, full : BOOLEAN]
    BY <1>1, <2>1 DEF NoPage
  <2>3. page.token \in Positions \cup {0} /\ page.last \in Folders
    BY DEF ListInv, ListTypeOK
  <2>4. after' \in Positions \cup {0, End} /\ refilled' \subseteq Folders
    BY <1>1, <2>3 DEF ListInv, ListTypeOK
  <2>5. QED
    BY <1>1, <1>3, <1>8, <2>2, <2>4 DEF ListTypeOK
<1>10. PageFits' /\ AheadIsLeft'
  BY <1>1, <1>2 DEF PageFits, AheadIsLeft
<1>11. \A e \in ToSet(Told)' : \E i \in Positions : Entry(i) = e /\ ~Beyond(i)'
  BY <1>3, <1>7 DEF ListInv
<1>12. FolderBehind'
  <2> SUFFICES ASSUME NEW f \in Folders \ Scattered, f \notin refilled', f # "none", [folder |-> f] \in ToSet(Told),
                      NEW k \in listable, FolderOf[k] = f, Beyond(k)'
               PROVE  FALSE
    BY <1>1, <1>2, <1>3 DEF FolderBehind
  <2>1. Beyond(k) /\ k > Reached /\ k \in Positions /\ k \in Nat /\ f \notin refilled
    BY <1>1, <1>4, <1>7, <1>8 DEF Beyond
  <2>2. f = page.last
    BY <1>3, <2>1 DEF ListInv, FolderBehind
  <2>3. page.full
    BY <1>1, <1>5, <2>2 DEF Beyond
  <2>4. PICK j \in page.left : ~NoEntry(j) /\ \A i \in page.left : j <= i
    BY <2>3 DEF ListInv, PageFits
  <2>5. PICK i \in Positions : Entry(i) = [folder |-> f] /\ ~Beyond(i)
    BY DEF ListInv
  <2>6. InFolder(i) /\ FolderOf[i] = f
    BY <2>5, FolderEntry
  <2>7. j \in Positions /\ FolderOf[j] \notin {f, "itself"} /\ i < j
    BY <1>8, <2>2, <2>4, <2>5, <2>6, AtFirst DEF NoEntry, InFolder
  <2>8. j < k
    <3>1. k \in page.left \/ \A m \in page.left : m < k
      BY <1>1, <2>1 DEF ListInv, AheadIsLeft
    <3>2. QED
      BY <1>4, <2>1, <2>4, <2>7, <3>1
  <2>9. QED
    BY <2>1, <2>6, <2>7, <2>8, Between
<1>13. ToldOnce'
  BY <1>1, <1>3 DEF ListInv, ToldOnce
<1>14. StayingAreListed'
  <2> SUFFICES ASSUME NEW k \in stayed, FolderOf[k] # "itself", after' = End \/ k <= after'
               PROVE  Entry(k) \in ToSet(Told)
    BY <1>1, <1>3 DEF StayingAreListed
  <2>1. k \in Nat /\ k \in listable
    BY <1>4, <1>8
  <2>2. k <= Reached
    <3>1. CASE after' = End
      BY <1>1, <1>4, <1>6, <2>1, <3>1 DEF ListInv, AheadIsLeft
    <3>2. CASE after' # End
      BY <1>5, <3>2
    <3>3. QED
      BY <3>1, <3>2
  <2>3. QED
    BY <1>1, <2>2 DEF ListInv
<1>15. QED
  BY <1>2, <1>9, <1>10, <1>11, <1>12, <1>13, <1>14 DEF ListInv

LEMMA ListInvStep == ListInv /\ [ListNext]_listVars => ListInv'
<1> SUFFICES ASSUME ListInv, [ListNext]_listVars
             PROVE  ListInv'
  OBVIOUS
<1>1. CASE UNCHANGED listVars
  <2>1. ListTypeOK'
    BY <1>1 DEF listVars, ListInv, ListTypeOK
  <2>2. QED
    BY <1>1, <2>1, ListRowStep DEF listVars
<1>2. CASE Fold
  <2>1. PICK k \in page.left :
          /\ \A j \in page.left : k <= j
          /\ page' = IF NoEntry(k) THEN Passed(k)
                     ELSE IF Len(page.entries) = MaxKeys THEN Full(k)
                     ELSE Listed(k)
    BY <1>2 DEF Fold
  <2>2. ~page.full /\ UNCHANGED <<listable, after, answered, stayed, refilled>>
    BY <1>2 DEF Fold
  <2>3. QED
    BY <2>1, <2>2, PassedStep, FullStep, ListedStep
<1>3. QED
  BY <1>1, <1>2, ReadRecordsStep, AnswerStep, PutKeyStep, RemoveKeyStep DEF ListNext

LEMMA ListInvariance == ListSpec => []ListInv
<1>1. ListInit => ListInv
  <2> SUFFICES ASSUME ListInit
               PROVE  ListInv
    OBVIOUS
  <2>1. /\ listable \in SUBSET Positions /\ stayed = listable /\ page = NoPage /\ after = 0
        /\ answered = <<>> /\ refilled = {}
    BY DEF ListInit
  <2>2. /\ ~page.open /\ page.left = {} /\ page.entries = <<>> /\ page.last = "none"
        /\ page.token = 0 /\ ~page.full
    BY <2>1 DEF NoPage
  <2>3. Told = <<>> /\ Reached = 0 /\ ToSet(Told) = {}
    BY <2>1, <2>2 DEF Told, Reached, ToSet
  <2>4. ListTypeOK
    <3>1. <<>> \in Seq(Entries) /\ "none" \in Folders
      BY DEF Folders
    <3>2. page \in [open : BOOLEAN, left : SUBSET Positions, more : BOOLEAN, entries : Seq(Entries),
                    last : Folders, token : Positions \cup {0}, full : BOOLEAN]
      BY <2>1, <3>1 DEF NoPage
    <3>3. QED
      BY <2>1, <3>1, <3>2 DEF ListTypeOK
  <2>5. \A k \in stayed : ~(k <= 0)
    BY <2>1, ListingAssumption
  <2>6. PageFits /\ AheadIsLeft
    <3>1. page.last # "itself" /\ page.more = FALSE
      BY <2>1 DEF NoPage
    <3>2. QED
      BY <2>1, <2>2, <3>1 DEF PageFits, AheadIsLeft
  <2>7. FolderBehind
    BY <2>3 DEF FolderBehind
  <2>8. ToldOnce
    BY <2>3 DEF ToldOnce
  <2>9. StayingAreListed
    BY <2>1, <2>5 DEF StayingAreListed, End
  <2>10. QED
    BY <2>2, <2>3, <2>4, <2>6, <2>7, <2>8, <2>9 DEF ListInv
<1>2. QED
  BY <1>1, ListInvStep, PTL DEF ListSpec

(* The rows, the page and the client's answers have their types. *)
THEOREM ListTypes == ListSpec => []ListTypeOK
BY ListInvariance, PTL DEF ListInv

(* Page by page, every key that has its row all the time is listed, as an   *)
(* object or by its folder.  (list.go:135-190)                              *)
THEOREM StayingAreListedAlways == ListSpec => []StayingAreListed
BY ListInvariance, PTL DEF ListInv

(* Nothing is listed twice, in whatever order the database has the keys, but *)
(* a folder that was put into, that the cap cut, or that this order does not *)
(* keep together.  (list.go:160)                                             *)
THEOREM ListedOnceAlways == ListSpec => []ListedOnce
<1>1. ListInv => ListedOnce
  <2> SUFFICES ASSUME ListInv
               PROVE  ListedOnce
    OBVIOUS
  <2>1. \A i \in DOMAIN answered : i \in DOMAIN Told /\ Told[i] = answered[i]
    BY ToldTypes DEF ListInv
  <2>2. QED
    BY <2>1 DEF ListInv, ToldOnce, ListedOnce
<1>2. QED
  BY <1>1, ListInvariance, PTL

-----------------------------------------------------------------------------
(* Side by side *)

vars == <<part, req, uploadVars, quotaVars, apiVars, rbacVars, ruleVars, grantVars, listVars, settingVars>>

LEMMA UploadsAlone == Spec /\ part = "uploads" => UploadsSpec /\ [](part = "uploads")
<1>1. Init /\ part = "uploads" => UploadsInit
  BY DEF Init
<1>2. part = "uploads" /\ [Next]_vars => [UploadsNext]_<<req, uploadVars>> /\ (part = "uploads")'
  BY DEF Next, vars
<1>3. QED
  BY <1>1, <1>2, PTL DEF Spec, UploadsSpec, vars

LEMMA QuotaAlone == Spec /\ part = "quota" => QuotaSpec /\ [](part = "quota")
<1>1. Init /\ part = "quota" => QuotaInit
  BY DEF Init
<1>2. part = "quota" /\ [Next]_vars => [QuotaNext]_<<req, quotaVars>> /\ (part = "quota")'
  BY DEF Next, vars
<1>3. QED
  BY <1>1, <1>2, PTL DEF Spec, QuotaSpec, vars

LEMMA ApiAlone == Spec /\ part = "api" => ApiSpec /\ [](part = "api")
<1>1. Init /\ part = "api" => ApiInit
  BY DEF Init
<1>2. part = "api" /\ [Next]_vars => [ApiNext]_<<apiVars, req>> /\ (part = "api")'
  BY DEF Next, vars
<1>3. QED
  BY <1>1, <1>2, PTL DEF Spec, ApiSpec, vars

LEMMA RbacAlone == Spec /\ part = "rbac" => RbacSpec /\ [](part = "rbac")
<1>1. Init /\ part = "rbac" => RbacInit
  BY DEF Init
<1>2. part = "rbac" /\ [Next]_vars => [RbacNext]_<<req, rbacVars>> /\ (part = "rbac")'
  BY DEF Next, vars
<1>3. QED
  BY <1>1, <1>2, PTL DEF Spec, RbacSpec, vars

LEMMA RulesAlone == Spec /\ part = "pass" => RulesSpec /\ [](part = "pass")
<1>1. Init /\ part = "pass" => RulesInit
  BY DEF Init
<1>2. part = "pass" /\ [Next]_vars => [RulesNext]_ruleVars /\ (part = "pass")'
  BY DEF Next, vars
<1>3. QED
  BY <1>1, <1>2, PTL DEF Spec, RulesSpec, vars

LEMMA GrantsAlone == Spec /\ part = "grants" => GrantsSafe /\ [](part = "grants")
<1>1. Init /\ part = "grants" => GrantsInit
  BY DEF Init
<1>2. part = "grants" /\ [Next]_vars => [GrantsNext]_<<grantVars, req>> /\ (part = "grants")'
  BY DEF Next, vars
<1>3. QED
  BY <1>1, <1>2, PTL DEF Spec, GrantsSafe, vars

LEMMA ListAlone == Spec /\ part = "list" => ListSpec /\ [](part = "list")
<1>1. Init /\ part = "list" => ListInit
  BY DEF Init
<1>2. part = "list" /\ [Next]_vars => [ListNext]_listVars /\ (part = "list")'
  BY DEF Next, vars
<1>3. QED
  BY <1>1, <1>2, PTL DEF Spec, ListSpec, vars

LEMMA SettingsAlone == Spec /\ part = "settings" => SettingsSpec /\ [](part = "settings")
<1>1. Init /\ part = "settings" => SettingsInit
  BY DEF Init
<1>2. part = "settings" /\ [Next]_vars => [SettingsNext]_<<req, settingVars>> /\ (part = "settings")'
  BY DEF Next, vars
<1>3. QED
  BY <1>1, <1>2, PTL DEF Spec, SettingsSpec, vars

(* Every behaviour that the run of MCRequests explores is a behaviour of one *)
(* component, from its own initial states and by its own steps: what the    *)
(* run finds true of the part that is in play is true of the component.     *)
THEOREM PartsAreComponents ==
  Spec => /\ part = "uploads"  => UploadsSpec
          /\ part = "quota"    => QuotaSpec
          /\ part = "api"      => ApiSpec
          /\ part = "rbac"     => RbacSpec
          /\ part = "pass"     => RulesSpec
          /\ part = "grants"   => GrantsSafe
          /\ part = "list"     => ListSpec
          /\ part = "settings" => SettingsSpec
BY UploadsAlone, QuotaAlone, ApiAlone, RbacAlone, RulesAlone, GrantsAlone, ListAlone, SettingsAlone, PTL

(* The requests and rows of each component are what its handlers make them. *)
THEOREM TypesOKAlways == Spec => []TypesOK
<1>1. ASSUME part = "uploads", UploadsTypeOK
      PROVE  TypesOK
  BY <1>1 DEF TypesOK
<1>2. ASSUME part = "quota", QuotaTypeOK
      PROVE  TypesOK
  BY <1>2 DEF TypesOK
<1>3. ASSUME part = "api", ApiTypeOK
      PROVE  TypesOK
  BY <1>3 DEF TypesOK
<1>4. ASSUME part = "rbac", RbacTypeOK
      PROVE  TypesOK
  BY <1>4 DEF TypesOK
<1>5. ASSUME part = "pass", PassInv
      PROVE  TypesOK
  BY <1>5 DEF TypesOK, PassInv
<1>6. ASSUME part = "grants", GrantsInv
      PROVE  TypesOK
  BY <1>6 DEF TypesOK, GrantsInv
<1>7. ASSUME part = "list", ListTypeOK
      PROVE  TypesOK
  BY <1>7 DEF TypesOK
<1>8. ASSUME part = "settings", SettingsTypeOK
      PROVE  TypesOK
  BY <1>8 DEF TypesOK
<1>9. Init => \/ part = "uploads" \/ part = "quota" \/ part = "api" \/ part = "rbac"
              \/ part = "pass" \/ part = "grants" \/ part = "list" \/ part = "settings"
  BY DEF Init
<1>10. RulesSpec => []PassInv
  BY PassInvInit, PassInvStep, PTL DEF RulesSpec
<1>11. Spec /\ part = "uploads" => []TypesOK
  BY <1>1, UploadsAlone, UploadTypes, PTL
<1>12. Spec /\ part = "quota" => []TypesOK
  BY <1>2, QuotaAlone, QuotaTypes, PTL
<1>13. Spec /\ part = "api" => []TypesOK
  BY <1>3, ApiAlone, ApiTypes, PTL
<1>14. Spec /\ part = "rbac" => []TypesOK
  BY <1>4, RbacAlone, RbacTypes, PTL
<1>15. Spec /\ part = "pass" => []TypesOK
  BY <1>5, <1>10, RulesAlone, PTL
<1>16. Spec /\ part = "grants" => []TypesOK
  BY <1>6, GrantsAlone, GrantsInvariance, PTL
<1>17. Spec /\ part = "list" => []TypesOK
  BY <1>7, ListAlone, ListTypes, PTL
<1>18. Spec /\ part = "settings" => []TypesOK
  BY <1>8, SettingsAlone, SettingsTypes, PTL
<1>19. Spec => \/ part = "uploads" \/ part = "quota" \/ part = "api" \/ part = "rbac"
               \/ part = "pass" \/ part = "grants" \/ part = "list" \/ part = "settings"
  BY <1>9, PTL DEF Spec
<1>20. QED
  BY <1>11, <1>12, <1>13, <1>14, <1>15, <1>16, <1>17, <1>18, <1>19, PTL
=============================================================================
