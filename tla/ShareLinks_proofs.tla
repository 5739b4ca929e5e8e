------------------------- MODULE ShareLinks_proofs -------------------------
(***************************************************************************)
(* The theorems of ShareLinks, for any number of requests and links, any   *)
(* budgets and lifetimes, and any bounds.                                  *)
(*                                                                         *)
(* Every step but Serve moves one request and lets the links grow, if      *)
(* anything: QuietStep shows once that such a step preserves IInv if the   *)
(* request fits its new place.                                             *)
(***************************************************************************)
EXTENDS ShareLinks, FiniteSetTheorems, TLAPS

-----------------------------------------------------------------------------
(* Quiet steps *)

(* A link once created keeps its terms and only counts up.                  *)
LinksGrow ==
  /\ links' \in [LinkIds -> Link]
  /\ \A i \in LinkIds :
       links[i].status # "unused" =>
         /\ links'[i].status # "unused"
         /\ links'[i].expires = links[i].expires /\ links'[i].max = links[i].max
         /\ links'[i].count >= links[i].count
  /\ CountsKept'

Follows == {"check", "head", "sign", "bump", "answer"}

(* A request may become r: what it read is there, its times fit, and an     *)
(* access number is a new one.                                              *)
Fits(r) ==
  /\ r \in Request
  /\ r.pc \in Follows \cup {"revoke"} => r.id \in LinkIds /\ links[r.id].status # "unused"
  /\ r.pc \in Follows => r.row.expires = links[r.id].expires
  /\ r.pc \in {"look", "insert"} => r.row.count = 0
  /\ r.pc \in Follows \ {"check"} => r.asked < r.row.expires
  /\ r.pc \in {"sign", "bump", "answer"} => r.asked + r.ttl <= r.row.expires
  /\ r.pc \in {"bump", "answer"} => r.until = r.signed + r.ttl
  /\ r.pc = "answer" =>
       links[r.id].count < r.number /\ r.number <= links'[r.id].count

(* A step that moves one request and answers nobody preserves the invariant.*)
LEMMA QuietStep ==
  ASSUME IInv, NEW p \in Procs, NEW r, Fits(r), Moves(p, r),
         LinksGrow, clock' \in Nat, served' = served
  PROVE  IInv'
<1> USE DEF IInv
<1>1. /\ req' \in [Procs -> Request] /\ req \in [Procs -> Request]
      /\ req'[p] = r /\ \A q \in Procs : q # p => req'[q] = req[q]
  BY DEF TypeOK, Moves, Fits
<1>2. TypeOK'
  BY <1>1 DEF TypeOK, LinksGrow
<1>3. CountsKept'
  BY DEF LinksGrow
<1>4. RowsAreFixed'
  BY <1>1 DEF RowsAreFixed, Reading, At, Fits, Follows, LinksGrow
<1>5. TimesFit'
  BY <1>1 DEF TimesFit, Reading, At, Fits, Follows
<1>6. NumbersCounted'
  <2>1. ASSUME NEW q \in Procs, req'[q].pc = "answer"
        PROVE  req'[q].number \in 1 .. links'[req'[q].id].count
    <3>1. CASE q = p
      <4>1. r.id \in LinkIds /\ r.number \in Nat
        BY <1>1, <2>1, <3>1 DEF Fits, Follows, Request
      <4>2. links[r.id].count \in Nat /\ links'[r.id].count \in Nat
        BY <4>1 DEF TypeOK, LinksGrow, Link
      <4>3. QED
        BY <1>1, <2>1, <3>1, <4>1, <4>2 DEF Fits
    <3>2. CASE q # p
      <4>1. /\ req'[q] = req[q] /\ req[q].id \in LinkIds
            /\ links[req[q].id].status # "unused"
            /\ req[q].number \in 1 .. links[req[q].id].count
        BY <1>1, <2>1, <3>2 DEF RowsAreFixed, Reading, At, NumbersCounted
      <4>2. links[req[q].id].count \in Nat /\ links'[req[q].id].count \in Nat
        BY <4>1 DEF TypeOK, LinksGrow, Link
      <4>3. QED
        BY <4>1, <4>2 DEF LinksGrow
    <3>3. QED
      BY <3>1, <3>2
  <2>2. ASSUME NEW a \in served
        PROVE  a.number \in 1 .. links'[a.id].count
    <3>1. a.id \in LinkIds /\ links[a.id].status # "unused"
      BY DEF TypeOK, Answer, ServedLinksExist
    <3>2. links[a.id].count \in Nat /\ links'[a.id].count \in Nat
      BY <3>1 DEF TypeOK, LinksGrow, Link
    <3>3. QED
      BY <3>1, <3>2 DEF LinksGrow, NumbersCounted
  <2>3. QED
    BY <2>1, <2>2 DEF NumbersCounted, At
<1>7. AccessNumbersDiffer'
  <2>1. ASSUME NEW q \in Procs, q # p, req[q].pc = "answer", r.pc = "answer", req[q].id = r.id
        PROVE  req[q].number # r.number
    <3>1. r.id \in LinkIds /\ req[q].number \in 1 .. links[r.id].count /\ r.number \in Nat
      BY <2>1 DEF NumbersCounted, At, Fits, Follows, Request
    <3>2. links[r.id].count \in Nat
      BY <3>1 DEF TypeOK, Link
    <3>3. QED
      BY <2>1, <3>1, <3>2 DEF Fits
  <2>2. ASSUME NEW a \in served, r.pc = "answer", a.id = r.id
        PROVE  a.number # r.number
    <3>1. r.id \in LinkIds /\ a.number \in 1 .. links[r.id].count /\ r.number \in Nat
      BY <2>2 DEF NumbersCounted, Fits, Follows, Request
    <3>2. links[r.id].count \in Nat
      BY <3>1 DEF TypeOK, Link
    <3>3. QED
      BY <2>2, <3>1, <3>2 DEF Fits
  <2>3. QED
    BY <1>1, <2>1, <2>2 DEF AccessNumbersDiffer, At
<1>8. ServedLinksExist'
  BY DEF ServedLinksExist, LinksGrow, TypeOK, Answer
<1>9. UrlsEndWithLink'
  BY DEF UrlsEndWithLink, ServedLinksExist, LinksGrow, TypeOK, Answer
<1>10. QED
  BY <1>2, <1>3, <1>4, <1>5, <1>6, <1>7, <1>8, <1>9

(* Links that stay as they are grow in the sense of LinksGrow. *)
LEMMA LinksStay ==
  ASSUME IInv, links' = links
  PROVE  LinksGrow
BY DEF IInv, TypeOK, LinksGrow, CountsKept, Link

(* A request may always end. *)
LEMMA IdleFits == Fits(Idle)
<1>1. NoLink \in Link
  BY DEF NoLink, Link, Limits
<1>2. Idle \in Request
  BY <1>1 DEF Idle, Request, Points
<1>3. QED
  BY <1>2 DEF Fits, Idle, Follows

(* What is known of the request that moves. *)
LEMMA MoverFacts ==
  ASSUME IInv, NEW p \in Procs
  PROVE  /\ req[p] \in Request /\ req[p].row \in Link
         /\ req[p].pc \in Follows \cup {"revoke"} =>
              /\ req[p].id \in LinkIds /\ links[req[p].id] \in Link
              /\ links[req[p].id].status # "unused"
         /\ req[p].pc \in Follows => req[p].row.expires = links[req[p].id].expires
         /\ req[p].pc \in Follows \ {"check"} => req[p].asked < req[p].row.expires
         /\ req[p].pc \in {"sign", "bump", "answer"} =>
              req[p].asked + req[p].ttl <= req[p].row.expires
         /\ req[p].pc \in {"bump", "answer"} => req[p].until = req[p].signed + req[p].ttl
         /\ req[p].pc \in {"look", "insert"} => req[p].row.count = 0
BY DEF IInv, TypeOK, Request, RowsAreFixed, TimesFit, Reading, At, Follows

-----------------------------------------------------------------------------
(* The handlers *)

(* Creating a link preserves the invariant. *)
LEMMA CreateStepKeeps ==
  ASSUME IInv, NEW p \in Procs, CreateStep(p)
  PROVE  IInv'
<1>0. TypeOK /\ clock \in Nat /\ served' = served /\ clock' = clock
  BY DEF IInv, TypeOK, CreateStep, Create, LookForObject, Insert
<1>1. CASE Create(p)
  <2>1. PICK life \in Lifetimes, max \in Budgets, allow \in Permissions :
          Moves(p, [Idle EXCEPT !.pc = "look",
                                !.row = [NoLink EXCEPT !.status = "active", !.max = max,
                                           !.expires = clock + life, !.allow = allow]])
    BY <1>1 DEF Create
  <2> DEFINE row == [NoLink EXCEPT !.status = "active", !.max = max,
                                   !.expires = clock + life, !.allow = allow]
             r == [Idle EXCEPT !.pc = "look", !.row = row]
  <2>2. clock + life \in Nat /\ max \in Limits /\ allow \in SUBSET {"download", "preview"}
    BY <1>0, TimeAssumption, LinkAssumption DEF Limits
  <2>3. row \in Link /\ row.count = 0
    BY <2>2 DEF NoLink, Link
  <2> HIDE DEF row
  <2>4. r \in Request
    BY <2>3, IdleFits DEF Fits, Request, Points
  <2>5. r.pc = "look" /\ r.row = row
    BY DEF Idle
  <2>6. Fits(r)
    BY <2>3, <2>4, <2>5 DEF Fits, Follows
  <2>7. Moves(p, r)
    BY <2>1 DEF row
  <2>8. QED
    BY <1>0, <1>1, <2>6, <2>7, QuietStep, LinksStay DEF Create
<1>2. CASE LookForObject(p)
  <2> DEFINE r == [req[p] EXCEPT !.pc = "insert"]
  <2>1. r \in Request /\ r.pc = "insert" /\ r.row = req[p].row
    BY MoverFacts DEF Request, Points
  <2>2. Fits(r)
    BY <1>2, <2>1, MoverFacts DEF Fits, Follows, LookForObject, At
  <2>3. QED
    BY <1>0, <1>2, <2>2, QuietStep, LinksStay DEF LookForObject, Goes
<1>3. CASE Insert(p)
  <2>0. At(p, "insert") /\ req[p].row \in Link /\ req[p].row.count = 0
    BY <1>3, MoverFacts DEF Insert, At
  <2>1. CASE Ends(p) /\ links' = links
    BY <1>0, <2>1, IdleFits, QuietStep, LinksStay DEF Ends
  <2>2. CASE Moves(p, [req[p] EXCEPT !.tries = @ + 1]) /\ links' = links
    <3> DEFINE r == [req[p] EXCEPT !.tries = req[p].tries + 1]
    <3>1. r \in Request /\ r.pc = "insert" /\ r.row = req[p].row
      BY <2>0, MoverFacts DEF Request, At
    <3>2. Fits(r)
      BY <2>0, <3>1 DEF Fits, Follows
    <3>3. Moves(p, r)
      BY <2>2
    <3>4. QED
      BY <1>0, <2>2, <3>2, <3>3, QuietStep, LinksStay
  <2>3. ASSUME NEW i \in LinkIds, links[i].status = "unused",
               links' = [links EXCEPT ![i] = req[p].row], Ends(p)
        PROVE  IInv'
    <3>1. CountsKept'
      BY <1>0, <2>0, <2>3 DEF CountsKept, IInv, TypeOK, Link, Limits
    <3>2. LinksGrow
      BY <1>0, <2>0, <2>3, <3>1 DEF LinksGrow, TypeOK, Link
    <3>3. QED
      BY <1>0, <2>3, <3>2, IdleFits, QuietStep DEF Ends
  <2>4. QED
    BY <1>3, <2>1, <2>2, <2>3 DEF Insert
<1>4. QED
  BY <1>1, <1>2, <1>3 DEF CreateStep

(* Revoking a link preserves the invariant. *)
LEMMA RevokeStepKeeps ==
  ASSUME IInv, NEW p \in Procs, RevokeStep(p)
  PROVE  IInv'
<1>0. TypeOK /\ clock' \in Nat /\ served' = served
  BY DEF IInv, TypeOK, RevokeStep, Revoke, RevokeStart
<1>1. CASE Revoke(p)
  <2>1. /\ links' = [links EXCEPT ![req[p].id].status = "revoked"]
        /\ req[p].id \in LinkIds /\ Ends(p)
    BY <1>1, MoverFacts DEF Revoke, At
  <2>2. CountsKept'
    BY <1>0, <2>1 DEF IInv, CountsKept, TypeOK, Link
  <2>3. LinksGrow
    BY <1>0, <2>1, <2>2 DEF LinksGrow, TypeOK, Link
  <2>4. QED
    BY <1>0, <2>1, <2>3, IdleFits, QuietStep DEF Ends
<1>2. ASSUME NEW i \in LinkIds, RevokeStart(p, i)
      PROVE  IInv'
  <2> DEFINE r == [Idle EXCEPT !.pc = "revoke", !.id = i]
  <2>1. r \in Request /\ r.pc = "revoke" /\ r.id = i
    BY IdleFits DEF Fits, Request, Points, Idle
  <2>2. Fits(r)
    BY <1>2, <2>1 DEF Fits, Follows, RevokeStart
  <2>3. QED
    BY <1>0, <1>2, <2>2, QuietStep, LinksStay DEF RevokeStart
<1>3. QED
  BY <1>1, <1>2 DEF RevokeStep

(* Following a link up to the count preserves the invariant. *)
LEMMA LookupKeeps ==
  ASSUME IInv, NEW p \in Procs, NEW i \in LinkIds, Access(p, i)
  PROVE  IInv'
<1> DEFINE r == [Idle EXCEPT !.pc = "check", !.id = i, !.row = links[i]]
<1>0. clock' \in Nat /\ served' = served /\ links' = links /\ links[i] \in Link
  BY DEF IInv, TypeOK, Access
<1>1. r \in Request /\ r.pc = "check" /\ r.id = i /\ r.row = links[i]
  BY <1>0, IdleFits DEF Fits, Request, Points, Idle
<1>2. Fits(r)
  BY <1>1 DEF Fits, Follows, Access
<1>3. QED
  BY <1>0, <1>2, QuietStep, LinksStay DEF Access

LEMMA CheckKeeps ==
  ASSUME IInv, NEW p \in Procs, Check(p)
  PROVE  IInv'
<1> DEFINE r == [req[p] EXCEPT !.pc = "head", !.asked = clock]
<1>0. clock \in Nat /\ clock' = clock /\ served' = served /\ links' = links
  BY DEF IInv, TypeOK, Check
<1>1. CASE Ends(p)
  BY <1>0, <1>1, IdleFits, QuietStep, LinksStay DEF Ends
<1>2. CASE ~(req[p].row.expires <= clock) /\ Moves(p, r)
  <2>1. /\ r \in Request /\ r.pc = "head" /\ r.id = req[p].id
        /\ r.row = req[p].row /\ r.asked = clock
    BY <1>0, MoverFacts DEF Request, Points
  <2>2. clock < r.row.expires
    BY <1>0, <1>2, <2>1, MoverFacts DEF Link
  <2>3. Fits(r)
    BY <2>1, <2>2, MoverFacts DEF Fits, Follows, Check, At
  <2>4. QED
    BY <1>0, <1>2, <2>3, QuietStep, LinksStay
<1>3. QED
  BY <1>1, <1>2 DEF Check

(* What presignTTL grants lies within the life of the link. *)
LEMMA TTLWithinLife ==
  ASSUME NEW expires \in Nat, NEW now \in Nat, now < expires
  PROVE  PresignTTL(expires, now) \in Nat /\ now + PresignTTL(expires, now) <= expires
BY TimeAssumption DEF PresignTTL, MinOf

LEMMA HeadKeeps ==
  ASSUME IInv, NEW p \in Procs, Head(p)
  PROVE  IInv'
<1> DEFINE ttl == PresignTTL(req[p].row.expires, req[p].asked)
           r == [req[p] EXCEPT !.pc = "sign", !.ttl = ttl, !.unsigned = req[p].row.allow]
<1>0. clock' \in Nat /\ served' = served /\ links' = links
  BY DEF IInv, TypeOK, Head
<1>1. ttl \in Nat /\ req[p].asked + ttl <= req[p].row.expires
  BY TTLWithinLife, MoverFacts DEF Head, At, Follows, Link, Request
<1>2. CASE Ends(p)
  BY <1>0, <1>2, IdleFits, QuietStep, LinksStay DEF Ends
<1>3. CASE Moves(p, r)
  <2> HIDE DEF ttl
  <2>1. /\ r \in Request /\ r.pc = "sign" /\ r.id = req[p].id
        /\ r.row = req[p].row /\ r.asked = req[p].asked /\ r.ttl = ttl
    BY <1>1, MoverFacts DEF Request, Points, Link
  <2>2. Fits(r)
    BY <1>1, <2>1, MoverFacts DEF Fits, Follows, Head, At
  <2>3. QED
    BY <1>0, <1>3, <2>2, QuietStep, LinksStay
<1>4. QED
  BY <1>2, <1>3 DEF Head

LEMMA SignKeeps ==
  ASSUME IInv, NEW p \in Procs, Sign(p)
  PROVE  IInv'
<1>0. clock \in Nat /\ clock' = clock /\ served' = served /\ links' = links
  BY DEF IInv, TypeOK, Sign
<1>1. PICK kind \in req[p].unsigned :
        Moves(p, [req[p] EXCEPT !.unsigned = @ \ {kind}, !.signed = clock,
                                !.until = clock + req[p].ttl,
                                !.pc = IF req[p].unsigned = {kind} THEN "bump" ELSE @])
  BY DEF Sign
<1> DEFINE pc == IF req[p].unsigned = {kind} THEN "bump" ELSE req[p].pc
           r == [req[p] EXCEPT !.unsigned = req[p].unsigned \ {kind}, !.signed = clock,
                               !.until = clock + req[p].ttl, !.pc = pc]
<1>2. pc \in {"sign", "bump"} /\ req[p].pc = "sign"
  BY DEF Sign, At
<1>3. Moves(p, r)
  BY <1>1
<1> HIDE DEF pc
<1>4. clock + req[p].ttl \in Nat
  BY <1>0, MoverFacts DEF Request
<1>5. /\ r \in Request /\ r.pc = pc /\ r.id = req[p].id /\ r.row = req[p].row
      /\ r.asked = req[p].asked /\ r.ttl = req[p].ttl
      /\ r.signed = clock /\ r.until = clock + r.ttl
  BY <1>0, <1>2, <1>4, MoverFacts DEF Request, Points
<1>6. Fits(r)
  BY <1>2, <1>5, MoverFacts DEF Fits, Follows
<1>7. QED
  BY <1>0, <1>3, <1>6, QuietStep, LinksStay

(* Counting an access preserves the invariant: the budget is checked by the *)
(* statement that counts.                                                   *)
LEMMA BumpAccessKeeps ==
  ASSUME IInv, NEW p \in Procs, BumpAccess(p)
  PROVE  IInv'
<1> DEFINE i == req[p].id
           n == links[i].count + 1
           r == [req[p] EXCEPT !.pc = "answer", !.number = n]
<1>0. TypeOK /\ clock' \in Nat /\ served' = served
  BY DEF IInv, TypeOK, BumpAccess
<1>1. CASE Ends(p) /\ links' = links
  BY <1>0, <1>1, IdleFits, QuietStep, LinksStay DEF Ends
<1>2. CASE Bumps(i, req[p].asked) /\ links' = [links EXCEPT ![i].count = @ + 1] /\ Moves(p, r)
  <2>1. i \in LinkIds /\ links[i] \in Link /\ req[p].pc = "bump"
    BY MoverFacts DEF BumpAccess, At, Follows
  <2>2. links[i].count \in Nat /\ links'[i].count = n
    BY <1>0, <1>2, <2>1 DEF TypeOK, Link
  <2>0. n \in Nat /\ n > links[i].count
    BY <2>2
  <2>3. links' \in [LinkIds -> Link]
    BY <1>0, <1>2, <2>1, <2>2 DEF TypeOK, Link
  <2>4. CountsKept'
    <3>1. SUFFICES ASSUME NEW j \in LinkIds, links'[j].max # None
                   PROVE  links'[j].count <= links'[j].max
      BY DEF CountsKept
    <3>2. CASE j = i
      <4>1. links[i].max # None /\ links'[i].max = links[i].max
        BY <1>0, <1>2, <2>1, <3>1, <3>2 DEF TypeOK, Link
      <4>2. links[i].max \in Nat
        BY <2>1, <4>1 DEF Link, Limits
      <4>3. ~(links[i].count >= links[i].max)
        BY <1>2, <4>1 DEF Bumps, Spent
      <4>4. QED
        BY <2>2, <3>2, <4>1, <4>2, <4>3
    <3>3. CASE j # i
      BY <1>0, <1>2, <2>1, <3>1, <3>3 DEF TypeOK, IInv, CountsKept
    <3>4. QED
      BY <3>2, <3>3
  <2>5. LinksGrow
    BY <1>0, <1>2, <2>1, <2>2, <2>3, <2>4 DEF LinksGrow, TypeOK, Link
  <2>6. Moves(p, r)
    BY <1>2
  <2> HIDE DEF n
  <2>7. /\ r \in Request /\ r.pc = "answer" /\ r.id = i /\ r.row = req[p].row
        /\ r.asked = req[p].asked /\ r.ttl = req[p].ttl /\ r.signed = req[p].signed
        /\ r.until = req[p].until /\ r.number = n
    BY <2>0, MoverFacts DEF Request, Points
  <2>8. Fits(r)
    BY <2>1, <2>2, <2>0, <2>7, MoverFacts DEF Fits, Follows
  <2>9. QED
    BY <1>0, <2>5, <2>6, <2>8, QuietStep
<1>3. QED
  BY <1>1, <1>2 DEF BumpAccess

(* Answering preserves the invariant: the number of the answer is taken from *)
(* its request, which gives it up.                                          *)
LEMMA ServeKeeps ==
  ASSUME IInv, NEW p \in Procs, Serve(p)
  PROVE  IInv'
<1> DEFINE a == [id |-> req[p].id, number |-> req[p].number, asked |-> req[p].asked,
                 signed |-> req[p].signed, until |-> req[p].until]
<1> USE DEF IInv
<1>1. /\ links' = links /\ clock' = clock /\ served' = served \cup {a}
      /\ req' \in [Procs -> Request]
      /\ req'[p].pc = "idle" /\ \A q \in Procs : q # p => req'[q] = req[q]
  BY IdleFits DEF Serve, Ends, Moves, TypeOK, Idle, Fits
<1>2. /\ req[p].pc = "answer" /\ req[p] \in Request /\ req[p].id \in LinkIds
      /\ links[req[p].id] \in Link
  BY MoverFacts DEF Serve, At, Follows
<1>3. a \in Answer
  BY <1>2 DEF Answer, Request
<1>4. TypeOK'
  BY <1>1, <1>3 DEF TypeOK
<1>5. CountsKept' /\ RowsAreFixed' /\ TimesFit'
  BY <1>1 DEF CountsKept, RowsAreFixed, TimesFit, Reading, At
<1>6. NumbersCounted'
  BY <1>1, <1>2 DEF NumbersCounted, At
<1>7. AccessNumbersDiffer'
  <2>1. ASSUME NEW q \in Procs, NEW b \in served', At(q, "answer")', b.id = req'[q].id
        PROVE  b.number # req'[q].number
    BY <1>1, <1>2, <2>1 DEF AccessNumbersDiffer, At
  <2>2. ASSUME NEW b \in served, b.id = a.id
        PROVE  b.number # a.number
    BY <1>2, <2>2 DEF AccessNumbersDiffer, At
  <2>3. QED
    BY <1>1, <2>1, <2>2 DEF AccessNumbersDiffer, At
<1>8. ServedLinksExist'
  BY <1>1, <1>2, MoverFacts DEF ServedLinksExist, Follows
<1>9. UrlsEndWithLink'
  <2>1. /\ a.asked < links[a.id].expires
        /\ req[p].asked + req[p].ttl <= links[a.id].expires
        /\ a.until = req[p].signed + req[p].ttl
    BY <1>2, MoverFacts DEF Follows
  <2>2. a.until + a.asked <= links[a.id].expires + a.signed
    BY <1>2, <2>1 DEF Request, Link
  <2>3. QED
    BY <1>1, <2>1, <2>2 DEF UrlsEndWithLink
<1>10. QED
  BY <1>4, <1>5, <1>6, <1>7, <1>8, <1>9

-----------------------------------------------------------------------------
(* The theorems *)

LEMMA InitHolds == Init => IInv
<1> SUFFICES ASSUME Init
             PROVE  IInv
  OBVIOUS
<1>1. NoLink \in Link /\ Idle \in Request
  BY IdleFits DEF Fits, NoLink, Link, Limits
<1>2. TypeOK
  BY <1>1 DEF Init, TypeOK
<1>3. CountsKept /\ RowsAreFixed /\ TimesFit
  BY DEF Init, CountsKept, RowsAreFixed, TimesFit, Reading, At, NoLink, Idle
<1>4. NumbersCounted /\ AccessNumbersDiffer /\ ServedLinksExist /\ UrlsEndWithLink
  BY DEF Init, NumbersCounted, AccessNumbersDiffer, ServedLinksExist, UrlsEndWithLink,
         At, Idle
<1>5. QED
  BY <1>2, <1>3, <1>4 DEF IInv

LEMMA NextKeeps == IInv /\ [Next]_vars => IInv'
<1> SUFFICES ASSUME IInv, [Next]_vars
             PROVE  IInv'
  OBVIOUS
<1>1. ASSUME NEW p \in Procs, AccessStep(p)
      PROVE  IInv'
  BY <1>1, LookupKeeps, CheckKeeps, HeadKeeps, SignKeeps, BumpAccessKeeps, ServeKeeps
  DEF AccessStep
<1>2. ASSUME NEW p \in Procs, Abort(p)
      PROVE  IInv'
  <2>1. clock' \in Nat /\ served' = served /\ links' = links
    BY <1>2 DEF Abort, IInv, TypeOK
  <2>2. QED
    BY <1>2, <2>1, IdleFits, QuietStep, LinksStay DEF Abort, Ends
<1>3. CASE Tick
  <2>1. clock' \in Nat /\ UNCHANGED <<links, req, served>>
    BY <1>3 DEF Tick, IInv, TypeOK
  <2>2. QED
    BY <2>1 DEF IInv, TypeOK, CountsKept, RowsAreFixed, TimesFit, NumbersCounted,
                AccessNumbersDiffer, ServedLinksExist, UrlsEndWithLink, Reading, At
<1>4. CASE UNCHANGED vars
  BY <1>4 DEF vars, IInv, TypeOK, CountsKept, RowsAreFixed, TimesFit, NumbersCounted,
              AccessNumbersDiffer, ServedLinksExist, UrlsEndWithLink, Reading, At
<1>5. QED
  BY <1>1, <1>2, <1>3, <1>4, CreateStepKeeps, RevokeStepKeeps DEF Next

(* The invariant of ShareLinks holds of every behaviour. *)
THEOREM Invariance == Spec => []IInv
BY InitHolds, NextKeeps, PTL DEF Spec

(* Rows, requests and answers stay what their types say. *)
THEOREM TypeCorrectness == Spec => []TypeOK
<1>1. IInv => TypeOK
  BY DEF IInv
<1>2. QED
  BY <1>1, Invariance, PTL

(* No two answers are the same access of a link, whatever the interleaving. *)
THEOREM AccessNumbersDifferAlways == Spec => []AccessNumbersDiffer
<1>1. IInv => AccessNumbersDiffer
  BY DEF IInv
<1>2. QED
  BY <1>1, Invariance, PTL

(* No URL outlives its link by more than the time between the check of the  *)
(* link and the signing of the URL.                                         *)
THEOREM UrlsEndWithLinkAlways == Spec => []UrlsEndWithLink
<1>1. IInv => UrlsEndWithLink
  BY DEF IInv
<1>2. QED
  BY <1>1, Invariance, PTL

(* Answers with different numbers that are within the budget are no more    *)
(* than the budget.                                                         *)
LEMMA NumbersBoundAnswers ==
  ASSUME NEW S, NEW n \in Nat, \A a \in S : a.number \in 1 .. n,
         \A a, b \in S : a.number = b.number => a = b
  PROVE  Cardinality(S) <= n
<1> DEFINE f == [a \in S |-> a.number]
<1>1. f \in Injection(S, 1 .. n)
  BY DEF Injection, IsInjective
<1>2. IsFiniteSet(1 .. n) /\ Cardinality(1 .. n) = n
  BY FS_Interval
<1>3. QED
  BY <1>1, <1>2, FS_Injection

(* A link gives out its URLs at most max_access_count times, however many   *)
(* requests follow it at the same time.                                     *)
THEOREM BudgetKeptAlways == Spec => []BudgetKept
<1>1. IInv => BudgetKept
  <2> SUFFICES ASSUME IInv, NEW i \in LinkIds, links[i].max # None
               PROVE  Cardinality({a \in served : a.id = i}) <= links[i].max
    BY DEF BudgetKept
  <2> DEFINE S == {a \in served : a.id = i}
  <2>1. links[i].max \in Nat /\ links[i].count \in Nat /\ links[i].count <= links[i].max
    BY DEF IInv, TypeOK, Link, Limits, CountsKept
  <2>2. \A a \in S : a.number \in 1 .. links[i].max
    BY <2>1 DEF IInv, NumbersCounted
  <2>3. \A a, b \in S : a.number = b.number => a = b
    BY DEF IInv, AccessNumbersDiffer
  <2> HIDE DEF S
  <2>4. Cardinality(S) <= links[i].max
    BY <2>1, <2>2, <2>3, NumbersBoundAnswers
  <2>5. QED
    BY <2>4 DEF S
<1>2. QED
  BY <1>1, Invariance, PTL

(* A revoked link never changes again. *)
THEOREM RevokedIsFinalAlways == Spec => RevokedIsFinal
<1> DEFINE Final == \A i \in LinkIds : links[i].status = "revoked" => links'[i] = links[i]
<1>1. IInv /\ [Next]_vars => [Final]_vars
  <2> SUFFICES ASSUME IInv, Next, NEW i \in LinkIds, links[i].status = "revoked"
               PROVE  links'[i] = links[i]
    OBVIOUS
  <2>0. links \in [LinkIds -> Link]
    BY DEF IInv, TypeOK
  <2>1. ASSUME NEW p \in Procs, Insert(p)
        PROVE  links'[i] = links[i]
    BY <2>0, <2>1 DEF Insert
  <2>2. ASSUME NEW p \in Procs, Revoke(p)
        PROVE  links'[i] = links[i]
    BY <2>0, <2>2 DEF Revoke, Link
  <2>3. ASSUME NEW p \in Procs, BumpAccess(p)
        PROVE  links'[i] = links[i]
    BY <2>0, <2>3 DEF BumpAccess, Bumps
  <2>4. QED
    BY <2>1, <2>2, <2>3
    DEF Next, Tick, CreateStep, Create, LookForObject, RevokeStep, RevokeStart,
        AccessStep, Access, Check, Head, Sign, Serve, Abort
<1>2. QED
  BY <1>1, Invariance, PTL DEF Spec, RevokedIsFinal
=============================================================================
