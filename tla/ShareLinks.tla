----------------------------- MODULE ShareLinks -----------------------------
(***************************************************************************)
(* Share links: the rows of share_links and the handlers of internal/share *)
(* that create, revoke and follow them.  A link hands out presigned URLs   *)
(* at most max_access_count times and until expires_at.                    *)
(*                                                                         *)
(* Following a link is a chain of separate steps: read the row, read the   *)
(* clock and check, look for the object, sign, and only then count.  Other *)
(* requests, a revocation and time itself come between any two.            *)
(*                                                                         *)
(* The clock counts ticks, Second of them to a second: the code measures   *)
(* lifetimes in nanoseconds and cuts them off below one second.  The token *)
(* in the URL names one row (unique index) and is not modelled beyond the  *)
(* retries of create.                                                      *)
(***************************************************************************)
EXTENDS Naturals, FiniteSets

CONSTANTS
  Procs,        \* requests that can be in flight at the same time
  LinkIds,      \* ids of share_links rows
  Budgets,      \* values of max_access_count a creator asks for
  Lifetimes,    \* how long after its creation a link may expire
  Permissions,  \* what a creator allows: sets of "download" and "preview"
  Cap,          \* the longest life of a presigned download
  Second,       \* ticks in a second
  MaxTime,      \* bound on the clock
  MaxCount,     \* bound on access_count
  None          \* NULL

ASSUME TimeAssumption ==
  /\ Lifetimes \subseteq Nat \ {0} /\ Cap \in Nat \ {0} /\ Second \in Nat \ {0}
  /\ MaxTime \in Nat

ASSUME LinkAssumption ==
  /\ Budgets \subseteq (Nat \ {0}) \cup {None} /\ None \notin Nat \cup LinkIds
  /\ MaxCount \in Nat
  /\ Permissions \subseteq (SUBSET {"download", "preview"}) \ {{}}

VARIABLES
  clock,
  links,  \* share_links: id -> row
  req,    \* the requests in flight
  served  \* history: the answers that carried URLs

vars == <<clock, links, req, served>>

-----------------------------------------------------------------------------
(* Types *)

Limits == Nat \cup {None}

Link == [status : {"unused", "active", "revoked"}, expires : Nat,
         max : Limits, count : Nat, allow : SUBSET {"download", "preview"}]

Points == {"idle", "look", "insert", "check", "head", "sign", "bump", "answer",
           "revoke"}

(* What a request holds: the row as it was read (a link to be created), the *)
(* clock as it was read, and the URLs signed: how long they live (ttl), the *)
(* last signing and the end of the last URL.                                *)
Request == [pc : Points, id : LinkIds \cup {None}, row : Link, tries : Nat,
            asked : Nat, ttl : Nat, unsigned : SUBSET {"download", "preview"},
            signed : Nat, until : Nat, number : Nat]

Answer == [id : LinkIds, number : Nat, asked : Nat, signed : Nat, until : Nat]

TypeOK ==
  /\ clock \in Nat
  /\ links \in [LinkIds -> Link]
  /\ req \in [Procs -> Request]
  /\ served \subseteq Answer

-----------------------------------------------------------------------------

NoLink == [status |-> "unused", expires |-> 0, max |-> None, count |-> 0,
           allow |-> {}]

Idle == [pc |-> "idle", id |-> None, row |-> NoLink, tries |-> 0, asked |-> 0,
         ttl |-> 0, unsigned |-> {}, signed |-> 0, until |-> 0, number |-> 0]

At(p, point) == req[p].pc = point
Moves(p, r) == req' = [req EXCEPT ![p] = r]
Goes(p, point) == Moves(p, [req[p] EXCEPT !.pc = point])
Ends(p) == Moves(p, Idle)

MinOf(a, b) == IF a < b THEN a ELSE b

(* Mutation: the cap alone decides. *)
PresignTTLOfCap(expires, now) ==
  IF expires <= now \/ Cap < Second THEN 0 ELSE Cap

(* presignTTL: what is left of the link, capped, and nothing below a second. *)
PresignTTL(expires, now) ==
  LET ttl == MinOf(Cap, expires - now)
  IN  IF expires <= now \/ ttl < Second THEN 0 ELSE ttl

Spent(row) == row.max # None /\ row.count >= row.max

-----------------------------------------------------------------------------
(* Create *)

(* create up to HeadObject: expires_at is fixed from the clock read here.   *)
Create(p) ==
  /\ At(p, "idle")
  /\ \E life \in Lifetimes, max \in Budgets, allow \in Permissions :
       Moves(p, [Idle EXCEPT !.pc = "look",
                             !.row = [NoLink EXCEPT !.status = "active", !.max = max,
                                        !.expires = clock + life, !.allow = allow]])
  /\ UNCHANGED <<clock, links, served>>

(* HeadObject finds the object. *)
LookForObject(p) ==
  /\ At(p, "look")
  /\ Goes(p, "insert")
  /\ UNCHANGED <<clock, links, served>>

(* Insert, with up to three random tokens; only a link that exists already   *)
(* can hold the token drawn.                                                *)
Insert(p) ==
  /\ At(p, "insert")
  /\ \/ \E i \in LinkIds :
          /\ links[i].status = "unused"
          /\ links' = [links EXCEPT ![i] = req[p].row]
          /\ Ends(p)
     \/ /\ \E i \in LinkIds : links[i].status # "unused"
        /\ IF req[p].tries < 2
             THEN Moves(p, [req[p] EXCEPT !.tries = @ + 1])
             ELSE Ends(p)
        /\ UNCHANGED links
  /\ UNCHANGED <<clock, served>>

-----------------------------------------------------------------------------
(* Revoke *)

(* GetByID; a link that is not active is not found. *)
RevokeStart(p, i) ==
  /\ At(p, "idle")
  /\ links[i].status = "active"
  /\ Moves(p, [Idle EXCEPT !.pc = "revoke", !.id = i])
  /\ UNCHANGED <<clock, links, served>>

(* Mutation: the row is marked with a status the table has no word for. *)
RevokeAsDeleted(p) ==
  /\ At(p, "revoke")
  /\ links' = [links EXCEPT ![req[p].id].status = "deleted"]
  /\ Ends(p)
  /\ UNCHANGED <<clock, served>>

(* The UPDATE goes by id alone. *)
Revoke(p) ==
  /\ At(p, "revoke")
  /\ links' = [links EXCEPT ![req[p].id].status = "revoked"]
  /\ Ends(p)
  /\ UNCHANGED <<clock, served>>

-----------------------------------------------------------------------------
(* Access *)

(* GetByToken *)
Access(p, i) ==
  /\ At(p, "idle")
  /\ links[i].status = "active"
  /\ Moves(p, [Idle EXCEPT !.pc = "check", !.id = i, !.row = links[i]])
  /\ UNCHANGED <<clock, links, served>>

(* The clock is read once, here; the count is the one read before.          *)
Check(p) ==
  LET row == req[p].row IN
  /\ At(p, "check")
  /\ IF row.expires <= clock \/ Spent(row) \/ row.allow = {}
       THEN Ends(p)
       ELSE Moves(p, [req[p] EXCEPT !.pc = "head", !.asked = clock])
  /\ UNCHANGED <<clock, links, served>>

(* HeadObject finds the object; then presignTTL, from the clock read before. *)
Head(p) ==
  LET ttl == PresignTTL(req[p].row.expires, req[p].asked) IN
  /\ At(p, "head")
  /\ IF ttl = 0
       THEN Ends(p)
       ELSE Moves(p, [req[p] EXCEPT !.pc = "sign", !.ttl = ttl,
                                    !.unsigned = req[p].row.allow])
  /\ UNCHANGED <<clock, links, served>>

(* PresignGetFor, then PresignPreviewFor: a URL lives from its signing.     *)
Sign(p) ==
  /\ At(p, "sign")
  /\ \E kind \in req[p].unsigned :
       /\ "download" \in req[p].unsigned => kind = "download"
       /\ Moves(p, [req[p] EXCEPT !.unsigned = @ \ {kind}, !.signed = clock,
                                  !.until = clock + req[p].ttl,
                                  !.pc = IF req[p].unsigned = {kind} THEN "bump" ELSE @])
  /\ UNCHANGED <<clock, links, served>>

(* Mutation: BumpAccess trusts the check of the count made on the row read.  *)
BumpsRegardless(i, now) ==
  links[i].status = "active" /\ links[i].expires > now

(* Mutation: BumpAccess trusts the check of the status made on the row read. *)
BumpsThoughRevoked(i, now) == links[i].expires > now /\ ~Spent(links[i])

(* The WHERE clause of BumpAccess, with the clock of the check.             *)
Bumps(i, now) ==
  /\ links[i].status = "active"
  /\ links[i].expires > now
  /\ ~Spent(links[i])

(* Mutation: the answer is numbered by the row read, not by RETURNING. *)
BumpAccessStale(p) ==
  LET i == req[p].id IN
  /\ At(p, "bump")
  /\ IF Bumps(i, req[p].asked)
       THEN /\ links[i].count < MaxCount
            /\ links' = [links EXCEPT ![i].count = req[p].row.count + 1]
            /\ Moves(p, [req[p] EXCEPT !.pc = "answer", !.number = req[p].row.count + 1])
       ELSE Ends(p) /\ UNCHANGED links
  /\ UNCHANGED <<clock, served>>

(* BumpAccess: one UPDATE that checks again and counts. *)
BumpAccess(p) ==
  LET i == req[p].id IN
  /\ At(p, "bump")
  /\ IF Bumps(i, req[p].asked)
       THEN /\ links[i].count < MaxCount
            /\ links' = [links EXCEPT ![i].count = @ + 1]
            /\ Moves(p, [req[p] EXCEPT !.pc = "answer", !.number = links[i].count + 1])
       ELSE Ends(p) /\ UNCHANGED links
  /\ UNCHANGED <<clock, served>>

(* The answer goes out with the URLs and the number RETURNING gave.         *)
Serve(p) ==
  /\ At(p, "answer")
  /\ served' = served \cup {[id |-> req[p].id, number |-> req[p].number,
                             asked |-> req[p].asked, signed |-> req[p].signed,
                             until |-> req[p].until]}
  /\ Ends(p)
  /\ UNCHANGED <<clock, links>>

-----------------------------------------------------------------------------

(* A wrong password, a missing object, a failed statement, a client gone,   *)
(* a process that dies.                                                     *)
Abort(p) ==
  /\ ~At(p, "idle")
  /\ Ends(p)
  /\ UNCHANGED <<clock, links, served>>

Tick ==
  /\ clock < MaxTime
  /\ clock' = clock + 1
  /\ UNCHANGED <<links, req, served>>

Init ==
  /\ clock = 0
  /\ links = [i \in LinkIds |-> NoLink]
  /\ req = [p \in Procs |-> Idle]
  /\ served = {}

CreateStep(p) == Create(p) \/ LookForObject(p) \/ Insert(p)

RevokeStep(p) == Revoke(p) \/ \E i \in LinkIds : RevokeStart(p, i)

AccessStep(p) ==
  \/ \E i \in LinkIds : Access(p, i)
  \/ Check(p) \/ Head(p) \/ Sign(p) \/ BumpAccess(p) \/ Serve(p)

Next ==
  \/ Tick
  \/ \E p \in Procs : CreateStep(p) \/ RevokeStep(p) \/ AccessStep(p) \/ Abort(p)

Spec == Init /\ [][Next]_vars

-----------------------------------------------------------------------------
(* Properties *)

(* No two answers that carry URLs are the same access of a link: not two    *)
(* that are on their way, not one on its way and one that is out, not two   *)
(* that are out.  It is what makes counting answers meaningful at all.      *)
AccessNumbersDiffer ==
  /\ \A p, q \in Procs :
       At(p, "answer") /\ At(q, "answer") /\ req[p].id = req[q].id
         /\ req[p].number = req[q].number => p = q
  /\ \A p \in Procs, a \in served :
       At(p, "answer") /\ a.id = req[p].id => a.number # req[p].number
  /\ \A a, b \in served : a.id = b.id /\ a.number = b.number => a = b

(* A link gives out its URLs at most max_access_count times, whatever the   *)
(* requests that pass the check of a stale count at the same time.  (It may *)
(* give them out fewer times: an answer that is lost is still counted.)     *)
BudgetKept ==
  \A i \in LinkIds :
    links[i].max # None => Cardinality({a \in served : a.id = i}) <= links[i].max

(* A revoked link never changes again: a request that read it while it was  *)
(* active does not count against it, and so gives out nothing.              *)
RevokedIsFinal ==
  [][\A i \in LinkIds : links[i].status = "revoked" => links'[i] = links[i]]_vars

(* Whoever gets URLs asked before the link expired, and a URL outlives its  *)
(* link by no more than the time that passed between reading the clock and  *)
(* signing: presignTTL counts from the first, storage from the second.      *)
UrlsEndWithLink ==
  \A a \in served :
    /\ a.asked < links[a.id].expires
    /\ a.until + a.asked <= links[a.id].expires + a.signed

-----------------------------------------------------------------------------
(* The inductive invariant behind the theorems of ShareLinks_proofs *)

(* A link's number of accesses stays within its budget. *)
CountsKept ==
  \A i \in LinkIds : links[i].max # None => links[i].count <= links[i].max

Reading(p) == req[p].pc \in {"check", "head", "sign", "bump", "answer"}

(* What a request read of a link never changes: only count and status do.   *)
RowsAreFixed ==
  \A p \in Procs :
    /\ Reading(p) \/ At(p, "revoke") =>
         req[p].id \in LinkIds /\ links[req[p].id].status # "unused"
    /\ Reading(p) => req[p].row.expires = links[req[p].id].expires
    /\ req[p].pc \in {"look", "insert"} => req[p].row.count = 0

(* How far a request that follows a link has come with its times.           *)
TimesFit ==
  \A p \in Procs :
    /\ Reading(p) /\ ~At(p, "check") => req[p].asked < req[p].row.expires
    /\ req[p].pc \in {"sign", "bump", "answer"} =>
         req[p].asked + req[p].ttl <= req[p].row.expires
    /\ req[p].pc \in {"bump", "answer"} => req[p].until = req[p].signed + req[p].ttl

(* Numbers are given out in order.                                          *)
NumbersCounted ==
  /\ \A p \in Procs : At(p, "answer") => req[p].number \in 1 .. links[req[p].id].count
  /\ \A a \in served : a.number \in 1 .. links[a.id].count

ServedLinksExist == \A a \in served : links[a.id].status # "unused"

IInv ==
  /\ TypeOK /\ CountsKept /\ RowsAreFixed /\ TimesFit
  /\ NumbersCounted /\ AccessNumbersDiffer /\ ServedLinksExist /\ UrlsEndWithLink
=============================================================================
