-------------------------- MODULE EditLocks_proofs --------------------------
(***************************************************************************)
(* The theorems of EditLocks, for any number of requests, users, lock rows,*)
(* sessions and tokens.                                                    *)
(*                                                                         *)
(* Most steps move one request and write little else.  QuietStep shows     *)
(* once that such a step preserves IInv if the request fits its new place  *)
(* (Fits); the steps that store a token (insertLock, refreshLock,          *)
(* InsertSession) are shown on their own.                                  *)
(***************************************************************************)
EXTENDS EditLocks, TLAPS

-----------------------------------------------------------------------------
(* Types of requests *)

(* The record of an idle request is a request. *)
LEMMA IdleType == Idle \in Request
BY DEF Idle, Request, Points, Purposes, Ops

(* Calling ActiveLock keeps a request a request. *)
LEMMA AsksType ==
  ASSUME NEW r \in Request, NEW purpose \in Purposes
  PROVE  Asks(r, purpose) \in Request
BY DEF Asks, Request, Points

(* So does going on to CloseSession. *)
LEMMA ClosingType ==
  ASSUME NEW r \in Request
  PROVE  Closing(r) \in Request
BY DEF Closing, Idle, Request, Points, Purposes

-----------------------------------------------------------------------------
(* What a quiet step may do *)

(* No lock becomes active, changes hands or changes its token. *)
LocksShrink ==
  /\ locks' \in [LockIds -> LockRow]
  /\ \A i \in LockIds :
       /\ locks[i].status # "unused" =>
            locks'[i].status # "unused" /\ locks'[i].by = locks[i].by
       /\ locks'[i].status = "active" =>
            locks[i].status = "active" /\ locks'[i].token = locks[i].token

(* No session is opened and none changes its token. *)
SessionsKeep ==
  /\ sessions' \in [SessionIds -> SessionRow]
  /\ \A s \in SessionIds :
       /\ sessions'[s].token = sessions[s].token
       /\ sessions[s].status # "unused" => sessions'[s].status # "unused"

(* Only a request that is past its check writes the object. *)
WritesOf(p) ==
  /\ written' \subseteq SessionIds
  /\ \A s \in written' : s \in written \/ (At(p, "put") /\ s = req[p].sid)

(* Request p may become r: r is in place, its token is fresh or the one p   *)
(* had, and the rows it refers to are there.                                *)
Fits(p, r) ==
  /\ r \in Request
  /\ InPlace(r)
  /\ Minter(r) => \/ /\ Minter(req[p]) /\ r.token = req[p].token
                     /\ r.pc # "session" => ~At(p, "session")
                  \/ NewToken(r.token)
  /\ r.pc \in {"refresh", "release", "force"} => locks[r.row].status # "unused"
  /\ r.pc = "release" => locks[r.row].by = r.user
  /\ r.op \in SessionOps => sessions[r.sid].status # "unused"
  /\ "onlyoffice" \notin Editors /\ r.pc = "put" => sessions[r.sid].token \in granted

(* A step of one request that stores no token preserves the invariant. *)
LEMMA QuietStep ==
  ASSUME IInv, NEW p \in Procs, NEW r, Fits(p, r), req' = [req EXCEPT ![p] = r],
         LocksShrink, SessionsKeep, WritesOf(p), granted' = granted
  PROVE  IInv'
<1> USE DEF IInv
<1>0. r \in Request BY DEF Fits
<1>1. /\ req' \in [Procs -> Request] /\ req \in [Procs -> Request]
      /\ req'[p] = r /\ \A q \in Procs : q # p => req'[q] = req[q]
  BY <1>0 DEF TypeOK
<1>2. TypeOK'
  BY <1>1 DEF TypeOK, LocksShrink, SessionsKeep, WritesOf
<1>3. UniqueActive' /\ ActiveIsGranted'
  BY DEF UniqueActive, ActiveIsGranted, ActiveRows, LocksShrink
<1>4. MintedArePrivate'
  <2>1. ASSUME NEW a \in Procs, NEW b \in Procs, Minter(req'[a]), Minter(req'[b]),
               req'[a].token = req'[b].token
        PROVE  a = b
    BY <2>1, <1>1 DEF MintedArePrivate, Fits, NewToken
  <2>2. ASSUME NEW a \in Procs, NEW s \in SessionIds, Minter(req'[a])
        PROVE  sessions'[s].token # req'[a].token
    BY <2>2, <1>1 DEF MintedArePrivate, Fits, NewToken, SessionsKeep
  <2>3. QED
    BY <2>1, <2>2 DEF MintedArePrivate, Minter
<1>5. MintedAreUnspent'
  BY <1>1 DEF MintedAreUnspent, Fits, NewToken, At, Minter
<1>6. SessionTokensDiffer'
  BY DEF SessionTokensDiffer, SessionsKeep
<1>7. Control'
  BY <1>1 DEF Control, Fits, InPlace, Minter
<1>8. RowsWereRead'
  BY <1>1 DEF RowsWereRead, Control, InPlace, Fits, LocksShrink, At
<1>9. SessionsExist'
  BY <1>1 DEF SessionsExist, Control, InPlace, Fits, SessionsKeep
<1>10. SavesAreGranted'
  <2> SUFFICES ASSUME "onlyoffice" \notin Editors
               PROVE  /\ \A q \in Procs : At(q, "put")' =>
                           sessions'[req'[q].sid].token \in granted'
                      /\ \A s \in written' : /\ sessions'[s].status # "unused"
                                             /\ sessions'[s].token \in granted'
    BY DEF SavesAreGranted
  <2>1. ASSUME NEW q \in Procs, req'[q].pc = "put"
        PROVE  sessions'[req'[q].sid].token \in granted'
    <3>1. req'[q].sid \in SessionIds
      BY <1>1, <2>1 DEF Control, Fits, InPlace
    <3>2. QED
      BY <1>1, <2>1, <3>1 DEF SavesAreGranted, Fits, SessionsKeep, At
  <2>2. ASSUME NEW s \in written'
        PROVE  sessions'[s].status # "unused" /\ sessions'[s].token \in granted'
    <3>1. s \in SessionIds
      BY <2>2 DEF WritesOf
    <3>2. CASE s \in written
      BY <3>1, <3>2 DEF SavesAreGranted, SessionsKeep
    <3>3. CASE At(p, "put") /\ s = req[p].sid
      BY <3>1, <3>3 DEF SavesAreGranted, SessionsKeep, At, Control, InPlace, SessionsExist
    <3>4. QED
      BY <2>2, <3>2, <3>3 DEF WritesOf
  <2>3. QED
    BY <2>1, <2>2 DEF At
<1>11. QED
  BY <1>2, <1>3, <1>4, <1>5, <1>6, <1>7, <1>8, <1>9, <1>10

(* A step that moves no request, stores no token and writes no object. *)
LEMMA IdleStep ==
  ASSUME IInv, req' = req, LocksShrink, SessionsKeep,
         granted' = granted, written' = written
  PROVE  IInv'
<1> USE DEF IInv
<1>1. TypeOK'
  BY DEF TypeOK, LocksShrink, SessionsKeep
<1>2. UniqueActive' /\ ActiveIsGranted'
  BY DEF UniqueActive, ActiveIsGranted, ActiveRows, LocksShrink
<1>3. MintedArePrivate' /\ MintedAreUnspent' /\ SessionTokensDiffer'
  BY DEF MintedArePrivate, MintedAreUnspent, SessionTokensDiffer, SessionsKeep, At
<1>4. Control' /\ RowsWereRead'
  BY DEF Control, RowsWereRead, InPlace, LocksShrink, At
<1>5. SessionsExist' /\ SavesAreGranted'
  BY DEF SessionsExist, SavesAreGranted, Control, InPlace, TypeOK, SessionsKeep, At
<1>6. QED
  BY <1>1, <1>2, <1>3, <1>4, <1>5

-----------------------------------------------------------------------------
(* The first step of a request *)

(* A step that changes no table changes none of them too much. *)
LEMMA TablesUnchanged ==
  ASSUME TypeOK, NEW p, UNCHANGED <<locks, sessions, granted, written>>
  PROVE  LocksShrink /\ SessionsKeep /\ WritesOf(p) /\ granted' = granted
BY DEF TypeOK, LocksShrink, SessionsKeep, WritesOf

(* A request that only changes its own record keeps the invariant if the    *)
(* record fits.                                                             *)
LEMMA MoveStep ==
  ASSUME IInv, NEW p \in Procs, NEW r, Fits(p, r), req' = [req EXCEPT ![p] = r],
         UNCHANGED <<locks, sessions, granted, written>>
  PROVE  IInv'
BY TablesUnchanged, QuietStep DEF IInv

(* Every handler's first step preserves the invariant. *)
LEMMA BeginStep ==
  ASSUME IInv, NEW p \in Procs, Begin(p)
  PROVE  IInv'
<1> USE IdleType, AsksType, ClosingType, MoveStep, NilAssumption
<1> USE DEF IInv, OpenOps, CloseOps, SaveOps, AcquireOps, SessionOps
<1>1. CASE LockStatus(p)
  <2> DEFINE r == Asks([Idle EXCEPT !.op = "lockStatus"], "status")
  <2>1. [Idle EXCEPT !.op = "lockStatus"] \in Request
    BY <1>1 DEF Request, Ops
  <2>2. r \in Request
    BY <2>1 DEF Purposes
  <2>3. Fits(p, r)
    BY <2>2 DEF Fits, InPlace, Minter, Asks, Idle
  <2>4. QED
    BY <1>1, <2>3 DEF LockStatus, Starts
<1>2. ASSUME NEW u \in Users, LockAcquire(p, u)
      PROVE  IInv'
  <2> DEFINE r == Asks([Idle EXCEPT !.op = "lockAcquire", !.user = u,
                                          !.token = EmptyToken], "acquire")
  <2>1. [Idle EXCEPT !.op = "lockAcquire", !.user = u,
                                          !.token = EmptyToken] \in Request
    BY <1>2 DEF Request, Ops
  <2>2. r \in Request
    BY <2>1 DEF Purposes
  <2>3. Fits(p, r)
    BY <2>2 DEF Fits, InPlace, Minter, Asks, Idle
  <2>4. QED
    BY <1>2, <2>3 DEF LockAcquire, Starts
<1>3. ASSUME NEW u \in Users, TextOpen(p, u)
      PROVE  IInv'
  <2> DEFINE r == [Idle EXCEPT !.op = "textOpen", !.user = u, !.mode = "edit",
                                    !.token = EmptyToken, !.pc = "sweep"]
  <2>1. r \in Request
    <3>1. "textOpen" \in Ops /\ "sweep" \in Points
      BY DEF Ops, Points
    <3>2. QED
      BY <3>1 DEF Request
  <2>2. Fits(p, r)
    BY <2>1 DEF Fits, InPlace, Minter, Idle
  <2>3. QED
    BY <1>3, <2>2 DEF TextOpen, Starts
<1>4. ASSUME NEW u \in Users, NEW t \in Tokens, LockRefresh(p, u, t)
      PROVE  IInv'
  <2> DEFINE r == Asks([Idle EXCEPT !.op = "lockRefresh", !.user = u,
                                          !.token = t], "refresh")
  <2>1. [Idle EXCEPT !.op = "lockRefresh", !.user = u,
                                          !.token = t] \in Request
    BY <1>4 DEF Request, Ops
  <2>2. r \in Request
    BY <2>1 DEF Purposes
  <2>3. Fits(p, r)
    BY <2>2 DEF Fits, InPlace, Minter, Asks, Idle
  <2>4. QED
    BY <1>4, <2>3 DEF LockRefresh, Starts
<1>5. ASSUME NEW u \in Users, NEW t \in Tokens \cup {None}, LockRelease(p, u, t)
      PROVE  IInv'
  <2> DEFINE r == Asks([Idle EXCEPT !.op = "lockRelease", !.user = u,
                                          !.token = t], "release")
  <2>1. [Idle EXCEPT !.op = "lockRelease", !.user = u,
                                          !.token = t] \in Request
    BY <1>5 DEF Request, Ops
  <2>2. r \in Request
    BY <2>1 DEF Purposes
  <2>3. Fits(p, r)
    BY <2>2 DEF Fits, InPlace, Minter, Asks, Idle
  <2>4. QED
    BY <1>5, <2>3 DEF LockRelease, Starts
<1>6. ASSUME NEW u \in Users, NEW mode \in {"edit", "view"}, OfficeOpen(p, u, mode)
      PROVE  IInv'
  <2> DEFINE r == Asks([Idle EXCEPT !.op = "officeOpen", !.user = u, !.mode = mode,
                                          !.token = EmptyToken], "open")
  <2>1. [Idle EXCEPT !.op = "officeOpen", !.user = u, !.mode = mode,
                                          !.token = EmptyToken] \in Request
    BY <1>6 DEF Request, Ops
  <2>2. r \in Request
    BY <2>1 DEF Purposes
  <2>3. Fits(p, r)
    BY <2>2 DEF Fits, InPlace, Minter, Asks, Idle
  <2>4. QED
    BY <1>6, <2>3 DEF OfficeOpen, Starts
<1>7. ASSUME NEW s \in SessionIds, NEW op \in SaveOps, TextSave(p, s, op)
      PROVE  IInv'
  <2> DEFINE r == Asks([Idle EXCEPT !.op = op, !.user = sessions[s].user,
                                          !.sid = s], "save")
  <2>1. sessions[s] \in SessionRow /\ sessions[s].status # "unused"
    BY <1>7 DEF TextSave, TypeOK, ActiveSession
  <2>2. [Idle EXCEPT !.op = op, !.user = sessions[s].user,
                                          !.sid = s] \in Request
    BY <2>1, <1>7 DEF Request, Ops, SessionRow
  <2>3. r \in Request
    BY <2>2 DEF Purposes
  <2>4. Fits(p, r)
    BY <2>1, <2>3 DEF Fits, InPlace, Minter, Asks, Idle
  <2>5. QED
    BY <1>7, <2>4 DEF TextSave, Starts
<1>8. ASSUME NEW s \in SessionIds, TextClose(p, s)
      PROVE  IInv'
  <2> DEFINE r == [Idle EXCEPT !.op = "textClose", !.user = sessions[s].user, !.sid = s]
  <2>1. /\ sessions[s] \in SessionRow
        /\ sessions[s].status # "unused" /\ At(p, "idle")
    BY <1>8 DEF TextClose, TypeOK, ActiveSession, Starts, At
  <2>2. r \in Request
    BY <2>1 DEF Request, SessionRow, Ops
  <2>3. CASE sessions[s].mode = "edit"
    <3>1. Asks(r, "release") \in Request
      BY <2>2 DEF Purposes
    <3>2. Fits(p, Asks(r, "release"))
      BY <2>1, <3>1 DEF Fits, InPlace, Minter, Asks, Idle
    <3>3. QED
      BY <1>8, <2>3, <3>2 DEF TextClose, Starts
  <2>4. CASE sessions[s].mode # "edit"
    <3>1. Fits(p, Closing(r))
      BY <2>1, <2>2 DEF Fits, InPlace, Minter, Closing, Idle
    <3>2. QED
      BY <1>8, <2>4, <3>1 DEF TextClose, Starts
  <2>5. QED
    BY <2>3, <2>4
<1>9. ASSUME NEW s \in SessionIds, NEW m \in SessionIds, OfficeCallbackSave(p, s, m)
      PROVE  IInv'
  <2> DEFINE r == [Idle EXCEPT !.op = "officeSaved", !.user = sessions[m].user,
                                    !.sid = m, !.pc = "put"]
  <2>1. sessions[m] \in SessionRow /\ sessions[m].status # "unused"
    BY <1>9 DEF OfficeCallbackSave, TypeOK, Addressed, ActiveSession
  <2>2. r \in Request
    <3>1. "officeSaved" \in Ops /\ "put" \in Points /\ sessions[m].user \in Users \cup {None}
      BY <2>1 DEF Ops, Points, SessionRow
    <3>2. QED
      BY <3>1 DEF Request
  <2>3. Fits(p, r)
    BY <2>1, <2>2, <1>9 DEF Fits, InPlace, Minter, Idle, OfficeCallbackSave
  <2>4. QED
    BY <1>9, <2>3 DEF OfficeCallbackSave, Starts
<1>10. ASSUME NEW s \in SessionIds, NEW m \in SessionIds, OfficeCallbackClosed(p, s, m)
      PROVE  IInv'
  <2> DEFINE r == Asks([Idle EXCEPT !.op = "officeClose", !.user = sessions[m].user,
                                          !.sid = m, !.token = sessions[m].token],
                            "release")
  <2>1. sessions[m] \in SessionRow /\ sessions[m].status # "unused"
    BY <1>10 DEF OfficeCallbackClosed, TypeOK, Addressed, ActiveSession
  <2>2. [Idle EXCEPT !.op = "officeClose", !.user = sessions[m].user,
                                          !.sid = m, !.token = sessions[m].token] \in Request
    BY <2>1, <1>10 DEF Request, Ops, SessionRow
  <2>3. r \in Request
    BY <2>2 DEF Purposes
  <2>4. Fits(p, r)
    BY <2>1, <2>3 DEF Fits, InPlace, Minter, Asks, Idle
  <2>5. QED
    BY <1>10, <2>4 DEF OfficeCallbackClosed, Starts
<1>11. CASE ForceUnlock(p)
  <2> DEFINE r == Asks([Idle EXCEPT !.op = "forceUnlock"], "force")
  <2>1. [Idle EXCEPT !.op = "forceUnlock"] \in Request
    BY <1>11 DEF Request, Ops
  <2>2. r \in Request
    BY <2>1 DEF Purposes
  <2>3. Fits(p, r)
    BY <2>2 DEF Fits, InPlace, Minter, Asks, Idle
  <2>4. QED
    BY <1>11, <2>3 DEF ForceUnlock, Starts
<1>12. QED
  BY <1>1, <1>2, <1>3, <1>4, <1>5, <1>6, <1>7, <1>8, <1>9, <1>10, <1>11 DEF Begin

-----------------------------------------------------------------------------
(* A request moves on *)

(* What the invariant says of the request that moves. *)
LEMMA MoverFacts ==
  ASSUME IInv, NEW p \in Procs
  PROVE  /\ req[p] \in Request /\ InPlace(req[p])
         /\ req[p].op \in SessionOps => /\ req[p].sid \in SessionIds
                                       /\ sessions[req[p].sid].status # "unused"
BY DEF IInv, TypeOK, Control, InPlace, SessionsExist

(* A request may always end. *)
LEMMA EndFits ==
  ASSUME NEW p \in Procs
  PROVE  Fits(p, Idle)
BY IdleType DEF Fits, InPlace, Minter, Idle, OpenOps, AcquireOps, SessionOps, CloseOps, SaveOps

(* A request about a session may go on to close it. *)
LEMMA CloseFits ==
  ASSUME IInv, NEW p \in Procs, req[p].op \in CloseOps
  PROVE  Fits(p, Closing(req[p]))
BY MoverFacts, ClosingType
   DEF Fits, InPlace, Minter, Closing, Idle, OpenOps, AcquireOps, SessionOps, CloseOps, SaveOps

(* The lock a SELECT found is an active row; with a user and a token. *)
LEMMA ReadFacts ==
  ASSUME IInv, NEW i \in LockIds \cup {None}, Reads(i), i # None
  PROVE  /\ i \in Held /\ i \in LockIds /\ locks[i].status = "active"
         /\ locks[i].by \in Users /\ locks[i].token \in granted
BY DEF Reads, Held, ActiveRows, IInv, ActiveIsGranted

(* A stop or a failure preserves the invariant. *)
LEMMA AbortStep ==
  ASSUME IInv, NEW p \in Procs, Abort(p)
  PROVE  IInv'
<1>1. CASE Ends(p) /\ UNCHANGED <<locks, sessions, granted, written>>
  BY <1>1, EndFits, MoveStep DEF Ends
<1>2. CASE /\ req[p].op \in CloseOps /\ req' = [req EXCEPT ![p] = Closing(@)]
           /\ UNCHANGED <<locks, sessions, granted, written>>
  <2>1. req' = [req EXCEPT ![p] = Closing(req[p])]
    BY <1>2
  <2>2. QED
    BY <1>2, <2>1, CloseFits, MoveStep
<1>3. CASE /\ At(p, "sweep") /\ req' = [req EXCEPT ![p] = Asks(@, "open")]
           /\ UNCHANGED <<locks, sessions, granted, written>>
  <2>1. Asks(req[p], "open") \in Request
    BY AsksType, MoverFacts DEF Purposes
  <2>2. Fits(p, Asks(req[p], "open"))
    BY <1>3, <2>1, MoverFacts DEF Fits, InPlace, Minter, Asks, At, Request, AcquireOps
  <2>3. req' = [req EXCEPT ![p] = Asks(req[p], "open")]
    BY <1>3
  <2>4. QED
    BY <1>3, <2>2, <2>3, MoveStep
<1>4. QED
  BY <1>1, <1>2, <1>3 DEF Abort

(* What follows acquire and releaseOwned preserves the invariant. *)
LEMMA AcquiredFits ==
  ASSUME IInv, NEW p \in Procs, req[p].op \in AcquireOps,
         NEW b \in BOOLEAN, ~At(p, "session"),
         NEW r, r = [req[p] EXCEPT !.refused = b]
  PROVE  Fits(p, IF r.op \in OpenOps THEN [r EXCEPT !.pc = "session"] ELSE Idle)
<1>1. CASE r.op \notin OpenOps
  BY <1>1, EndFits
<1>2. CASE r.op \in OpenOps
  <2>1. [r EXCEPT !.pc = "session"] \in Request
    BY MoverFacts DEF Request, Points
  <2>2. InPlace([r EXCEPT !.pc = "session"])
    BY <1>2, MoverFacts DEF InPlace, Minter, Request
  <2>3. Fits(p, [r EXCEPT !.pc = "session"])
    BY <1>2, <2>1, <2>2, MoverFacts
    DEF Fits, Minter, Request, OpenOps, SessionOps, CloseOps, SaveOps
  <2>4. QED
    BY <1>2, <2>3
<1>3. QED
  BY <1>1, <1>2

(* What a release leaves behind: a session to close, or an answer. *)
LEMMA ReleasedStep ==
  ASSUME IInv, NEW p \in Procs, NEW ok, Released(p, ok),
         LocksShrink, SessionsKeep, WritesOf(p), granted' = granted
  PROVE  IInv'
<1>1. CASE req[p].op \in CloseOps /\ req' = [req EXCEPT ![p] = Closing(@)]
  <2>1. req' = [req EXCEPT ![p] = Closing(req[p])]
    BY <1>1
  <2>2. QED
    BY <1>1, <2>1, CloseFits, QuietStep
<1>2. CASE Ends(p)
  BY <1>2, EndFits, QuietStep DEF Ends
<1>3. CASE req' = [req EXCEPT ![p] = Asks([Idle EXCEPT !.op = "lockStatus"], "status")]
  <2> DEFINE r == Asks([Idle EXCEPT !.op = "lockStatus"], "status")
  <2>1. [Idle EXCEPT !.op = "lockStatus"] \in Request
    BY IdleType DEF Request, Ops
  <2>2. r \in Request
    BY <2>1, AsksType DEF Purposes
  <2>3. Fits(p, r)
    BY <2>2 DEF Fits, InPlace, Minter, Asks, Idle, OpenOps, AcquireOps, SessionOps,
                CloseOps, SaveOps
  <2>4. QED
    BY <1>3, <2>3, QuietStep
<1>4. QED
  BY <1>1, <1>2, <1>3 DEF Released

-----------------------------------------------------------------------------
(* The SELECT of ActiveLock, for each purpose *)

(* textOpen and officeOpen after their first look. *)
LEMMA ReadForOpenStep ==
  ASSUME IInv, NEW p \in Procs, ReadForOpen(p)
  PROVE  IInv'
<1> DEFINE view == [req[p] EXCEPT !.pc = "session", !.mode = "view"]
<1>0. /\ req[p].op \in OpenOps /\ At(p, "read")
      /\ UNCHANGED <<locks, sessions, granted, written>>
  BY MoverFacts DEF ReadForOpen, Reading, InPlace
<1>1. ASSUME req' = [req EXCEPT ![p] = view]
      PROVE  IInv'
  <2>1. view \in Request
    BY MoverFacts DEF Request, Points
  <2>2. InPlace(view)
    BY <1>0, MoverFacts DEF InPlace, Minter, Request
  <2>3. Fits(p, view)
    BY <1>0, <2>1, <2>2, MoverFacts DEF Fits, Minter, Request, OpenOps, SessionOps,
                                        CloseOps, SaveOps
  <2>4. QED
    BY <1>0, <1>1, <2>3, MoveStep
<1>2. ASSUME NEW t \in Tokens, NewToken(t),
             req' = [req EXCEPT ![p] = [view EXCEPT !.token = t]]
      PROVE  IInv'
  <2> DEFINE r == [view EXCEPT !.token = t]
  <2>1. r \in Request
    BY MoverFacts DEF Request, Points
  <2>2. InPlace(r)
    BY <1>0, NilAssumption, MoverFacts DEF InPlace, Minter, Request, AcquireOps
  <2>3. r.op \in OpenOps /\ r.pc = "session" /\ r.token = t
    BY <1>0, MoverFacts DEF Request
  <2>4. Fits(p, r)
    BY <1>2, <2>1, <2>2, <2>3 DEF Fits, OpenOps, SessionOps, CloseOps, SaveOps
  <2>5. QED
    BY <1>0, <1>2, <2>4, MoveStep
<1>3. ASSUME NEW t \in Tokens, NewToken(t),
             req' = [req EXCEPT ![p] = Asks([req[p] EXCEPT !.token = t], "acquire")]
      PROVE  IInv'
  <2> DEFINE base == [req[p] EXCEPT !.token = t]
             r == Asks(base, "acquire")
  <2>1. base \in Request
    BY MoverFacts DEF Request
  <2>2. r \in Request
    BY <2>1, AsksType DEF Purposes
  <2>3. InPlace(r)
    BY <1>0, <2>1, NilAssumption, MoverFacts DEF InPlace, Minter, Request, Asks, AcquireOps
  <2>4. r.op \in OpenOps /\ r.pc = "expire" /\ r.token = t
    BY <1>0, MoverFacts DEF Request, Asks
  <2>5. Fits(p, r)
    BY <1>3, <2>2, <2>3, <2>4 DEF Fits, OpenOps, SessionOps, CloseOps, SaveOps
  <2>6. QED
    BY <1>0, <1>3, <2>5, MoveStep
<1>4. QED
  <2> PICK i \in LockIds \cup {None} :
        LET foreign == i # None /\ locks[i].by # req[p].user IN
        IF foreign /\ req[p].op = "textOpen"
          THEN req' = [req EXCEPT ![p].pc = "session", ![p].mode = "view"]
          ELSE \E t \in Tokens :
                 /\ NewToken(t)
                 /\ req' = [req EXCEPT ![p] =
                      IF foreign
                        THEN [@ EXCEPT !.pc = "session", !.mode = "view", !.token = t]
                        ELSE Asks([@ EXCEPT !.token = t], "acquire")]
    BY DEF ReadForOpen
  <2> DEFINE foreign == i # None /\ locks[i].by # req[p].user
  <2>1. CASE foreign /\ req[p].op = "textOpen"
    <3>1. req' = [req EXCEPT ![p] = view]
      BY <2>1
    <3>2. QED
      BY <1>1, <3>1
  <2>2. CASE ~(foreign /\ req[p].op = "textOpen")
    <3>1. PICK t \in Tokens :
            /\ NewToken(t)
            /\ req' = [req EXCEPT ![p] =
                 IF foreign
                   THEN [@ EXCEPT !.pc = "session", !.mode = "view", !.token = t]
                   ELSE Asks([@ EXCEPT !.token = t], "acquire")]
      BY <2>2
    <3>2. CASE foreign
      BY <1>2, <3>1, <3>2
    <3>3. CASE ~foreign
      BY <1>3, <3>1, <3>3
    <3>4. QED
      BY <3>2, <3>3
  <2>3. QED
    BY <2>1, <2>2

(* acquire: refused, renewing or inserting. *)
LEMMA ReadForAcquireStep ==
  ASSUME IInv, NEW p \in Procs, ReadForAcquire(p)
  PROVE  IInv'
<1>0. /\ req[p].op \in AcquireOps /\ At(p, "read")
      /\ UNCHANGED <<locks, sessions, granted, written>>
  BY MoverFacts DEF ReadForAcquire, Reading, InPlace
<1>1. ASSUME Acquired(p, [req[p] EXCEPT !.refused = TRUE])
      PROVE  IInv'
  <2> DEFINE r == [req[p] EXCEPT !.refused = TRUE]
  <2>1. Fits(p, IF r.op \in OpenOps THEN [r EXCEPT !.pc = "session"] ELSE Idle)
    BY <1>0, AcquiredFits DEF At
  <2>2. QED
    BY <1>0, <1>1, <2>1, MoveStep DEF Acquired
<1>2. ASSUME NEW i \in Held, req' = [req EXCEPT ![p].pc = "refresh", ![p].row = i]
      PROVE  IInv'
  <2> DEFINE r == [req[p] EXCEPT !.pc = "refresh", !.row = i]
  <2>1. i \in LockIds /\ locks[i].status = "active"
    BY DEF Held, ActiveRows
  <2>2. r \in Request
    BY <2>1, MoverFacts DEF Request, Points
  <2>3. InPlace(r)
    BY <1>0, <2>1, MoverFacts DEF InPlace, Minter, Request
  <2>4. Fits(p, r)
    BY <1>0, <2>1, <2>2, <2>3, MoverFacts
    DEF Fits, Minter, Request, At
  <2>5. req' = [req EXCEPT ![p] = r]
    BY <1>2
  <2>6. QED
    BY <1>0, <2>4, <2>5, MoveStep
<1>3. ASSUME NEW t \in Tokens, NewToken(t),
             req' = [req EXCEPT ![p].pc = "insert", ![p].token = t]
      PROVE  IInv'
  <2> DEFINE r == [req[p] EXCEPT !.pc = "insert", !.token = t]
  <2>1. r \in Request
    BY MoverFacts DEF Request, Points
  <2>2. InPlace(r)
    BY <1>0, NilAssumption, MoverFacts DEF InPlace, Minter, Request
  <2>3. Fits(p, r)
    BY <1>3, <2>1, <2>2, MoverFacts DEF Fits, Minter, Request
  <2>4. req' = [req EXCEPT ![p] = r]
    BY <1>3
  <2>5. QED
    BY <1>0, <2>3, <2>4, MoveStep
<1>4. ASSUME req[p].token # EmptyToken, Goes(p, "insert")
      PROVE  IInv'
  <2> DEFINE r == [req[p] EXCEPT !.pc = "insert"]
  <2>1. r \in Request
    BY MoverFacts DEF Request, Points
  <2>2. req[p].token \in Tokens
    BY <1>0, <1>4, MoverFacts DEF InPlace, Request
  <2>3. InPlace(r)
    BY <1>0, <2>2, MoverFacts DEF InPlace, Minter, Request
  <2>4. Fits(p, r)
    BY <1>0, <2>1, <2>3, MoverFacts DEF Fits, Minter, Request, At
  <2>5. req' = [req EXCEPT ![p] = r]
    BY <1>4 DEF Goes
  <2>6. QED
    BY <1>0, <2>4, <2>5, MoveStep
<1>5. QED
  BY <1>1, <1>2, <1>3, <1>4 DEF ReadForAcquire

(* acquire after it lost to the unique index. *)
LEMMA ReadAfterConflictStep ==
  ASSUME IInv, NEW p \in Procs, ReadAfterConflict(p)
  PROVE  IInv'
<1>0. /\ req[p].op \in AcquireOps /\ At(p, "read")
      /\ UNCHANGED <<locks, sessions, granted, written>>
  BY MoverFacts DEF ReadAfterConflict, Reading, InPlace
<1>1. CASE Ends(p)
  BY <1>0, <1>1, EndFits, MoveStep DEF Ends
<1>2. ASSUME NEW i \in Held,
             Acquired(p, [req[p] EXCEPT !.refused = (locks[i].by # req[p].user)])
      PROVE  IInv'
  <2> DEFINE b == (locks[i].by # req[p].user)
             r == [req[p] EXCEPT !.refused = b]
  <2>1. b \in BOOLEAN
    OBVIOUS
  <2>2. Fits(p, IF r.op \in OpenOps THEN [r EXCEPT !.pc = "session"] ELSE Idle)
    <3> HIDE DEF b
    <3> QED BY <1>0, <2>1, AcquiredFits DEF At
  <2>3. QED
    BY <1>0, <1>2, <2>2, MoveStep DEF Acquired
<1>3. QED
  BY <1>1, <1>2 DEF ReadAfterConflict

(* The other looks: renew, release, save, force, report. *)
LEMMA ReadForOtherStep ==
  ASSUME IInv, NEW p \in Procs,
         \/ ReadForRefresh(p) \/ ReadForRelease(p) \/ ReadForSave(p)
         \/ ReadForForce(p) \/ ReadForStatus(p)
  PROVE  IInv'
<1>0. /\ At(p, "read") /\ TypeOK
      /\ UNCHANGED <<locks, sessions, granted, written>>
  BY DEF ReadForRefresh, ReadForRelease, ReadForSave, ReadForForce, ReadForStatus, Reading, IInv
<1>1. CASE Ends(p)
  BY <1>0, <1>1, EndFits, MoveStep DEF Ends
<1>2. ASSUME NEW i \in LockIds, locks[i].status = "active",
             req' = [req EXCEPT ![p] = [Idle EXCEPT !.op = "lockRefresh",
                                                    !.row = i, !.pc = "refresh"]]
      PROVE  IInv'
  <2> DEFINE r == [Idle EXCEPT !.op = "lockRefresh", !.row = i, !.pc = "refresh"]
  <2>1. r \in Request
    BY IdleType DEF Request, Ops, Points
  <2>2. Fits(p, r)
    BY <1>2, <2>1, NilAssumption
    DEF Fits, InPlace, Minter, Idle, OpenOps, AcquireOps, SessionOps, CloseOps, SaveOps
  <2>3. QED
    BY <1>0, <1>2, <2>2, MoveStep
<1>3. ASSUME NEW i \in LockIds, locks[i].status = "active", locks[i].by = req[p].user,
             req' = [req EXCEPT ![p].pc = "release", ![p].row = i, ![p].token = None],
             req[p].for = "release", req[p].op \notin AcquireOps
      PROVE  IInv'
  <2> DEFINE r == [req[p] EXCEPT !.pc = "release", !.row = i, !.token = None]
  <2>1. r \in Request
    BY MoverFacts DEF Request, Points
  <2>2. InPlace(r)
    BY <1>3, NilAssumption, MoverFacts DEF InPlace, Minter, Request
  <2>3. Fits(p, r)
    BY <1>3, <2>1, <2>2, NilAssumption, MoverFacts DEF Fits, Minter, Request
  <2>4. req' = [req EXCEPT ![p] = r]
    BY <1>3
  <2>5. QED
    BY <1>0, <2>3, <2>4, MoveStep
<1>4. ASSUME NEW i \in LockIds, locks[i].token \in granted, HoldsLock(req[p].sid, i),
             req[p].for = "save",
             Goes(p, IF req[p].op = "textCompleteSave" THEN "mark" ELSE "put")
      PROVE  IInv'
  <2> DEFINE point == IF req[p].op = "textCompleteSave" THEN "mark" ELSE "put"
             r == [req[p] EXCEPT !.pc = point]
  <2>0. req[p].op \in SaveOps
    BY <1>4, MoverFacts DEF InPlace
  <2>1. r \in Request
    BY MoverFacts DEF Request, Points
  <2>2. /\ r.pc \in {"mark", "put"} /\ r.op = req[p].op /\ r.sid = req[p].sid
        /\ r.for = "save" /\ r.user = req[p].user /\ r.token = req[p].token
    BY <1>4, MoverFacts DEF Request
  <2>3. InPlace(r)
    BY <2>0, <2>1, <2>2, MoverFacts DEF InPlace, Minter, SessionOps
  <2>4. Fits(p, r)
    BY <1>4, <2>0, <2>1, <2>2, <2>3, MoverFacts
    DEF Fits, Minter, HoldsLock, SessionOps, AcquireOps, OpenOps, SaveOps
  <2>5. QED
    BY <1>0, <1>4, <2>4, MoveStep DEF Goes
<1>5. ASSUME NEW i \in LockIds \cup {None}, Reads(i), req[p].for = "force",
             NEW point \in {"closeAll", "force"}, point = "force" => i # None,
             req' = [req EXCEPT ![p].pc = point, ![p].row = i]
      PROVE  IInv'
  <2> DEFINE r == [req[p] EXCEPT !.pc = point, !.row = i]
  <2>1. r \in Request
    BY MoverFacts DEF Request, Points
  <2>2. /\ r.pc = point /\ r.row = i /\ r.op = "forceUnlock" /\ r.for = "force"
    BY <1>5, MoverFacts DEF Request, InPlace
  <2>3. i # None => i \in LockIds /\ locks[i].status # "unused"
    BY <1>5, ReadFacts
  <2>4. Fits(p, r)
    BY <1>5, <2>1, <2>2, <2>3
    DEF Fits, InPlace, Minter, OpenOps, AcquireOps, SessionOps, CloseOps, SaveOps
  <2>5. req' = [req EXCEPT ![p] = r]
    BY <1>5
  <2>6. QED
    BY <1>0, <2>4, <2>5, MoveStep
<1>6. CASE ReadForRefresh(p)
  BY <1>1, <1>2, <1>6, ReadFacts DEF ReadForRefresh
<1>7. CASE ReadForRelease(p)
  <2>1. ASSUME NEW ok, Released(p, ok)
        PROVE  IInv'
    BY <1>0, <2>1, ReleasedStep, TablesUnchanged
  <2>2. req[p].for = "release" /\ req[p].op \notin AcquireOps
    BY <1>7, MoverFacts DEF ReadForRelease, Reading, InPlace
  <2>3. PICK i \in LockIds \cup {None} :
           /\ Reads(i)
           /\ IF i # None /\ locks[i].by = req[p].user
                         /\ req[p].token \in {None, locks[i].token}
                THEN req' = [req EXCEPT ![p].pc = "release", ![p].row = i,
                                        ![p].token = None]
                ELSE Released(p, i = None)
    BY <1>7 DEF ReadForRelease
  <2>4. QED
    BY <1>3, <2>1, <2>2, <2>3, ReadFacts
<1>8. CASE ReadForSave(p)
  BY <1>1, <1>4, <1>8, ReadFacts DEF ReadForSave, Reading
<1>9. CASE ReadForForce(p)
  <2>1. req[p].for = "force"
    BY <1>9 DEF ReadForForce, Reading
  <2>2. PICK i \in LockIds \cup {None} :
           /\ Reads(i)
           /\ req' = [req EXCEPT ![p].pc = IF i = None THEN "closeAll" ELSE "force",
                                  ![p].row = i]
    BY <1>9 DEF ReadForForce
  <2>3. CASE i = None
    BY <1>5, <2>1, <2>2, <2>3
  <2>4. CASE i # None
    BY <1>5, <2>1, <2>2, <2>4
  <2>5. QED
    BY <2>3, <2>4
<1>10. CASE ReadForStatus(p)
  BY <1>1, <1>10 DEF ReadForStatus
<1>11. QED
  BY <1>6, <1>7, <1>8, <1>9, <1>10

-----------------------------------------------------------------------------
(* Statements that write file_locks *)

(* Moving on to a point that asks for nothing. *)
LEMMA GoesFits ==
  ASSUME IInv, NEW p \in Procs, NEW point \in {"read", "closeAll"}, ~At(p, "session")
  PROVE  Fits(p, [req[p] EXCEPT !.pc = point])
<1> DEFINE r == [req[p] EXCEPT !.pc = point]
<1>1. r \in Request
  BY MoverFacts DEF Request, Points
<1>2. /\ r.pc = point /\ r.for = req[p].for /\ r.op = req[p].op /\ r.user = req[p].user
      /\ r.token = req[p].token /\ r.sid = req[p].sid
  BY MoverFacts DEF Request
<1>3. InPlace(r)
  BY <1>2, MoverFacts DEF InPlace, Minter
<1>4. QED
  BY <1>1, <1>2, <1>3, MoverFacts DEF Fits, Minter

(* What acquire leaves behind when it stores no token. *)
LEMMA AcquiredStep ==
  ASSUME IInv, NEW p \in Procs, ~At(p, "session"), Acquired(p, req[p]),
         LocksShrink, SessionsKeep, WritesOf(p), granted' = granted
  PROVE  IInv'
<1>1. CASE req[p].op \notin OpenOps
  BY <1>1, EndFits, QuietStep DEF Acquired
<1>2. CASE req[p].op \in OpenOps
  <2> DEFINE r == [req[p] EXCEPT !.refused = req[p].refused]
  <2>1. r = req[p] /\ req[p].refused \in BOOLEAN
    BY MoverFacts DEF Request
  <2>2. Fits(p, IF req[p].op \in OpenOps THEN [req[p] EXCEPT !.pc = "session"] ELSE Idle)
    BY <1>2, <2>1, AcquiredFits DEF AcquireOps
  <2>3. QED
    BY <2>2, QuietStep DEF Acquired
<1>3. QED
  BY <1>1, <1>2

(* insertLock and refreshLock: a fresh token goes into a row that is, or    *)
(* becomes, the only active one if it is active at all.                     *)
LEMMA StoreStep ==
  ASSUME IInv, NEW p \in Procs, Minter(req[p]), ~At(p, "session"),
         NEW i \in LockIds, NEW row \in LockRow,
         locks' = [locks EXCEPT ![i] = row],
         row.status # "unused", row.token = req[p].token,
         locks[i].status # "unused" => row.by = locks[i].by,
         row.status = "active" => /\ row.by \in Users
                                  /\ granted' = granted \cup {req[p].token}
                                  /\ \A j \in ActiveRows : j = i,
         row.status # "active" => granted' = granted,
         Acquired(p, req[p]), UNCHANGED <<sessions, written>>
  PROVE  IInv'
<1> USE DEF IInv
<1>1. PICK r : /\ r \in Request /\ InPlace(r) /\ req' = [req EXCEPT ![p] = r]
               /\ \/ Minter(r) /\ r.token = req[p].token /\ r.pc = "session"
                  \/ r = Idle
  <2>1. CASE req[p].op \in OpenOps
    <3>1. [req[p] EXCEPT !.pc = "session"] \in Request
      BY MoverFacts DEF Request, Points
    <3>2. InPlace([req[p] EXCEPT !.pc = "session"])
      BY <2>1, MoverFacts DEF InPlace, Minter, Request
    <3>3. LET r == [req[p] EXCEPT !.pc = "session"]
          IN  Minter(r) /\ r.token = req[p].token /\ r.pc = "session"
      BY MoverFacts DEF Minter, Request
    <3>4. QED
      BY <2>1, <3>1, <3>2, <3>3 DEF Acquired
  <2>2. CASE req[p].op \notin OpenOps
    BY <2>2, IdleType, EndFits DEF Acquired, Fits
  <2>3. QED
    BY <2>1, <2>2
<1>2. /\ req' \in [Procs -> Request] /\ req'[p] = r
      /\ \A q \in Procs : q # p => req'[q] = req[q]
  BY <1>1 DEF TypeOK
<1>3. /\ locks' \in [LockIds -> LockRow] /\ locks'[i] = row
      /\ \A j \in LockIds : j # i => locks'[j] = locks[j]
  BY DEF TypeOK
<1>4. /\ granted \subseteq granted' /\ granted' \subseteq granted \cup {req[p].token}
      /\ req[p].token \in Tokens
  BY DEF Minter
<1>5. ~Minter(Idle) /\ Idle.op \notin SessionOps /\ Idle.pc = "idle" /\ AcquireOps \cap SessionOps = {}
  BY DEF Minter, Idle, AcquireOps, OpenOps, SessionOps, CloseOps, SaveOps
<1>6. TypeOK'
  BY <1>2, <1>3, <1>4 DEF TypeOK
<1>7. UniqueActive' /\ ActiveIsGranted'
  BY <1>3, <1>4 DEF UniqueActive, ActiveIsGranted, ActiveRows
<1>8. MintedArePrivate'
  <2>1. ASSUME NEW a \in Procs, NEW b \in Procs, Minter(req'[a]), Minter(req'[b]),
               req'[a].token = req'[b].token
        PROVE  a = b
    BY <2>1, <1>1, <1>2, <1>5 DEF MintedArePrivate
  <2>2. ASSUME NEW a \in Procs, NEW s \in SessionIds, Minter(req'[a])
        PROVE  sessions'[s].token # req'[a].token
    BY <2>2, <1>1, <1>2, <1>5 DEF MintedArePrivate
  <2>3. QED
    BY <2>1, <2>2 DEF MintedArePrivate, Minter
<1>9. MintedAreUnspent'
  <2>1. ASSUME NEW a \in Procs, Minter(req'[a]), req'[a].pc # "session"
        PROVE  req'[a].token \notin granted'
    BY <2>1, <1>1, <1>2, <1>4, <1>5 DEF MintedAreUnspent, MintedArePrivate, At
  <2>2. QED
    BY <2>1 DEF MintedAreUnspent, Minter, At
<1>10. SessionTokensDiffer'
  BY DEF SessionTokensDiffer
<1>11. Control'
  BY <1>1, <1>2 DEF Control, InPlace, Minter
<1>12. RowsWereRead'
  BY <1>1, <1>2, <1>3, <1>5 DEF RowsWereRead, Control, InPlace, At
<1>13. SessionsExist'
  BY <1>1, <1>2, <1>5 DEF SessionsExist, Minter
<1>14. SavesAreGranted'
  BY <1>1, <1>2, <1>4, <1>5 DEF SavesAreGranted, At
<1>15. QED
  BY <1>6, <1>7, <1>8, <1>9, <1>10, <1>11, <1>12, <1>13, <1>14

(* Every statement that writes file_locks preserves the invariant. *)
LEMMA LockStepKeeps ==
  ASSUME IInv, NEW p \in Procs, LockStep(p)
  PROVE  IInv'
<1>0. TypeOK /\ req[p] \in Request /\ InPlace(req[p])
  BY MoverFacts DEF IInv
<1>1. ASSUME UNCHANGED <<sessions, written>>
      PROVE  SessionsKeep /\ WritesOf(p)
  BY <1>0, <1>1 DEF SessionsKeep, WritesOf, TypeOK
<1>2. CASE ExpireLocks(p)
  <2>1. LocksShrink
    BY <1>0, <1>2 DEF ExpireLocks, LocksShrink, TypeOK, LockRow, ActiveRows
  <2>2. Fits(p, [req[p] EXCEPT !.pc = "read"])
    BY <1>2, GoesFits DEF ExpireLocks, At
  <2>3. QED
    BY <1>1, <1>2, <2>1, <2>2, QuietStep DEF ExpireLocks, Goes
<1>3. CASE InsertLock(p)
  <2>1. Minter(req[p]) /\ ~At(p, "session") /\ At(p, "insert")
    BY <1>0, <1>3 DEF InsertLock, InPlace, At
  <2>2. CASE ActiveRows = {}
    <3>1. PICK i \in LockIds :
             /\ locks[i].status = "unused"
             /\ locks' = [locks EXCEPT ![i] =
                  [status |-> "active", by |-> req[p].user,
                   token |-> req[p].token, due |-> FALSE]]
             /\ granted' = granted \cup {req[p].token}
             /\ Acquired(p, req[p])
      BY <1>3, <2>2 DEF InsertLock
    <3> DEFINE row == [status |-> "active", by |-> req[p].user,
                       token |-> req[p].token, due |-> FALSE]
    <3>2. req[p].user \in Users /\ req[p].token \in Tokens
      BY <1>0, <2>1 DEF Minter, InPlace
    <3>3. row \in LockRow /\ row.status = "active" /\ row.by \in Users /\ row.token = req[p].token
      BY <3>2 DEF LockRow
    <3>4. locks' = [locks EXCEPT ![i] = row] /\ UNCHANGED <<sessions, written>>
      BY <1>3, <3>1 DEF InsertLock
    <3> HIDE DEF row
    <3>5. QED
      BY <2>1, <2>2, <3>1, <3>3, <3>4, StoreStep
  <2>3. CASE ActiveRows # {}
    <3> DEFINE r == Asks(req[p], "conflict")
    <3>1. r \in Request
      BY <1>0, AsksType DEF Purposes
    <3>2. /\ r.pc = "expire" /\ r.for = "conflict" /\ r.op = req[p].op
          /\ r.user = req[p].user /\ r.token = req[p].token /\ r.sid = req[p].sid
      BY <1>0 DEF Asks, Request
    <3>3. Fits(p, r)
      BY <1>0, <2>1, <3>1, <3>2
      DEF Fits, InPlace, Minter, AcquireOps, OpenOps, SessionOps, CloseOps, SaveOps
    <3>4. req' = [req EXCEPT ![p] = r] /\ UNCHANGED <<locks, sessions, granted, written>>
      BY <1>3, <2>3 DEF InsertLock
    <3>5. QED
      BY <3>3, <3>4, MoveStep
  <2>4. QED
    BY <2>2, <2>3
<1>4. CASE RefreshLock(p)
  <2> DEFINE i == req[p].row
  <2>1. /\ i \in LockIds /\ locks[i] \in LockRow /\ locks[i].status # "unused"
        /\ ~At(p, "session") /\ At(p, "refresh")
    BY <1>0, <1>4 DEF RefreshLock, InPlace, At, TypeOK, RowsWereRead, IInv
  <2>2. CASE req[p].token \in Tokens
    <3> DEFINE row == [locks[i] EXCEPT !.due = FALSE, !.token = req[p].token]
    <3>1. /\ row \in LockRow /\ row.status = locks[i].status /\ row.by = locks[i].by
          /\ row.token = req[p].token
      BY <2>1, <2>2 DEF LockRow
    <3>2. locks' = [locks EXCEPT ![i] = row] /\ UNCHANGED <<sessions, written>>
          /\ Acquired(p, req[p])
      BY <1>4, <2>2, <1>0 DEF RefreshLock, TypeOK
    <3>3. granted' = IF i \in ActiveRows THEN granted \cup {req[p].token} ELSE granted
      BY <1>4, <2>2 DEF RefreshLock
    <3>4. /\ i \in ActiveRows <=> row.status = "active"
          /\ i \in ActiveRows => row.by \in Users /\ \A j \in ActiveRows : j = i
      BY <2>1, <3>1 DEF ActiveRows, IInv, UniqueActive, ActiveIsGranted
    <3>5. Minter(req[p])
      BY <1>0, <2>1, <2>2 DEF InPlace, At
    <3> HIDE DEF row, i
    <3>6. QED
      BY <2>1, <3>1, <3>2, <3>3, <3>4, <3>5, StoreStep
  <2>3. CASE req[p].token \notin Tokens
    <3>1. LocksShrink /\ granted' = granted
      BY <1>0, <1>4, <2>1, <2>3 DEF RefreshLock, LocksShrink, TypeOK, LockRow
    <3>2. QED
      BY <1>1, <1>4, <2>1, <3>1, AcquiredStep DEF RefreshLock
  <2>4. QED
    BY <2>2, <2>3
<1>5. CASE ReleaseLock(p)
  <2>1. req[p].row \in LockIds /\ locks[req[p].row].status # "unused"
    BY <1>0, <1>5 DEF ReleaseLock, InPlace, At, RowsWereRead, IInv
  <2>2. LocksShrink
    BY <1>0, <1>5, <2>1 DEF ReleaseLock, LocksShrink, TypeOK, LockRow
  <2>3. QED
    BY <1>1, <1>5, <2>2, ReleasedStep DEF ReleaseLock
<1>6. CASE ForceReleaseLock(p)
  <2>1. req[p].row \in LockIds /\ locks[req[p].row].status # "unused"
    BY <1>0, <1>6 DEF ForceReleaseLock, InPlace, At, RowsWereRead, IInv
  <2>2. LocksShrink
    BY <1>0, <1>6, <2>1 DEF ForceReleaseLock, LocksShrink, TypeOK, LockRow
  <2>3. Fits(p, [req[p] EXCEPT !.pc = "closeAll"])
    BY <1>6, GoesFits DEF ForceReleaseLock, At
  <2>4. QED
    BY <1>1, <1>6, <2>2, <2>3, QuietStep DEF ForceReleaseLock, Goes
<1>7. QED
  BY <1>2, <1>3, <1>4, <1>5, <1>6 DEF LockStep

-----------------------------------------------------------------------------
(* Statements that write edit_sessions, and the storage *)

(* InsertSession stores the token of its request in a session nobody has.   *)
LEMMA InsertSessionStep ==
  ASSUME IInv, NEW p \in Procs, InsertSession(p)
  PROVE  IInv'
<1> USE DEF IInv
<1>0. /\ At(p, "session") /\ Ends(p) /\ UNCHANGED <<locks, granted, written>>
      /\ req[p] \in Request /\ InPlace(req[p])
  BY MoverFacts DEF InsertSession
<1>1. PICK s \in SessionIds :
         /\ sessions[s].status = "unused"
         /\ sessions' = [sessions EXCEPT ![s] =
              [status |-> "active", user |-> req[p].user,
               editor |-> IF req[p].op = "textOpen" THEN "monaco" ELSE "onlyoffice",
               mode |-> req[p].mode, token |-> req[p].token,
               due |-> FALSE, saved |-> FALSE]]
  BY DEF InsertSession
<1> DEFINE row == [status |-> "active", user |-> req[p].user,
                   editor |-> IF req[p].op = "textOpen" THEN "monaco" ELSE "onlyoffice",
                   mode |-> req[p].mode, token |-> req[p].token,
                   due |-> FALSE, saved |-> FALSE]
<1>2. row \in SessionRow /\ row.status = "active" /\ row.token = req[p].token
  <2>1. /\ req[p].user \in Users \cup {None} /\ req[p].mode \in {"edit", "view", "none"}
        /\ req[p].token \in Tokens \cup {EmptyToken, None}
    BY <1>0 DEF Request
  <2>2. QED
    BY <2>1 DEF SessionRow
<1>3. sessions' = [sessions EXCEPT ![s] = row]
  BY <1>1
<1> HIDE DEF row
<1>4. /\ sessions' \in [SessionIds -> SessionRow] /\ sessions'[s] = row
      /\ \A t \in SessionIds : t # s => sessions'[t] = sessions[t]
  BY <1>2, <1>3 DEF TypeOK
<1>5. /\ req' \in [Procs -> Request] /\ req'[p] = Idle
      /\ \A q \in Procs : q # p => req'[q] = req[q]
  BY <1>0, IdleType DEF Ends, TypeOK
<1>6. /\ ~Minter(Idle) /\ Idle.op \notin SessionOps /\ Idle.pc = "idle"
      /\ req[p].token \in Tokens => Minter(req[p])
  BY <1>0 DEF Minter, Idle, AcquireOps, OpenOps, SessionOps, CloseOps, SaveOps, InPlace, At
<1>7. TypeOK'
  BY <1>0, <1>4, <1>5 DEF TypeOK
<1>8. UniqueActive' /\ ActiveIsGranted'
  BY <1>0 DEF UniqueActive, ActiveIsGranted, ActiveRows
<1>9. MintedArePrivate'
  <2>1. ASSUME NEW a \in Procs, NEW b \in Procs, Minter(req'[a]), Minter(req'[b]),
               req'[a].token = req'[b].token
        PROVE  a = b
    BY <2>1, <1>5, <1>6 DEF MintedArePrivate
  <2>2. ASSUME NEW a \in Procs, NEW t \in SessionIds, Minter(req'[a])
        PROVE  sessions'[t].token # req'[a].token
    <3>1. a # p /\ Minter(req[a]) /\ req'[a] = req[a] /\ req[a].token \in Tokens
      BY <2>2, <1>5, <1>6 DEF Minter
    <3>2. CASE t # s
      BY <3>1, <3>2, <1>4 DEF MintedArePrivate
    <3>3. CASE t = s
      BY <3>1, <3>3, <1>2, <1>4, <1>6 DEF MintedArePrivate
    <3>4. QED
      BY <3>2, <3>3
  <2>3. QED
    BY <2>1, <2>2 DEF MintedArePrivate, Minter
<1>10. MintedAreUnspent'
  BY <1>0, <1>5, <1>6 DEF MintedAreUnspent, At, Minter
<1>11. SessionTokensDiffer'
  BY <1>2, <1>4, <1>6 DEF SessionTokensDiffer, MintedArePrivate
<1>12. Control' /\ RowsWereRead'
  BY <1>0, <1>5, EndFits DEF Control, Fits, RowsWereRead, InPlace, Minter, Idle, At
<1>13. SessionsExist'
  BY <1>2, <1>4, <1>5, <1>6 DEF SessionsExist, Control, InPlace
<1>14. SavesAreGranted'
  <2> SUFFICES ASSUME "onlyoffice" \notin Editors
               PROVE  /\ \A q \in Procs : At(q, "put")' =>
                           sessions'[req'[q].sid].token \in granted'
                      /\ \A t \in written' : /\ sessions'[t].status # "unused"
                                             /\ sessions'[t].token \in granted'
    BY DEF SavesAreGranted
  <2>1. ASSUME NEW q \in Procs, req'[q].pc = "put"
        PROVE  sessions'[req'[q].sid].token \in granted'
    <3>1. /\ req'[q] = req[q] /\ At(q, "put")
      BY <2>1, <1>5, <1>6 DEF At
    <3>2. req[q].sid \in SessionIds /\ sessions[req[q].sid].status # "unused"
      BY <3>1, MoverFacts DEF At, InPlace
    <3>3. QED
      BY <3>1, <3>2, <1>0, <1>1, <1>4 DEF SavesAreGranted
  <2>2. ASSUME NEW t \in written'
        PROVE  sessions'[t].status # "unused" /\ sessions'[t].token \in granted'
    BY <2>2, <1>0, <1>1, <1>4 DEF SavesAreGranted, TypeOK
  <2>3. QED
    BY <2>1, <2>2 DEF At
<1>15. QED
  BY <1>7, <1>8, <1>9, <1>10, <1>11, <1>12, <1>13, <1>14

(* Every statement that writes edit_sessions, and every write of the object,*)
(* preserves the invariant.                                                 *)
LEMMA SessionStepKeeps ==
  ASSUME IInv, NEW p \in Procs, SessionStep(p)
  PROVE  IInv'
<1>0. TypeOK /\ req[p] \in Request /\ InPlace(req[p])
  BY MoverFacts DEF IInv
<1>1. ASSUME UNCHANGED locks
      PROVE  LocksShrink
  BY <1>0, <1>1 DEF LocksShrink, TypeOK
<1>2. ASSUME UNCHANGED written
      PROVE  WritesOf(p)
  BY <1>0, <1>2 DEF WritesOf, TypeOK
<1>3. ASSUME NEW S, CloseSessions(S)
      PROVE  SessionsKeep
  BY <1>0, <1>3 DEF CloseSessions, SessionsKeep, TypeOK, SessionRow
<1>4. CASE ExpireSessions(p)
  <2> DEFINE r == Asks(req[p], "open")
  <2>1. r \in Request
    BY <1>0, AsksType DEF Purposes
  <2>2. Fits(p, r)
    BY <1>0, <1>4, <2>1, MoverFacts
    DEF ExpireSessions, Fits, InPlace, Minter, Asks, At, Request, AcquireOps
  <2>3. req' = [req EXCEPT ![p] = r]
    BY <1>4 DEF ExpireSessions
  <2>4. QED
    BY <1>1, <1>2, <1>3, <1>4, <2>2, <2>3, QuietStep DEF ExpireSessions
<1>5. CASE CloseSessionsForObject(p)
  BY <1>1, <1>2, <1>3, <1>5, EndFits, QuietStep DEF CloseSessionsForObject, Ends
<1>6. CASE InsertSession(p)
  BY <1>6, InsertSessionStep
<1>7. ASSUME req[p].op \in SessionOps, Ends(p), UNCHANGED <<locks, granted, written>>,
             NEW row, \/ row = [sessions[req[p].sid] EXCEPT !.status = "closed"]
                      \/ row = [sessions[req[p].sid] EXCEPT !.saved = TRUE],
             sessions' = [sessions EXCEPT ![req[p].sid] = row]
      PROVE  IInv'
  <2>1. /\ req[p].sid \in SessionIds /\ sessions[req[p].sid].status # "unused"
        /\ sessions[req[p].sid] \in SessionRow
    BY <1>0, <1>7, MoverFacts DEF TypeOK
  <2>2. /\ row \in SessionRow /\ row.token = sessions[req[p].sid].token
        /\ row.status # "unused"
    <3>1. CASE row = [sessions[req[p].sid] EXCEPT !.status = "closed"]
      BY <2>1, <3>1 DEF SessionRow
    <3>2. CASE row = [sessions[req[p].sid] EXCEPT !.saved = TRUE]
      BY <2>1, <3>2 DEF SessionRow
    <3>3. QED
      BY <1>7, <3>1, <3>2
  <2>3. SessionsKeep
    BY <1>0, <1>7, <2>1, <2>2 DEF SessionsKeep, TypeOK
  <2>4. QED
    BY <1>1, <1>2, <1>7, <2>3, EndFits, QuietStep DEF Ends
<1>8. CASE CloseSession(p)
  BY <1>0, <1>7, <1>8 DEF CloseSession, At, InPlace
<1>9. CASE MarkSaved(p)
  BY <1>0, <1>7, <1>9 DEF MarkSaved, At, InPlace
<1>10. CASE PutObject(p)
  <2>1. req[p].op \in SessionOps /\ req[p].sid \in SessionIds /\ At(p, "put")
    BY <1>0, <1>10 DEF PutObject, At, InPlace
  <2>2. SessionsKeep /\ LocksShrink /\ WritesOf(p)
    BY <1>0, <1>10, <2>1 DEF PutObject, SessionsKeep, LocksShrink, WritesOf, TypeOK
  <2>3. CASE Ends(p)
    BY <1>10, <2>2, <2>3, EndFits, QuietStep DEF PutObject, Ends
  <2>4. CASE Goes(p, "mark")
    <3> DEFINE r == [req[p] EXCEPT !.pc = "mark"]
    <3>1. r \in Request
      BY <1>0 DEF Request, Points
    <3>2. /\ r.pc = "mark" /\ r.for = req[p].for /\ r.op = req[p].op
          /\ r.user = req[p].user /\ r.token = req[p].token /\ r.sid = req[p].sid
      BY <1>0 DEF Request
    <3>3. Fits(p, r)
      BY <1>0, <2>1, <3>1, <3>2, MoverFacts DEF Fits, InPlace, Minter, At
    <3>4. QED
      BY <1>10, <2>2, <2>4, <3>3, QuietStep DEF PutObject, Goes
  <2>5. QED
    BY <1>10, <2>3, <2>4 DEF PutObject
<1>11. QED
  BY <1>4, <1>5, <1>6, <1>8, <1>9, <1>10 DEF SessionStep

(* So does the passing of time. *)
LEMMA EnvironmentKeeps ==
  ASSUME IInv, Environment
  PROVE  IInv'
<1>1. ASSUME NEW i \in LockIds, LockFallsDue(i)
      PROVE  IInv'
  <2>1. LocksShrink /\ SessionsKeep
    BY <1>1 DEF LockFallsDue, LocksShrink, SessionsKeep, IInv, TypeOK, LockRow
  <2>2. QED
    BY <1>1, <2>1, IdleStep DEF LockFallsDue
<1>2. ASSUME NEW s \in SessionIds, SessionFallsDue(s)
      PROVE  IInv'
  <2>1. LocksShrink /\ SessionsKeep
    BY <1>2 DEF SessionFallsDue, LocksShrink, SessionsKeep, IInv, TypeOK, SessionRow
  <2>2. QED
    BY <1>2, <2>1, IdleStep DEF SessionFallsDue
<1>3. QED
  BY <1>1, <1>2 DEF Environment

-----------------------------------------------------------------------------
(* The theorems *)

(* No row is used and no request in flight: the invariant holds. *)
LEMMA InitKeeps == Init => IInv
<1> SUFFICES ASSUME Init PROVE IInv
  OBVIOUS
<1> USE NilAssumption, IdleType
<1>1. NoLock \in LockRow /\ NoLock.status = "unused"
  BY DEF NoLock, LockRow
<1>2. NoSession \in SessionRow /\ NoSession.token \notin Tokens
  BY DEF NoSession, SessionRow
<1>3. TypeOK
  BY <1>1, <1>2 DEF Init, TypeOK
<1>4. ActiveRows = {} /\ written = {}
  BY <1>1 DEF Init, ActiveRows
<1>5. \A p \in Procs : req[p] = Idle
  BY DEF Init
<1>6. InPlace(Idle) /\ ~Minter(Idle) /\ Idle.pc = "idle" /\ Idle.op = "none"
  BY DEF Idle, InPlace, Minter, AcquireOps, OpenOps, SessionOps, CloseOps, SaveOps
<1>7. UniqueActive /\ ActiveIsGranted /\ SavesAreGranted
  BY <1>4, <1>5, <1>6 DEF UniqueActive, ActiveIsGranted, SavesAreGranted, At
<1>8. MintedArePrivate /\ MintedAreUnspent
  BY <1>5, <1>6 DEF MintedArePrivate, MintedAreUnspent
<1>9. SessionTokensDiffer
  BY <1>2 DEF SessionTokensDiffer, Init
<1>10. Control /\ RowsWereRead /\ SessionsExist
  BY <1>5, <1>6 DEF Control, RowsWereRead, SessionsExist, At, SessionOps, CloseOps, SaveOps
<1>11. QED
  BY <1>3, <1>7, <1>8, <1>9, <1>10 DEF IInv

(* Every step preserves the invariant. *)
LEMMA NextKeeps == IInv /\ [Next]_vars => IInv'
<1> SUFFICES ASSUME IInv, [Next]_vars PROVE IInv'
  OBVIOUS
<1>1. ASSUME NEW p \in Procs, ReadStep(p)
      PROVE  IInv'
  BY <1>1, ReadForOpenStep, ReadForAcquireStep, ReadAfterConflictStep, ReadForOtherStep
  DEF ReadStep
<1>2. ASSUME NEW p \in Procs, Begin(p) \/ Proceed(p) \/ Abort(p)
      PROVE  IInv'
  BY <1>1, <1>2, BeginStep, LockStepKeeps, SessionStepKeeps, AbortStep DEF Proceed
<1>3. CASE UNCHANGED vars
  <2>1. LocksShrink /\ SessionsKeep
    BY <1>3 DEF vars, LocksShrink, SessionsKeep, IInv, TypeOK
  <2>2. QED
    BY <1>3, <2>1, IdleStep DEF vars
<1>4. QED
  BY <1>2, <1>3, EnvironmentKeeps DEF Next

(* IInv holds in every state any number of requests can reach. *)
THEOREM Invariance == Spec => []IInv
BY InitKeeps, NextKeeps, PTL DEF Spec

(* Every variable keeps its type: no handler leaves a row in a status that  *)
(* another does not know, and every request refers to rows and users.       *)
THEOREM TypeCorrectness == Spec => []TypeOK
<1>1. IInv => TypeOK
  BY DEF IInv
<1>2. QED
  BY <1>1, Invariance, PTL

(* At any time at most one text session of the object can save: two that    *)
(* could would hold tokens equal to that of the one active lock, and no two *)
(* sessions ever hold the same token.                                       *)
THEOREM OneWriterAlways == Spec => []OneWriter
<1>1. IInv => OneWriter
  <2> SUFFICES ASSUME IInv, NEW s \in SessionIds, NEW t \in SessionIds, CanSave(s), CanSave(t)
               PROVE  s = t
    BY DEF OneWriter
  <2>1. PICK i \in Held : HoldsLock(s, i)
    BY DEF CanSave
  <2>2. PICK j \in Held : HoldsLock(t, j)
    BY DEF CanSave
  <2>3. i = j /\ locks[i].token \in Tokens
    BY <2>1, <2>2 DEF Held, ActiveRows, UniqueActive, ActiveIsGranted, IInv, TypeOK
  <2>4. QED
    BY <2>1, <2>2, <2>3 DEF HoldsLock, SessionTokensDiffer, IInv
<1>2. QED
  BY <1>1, Invariance, PTL

(* Where no Office editor opens the object, it is overwritten only for      *)
(* sessions whose token was the token of an active lock.                    *)
THEOREM OnlyGrantedWriteAlways == Spec => []OnlyGrantedWrite
<1>1. IInv => OnlyGrantedWrite
  BY DEF IInv, SavesAreGranted, OnlyGrantedWrite
<1>2. QED
  BY <1>1, Invariance, PTL

-----------------------------------------------------------------------------
(* How a lock ends *)

(* The statement that ends an active row that is not due is the owner's     *)
(* release or a forced one.                                                 *)
LEMMA EndingStep ==
  ASSUME IInv, [Next]_vars, NEW i \in Held
  PROVE  /\ locks'[i].status = "released" =>
              \E p \in Procs : At(p, "release") /\ req[p].user = locks[i].by
                              /\ req'[p] # req[p]
         /\ locks'[i].status = "force_released" =>
              \E p \in Procs : req[p].op = "forceUnlock" /\ req'[p] # req[p]
<1>0. /\ TypeOK /\ RowsWereRead /\ i \in LockIds
      /\ locks[i].status = "active" /\ ~locks[i].due
  BY DEF IInv, Held, ActiveRows
<1> SUFFICES ASSUME locks'[i].status \in {"released", "force_released"}
             PROVE  \/ /\ locks'[i].status = "released"
                       /\ \E p \in Procs : At(p, "release") /\ req[p].user = locks[i].by
                                           /\ req'[p] # req[p]
                    \/ /\ locks'[i].status = "force_released"
                       /\ \E p \in Procs : req[p].op = "forceUnlock" /\ req'[p] # req[p]
  OBVIOUS
<1>1. ASSUME NEW p \in Procs, ReleaseLock(p)
      PROVE  /\ locks'[i].status = "released"
             /\ At(p, "release") /\ req[p].user = locks[i].by /\ req'[p] # req[p]
  <2>1. At(p, "release") /\ req[p].row = i /\ locks'[i].status = "released"
    BY <1>0, <1>1 DEF ReleaseLock, TypeOK, At
  <2>2. req[p].user = locks[i].by
    BY <1>0, <2>1 DEF RowsWereRead
  <2>3. req'[p].pc \in {"idle", "close"}
    <3>1. Idle.pc = "idle" /\ Closing(req[p]).pc = "close"
      BY DEF Idle, Closing
    <3>2. req'[p] = Idle \/ req'[p] = Closing(req[p])
      BY <1>0, <1>1 DEF ReleaseLock, Released, Ends, TypeOK
    <3>3. QED
      BY <3>1, <3>2
  <2>4. QED
    BY <2>1, <2>2, <2>3 DEF At
<1>2. ASSUME NEW p \in Procs, ForceReleaseLock(p)
      PROVE  /\ locks'[i].status = "force_released"
             /\ req[p].op = "forceUnlock" /\ req'[p] # req[p]
  <2>1. At(p, "force") /\ locks'[i].status = "force_released"
    BY <1>0, <1>2 DEF ForceReleaseLock, TypeOK, At
  <2>2. req[p].op = "forceUnlock"
    BY <2>1, MoverFacts DEF InPlace, At
  <2>3. req'[p].pc = "closeAll"
    BY <1>0, <1>2 DEF ForceReleaseLock, Goes, TypeOK, Request
  <2>4. QED
    BY <2>1, <2>2, <2>3 DEF At
<1>3. ASSUME NEW p \in Procs, ExpireLocks(p)
      PROVE  FALSE
  BY <1>0, <1>3 DEF ExpireLocks
<1>4. ASSUME NEW p \in Procs, InsertLock(p) \/ RefreshLock(p)
      PROVE  FALSE
  <2>1. CASE InsertLock(p)
    BY <1>0, <2>1 DEF InsertLock, ActiveRows
  <2>2. CASE RefreshLock(p)
    BY <1>0, <2>2 DEF RefreshLock, TypeOK, LockRow
  <2>3. QED
    BY <1>4, <2>1, <2>2
<1>5. ASSUME UNCHANGED locks
      PROVE  FALSE
  BY <1>0, <1>5
<1>6. ASSUME NEW p \in Procs, Begin(p)
      PROVE  UNCHANGED locks
  BY <1>6
  DEF Begin, LockStatus, LockAcquire, LockRefresh, LockRelease, TextOpen, OfficeOpen,
      TextSave, TextClose, OfficeCallbackSave, OfficeCallbackClosed, ForceUnlock
<1>7. ASSUME NEW p \in Procs, ReadStep(p)
      PROVE  UNCHANGED locks
  BY <1>7
  DEF ReadStep, ReadForOpen, ReadForAcquire, ReadAfterConflict, ReadForRefresh,
      ReadForRelease, ReadForSave, ReadForForce, ReadForStatus
<1>8. ASSUME NEW p \in Procs, SessionStep(p) \/ Abort(p)
      PROVE  UNCHANGED locks
  BY <1>8
  DEF SessionStep, ExpireSessions, CloseSessionsForObject, InsertSession, CloseSession,
      MarkSaved, PutObject, Abort
<1>9. ASSUME Environment
      PROVE  FALSE
  <2>1. ASSUME NEW j \in LockIds, LockFallsDue(j)
        PROVE  FALSE
    BY <1>0, <2>1 DEF LockFallsDue, TypeOK, LockRow
  <2>2. QED
    BY <1>5, <1>9, <2>1 DEF Environment, SessionFallsDue
<1>10. QED
  BY <1>1, <1>2, <1>3, <1>4, <1>5, <1>6, <1>7, <1>8, <1>9
  DEF Next, Proceed, LockStep, vars

(* However stale the id a release acts on, a lock that has not expired ends *)
(* only by its owner's release or by a forced unlock.                       *)
THEOREM OwnerEndsAlways == Spec => OwnerEnds
<1>1. IInv /\ [Next]_vars =>
        [\A i \in Held :
           /\ locks'[i].status = "released" =>
                \E p \in Procs : At(p, "release") /\ req[p].user = locks[i].by
                                /\ req'[p] # req[p]
           /\ locks'[i].status = "force_released" =>
                \E p \in Procs : req[p].op = "forceUnlock" /\ req'[p] # req[p]]_vars
  BY EndingStep
<1>2. QED
  BY <1>1, Invariance, PTL DEF Spec, OwnerEnds

-----------------------------------------------------------------------------
(* The lock implements a lease *)

(* What the lease sees of the table. *)
LEMMA HolderIs ==
  ASSUME UniqueActive
  PROVE  /\ ActiveRows = {} => Holder = None
         /\ \A i \in ActiveRows : Holder = [by |-> locks[i].by, token |-> locks[i].token]
BY DEF UniqueActive, Holder

(* The same of the table after a step. *)
LEMMA HolderWillBe ==
  ASSUME UniqueActive'
  PROVE  /\ ActiveRows' = {} => Holder' = None
         /\ \A i \in ActiveRows' : Holder' = [by |-> locks'[i].by, token |-> locks'[i].token]
BY DEF UniqueActive, Holder

(* A step that grants nothing ends the lease or leaves it alone.            *)
LEMMA ShrinkIsLease ==
  ASSUME IInv, IInv', LocksShrink, granted' = granted
  PROVE  [Lease!Next]_<<Holder, granted>>
<1>1. UniqueActive /\ UniqueActive'
  BY DEF IInv
<1>2. CASE ActiveRows' = {}
  <2>1. Holder' = None
    BY <1>1, <1>2, HolderWillBe
  <2>2. QED
    BY <2>1 DEF Lease!Next, Lease!End
<1>3. ASSUME NEW i \in ActiveRows'
      PROVE  Holder' = Holder
  <2>1. i \in ActiveRows /\ locks'[i].by = locks[i].by /\ locks'[i].token = locks[i].token
    BY <1>3 DEF ActiveRows, LocksShrink
  <2>2. QED
    BY <1>1, <1>3, <2>1, HolderIs, HolderWillBe
<1>4. QED
  BY <1>2, <1>3

(* Every step either stores a token in a row or grants nothing.             *)
LEMMA StepKinds ==
  ASSUME IInv, [Next]_vars
  PROVE  \/ LocksShrink /\ granted' = granted
         \/ \E p \in Procs : InsertLock(p) \/ RefreshLock(p)
<1>0. TypeOK /\ RowsWereRead /\ Control
  BY DEF IInv
<1>1. ASSUME UNCHANGED <<locks, granted>>
      PROVE  LocksShrink /\ granted' = granted
  BY <1>0, <1>1 DEF LocksShrink, TypeOK
<1>2. ASSUME NEW p \in Procs, Begin(p)
      PROVE  UNCHANGED <<locks, granted>>
  BY <1>2
  DEF Begin, LockStatus, LockAcquire, LockRefresh, LockRelease, TextOpen, OfficeOpen,
      TextSave, TextClose, OfficeCallbackSave, OfficeCallbackClosed, ForceUnlock
<1>3. ASSUME NEW p \in Procs, ReadStep(p)
      PROVE  UNCHANGED <<locks, granted>>
  BY <1>3
  DEF ReadStep, ReadForOpen, ReadForAcquire, ReadAfterConflict, ReadForRefresh,
      ReadForRelease, ReadForSave, ReadForForce, ReadForStatus
<1>4. ASSUME NEW p \in Procs, SessionStep(p) \/ Abort(p)
      PROVE  UNCHANGED <<locks, granted>>
  BY <1>4
  DEF SessionStep, ExpireSessions, CloseSessionsForObject, InsertSession, CloseSession,
      MarkSaved, PutObject, Abort
<1>5. ASSUME NEW p \in Procs, ExpireLocks(p)
      PROVE  LocksShrink /\ granted' = granted
  BY <1>0, <1>5 DEF ExpireLocks, LocksShrink, TypeOK, LockRow, ActiveRows
<1>6. ASSUME NEW p \in Procs, ReleaseLock(p) \/ ForceReleaseLock(p)
      PROVE  LocksShrink /\ granted' = granted
  <2>1. /\ req[p].row \in LockIds /\ locks[req[p].row].status # "unused"
        /\ granted' = granted
    BY <1>0, <1>6 DEF ReleaseLock, ForceReleaseLock, Control, InPlace, RowsWereRead, At
  <2>2. PICK status \in {"released", "force_released"} :
          locks' = [locks EXCEPT ![req[p].row].status = status]
    BY <1>6 DEF ReleaseLock, ForceReleaseLock
  <2>3. QED
    BY <1>0, <2>1, <2>2 DEF LocksShrink, TypeOK, LockRow
<1>7. ASSUME Environment
      PROVE  LocksShrink /\ granted' = granted
  <2>1. ASSUME NEW i \in LockIds, LockFallsDue(i)
        PROVE  LocksShrink /\ granted' = granted
    BY <1>0, <2>1 DEF LockFallsDue, LocksShrink, TypeOK, LockRow
  <2>2. QED
    BY <1>1, <1>7, <2>1 DEF Environment, SessionFallsDue
<1>8. QED
  BY <1>1, <1>2, <1>3, <1>4, <1>5, <1>6, <1>7 DEF Next, Proceed, LockStep, vars

(* insertLock grants a free lease, under a token it never had.              *)
LEMMA InsertIsLease ==
  ASSUME IInv, IInv', NEW p \in Procs, InsertLock(p)
  PROVE  [Lease!Next]_<<Holder, granted>>
<1>0. /\ UniqueActive /\ UniqueActive' /\ TypeOK
      /\ Minter(req[p]) /\ req[p].user \in Users /\ req[p].token \in Tokens \ granted
  BY DEF IInv, InsertLock, Control, InPlace, Minter, MintedAreUnspent, At
<1>1. CASE ActiveRows # {}
  <2>1. UNCHANGED <<locks, granted>>
    BY <1>1 DEF InsertLock
  <2>2. LocksShrink
    BY <1>0, <2>1 DEF LocksShrink, TypeOK
  <2>3. QED
    BY <2>1, <2>2, ShrinkIsLease
<1>2. CASE ActiveRows = {}
  <2>1. PICK i \in LockIds :
          /\ locks' = [locks EXCEPT ![i] =
               [status |-> "active", by |-> req[p].user,
                token |-> req[p].token, due |-> FALSE]]
          /\ granted' = granted \cup {req[p].token}
    BY <1>2 DEF InsertLock
  <2>2. /\ i \in ActiveRows' /\ locks'[i].by = req[p].user
        /\ locks'[i].token = req[p].token
    BY <1>0, <2>1 DEF ActiveRows, TypeOK
  <2>3. Holder = None /\ Holder' = [by |-> req[p].user, token |-> req[p].token]
    BY <1>0, <1>2, <2>2, HolderIs, HolderWillBe
  <2>4. Lease!Grant(req[p].user, req[p].token)
    BY <1>0, <2>1, <2>3 DEF Lease!Grant, Lease!Fresh
  <2>5. QED
    BY <1>0, <2>4 DEF Lease!Next
<1>3. QED
  BY <1>1, <1>2

(* refreshLock rotates the lease if its row is still the active one, keeps  *)
(* it if no token came along, and cannot bring back a row that was released.*)
LEMMA RefreshIsLease ==
  ASSUME IInv, IInv', NEW p \in Procs, RefreshLock(p)
  PROVE  [Lease!Next]_<<Holder, granted>>
<1> DEFINE i == req[p].row
<1>0. /\ UniqueActive /\ UniqueActive' /\ TypeOK
      /\ i \in LockIds /\ locks[i].status # "unused"
      /\ locks[i] \in LockRow
  BY DEF IInv, RefreshLock, Control, InPlace, RowsWereRead, At, TypeOK
<1>1. CASE req[p].token \in Tokens /\ i \in ActiveRows
  <2>1. /\ req[p].token \notin granted /\ locks[i].by \in Users
    BY <1>1 DEF IInv, RefreshLock, Control, InPlace, Minter, MintedAreUnspent,
                ActiveIsGranted, At
  <2>2. /\ i \in ActiveRows' /\ locks'[i].by = locks[i].by
        /\ locks'[i].token = req[p].token
        /\ granted' = granted \cup {req[p].token}
    BY <1>0, <1>1 DEF RefreshLock, ActiveRows, TypeOK
  <2>3. /\ Holder = [by |-> locks[i].by, token |-> locks[i].token]
        /\ Holder' = [by |-> locks[i].by, token |-> req[p].token]
    BY <1>0, <1>1, <2>2, HolderIs, HolderWillBe
  <2>4. Holder # None
    <3>1. locks[i].token \in Tokens
      BY <1>0, <1>1 DEF IInv, ActiveIsGranted, TypeOK
    <3>2. [by |-> locks[i].by, token |-> locks[i].token] \in [by : Users, token : Tokens]
      BY <2>1, <3>1
    <3>3. QED
      BY <2>3, <3>2, NilAssumption
  <2>5. Lease!Rotate(locks[i].by, req[p].token)
    BY <2>1, <2>2, <2>3, <2>4 DEF Lease!Rotate, Lease!Fresh
  <2>6. QED
    BY <1>1, <2>1, <2>5 DEF Lease!Next
<1>2. CASE ~(req[p].token \in Tokens /\ i \in ActiveRows)
  <2>1. LocksShrink /\ granted' = granted
    BY <1>0, <1>2 DEF RefreshLock, LocksShrink, TypeOK, LockRow, ActiveRows
  <2>2. QED
    BY <2>1, ShrinkIsLease
<1>3. QED
  BY <1>1, <1>2

(* file_locks, under any interleaving of the handlers, is a lease: granted  *)
(* only when free, never under a token it had before, never handed over.    *)
THEOREM LockImplementsLease == Spec => ImplementsLease
<1>1. Init => Lease!Init
  BY DEF Init, Lease!Init, Holder, ActiveRows, NoLock
<1>2. IInv /\ IInv' /\ [Next]_vars => [Lease!Next]_<<Holder, granted>>
  BY StepKinds, ShrinkIsLease, InsertIsLease, RefreshIsLease
<1>3. QED
  BY <1>1, <1>2, Invariance, PTL DEF Spec, ImplementsLease, Lease!Spec, Lease!vars
=============================================================================
