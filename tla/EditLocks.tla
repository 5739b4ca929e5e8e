----------------------------- MODULE EditLocks -----------------------------
(***************************************************************************)
(* Online editing of one object: the rows file_locks and edit_sessions     *)
(* keep for it, and the HTTP handlers of internal/edit that read and write *)
(* those rows.  Both tables are partitioned by (bucket_name, object_key),  *)
(* so one object is the whole story.                                       *)
(*                                                                         *)
(* A handler is not a transaction: each SQL statement and each storage     *)
(* call is one step, and the requests in Procs interleave between steps.   *)
(* A request that fails, or whose process dies, simply stops (Abort).      *)
(*                                                                         *)
(* Time is abstracted to what the statements compare: a row is due once    *)
(* expires_at <= now().  A TTL may run out at any moment, and only writing *)
(* expires_at again makes a row not due.                                   *)
(***************************************************************************)
EXTENDS Naturals, FiniteSets

CONSTANTS
  Procs,       \* requests that can be in flight at the same time
  Users,       \* tenant users
  LockIds,     \* ids of file_locks rows
  SessionIds,  \* ids of edit_sessions rows
  Tokens,      \* values newToken can return
  Editors,     \* editors the object's name and content type admit
  Handlers,    \* handlers the clients of this instance call
  None,        \* nil, NULL
  EmptyToken   \* the empty string where a token is expected

ASSUME NilAssumption ==
  /\ None \notin Users \cup LockIds \cup SessionIds \cup Tokens \cup {EmptyToken}
  /\ None \notin [by : Users, token : Tokens]
  /\ EmptyToken \notin Tokens

ASSUME EditorAssumption == Editors \subseteq {"monaco", "onlyoffice"}


VARIABLES
  locks,     \* file_locks: id -> row
  sessions,  \* edit_sessions: id -> row
  req,       \* the requests in flight
  granted,   \* history: tokens an active lock row has carried
  written    \* history: sessions on whose behalf the object was overwritten

vars == <<locks, sessions, req, granted, written>>

-----------------------------------------------------------------------------
(* Types *)

LockRow == [status : {"unused", "active", "released", "force_released"},
            by : Users \cup {None}, token : Tokens \cup {None}, due : BOOLEAN]

SessionRow == [status : {"unused", "active", "closed"},
               user : Users \cup {None}, editor : {"monaco", "onlyoffice", "none"},
               mode : {"edit", "view", "none"},
               token : Tokens \cup {EmptyToken, None},
               due : BOOLEAN, saved : BOOLEAN]

OpenOps == {"textOpen", "officeOpen"}
CloseOps == {"textClose", "officeClose"}
SaveOps == {"textSave", "textPresignSave", "textCompleteSave"}
AcquireOps == OpenOps \cup {"lockAcquire"}
SessionOps == CloseOps \cup SaveOps \cup {"officeSaved"}
Ops == OpenOps \cup CloseOps \cup SaveOps
         \cup {"none", "lockStatus", "lockAcquire", "lockRefresh",
               "lockRelease", "officeSaved", "forceUnlock"}

(* What a call of ActiveLock is for. *)
Purposes == {"none", "open", "acquire", "conflict", "release", "save",
             "refresh", "force", "status"}

Points == {"idle", "sweep", "expire", "read", "insert", "refresh", "release",
           "force", "closeAll", "session", "close", "put", "mark"}

Request == [pc : Points, for : Purposes, op : Ops,
            user : Users \cup {None},
            sid : SessionIds \cup {None},
            row : LockIds \cup {None},
            token : Tokens \cup {EmptyToken, None},
            mode : {"edit", "view", "none"},
            refused : BOOLEAN]

TypeOK ==
  /\ locks \in [LockIds -> LockRow]
  /\ sessions \in [SessionIds -> SessionRow]
  /\ req \in [Procs -> Request]
  /\ granted \subseteq Tokens
  /\ written \subseteq SessionIds

-----------------------------------------------------------------------------
(* Rows *)

NoLock == [status |-> "unused", by |-> None, token |-> None, due |-> FALSE]

NoSession == [status |-> "unused", user |-> None, editor |-> "none",
              mode |-> "none", token |-> None, due |-> FALSE, saved |-> FALSE]

Idle == [pc |-> "idle", for |-> "none", op |-> "none", user |-> None,
         sid |-> None, row |-> None, token |-> None, mode |-> "none",
         refused |-> FALSE]

(* The rows the partial unique index uq_file_locks_active_object covers. *)
ActiveRows == {i \in LockIds : locks[i].status = "active"}

(* The row ActiveLock selects: active and not yet due. *)
Held == {i \in ActiveRows : ~locks[i].due}

Reads(i) == IF Held = {} THEN i = None ELSE i \in Held

ActiveSession(s) == sessions[s].status = "active" /\ ~sessions[s].due

-----------------------------------------------------------------------------
(* Control of a request *)

Starts(p, r) ==
  /\ req[p].pc = "idle" /\ r.op \in Handlers
  /\ req' = [req EXCEPT ![p] = r]
Ends(p) == req' = [req EXCEPT ![p] = Idle]
Goes(p, point) == req' = [req EXCEPT ![p].pc = point]
At(p, point) == req[p].pc = point
Reading(p, purpose) == At(p, "read") /\ req[p].for = purpose

(* Call ActiveLock: its UPDATE is the next step. *)
Asks(r, purpose) == [r EXCEPT !.pc = "expire", !.for = purpose]

(* On the way to CloseSession nothing but the session matters any more. *)
Closing(r) == [Idle EXCEPT !.op = r.op, !.sid = r.sid, !.pc = "close"]

(* What happens once acquire returns without error. *)
Acquired(p, r) ==
  req' = [req EXCEPT ![p] = IF r.op \in OpenOps THEN [r EXCEPT !.pc = "session"]
                                                ELSE Idle]

(* What happens once releaseOwned returns.  A close goes on to close its     *)
(* session whatever the outcome; officeUnlock, if refused, looks at the lock *)
(* again to choose its error, where lockRelease just answers.                *)
Released(p, ok) ==
  \/ /\ req[p].op \in CloseOps
     /\ req' = [req EXCEPT ![p] = Closing(@)]
  \/ req[p].op \notin CloseOps /\ Ends(p)
  \/ /\ req[p].op \notin CloseOps /\ ~ok
     /\ req' = [req EXCEPT ![p] = Asks([Idle EXCEPT !.op = "lockStatus"], "status")]

(* newToken draws 256 random bits: the value is none that is in use. *)
NewToken(t) ==
  /\ t \in Tokens \ granted
  /\ \A p \in Procs : req[p].token # t
  /\ \A s \in SessionIds : sessions[s].token # t

-----------------------------------------------------------------------------
(* Handlers: the first step of each *)

LockStatus(p) ==
  /\ Starts(p, Asks([Idle EXCEPT !.op = "lockStatus"], "status"))
  /\ UNCHANGED <<locks, sessions, granted, written>>

LockAcquire(p, u) ==
  /\ Starts(p, Asks([Idle EXCEPT !.op = "lockAcquire", !.user = u,
                                 !.token = EmptyToken], "acquire"))
  /\ UNCHANGED <<locks, sessions, granted, written>>

LockRefresh(p, u, t) ==
  /\ t \in granted
  /\ Starts(p, Asks([Idle EXCEPT !.op = "lockRefresh", !.user = u,
                                 !.token = t], "refresh"))
  /\ UNCHANGED <<locks, sessions, granted, written>>

(* lockRelease, textUnlock and officeUnlock; the token is optional. *)
LockRelease(p, u, t) ==
  /\ t \in granted \cup {None}
  /\ Starts(p, Asks([Idle EXCEPT !.op = "lockRelease", !.user = u, !.token = t], "release"))
  /\ UNCHANGED <<locks, sessions, granted, written>>

(* textOpen up to HeadObject: the object exists and is editable as text. *)
TextOpen(p, u) ==
  /\ "monaco" \in Editors
  /\ Starts(p, [Idle EXCEPT !.op = "textOpen", !.user = u, !.mode = "edit",
                            !.token = EmptyToken, !.pc = "sweep"])
  /\ UNCHANGED <<locks, sessions, granted, written>>

(* officeOpen mints its callback token whatever mode it ends in. *)
OfficeOpen(p, u, mode) ==
  /\ "onlyoffice" \in Editors
  /\ Starts(p, Asks([Idle EXCEPT !.op = "officeOpen", !.user = u,
                                 !.mode = mode, !.token = EmptyToken], "open"))
  /\ UNCHANGED <<locks, sessions, granted, written>>

(* loadTextSession and the mode test of the three ways to save a text. *)
TextSave(p, s, op) ==
  /\ ActiveSession(s)
  /\ sessions[s].editor = "monaco" /\ sessions[s].mode # "view"
  /\ Starts(p, Asks([Idle EXCEPT !.op = op, !.user = sessions[s].user,
                                 !.sid = s], "save"))
  /\ UNCHANGED <<locks, sessions, granted, written>>

(* textClose releases without naming a token; a view has nothing to release. *)
TextClose(p, s) ==
  LET r == [Idle EXCEPT !.op = "textClose", !.user = sessions[s].user, !.sid = s]
  IN
  /\ ActiveSession(s)
  /\ sessions[s].editor = "monaco"
  /\ Starts(p, IF sessions[s].mode = "edit" THEN Asks(r, "release")
               ELSE Closing(r))
  /\ UNCHANGED <<locks, sessions, granted, written>>

(* The session a Document Server callback for s is about: s itself, or the  *)
(* active session the document key in the payload names.                    *)
Addressed(s, m) ==
  /\ ActiveSession(s)
  /\ m = s \/ /\ sessions[s].editor = "onlyoffice"
              /\ sessions[m].editor = "onlyoffice" /\ ActiveSession(m)

(* Status 2 and 6: download the edited document and store it.  Any session  *)
(* will do, in any mode and without its lock; saveFromURL only insists on   *)
(* an Office file name.                                                     *)
OfficeCallbackSave(p, s, m) ==
  /\ Addressed(s, m)
  /\ "onlyoffice" \in Editors
  /\ Starts(p, [Idle EXCEPT !.op = "officeSaved", !.user = sessions[m].user,
                            !.sid = m, !.pc = "put"])
  /\ UNCHANGED <<locks, sessions, granted, written>>

(* Status 4: closed without changes. *)
OfficeCallbackClosed(p, s, m) ==
  /\ Addressed(s, m)
  /\ Starts(p, Asks([Idle EXCEPT !.op = "officeClose", !.user = sessions[m].user,
                                 !.sid = m, !.token = sessions[m].token], "release"))
  /\ UNCHANGED <<locks, sessions, granted, written>>

ForceUnlock(p) ==
  /\ Starts(p, Asks([Idle EXCEPT !.op = "forceUnlock"], "force"))
  /\ UNCHANGED <<locks, sessions, granted, written>>

-----------------------------------------------------------------------------
(* ActiveLock: an UPDATE that releases due rows, then a SELECT *)

(* Mutation: an expired lock gets a status of its own, which nothing reads. *)
ExpireLocksAsExpired(p) ==
  /\ At(p, "expire")
  /\ locks' = [i \in LockIds |->
                 IF i \in ActiveRows /\ locks[i].due
                   THEN [locks[i] EXCEPT !.status = "expired"] ELSE locks[i]]
  /\ Goes(p, "read")
  /\ UNCHANGED <<sessions, granted, written>>

ExpireLocks(p) ==
  /\ At(p, "expire")
  /\ locks' = [i \in LockIds |->
                 IF i \in ActiveRows /\ locks[i].due
                   THEN [locks[i] EXCEPT !.status = "released"] ELSE locks[i]]
  /\ Goes(p, "read")
  /\ UNCHANGED <<sessions, granted, written>>

(* The look an open takes before it decides on a mode.  Text opens mint a   *)
(* token only if they go on to acquire, Office opens always.                *)
ReadForOpen(p) ==
  /\ Reading(p, "open")
  /\ \E i \in LockIds \cup {None} :
       LET foreign == i # None /\ locks[i].by # req[p].user IN
       /\ Reads(i)
       /\ IF foreign /\ req[p].op = "textOpen"
            THEN req' = [req EXCEPT ![p].pc = "session", ![p].mode = "view"]
            ELSE \E t \in Tokens :
                   /\ NewToken(t)
                   /\ req' = [req EXCEPT ![p] =
                        IF foreign
                          THEN [@ EXCEPT !.pc = "session", !.mode = "view", !.token = t]
                          ELSE Asks([@ EXCEPT !.token = t], "acquire")]
  /\ UNCHANGED <<locks, sessions, granted, written>>

(* acquire: refused by another's lock, a renewal of one's own, or a new row. *)
ReadForAcquire(p) ==
  /\ Reading(p, "acquire")
  /\ \/ \E i \in Held :
          IF locks[i].by # req[p].user
            THEN Acquired(p, [req[p] EXCEPT !.refused = TRUE])
            ELSE req' = [req EXCEPT ![p].pc = "refresh", ![p].row = i]
     \/ /\ Held = {}
        /\ IF req[p].token = EmptyToken
             THEN \E t \in Tokens :
                    /\ NewToken(t)
                    /\ req' = [req EXCEPT ![p].pc = "insert", ![p].token = t]
             ELSE Goes(p, "insert")
  /\ UNCHANGED <<locks, sessions, granted, written>>

(* Mutation: a caller that finds its own lock adopts the lock's token.       *)
ReadAfterConflictAdoptsToken(p) ==
  /\ Reading(p, "conflict")
  /\ \/ Held = {} /\ Ends(p)
     \/ \E i \in Held :
          Acquired(p, IF locks[i].by = req[p].user
                        THEN [req[p] EXCEPT !.token = locks[i].token]
                        ELSE [req[p] EXCEPT !.refused = TRUE])
  /\ UNCHANGED <<locks, sessions, granted, written>>

(* acquire after insertLock lost to the unique index.  The holder's lock is *)
(* returned as it is, even if it is the caller's own.                       *)
ReadAfterConflict(p) ==
  /\ Reading(p, "conflict")
  /\ \/ Held = {} /\ Ends(p)
     \/ \E i \in Held :
          Acquired(p, [req[p] EXCEPT !.refused = (locks[i].by # req[p].user)])
  /\ UNCHANGED <<locks, sessions, granted, written>>

(* lockRefresh: the caller's own lock, and its token. *)
ReadForRefresh(p) ==
  /\ Reading(p, "refresh")
  /\ \E i \in LockIds \cup {None} :
       /\ Reads(i)
       /\ IF i # None /\ locks[i].by = req[p].user /\ locks[i].token = req[p].token
            THEN req' = [req EXCEPT ![p] = [Idle EXCEPT !.op = "lockRefresh",
                                                        !.row = i, !.pc = "refresh"]]
            ELSE Ends(p)
  /\ UNCHANGED <<locks, sessions, granted, written>>

(* releaseOwned: nothing held is a success, another's lock or a token that  *)
(* does not match a refusal.                                                *)
ReadForRelease(p) ==
  /\ Reading(p, "release")
  /\ \E i \in LockIds \cup {None} :
       /\ Reads(i)
       /\ IF i # None /\ locks[i].by = req[p].user
                      /\ req[p].token \in {None, locks[i].token}
            THEN req' = [req EXCEPT ![p].pc = "release", ![p].row = i,
                                    ![p].token = None]
            ELSE Released(p, i = None)
  /\ UNCHANGED <<locks, sessions, granted, written>>

(* Mutation: the owner is compared, the token is not. *)
HoldsLockOfUser(s, i) == locks[i].by = sessions[s].user

(* requireSessionLock *)
HoldsLock(s, i) ==
  /\ locks[i].by = sessions[s].user
  /\ locks[i].token = sessions[s].token

ReadForSave(p) ==
  /\ Reading(p, "save")
  /\ \E i \in LockIds \cup {None} :
       /\ Reads(i)
       /\ IF i # None /\ HoldsLock(req[p].sid, i)
            THEN Goes(p, IF req[p].op = "textCompleteSave" THEN "mark" ELSE "put")
            ELSE Ends(p)
  /\ UNCHANGED <<locks, sessions, granted, written>>

ReadForForce(p) ==
  /\ Reading(p, "force")
  /\ \E i \in LockIds \cup {None} :
       /\ Reads(i)
       /\ req' = [req EXCEPT ![p].pc = IF i = None THEN "closeAll" ELSE "force",
                             ![p].row = i]
  /\ UNCHANGED <<locks, sessions, granted, written>>

ReadForStatus(p) ==
  /\ Reading(p, "status")
  /\ Ends(p)
  /\ UNCHANGED <<locks, sessions, granted, written>>

-----------------------------------------------------------------------------
(* Statements that write file_locks *)

(* The unique index admits one active row per object, due or not. *)
InsertLock(p) ==
  /\ At(p, "insert")
  /\ IF ActiveRows = {}
       THEN \E i \in LockIds :
              /\ locks[i].status = "unused"
              /\ locks' = [locks EXCEPT ![i] =
                   [status |-> "active", by |-> req[p].user,
                    token |-> req[p].token, due |-> FALSE]]
              /\ granted' = granted \cup {req[p].token}
              /\ Acquired(p, req[p])
       ELSE /\ req' = [req EXCEPT ![p] = Asks(@, "conflict")]
            /\ UNCHANGED <<locks, granted>>
  /\ UNCHANGED <<sessions, written>>

(* Mutation: a renewal also sets status = 'active'. *)
RefreshLockRevives(p) ==
  LET i == req[p].row
      rotates == req[p].token \in Tokens
  IN
  /\ At(p, "refresh")
  /\ locks' = [locks EXCEPT ![i].due = FALSE, ![i].status = "active",
                            ![i].token = IF rotates THEN req[p].token ELSE @]
  /\ granted' = IF rotates THEN granted \cup {req[p].token} ELSE granted
  /\ Acquired(p, req[p])
  /\ UNCHANGED <<sessions, written>>

(* refreshLock: by id, whatever the row's status; COALESCE keeps the token. *)
RefreshLock(p) ==
  LET i == req[p].row
      rotates == req[p].token \in Tokens
  IN
  /\ At(p, "refresh")
  /\ locks' = [locks EXCEPT ![i].due = FALSE,
                            ![i].token = IF rotates THEN req[p].token ELSE @]
  /\ granted' = IF rotates /\ i \in ActiveRows THEN granted \cup {req[p].token}
                                               ELSE granted
  /\ Acquired(p, req[p])
  /\ UNCHANGED <<sessions, written>>

(* Mutation: releases the object's active lock rather than the row read. *)
ReleaseLockByObject(p) ==
  /\ At(p, "release")
  /\ locks' = [i \in LockIds |-> IF i \in ActiveRows
                 THEN [locks[i] EXCEPT !.status = "released"] ELSE locks[i]]
  /\ Released(p, TRUE)
  /\ UNCHANGED <<sessions, granted, written>>

ReleaseLock(p) ==
  /\ At(p, "release")
  /\ locks' = [locks EXCEPT ![req[p].row].status = "released"]
  /\ Released(p, TRUE)
  /\ UNCHANGED <<sessions, granted, written>>

ForceReleaseLock(p) ==
  /\ At(p, "force")
  /\ locks' = [locks EXCEPT ![req[p].row].status = "force_released"]
  /\ Goes(p, "closeAll")
  /\ UNCHANGED <<sessions, granted, written>>

-----------------------------------------------------------------------------
(* Statements that write edit_sessions *)

CloseSessions(S) ==
  sessions' = [s \in SessionIds |->
                 IF s \in S /\ sessions[s].status = "active"
                   THEN [sessions[s] EXCEPT !.status = "closed"] ELSE sessions[s]]

(* expireSessions, on the way to the probe; its error is ignored. *)
ExpireSessions(p) ==
  /\ At(p, "sweep")
  /\ CloseSessions({s \in SessionIds : sessions[s].due})
  /\ req' = [req EXCEPT ![p] = Asks(@, "open")]
  /\ UNCHANGED <<locks, granted, written>>

CloseSessionsForObject(p) ==
  /\ At(p, "closeAll")
  /\ CloseSessions(SessionIds)
  /\ Ends(p)
  /\ UNCHANGED <<locks, granted, written>>

(* InsertSession: a session in edit mode even if acquire was refused. *)
InsertSession(p) ==
  /\ At(p, "session")
  /\ \E s \in SessionIds :
       /\ sessions[s].status = "unused"
       /\ sessions' = [sessions EXCEPT ![s] =
            [status |-> "active", user |-> req[p].user,
             editor |-> IF req[p].op = "textOpen" THEN "monaco" ELSE "onlyoffice",
             mode |-> req[p].mode, token |-> req[p].token,
             due |-> FALSE, saved |-> FALSE]]
  /\ Ends(p)
  /\ UNCHANGED <<locks, granted, written>>

CloseSession(p) ==
  /\ At(p, "close")
  /\ sessions' = [sessions EXCEPT ![req[p].sid].status = "closed"]
  /\ Ends(p)
  /\ UNCHANGED <<locks, granted, written>>

MarkSaved(p) ==
  /\ At(p, "mark")
  /\ sessions' = [sessions EXCEPT ![req[p].sid].saved = TRUE]
  /\ Ends(p)
  /\ UNCHANGED <<locks, granted, written>>

-----------------------------------------------------------------------------
(* Object storage *)

(* textSave archives and puts, saveFromURL puts and then marks.  For a       *)
(* presigned save the one who puts is the browser, with the URL it was given *)
(* and no look at any lock; the request stands for the URL until then.       *)
PutObject(p) ==
  /\ At(p, "put")
  /\ written' = written \cup {req[p].sid}
  /\ IF req[p].op = "officeSaved" THEN Goes(p, "mark") ELSE Ends(p)
  /\ UNCHANGED <<locks, sessions, granted>>

-----------------------------------------------------------------------------
(* The environment *)

LockFallsDue(i) ==
  /\ i \in Held
  /\ locks' = [locks EXCEPT ![i].due = TRUE]
  /\ UNCHANGED <<sessions, req, granted, written>>

SessionFallsDue(s) ==
  /\ ActiveSession(s)
  /\ sessions' = [sessions EXCEPT ![s].due = TRUE]
  /\ UNCHANGED <<locks, req, granted, written>>

(* A statement fails, the client goes away or the process dies.  The closes *)
(* and the sweep of expired sessions ignore the error of a step they can do *)
(* without, and carry on.                                                   *)
Abort(p) ==
  /\ ~At(p, "idle")
  /\ \/ Ends(p)
     \/ /\ req[p].op \in CloseOps
        /\ req' = [req EXCEPT ![p] = Closing(@)]
     \/ /\ At(p, "sweep")
        /\ req' = [req EXCEPT ![p] = Asks(@, "open")]
  /\ UNCHANGED <<locks, sessions, granted, written>>

-----------------------------------------------------------------------------

Begin(p) ==
  \/ LockStatus(p)
  \/ \E u \in Users : LockAcquire(p, u) \/ TextOpen(p, u)
  \/ \E u \in Users, t \in Tokens : LockRefresh(p, u, t)
  \/ \E u \in Users, t \in Tokens \cup {None} : LockRelease(p, u, t)
  \/ \E u \in Users, mode \in {"edit", "view"} : OfficeOpen(p, u, mode)
  \/ \E s \in SessionIds, op \in SaveOps : TextSave(p, s, op)
  \/ \E s \in SessionIds : TextClose(p, s)
  \/ \E s, m \in SessionIds : OfficeCallbackSave(p, s, m) \/ OfficeCallbackClosed(p, s, m)
  \/ ForceUnlock(p)

ReadStep(p) ==
  \/ ReadForOpen(p) \/ ReadForAcquire(p) \/ ReadAfterConflict(p)
  \/ ReadForRefresh(p) \/ ReadForRelease(p) \/ ReadForSave(p)
  \/ ReadForForce(p) \/ ReadForStatus(p)

LockStep(p) ==
  \/ ExpireLocks(p) \/ InsertLock(p) \/ RefreshLock(p) \/ ReleaseLock(p)
  \/ ForceReleaseLock(p)

SessionStep(p) ==
  \/ ExpireSessions(p) \/ CloseSessionsForObject(p) \/ InsertSession(p)
  \/ CloseSession(p) \/ MarkSaved(p) \/ PutObject(p)

Proceed(p) == ReadStep(p) \/ LockStep(p) \/ SessionStep(p)

Environment ==
  \/ \E i \in LockIds : LockFallsDue(i)
  \/ \E s \in SessionIds : SessionFallsDue(s)

Init ==
  /\ locks = [i \in LockIds |-> NoLock]
  /\ sessions = [s \in SessionIds |-> NoSession]
  /\ req = [p \in Procs |-> Idle]
  /\ granted = {} /\ written = {}

Next ==
  \/ \E p \in Procs : Begin(p) \/ Proceed(p) \/ Abort(p)
  \/ Environment

Spec == Init /\ [][Next]_vars

-----------------------------------------------------------------------------
(* Properties *)

(* What requireSessionLock lets through. *)
CanSave(s) ==
  /\ ActiveSession(s)
  /\ sessions[s].editor = "monaco" /\ sessions[s].mode = "edit"
  /\ \E i \in Held : HoldsLock(s, i)

(* However opens, closes, renewals and expiries of any users interleave, at *)
(* most one text session of the object can pass the lock check of a save:   *)
(* newToken is fresh for every open, and renewing a lock rotates its token, *)
(* which locks out the user's own older session.                            *)
OneWriter == \A s, t \in SessionIds : CanSave(s) /\ CanSave(t) => s = t

(* A lock that has not expired ends only in the hands of its owner or of a  *)
(* forced unlock, though releaseLock and the forced UPDATE act on an id     *)
(* read several steps before and test neither owner nor status.             *)
OwnerEnds ==
  [][\A i \in Held :
       /\ locks'[i].status = "released" =>
            \E p \in Procs : At(p, "release") /\ req[p].user = locks[i].by
                            /\ req'[p] # req[p]
       /\ locks'[i].status = "force_released" =>
            \E p \in Procs : req[p].op = "forceUnlock" /\ req'[p] # req[p]]_vars

(* A text session overwrites the object only if its token once was the      *)
(* token of an active lock.  An open that lost the race for the lock still  *)
(* gets a session in edit mode (acquire's answer is thrown away); this is   *)
(* what keeps that session from ever saving, by a presigned URL included.   *)
(* (An Office file name opens another way: saveFromURL asks for no lock and *)
(* takes any session, a text session of the same object too.)               *)
OnlyGrantedWrite ==
  "onlyoffice" \notin Editors => \A s \in written : sessions[s].token \in granted

(* The lock of the object, seen from outside, is a lease: see EditLease.    *)
Holder ==
  IF ActiveRows = {} THEN None
  ELSE LET i == CHOOSE j \in ActiveRows : TRUE
       IN [by |-> locks[i].by, token |-> locks[i].token]

Lease == INSTANCE EditLease WITH holder <- Holder, spent <- granted

(* file_locks implements a lease that passes from one user to another only  *)
(* through the free state and never brings back a token it has replaced:    *)
(* refreshLock writes to rows by id, released ones included.                *)
ImplementsLease == Lease!Spec

-----------------------------------------------------------------------------
(* The inductive invariant behind the theorems of EditLocks_proofs *)

(* The partial unique index, over every interleaving. *)
UniqueActive == \A i, j \in ActiveRows : i = j

ActiveIsGranted ==
  \A i \in ActiveRows : locks[i].by \in Users /\ locks[i].token \in granted

(* A request that carries a token newToken gave it. *)
Minter(r) == r.op \in AcquireOps /\ r.token \in Tokens

(* A token that was just minted is known to one request only ...            *)
MintedArePrivate ==
  /\ \A p, q \in Procs :
       Minter(req[p]) /\ Minter(req[q]) /\ req[p].token = req[q].token => p = q
  /\ \A p \in Procs, s \in SessionIds :
       Minter(req[p]) => sessions[s].token # req[p].token

(* ... and no lock's before that request has written it to one.             *)
MintedAreUnspent ==
  \A p \in Procs : Minter(req[p]) /\ ~At(p, "session") => req[p].token \notin granted

SessionTokensDiffer ==
  \A s, t \in SessionIds :
    sessions[s].token \in Tokens /\ sessions[s].token = sessions[t].token => s = t

(* Which handler can be where, and what it carries there. *)
InPlace(r) ==
  /\ r.for \in {"acquire", "conflict"} => r.op \in AcquireOps
  /\ r.for = "open" => r.op \in OpenOps
  /\ r.for = "save" => r.op \in SaveOps
  /\ r.for = "release" => r.op \notin AcquireOps
  /\ r.for = "force" => r.op = "forceUnlock"
  /\ r.op \in AcquireOps => r.user \in Users /\ r.token # None
  /\ r.pc \in {"sweep", "session"} => r.op \in OpenOps
  /\ r.pc = "insert" => Minter(r)
  /\ r.pc = "refresh" /\ r.token \in Tokens => Minter(r)
  /\ r.pc \in {"refresh", "release", "force"} => r.row \in LockIds
  /\ r.pc = "force" => r.op = "forceUnlock"
  /\ r.pc \in {"put", "mark", "close"} => r.op \in SessionOps
  /\ r.op \in SessionOps => r.sid \in SessionIds

Control == \A p \in Procs : InPlace(req[p])

(* A row about to be written was read, and one about to be released was the  *)
(* caller's: locked_by never changes.                                        *)
RowsWereRead ==
  \A p \in Procs :
    /\ req[p].pc \in {"refresh", "release", "force"} =>
         locks[req[p].row].status # "unused"
    /\ At(p, "release") => locks[req[p].row].by = req[p].user

(* A request about a session is about one that was opened. *)
SessionsExist ==
  \A p \in Procs : req[p].op \in SessionOps => sessions[req[p].sid].status # "unused"

(* A save that is past its check belongs to a session whose token was        *)
(* granted, unless it is an Office save.                                     *)
SavesAreGranted ==
  "onlyoffice" \notin Editors =>
    /\ \A p \in Procs : At(p, "put") => sessions[req[p].sid].token \in granted
    /\ \A s \in written : /\ sessions[s].status # "unused"
                            /\ sessions[s].token \in granted

IInv ==
  /\ TypeOK
  /\ UniqueActive /\ ActiveIsGranted
  /\ MintedArePrivate /\ MintedAreUnspent /\ SessionTokensDiffer
  /\ Control /\ RowsWereRead /\ SessionsExist /\ SavesAreGranted

-----------------------------------------------------------------------------
(* README.md:55: a file another user occupies opens read-only.  textOpen    *)
(* and officeOpen decide that on their first look, and ignore acquire's     *)
(* answer when the other user's lock appears after it.                      *)
OccupiedOpensReadOnly ==
  \A p \in Procs : At(p, "session") /\ req[p].refused => req[p].mode = "view"
=============================================================================
