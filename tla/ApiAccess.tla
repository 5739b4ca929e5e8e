----------------------------- MODULE ApiAccess -----------------------------
(***************************************************************************)
(* The open API of one account: internal/creds keeps its API access, its   *)
(* applications and their access keys, issues STS sessions and             *)
(* authenticates the calls of /api/v1; internal/project reviews requests   *)
(* for access for operations.  Every statement is a step: the gates a      *)
(* call passes are read one after the other, each may close or open again  *)
(* between two reads, and a write is made on what was read before.         *)
(***************************************************************************)
EXTENDS Requests

CONSTANTS
  Applications,  \* tenant_applications.id
  AccessKeys     \* application_access_keys.access_key_id, random

VARIABLES
  access,    \* tenant_api_access.status, "none" without a row
  apps,      \* status of the applications; "none" before, "gone" after
  keys,      \* status of the keys; "none" before, "gone" after
  appOf,     \* application_access_keys.application_id
  sessions,  \* STS sessions handed out, that have not expired
  raced      \* history: whether requests or reviews of access have overlapped

apiVars == <<access, apps, keys, appOf, sessions, raced>>

-----------------------------------------------------------------------------
(* Types *)

Gates == {"key", "app", "access"}

Statuses == {"none", "active", "disabled", "gone"}

Exists(status) == status \in {"active", "disabled"}

(* The console: what to do, with which application and key. *)
ConsoleOps == {"createApp", "enableApp", "disableApp", "deleteApp", "createKey",
               "disableKey", "issueSTS"}

Console == [pc : {"app", "write", "stskey", "stsapp", "token"}, op : ConsoleOps,
            app : Applications \cup {None}, key : AccessKeys \cup {None}]

Reviewing == [pc : {"review"}, next : {"pending", "approved", "rejected", "disabled"}]

(* A call of /api/v1.  left: how often authenticate still looks at the key;  *)
(* shut, a history: the gates that were closed when the call came and have   *)
(* not been opened since.                                                    *)
Calling == [pc : {"authkey", "authapp", "authaccess", "rgwaccess", "rgwapp", "served"},
            kind : {"key", "jwt", "rgw"}, key : AccessKeys, left : 0 .. 1,
            shut : SUBSET Gates]

ApiTypeOK ==
  /\ access \in {"none", "pending", "approved", "rejected", "disabled"}
  /\ apps \in [Applications -> Statuses]
  /\ keys \in [AccessKeys -> Statuses]
  /\ appOf \in [AccessKeys -> Applications \cup {None}]
  /\ sessions \subseteq [kind : {"jwt", "rgw"}, key : AccessKeys]
  /\ raced \in BOOLEAN
  /\ req \in [Procs -> {Idle} \cup Console \cup Reviewing \cup Calling]

-----------------------------------------------------------------------------
(* Access: the tenant asks, operations review *)

Reviews(q) == At(q, "review")

Overlaps == raced' = (raced \/ \E q \in Procs : Reviews(q))

(* requestAccess looks at the status ... *)
RequestAccess(p) ==
  /\ At(p, "idle") /\ access \notin {"pending", "approved"}
  /\ Moves(p, [pc |-> "review", next |-> "pending"]) /\ Overlaps
  /\ UNCHANGED <<access, apps, keys, appOf, sessions>>

(* Mutation: approve whatever the status. *)
ReviewTargetLax(action, current) ==
  CASE action = "approve" -> "approved"
    [] action = "reject" /\ current = "pending" -> "rejected"
    [] action = "disable" /\ current = "approved" -> "disabled"
    [] OTHER -> None

reviewTarget(action, current) ==
  CASE action = "approve" /\ current = "pending" -> "approved"
    [] action = "reject" /\ current = "pending" -> "rejected"
    [] action = "disable" /\ current = "approved" -> "disabled"
    [] OTHER -> None

(* ... and so does ReviewAccess; ... *)
Review(p, action) ==
  /\ At(p, "idle") /\ access # "none" /\ reviewTarget(action, access) # None
  /\ Moves(p, [pc |-> "review", next |-> reviewTarget(action, access)]) /\ Overlaps
  /\ UNCHANGED <<access, apps, keys, appOf, sessions>>

Calls(q) == req[q].pc \in {"authkey", "authapp", "authaccess", "rgwaccess", "rgwapp", "served"}

(* p ends, and a gate has opened for the calls of Q. *)
EndsAndOpens(p, gate, Q) ==
  req' = [q \in Procs |-> IF q = p THEN Idle
                          ELSE IF q \in Q THEN [req[q] EXCEPT !.shut = @ \ {gate}] ELSE req[q]]

(* ... both then write, whatever the status has become. *)
SetAccess(p) ==
  /\ At(p, "review") /\ access' = req[p].next
  /\ IF req[p].next = "approved"
       THEN EndsAndOpens(p, "access", {q \in Procs : Calls(q)})
       ELSE Ends(p)
  /\ UNCHANGED <<apps, keys, appOf, sessions, raced>>

-----------------------------------------------------------------------------
(* The console: applications and keys, once access is approved *)

(* gate and requireApproved, which every handler begins with. *)
OpenConsole(p, op, a, k) ==
  /\ At(p, "idle") /\ access = "approved"
  /\ Moves(p, [pc |-> CASE op = "createApp" -> "write"
                        [] op = "issueSTS" -> "stskey"
                        [] OTHER -> "app",
               op |-> op, app |-> a, key |-> k])
  /\ UNCHANGED apiVars

Doing(p, op) == At(p, "write") /\ req[p].op = op

(* loadApp; createKey also wants the application to be active. *)
LoadApp(p) ==
  /\ At(p, "app")
  /\ IF Exists(apps[req[p].app]) /\ (req[p].op = "createKey" => apps[req[p].app] = "active")
       THEN Goes(p, "write") ELSE Ends(p)
  /\ UNCHANGED apiVars

(* Calls by keys of the application; for a session of RGW any will do. *)
OpenedBy(a) == {q \in Procs : Calls(q) /\ (req[q].kind = "rgw" \/ appOf[req[q].key] = a)}

InsertApp(p) ==
  /\ Doing(p, "createApp")
  /\ \E a \in Applications :
       /\ apps[a] = "none" /\ apps' = [apps EXCEPT ![a] = "active"]
       /\ EndsAndOpens(p, "app", OpenedBy(a))
  /\ UNCHANGED <<access, keys, appOf, sessions, raced>>

EnableApp(p) ==
  /\ Doing(p, "enableApp")
  /\ IF Exists(apps[req[p].app])
       THEN /\ apps' = [apps EXCEPT ![req[p].app] = "active"]
            /\ EndsAndOpens(p, "app", OpenedBy(req[p].app))
       ELSE Ends(p) /\ UNCHANGED apps
  /\ UNCHANGED <<access, keys, appOf, sessions, raced>>

DisableApp(p) ==
  /\ Doing(p, "disableApp") /\ Ends(p)
  /\ apps' = [apps EXCEPT ![req[p].app] = IF Exists(@) THEN "disabled" ELSE @]
  /\ UNCHANGED <<access, keys, appOf, sessions, raced>>

(* The application's keys go with it. *)
DeleteApp(p) ==
  /\ Doing(p, "deleteApp") /\ Ends(p)
  /\ apps' = [apps EXCEPT ![req[p].app] = "gone"]
  /\ keys' = [k \in AccessKeys |-> IF Exists(keys[k]) /\ appOf[k] = req[p].app
                                   THEN "gone" ELSE keys[k]]
  /\ UNCHANGED <<access, appOf, sessions, raced>>

(* Mutation: application_id without REFERENCES. *)
NoReference(a) == TRUE

Referenced(a) == Exists(apps[a])

InsertKey(p) ==
  /\ Doing(p, "createKey") /\ Referenced(req[p].app) /\ Ends(p)
  /\ \E k \in AccessKeys :
       /\ keys[k] = "none"
       /\ keys' = [keys EXCEPT ![k] = "active"]
       /\ appOf' = [appOf EXCEPT ![k] = req[p].app]
  /\ UNCHANGED <<access, apps, sessions, raced>>

(* No statement makes a key active again. *)
DisableKey(p) ==
  LET k == req[p].key IN
  /\ Doing(p, "disableKey") /\ Ends(p)
  /\ keys' = [keys EXCEPT ![k] = IF Exists(@) /\ appOf[k] = req[p].app THEN "disabled" ELSE @]
  /\ UNCHANGED <<access, apps, appOf, sessions, raced>>

-----------------------------------------------------------------------------
(* STS sessions *)

IssueKey(p) ==
  /\ At(p, "stskey")
  /\ IF keys[req[p].key] = "active" THEN Goes(p, "stsapp") ELSE Ends(p)
  /\ UNCHANGED apiVars

IssueApp(p) ==
  /\ At(p, "stsapp")
  /\ IF apps[appOf[req[p].key]] = "active" THEN Goes(p, "token") ELSE Ends(p)
  /\ UNCHANGED apiVars

(* A session of RGW when its STS answers, a signed token of this service     *)
(* otherwise.                                                                *)
IssueToken(p) ==
  /\ At(p, "token") /\ Ends(p)
  /\ \E kind \in {"jwt", "rgw"} : sessions' = sessions \cup {[kind |-> kind, key |-> req[p].key]}
  /\ UNCHANGED <<access, apps, keys, appOf, raced>>

(* POST /api/v1/sts/credentials: any row of the key will do by then. *)
IssueOpenSTS(p) ==
  /\ At(p, "served") /\ req[p].kind = "key" /\ Exists(keys[req[p].key]) /\ Ends(p)
  /\ \E kind \in {"jwt", "rgw"} : sessions' = sessions \cup {[kind |-> kind, key |-> req[p].key]}
  /\ UNCHANGED <<access, apps, keys, appOf, raced>>

Expire(s) ==
  /\ s \in sessions /\ sessions' = sessions \ {s}
  /\ UNCHANGED <<access, apps, keys, appOf, raced, req>>

-----------------------------------------------------------------------------
(* authenticate *)

Shut(kind, k) ==
  (IF kind # "rgw" /\ keys[k] # "active" THEN {"key"} ELSE {})
    \cup (IF \E a \in Applications : apps[a] = "active" /\ (kind = "rgw" \/ appOf[k] = a)
          THEN {} ELSE {"app"})
    \cup (IF access = "approved" THEN {} ELSE {"access"})

(* The header names a key and proves it with its secret, or with a session. *)
Call(p, kind, k) ==
  /\ At(p, "idle") /\ keys[k] # "none"
  /\ kind = "key" \/ [kind |-> kind, key |-> k] \in sessions
  /\ Moves(p, [pc |-> IF kind = "rgw" THEN "rgwaccess" ELSE "authkey", kind |-> kind, key |-> k,
               left |-> IF kind = "jwt" THEN 1 ELSE 0, shut |-> Shut(kind, k)])
  /\ UNCHANGED apiVars

(* A token that authSTS does not let through is tried once more as a key. *)
Refuses(p) ==
  IF req[p].left = 0 THEN Ends(p)
  ELSE Moves(p, [req[p] EXCEPT !.pc = "authkey", !.left = 0])

(* Mutation: a session is good as long as it has not expired. *)
AnyKey(status, kind) == Exists(status) /\ (kind = "key" => status = "active")

KeyIsActive(status, kind) == status = "active"

AuthKey(p) ==
  /\ At(p, "authkey")
  /\ IF KeyIsActive(keys[req[p].key], req[p].kind) THEN Goes(p, "authapp") ELSE Refuses(p)
  /\ UNCHANGED apiVars

AuthApp(p) ==
  /\ At(p, "authapp")
  /\ IF apps[appOf[req[p].key]] = "active" THEN Goes(p, "authaccess") ELSE Refuses(p)
  /\ UNCHANGED apiVars

AuthAccess(p) ==
  /\ At(p, "authaccess")
  /\ IF access = "approved" THEN Goes(p, "served") ELSE Refuses(p)
  /\ UNCHANGED apiVars

(* A session of RGW is not in our tables: RGW names the account, and it is   *)
(* attributed to the first active application.                               *)
RgwAccess(p) ==
  /\ At(p, "rgwaccess")
  /\ IF access = "approved" THEN Goes(p, "rgwapp") ELSE Ends(p)
  /\ UNCHANGED apiVars

RgwApp(p) ==
  /\ At(p, "rgwapp")
  /\ IF \E a \in Applications : apps[a] = "active" THEN Goes(p, "served") ELSE Ends(p)
  /\ UNCHANGED apiVars

(* The handler answers, or any request fails. *)
ApiEnds(p) == Dies(p) /\ UNCHANGED apiVars

-----------------------------------------------------------------------------
ApiInit ==
  /\ access = "none" /\ sessions = {} /\ raced = FALSE
  /\ apps = [a \in Applications |-> "none"]
  /\ keys = [k \in AccessKeys |-> "none"]
  /\ appOf = [k \in AccessKeys |-> None]
  /\ req = [p \in Procs |-> Idle]

ApiBegins(p) ==
  \/ RequestAccess(p)
  \/ \E action \in {"approve", "reject", "disable"} : Review(p, action)
  \/ OpenConsole(p, "createApp", None, None)
  \/ \E a \in Applications, op \in {"enableApp", "disableApp", "deleteApp", "createKey"} :
       OpenConsole(p, op, a, None)
  \/ \E a \in Applications, k \in AccessKeys : OpenConsole(p, "disableKey", a, k)
  \/ \E k \in AccessKeys : OpenConsole(p, "issueSTS", None, k)
  \/ \E kind \in {"key", "jwt", "rgw"}, k \in AccessKeys : Call(p, kind, k)

ApiSteps(p) ==
  \/ SetAccess(p) \/ LoadApp(p) \/ InsertApp(p) \/ EnableApp(p) \/ DisableApp(p)
  \/ DeleteApp(p) \/ InsertKey(p) \/ DisableKey(p) \/ IssueKey(p) \/ IssueApp(p)
  \/ IssueToken(p) \/ IssueOpenSTS(p) \/ AuthKey(p) \/ AuthApp(p) \/ AuthAccess(p)
  \/ RgwAccess(p) \/ RgwApp(p) \/ ApiEnds(p)

ApiNext ==
  \/ \E p \in Procs : ApiBegins(p) \/ ApiSteps(p)
  \/ \E s \in sessions : Expire(s)

ApiSpec == ApiInit /\ [][ApiNext]_<<apiVars, req>>

-----------------------------------------------------------------------------
(* Properties *)

(* No call is served through a gate that was closed when it came and has     *)
(* stayed closed: the key or the session's key disabled or deleted, its      *)
(* application disabled or deleted, access not approved.  The gates are      *)
(* read one by one, a token that is refused is tried again as a key          *)
(* (openapi.go:78-116, sts.go:39-107); a session of RGW passes the gates of  *)
(* the account only.                                                         *)
ClosedGatesStayShut == \A p \in Procs : At(p, "served") => req[p].shut = {}

(* A key that exists has its application, although the application may be    *)
(* deleted between loadApp and InsertKey (handler.go:307-341).               *)
KeysHaveApps == \A k \in AccessKeys : Exists(keys[k]) => Exists(apps[appOf[k]])

(* As long as requests for access and reviews do not overlap, a request is   *)
(* answered once, access is disabled only after it was approved, and         *)
(* approved again only on a new request (review.go:9-28, handler.go:148-163).*)
ReviewsInOrder ==
  [][~raced' /\ access' # access =>
       <<access, access'>> \in {<<"none", "pending">>, <<"rejected", "pending">>,
                                <<"disabled", "pending">>, <<"pending", "approved">>,
                                <<"pending", "rejected">>, <<"approved", "disabled">>}
    ]_<<apiVars, req>>
=============================================================================
