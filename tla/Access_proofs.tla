---------------------------- MODULE Access_proofs ----------------------------
(***************************************************************************)
(* Who gets in and what they may do: the theorems of ApiAccess, RulePass   *)
(* and Rbac, for every set of requests, applications, keys, users, groups, *)
(* rules and tables.                                                       *)
(*                                                                         *)
(* A call remembers the gates that were closed when it came and have not   *)
(* opened since; that they are still closed, and that none of them is      *)
(* behind the call, is the invariant (ApiFits).  A step that only closes   *)
(* gates keeps it (QuietCall), one that opens a gate takes it from what    *)
(* the calls remember.                                                     *)
(*                                                                         *)
(* A decision reads the tables in four statements; while no table changes, *)
(* what it has read is what it would read now (HasFreshReads).             *)
(***************************************************************************)
EXTENDS ApiAccess, Rbac, RulePass, TLAPS

-----------------------------------------------------------------------------
(* Calls and their gates: the inductive invariant *)

Points == {"authkey", "authapp", "authaccess", "rgwaccess", "rgwapp", "served"}

(* The gates a call has passed. *)
PassedGates(point) ==
  CASE point = "authapp" -> {"key"}
    [] point = "authaccess" -> {"key", "app"}
    [] point = "rgwapp" -> {"access"}
    [] point = "served" -> Gates
    [] OTHER -> {}

AppShut(kind, k) == \A a \in Applications : apps[a] = "active" => kind # "rgw" /\ appOf[k] # a

(* What a call remembers. *)
CallFits(r) ==
  r.pc \in Points =>
    /\ keys[r.key] # "none"
    /\ r.pc \in {"rgwaccess", "rgwapp"} => r.kind = "rgw"
    /\ r.pc \in {"authkey", "authapp", "authaccess"} => r.kind # "rgw"
    /\ "key" \in r.shut => r.kind # "rgw" /\ keys[r.key] # "active"
    /\ "app" \in r.shut => AppShut(r.kind, r.key)
    /\ "access" \in r.shut => access # "approved"
    /\ \A gate \in PassedGates(r.pc) : gate \notin r.shut

(* What a request of the console names. *)
ConsoleFits(r) ==
  /\ r.pc \in {"app", "write"} /\ r.op # "createApp" => r.app \in Applications
  /\ r.pc \in {"stskey", "stsapp", "token"} => r.key \in AccessKeys

ApiRequest == {Idle} \cup Console \cup Reviewing \cup Calling

ApiFits(r) == r \in ApiRequest /\ CallFits(r) /\ ConsoleFits(r)

AllApiFit == \A p \in Procs : ApiFits(req[p])

KeysHaveOwners == \A k \in AccessKeys : keys[k] # "none" => appOf[k] \in Applications

Orders == {<<"none", "pending">>, <<"rejected", "pending">>, <<"disabled", "pending">>,
           <<"pending", "approved">>, <<"pending", "rejected">>, <<"approved", "disabled">>}

(* A review that nothing overlapped writes what follows the status. *)
Alone ==
  ~raced => \A p \in Procs : Reviews(p) => /\ <<access, req[p].next>> \in Orders
                                           /\ \A q \in Procs : Reviews(q) => q = p

ApiInv == ApiTypeOK /\ AllApiFit /\ KeysHaveOwners /\ KeysHaveApps /\ Alone

-----------------------------------------------------------------------------
(* Requests that move *)

LEMMA ApiMoved ==
  ASSUME ApiTypeOK, NEW p \in Procs, NEW r, Moves(p, r)
  PROVE  /\ req'[p] = r
         /\ \A q \in Procs : q # p => req'[q] = req[q]
         /\ r \in ApiRequest => req' \in [Procs -> ApiRequest]
BY DEF ApiTypeOK, Moves, ApiRequest

LEMMA ApiRequestTypes ==
  ASSUME NEW r \in ApiRequest
  PROVE  /\ r.pc \in Points => r \in Calling
         /\ r.pc \in {"app", "write", "stskey", "stsapp", "token"} => r \in Console
         /\ r.pc = "review" => r \in Reviewing
BY DEF ApiRequest, Points, Idle, Console, Reviewing, Calling

LEMMA IdleCall == ApiFits(Idle) /\ Idle.pc = "idle"
BY DEF ApiFits, ApiRequest, Idle, CallFits, Points, ConsoleFits

(* Nothing opens: keys and applications become active only from nothing,    *)
(* and access is not approved.                                              *)
OnlyCloses ==
  /\ \A k \in AccessKeys :
       keys[k] # "none" => /\ keys'[k] # "none" /\ appOf'[k] = appOf[k]
                           /\ keys'[k] = "active" => keys[k] = "active"
  /\ \A a \in Applications : apps'[a] = "active" => apps[a] = "active"
  /\ access' = "approved" => access = "approved"

(* What a request remembers stays true. *)
LEMMA StillFits ==
  ASSUME NEW q \in Procs, ApiFits(req[q]), req'[q] = req[q], OnlyCloses
  PROVE  ApiFits(req[q])'
<1>1. CASE req[q].pc \notin Points
  BY <1>1 DEF ApiFits, CallFits, ConsoleFits
<1>2. CASE req[q].pc \in Points
  <2>1. /\ req[q].key \in AccessKeys /\ req[q] \in ApiRequest /\ CallFits(req[q])
        /\ ConsoleFits(req[q])
    BY <1>2, ApiRequestTypes DEF ApiFits, Calling
  <2>2. keys[req[q].key] # "none"
    BY <2>1, <1>2 DEF CallFits
  <2>3. /\ keys'[req[q].key] # "none" /\ appOf'[req[q].key] = appOf[req[q].key]
        /\ keys[req[q].key] # "active" => keys'[req[q].key] # "active"
    BY <2>1, <2>2 DEF OnlyCloses
  <2>4. AppShut(req[q].kind, req[q].key) => AppShut(req[q].kind, req[q].key)'
    BY <2>3 DEF AppShut, OnlyCloses
  <2>5. CallFits(req[q])'
    BY <2>1, <2>3, <2>4, <1>2 DEF CallFits, OnlyCloses
  <2>6. QED
    BY <2>1, <2>5 DEF ApiFits, ConsoleFits
<1>3. QED
  BY <1>1, <1>2

(* A request moves on, or ends, while nothing opens. *)
LEMMA QuietCall ==
  ASSUME ApiInv, NEW p \in Procs, NEW r, Moves(p, r), OnlyCloses,
         ApiFits(req[p])', r \in ApiRequest, r.pc # "review",
         access' = access \/ (At(p, "review") /\ access' = req[p].next),
         raced' = raced
  PROVE  AllApiFit' /\ Alone' /\ req' \in [Procs -> ApiRequest]
<1>1. req'[p] = r /\ (\A q \in Procs : q # p => req'[q] = req[q]) /\ req' \in [Procs -> ApiRequest]
  BY ApiMoved DEF ApiInv
<1>2. AllApiFit'
  <2>1. ASSUME NEW q \in Procs, q # p
        PROVE  ApiFits(req[q])'
    BY <2>1, <1>1, StillFits DEF ApiInv, AllApiFit
  <2>2. QED
    BY <2>1 DEF AllApiFit
<1>3. Alone'
  BY <1>1 DEF ApiInv, Alone, Reviews, At
<1>4. QED
  BY <1>1, <1>2, <1>3

(* A request moves on, or ends, and nothing else changes. *)
LEMMA OwnCallStep ==
  ASSUME ApiInv, NEW p \in Procs, NEW r, Moves(p, r), UNCHANGED apiVars,
         ApiFits(r), r.pc # "review"
  PROVE  ApiInv'
<1>1. /\ OnlyCloses /\ raced' = raced /\ r \in ApiRequest
      /\ access' = access \/ (At(p, "review") /\ access' = req[p].next)
  BY DEF OnlyCloses, apiVars, ApiFits
<1>2. req'[p] = r
  BY ApiMoved DEF ApiInv
<1>3. ApiFits(req[p])'
  BY <1>2 DEF ApiFits, CallFits, AppShut, ConsoleFits, apiVars
<1>4. AllApiFit' /\ Alone' /\ req' \in [Procs -> ApiRequest]
  BY <1>1, <1>3, QuietCall
<1>5. ApiTypeOK'
  BY <1>4 DEF ApiInv, ApiTypeOK, ApiRequest, apiVars
<1>6. KeysHaveOwners' /\ KeysHaveApps'
  BY DEF ApiInv, KeysHaveOwners, KeysHaveApps, Exists, apiVars
<1>7. QED
  BY <1>4, <1>5, <1>6 DEF ApiInv

-----------------------------------------------------------------------------
(* Steps that only move their request *)

(* A call at its next gate. *)
LEMMA CallGoes ==
  ASSUME ApiInv, NEW p \in Procs, req[p].pc \in Points, NEW point \in Points,
         Goes(p, point), UNCHANGED apiVars,
         \/ req[p].pc = "authkey" /\ point = "authapp" /\ keys[req[p].key] = "active"
         \/ req[p].pc = "authapp" /\ point = "authaccess" /\ apps[appOf[req[p].key]] = "active"
         \/ req[p].pc = "authaccess" /\ point = "served" /\ access = "approved"
         \/ req[p].pc = "rgwaccess" /\ point = "rgwapp" /\ access = "approved"
         \/ req[p].pc = "rgwapp" /\ point = "served" /\ \E a \in Applications : apps[a] = "active"
  PROVE  ApiInv'
<1> DEFINE r == [req[p] EXCEPT !.pc = point]
<1>1. /\ req[p] \in Calling /\ CallFits(req[p]) /\ ApiFits(req[p])
      /\ req[p].key \in AccessKeys /\ req[p].shut \subseteq Gates
  BY ApiRequestTypes DEF ApiInv, AllApiFit, ApiFits, Calling
<1>2. appOf[req[p].key] \in Applications
  BY <1>1 DEF ApiInv, KeysHaveOwners, CallFits
<1>3. /\ r \in Calling /\ r.pc = point /\ r.kind = req[p].kind /\ r.key = req[p].key
      /\ r.shut = req[p].shut
  BY <1>1 DEF Calling, Points
<1>4. Moves(p, r)
  BY DEF Goes
<1> HIDE DEF r
<1>5. /\ req[p].pc = "authkey" => "key" \notin req[p].shut
      /\ req[p].pc = "authapp" => "app" \notin req[p].shut
      /\ req[p].pc = "authaccess" => "access" \notin req[p].shut
      /\ req[p].pc = "rgwaccess" => "access" \notin req[p].shut
      /\ req[p].pc = "rgwapp" => "app" \notin req[p].shut /\ "key" \notin req[p].shut
  BY <1>1, <1>2 DEF CallFits, AppShut
<1>6. \A gate \in PassedGates(point) : gate \notin r.shut
  BY <1>1, <1>3, <1>5 DEF CallFits, PassedGates, Gates
<1>7. CallFits(r)
  BY <1>1, <1>3, <1>6 DEF CallFits
<1>8. ApiFits(r)
  BY <1>3, <1>7 DEF ApiFits, ApiRequest, ConsoleFits, Points
<1>9. QED
  BY <1>3, <1>4, <1>8, OwnCallStep DEF Points

LEMMA EndsQuietly ==
  ASSUME ApiInv, NEW p \in Procs, Ends(p), UNCHANGED apiVars
  PROVE  ApiInv'
BY OwnCallStep, IdleCall DEF Ends

LEMMA RefusesStep ==
  ASSUME ApiInv, NEW p \in Procs, req[p].pc \in {"authkey", "authapp", "authaccess"},
         Refuses(p), UNCHANGED apiVars
  PROVE  ApiInv'
<1>1. CASE req[p].left = 0
  BY <1>1, EndsQuietly DEF Refuses
<1>2. CASE req[p].left # 0
  <2> DEFINE r == [req[p] EXCEPT !.pc = "authkey", !.left = 0]
  <2>1. /\ req[p] \in Calling /\ CallFits(req[p])
    BY ApiRequestTypes DEF ApiInv, AllApiFit, ApiFits, Points
  <2>2. /\ r \in Calling /\ r.pc = "authkey" /\ r.kind = req[p].kind /\ r.key = req[p].key
        /\ r.shut = req[p].shut
    <3>1. 0 \in 0 .. 1
      OBVIOUS
    <3>2. QED
      BY <2>1, <3>1 DEF Calling
  <2>3. Moves(p, r)
    BY <1>2 DEF Refuses
  <2> HIDE DEF r
  <2>4. CallFits(r)
    BY <2>1, <2>2 DEF CallFits, PassedGates, Points
  <2>5. ApiFits(r)
    BY <2>2, <2>4 DEF ApiFits, ApiRequest, ConsoleFits
  <2>6. QED
    BY <2>2, <2>3, <2>5, OwnCallStep
<1>3. QED
  BY <1>1, <1>2

(* authenticate *)
LEMMA AuthSteps ==
  ASSUME ApiInv, NEW p \in Procs,
         AuthKey(p) \/ AuthApp(p) \/ AuthAccess(p) \/ RgwAccess(p) \/ RgwApp(p)
  PROVE  ApiInv'
<1>1. CASE AuthKey(p)
  BY <1>1, CallGoes, RefusesStep DEF AuthKey, KeyIsActive, At, Points
<1>2. CASE AuthApp(p)
  BY <1>2, CallGoes, RefusesStep DEF AuthApp, At, Points
<1>3. CASE AuthAccess(p)
  BY <1>3, CallGoes, RefusesStep DEF AuthAccess, At, Points
<1>4. CASE RgwAccess(p)
  BY <1>4, CallGoes, EndsQuietly DEF RgwAccess, At, Points
<1>5. CASE RgwApp(p)
  BY <1>5, CallGoes, EndsQuietly DEF RgwApp, At, Points
<1>6. QED
  BY <1>1, <1>2, <1>3, <1>4, <1>5

(* A call comes in. *)
LEMMA CallStep ==
  ASSUME ApiInv, NEW p \in Procs, NEW kind \in {"key", "jwt", "rgw"}, NEW k \in AccessKeys,
         Call(p, kind, k)
  PROVE  ApiInv'
<1> DEFINE r == [pc |-> IF kind = "rgw" THEN "rgwaccess" ELSE "authkey", kind |-> kind,
                 key |-> k, left |-> IF kind = "jwt" THEN 1 ELSE 0, shut |-> Shut(kind, k)]
<1>1. keys[k] # "none" /\ Moves(p, r) /\ UNCHANGED apiVars
  BY DEF Call
<1>2. Shut(kind, k) \subseteq Gates
  BY DEF Shut, Gates
<1>3. /\ r \in Calling /\ r.kind = kind /\ r.key = k /\ r.shut = Shut(kind, k)
      /\ r.pc = IF kind = "rgw" THEN "rgwaccess" ELSE "authkey"
  <2>1. (IF kind = "jwt" THEN 1 ELSE 0) \in 0 .. 1
    OBVIOUS
  <2>2. QED
    BY <1>2, <2>1 DEF Calling
<1> HIDE DEF r
<1>4. /\ "key" \in Shut(kind, k) => kind # "rgw" /\ keys[k] # "active"
      /\ "access" \in Shut(kind, k) => access # "approved"
      /\ "app" \in Shut(kind, k) => AppShut(kind, k)
  BY DEF Shut, AppShut
<1>5. ApiFits(r)
  BY <1>1, <1>3, <1>4 DEF ApiFits, ApiRequest, CallFits, PassedGates, ConsoleFits
<1>6. QED
  BY <1>1, <1>3, <1>5, OwnCallStep

(* The console: a request comes in, reads, fails. *)
LEMMA ConsoleGoes ==
  ASSUME ApiInv, NEW p \in Procs, NEW r \in Console, Moves(p, r), UNCHANGED apiVars,
         ConsoleFits(r)
  PROVE  ApiInv'
<1>1. ApiFits(r) /\ r.pc # "review"
  BY DEF ApiFits, ApiRequest, CallFits, Points, Console
<1>2. QED
  BY <1>1, OwnCallStep

LEMMA ConsoleOpens ==
  ASSUME ApiInv, NEW p \in Procs, NEW op \in ConsoleOps,
         NEW a \in Applications \cup {None}, NEW k \in AccessKeys \cup {None},
         OpenConsole(p, op, a, k),
         op \notin {"createApp", "issueSTS"} => a \in Applications,
         op = "issueSTS" => k \in AccessKeys
  PROVE  ApiInv'
<1> DEFINE point == CASE op = "createApp" -> "write"
                      [] op = "issueSTS" -> "stskey"
                      [] OTHER -> "app"
           r == [pc |-> point, op |-> op, app |-> a, key |-> k]
<1>1. /\ point \in {"app", "write", "stskey"}
      /\ point = "stskey" <=> op = "issueSTS"
      /\ point = "write" <=> op = "createApp"
  BY DEF ConsoleOps
<1>2. Moves(p, r) /\ UNCHANGED apiVars
  BY DEF OpenConsole
<1> HIDE DEF point
<1>3. r \in Console /\ ConsoleFits(r)
  BY <1>1 DEF Console, ConsoleFits
<1>4. QED
  BY <1>2, <1>3, ConsoleGoes

LEMMA ConsoleReads ==
  ASSUME ApiInv, NEW p \in Procs, LoadApp(p) \/ IssueKey(p) \/ IssueApp(p)
  PROVE  ApiInv'
<1>1. UNCHANGED apiVars /\ req[p].pc \in {"app", "stskey", "stsapp"}
  BY DEF LoadApp, IssueKey, IssueApp, At
<1>2. req[p] \in Console /\ ConsoleFits(req[p])
  BY <1>1, ApiRequestTypes DEF ApiInv, AllApiFit, ApiFits
<1>3. CASE Ends(p)
  BY <1>1, <1>3, EndsQuietly
<1>4. ASSUME NEW point \in {"write", "stsapp", "token"}, Goes(p, point),
             point = "write" <=> req[p].pc = "app"
      PROVE  ApiInv'
  <2> DEFINE r == [req[p] EXCEPT !.pc = point]
  <2>1. /\ r \in Console /\ r.pc = point /\ r.op = req[p].op /\ r.app = req[p].app
        /\ r.key = req[p].key
    BY <1>2 DEF Console
  <2>2. Moves(p, r)
    BY <1>4 DEF Goes
  <2> HIDE DEF r
  <2>3. ConsoleFits(r)
    BY <1>1, <1>2, <1>4, <2>1 DEF ConsoleFits
  <2>4. QED
    BY <1>1, <2>1, <2>2, <2>3, ConsoleGoes
<1>5. QED
  BY <1>3, <1>4 DEF LoadApp, IssueKey, IssueApp, At

-----------------------------------------------------------------------------
(* Reviews *)

LEMMA ReviewBegins ==
  ASSUME ApiInv, NEW p \in Procs, NEW next,
         next \in {"pending", "approved", "rejected", "disabled"},
         <<access, next>> \in Orders, At(p, "idle"),
         Moves(p, [pc |-> "review", next |-> next]), Overlaps,
         UNCHANGED <<access, apps, keys, appOf, sessions>>
  PROVE  ApiInv'
<1> DEFINE r == [pc |-> "review", next |-> next]
<1>1. r \in Reviewing /\ r.pc = "review" /\ r.next = next
  BY DEF Reviewing
<1> HIDE DEF r
<1>2. r \in ApiRequest /\ ApiFits(r)
  BY <1>1 DEF ApiFits, ApiRequest, CallFits, Points, ConsoleFits
<1>3. /\ req'[p] = r /\ (\A q \in Procs : q # p => req'[q] = req[q])
      /\ req' \in [Procs -> ApiRequest]
  BY <1>2, ApiMoved DEF ApiInv, r
<1>4. OnlyCloses
  BY DEF OnlyCloses
<1>5. AllApiFit'
  <2>1. ApiFits(req[p])'
    BY <1>2, <1>3 DEF ApiFits, CallFits, AppShut, ConsoleFits
  <2>2. ASSUME NEW q \in Procs, q # p
        PROVE  ApiFits(req[q])'
    BY <2>2, <1>3, <1>4, StillFits DEF ApiInv, AllApiFit
  <2>3. QED
    BY <2>1, <2>2 DEF AllApiFit
<1>6. Alone'
  <2> SUFFICES ASSUME ~raced'
               PROVE  \A q \in Procs : req'[q].pc = "review" =>
                        /\ <<access', req'[q].next>> \in Orders
                        /\ \A x \in Procs : req'[x].pc = "review" => x = q
    BY DEF Alone, Reviews, At
  <2>1. \A q \in Procs : req[q].pc # "review"
    BY DEF Overlaps, Reviews, At
  <2>2. QED
    BY <2>1, <1>1, <1>3
<1>7. ApiTypeOK'
  BY <1>3 DEF ApiInv, ApiTypeOK, ApiRequest, Overlaps
<1>8. KeysHaveOwners' /\ KeysHaveApps'
  BY DEF ApiInv, KeysHaveOwners, KeysHaveApps, Exists
<1>9. QED
  BY <1>5, <1>6, <1>7, <1>8 DEF ApiInv

LEMMA ReviewSteps ==
  ASSUME ApiInv, NEW p \in Procs,
         \/ RequestAccess(p)
         \/ \E action \in {"approve", "reject", "disable"} : Review(p, action)
  PROVE  ApiInv'
<1>1. CASE RequestAccess(p)
  <2>1. <<access, "pending">> \in Orders
    BY <1>1 DEF RequestAccess, ApiInv, ApiTypeOK, Orders
  <2>2. QED
    BY <1>1, <2>1, ReviewBegins DEF RequestAccess
<1>2. ASSUME NEW action \in {"approve", "reject", "disable"}, Review(p, action)
      PROVE  ApiInv'
  <2> DEFINE next == reviewTarget(action, access)
  <2>1. next # None /\ At(p, "idle") /\ Moves(p, [pc |-> "review", next |-> next])
        /\ Overlaps /\ UNCHANGED <<access, apps, keys, appOf, sessions>>
    BY <1>2 DEF Review
  <2>2. /\ <<access, next>> \in Orders
        /\ next \in {"pending", "approved", "rejected", "disabled"}
    BY <2>1 DEF reviewTarget, Orders
  <2> HIDE DEF next
  <2>3. QED
    BY <2>1, <2>2, ReviewBegins
<1>3. QED
  BY <1>1, <1>2

-----------------------------------------------------------------------------
(* Steps that open a gate *)

(* A call that forgets the gate that opens. *)
LEMMA ForgetsGate ==
  ASSUME ApiInv, NEW q \in Procs, req[q].pc \in Points, NEW gate \in {"app", "access"},
         req'[q] = [req[q] EXCEPT !.shut = @ \ {gate}], UNCHANGED <<keys, appOf>>,
         gate = "app" => access' = access,
         gate = "access" => apps' = apps
  PROVE  ApiFits(req[q])' /\ req'[q] \in ApiRequest /\ req'[q].pc # "review"
<1>1. req[q] \in Calling /\ CallFits(req[q])
  BY ApiRequestTypes DEF ApiInv, AllApiFit, ApiFits
<1>2. /\ req'[q] \in Calling /\ req'[q].pc = req[q].pc /\ req'[q].kind = req[q].kind
      /\ req'[q].key = req[q].key /\ req'[q].shut = req[q].shut \ {gate}
  BY <1>1 DEF Calling
<1>3. CallFits(req[q])'
  <2>1. /\ keys'[req'[q].key] # "none"
        /\ req'[q].pc \in {"rgwaccess", "rgwapp"} => req'[q].kind = "rgw"
        /\ req'[q].pc \in {"authkey", "authapp", "authaccess"} => req'[q].kind # "rgw"
        /\ "key" \in req'[q].shut => req'[q].kind # "rgw" /\ keys'[req'[q].key] # "active"
        /\ "access" \in req'[q].shut => access' # "approved"
        /\ \A g \in PassedGates(req'[q].pc) : g \notin req'[q].shut
    BY <1>1, <1>2 DEF CallFits
  <2>2. "app" \in req'[q].shut => AppShut(req[q].kind, req[q].key)'
    BY <1>1, <1>2 DEF CallFits, AppShut
  <2>3. QED
    BY <2>1, <2>2 DEF CallFits
<1>4. ConsoleFits(req[q])'
  BY <1>2 DEF ConsoleFits, Calling
<1>5. QED
  BY <1>2, <1>3, <1>4 DEF ApiFits, ApiRequest, Calling

(* A request ends; the calls of Q forget the gate, the others need not. *)
LEMMA OpeningStep ==
  ASSUME ApiInv, NEW p \in Procs, NEW Q, Q \subseteq {q \in Procs : Calls(q)},
         NEW gate \in {"app", "access"}, EndsAndOpens(p, gate, Q), UNCHANGED <<keys, appOf>>,
         gate = "app" => access' = access,
         gate = "access" => apps' = apps,
         access' = access \/ (At(p, "review") /\ access' = req[p].next),
         raced' = raced,
         \A q \in Procs \ Q : ApiFits(req[q]) /\ req'[q] = req[q] => ApiFits(req[q])'
  PROVE  AllApiFit' /\ Alone' /\ req' \in [Procs -> ApiRequest]
<1>1. /\ req'[p] = Idle
      /\ \A q \in Q \ {p} : req'[q] = [req[q] EXCEPT !.shut = @ \ {gate}]
      /\ \A q \in Procs \ (Q \cup {p}) : req'[q] = req[q]
      /\ req' = [q \in Procs |-> req'[q]]
  BY DEF EndsAndOpens
<1>2. \A q \in Q : req[q].pc \in Points
  BY DEF Calls, Points
<1>3. ASSUME NEW q \in Procs
      PROVE  ApiFits(req[q])' /\ req'[q] \in ApiRequest
             /\ (req'[q].pc = "review" => q # p /\ req'[q] = req[q])
  <2>1. CASE q = p
    <3>1. ApiFits(req[p])'
      BY <1>1, IdleCall DEF ApiFits, CallFits, ConsoleFits, Points
    <3>2. QED
      BY <3>1, <2>1, <1>1, IdleCall DEF ApiFits
  <2>2. CASE q # p /\ q \in Q
    BY <2>2, <1>1, <1>2, ForgetsGate
  <2>3. CASE q # p /\ q \notin Q
    BY <2>3, <1>1 DEF ApiInv, AllApiFit, ApiFits
  <2>4. QED
    BY <2>1, <2>2, <2>3
<1>4. req' \in [Procs -> ApiRequest]
  BY <1>1, <1>3
<1>5. Alone'
  BY <1>3 DEF ApiInv, Alone, Reviews, At
<1>6. QED
  BY <1>3, <1>4, <1>5 DEF AllApiFit

LEMMA SetAccessStep ==
  ASSUME ApiInv, NEW p \in Procs, SetAccess(p)
  PROVE  ApiInv'
<1>1. /\ At(p, "review") /\ access' = req[p].next
      /\ UNCHANGED <<apps, keys, appOf, sessions, raced>>
  BY DEF SetAccess
<1>2. req[p] \in Reviewing
  BY <1>1, ApiRequestTypes DEF ApiInv, AllApiFit, ApiFits, At
<1>3. AllApiFit' /\ Alone' /\ req' \in [Procs -> ApiRequest]
  <2>1. CASE req[p].next = "approved"
    <3> DEFINE Q == {q \in Procs : Calls(q)}
    <3>1. EndsAndOpens(p, "access", Q)
      BY <2>1 DEF SetAccess
    <3>2. ASSUME NEW q \in Procs \ Q, ApiFits(req[q]), req'[q] = req[q]
          PROVE  ApiFits(req[q])'
      BY <3>2 DEF ApiFits, CallFits, Points, ConsoleFits, Calls
    <3> HIDE DEF Q
    <3>3. Q \subseteq {q \in Procs : Calls(q)}
      BY DEF Q
    <3>4. QED
      BY <3>1, <3>2, <3>3, <1>1, OpeningStep
  <2>2. CASE req[p].next # "approved"
    <3>1. Ends(p) /\ OnlyCloses /\ Moves(p, Idle)
      BY <2>2, <1>1 DEF SetAccess, OnlyCloses, Ends
    <3>2. ApiFits(req[p])'
      <4>1. req'[p] = Idle
        BY <3>1, ApiMoved DEF ApiInv
      <4>2. QED
        BY <4>1, IdleCall DEF ApiFits, CallFits, ConsoleFits, Points
    <3>3. Idle \in ApiRequest /\ Idle.pc # "review"
      BY IdleCall DEF ApiFits
    <3>4. access' = access \/ (At(p, "review") /\ access' = req[p].next)
      BY <1>1
    <3>5. raced' = raced
      BY <1>1
    <3>6. QED
      BY <3>1, <3>2, <3>3, <3>4, <3>5, QuietCall
  <2>3. QED
    BY <2>1, <2>2
<1>4. ApiTypeOK'
  BY <1>1, <1>2, <1>3 DEF ApiInv, ApiTypeOK, ApiRequest, Reviewing
<1>5. KeysHaveOwners' /\ KeysHaveApps'
  BY <1>1 DEF ApiInv, KeysHaveOwners, KeysHaveApps, Exists
<1>6. QED
  BY <1>3, <1>4, <1>5 DEF ApiInv

(* An application becomes active. *)
LEMMA AppOpens ==
  ASSUME ApiInv, NEW p \in Procs, NEW a \in Applications,
         apps' = [apps EXCEPT ![a] = "active"],
         EndsAndOpens(p, "app", OpenedBy(a)), UNCHANGED <<access, keys, appOf, sessions, raced>>
  PROVE  ApiInv'
<1> DEFINE Q == OpenedBy(a)
<1>1. Q \subseteq {q \in Procs : Calls(q)}
  BY DEF OpenedBy
<1>2. apps'[a] = "active" /\ (\A b \in Applications : b # a => apps'[b] = apps[b])
      /\ apps' \in [Applications -> Statuses]
  BY DEF ApiInv, ApiTypeOK, Statuses
<1>3. ASSUME NEW q \in Procs \ Q, ApiFits(req[q]), req'[q] = req[q]
      PROVE  ApiFits(req[q])'
  <2>1. CASE req[q].pc \notin Points
    BY <1>3, <2>1 DEF ApiFits, CallFits, ConsoleFits
  <2>2. CASE req[q].pc \in Points
    <3>1. req[q].kind # "rgw" /\ appOf[req[q].key] # a
      BY <2>2 DEF OpenedBy, Calls, Points
    <3>2. AppShut(req[q].kind, req[q].key) => AppShut(req[q].kind, req[q].key)'
      BY <3>1, <1>2, <1>3 DEF AppShut
    <3>3. CallFits(req[q])'
      BY <3>2, <2>2, <1>3 DEF ApiFits, CallFits
    <3>4. QED
      BY <3>3, <1>3 DEF ApiFits, ConsoleFits
  <2>3. QED
    BY <2>1, <2>2
<1> HIDE DEF Q
<1>4. AllApiFit' /\ Alone' /\ req' \in [Procs -> ApiRequest]
  <2>1. EndsAndOpens(p, "app", Q)
    BY DEF Q
  <2>2. access' = access \/ (At(p, "review") /\ access' = req[p].next)
    OBVIOUS
  <2>3. QED
    BY <2>1, <2>2, <1>1, <1>3, OpeningStep
<1>5. ApiTypeOK'
  BY <1>2, <1>4 DEF ApiInv, ApiTypeOK, ApiRequest
<1>6. KeysHaveOwners' /\ KeysHaveApps'
  BY <1>2 DEF ApiInv, KeysHaveOwners, KeysHaveApps, Exists
<1>7. QED
  BY <1>4, <1>5, <1>6 DEF ApiInv

LEMMA AppOpensStep ==
  ASSUME ApiInv, NEW p \in Procs, InsertApp(p) \/ EnableApp(p)
  PROVE  ApiInv'
<1>1. CASE InsertApp(p)
  BY <1>1, AppOpens DEF InsertApp
<1>2. CASE EnableApp(p)
  <2>1. req[p].app \in Applications
    <3>1. req[p].pc = "write" /\ req[p].op = "enableApp"
      BY <1>2 DEF EnableApp, Doing, At
    <3>2. QED
      BY <3>1 DEF ApiInv, AllApiFit, ApiFits, ConsoleFits
  <2>2. CASE Ends(p) /\ UNCHANGED apps
    BY <1>2, <2>2, EndsQuietly DEF EnableApp, apiVars
  <2>3. QED
    BY <1>2, <2>1, <2>2, AppOpens DEF EnableApp
<1>3. QED
  BY <1>1, <1>2

-----------------------------------------------------------------------------
(* Steps that write and close, or open nothing *)

LEMMA ClosingStep ==
  ASSUME ApiInv, NEW p \in Procs, Ends(p), OnlyCloses, UNCHANGED <<access, raced>>,
         apps' \in [Applications -> Statuses], keys' \in [AccessKeys -> Statuses],
         appOf' \in [AccessKeys -> Applications \cup {None}],
         sessions' \subseteq [kind : {"jwt", "rgw"}, key : AccessKeys],
         KeysHaveOwners', KeysHaveApps'
  PROVE  ApiInv'
<1>1. Moves(p, Idle) /\ Idle \in ApiRequest /\ Idle.pc # "review"
  BY IdleCall DEF Ends, ApiFits
<1>2. ApiFits(req[p])'
  <2>1. req'[p] = Idle
    BY <1>1, ApiMoved DEF ApiInv
  <2>2. QED
    BY <2>1, IdleCall DEF ApiFits, CallFits, ConsoleFits, Points
<1>3. access' = access \/ (At(p, "review") /\ access' = req[p].next)
  OBVIOUS
<1>4. raced' = raced
  OBVIOUS
<1>5. AllApiFit' /\ Alone' /\ req' \in [Procs -> ApiRequest]
  BY <1>1, <1>2, <1>3, <1>4, QuietCall
<1>6. ApiTypeOK'
  BY <1>5 DEF ApiInv, ApiTypeOK, ApiRequest
<1>7. QED
  BY <1>5, <1>6 DEF ApiInv

LEMMA SessionSteps ==
  ASSUME ApiInv, NEW p \in Procs, IssueToken(p) \/ IssueOpenSTS(p)
  PROVE  ApiInv'
<1>1. Ends(p) /\ UNCHANGED <<access, apps, keys, appOf, raced>>
  BY DEF IssueToken, IssueOpenSTS
<1>2. req[p].key \in AccessKeys
  BY ApiRequestTypes DEF IssueToken, IssueOpenSTS, At, ApiInv, AllApiFit, ApiFits, ConsoleFits, Points, Calling
<1>3. PICK kind \in {"jwt", "rgw"} : sessions' = sessions \cup {[kind |-> kind, key |-> req[p].key]}
  BY DEF IssueToken, IssueOpenSTS
<1>4. sessions' \subseteq [kind : {"jwt", "rgw"}, key : AccessKeys]
  BY <1>2, <1>3 DEF ApiInv, ApiTypeOK
<1>5. KeysHaveOwners' /\ KeysHaveApps' /\ OnlyCloses
  BY <1>1 DEF ApiInv, KeysHaveOwners, KeysHaveApps, Exists, OnlyCloses
<1>6. QED
  BY <1>1, <1>4, <1>5, ClosingStep DEF ApiInv, ApiTypeOK

LEMMA AppClosesStep ==
  ASSUME ApiInv, NEW p \in Procs, DisableApp(p) \/ DeleteApp(p)
  PROVE  ApiInv'
<1> USE DEF ApiInv
<1>1. Ends(p) /\ UNCHANGED <<access, appOf, sessions, raced>>
  BY DEF DisableApp, DeleteApp
<1>2. CASE DisableApp(p)
  <2>1. /\ keys' = keys /\ apps' \in [Applications -> Statuses]
        /\ \A a \in Applications : /\ apps'[a] = "active" => apps[a] = "active"
                                   /\ Exists(apps[a]) => Exists(apps'[a])
    BY <1>2 DEF DisableApp, ApiTypeOK, Statuses, Exists
  <2>2. KeysHaveOwners' /\ KeysHaveApps' /\ OnlyCloses
    BY <2>1, <1>1 DEF KeysHaveOwners, KeysHaveApps, Exists, OnlyCloses
  <2>3. QED
    BY <2>1, <2>2, <1>1, ClosingStep DEF ApiTypeOK
<1>3. CASE DeleteApp(p)
  <2>1. /\ apps' \in [Applications -> Statuses] /\ keys' \in [AccessKeys -> Statuses]
        /\ \A a \in Applications : /\ apps'[a] = "active" => apps[a] = "active"
                                   /\ a # req[p].app => apps'[a] = apps[a]
        /\ \A k \in AccessKeys :
             keys'[k] = IF Exists(keys[k]) /\ appOf[k] = req[p].app THEN "gone" ELSE keys[k]
    BY <1>3 DEF DeleteApp, ApiTypeOK, Statuses
  <2>2. \A k \in AccessKeys :
          /\ keys'[k] = "active" => keys[k] = "active"
          /\ keys'[k] # "none" <=> keys[k] # "none"
          /\ Exists(keys'[k]) => Exists(keys[k]) /\ appOf[k] # req[p].app
    BY <2>1 DEF Exists
  <2>3. KeysHaveOwners' /\ OnlyCloses
    BY <2>1, <2>2, <1>1 DEF KeysHaveOwners, OnlyCloses
  <2>4. KeysHaveApps'
    <3> SUFFICES ASSUME NEW k \in AccessKeys, Exists(keys'[k])
                 PROVE  Exists(apps'[appOf[k]])
      BY <1>1 DEF KeysHaveApps, Exists
    <3>1. Exists(keys[k]) /\ appOf[k] # req[p].app /\ appOf[k] \in Applications
      BY <2>2 DEF KeysHaveOwners, Exists
    <3>2. QED
      BY <3>1, <2>1 DEF KeysHaveApps
  <2>5. QED
    BY <2>1, <2>3, <2>4, <1>1, ClosingStep DEF ApiTypeOK
<1>4. QED
  BY <1>2, <1>3

LEMMA KeySteps ==
  ASSUME ApiInv, NEW p \in Procs, InsertKey(p) \/ DisableKey(p)
  PROVE  ApiInv'
<1> USE DEF ApiInv
<1>1. Ends(p) /\ UNCHANGED <<access, apps, sessions, raced>>
  BY DEF InsertKey, DisableKey
<1>2. CASE InsertKey(p)
  <2>1. req[p].app \in Applications /\ Exists(apps[req[p].app])
    BY <1>2 DEF InsertKey, Doing, At, Referenced, AllApiFit, ApiFits, ConsoleFits
  <2>2. PICK k \in AccessKeys :
          /\ keys[k] = "none" /\ keys' = [keys EXCEPT ![k] = "active"]
          /\ appOf' = [appOf EXCEPT ![k] = req[p].app]
    BY <1>2 DEF InsertKey
  <2>3. /\ keys' \in [AccessKeys -> Statuses] /\ appOf' \in [AccessKeys -> Applications \cup {None}]
        /\ keys'[k] = "active" /\ appOf'[k] = req[p].app
        /\ \A x \in AccessKeys : x # k => keys'[x] = keys[x] /\ appOf'[x] = appOf[x]
    BY <2>1, <2>2 DEF ApiTypeOK, Statuses
  <2>4. KeysHaveOwners' /\ OnlyCloses
    BY <2>1, <2>2, <2>3, <1>1 DEF KeysHaveOwners, OnlyCloses
  <2>5. KeysHaveApps'
    BY <2>1, <2>3, <1>1 DEF KeysHaveApps, Exists
  <2>6. QED
    BY <2>3, <2>4, <2>5, <1>1, ClosingStep DEF ApiTypeOK
<1>3. CASE DisableKey(p)
  <2>1. /\ appOf' = appOf /\ keys' \in [AccessKeys -> Statuses]
        /\ \A k \in AccessKeys : /\ keys'[k] = "active" => keys[k] = "active"
                                 /\ Exists(keys'[k]) => Exists(keys[k])
                                 /\ keys'[k] # "none" <=> keys[k] # "none"
    BY <1>3 DEF DisableKey, ApiTypeOK, Statuses, Exists
  <2>2. KeysHaveOwners' /\ KeysHaveApps' /\ OnlyCloses
    BY <2>1, <1>1 DEF KeysHaveOwners, KeysHaveApps, Exists, OnlyCloses
  <2>3. QED
    BY <2>1, <2>2, <1>1, ClosingStep DEF ApiTypeOK
<1>4. QED
  BY <1>2, <1>3

LEMMA ExpireStep ==
  ASSUME ApiInv, NEW s \in sessions, Expire(s)
  PROVE  ApiInv'
BY DEF Expire, ApiInv, ApiTypeOK, AllApiFit, ApiFits, CallFits, AppShut, ConsoleFits, KeysHaveOwners,
       KeysHaveApps, Exists, Alone, Reviews, At

-----------------------------------------------------------------------------
(* The theorems *)

LEMMA ApiStep == ApiInv /\ [ApiNext]_<<apiVars, req>> => ApiInv'
<1> SUFFICES ASSUME ApiInv, [ApiNext]_<<apiVars, req>>
             PROVE  ApiInv'
  OBVIOUS
<1>1. CASE UNCHANGED <<apiVars, req>>
  BY <1>1 DEF apiVars, ApiInv, ApiTypeOK, AllApiFit, ApiFits, CallFits, AppShut, ConsoleFits,
              KeysHaveOwners, KeysHaveApps, Exists, Alone, Reviews, At
<1>2. ASSUME NEW p \in Procs, ApiBegins(p)
      PROVE  ApiInv'
  <2>1. ASSUME NEW op \in ConsoleOps, NEW a \in Applications \cup {None},
               NEW k \in AccessKeys \cup {None}, OpenConsole(p, op, a, k),
               \/ op \in {"createApp"}
               \/ op = "issueSTS" /\ k \in AccessKeys
               \/ op \in {"enableApp", "disableApp", "deleteApp", "createKey", "disableKey"}
                    /\ a \in Applications
        PROVE  ApiInv'
    BY <2>1, ConsoleOpens
  <2>2. CASE RequestAccess(p) \/ \E action \in {"approve", "reject", "disable"} : Review(p, action)
    BY <2>2, ReviewSteps
  <2>3. CASE \E kind \in {"key", "jwt", "rgw"}, k \in AccessKeys : Call(p, kind, k)
    BY <2>3, CallStep
  <2>4. CASE OpenConsole(p, "createApp", None, None)
    BY <2>4, <2>1 DEF ConsoleOps
  <2>5. CASE \E a \in Applications, op \in {"enableApp", "disableApp", "deleteApp", "createKey"} :
               OpenConsole(p, op, a, None)
    BY <2>5, <2>1 DEF ConsoleOps
  <2>6. CASE \E a \in Applications, k \in AccessKeys : OpenConsole(p, "disableKey", a, k)
    BY <2>6, <2>1 DEF ConsoleOps
  <2>7. CASE \E k \in AccessKeys : OpenConsole(p, "issueSTS", None, k)
    BY <2>7, <2>1 DEF ConsoleOps
  <2>8. QED
    BY <1>2, <2>2, <2>3, <2>4, <2>5, <2>6, <2>7 DEF ApiBegins
<1>3. ASSUME NEW p \in Procs, ApiSteps(p)
      PROVE  ApiInv'
  BY <1>3, SetAccessStep, ConsoleReads, AppOpensStep, AppClosesStep, KeySteps, SessionSteps,
     AuthSteps, EndsQuietly DEF ApiSteps, ApiEnds, Dies
<1>4. QED
  BY <1>1, <1>2, <1>3, ExpireStep DEF ApiNext

LEMMA ApiInvariance == ApiSpec => []ApiInv
<1>1. ApiInit => ApiInv
  <2> SUFFICES ASSUME ApiInit
               PROVE  ApiInv
    OBVIOUS
  <2>1. ApiTypeOK
    BY DEF ApiInit, ApiTypeOK, Statuses
  <2>2. \A p \in Procs : req[p] = Idle /\ ~Reviews(p)
    BY IdleCall DEF ApiInit, Reviews, At
  <2>3. QED
    BY <2>1, <2>2, IdleCall DEF ApiInit, ApiInv, AllApiFit, KeysHaveOwners, KeysHaveApps, Exists, Alone
<1>2. QED
  BY <1>1, ApiStep, PTL DEF ApiSpec

(* Access, applications, keys, sessions and requests have their types. *)
THEOREM ApiTypes == ApiSpec => []ApiTypeOK
BY ApiInvariance, PTL DEF ApiInv

(* No call is served through a gate that was closed when it came and has    *)
(* stayed closed, however the reads of authenticate and the writes of the   *)
(* console and of operations interleave.  (openapi.go:78-116, sts.go:39-107)*)
THEOREM ClosedGatesStayShutAlways == ApiSpec => []ClosedGatesStayShut
<1>1. ApiInv => ClosedGatesStayShut
  <2> SUFFICES ASSUME ApiInv, NEW p \in Procs, req[p].pc = "served"
               PROVE  req[p].shut = {}
    BY DEF ClosedGatesStayShut, At
  <2>1. req[p] \in Calling /\ CallFits(req[p])
    BY ApiRequestTypes DEF ApiInv, AllApiFit, ApiFits, Points
  <2>2. req[p].shut \subseteq Gates /\ \A gate \in Gates : gate \notin req[p].shut
    BY <2>1 DEF Calling, CallFits, Points, PassedGates
  <2>3. QED
    BY <2>2
<1>2. QED
  BY <1>1, ApiInvariance, PTL

(* A key that exists has its application.  (handler.go:307-341) *)
THEOREM KeysHaveAppsAlways == ApiSpec => []KeysHaveApps
BY ApiInvariance, PTL DEF ApiInv

(* As long as reviews do not overlap, access goes through its statuses in   *)
(* order.  (review.go:9-28, handler.go:148-163)                             *)
THEOREM ReviewsInOrderAlways == ApiSpec => ReviewsInOrder
<1> DEFINE InOrder == ~raced' /\ access' # access => <<access, access'>> \in Orders
<1>1. ApiInv /\ [ApiNext]_<<apiVars, req>> => [InOrder]_<<apiVars, req>>
  <2> SUFFICES ASSUME ApiInv, ApiNext, ~raced', access' # access
               PROVE  <<access, access'>> \in Orders
    OBVIOUS
  <2>1. ASSUME NEW p \in Procs, SetAccess(p)
        PROVE  <<access, access'>> \in Orders
    BY <2>1 DEF SetAccess, ApiInv, Alone, Reviews
  <2>2. QED
    BY <2>1 DEF ApiNext, ApiBegins, RequestAccess, Review, OpenConsole, Call, ApiSteps, LoadApp, InsertApp,
                EnableApp, DisableApp, DeleteApp, InsertKey, DisableKey, IssueKey, IssueApp, IssueToken,
                IssueOpenSTS, AuthKey, AuthApp, AuthAccess, RgwAccess, RgwApp, ApiEnds, Expire, apiVars
<1>2. QED
  BY <1>1, ApiInvariance, PTL DEF ApiSpec, ReviewsInOrder, Orders

-----------------------------------------------------------------------------
(* The pass over the rules *)

Hits(r) == Matches(r, asked.who, asked.bucket, asked.path)

Seen == rules \ left

(* What the pass knows: the longest prefix among the rules it has looked at, *)
(* and what those with that prefix allow.                                    *)
PassInv ==
  /\ left \subseteq rules /\ rules \subseteq RuleChoices
  /\ best = -1 \/ \E r \in Seen : Hits(r) /\ Len(r.prefix) = best
  /\ \A r \in Seen : Hits(r) => Len(r.prefix) <= best
  /\ matched = UNION {r.actions : r \in {s \in Seen : Hits(s) /\ Len(s.prefix) = best}}

LEMMA LengthsAreNats == \A r \in RuleChoices : Len(r.prefix) \in Nat
BY RulePassAssumption

LEMMA PassInvInit == RulesInit => PassInv
<1> SUFFICES ASSUME RulesInit
             PROVE  PassInv
  OBVIOUS
<1>1. PICK rows \in BoundedSeq(RuleChoices, MaxRules) : rules = ToSet(rows)
  BY DEF RulesInit
<1>2. rules \subseteq RuleChoices
  BY <1>1 DEF BoundedSeq, SeqOf, ToSet
<1>3. Seen = {} /\ best = -1 /\ matched = {} /\ left = rules
  BY DEF RulesInit, Seen
<1>4. QED
  BY <1>2, <1>3 DEF PassInv

LEMMA PassInvStep == PassInv /\ [RulesNext]_ruleVars => PassInv'
<1> SUFFICES ASSUME PassInv, [RulesNext]_ruleVars
             PROVE  PassInv'
  OBVIOUS
<1>1. CASE UNCHANGED ruleVars
  BY <1>1 DEF ruleVars, PassInv, Seen, Hits
<1>2. ASSUME NEW r \in left, Look(r)
      PROVE  PassInv'
  <2> DEFINE n == Len(r.prefix)
  <2>1. /\ left' = left \ {r} /\ asked' = asked /\ rules' = rules /\ r \in rules
        /\ Seen' = Seen \cup {r} /\ r \notin Seen
        /\ \A s : Hits(s)' = Hits(s)
    BY <1>2 DEF Look, Seen, Hits, PassInv
  <2>2. /\ left' \subseteq rules' /\ rules' \subseteq RuleChoices
        /\ n \in Nat /\ \A s \in Seen : Len(s.prefix) \in Nat
    BY <2>1, LengthsAreNats DEF PassInv, Seen
  <2>3. best = -1 \/ best \in Nat
    BY <2>2 DEF PassInv
  <2>4. CASE Hits(r) /\ n > best /\ best' = n /\ matched' = r.actions
    <3>1. \A s \in Seen : Hits(s) => Len(s.prefix) <= best /\ Len(s.prefix) # n
      BY <2>2, <2>3, <2>4 DEF PassInv
    <3>2. {s \in Seen' : Hits(s)' /\ Len(s.prefix) = best'} = {r}
      BY <2>1, <2>4, <3>1
    <3>3. \A s \in Seen' : Hits(s)' => Len(s.prefix) <= best'
      BY <2>1, <2>2, <2>3, <2>4, <3>1
    <3>4. \E s \in Seen' : Hits(s)' /\ Len(s.prefix) = best'
      BY <2>1, <2>4
    <3>5. matched' = UNION {s.actions : s \in {t \in Seen' : Hits(t)' /\ Len(t.prefix) = best'}}
      BY <2>4, <3>2
    <3>6. QED
      BY <2>2, <3>3, <3>4, <3>5 DEF PassInv
  <2>5. CASE Hits(r) /\ n = best /\ matched' = Joined(r) /\ UNCHANGED best
    <3>1. {s \in Seen' : Hits(s)' /\ Len(s.prefix) = best'}
            = {s \in Seen : Hits(s) /\ Len(s.prefix) = best} \cup {r}
      BY <2>1, <2>5
    <3>2. matched' = UNION {s.actions : s \in {t \in Seen' : Hits(t)' /\ Len(t.prefix) = best'}}
      BY <2>5, <3>1 DEF Joined, PassInv
    <3>3. \A s \in Seen' : Hits(s)' => Len(s.prefix) <= best'
      BY <2>1, <2>2, <2>5 DEF PassInv
    <3>4. \E s \in Seen' : Hits(s)' /\ Len(s.prefix) = best'
      BY <2>1, <2>5
    <3>5. QED
      BY <2>2, <3>2, <3>3, <3>4 DEF PassInv
  <2>6. CASE (~Hits(r) \/ n < best) /\ UNCHANGED <<best, matched>>
    <3>1. {s \in Seen' : Hits(s)' /\ Len(s.prefix) = best'} = {s \in Seen : Hits(s) /\ Len(s.prefix) = best}
      BY <2>1, <2>2, <2>3, <2>6
    <3>2. matched' = UNION {s.actions : s \in {t \in Seen' : Hits(t)' /\ Len(t.prefix) = best'}}
      BY <2>6, <3>1 DEF PassInv
    <3>3. \A s \in Seen' : Hits(s)' => Len(s.prefix) <= best'
      BY <2>1, <2>2, <2>3, <2>6 DEF PassInv
    <3>4. best' = -1 \/ \E s \in Seen' : Hits(s)' /\ Len(s.prefix) = best'
      BY <2>1, <2>6 DEF PassInv
    <3>5. QED
      BY <2>2, <3>2, <3>3, <3>4 DEF PassInv
  <2>7. QED
    BY <1>2, <2>4, <2>5, <2>6 DEF Look, Hits
<1>3. QED
  BY <1>1, <1>2 DEF RulesNext

(* At the end the pass has found the rules that speak. *)
LEMMA PassInvAgrees == PassInv => PassAgrees
<1> SUFFICES ASSUME PassInv, left = {}
             PROVE  /\ matched = Granted(rules, asked.who, asked.bucket, asked.path)
                    /\ (best >= 0 /\ matched \cap {asked.action, "admin"} # {})
                         <=> Allowed(rules, asked.who, asked.bucket, asked.path, asked.action)
  BY DEF PassAgrees
<1> DEFINE S == Speaking(rules, asked.who, asked.bucket, asked.path)
           G == Granted(rules, asked.who, asked.bucket, asked.path)
<1>1. Seen = rules /\ \A r \in rules : Len(r.prefix) \in Nat
  BY LengthsAreNats DEF Seen, PassInv
<1>2. S = {r \in rules : Hits(r) /\ \A s \in rules : Hits(s) => Len(s.prefix) <= Len(r.prefix)}
  BY DEF Speaking, Hits
<1>3. CASE best = -1
  <2>1. \A r \in rules : ~Hits(r)
    BY <1>1, <1>3 DEF PassInv
  <2>2. S = {} /\ matched = {}
    BY <1>1, <1>2, <2>1 DEF PassInv
  <2>3. QED
    BY <1>3, <2>2 DEF Granted, Allowed
<1>4. CASE best # -1
  <2>1. PICK r \in rules : Hits(r) /\ Len(r.prefix) = best
    BY <1>1, <1>4 DEF PassInv
  <2>2. S = {s \in rules : Hits(s) /\ Len(s.prefix) = best}
    BY <1>1, <1>2, <2>1 DEF PassInv
  <2>3. matched = G
    BY <1>1, <2>2 DEF PassInv, Granted
  <2>4. best >= 0
    BY <1>1, <2>1
  <2>5. QED
    BY <2>3, <2>4 DEF Allowed
<1>5. QED
  BY <1>3, <1>4

(* Whatever rules are loaded and in whatever order the pass looks at them,  *)
(* it ends with what the rules say.  (internal/rbac/match.go:80-115)        *)
THEOREM PassAgreesAlways == RulesSpec => []PassAgrees
BY PassInvInit, PassInvStep, PassInvAgrees, PTL DEF RulesSpec

-----------------------------------------------------------------------------
(* The tables, part by part *)

UsersOK ==
  /\ users \in [Users -> Member \cup {None}] /\ users[Owner] # None /\ groups \subseteq Groups
  /\ members \subseteq groups \X RowIds(users)
  /\ createdBy \in [SeenBuckets -> RowIds(users) \cup {None}]

PermsOK ==
  /\ perms \in [PermIds -> Permission \cup {None}]
  /\ \A i \in RowIds(perms) : SubjectThere(perms[i].subject) /\ BucketThere(perms[i].bucket)

RulesOK ==
  /\ templates \subseteq Templates /\ trules \in [RuleIds -> TemplateRule \cup {None}]
  /\ \A i \in RowIds(trules) : trules[i].template \in templates /\ BucketThere(trules[i].bucket)

AssignedOK ==
  /\ assigned \in [AssignIds -> Assignment \cup {None}]
  /\ \A i \in RowIds(assigned) : assigned[i].template \in templates /\ SubjectThere(assigned[i].subject)

RestOK ==
  /\ buckets \subseteq SeenBuckets /\ asking \in Nat
  /\ used \subseteq Users \cup Groups \cup PermIds \cup Templates \cup RuleIds \cup AssignIds

TablesOK == UsersOK /\ PermsOK /\ RulesOK /\ AssignedOK /\ RestOK

(* What a request can be. *)
Requested == {Idle} \cup Asking \cup Decided \cup Managing \cup Updating \cup Filling

RbacInv == TablesOK /\ req \in [Procs -> Requested]

LEMMA InvHasTypes == RbacInv <=> RbacTypeOK
BY DEF RbacInv, TablesOK, UsersOK, PermsOK, RulesOK, AssignedOK, RestOK, Requested,
       RbacTypeOK, SchemaOK, SubjectThere, BucketThere

LEMMA RbacInvInit == RbacInit => RbacInv
<1> SUFFICES ASSUME RbacInit
             PROVE  RbacInv
  OBVIOUS
<1>1. PICK t \in Tables :
        /\ users = t.users /\ members = t.members /\ groups = t.groups /\ perms = t.perms
        /\ templates = t.templates /\ trules = t.trules /\ assigned = t.assigned
        /\ buckets = t.buckets /\ createdBy = t.createdBy
        /\ used = RowIds(t.users) \cup t.groups \cup RowIds(t.perms) \cup t.templates
                    \cup RowIds(t.trules) \cup RowIds(t.assigned)
  BY DEF RbacInit
<1>2. SchemaOK(t)
  BY RbacAssumption
<1>3. UsersOK /\ PermsOK /\ RulesOK /\ AssignedOK
  BY <1>1, <1>2 DEF SchemaOK, UsersOK, PermsOK, RulesOK, AssignedOK, SubjectThere, BucketThere
<1>4. buckets \subseteq SeenBuckets
  BY <1>1, <1>2 DEF SchemaOK
<1>5. /\ RowIds(users) \subseteq Users /\ RowIds(perms) \subseteq PermIds
      /\ RowIds(trules) \subseteq RuleIds /\ RowIds(assigned) \subseteq AssignIds
  BY <1>3 DEF UsersOK, PermsOK, RulesOK, AssignedOK, RowIds
<1>6. used \subseteq Users \cup Groups \cup PermIds \cup Templates \cup RuleIds \cup AssignIds
  BY <1>1, <1>3, <1>5 DEF UsersOK, RulesOK
<1>7. req \in [Procs -> Requested] /\ asking \in Nat
  BY DEF RbacInit, Requested
<1>8. QED
  BY <1>3, <1>4, <1>6, <1>7 DEF RbacInv, TablesOK, RestOK

LEMMA TablesStay ==
  ASSUME TablesOK, UNCHANGED <<users, members, groups, perms, templates, trules, assigned, buckets,
                               createdBy, used>>, asking' \in Nat
  PROVE  TablesOK'
BY DEF TablesOK, UsersOK, PermsOK, RulesOK, AssignedOK, RestOK, SubjectThere, BucketThere, SubjectIn

(* A request changes, the others learn at most that they are late. *)
LEMMA Moving ==
  ASSUME req \in [Procs -> Requested], NEW p \in Procs, NEW r \in Requested, Moves(p, r)
  PROVE  req' \in [Procs -> Requested]
BY DEF Moves

LEMMA Stales ==
  ASSUME NEW r \in Requested, r.pc \in {"groups", "rules", "templates", "owner", "decided"}
  PROVE  [r EXCEPT !.stale = TRUE] \in Requested
<1>1. r \in Asking \/ r \in Decided
  BY DEF Requested, Idle, Asking, Decided, Managing, Updating, Filling
<1>2. CASE r \in Asking
  BY <1>2 DEF Asking, Requested
<1>3. CASE r \in Decided
  BY <1>3 DEF Decided, Requested
<1>4. QED
  BY <1>1, <1>2, <1>3

LEMMA Changing ==
  ASSUME req \in [Procs -> Requested], NEW p \in Procs, NEW r \in Requested, Changes(p, r)
  PROVE  req' \in [Procs -> Requested]
BY Stales DEF Changes, Reads

-----------------------------------------------------------------------------
(* Requests that read *)

LEMMA RowTypes ==
  ASSUME TablesOK
  PROVE  /\ \A i \in RowIds(perms) : i \in PermIds /\ perms[i] \in Permission
         /\ \A i \in RowIds(trules) : i \in RuleIds /\ trules[i] \in TemplateRule
         /\ \A i \in RowIds(assigned) : i \in AssignIds /\ assigned[i] \in Assignment
         /\ \A u \in RowIds(users) : u \in Users /\ users[u] \in Member
BY DEF TablesOK, UsersOK, PermsOK, RulesOK, AssignedOK, RowIds

LEMMA AskingSteps ==
  ASSUME RbacInv, NEW p \in Procs,
         (\E u \in Users : RequireUser(p, u)) \/ GateInternal(p) \/ ReadGroups(p)
  PROVE  RbacInv'
<1> USE DEF RbacInv
<1>1. ASSUME NEW u \in Users, RequireUser(p, u)
      PROVE  RbacInv'
  <2>1. users[u] \in Member
    BY <1>1 DEF RequireUser, TablesOK, UsersOK
  <2>2. /\ Manages(u) \in Requested
        /\ [pc |-> "groups", user |-> u, role |-> users[u].role,
            gids |-> {}, rules |-> {}, stale |-> FALSE] \in Requested
    BY <2>1 DEF Member, Manages, Managing, Asking, Requested
  <2>3. req' \in [Procs -> Requested]
    BY <1>1, <2>2, Moving DEF RequireUser
  <2>4. TablesOK'
    BY <1>1, TablesStay DEF RequireUser, Comes, Same, TablesOK, RestOK
  <2>5. QED
    BY <2>3, <2>4
<1>2. CASE GateInternal(p)
  <2>1. Manages(None) \in Requested
    BY DEF Manages, Managing, Requested
  <2>2. req' \in [Procs -> Requested]
    BY <1>2, <2>1, Moving DEF GateInternal
  <2>3. TablesOK'
    BY <1>2, TablesStay DEF GateInternal, Comes, Same, TablesOK, RestOK
  <2>4. QED
    BY <2>2, <2>3
<1>3. CASE ReadGroups(p)
  <2>1. req[p] \in Asking /\ GroupsOf(req[p].user) \subseteq Groups
    BY <1>3 DEF ReadGroups, At, Requested, Idle, Asking, Decided, Managing, Updating, Filling, GroupsOf
  <2>2. [req[p] EXCEPT !.pc = "rules", !.gids = GroupsOf(req[p].user)] \in Requested
    BY <2>1 DEF Asking, Requested
  <2>3. req' \in [Procs -> Requested]
    BY <1>3, <2>2, Moving DEF ReadGroups
  <2>4. TablesOK'
    BY <1>3, TablesStay DEF ReadGroups, rbacVars, TablesOK, RestOK
  <2>5. QED
    BY <2>3, <2>4
<1>4. QED
  BY <1>1, <1>2, <1>3

LEMMA ReadRulesStep ==
  ASSUME RbacInv, NEW p \in Procs, ReadRules(p)
  PROVE  RbacInv'
<1> USE DEF RbacInv
<1> DEFINE read == Permissions(req[p].user, req[p].role)
<1>1. req[p] \in Asking
  BY DEF ReadRules, At, Requested, Idle, Asking, Decided, Managing, Updating, Filling
<1>2. read \subseteq Permission
  BY RowTypes DEF Permissions
<1>3. /\ Moves(p, [req[p] EXCEPT !.pc = "templates", !.rules = read])
      /\ UNCHANGED rbacVars
  BY DEF ReadRules
<1> HIDE DEF read
<1>4. [req[p] EXCEPT !.pc = "templates", !.rules = read] \in Requested
  BY <1>1, <1>2 DEF Asking, Requested
<1>5. req' \in [Procs -> Requested]
  BY <1>3, <1>4, Moving
<1>6. TablesOK'
  BY <1>3, TablesStay DEF rbacVars, TablesOK, RestOK
<1>7. QED
  BY <1>5, <1>6

LEMMA ReadTemplatesStep ==
  ASSUME RbacInv, NEW p \in Procs, ReadTemplates(p)
  PROVE  RbacInv'
<1> USE DEF RbacInv
<1> DEFINE read == TemplateRules(req[p].user)
<1>1. req[p] \in Asking
  BY DEF ReadTemplates, At, Requested, Idle, Asking, Decided, Managing, Updating, Filling
<1>2. read \subseteq Permission
  <2>1. <<"user", req[p].user>> \in UserSubjects
    BY <1>1 DEF Asking, UserSubjects
  <2>2. \A i \in RowIds(trules) : Rule(<<"user", req[p].user>>, trules[i]) \in Permission
    BY <2>1, RowTypes DEF Rule, TemplateRule, Permission
  <2>3. QED
    BY <2>2 DEF TemplateRules
<1>3. /\ Moves(p, [req[p] EXCEPT !.pc = "owner", !.rules = @ \cup read])
      /\ UNCHANGED rbacVars
  BY DEF ReadTemplates
<1> HIDE DEF read
<1>4. [req[p] EXCEPT !.pc = "owner", !.rules = @ \cup read] \in Requested
  BY <1>1, <1>2 DEF Asking, Requested
<1>5. req' \in [Procs -> Requested]
  BY <1>3, <1>4, Moving
<1>6. TablesOK'
  BY <1>3, TablesStay DEF rbacVars, TablesOK, RestOK
<1>7. QED
  BY <1>5, <1>6

LEMMA DecideSteps ==
  ASSUME RbacInv, NEW p \in Procs,
         \/ \E b \in SeenBuckets \cup {NoBucket}, path \in Paths, action \in Acts :
              Decide(p, b, path, action)
         \/ RequireAdmin(p) \/ RbacEnds(p)
  PROVE  RbacInv'
<1> USE DEF RbacInv
<1>1. ASSUME NEW b \in SeenBuckets \cup {NoBucket}, NEW path \in Paths, NEW action \in Acts,
             Decide(p, b, path, action)
      PROVE  RbacInv'
  <2> DEFINE r == req[p]
             says == Decision(r.rules, Who(r.user, r.role, r.gids), IsCreator(r.user, b),
                              b, path, action)
             new == [pc |-> "decided", user |-> r.user, bucket |-> b, path |-> path,
                     action |-> action, stale |-> r.stale, allowed |-> says]
  <2>1. r \in Asking
    BY <1>1 DEF Decide, At, Requested, Idle, Asking, Decided, Managing, Updating, Filling
  <2>2. says \in BOOLEAN
    BY DEF Decision
  <2>3. Moves(p, new) /\ UNCHANGED rbacVars
    BY <1>1 DEF Decide
  <2> HIDE DEF says
  <2>4. new \in Requested
    BY <2>1, <2>2 DEF Asking, Decided, Requested
  <2>5. req' \in [Procs -> Requested]
    BY <2>3, <2>4, Moving
  <2>6. TablesOK'
    BY <2>3, TablesStay DEF rbacVars, TablesOK, RestOK
  <2>7. QED
    BY <2>5, <2>6
<1>2. CASE RequireAdmin(p)
  <2>1. req[p].user \in Users
    BY <1>2 DEF RequireAdmin, At, Requested, Idle, Asking, Decided, Managing, Updating, Filling
  <2>2. Manages(req[p].user) \in Requested
    BY <2>1 DEF Manages, Managing, Requested
  <2>3. req' \in [Procs -> Requested]
    BY <1>2, <2>2, Moving DEF RequireAdmin
  <2>4. TablesOK'
    BY <1>2, TablesStay DEF RequireAdmin, rbacVars, TablesOK, RestOK
  <2>5. QED
    BY <2>3, <2>4
<1>3. CASE RbacEnds(p)
  <2>1. req' \in [Procs -> Requested]
    BY <1>3, Moving DEF RbacEnds, Dies, Ends, Requested
  <2>2. TablesOK'
    BY <1>3, TablesStay DEF RbacEnds, rbacVars, TablesOK, RestOK
  <2>3. QED
    BY <2>1, <2>2
<1>4. QED
  BY <1>1, <1>2, <1>3

LEMMA LoadSteps ==
  ASSUME RbacInv, NEW p \in Procs,
         LoadPermission(p) \/ LoadTemplate(p) \/ LoadTemplateRule(p) \/ LoadGroup(p)
  PROVE  RbacInv'
<1> USE DEF RbacInv
<1>1. UNCHANGED rbacVars
  BY DEF LoadPermission, LoadTemplate, LoadTemplateRule, LoadGroup
<1>2. TablesOK'
  BY <1>1, TablesStay DEF rbacVars, TablesOK, RestOK
<1>3. CASE LoadPermission(p)
  <2>1. PICK i \in RowIds(perms) : Moves(p, [pc |-> "update", id |-> i, cur |-> BodyOf(perms[i])])
    BY <1>3 DEF LoadPermission
  <2>2. [pc |-> "update", id |-> i, cur |-> BodyOf(perms[i])] \in Requested
    BY RowTypes DEF Permission, BodyOf, Body, Updating, Requested
  <2>3. QED
    BY <1>2, <2>1, <2>2, Moving
<1>4. CASE LoadTemplateRule(p)
  <2>1. PICK i \in RowIds(trules) :
               Moves(p, [pc |-> "updaterule", id |-> i, cur |-> BodyOf(trules[i])])
    BY <1>4 DEF LoadTemplateRule
  <2>2. [pc |-> "updaterule", id |-> i, cur |-> BodyOf(trules[i])] \in Requested
    BY RowTypes DEF TemplateRule, BodyOf, Body, Updating, Requested
  <2>3. QED
    BY <1>2, <2>1, <2>2, Moving
<1>5. CASE LoadTemplate(p)
  <2>1. PICK t \in templates : Moves(p, [pc |-> "addrules", template |-> t])
    BY <1>5 DEF LoadTemplate
  <2>2. [pc |-> "addrules", template |-> t] \in Requested
    BY DEF TablesOK, RulesOK, Filling, Requested
  <2>3. QED
    BY <1>2, <2>1, <2>2, Moving
<1>6. CASE LoadGroup(p)
  <2>1. PICK g \in groups, S \in SUBSET RowIds(users) \ {{}} :
               Moves(p, [pc |-> "addmembers", group |-> g, todo |-> S])
    BY <1>6 DEF LoadGroup
  <2>2. g \in Groups /\ S \subseteq Users
    BY RowTypes DEF TablesOK, UsersOK
  <2>3. [pc |-> "addmembers", group |-> g, todo |-> S] \in Requested
    BY <2>2 DEF Filling, Requested
  <2>4. QED
    BY <1>2, <2>1, <2>3, Moving
<1>7. QED
  BY <1>3, <1>4, <1>5, <1>6

-----------------------------------------------------------------------------
(* Requests that write permissions and rules of templates *)

LEMMA BodyFields ==
  ASSUME NEW cur \in Body, NEW body \in Bodies, NEW named
  PROVE  /\ body \in Body
         /\ Merged(cur, body, named).bucket \in SeenBuckets \cup {NoBucket}
         /\ Merged(cur, body, named).prefix \in Paths
         /\ Merged(cur, body, named).actions \in SUBSET Acts
<1>1. body \in Body /\ DOMAIN cur = {"bucket", "prefix", "actions"}
  BY RbacAssumption DEF Body
<1>2. \A f \in {"bucket", "prefix", "actions"} :
        Merged(cur, body, named)[f] = IF f \in named THEN body[f] ELSE cur[f]
  BY <1>1 DEF Merged
<1>3. QED
  BY <1>1, <1>2 DEF Body

(* A row of permissions is written that refers to what is there. *)
LEMMA PermissionWritten ==
  ASSUME RbacInv, NEW p \in Procs, Changes(p, Idle), NEW i \in PermIds, NEW row \in Permission,
         SubjectThere(row.subject), BucketThere(row.bucket),
         perms' = [perms EXCEPT ![i] = row], used' \in {used, used \cup {i}},
         UNCHANGED <<users, members, groups, templates, trules, assigned, buckets, createdBy, asking>>
  PROVE  RbacInv'
<1> USE DEF RbacInv
<1>1. req' \in [Procs -> Requested]
  BY Changing DEF Requested
<1>2. PermsOK'
  <2>1. /\ perms' \in [PermIds -> Permission \cup {None}]
        /\ \A j \in PermIds : perms'[j] = IF j = i THEN row ELSE perms[j]
    BY DEF TablesOK, PermsOK
  <2>2. ASSUME NEW j \in RowIds(perms')
        PROVE  SubjectThere(perms'[j].subject) /\ BucketThere(perms'[j].bucket)
    BY <2>1 DEF TablesOK, PermsOK, RowIds
  <2>3. QED
    BY <2>1, <2>2 DEF PermsOK, SubjectThere, BucketThere
<1>3. UsersOK' /\ RulesOK' /\ AssignedOK' /\ RestOK'
  BY DEF TablesOK, UsersOK, RulesOK, AssignedOK, RestOK, SubjectThere, BucketThere
<1>4. QED
  BY <1>1, <1>2, <1>3 DEF TablesOK

LEMMA CreatePermissionStep ==
  ASSUME RbacInv, NEW p \in Procs, CreatePermission(p)
  PROVE  RbacInv'
<1>1. PICK i \in PermIds, s \in UserSubjects \cup RoleSubjects \cup GroupSubjects, body \in Bodies :
        /\ SubjectThere(s) /\ BucketThere(body.bucket)
        /\ perms' = [perms EXCEPT ![i] = Rule(s, body)]
        /\ used' = used \cup {i}
  BY DEF CreatePermission, InsertPermission
<1>2. /\ Rule(s, body) \in Permission
      /\ Rule(s, body).subject = s /\ Rule(s, body).bucket = body.bucket
  BY RbacAssumption DEF Rule, Body, Permission
<1>3. QED
  BY <1>1, <1>2, PermissionWritten DEF CreatePermission, InsertPermission

LEMMA UpdatePermissionStep ==
  ASSUME RbacInv, NEW p \in Procs, UpdatePermission(p)
  PROVE  RbacInv'
<1> DEFINE i == req[p].id
           cur == req[p].cur
<1>1. PICK body \in Bodies, named \in Fields :
        /\ perms[i] # None /\ BucketThere(Merged(cur, body, named).bucket)
        /\ perms' = [perms EXCEPT ![i] = Rule(perms[i].subject, Merged(cur, body, named))]
  BY DEF UpdatePermission, Written
<1>2. i \in PermIds /\ cur \in Body
  BY DEF RbacInv, UpdatePermission, At, Requested, Idle, Asking, Decided, Managing, Updating, Filling
<1>3. /\ perms[i] \in Permission /\ SubjectThere(perms[i].subject)
  BY <1>1, <1>2 DEF RbacInv, TablesOK, PermsOK, RowIds
<1> DEFINE new == Merged(cur, body, named)
           row == Rule(perms[i].subject, new)
<1>4. /\ new.bucket \in SeenBuckets \cup {NoBucket} /\ new.prefix \in Paths
      /\ new.actions \in SUBSET Acts
  BY <1>2, BodyFields
<1>5. BucketThere(new.bucket) /\ perms' = [perms EXCEPT ![i] = row]
  BY <1>1
<1> HIDE DEF new, i
<1>6. row \in Permission /\ row.subject = perms[i].subject /\ row.bucket = new.bucket
  BY <1>3, <1>4 DEF Rule, Permission
<1>7. /\ Changes(p, Idle) /\ used' = used
      /\ UNCHANGED <<users, members, groups, templates, trules, assigned, buckets, createdBy, asking>>
  BY DEF UpdatePermission
<1> HIDE DEF row
<1>8. QED
  BY <1>2, <1>3, <1>5, <1>6, <1>7, PermissionWritten

LEMMA DeletePermissionStep ==
  ASSUME RbacInv, NEW p \in Procs, DeletePermission(p)
  PROVE  RbacInv'
<1> USE DEF RbacInv
<1>1. PICK i \in RowIds(perms) : perms' = [perms EXCEPT ![i] = None]
  BY DEF DeletePermission
<1>2. req' \in [Procs -> Requested]
  BY Changing DEF DeletePermission, Requested
<1>3. PermsOK'
  <2>1. /\ perms' \in [PermIds -> Permission \cup {None}]
        /\ \A j \in RowIds(perms') : j \in RowIds(perms) /\ perms'[j] = perms[j]
    BY <1>1 DEF TablesOK, PermsOK, RowIds
  <2>2. QED
    BY <2>1 DEF DeletePermission, TablesOK, PermsOK, SubjectThere, BucketThere
<1>4. UsersOK' /\ RulesOK' /\ AssignedOK' /\ RestOK'
  BY DEF DeletePermission, TablesOK, UsersOK, RulesOK, AssignedOK, RestOK, SubjectThere, BucketThere
<1>5. QED
  BY <1>2, <1>3, <1>4 DEF TablesOK

LEMMA CreateTemplateStep ==
  ASSUME RbacInv, NEW p \in Procs, CreateTemplate(p)
  PROVE  RbacInv'
<1> USE DEF RbacInv
<1>1. PICK t \in Templates \ used :
        /\ templates' = templates \cup {t} /\ used' = used \cup {t}
        /\ Changes(p, [pc |-> "addrules", template |-> t])
  BY DEF CreateTemplate, InsertTemplate
<1>2. [pc |-> "addrules", template |-> t] \in Requested
  BY DEF Filling, Requested
<1>3. req' \in [Procs -> Requested]
  BY <1>1, <1>2, Changing
<1>4. UNCHANGED <<users, members, groups, perms, trules, assigned, buckets, createdBy, asking>>
  BY DEF CreateTemplate, InsertTemplate
<1>5. UsersOK' /\ PermsOK' /\ RestOK'
  BY <1>1, <1>4 DEF TablesOK, UsersOK, PermsOK, RestOK, SubjectThere, BucketThere
<1>6. RulesOK' /\ AssignedOK'
  BY <1>1, <1>4 DEF TablesOK, RulesOK, AssignedOK, SubjectThere, BucketThere
<1>7. QED
  BY <1>3, <1>5, <1>6 DEF TablesOK

(* A rule of a template is written. *)
LEMMA TemplateRuleWritten ==
  ASSUME RbacInv, req' \in [Procs -> Requested], NEW i \in RuleIds, NEW row \in TemplateRule,
         row.template \in templates, BucketThere(row.bucket),
         trules' = [trules EXCEPT ![i] = row], used' \in {used, used \cup {i}},
         UNCHANGED <<users, members, groups, perms, templates, assigned, buckets, createdBy, asking>>
  PROVE  RbacInv'
<1> USE DEF RbacInv
<1>1. RulesOK'
  <2>1. /\ trules' \in [RuleIds -> TemplateRule \cup {None}]
        /\ \A j \in RuleIds : trules'[j] = IF j = i THEN row ELSE trules[j]
    BY DEF TablesOK, RulesOK
  <2>2. ASSUME NEW j \in RowIds(trules')
        PROVE  trules'[j].template \in templates /\ BucketThere(trules'[j].bucket)
    BY <2>1 DEF TablesOK, RulesOK, RowIds
  <2>3. templates' = templates /\ templates \subseteq Templates /\ buckets' = buckets
    BY DEF TablesOK, RulesOK
  <2> HIDE DEF RbacInv
  <2>4. QED
    BY <2>1, <2>2, <2>3 DEF RulesOK, BucketThere
<1>2. UsersOK' /\ PermsOK' /\ AssignedOK' /\ RestOK'
  BY DEF TablesOK, UsersOK, PermsOK, AssignedOK, RestOK, SubjectThere, BucketThere
<1>3. QED
  BY <1>1, <1>2 DEF TablesOK

LEMMA InsertTemplateRuleStep ==
  ASSUME RbacInv, NEW p \in Procs, InsertTemplateRule(p)
  PROVE  RbacInv'
<1> DEFINE t == req[p].template
<1>1. PICK i \in RuleIds, body \in Bodies :
        /\ BucketThere(body.bucket) /\ t \in templates
        /\ trules' = [trules EXCEPT ![i] = [template |-> t, bucket |-> body.bucket,
                                             prefix |-> body.prefix, actions |-> body.actions]]
        /\ used' = used \cup {i}
  BY DEF InsertTemplateRule, InsertRule, RuleOf
<1> DEFINE row == [template |-> t, bucket |-> body.bucket, prefix |-> body.prefix,
                   actions |-> body.actions]
<1>2. row \in TemplateRule
  BY <1>1, RbacAssumption DEF RbacInv, TablesOK, RulesOK, Body, TemplateRule
<1>3. req' \in [Procs -> Requested]
  <2>1. req[p] \in Requested /\ Idle \in Requested
    BY DEF RbacInv, Requested
  <2>2. QED
    BY <2>1, Changing DEF RbacInv, InsertTemplateRule, InsertRule, RuleOf
<1>4. row.template = t /\ row.bucket = body.bucket
  OBVIOUS
<1> HIDE DEF t
<1>5. QED
  BY <1>1, <1>2, <1>3, <1>4, TemplateRuleWritten DEF InsertTemplateRule, InsertRule, RuleOf

LEMMA UpdateTemplateRuleStep ==
  ASSUME RbacInv, NEW p \in Procs, UpdateTemplateRule(p)
  PROVE  RbacInv'
<1> DEFINE i == req[p].id
           cur == req[p].cur
<1>1. PICK body \in Bodies, named \in Fields :
        LET new == Merged(cur, body, named) IN
        /\ BucketThere(new.bucket) /\ trules[i] # None
        /\ trules' = [trules EXCEPT ![i] = [template |-> trules[i].template, bucket |-> new.bucket,
                                             prefix |-> new.prefix, actions |-> new.actions]]
  BY DEF UpdateTemplateRule, UpdateRule, RuleOf
<1>2. i \in RuleIds /\ cur \in Body
  BY DEF RbacInv, UpdateTemplateRule, UpdateRule, RuleOf, At, Requested, Idle, Asking, Decided, Managing, Updating, Filling
<1>3. trules[i] \in TemplateRule /\ trules[i].template \in templates
  BY <1>1, <1>2 DEF RbacInv, TablesOK, RulesOK, RowIds
<1> DEFINE new == Merged(cur, body, named)
           row == [template |-> trules[i].template, bucket |-> new.bucket,
                   prefix |-> new.prefix, actions |-> new.actions]
<1>4. /\ new.bucket \in SeenBuckets \cup {NoBucket} /\ new.prefix \in Paths
      /\ new.actions \in SUBSET Acts
  BY <1>2, BodyFields
<1>5. BucketThere(new.bucket) /\ trules' = [trules EXCEPT ![i] = row]
  BY <1>1
<1> HIDE DEF new
<1>6. row \in TemplateRule /\ row.template \in templates /\ row.bucket = new.bucket
  BY <1>3, <1>4 DEF TemplateRule
<1>7. req' \in [Procs -> Requested]
  BY Changing DEF RbacInv, UpdateTemplateRule, UpdateRule, RuleOf, Requested
<1>8. UNCHANGED <<users, members, groups, perms, templates, assigned, buckets, createdBy, used, asking>>
  BY DEF UpdateTemplateRule, UpdateRule, RuleOf
<1> HIDE DEF row, i
<1>9. QED
  BY <1>2, <1>5, <1>6, <1>7, <1>8, TemplateRuleWritten

LEMMA DeleteTemplateRuleStep ==
  ASSUME RbacInv, NEW p \in Procs, DeleteTemplateRule(p)
  PROVE  RbacInv'
<1> USE DEF RbacInv
<1>1. PICK i \in RowIds(trules) : trules' = [trules EXCEPT ![i] = None]
  BY DEF DeleteTemplateRule
<1>2. req' \in [Procs -> Requested]
  BY Changing DEF DeleteTemplateRule, Requested
<1>3. RulesOK'
  <2>1. /\ trules' \in [RuleIds -> TemplateRule \cup {None}]
        /\ \A j \in RowIds(trules') : j \in RowIds(trules) /\ trules'[j] = trules[j]
    BY <1>1 DEF TablesOK, RulesOK, RowIds
  <2>2. QED
    BY <2>1 DEF DeleteTemplateRule, TablesOK, RulesOK, BucketThere
<1>4. UsersOK' /\ PermsOK' /\ AssignedOK' /\ RestOK'
  BY DEF DeleteTemplateRule, TablesOK, UsersOK, PermsOK, AssignedOK, RestOK, SubjectThere, BucketThere
<1>5. QED
  BY <1>2, <1>3, <1>4 DEF TablesOK

LEMMA DeleteTemplateStep ==
  ASSUME RbacInv, NEW p \in Procs, DeleteTemplate(p)
  PROVE  RbacInv'
<1> USE DEF RbacInv
<1>1. PICK t \in templates :
        /\ templates' = templates \ {t}
        /\ trules' = [i \in RuleIds |-> IF i \in RowIds(trules) /\ trules[i].template = t
                                        THEN None ELSE trules[i]]
        /\ assigned' = [i \in AssignIds |-> IF i \in RowIds(assigned) /\ assigned[i].template = t
                                            THEN None ELSE assigned[i]]
  BY DEF DeleteTemplate
<1>2. req' \in [Procs -> Requested]
  BY Changing DEF DeleteTemplate, Requested
<1>3. UNCHANGED <<users, members, groups, perms, buckets, createdBy, used, asking>>
  BY DEF DeleteTemplate
<1>4. RulesOK'
  <2>1. /\ trules' \in [RuleIds -> TemplateRule \cup {None}]
        /\ \A j \in RowIds(trules') :
             j \in RowIds(trules) /\ trules'[j] = trules[j] /\ trules[j].template # t
    BY <1>1 DEF TablesOK, RulesOK, RowIds
  <2>2. QED
    BY <1>1, <1>3, <2>1 DEF TablesOK, RulesOK, BucketThere
<1>5. AssignedOK'
  <2>1. /\ assigned' \in [AssignIds -> Assignment \cup {None}]
        /\ \A j \in RowIds(assigned') :
             j \in RowIds(assigned) /\ assigned'[j] = assigned[j] /\ assigned[j].template # t
    BY <1>1 DEF TablesOK, AssignedOK, RowIds
  <2>2. QED
    BY <1>1, <1>3, <2>1 DEF TablesOK, AssignedOK, SubjectThere
<1>6. UsersOK' /\ PermsOK' /\ RestOK'
  BY <1>3 DEF TablesOK, UsersOK, PermsOK, RestOK, SubjectThere, BucketThere
<1>7. QED
  BY <1>2, <1>4, <1>5, <1>6 DEF TablesOK

LEMMA AssignmentSteps ==
  ASSUME RbacInv, NEW p \in Procs, CreateAssignment(p) \/ DeleteAssignment(p)
  PROVE  RbacInv'
<1> USE DEF RbacInv
<1>1. req' \in [Procs -> Requested]
  BY Changing DEF CreateAssignment, InsertAssignment, DeleteAssignment, Requested
<1>2. UNCHANGED <<users, members, groups, perms, templates, trules, buckets, createdBy, asking>>
  BY DEF CreateAssignment, InsertAssignment, DeleteAssignment
<1>3. UsersOK' /\ PermsOK' /\ RulesOK'
  BY <1>2 DEF TablesOK, UsersOK, PermsOK, RulesOK, SubjectThere, BucketThere
<1>4. CASE CreateAssignment(p)
  <2>1. PICK i \in AssignIds, t \in templates, s \in UserSubjects \cup GroupSubjects :
          /\ SubjectThere(s)
          /\ assigned' = [assigned EXCEPT ![i] = [template |-> t, subject |-> s]]
          /\ used' = used \cup {i}
    BY <1>4 DEF CreateAssignment, InsertAssignment
  <2>2. [template |-> t, subject |-> s] \in Assignment
    BY DEF TablesOK, RulesOK, Assignment
  <2>3. /\ assigned' \in [AssignIds -> Assignment \cup {None}]
        /\ \A j \in AssignIds : assigned'[j] = IF j = i THEN [template |-> t, subject |-> s]
                                               ELSE assigned[j]
    BY <2>1, <2>2 DEF TablesOK, AssignedOK
  <2>4. ASSUME NEW j \in RowIds(assigned')
        PROVE  assigned'[j].template \in templates /\ SubjectThere(assigned'[j].subject)
    BY <2>1, <2>3 DEF TablesOK, AssignedOK, RowIds
  <2>5. AssignedOK'
    BY <1>2, <2>3, <2>4 DEF AssignedOK, SubjectThere
  <2>6. RestOK'
    BY <1>2, <2>1 DEF TablesOK, RestOK
  <2>7. QED
    BY <1>1, <1>3, <2>5, <2>6 DEF TablesOK
<1>5. CASE DeleteAssignment(p)
  <2>1. PICK i \in RowIds(assigned) : assigned' = [assigned EXCEPT ![i] = None]
    BY <1>5 DEF DeleteAssignment
  <2>2. /\ assigned' \in [AssignIds -> Assignment \cup {None}]
        /\ \A j \in RowIds(assigned') : j \in RowIds(assigned) /\ assigned'[j] = assigned[j]
    BY <2>1 DEF TablesOK, AssignedOK, RowIds
  <2>3. AssignedOK'
    BY <1>2, <2>2 DEF TablesOK, AssignedOK, SubjectThere
  <2>4. RestOK'
    BY <1>2, <1>5 DEF DeleteAssignment, TablesOK, RestOK
  <2>5. QED
    BY <1>1, <1>3, <2>3, <2>4 DEF TablesOK
<1>6. QED
  BY <1>4, <1>5

-----------------------------------------------------------------------------
(* Requests that write groups, users and buckets *)

Subjects == UserSubjects \cup RoleSubjects \cup GroupSubjects

(* Every subject is there that was, but for s. *)
StillThere(s) == \A x \in Subjects : SubjectThere(x) /\ x # s => SubjectThere(x)'

LEMMA SubjectsOfRows ==
  ASSUME TablesOK
  PROVE  /\ \A i \in RowIds(perms) : perms[i].subject \in Subjects
         /\ \A i \in RowIds(assigned) : assigned[i].subject \in Subjects
BY RowTypes DEF Permission, Assignment, Subjects

LEMMA RowsOfSubject ==
  ASSUME TablesOK, NEW s, SubjectGoes(s), StillThere(s),
         UNCHANGED <<templates, trules, buckets>>
  PROVE  PermsOK' /\ AssignedOK' /\ RulesOK'
<1>1. /\ perms' \in [PermIds -> Permission \cup {None}]
      /\ \A j \in RowIds(perms') : j \in RowIds(perms) /\ perms'[j] = perms[j] /\ perms[j].subject # s
  BY DEF SubjectGoes, TablesOK, PermsOK, RowIds
<1>2. /\ assigned' \in [AssignIds -> Assignment \cup {None}]
      /\ \A j \in RowIds(assigned') :
           j \in RowIds(assigned) /\ assigned'[j] = assigned[j] /\ assigned[j].subject # s
  BY DEF SubjectGoes, TablesOK, AssignedOK, RowIds
<1>3. ASSUME NEW j \in RowIds(perms')
      PROVE  SubjectIn(users', groups', perms'[j].subject) /\ BucketThere(perms'[j].bucket)
  <2>1. /\ SubjectThere(perms[j].subject) /\ BucketThere(perms[j].bucket)
        /\ perms[j].subject \in Subjects /\ perms[j].subject # s /\ perms'[j] = perms[j]
    BY <1>1, <1>3, SubjectsOfRows DEF TablesOK, PermsOK
  <2>2. SubjectIn(users', groups', perms[j].subject)
    BY <2>1 DEF StillThere, SubjectThere
  <2>3. QED
    BY <2>1, <2>2
<1>4. ASSUME NEW j \in RowIds(assigned')
      PROVE  SubjectIn(users', groups', assigned'[j].subject) /\ assigned'[j].template \in templates
  <2>1. /\ SubjectThere(assigned[j].subject) /\ assigned[j].template \in templates
        /\ assigned[j].subject \in Subjects /\ assigned[j].subject # s /\ assigned'[j] = assigned[j]
    BY <1>2, <1>4, SubjectsOfRows DEF TablesOK, AssignedOK
  <2>2. SubjectIn(users', groups', assigned[j].subject)
    BY <2>1 DEF StillThere, SubjectThere
  <2>3. QED
    BY <2>1, <2>2
<1>5. RulesOK'
  BY DEF TablesOK, RulesOK, BucketThere
<1>6. PermsOK'
  BY <1>1, <1>3 DEF PermsOK, SubjectThere, BucketThere
<1>7. AssignedOK'
  BY <1>2, <1>4 DEF AssignedOK, SubjectThere
<1>8. QED
  BY <1>5, <1>6, <1>7

(* No subject goes. *)
LEMMA SubjectsStay ==
  ASSUME TablesOK, \A x \in Subjects : SubjectThere(x) => SubjectThere(x)',
         UNCHANGED <<perms, assigned, templates, trules, buckets>>
  PROVE  PermsOK' /\ AssignedOK' /\ RulesOK'
<1>1. ASSUME NEW j \in RowIds(perms)
      PROVE  SubjectIn(users', groups', perms[j].subject) /\ BucketThere(perms[j].bucket)
  BY <1>1, SubjectsOfRows DEF TablesOK, PermsOK, SubjectThere
<1>2. ASSUME NEW j \in RowIds(assigned)
      PROVE  SubjectIn(users', groups', assigned[j].subject) /\ assigned[j].template \in templates
  BY <1>2, SubjectsOfRows DEF TablesOK, AssignedOK, SubjectThere
<1>3. /\ perms \in [PermIds -> Permission \cup {None}]
      /\ assigned \in [AssignIds -> Assignment \cup {None}] /\ RulesOK
  BY DEF TablesOK, PermsOK, AssignedOK
<1>4. RulesOK'
  BY <1>3 DEF RulesOK, BucketThere
<1>5. PermsOK'
  BY <1>1, <1>3 DEF PermsOK, SubjectThere, BucketThere
<1>6. AssignedOK'
  BY <1>2, <1>3 DEF AssignedOK, SubjectThere
<1>7. QED
  BY <1>4, <1>5, <1>6

LEMMA GroupSteps ==
  ASSUME RbacInv, NEW p \in Procs, CreateGroup(p) \/ DeleteGroup(p) \/ RemoveMember(p)
  PROVE  RbacInv'
<1> USE DEF RbacInv
<1>1. req' \in [Procs -> Requested]
  BY Changing DEF CreateGroup, InsertGroup, DeleteGroup, RemoveMember, Requested
<1>2. CASE CreateGroup(p)
  <2>1. PICK g \in Groups \ used : groups' = groups \cup {g} /\ used' = used \cup {g}
    BY <1>2 DEF CreateGroup, InsertGroup
  <2>2. UNCHANGED <<users, members, perms, templates, trules, assigned, buckets, createdBy, asking>>
    BY <1>2 DEF CreateGroup, InsertGroup
  <2>3. \A x \in Subjects : SubjectThere(x) => SubjectThere(x)'
    BY <2>1, <2>2 DEF SubjectThere, SubjectIn
  <2>4. UsersOK' /\ RestOK'
    BY <2>1, <2>2 DEF TablesOK, UsersOK, RestOK
  <2>5. QED
    BY <1>1, <2>2, <2>3, <2>4, SubjectsStay DEF TablesOK
<1>3. CASE DeleteGroup(p)
  <2>1. PICK g \in groups :
          /\ groups' = groups \ {g} /\ members' = {m \in members : m[1] # g}
          /\ SubjectGoes(<<"group", g>>)
    BY <1>3 DEF DeleteGroup
  <2>2. UNCHANGED <<users, templates, trules, buckets, createdBy, used, asking>>
    BY <1>3 DEF DeleteGroup
  <2>3. StillThere(<<"group", g>>)
    <3>1. \A x \in Subjects : x = <<x[1], x[2]>>
      BY DEF Subjects, UserSubjects, RoleSubjects, GroupSubjects
    <3>2. QED
      BY <2>1, <2>2, <3>1 DEF StillThere, SubjectThere, SubjectIn
  <2>4. members' \subseteq groups' \X RowIds(users')
    BY <2>1, <2>2 DEF TablesOK, UsersOK
  <2>5. UsersOK' /\ RestOK'
    BY <2>1, <2>2, <2>4 DEF TablesOK, UsersOK, RestOK
  <2>6. QED
    BY <1>1, <2>1, <2>2, <2>3, <2>5, RowsOfSubject DEF TablesOK
<1>4. CASE RemoveMember(p)
  <2>1. /\ UNCHANGED <<users, groups, perms, templates, trules, assigned, buckets, createdBy, used, asking>>
        /\ members' \subseteq members
    BY <1>4 DEF RemoveMember
  <2>2. UsersOK' /\ PermsOK' /\ RulesOK' /\ AssignedOK' /\ RestOK'
    BY <2>1 DEF TablesOK, UsersOK, PermsOK, RulesOK, AssignedOK, RestOK, SubjectThere, BucketThere
  <2>3. QED
    BY <1>1, <2>2 DEF TablesOK
<1>5. QED
  BY <1>2, <1>3, <1>4

LEMMA AddMemberStep ==
  ASSUME RbacInv, NEW p \in Procs, AddMember(p)
  PROVE  RbacInv'
<1> USE DEF RbacInv
<1>1. PICK u \in req[p].todo :
        /\ users[u] # None /\ members' = members \cup {<<req[p].group, u>>}
        /\ Changes(p, IF req[p].todo = {u} THEN Idle ELSE [req[p] EXCEPT !.todo = @ \ {u}])
  BY DEF AddMember
<1>2. /\ req[p] \in [pc : {"addmembers"}, group : Groups, todo : SUBSET Users]
      /\ req[p].group \in groups
  BY DEF AddMember, At, Requested, Idle, Asking, Decided, Managing, Updating, Filling
<1>3. (IF req[p].todo = {u} THEN Idle ELSE [req[p] EXCEPT !.todo = @ \ {u}]) \in Requested
  BY <1>2 DEF Requested, Filling
<1>4. req' \in [Procs -> Requested]
  BY <1>1, <1>3, Changing
<1>5. UNCHANGED <<users, groups, perms, templates, trules, assigned, buckets, createdBy, used, asking>>
  BY DEF AddMember
<1>6. u \in RowIds(users)
  BY <1>1, <1>2 DEF TablesOK, UsersOK, RowIds
<1>7. UsersOK'
  BY <1>1, <1>2, <1>5, <1>6 DEF TablesOK, UsersOK
<1>8. PermsOK' /\ RulesOK' /\ AssignedOK' /\ RestOK'
  BY <1>5 DEF TablesOK, PermsOK, RulesOK, AssignedOK, RestOK, SubjectThere, BucketThere
<1>9. QED
  BY <1>4, <1>7, <1>8 DEF TablesOK

(* A user's row is written. *)
LEMMA UserWritten ==
  ASSUME RbacInv, NEW p \in Procs, Changes(p, Idle), NEW u \in Users, NEW row \in Member,
         users' = [users EXCEPT ![u] = row], used' \in {used, used \cup {u}}, asking' \in Nat,
         UNCHANGED <<members, groups, perms, templates, trules, assigned, buckets, createdBy>>
  PROVE  RbacInv'
<1> USE DEF RbacInv
<1>1. req' \in [Procs -> Requested]
  BY Changing DEF Requested
<1>2. /\ users' \in [Users -> Member \cup {None}] /\ row # None
      /\ \A v \in Users : users'[v] = IF v = u THEN row ELSE users[v]
  BY RbacAssumption DEF TablesOK, UsersOK
<1>3. RowIds(users) \subseteq RowIds(users') /\ users'[Owner] # None
  BY <1>2, RbacAssumption DEF TablesOK, UsersOK, RowIds
<1>4. UsersOK'
  BY <1>2, <1>3 DEF TablesOK, UsersOK
<1>5. RestOK'
  BY DEF TablesOK, RestOK
<1>6. \A x \in Subjects : SubjectThere(x) => SubjectThere(x)'
  <2>1. \A x \in Subjects : x[1] = "user" => x[2] \in Users
    BY DEF Subjects, UserSubjects, RoleSubjects, GroupSubjects
  <2>2. QED
    BY <1>2, <2>1 DEF SubjectThere, SubjectIn
<1>7. PermsOK' /\ AssignedOK' /\ RulesOK'
  BY <1>6, SubjectsStay
<1>8. QED
  BY <1>1, <1>4, <1>5, <1>7 DEF TablesOK

LEMMA UserSteps ==
  ASSUME RbacInv, NEW p \in Procs, CreateUser(p) \/ UpdateUser(p) \/ Upsert(p)
  PROVE  RbacInv'
<1>1. CASE CreateUser(p)
  <2>1. PICK u \in Users, role \in Roles :
          users' = [users EXCEPT ![u] = [role |-> role, active |-> TRUE]] /\ used' = used \cup {u}
    BY <1>1 DEF CreateUser, InsertMember
  <2>2. [role |-> role, active |-> TRUE] \in Member /\ asking' \in Nat
    BY <1>1 DEF Member, CreateUser, InsertMember, RbacInv, TablesOK, RestOK
  <2>3. QED
    BY <1>1, <2>1, <2>2, UserWritten DEF CreateUser, InsertMember
<1>2. CASE UpdateUser(p)
  <2>1. PICK u \in RowIds(users), role \in Roles, active \in BOOLEAN :
          users' = [users EXCEPT ![u] = [role |-> role, active |-> active]]
    BY <1>2 DEF UpdateUser, UpdateMember
  <2>2. [role |-> role, active |-> active] \in Member /\ asking' \in Nat /\ u \in Users
    BY <1>2, RowTypes DEF Member, UpdateUser, UpdateMember, RbacInv, TablesOK, RestOK
  <2>3. QED
    BY <1>2, <2>1, <2>2, UserWritten DEF UpdateUser, UpdateMember
<1>3. CASE Upsert(p)
  <2>1. PICK u \in RowIds(users), active \in BOOLEAN :
          users' = [users EXCEPT ![u] = [role |-> "tenant_admin", active |-> active]]
    BY <1>3 DEF Upsert
  <2>2. [role |-> "tenant_admin", active |-> active] \in Member /\ asking' \in Nat /\ u \in Users
    BY <1>3, RowTypes DEF Member, Roles, Upsert, Comes, RbacInv, TablesOK, RestOK
  <2>3. QED
    BY <1>3, <2>1, <2>2, UserWritten DEF Upsert
<1>4. QED
  BY <1>1, <1>2, <1>3

LEMMA DeleteUserStep ==
  ASSUME RbacInv, NEW p \in Procs, DeleteUser(p)
  PROVE  RbacInv'
<1> USE DEF RbacInv
<1>1. PICK u \in RowIds(users) \ {req[p].user, Owner} :
        /\ users' = [users EXCEPT ![u] = None] /\ members' = {m \in members : m[2] # u}
        /\ SubjectGoes(<<"user", u>>)
        /\ createdBy' = [b \in SeenBuckets |-> IF createdBy[b] = u THEN None ELSE createdBy[b]]
  BY DEF DeleteUser
<1>2. UNCHANGED <<groups, templates, trules, buckets, used, asking>>
  BY DEF DeleteUser
<1>3. req' \in [Procs -> Requested]
  BY Changing DEF DeleteUser, Requested
<1>4. /\ users' \in [Users -> Member \cup {None}] /\ u # Owner
      /\ \A v \in Users : users'[v] = IF v = u THEN None ELSE users[v]
  BY <1>1 DEF TablesOK, UsersOK
<1>5. /\ RowIds(users') = RowIds(users) \ {u}
      /\ users'[Owner] # None
  BY <1>4, RbacAssumption DEF TablesOK, UsersOK, RowIds
<1>6. members' \subseteq groups' \X RowIds(users')
  BY <1>1, <1>2, <1>5 DEF TablesOK, UsersOK
<1>7. createdBy' \in [SeenBuckets -> RowIds(users') \cup {None}]
  BY <1>1, <1>5 DEF TablesOK, UsersOK
<1>8. UsersOK' /\ RestOK'
  BY <1>2, <1>4, <1>5, <1>6, <1>7 DEF TablesOK, UsersOK, RestOK
<1>9. StillThere(<<"user", u>>)
  <2>1. \A x \in Subjects : x = <<x[1], x[2]>> /\ (x[1] = "user" => x[2] \in Users)
    BY DEF Subjects, UserSubjects, RoleSubjects, GroupSubjects
  <2>2. QED
    BY <1>2, <1>4, <2>1 DEF StillThere, SubjectThere, SubjectIn
<1>10. QED
  BY <1>1, <1>2, <1>3, <1>8, <1>9, RowsOfSubject DEF TablesOK

LEMMA DropBucketStep ==
  ASSUME RbacInv, NEW p \in Procs, DropBucket(p)
  PROVE  RbacInv'
<1> USE DEF RbacInv
<1>1. PICK b \in buckets :
        /\ buckets' = buckets \ {b} /\ createdBy' = [createdBy EXCEPT ![b] = None]
        /\ perms' = [i \in PermIds |-> IF i \in RowIds(perms) /\ perms[i].bucket = b
                                       THEN None ELSE perms[i]]
        /\ trules' = [i \in RuleIds |-> IF i \in RowIds(trules) /\ trules[i].bucket = b
                                        THEN None ELSE trules[i]]
  BY DEF DropBucket
<1>2. UNCHANGED <<users, members, groups, templates, assigned, used>> /\ asking' \in Nat
  BY DEF DropBucket, Comes, TablesOK, RestOK
<1>3. req' \in [Procs -> Requested]
  BY Changing DEF DropBucket, Requested
<1>4. PermsOK'
  <2>1. /\ perms' \in [PermIds -> Permission \cup {None}]
        /\ \A j \in RowIds(perms') :
             j \in RowIds(perms) /\ perms'[j] = perms[j] /\ perms[j].bucket # b
    BY <1>1 DEF TablesOK, PermsOK, RowIds
  <2>2. QED
    BY <1>1, <1>2, <2>1 DEF TablesOK, PermsOK, SubjectThere, BucketThere
<1>5. RulesOK'
  <2>1. /\ trules' \in [RuleIds -> TemplateRule \cup {None}]
        /\ \A j \in RowIds(trules') :
             j \in RowIds(trules) /\ trules'[j] = trules[j] /\ trules[j].bucket # b
    BY <1>1 DEF TablesOK, RulesOK, RowIds
  <2>2. QED
    BY <1>1, <1>2, <2>1 DEF TablesOK, RulesOK, BucketThere
<1>6. createdBy' \in [SeenBuckets -> RowIds(users) \cup {None}]
  BY <1>1 DEF TablesOK, UsersOK
<1>7. UsersOK' /\ AssignedOK' /\ RestOK'
  BY <1>1, <1>2, <1>6 DEF TablesOK, UsersOK, AssignedOK, RestOK, SubjectThere
<1>8. QED
  BY <1>3, <1>4, <1>5, <1>7 DEF TablesOK

-----------------------------------------------------------------------------
(* The theorems *)

LEMMA RbacInvStep == RbacInv /\ [RbacNext]_<<req, rbacVars>> => RbacInv'
<1> SUFFICES ASSUME RbacInv, [RbacNext]_<<req, rbacVars>>
             PROVE  RbacInv'
  OBVIOUS
<1>1. CASE UNCHANGED <<req, rbacVars>>
  BY <1>1, TablesStay DEF rbacVars, RbacInv, TablesOK, RestOK
<1>2. ASSUME NEW p \in Procs, RbacSteps(p)
      PROVE  RbacInv'
  BY <1>2, AskingSteps, ReadRulesStep, ReadTemplatesStep, DecideSteps, LoadSteps,
     CreatePermissionStep, UpdatePermissionStep, DeletePermissionStep, CreateTemplateStep,
     InsertTemplateRuleStep, UpdateTemplateRuleStep, DeleteTemplateRuleStep, DeleteTemplateStep,
     AssignmentSteps, GroupSteps, AddMemberStep, UserSteps, DeleteUserStep, DropBucketStep
     DEF RbacSteps
<1>3. QED
  BY <1>1, <1>2 DEF RbacNext

(* The tables keep their types and their foreign keys, whatever overlaps:   *)
(* what goes takes the rows with it that name it.                           *)
(* (migrations/00010_rbac.sql)                                              *)
THEOREM RbacTypes == RbacSpec => []RbacTypeOK
BY RbacInvInit, RbacInvStep, InvHasTypes, PTL DEF RbacSpec

(* The only rows that a step does not keep or remove are those it writes.   *)
LEMMA PermsOtherwiseStay ==
  ASSUME RbacInv, NEW p \in Procs, RbacSteps(p), ~CreatePermission(p), ~UpdatePermission(p)
  PROVE  \A i \in RowIds(perms') : i \in RowIds(perms) /\ perms'[i] = perms[i]
<1>1. CASE perms' = perms
  BY <1>1
<1>2. ASSUME DeletePermission(p)
      PROVE  \A i \in RowIds(perms') : i \in RowIds(perms) /\ perms'[i] = perms[i]
  BY <1>2 DEF DeletePermission, RbacInv, TablesOK, PermsOK, RowIds
<1>3. ASSUME NEW s, SubjectGoes(s)
      PROVE  \A i \in RowIds(perms') : i \in RowIds(perms) /\ perms'[i] = perms[i]
  BY <1>3 DEF SubjectGoes, RbacInv, TablesOK, PermsOK, RowIds
<1>4. ASSUME DropBucket(p)
      PROVE  \A i \in RowIds(perms') : i \in RowIds(perms) /\ perms'[i] = perms[i]
  BY <1>4 DEF DropBucket, RbacInv, TablesOK, PermsOK, RowIds
<1>5. perms' = perms \/ DeletePermission(p) \/ DropBucket(p) \/ \E s : SubjectGoes(s)
  <2>1. \/ perms' = perms \/ DeletePermission(p) \/ DropBucket(p) \/ DeleteGroup(p) \/ DeleteUser(p)
    BY DEF RbacSteps, rbacVars, Same, RequireUser, GateInternal, ReadGroups, ReadRules, ReadTemplates,
           Decide, RequireAdmin, RbacEnds, LoadPermission, CreateTemplate, LoadTemplate,
           InsertTemplateRule, LoadTemplateRule, UpdateTemplateRule, DeleteTemplateRule,
           DeleteTemplate, CreateAssignment, DeleteAssignment, CreateGroup, LoadGroup, AddMember,
           RemoveMember, CreateUser, UpdateUser, Upsert
  <2>2. DeleteGroup(p) \/ DeleteUser(p) => \E s : SubjectGoes(s)
    BY DEF DeleteGroup, DeleteUser
  <2>3. QED
    BY <2>1, <2>2
<1>6. QED
  BY <1>1, <1>2, <1>3, <1>4, <1>5

LEMMA ScopesStep ==
  ASSUME RbacInv, BucketCreateIsAccountWide, [RbacNext]_<<req, rbacVars>>
  PROVE  BucketCreateIsAccountWide'
<1>1. CASE UNCHANGED <<req, rbacVars>>
  BY <1>1 DEF rbacVars, BucketCreateIsAccountWide
<1>2. ASSUME NEW p \in Procs, CreatePermission(p)
      PROVE  BucketCreateIsAccountWide'
  <2>1. PICK i \in PermIds, s \in UserSubjects \cup RoleSubjects \cup GroupSubjects, body \in Bodies :
          scopeOK(body) /\ perms' = [perms EXCEPT ![i] = Rule(s, body)]
    BY <1>2 DEF CreatePermission, InsertPermission
  <2> DEFINE row == Rule(s, body)
  <2>2. scopeOK(row) /\ perms' = [perms EXCEPT ![i] = row]
    BY <2>1 DEF scopeOK, Rule
  <2> HIDE DEF row
  <2>3. \A j \in RowIds(perms') : (j = i /\ perms'[j] = row) \/ (j \in RowIds(perms) /\ perms'[j] = perms[j])
    BY <2>2 DEF RbacInv, TablesOK, PermsOK, RowIds
  <2>4. QED
    BY <2>2, <2>3 DEF BucketCreateIsAccountWide
<1>3. ASSUME NEW p \in Procs, UpdatePermission(p)
      PROVE  BucketCreateIsAccountWide'
  <2> DEFINE i == req[p].id
  <2>1. PICK body \in Bodies, named \in Fields :
          LET new == Merged(req[p].cur, body, named) IN
          scopeOK(new) /\ perms' = [perms EXCEPT ![i] = Rule(perms[i].subject, new)]
    BY <1>3 DEF UpdatePermission, Written
  <2> DEFINE row == Rule(perms[i].subject, Merged(req[p].cur, body, named))
  <2>2. scopeOK(row)
    BY <2>1 DEF scopeOK, Rule
  <2>3. perms' = [perms EXCEPT ![i] = row]
    BY <2>1
  <2> HIDE DEF row, i
  <2>4. \A j \in RowIds(perms') : (j = i /\ perms'[j] = row) \/ (j \in RowIds(perms) /\ perms'[j] = perms[j])
    BY <2>3 DEF RbacInv, TablesOK, PermsOK, RowIds
  <2>5. QED
    BY <2>2, <2>4 DEF BucketCreateIsAccountWide
<1>4. ASSUME NEW p \in Procs, RbacSteps(p), ~CreatePermission(p), ~UpdatePermission(p)
      PROVE  BucketCreateIsAccountWide'
  BY <1>4, PermsOtherwiseStay DEF BucketCreateIsAccountWide
<1>5. QED
  BY <1>1, <1>2, <1>3, <1>4 DEF RbacNext

(* No permission on a bucket holds bucket_create, whatever updates overlap. *)
(* (internal/rbac/permissions.go:166-196)                                   *)
THEOREM BucketCreateIsAccountWideAlways == RbacSpec => []BucketCreateIsAccountWide
<1>1. RbacInit => BucketCreateIsAccountWide
  BY RbacAssumption DEF RbacInit, BucketCreateIsAccountWide
<1>2. QED
  BY <1>1, RbacInvInit, RbacInvStep, ScopesStep, PTL DEF RbacSpec

-----------------------------------------------------------------------------
(* Decisions *)

(* For whoever is who, every rule in rs has one in ss that says the same. *)
Covered(rs, ss, who) ==
  \A r \in rs : r.subject \in who =>
    \E s \in ss : s.subject \in who /\ s.bucket = r.bucket /\ s.prefix = r.prefix /\ s.actions = r.actions

SaySame(rs, ss, who) == Covered(rs, ss, who) /\ Covered(ss, rs, who)

LEMMA GrantedSame ==
  ASSUME NEW rs, NEW ss, NEW who, SaySame(rs, ss, who), NEW b, NEW path
  PROVE  Granted(rs, who, b, path) \subseteq Granted(ss, who, b, path)
<1> SUFFICES ASSUME NEW r \in Speaking(rs, who, b, path), NEW x \in r.actions
             PROVE  x \in Granted(ss, who, b, path)
  BY DEF Granted
<1>1. /\ r \in rs /\ Matches(r, who, b, path)
      /\ \A t \in rs : Matches(t, who, b, path) => Len(t.prefix) <= Len(r.prefix)
  BY DEF Speaking
<1>2. PICK s \in ss : s.subject \in who /\ s.bucket = r.bucket /\ s.prefix = r.prefix /\ s.actions = r.actions
  BY <1>1 DEF SaySame, Covered, Matches, ruleApplies
<1>3. Matches(s, who, b, path)
  BY <1>1, <1>2 DEF Matches, ruleApplies, bucketMatches, prefixMatches
<1>4. ASSUME NEW t \in ss, Matches(t, who, b, path)
      PROVE  Len(t.prefix) <= Len(s.prefix)
  <2>1. PICK u \in rs : u.subject \in who /\ u.bucket = t.bucket /\ u.prefix = t.prefix
    BY <1>4 DEF SaySame, Covered, Matches, ruleApplies
  <2>2. Matches(u, who, b, path)
    BY <1>4, <2>1 DEF Matches, ruleApplies, bucketMatches, prefixMatches
  <2>3. QED
    BY <1>1, <1>2, <2>1, <2>2
<1>5. s \in Speaking(ss, who, b, path)
  BY <1>3, <1>4 DEF Speaking
<1>6. QED
  BY <1>2, <1>5 DEF Granted

LEMMA AllowedSame ==
  ASSUME NEW rs, NEW ss, NEW who, SaySame(rs, ss, who), NEW b, NEW path, NEW action
  PROVE  Allowed(rs, who, b, path, action) = Allowed(ss, who, b, path, action)
<1>1. SaySame(ss, rs, who)
  BY DEF SaySame
<1>2. Granted(rs, who, b, path) = Granted(ss, who, b, path)
  BY <1>1, GrantedSame
<1>3. QED
  BY <1>2 DEF Allowed

(* A decision depends on what the rules say to whoever asks. *)
LEMMA DecisionSame ==
  ASSUME NEW rs, NEW ss, NEW who, SaySame(rs, ss, who), NEW c, NEW b, NEW path, NEW action
  PROVE  Decision(rs, who, c, b, path, action) = Decision(ss, who, c, b, path, action)
<1>1. \A x, y, z : Allowed(rs, who, x, y, z) = Allowed(ss, who, x, y, z)
  BY AllowedSame
<1>2. SaySame(bucketOnlyRules(rs, b), bucketOnlyRules(ss, b), who)
  BY DEF SaySame, Covered, bucketOnlyRules
<1>3. \A x, y, z : Allowed(bucketOnlyRules(rs, b), who, x, y, z) = Allowed(bucketOnlyRules(ss, b), who, x, y, z)
  BY <1>2, AllowedSame
<1>4. CreatorAllows(rs, who, c) = CreatorAllows(ss, who, c) /\ CreatorScopedList(rs, who) = CreatorScopedList(ss, who)
  BY <1>1 DEF CreatorAllows, CreatorScopedList, accountLevel
<1>5. QED
  BY <1>1, <1>3, <1>4 DEF Decision

(* What LoadRules returns says what the tables say. *)
LEMMA LoadedSaySame ==
  ASSUME TablesOK, NEW u \in Users, NEW role,
         NEW who, who = Who(u, role, GroupsOf(u))
  PROVE  SaySame(Permissions(u, role) \cup TemplateRules(u), {r \in RulesNow : r.subject \in who}, who)
<1> DEFINE rs == Permissions(u, role) \cup TemplateRules(u)
           ss == {r \in RulesNow : r.subject \in who}
           own == {<<"user", u>>} \cup {<<"group", g>> : g \in GroupsOf(u)}
<1>1. who = own \cup {<<"role", role>>}
  BY DEF Who
<1>2. ASSUME NEW r \in rs, r.subject \in who
      PROVE  \E s \in ss : s.subject \in who /\ s.bucket = r.bucket /\ s.prefix = r.prefix /\ s.actions = r.actions
  <2>1. CASE r \in Permissions(u, role)
    <3>1. r \in RulesNow
      BY <2>1 DEF Permissions, RulesNow
    <3>2. QED
      BY <1>2, <3>1
  <2>2. CASE r \in TemplateRules(u)
    <3>1. PICK i \in RowIds(trules) : /\ r = Rule(<<"user", u>>, trules[i])
                                      /\ AssignedTo(trules[i].template, own)
      BY <2>2 DEF TemplateRules
    <3>2. PICK a \in RowIds(assigned) : /\ assigned[a].template = trules[i].template
                                        /\ assigned[a].subject \in own
      BY <3>1 DEF AssignedTo
    <3> DEFINE s == Rule(assigned[a].subject, trules[i])
    <3>3. s \in RulesNow
      <4>1. <<a, i>> \in {y \in RowIds(assigned) \X RowIds(trules) :
                            assigned[y[1]].template = trules[y[2]].template}
        BY <3>2
      <4>2. QED
        BY <4>1 DEF RulesNow
    <3>4. /\ s.subject \in who /\ s.bucket = r.bucket /\ s.prefix = r.prefix /\ s.actions = r.actions
      BY <1>1, <3>1, <3>2 DEF Rule
    <3>5. QED
      BY <3>3, <3>4
  <2>3. QED
    BY <2>1, <2>2
<1>3. ASSUME NEW s \in ss, s.subject \in who
      PROVE  \E r \in rs : r.subject \in who /\ r.bucket = s.bucket /\ r.prefix = s.prefix /\ r.actions = s.actions
  <2>1. CASE \E i \in RowIds(perms) : s = perms[i]
    <3>1. s \in Permissions(u, role)
      BY <1>3, <2>1 DEF Permissions
    <3>2. QED
      BY <1>3, <3>1
  <2>2. CASE \E x \in RowIds(assigned) \X RowIds(trules) :
               /\ assigned[x[1]].template = trules[x[2]].template
               /\ s = Rule(assigned[x[1]].subject, trules[x[2]])
    <3>1. PICK a \in RowIds(assigned), i \in RowIds(trules) :
                 /\ assigned[a].template = trules[i].template
                 /\ s = Rule(assigned[a].subject, trules[i])
      BY <2>2
    <3>2. s.subject = assigned[a].subject
      BY <3>1 DEF Rule
    <3>3. assigned[a].subject \in UserSubjects \cup GroupSubjects
      BY RowTypes DEF Assignment
    <3>4. assigned[a].subject # <<"role", role>>
      BY <3>3 DEF UserSubjects, GroupSubjects
    <3>5. assigned[a].subject \in own
      BY <1>1, <1>3, <3>2, <3>4
    <3> DEFINE r == Rule(<<"user", u>>, trules[i])
    <3>6. r \in TemplateRules(u)
      BY <3>1, <3>5 DEF TemplateRules, AssignedTo
    <3>7. r.subject \in who /\ r.bucket = s.bucket /\ r.prefix = s.prefix /\ r.actions = s.actions
      BY <1>1, <3>1 DEF Rule
    <3>8. QED
      BY <3>6, <3>7
  <2>3. QED
    BY <1>3, <2>1, <2>2 DEF RulesNow
<1>4. QED
  BY <1>2, <1>3 DEF SaySame, Covered

(* What a request knows unless a change of a table has made it stale. *)
HasFreshReads(r) ==
  /\ r.pc \in {"groups", "rules", "templates", "owner"} => r.role = users[r.user].role
  /\ r.pc \in {"rules", "templates", "owner"} => r.gids = GroupsOf(r.user)
  /\ r.pc = "templates" => r.rules = Permissions(r.user, r.role)
  /\ r.pc = "owner" => r.rules = Permissions(r.user, r.role) \cup TemplateRules(r.user)
  /\ r.pc = "decided" => r.allowed = Entitled(r.user, r.bucket, r.path, r.action)

Late(r) == r.pc \in {"groups", "rules", "templates", "owner", "decided"} => r.stale = TRUE

AllFresh == \A p \in Procs : Late(req[p]) \/ HasFreshReads(req[p])

(* A step that changes no table keeps what the others know. *)
LEMMA FreshKept ==
  ASSUME AllFresh, req \in [Procs -> Requested], NEW p \in Procs, NEW r, Moves(p, r), Same,
         Late(r) \/ HasFreshReads(r)
  PROVE  AllFresh'
<1>1. /\ RulesNow' = RulesNow /\ users' = users
      /\ \A u : GroupsOf(u)' = GroupsOf(u)
      /\ \A u : TemplateRules(u)' = TemplateRules(u)
      /\ \A u, role : Permissions(u, role)' = Permissions(u, role)
      /\ \A u, b : IsCreator(u, b)' = IsCreator(u, b)
  BY DEF Same, RulesNow, GroupsOf, TemplateRules, AssignedTo, Permissions, IsCreator
<1>2. \A u, b, path, action : Entitled(u, b, path, action)' = Entitled(u, b, path, action)
  BY <1>1 DEF Entitled
<1>3. \A x : HasFreshReads(x) => HasFreshReads(x)'
  BY <1>1, <1>2 DEF HasFreshReads
<1>4. ASSUME NEW q \in Procs
      PROVE  (Late(req[q]) \/ HasFreshReads(req[q]))'
  <2>1. CASE q = p
    BY <1>3, <2>1 DEF Moves, Late
  <2>2. CASE q # p
    BY <1>3, <2>2 DEF Moves, Late, AllFresh
  <2>3. QED
    BY <2>1, <2>2
<1>5. QED
  BY <1>4 DEF AllFresh

(* A step that changes one makes everybody late. *)
LEMMA AllLate ==
  ASSUME req \in [Procs -> Requested], NEW p \in Procs, NEW r, Changes(p, r), Late(r)
  PROVE  AllFresh'
<1>1. ASSUME NEW q \in Procs
      PROVE  Late(req'[q])
  <2>1. CASE q = p
    BY <2>1 DEF Changes
  <2>2. CASE q # p /\ Reads(q)
    <3>1. req'[q] = [req[q] EXCEPT !.stale = TRUE]
      BY <2>2 DEF Changes
    <3>2. req[q] \in Asking \cup Decided
      BY <2>2 DEF Reads, Requested, Idle, Asking, Decided, Managing, Updating, Filling
    <3>3. QED
      BY <3>1, <3>2 DEF Late, Asking, Decided
  <2>3. CASE q # p /\ ~Reads(q)
    BY <2>3 DEF Changes, Reads, Late
  <2>4. QED
    BY <2>1, <2>2, <2>3
<1>2. QED
  BY <1>1 DEF AllFresh, Late

LEMMA FreshReads ==
  ASSUME RbacInv, AllFresh, NEW p \in Procs, ReadGroups(p) \/ ReadRules(p) \/ ReadTemplates(p)
  PROVE  AllFresh'
<1>1. req \in [Procs -> Requested] /\ req[p] \in Asking /\ (Late(req[p]) \/ HasFreshReads(req[p])) /\ Same
  BY DEF RbacInv, ReadGroups, ReadRules, ReadTemplates, rbacVars, Same, AllFresh,
         At, Requested, Idle, Asking, Decided, Managing, Updating, Filling
<1>2. CASE ReadGroups(p)
  <2> DEFINE r == [req[p] EXCEPT !.pc = "rules", !.gids = GroupsOf(req[p].user)]
  <2>1. Late(r) \/ HasFreshReads(r)
    BY <1>1, <1>2 DEF Asking, Late, HasFreshReads, ReadGroups, At
  <2>2. Moves(p, r)
    BY <1>2 DEF ReadGroups
  <2> HIDE DEF r
  <2>3. QED
    BY <1>1, <2>1, <2>2, FreshKept
<1>3. CASE ReadRules(p)
  <2> DEFINE r == [req[p] EXCEPT !.pc = "templates", !.rules = Permissions(req[p].user, req[p].role)]
  <2>1. Late(r) \/ HasFreshReads(r)
    BY <1>1, <1>3 DEF Asking, Late, HasFreshReads, ReadRules, At
  <2>2. Moves(p, r)
    BY <1>3 DEF ReadRules
  <2> HIDE DEF r
  <2>3. QED
    BY <1>1, <2>1, <2>2, FreshKept
<1>4. CASE ReadTemplates(p)
  <2> DEFINE r == [req[p] EXCEPT !.pc = "owner", !.rules = @ \cup TemplateRules(req[p].user)]
  <2>1. Late(r) \/ HasFreshReads(r)
    BY <1>1, <1>4 DEF Asking, Late, HasFreshReads, ReadTemplates, At
  <2>2. Moves(p, r)
    BY <1>4 DEF ReadTemplates
  <2> HIDE DEF r
  <2>3. QED
    BY <1>1, <2>1, <2>2, FreshKept
<1>5. QED
  BY <1>2, <1>3, <1>4

LEMMA FreshDecision ==
  ASSUME RbacInv, AllFresh, NEW p \in Procs, NEW b, NEW path, NEW action, Decide(p, b, path, action)
  PROVE  AllFresh'
<1> DEFINE r == req[p]
           who == Who(r.user, r.role, r.gids)
           c == IsCreator(r.user, b)
           new == [pc |-> "decided", user |-> r.user, bucket |-> b, path |-> path, action |-> action,
                   stale |-> r.stale, allowed |-> Decision(r.rules, who, c, b, path, action)]
<1>1. /\ req \in [Procs -> Requested] /\ r \in Asking /\ r.pc = "owner"
      /\ (Late(r) \/ HasFreshReads(r)) /\ Same /\ Moves(p, new) /\ TablesOK
  BY DEF RbacInv, Decide, rbacVars, Same, AllFresh,
         At, Requested, Idle, Asking, Decided, Managing, Updating, Filling
<1>2. ASSUME HasFreshReads(r)
      PROVE  Decision(r.rules, who, c, b, path, action) = Entitled(r.user, b, path, action)
  <2> DEFINE all == {x \in RulesNow : x.subject \in who}
  <2>1. /\ r.role = users[r.user].role /\ r.gids = GroupsOf(r.user) /\ r.user \in Users
        /\ r.rules = Permissions(r.user, r.role) \cup TemplateRules(r.user)
    BY <1>1, <1>2 DEF HasFreshReads, Asking
  <2>2. who = Who(r.user, r.role, GroupsOf(r.user))
    BY <2>1
  <2>3. SaySame(r.rules, all, who)
    BY <1>1, <2>1, <2>2, LoadedSaySame
  <2>4. Decision(r.rules, who, c, b, path, action) = Decision(all, who, c, b, path, action)
    BY <2>3, DecisionSame
  <2>5. Entitled(r.user, b, path, action) = Decision(all, who, c, b, path, action)
    BY <2>1, <2>2 DEF Entitled
  <2>6. QED
    BY <2>4, <2>5
<1>3. Late(new) \/ HasFreshReads(new)
  <2>1. CASE Late(r)
    BY <1>1, <2>1 DEF Late
  <2>2. CASE HasFreshReads(r)
    BY <1>2, <2>2 DEF HasFreshReads
  <2>3. QED
    BY <1>1, <2>1, <2>2
<1> HIDE DEF new
<1>4. QED
  BY <1>1, <1>3, FreshKept

(* Requests that leave the tables alone and know nothing of them after. *)
LEMMA FreshOthers ==
  ASSUME RbacInv, AllFresh, NEW p \in Procs,
         \/ \E u \in Users : RequireUser(p, u)
         \/ GateInternal(p) \/ RequireAdmin(p) \/ RbacEnds(p)
         \/ LoadPermission(p) \/ LoadTemplate(p) \/ LoadTemplateRule(p) \/ LoadGroup(p)
  PROVE  AllFresh'
<1> USE DEF RbacInv
<1>1. Same
  BY DEF RequireUser, GateInternal, RequireAdmin, RbacEnds, LoadPermission, LoadTemplate,
         LoadTemplateRule, LoadGroup, rbacVars, Same
<1>2. ASSUME NEW u \in Users, RequireUser(p, u)
      PROVE  AllFresh'
  <2> DEFINE r == IF users[u].role = "tenant_admin" THEN Manages(u)
                  ELSE [pc |-> "groups", user |-> u, role |-> users[u].role,
                        gids |-> {}, rules |-> {}, stale |-> FALSE]
  <2>1. Late(r) \/ HasFreshReads(r)
    BY DEF Late, HasFreshReads, Manages
  <2>2. Moves(p, r)
    BY <1>2 DEF RequireUser
  <2> HIDE DEF r
  <2>3. QED
    BY <1>1, <2>1, <2>2, FreshKept
<1>3. CASE \/ GateInternal(p) \/ RequireAdmin(p) \/ RbacEnds(p)
           \/ LoadPermission(p) \/ LoadTemplate(p) \/ LoadTemplateRule(p) \/ LoadGroup(p)
  <2>1. /\ Late(Manages(None)) /\ Late(Manages(req[p].user)) /\ Late(Idle)
        /\ \A i, c : /\ Late([pc |-> "update", id |-> i, cur |-> c])
                     /\ Late([pc |-> "updaterule", id |-> i, cur |-> c])
        /\ \A t : Late([pc |-> "addrules", template |-> t])
        /\ \A g, S : Late([pc |-> "addmembers", group |-> g, todo |-> S])
    BY DEF Late, Manages, Idle
  <2>2. \E r : Moves(p, r) /\ Late(r)
    <3>1. CASE GateInternal(p) \/ RequireAdmin(p)
      BY <2>1, <3>1 DEF GateInternal, RequireAdmin
    <3>2. CASE RbacEnds(p)
      BY <2>1, <3>2 DEF RbacEnds, Dies, Ends
    <3>3. CASE LoadPermission(p) \/ LoadTemplateRule(p)
      BY <2>1, <3>3 DEF LoadPermission, LoadTemplateRule
    <3>4. CASE LoadTemplate(p) \/ LoadGroup(p)
      BY <2>1, <3>4 DEF LoadTemplate, LoadGroup
    <3>5. QED
      BY <1>3, <3>1, <3>2, <3>3, <3>4
  <2>3. QED
    BY <1>1, <2>2, FreshKept
<1>4. QED
  BY <1>2, <1>3

(* Requests that change a table. *)
LEMMA FreshWrites ==
  ASSUME RbacInv, NEW p \in Procs,
         \/ CreatePermission(p) \/ UpdatePermission(p) \/ DeletePermission(p)
         \/ CreateTemplate(p) \/ InsertTemplateRule(p)
         \/ UpdateTemplateRule(p) \/ DeleteTemplateRule(p) \/ DeleteTemplate(p)
         \/ CreateAssignment(p) \/ DeleteAssignment(p)
         \/ CreateGroup(p) \/ DeleteGroup(p) \/ AddMember(p) \/ RemoveMember(p)
         \/ CreateUser(p) \/ UpdateUser(p) \/ DeleteUser(p) \/ Upsert(p) \/ DropBucket(p)
  PROVE  AllFresh'
<1>1. CASE AddMember(p) \/ InsertTemplateRule(p)
  <2>1. req[p] \in Filling
    BY <1>1 DEF RbacInv, AddMember, InsertTemplateRule, InsertRule, RuleOf,
                At, Requested, Idle, Asking, Decided, Managing, Updating, Filling
  <2>2. /\ Late(Idle) /\ Late(req[p])
        /\ \A u : req[p].pc = "addmembers" => Late([req[p] EXCEPT !.todo = @ \ {u}])
    BY <2>1 DEF Filling, Late, Idle
  <2>3. \E r : Changes(p, r) /\ Late(r)
    <3>1. CASE InsertTemplateRule(p)
      BY <2>2, <3>1 DEF InsertTemplateRule, InsertRule, RuleOf
    <3>2. CASE AddMember(p)
      BY <2>2, <3>2 DEF AddMember, At
    <3>3. QED
      BY <1>1, <3>1, <3>2
  <2>4. QED
    BY <2>3, AllLate DEF RbacInv
<1>2. CASE CreateTemplate(p)
  <2>1. PICK t : Changes(p, [pc |-> "addrules", template |-> t])
    BY <1>2 DEF CreateTemplate, InsertTemplate
  <2>2. Late([pc |-> "addrules", template |-> t])
    BY DEF Late
  <2>3. QED
    BY <2>1, <2>2, AllLate DEF RbacInv
<1>3. CASE Changes(p, Idle)
  <2>1. Late(Idle)
    BY DEF Late, Idle
  <2>2. QED
    BY <1>3, <2>1, AllLate DEF RbacInv
<1>4. QED
  BY <1>1, <1>2, <1>3 DEF CreatePermission, InsertPermission, UpdatePermission, DeletePermission,
     UpdateTemplateRule, UpdateRule, InsertAssignment, InsertGroup, InsertMember, UpdateMember,
     DeleteTemplateRule, DeleteTemplate, CreateAssignment, DeleteAssignment, CreateGroup, DeleteGroup,
     RemoveMember, CreateUser, UpdateUser, DeleteUser, Upsert, DropBucket

LEMMA FreshStep ==
  ASSUME RbacInv, AllFresh, [RbacNext]_<<req, rbacVars>>
  PROVE  AllFresh'
<1>1. CASE UNCHANGED <<req, rbacVars>>
  <2>1. req' = req /\ Same /\ req \in [Procs -> Requested]
    BY <1>1 DEF rbacVars, Same, RbacInv
  <2>2. \A p \in Procs : Moves(p, req[p])
    BY <2>1 DEF Moves
  <2>3. \A p \in Procs : Late(req[p]) \/ HasFreshReads(req[p])
    BY DEF AllFresh
  <2>4. CASE Procs = {}
    BY <2>4 DEF AllFresh
  <2>5. CASE Procs # {}
    BY <2>1, <2>2, <2>3, <2>5, FreshKept
  <2>6. QED
    BY <2>4, <2>5
<1>2. ASSUME NEW p \in Procs, RbacSteps(p)
      PROVE  AllFresh'
  BY <1>2, FreshReads, FreshDecision, FreshOthers, FreshWrites DEF RbacSteps
<1>3. QED
  BY <1>1, <1>2 DEF RbacNext

(* A decision during which no table changed is the one the tables call for. *)
(* (internal/rbac/check.go:43-68, store.go:320-375)                         *)
THEOREM DecisionsAreRightAlways == RbacSpec => []DecisionsAreRight
<1>1. RbacInit => AllFresh
  BY DEF RbacInit, AllFresh, Late, Idle
<1>2. AllFresh => DecisionsAreRight
  BY DEF AllFresh, Late, HasFreshReads, DecisionsAreRight, At
<1>3. QED
  BY <1>1, <1>2, RbacInvInit, RbacInvStep, FreshStep, PTL DEF RbacSpec
=============================================================================
