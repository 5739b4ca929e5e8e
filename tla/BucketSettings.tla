--------------------------- MODULE BucketSettings ---------------------------
(***************************************************************************)
(* The settings of a bucket: a row of buckets says what they are, storage   *)
(* does what it was last told.  internal/bucket writes both when a bucket   *)
(* is created, updated and removed: one storage call after the other, and   *)
(* then the whole row, as it was read at the beginning.                     *)
(*                                                                         *)
(* One bucket name is enough: no request touches the settings of two.      *)
(* Grants has the grants that make the bucket visible.                     *)
(***************************************************************************)
EXTENDS Requests

CONSTANTS
  DisplayNames,      \* display_name
  LogTargets,        \* access_log_target_bucket, of other buckets
  LogPrefixes,       \* access_log_prefix
  DefaultLogPrefix,  \* what defaultLogPrefix makes of the bucket's name
  AskedSettings,     \* settings that requests ask for, and the row begins with
  MaxChanges         \* bound: requests that begin

VARIABLES
  row,      \* the row of the bucket: its id and settings, or None
  config,   \* the bucket in storage: its versioning and logging, or None
  changes,  \* requests that have begun
  clean     \* history: since the bucket was made, no two requests overlapped
            \* and none stopped between storage and the row

settingVars == <<row, config, changes, clean>>

-----------------------------------------------------------------------------
(* Types *)

(* quota_bytes and object_limit are written like display_name. *)
Settings == [display : DisplayNames \cup {None}, alias : BOOLEAN,
             versioning : BOOLEAN, logging : BOOLEAN,
             target : LogTargets \cup {None}, prefix : LogPrefixes \cup {None}]

Rows == [id : 0 .. MaxChanges, settings : Settings]

Config == [versioning : BOOLEAN, log : (LogTargets \X LogPrefixes) \cup {None}]

(* A creation or an update: the settings it found, those it is about, and   *)
(* whether storage has been told anything.                                  *)
Configuring == [pc : {"ensurestore", "versioning", "logging", "write"}, creates : BOOLEAN,
                id : 0 .. MaxChanges, old : Settings, new : Settings, touched : BOOLEAN]

(* A removal, or a creation that is undone. *)
Dropping == [pc : {"dropstore", "undostore", "droprow"}, id : 0 .. MaxChanges]

ASSUME SettingsAssumption ==
  /\ None \notin DisplayNames \cup LogTargets \cup LogPrefixes
  /\ None \notin (LogTargets \X LogPrefixes) \cup Rows \cup Config
  /\ DefaultLogPrefix \in LogPrefixes /\ MaxChanges \in Nat
  /\ AskedSettings \subseteq Settings

SettingsTypeOK ==
  /\ row \in Rows \cup {None}
  /\ config \in Config \cup {None}
  /\ req \in [Procs -> {Idle} \cup Configuring \cup Dropping]
  /\ changes \in 0 .. MaxChanges
  /\ clean \in BOOLEAN

-----------------------------------------------------------------------------
(* Settings *)

Default == [display |-> None, alias |-> FALSE, versioning |-> FALSE,
            logging |-> FALSE, target |-> None, prefix |-> None]

Fresh == [versioning |-> FALSE, log |-> None]

(* What an update makes of the row it read: asked has the columns that the  *)
(* request names, and the others as they were.                              *)
Taken(asked) == IF asked.display = None THEN [asked EXCEPT !.alias = FALSE] ELSE asked

(* Mutation: the columns that have changed are written. *)
ChangedColumns(s, r) == [c \in DOMAIN s |-> IF r.new[c] # r.old[c] THEN r.new[c] ELSE s[c]]

WholeRow(s, r) == r.new

(* Whether the other bucket is there and visible is not told apart here. *)
ValidLogging(s) == s.logging => s.target # None

(* Mutation: another prefix alone changes nothing. *)
LogChangesTarget(r) ==
  IF r.creates THEN r.new.logging
  ELSE <<r.new.logging, r.new.target>> # <<r.old.logging, r.old.target>>

LogChanges(r) ==
  IF r.creates THEN r.new.logging
  ELSE <<r.new.logging, r.new.target, r.new.prefix>> # <<r.old.logging, r.old.target, r.old.prefix>>

(* What applyLogging makes of the settings, and what it tells storage. *)
Applied(s) == IF s.logging THEN [s EXCEPT !.prefix = IF @ = None THEN DefaultLogPrefix ELSE @]
              ELSE [s EXCEPT !.target = None, !.prefix = None]

LogOf(s) == IF s.logging THEN <<s.target, s.prefix>> ELSE None

(* What the settings mean for storage. *)
Configured(s) == [versioning |-> s.versioning, log |-> LogOf(Applied(s))]

-----------------------------------------------------------------------------
(* Requests begin *)

NoOthers(p) == \A q \in Procs \ {p} : At(q, "idle")

Starts(p) == At(p, "idle") /\ changes < MaxChanges /\ changes' = changes + 1

Shares(p) == clean' = (clean /\ NoOthers(p))

(* POST /api/buckets: the row and its grant.  If storage has nothing left   *)
(* of an earlier bucket, this one begins anew.                              *)
CreateRow(p) ==
  /\ Starts(p) /\ row = None
  /\ \E s \in AskedSettings :
       /\ ~s.alias /\ ValidLogging(s)
       /\ row' = [id |-> changes', settings |-> s]
       /\ Moves(p, [pc |-> "ensurestore", creates |-> TRUE, id |-> changes', old |-> Default,
                    new |-> s, touched |-> FALSE])
  /\ clean' = ((clean \/ config = None) /\ NoOthers(p))
  /\ UNCHANGED config

(* PUT /api/buckets/{bucket_name}, up to the first storage call. *)
LoadSettings(p) ==
  /\ Starts(p) /\ row # None
  /\ \E asked \in AskedSettings :
       LET new == Taken(asked) IN
       /\ ValidLogging(new)
       /\ Moves(p, [pc |-> "versioning", creates |-> FALSE, id |-> row.id, old |-> row.settings,
                    new |-> new, touched |-> FALSE])
  /\ Shares(p) /\ UNCHANGED <<row, config>>

(* DELETE /api/buckets/{bucket_name} *)
LoadForRemoval(p) ==
  /\ Starts(p) /\ row # None
  /\ Moves(p, [pc |-> "dropstore", id |-> row.id])
  /\ Shares(p) /\ UNCHANGED <<row, config>>

-----------------------------------------------------------------------------
(* Storage calls *)

EnsureStore(p) ==
  /\ At(p, "ensurestore") /\ Goes(p, "versioning")
  /\ config' = IF config = None THEN Fresh ELSE config
  /\ UNCHANGED <<row, changes, clean>>

PutVersioning(p) ==
  LET r == req[p] IN
  /\ At(p, "versioning")
  /\ IF r.new.versioning = r.old.versioning
       THEN Goes(p, "logging") /\ UNCHANGED config
       ELSE /\ config # None /\ config' = [config EXCEPT !.versioning = r.new.versioning]
            /\ Moves(p, [r EXCEPT !.pc = "logging", !.touched = TRUE])
  /\ UNCHANGED <<row, changes, clean>>

PutLogging(p) ==
  LET r == req[p] IN
  /\ At(p, "logging")
  /\ IF LogChanges(r)
       THEN /\ config # None /\ config' = [config EXCEPT !.log = LogOf(Applied(r.new))]
            /\ Moves(p, [r EXCEPT !.pc = "write", !.new = Applied(r.new), !.touched = TRUE])
       ELSE /\ IF r.creates THEN Ends(p) ELSE Goes(p, "write")
            /\ UNCHANGED config
  /\ UNCHANGED <<row, changes, clean>>

Drops(p, point) == Moves(p, [pc |-> point, id |-> req[p].id])

DropStore(p) ==
  /\ At(p, "dropstore") /\ Drops(p, "droprow") /\ config' = None
  /\ UNCHANGED <<row, changes, clean>>

(* The error of this call is ignored. *)
UndoStore(p) ==
  /\ At(p, "undostore") /\ Drops(p, "droprow")
  /\ config' \in {config, None} /\ clean' = (clean /\ config' = None)
  /\ UNCHANGED <<row, changes>>

(* A call that is reported as failed may have happened. *)
MayHaveHappened(p) ==
  \/ config' = config
  \/ At(p, "ensurestore") /\ config = None /\ config' = Fresh
  \/ /\ At(p, "versioning") /\ config # None
     /\ config' = [config EXCEPT !.versioning = req[p].new.versioning]
  \/ /\ At(p, "logging") /\ config # None
     /\ config' = [config EXCEPT !.log = LogOf(Applied(req[p].new))]
  \/ At(p, "dropstore") /\ config' = None

(* A creation is undone, also when the CORS rules before the other settings *)
(* fail; an update and a removal just end.                                  *)
CallFails(p) ==
  LET r == req[p] IN
  /\ MayHaveHappened(p)
  /\ \/ At(p, "ensurestore") /\ Drops(p, "droprow") /\ clean' = (clean /\ config' = config)
     \/ /\ \/ At(p, "versioning") /\ (r.creates \/ r.new.versioning # r.old.versioning)
           \/ At(p, "logging") /\ LogChanges(r)
        /\ IF r.creates THEN Drops(p, "undostore") /\ UNCHANGED clean
           ELSE Ends(p) /\ clean' = (clean /\ ~r.touched /\ config' = config)
     \/ At(p, "dropstore") /\ Ends(p) /\ clean' = (clean /\ config' = config)
  /\ UNCHANGED <<row, changes>>

-----------------------------------------------------------------------------
(* Statements *)

TheirRow(r) == row # None /\ row.id = r.id

WriteRow(p) ==
  LET r == req[p] IN
  /\ At(p, "write") /\ Ends(p)
  /\ row' = IF TheirRow(r) THEN [row EXCEPT !.settings = WholeRow(@, r)] ELSE row
  /\ UNCHANGED <<config, changes, clean>>

DropRow(p) ==
  /\ At(p, "droprow") /\ Ends(p)
  /\ row' = IF TheirRow(req[p]) THEN None ELSE row
  /\ UNCHANGED <<config, changes, clean>>

(* Operations name a bucket that is there: Ensure. *)
NameRow ==
  /\ row # None
  /\ \E d \in DisplayNames : row' = [row EXCEPT !.settings.display = d]
  /\ UNCHANGED <<req, config, changes, clean>>

(* Stopping here does no harm: nothing has been told to storage, or the row *)
(* says the same without the prefix.                                        *)
Harmless(r) ==
  \/ r.pc \in {"versioning", "logging", "write"} /\ ~r.creates /\ ~r.touched
  \/ r.pc = "write" /\ r.creates
  \/ r.pc = "dropstore"

(* A statement fails, or the process. *)
SettingsDie(p) ==
  /\ Dies(p) /\ clean' = (clean /\ Harmless(req[p]))
  /\ UNCHANGED <<row, config, changes>>

-----------------------------------------------------------------------------
(* There is no bucket, or one that storage keeps as its row says.           *)
SettingsInit ==
  /\ req = [p \in Procs |-> Idle] /\ changes = 0 /\ clean = TRUE
  /\ \/ row = None /\ config = None
     \/ \E s \in AskedSettings :
          /\ (s.alias => s.display # None) /\ ValidLogging(s)
          /\ row = [id |-> 0, settings |-> s] /\ config = Configured(s)

SettingsNext ==
  \/ \E p \in Procs : \/ CreateRow(p) \/ LoadSettings(p) \/ LoadForRemoval(p)
                      \/ EnsureStore(p) \/ PutVersioning(p) \/ PutLogging(p)
                      \/ DropStore(p) \/ UndoStore(p) \/ CallFails(p)
                      \/ WriteRow(p) \/ DropRow(p) \/ SettingsDie(p)
  \/ NameRow

SettingsSpec == SettingsInit /\ [][SettingsNext]_<<req, settingVars>>

-----------------------------------------------------------------------------
(* Properties *)

(* No alias-only bucket is without a display name, and none logs to nowhere, *)
(* although every request writes a row it read before the storage calls:     *)
(* what is checked of the settings together is written together              *)
(* (bucket/handler.go:249-281, store.go:206-220).                            *)
RowIsCoherent ==
  row # None => LET s == row.settings IN (s.alias => s.display # None) /\ (s.logging => s.target # None)

(* Storage versions and logs as the row says, through creations, updates     *)
(* and removals that fail in any call or statement, unless requests          *)
(* overlapped or one stopped after it had told storage something; the        *)
(* creation's last write may fail, for it adds the default prefix only       *)
(* (bucket/handler.go:189-225, 274-304).                                     *)
SettingsMatch ==
  clean /\ (\A p \in Procs : At(p, "idle")) =>
    config = IF row = None THEN None ELSE Configured(row.settings)
=============================================================================
