# OssPilot tenant API: TLA+ models, checks and proofs

This directory holds the formal models of the tenant API, the TLC
configurations that check them, and proofs for TLAPS. `PROJECT.json` is the
machine-readable index: it maps every definition to the source lines it stands
for, lists the runs, a mutation for every checked property, the hazards each
property is aimed at, the findings and the theorems.

    tlc -config EditText.cfg MCEditLocks      # any run of PROJECT.json
    tlapm EditLocks_proofs.tla                # all proofs of a module

## 1. The system

The tenant API is a stateless Go HTTP service. Everything it remembers is in
Postgres (through pgx), in object storage (S3/RGW) and in a Redis queue (asynq)
it only writes to. Any number of requests run at the same time, in any number of
processes. A handler is a sequence of SQL statements and storage calls with
early returns; almost none of it runs in a transaction. So the unit of atomicity
is **one statement or one storage call**, and what makes the code hard to test
is what other requests do between two of them, or a failure there.

### Inventory

| Part (`src/internal/...`) | State it keeps | Operations | What is hard about it | What makes it correct |
|---|---|---|---|---|
| **edit**: locks, sessions | `file_locks` (one active row per object, by a partial unique index), `edit_sessions` | lock status/acquire/refresh/release, open/save/close for text and Office, Document Server callback, forced unlock | check-then-act over several statements, expiry by time, releases by stale id, ignored results, presigned writes | one writer per object; locks end in the owner's hands; a lock is a lease |
| **share** | `share_links` | create, list, revoke, access | access reads the row, checks, signs URLs and only then counts; the clock is read once | budget of accesses, nothing after a revocation, bounded life of URLs |
| **versions** | `file_versions`, copies under `.versions/` | archive, restore, remove, download | next number is read, the copy made, then the row inserted: concurrent archives share a number | a record describes the copy it points at; what is overwritten was archived |
| **objects** | `object_records`, live objects, copies under `.trash/` | list, detail, mkdir, delete, restore, purge, copy, move, rename, batches | storage and table change in separate steps; destination checks race | records follow storage; nothing is overwritten that was refused |
| **quota**, **uploads** | `upload_tasks`, `buckets`/`tenant_users` limits | presign, complete, multipart init/part/complete/abort | the limit is checked when a URL is signed, the bytes arrive later; abort races complete | limits, task states |
| **creds** | API access state of an account, applications, keys | request/review access, applications, keys, STS | the review reads the state and then updates unconditionally | state machine of a review; keys of a disabled application are dead |
| **rbac** | permission rules, templates, groups | rule administration, `Allowed` | longest-prefix matching, templates and group rules | the decision equals its reference definition |
| **bucket** | `buckets`, grants | create with compensation, update, delete, policies, CORS | several external calls with partial failure; an update writes back a whole row it read before them | a created bucket exists in storage, which does what the row says |
| **project** (projection) | accounts, grants, settings written by operations | replace an account's buckets, put/delete accounts | replaces grants while the console creates buckets | a locally created bucket survives |
| **auth** | users, password hashes | login, change password, sub-users | token validity against disabled users | a disabled user is out |
| **platform**, **stats**, **audit**, **downloads**, **preview**, **queue**, **storage**, **httpx**, **config** | settings, aggregates, append-only log | reads, aggregates, single-statement writes | little: pure I/O, formatting, one statement each | - |

Interactions. `edit` calls `versions.Archive` before a save; `objects` and
`versions` ask `edit`'s lock table whether an object is locked; `uploads` asks
`quota`; every handler asks `rbac` and `bucket` whether the object is visible;
`project` writes the grants `bucket` reads; `objects`, `uploads`, `share` and
others append to `audit`; batches go through `queue` to an external worker.

## 2. Conventions of the models

* One action per statement or storage call; the program counter of a request
  (`pc`) says which one is next. A handler's early return is an `Ends`.
* A request may stop before any step: a failed statement, a client that went
  away, a process that died. The models call it `Abort`. Where the code ignores
  an error and carries on, `Abort` offers that as well.
* Visibility and permission checks (`visible`, `see`, `rbac`) happen before the
  first step of a handler and change nothing: a request that fails them does
  not start.
* Time is a set of flags (`due`) where only the order of an expiry matters, and
  a bounded clock where durations do.
* Random tokens are fresh: 256 random bits do not repeat (external assumption).
* Row ids are never reused (`BIGSERIAL`); a model has finitely many, and a
  request that finds none left can only stop. This bounds the length of
  behaviours, not what may happen in them.
* The modules of the later parts extend `Requests`: a request is idle or the
  record of what its handler remembers, its `pc` the statement or call that is
  next. There a request that stops is `Dies`, under any name of the module.
* History variables tell the behaviours that a property speaks about from those
  it does not: `stale`, `raced`, `spoiled`, `lone` and the like say that somebody
  came in between. No action looks at them.
* `Mutation:` marks a definition that no specification uses. Each is a
  plausible bug in the definition that follows it, kept to show that a property
  notices (one of them, `AllGrants`, is also what an account's deletion takes).

## 3. Modules

### EditLocks, EditLease (internal/edit)

`EditLocks` is one object's rows of `file_locks` and `edit_sessions` and the
handlers that use them. Both tables are partitioned by bucket and key and no
statement crosses objects, so one object is enough.

| Variable | Code |
|---|---|
| `locks` | rows of `file_locks`; `due` stands for `expires_at <= now()` |
| `sessions` | rows of `edit_sessions` |
| `req` | requests in flight: the next statement, why `ActiveLock` was called, the local variables that survive it |
| `granted`, `written` | history: tokens an active row has carried, sessions that overwrote the object |

A handler is a path through the points of a request. `ActiveLock` is two
statements, an UPDATE that releases due rows (`ExpireLocks`) and a SELECT (the
`ReadFor...` action of its caller); a row may fall due between them.

| Handler | First action | Then |
|---|---|---|
| `lockAcquire` | `LockAcquire` | `ExpireLocks`, `ReadForAcquire`, `InsertLock` or `RefreshLock`, after a lost insert `ExpireLocks`, `ReadAfterConflict` |
| `textOpen` | `TextOpen` | `ExpireSessions`, `ExpireLocks`, `ReadForOpen`, acquire as above, `InsertSession` |
| `officeOpen` | `OfficeOpen` | the same without the sweep |
| `textSave`, `textPresignSave` | `TextSave` | `ExpireLocks`, `ReadForSave`, `PutObject` (for a presigned save by the browser, at any later time) |
| `textCompleteSave` | `TextSave` | `ExpireLocks`, `ReadForSave`, `MarkSaved` |
| `textClose` | `TextClose` | `ExpireLocks`, `ReadForRelease`, `ReleaseLock`, `CloseSession` |
| `officeCallback` 2, 6 | `OfficeCallbackSave` | `PutObject`, `MarkSaved` |
| `officeCallback` 4 | `OfficeCallbackClosed` | as `textClose`, with a token |
| `lockRelease`, `textUnlock`, `officeUnlock` | `LockRelease` | `ExpireLocks`, `ReadForRelease`, `ReleaseLock` |
| `lockRefresh` | `LockRefresh` | `ExpireLocks`, `ReadForRefresh`, `RefreshLock` |
| `forceUnlockInternal` | `ForceUnlock` | `ExpireLocks`, `ReadForForce`, `ForceReleaseLock`, `CloseSessionsForObject` |
| `lockStatus` | `LockStatus` | `ExpireLocks`, `ReadForStatus` |

Properties:

* `OneWriter`: at most one text session passes `requireSessionLock`.
* `OnlyGrantedWrite`: where no Office editor opens the object, only a session
  whose token was once the token of an active lock overwrites it. It is what
  makes the discarded result of `acquire` in `textOpen` harmless.
* `OwnerEnds`: a lock that is not due ends only by its owner's release or by a
  forced unlock, although both act on an id read statements earlier.
* `ImplementsLease`: the table, seen through `Holder`, implements `EditLease`, a
  lease that is granted when free, may rotate its token, ends by becoming free,
  and never brings back a token.
* `OccupiedOpensReadOnly` is violated; see section 6.

`EditLocks_proofs` proves all but the last for every value of the constants.

### ShareLinks (internal/share)

| Variable | Code |
|---|---|
| `clock` | `time.Now()`, in ticks; `Second` of them make a second |
| `links` | rows of `share_links` |
| `req` | requests in flight: the row as it was read, the clock as it was read, the URLs signed so far |
| `served` | history: the answers that carried URLs |

| Handler | Actions |
|---|---|
| `create` | `Create`, `LookForObject`, `Insert` (three tokens at most) |
| `revoke` | `RevokeStart` (GetByID), `Revoke` (UPDATE by id) |
| `access` | `Access` (GetByToken), `Check`, `Head` with `PresignTTL`, `Sign` (download, then preview), `BumpAccess` (UPDATE ... RETURNING), `Serve` |

Properties: `BudgetKept` (URLs go out at most `max_access_count` times),
`AccessNumbersDiffer` (each answer is an access of its own), `RevokedIsFinal` (a
revoked row never changes, so whoever read it earlier is not counted and not
answered), `UrlsEndWithLink` (a URL outlives its link at most by the time between
the reading of the clock and the signing: `presignTTL` counts from the first,
the service from the second). A link's budget is an upper bound only: an access
is counted before it is answered and `Abort` may come in between.

### Versions (internal/versions, text saves of internal/edit)

One object with its archived copies and its rows of `file_versions`.

| Variable | Code |
|---|---|
| `key` | the form of the object's key: one that `url.PathEscape` leaves alone, one that it changes (any key with a folder), one that holds a literal %XX |
| `live` | the object in storage |
| `copies` | `.versions/{bucket}/{key}/v{n}` |
| `rows` | rows of `file_versions` |
| `req` | requests in flight |
| `overwritten`, `discarded`, `alone` | history: what saves and restores overwrote, what removals deleted, whether two uses of the object ever overlapped |

| Handler | Actions |
|---|---|
| `Archive` | `Head`, `NextNo`, `Copy`, `Insert` |
| `textSave`, `textPresignSave` | `Save`, Archive, `Put` (with a presigned URL possibly again) |
| `restore` | `Restore` (load), `CheckLock`, `HeadVersion`, `HeadLive`, Archive if there is an object, `RestoreCopy` |
| `remove` | `Remove` (load), `DeleteCopy`, `DeleteRow` |
| uploads, Office callbacks, deletions | `OtherWrite` |

`Source` and `CopySource` model what CopyObject does to keys: the client sends
the source as it is (storage/client.go:349), the service unescapes it, and the
key of a copy contains the object's key escaped. So restoring a copy works for
plain keys only: with a folder in the key its source names nothing. And with a
literal %XX in the key, which `ValidUserKey` allows, archiving and restoring
copy the object of another key, which may have any content or not exist.

Properties. Under every interleaving, until a copy is removed: `Numbered`
(versions are 1, 2, 3, ... and have their copies) and `OwnVersions`. As long as no
two uses of the object overlapped, whatever fails in between:
`RecordsDescribeCopies` (of keys without %XX) and `ArchivesKept` (what saves and
restores overwrite is the copy of a version, unless the key holds a %XX, and for
plain keys it is what a restore would write). Without the condition on overlaps
the last one is violated; see section 6.

### ObjectOps (internal/objects)

One bucket, its rows of `object_records`, and the operations on them.

| Variable | Code |
|---|---|
| `objects` | the bucket: `Live(n)` is a key, `Trash(n)` its `.trash/` key |
| `records` | rows of `object_records`: what the row says the object is |
| `req` | operations in flight: the next call, the two keys, what `HeadObject` said, what was copied |
| `unescaped` | whose object `CopyObject` copies from a key: the service unescapes the source, which the client sends unescaped (storage/client.go:349), so a key with a literal %XX stands for another one, or for one that is not modelled |
| `lost`, `raced`, `behind`, `orderly`, `whole` | history: contents replaced or erased, whether one was by an operation that had not seen it, keys uploaded to since their row was written, whether uses never overlapped and nothing was copied from a key with a %XX, whether no operation stopped between the bucket and its rows |

| Code | Begins | Then |
|---|---|---|
| `ApplyCopy` | `Copy` | `HeadDest`, `HeadSource`, `WriteDest`, `Upsert` |
| `ApplyMove` (move, rename) | `Move` | `HeadDest` unless onto itself, `HeadSource`, `WriteDest`, `DeleteSource`, `MoveKey` |
| `ApplyDelete` | `Delete` | `HeadSource`, `WriteDest`, `DeleteSource`, `MoveKey` |
| the same, permanent | `Delete` | `HeadSource`, `DeleteSource`, `DeleteRow` |
| `restoreOne` | `RestoreTrash` | `HeadSource`, `HeadDest`, `WriteDest`, `DeleteSource`, `MoveKey` |
| `purgeOne` | `PurgeTrash` | `HeadSource`, `DeleteSource`, `DeleteRow` |
| `mkdir` | `Mkdir` | `HeadDest`, `WriteDest`, `Upsert` |
| `detail`, `enrichList`, `listTrash`, completion of uploads | `See` | `HeadSource`, `Upsert` |

A batch, here or in the worker, is a series of these; `Abort` may end any of them
after any step, which is also what a retried batch starts from. `Put` is an
upload, at any time.

Properties. Under every interleaving: `NothingVanishes` (a content leaves the
bucket only when an object holding it is erased on request, replaced, or deleted
by an operation that had not copied it; moves, deletions and restores
alone, in whatever chain or cycle, keep a copy). As long as no two uses
overlapped, and nothing was copied from a key with a %XX: `NoneRaced` and, unless an operation stopped between the bucket and
its rows, `RecordsDescribeObjects`. Overlapping operations do break the last two:
`rejectIfExists` is a look, not a lock. And so does a single operation on a key
with a literal %XX, which `ValidUserKey` allows: deleting `a%2Fb` copies `a/b` to
the trash and then deletes `a%2Fb` (apply.go:24-27), moving it does the same
(apply.go:71-75), and the row of the destination describes what was deleted.

A move onto itself (rename to the same name) is saved only by the storage
service, which refuses to copy an object onto itself (`CopiesOntoItself`); the
code would delete the object next. README.md:27 says the trash list reads
`object_records`; `listTrash` lists the bucket and writes what it saw to
`object_records`. `See` is modelled after the code.

### Uploads (internal/uploads)

The tasks of one account and the multipart uploads in storage they stand for.

| Variable | Code |
|---|---|
| `tasks` | rows of `upload_tasks` |
| `uploads` | multipart uploads in the storage service |
| `contested`, `failed`, `mixed` | history: tasks two requests were about to finish, whether a storage call and its row came apart, whether a client named another upload than its task's |

| Handler | Actions |
|---|---|
| `presign`, `presignUpload` of the open API | `PresignTask`, `InsertTask` |
| `mpInit` | `MpInit`, `CreateMultipart`, `InsertTask` |
| `complete` | `Complete` (GetPending), `RecordUpload`, `FinishTask` |
| `mpComplete` | `MpComplete`, `CompleteMultipart`, `RecordUpload`, `FinishTask` |
| `mpAbort` | `MpAbort`, `AbortMultipart`, `FinishTask` |

Completion and abort both read a task as pending and later update it by id.
`FinishedStays` (a task that is not pending any more does not change, unless two
had read it as pending at once), `OpenUploadsAreSwept` (an open upload belongs to
a pending task, where the worker finds it, or to a request about to insert one;
the exceptions are named in the property) and `CompletedWereAssembled` (a
multipart task is completed only after its upload). The last rests on the order
of two steps: the storage call that ends an upload comes first and is decisive.

### Quota (internal/quota, the completion of uploads)

| Variable | Code |
|---|---|
| `limits` | the columns of `quota.Limits`; they stay as they are |
| `records` | rows of `object_records`, with their size |
| `admitted`, `today` | rows of `upload_tasks`, those completed today |
| `stale` | history: requests and tasks admitted on readings that have become old |

`Checker` reads in several statements, first the usage and then the bytes of the
day, the task is inserted after that, and nothing is reserved; the bytes arrive later, of any size. `Plus` is the addition
of int64 with its width `MaxInt`. `QuotaKept` and `DailyKept`: a completion that
goes past a limit was admitted on readings that had become old. So quotas are
exact for uploads one after the other, and sums that wrap, or sizes that clients
make up, change nothing about it, because the completion compares the stored
size with the declared one and records the former.

### Grants (internal/bucket, internal/project)

| Variable | Code |
|---|---|
| `accounts`, `rows`, `grants` | accounts; rows of `buckets` by id; rows of `account_bucket_grants`: none, local, or of operations |
| `stored` | the buckets there are in storage |
| `created`, `wanted`, `spoiled` | history: creations that succeeded; what the last replacement named, if it was lone; names whose removal overlapped another use or stopped half-way |
| `begun` | counts requests, up to `MaxRequests` |

| Handler | Actions |
|---|---|
| `create` | `Insert`, `GrantLocal`, `EnsureBucket`, `Configure`; when one fails, back through `UndoBucket`, `LockRow`, `DeleteRow` |
| `remove` | `Load`, `DeleteBucket`, `LockRow`, `DeleteRow` |
| `replaceBuckets` | `OpsGrantIDs`, `Ensure` for each name, the transaction (`BeginTx`, `ClearOpsGrant` for each grant, `OpsGrantsCleared`, `InsertOpsGrant` for each bucket, `Commit`), `UnboundIDs`, `DeleteByBucket` for each, `Replaced` |
| deletion of an account | `DeleteByUsername`, `LockUser`, `DropGrant` for each grant, `DeleteAccount` |

This is the only transaction of the modelled code, so this module has row locks.
A statement inside it goes row by row: `Free` says that nobody holds the row,
`BlockersOn` who does, and what a transaction has written becomes visible with
`Commit`. A deletion of a bucket takes the row's lock before it cascades to the
grants, and the deletion of an account that of the account (`LocksUser`), which is
one statement but several steps; an inserted grant holds a key share of its
bucket and its account (`SharesUser`). Requests may therefore wait for each other
in a circle, which PostgreSQL resolves by ending one (`Victim`): a replacement
and the deletion of a bucket or of its account, or two replacements of one
account. The deletion of an account also takes its name out of the buckets it
created (`created_by`, ON DELETE SET NULL). That is left out: who waits for that
update holds no other row, and where it waits for a bucket that is being deleted,
the deletion waits in turn for a grant of the same account that the cascade would
have waited for as well. Storage is assumed to be configured; without it `create` ends after
its grant and `remove` starts with the row.

`LocalGrantStays` (no replacement, however it overlaps with others, takes a local
grant), `LatestReplaceRules` (after a replacement that was lone the account has
what it named), `RowsHaveBuckets` (a created bucket exists in storage as long as
its row does), `EveryRequestEnds` (liveness). `OwnBucketsStay` is violated; see
section 6. Nothing is stated about the records that a replacement purges: its list
is stale when it is used, and a bucket granted in between does lose its records.

### ApiAccess (internal/creds)

| Variable | Code |
|---|---|
| `access` | `tenant_api_access.status` |
| `apps`, `keys`, `appOf` | rows of `tenant_applications` and `application_access_keys` |
| `sessions` | STS sessions handed out, of this service (`jwt`) or of RGW |
| `raced` | history: whether requests for access and reviews overlapped |

| Code | Actions |
|---|---|
| `requestAccess`, `Store.ReviewAccess` | `RequestAccess` or `Review` (the read), `SetAccess` (the UPDATE, whatever the status is by now) |
| applications and keys | `OpenConsole` (the gate of every handler), `LoadApp`, then `InsertApp`, `EnableApp`, `DisableApp`, `DeleteApp`, `InsertKey`, `DisableKey` |
| `issueSTS`, `issueOpenSTS` | `IssueKey`, `IssueApp`, `IssueToken`; `IssueOpenSTS` |
| `authenticate` | `Call`, `AuthKey`, `AuthApp`, `AuthAccess`; for a session of RGW `RgwAccess`, `RgwApp`; `Refuses` |

`ClosedGatesStayShut`: a call is not served through a gate (key, application,
access) that was shut when it came and has not been opened since, although the
three are read one after the other and a refused token is tried again as a key.
`KeysHaveApps`, `ReviewsInOrder` (the procedure is followed as long as no two
requests or reviews overlap; overlapping ones do skip steps).

### Rules, RulePass, Rbac (internal/rbac, users of internal/auth)

`Rules` says what a set of rules allows: the longest matching prefixes speak,
together, and admin covers the rest. `RulePass` is the loop of `match.go`, rule by
rule in any order; `PassAgrees` says it ends with what `Rules` says.

`Rbac` has the tables of one account (users, groups and members, permissions,
templates with their rules and assignments, buckets and their creators), every
statement that writes them, and `Checker.Allow` as the statements it is:

| Code | Actions |
|---|---|
| `RequireUser`, then `Allow` | `RequireUser`, `ReadGroups`, `ReadRules`, `ReadTemplates`, `Decide` (with the bucket's owner) |
| `requireAdmin`, `gateInternal` | `RequireAdmin`, `GateInternal` |
| `permissions.go` | `CreatePermission`, `LoadPermission` and `UpdatePermission`, `DeletePermission` |
| `templates.go` | `CreateTemplate`, `LoadTemplate`, `InsertTemplateRule`, `LoadTemplateRule`, `UpdateTemplateRule`, `DeleteTemplateRule`, `DeleteTemplate`, `CreateAssignment`, `DeleteAssignment` |
| `groups.go` | `CreateGroup`, `DeleteGroup`, `LoadGroup` and `AddMember` for each, `RemoveMember` |
| sub-users, `Upsert` of operations | `CreateUser`, `UpdateUser`, `DeleteUser`, `Upsert` |
| removal of a bucket | `DropBucket` |

Where a handler looks something up and only a foreign key depends on it later,
the look-ups and the write are one step: what goes in between makes the write
fail. Names of buckets are not used again here (that is the subject of
`Grants`). `SchemaOK` states the columns and foreign keys; it is what instances
start from and part of the type invariant, which fails when a cascade is missing.

`DecisionsAreRight`: a decision during which no table changed is the one the
tables call for, stated over permissions, templates and groups at once
(`RulesNow`) and not over what four statements return. A decision taken while
tables change may mix old and new. `BucketCreateIsAccountWide`: no permission on
a bucket holds `bucket_create`, although an update checks what it merged from a
row read before. Rules of templates are not checked that way in the code
(`scopeOK` has no caller in templates.go), so the property is about permissions.

### BucketSettings (internal/bucket)

| Variable | Code |
|---|---|
| `row` | the row of `buckets` of one name: its id and settings |
| `config` | what storage keeps of that bucket: versioning, logging |
| `changes` | counts requests, up to `MaxChanges` |
| `clean` | history: no requests overlapped and none stopped half-way since the bucket was made |

| Code | Actions |
|---|---|
| `create` | `CreateRow` (row and grant), `EnsureStore`, `PutVersioning`, `PutLogging`, `WriteRow` when it logs; when a call fails, `UndoStore` and `DropRow` |
| `update` | `LoadSettings` (the row, what the request makes of it, the checks), `PutVersioning`, `PutLogging`, `WriteRow` |
| `remove` | `LoadForRemoval`, `DropStore`, `DropRow` |
| `Ensure` of operations | `NameRow` |

`CallFails` is a storage call that is answered with an error, whether it happened
or not. `Grants` has the same creation and removal seen from the grants; here the
row's columns and the calls about them matter, and one bucket is enough, because
no request touches the settings of two. Storage is assumed to be configured, and
the target of a log exists (`validateLogging` looks it up; that it may be removed
later is neither checked nor promised).

`RowIsCoherent`: no alias-only bucket is without a display name and none logs to
nowhere, although rows are written back that were read before the storage calls.
`SettingsMatch`: without overlaps, storage does what the row says, after failures
of any call or statement, except where the code leaves them apart: an update that
had told storage something and then failed, or an undo that failed. With
overlaps it does not hold, and an update may undo another's columns: the code
promises nothing there.

### Listing (internal/objects)

`Store.Folded`, page after page, while rows come and go. `ReadRecords` is the
query of a page; then `foldList` goes record by record through what was read
(`page`: what is left of it, the entries so far, the folder of the last one, the
token), and `Answer` ends the page. Rows are put and removed in between.
Keys are positions in the order of the database, of which nothing is assumed:
the column and the ORDER BY name no collation, so that it is the database's, and
where that ignores case or slashes at first, other keys come between those of a
folder (`Scattered`).
`StayingAreListed`: a key that has its row all the time is listed, itself or by
its folder. `ListedOnce`: nothing is listed twice, but for a folder that was put
into, that the cap on scanned records cut, or that is scattered: `foldList`
remembers one folder, the last, and lists `A/` again when it comes back to it. The handlers list the storage
service; nothing in this repository calls `Folded`.

## 4. Runs

Bounds common to the edit runs: two requests in flight, two users. Two requests
show every race of a pair of handlers with the expiry of rows between; a third
would only delay.

| Run | Instance | Question | Distinct states |
|---|---|---|---|
| `edit_text` | text handlers, 1 lock id, 2 sessions, 2 tokens | can two sessions save; can a session save that never had the lock | 972 k |
| `edit_office` | Office handlers, forced unlock, lock status, 2 lock ids, 1 session, 2 tokens | who ends a lock | 894 k |
| `edit_lock_rows` | lock endpoints, forced unlock, Office open, 2 lock ids, 3 tokens, no session ids | is the table a lease | 362 k |
| `edit_occupied` (violation) | text open against lock acquire | does an occupied file open read-only | - |
| `share_links` | 2 requests, 1 link, budget 1 or none, both kinds of URL | is an access counted once, within budget, never after a revocation; how long do URLs live | 1.0 M |
| `versions` | 2 requests, all handlers, all forms of keys, 2 contents, 2 rows, 2 numbers | numbers and copies under overlap; rows and archives without it | 4.7 M |
| `versions_lost` (violation) | text saves only | is what a save overwrites always archived | - |
| `object_contents` | 2 operations of every kind that writes the bucket, 2 names with their trash, one of which may be read as the other, 1 content | can operations together delete the last copy | 2.3 M |
| `object_rows` | 1 operation of every kind at a time, uploads in between, 2 names, one of which may be read as the other or as its trash, 2 contents | do rows describe objects after any sequence and failure | 557 k |
| `requests` | 2 requests; see below | do uploads, quotas, the open API, permissions, grants, listings and settings of buckets keep what they promise under overlap | 1.3 M |
| `grants` | 2 requests, 2 accounts, 2 names, 3 bucket ids, 2 requests in all | do grants, rows and storage fit together under overlap, deadlock and failure; does every request end | 348 k |
| `grants_lost` (violation) | 2 requests, 1 account, 1 name, 3 requests in all | does a created bucket keep its grant | - |

The sets are sets of interchangeable model values and, but for `grants`, only
safety is checked, so the runs use symmetry (`grants` and `grants_lost` do without). Each run allows only the handlers its question is about
(`Handlers`); between them every action fires. One lock id in `edit_text` means
the second insert finds none: the conflict path, expiry and renewal of a single
row are all there, and `edit_lock_rows` has the succession of rows. The
theorems need none of these bounds.

`share_links`: a lifetime of 3 ticks with a clock that stops at 4 and a second of
2 ticks lets a request be before, at and past the expiry and the one-second
limit at every step; a budget of one is the smallest two requests can race for.
`MaxCount` bounds the count of unlimited links. `versions`: two numbers are
enough for a number to be used again after a removal and for the highest and
another version to be removed; two contents tell old from new. A presigned save
does all that the other one does, so the run has presigned saves only.

`object_contents` asks about each content by itself, so one is enough, and it is
the hard case: whatever is put back anywhere is that content. It does not look
beyond states where it is lost (`Kept`), because it stays so and the property
then says nothing. `object_rows` likewise does not look beyond an overlap, a
copy from a key with a %XX or a stop between bucket and rows (`Undisturbed`), and so needs one operation only.

`requests` (module `MCRequests`) puts eight parts side by side: uploads, quota,
api, rbac, pass, grants, list, settings. Their requests do not meet, so a behaviour is one
of a single part while the others rest in one of their initial states, and the
state space is the sum of the eight and not their product. A property of one
part is idle in the behaviours of the others. Bounds: two requests, two tasks and
two uploads of one key (two requests that race for one task, and a client that
names the upload of another); sums in a width of `MaxInt` 3, so that a declared
size of 3 wraps as soon as anything is recorded; two buckets with one object
name, limits of 0, 1 and 2; two applications and one key, which
may be given up and is then gone; two users of which one is the owner, one group,
one permission, template, rule and assignment each, three starting tables (all
filled, empty, owner alone) and three requests in all (`MaxAdmin`: a reader and
two writers); up to three rules out of all with two subjects, three prefixes,
one bucket or none, two actions (`MaxRules`: a longer prefix, an equal one, and
one that does not apply);
two accounts with one bucket name; six keys, one of them the prefix itself, with
a folder whose keys are together and one with an object between its keys, one
entry to a page and three records to a scan, so that pages end inside a folder
and between two; two
requests about settings, each of which may find the row and storage as any
earlier ones left them (`SettingsInit`, or a row without storage), with a display
name or none, a log's prefix or the default (`AskedSettings`: a change of the
prefix alone is among them).

`grants` has two names, so that a replacement grants and takes in one
transaction, and two accounts, so that there is somebody whose grants a
replacement or a deletion must leave alone; two requests in all are two that overlap as much as they can. A
third in succession is in `grants_lost`, where the loss takes a creation and two
replacements.

Deadlock is checked in the other runs. It is not in `requests`, `grants` and
`grants_lost`: there the number of requests, or of ids, is bounded, and a behaviour may use them up and stop.

Fairness and liveness. Only `Grants` has requests that wait for each other, and
only there is liveness a question: `EveryRequestEnds`. Its fairness is strong for
the steps of each request, because PostgreSQL queues row locks first come first
served, so a request whose row is free again and again gets its turn; and weak
for `Victim`, because a deadlock is found after `deadlock_timeout`. Failures and
new requests are never assumed to happen. Elsewhere nothing waits, a request
either answers or fails, and the code promises no lock to anyone who keeps
asking.

## 5. Proofs

`EditLocks_proofs` shows `Spec => []IInv` and from it `TypeOK`, `OneWriter`,
`OnlyGrantedWrite`, `OwnerEnds` and `ImplementsLease`, from two assumptions on
the constants (`NilAssumption`: None and the empty token are not ids, users or
tokens; `EditorAssumption`).

`OneWriter` alone is not inductive: two sessions could hold one token. That no
two do rests on the chain in `IInv`:

* `MintedArePrivate`, `MintedAreUnspent`: a token just minted is known to one
  request, to no session, and to no lock until that request stores it;
* `SessionTokensDiffer`: so no two sessions ever hold the same token;
* `UniqueActive`, `ActiveIsGranted`: at most one active row, whose token counts
  as granted;
* `Control` (`InPlace`): which handler can be at which point with what;
* `RowsWereRead`: a row about to be refreshed or released exists, and one about
  to be released is the caller's (`locked_by` never changes): this gives
  `OwnerEnds`;
* `SessionsExist`, `SavesAreGranted`: a save past its check belongs to a session
  whose token was granted.

The argument has two kinds of step. Most steps move one request and write
little: `QuietStep` proves once that such a step preserves `IInv` if the request
`Fits` its new place. Three store a token: `StoreStep` (insertLock, refreshLock)
and `InsertSessionStep`. `NextKeeps` collects them. For the refinement,
`StepKinds` separates the steps that can only end the lease (`ShrinkIsLease`)
from `InsertIsLease` and `RefreshIsLease`.

`ShareLinks_proofs` shows `BudgetKept`, `AccessNumbersDiffer`, `UrlsEndWithLink`,
`RevokedIsFinal` and `TypeOK`. The invariant relates three things: `CountsKept`
(the counting statement checks the budget itself), `NumbersCounted` with
`AccessNumbersDiffer` (numbers of answers, sent or on their way, lie in 1..count
and differ), and `RowsAreFixed` with `TimesFit` (what a request read of expiry
stays true, and its times add up). `BudgetKept` then is a counting argument:
the numbers of a link's answers are an injection into 1..max
(`NumbersBoundAnswers`, from `FS_Injection`). `QuietStep` covers every step but
`Serve`.

`Versions_proofs` shows the five properties of the run `versions`. `Numbered`
needs that the number a request holds leaves no gap even when it has become
stale (`NumbersFit`), and that nothing is deleted before a copy is
(`NothingDeleted`). The promises to requests that are alone need `Serial`: all
others are idle, the etag held is the object's, the number held is free, and
before the write the copy is the object, unless the key holds a %XX.
`ArchivesKept` is proved as `CopiesKept` and with `RestorableArchived`: for a
plain key, what restores would write is what is archived. `OwnVersions` follows from `OwnRows`,
`UniqueNumbers` and `NothingDeleted`.

`ObjectOps_proofs` shows the four properties of the runs `object_contents` and
`object_rows`. `NothingVanishes` is a counting argument. That the last copy
survives a move cannot be shown by pointing at the copy the move made: it may have
been moved on, and back, by others, onto keys that older operations are still
about to delete. `Spread` counts instead: a content that is not lost has more
places than operations about to delete one of them. A copy adds one to both, a
deletion takes at most one from both. (What was copied from a key with a %XX does
not count: what its deletion takes is lost.) `NoneRaced` and
`RecordsDescribeObjects` rest on `Serial` (what an operation that is alone `Knows` of the bucket) and on
`RowsFollow` (every row is right but those `Unsettled` by the operation under
way). That keys and operations are finitely many is assumed. Nothing is
assumed of the order in which they run.

`Requests_proofs` shows `StayingAreListed` and `ListedOnce` of listings.
What the client was told or is about to be (`Told`) is a list of entries up to
`Reached`. `AheadIsLeft` says that nothing is passed over: a row ahead is left
for the page, cut off by the cap (and will be read for the next one), or was put
there since. `FolderBehind` says that nothing is passed twice: a folder that was
told has no record ahead, unless the page is in it. It holds of the folders that
the order of the database keeps together (lemma `Between`: when the page leaves
such a folder, the keys ahead are of others), and it is of those that
`ListedOnce` speaks. `ListingAssumption` says that there are finitely many keys,
that a page has room for one, and that a scan reads a page at least.

`Uploads_proofs` shows the three properties of uploads. `UploadsInv` adds to them
what each request carries (`UploadsFit`: the key and upload of a request that
finishes a task are the task's, unless mixed; past the storage call the upload is
assembled, or no longer open unless the call failed), that a multipart task has
its upload, of the same key (`TasksFit`), and that a task which is not contested
is pending until the one request that ends it does (`Uncontested`). `Kept` is the monotone part, proved once: what exists keeps its
key and upload, and an upload that was ended stays so.

It also shows `QuotaKept` and `DailyKept`. The sums are `SumOver`, a fold by
`CHOOSE` over a recursive function. There is no induction over sets here, but
there is well-foundedness: `SmallestSet` (from the library's theorem about strict
subsets) gives a smallest counterexample, and from that `SumOver` has a value,
which grows and shrinks as its members do (`SummedExists`, `SumOverElement`,
`SumOverGrows`, `SumOverBound`). Additions may wrap (`Plus`), so the sums are
compared as they are and not as they are computed. `QuotaInv` says that a request
or task which is not stale has the `Room` it was admitted for, until it is
recorded, and that the day has its `DailyRoom`; every step either takes no room
(`Shrunk`, `OthersFit`) or makes stale whoever read before it.

`Access_proofs` has three parts. The first shows `ClosedGatesStayShut`,
`KeysHaveApps` and `ReviewsInOrder` of the open API. For the first of them,
`AllApiFit` says two things of every call: a gate it records as shut is shut now,
and a gate it has passed (`PassedGates`) is not among those. The
first holds because a step that opens a gate takes it out of `shut` of every
call, the second because a gate is passed only when it is open. `Alone` gives the reviews: unless
raced, there is one at a time and the status is still what it read.

`Grants_proofs` shows `LatestReplaceRules`, `LocalGrantStays` and the type
invariant. `GrantFits` says what a transaction knows: what it has
deleted was a grant of operations and, until it commits, is still there for the
others; what it will insert is new or deleted by itself; if it is lone, every
grant of operations is deleted or still to do, and every named bucket is
inserted, to do, or granted by someone it left alone. `Exclusive` is what the
row locks give: no two transactions hold the same grant. `UsersLocked` is what the
lock on an account gives its deletion: no other request adds a grant to the
account or holds one that it has locked, so that it takes with it what it has
seen. `Loses` describes what
a step does to everybody else (they are no longer lone and may have less to do),
and `LosingFits` shows once that `GrantFits` survives it.

`RowsHaveBuckets` has an invariant of its own, `RowsInv`: names differ, and a row
whose name is not spoiled is carried by its creation or by one removal
(`CarrierFits`), so that storage goes only with a removal that is about to drop
the row (`CreatedFits`). A name is spoiled by the step that breaks this.

The same module has `RowIsCoherent` and `SettingsMatch`. Two parts of
`SettingsInv` carry them. `WellMade` is true of every request, overlapped or not:
what it will write is coherent, and it knows whether it told storage anything.
`Sound` is true of a request that is alone, and says what storage has been told
when it gets where it is. The rest is about the settings themselves: applying
them twice makes no difference (`AppliedTwice`), and what an update does not tell
storage is what storage has (`SameLog`).

`RequestsCountDown` is the half of `EveryRequestEnds` that is not about time: no request ever has more ahead of it than
before. `Nearer` compares two states of a request: the later point of its
handler (`Distance`) or, within a loop, a smaller set of names, grants or rows
left (`Less`). Every step of a request brings that request nearer to its end,
and a step of another changes it only by ending its being lone or by leaving it
less to do; so a request does not run in circles, and what others do can only
make it wait. That waiting ends, because the row becomes free or the circle is
broken, is left to the run.

`Requests_proofs` also puts the parts of the run `requests` together.
`PartsAreComponents`: a behaviour of the composition is a behaviour of the
component in play, from its own initial states and by its own steps, so the run
and the theorems of the components are about the same thing. `TypesOKAlways`
follows from it and the components' type invariants. For this the module extends
`MCRequests` and the other modules of proofs, none of which defines a name twice.

The other two parts of `Access_proofs` are about permissions. `PassAgrees` is the
loop invariant of the pass: the longest prefix among the rules seen and what they allow together.
`RbacTypes` shows that every foreign key holds after every step, from
`RbacAssumption` (the tables an instance starts with satisfy the schema);
`RowsOfSubject` is its one argument about cascades. `BucketCreateIsAccountWide`
follows as the two writes of permissions check the whole row they write.
`DecisionsAreRight` needs `AllFresh`: what a request has read is, unless it is
late, what its statements would return now; and `SaySame`: what they return and
`RulesNow` hold, for whoever asks, rules of the same bucket, prefix and actions,
although under different subjects. `DecisionSame` shows that a decision depends
on no more than that.

Only model-checked: `EveryRequestEnds`, since liveness under fairness is out of
the prover's reach (its safety half is above), and the three violations, which
are not theorems. Every other property that a run checks is one.

## 6. Findings

* **An occupied file may open in edit mode** (`edit_occupied`). README.md:55
  says a file someone else occupies opens read-only. `textOpen` and `officeOpen`
  decide the mode on a first look and discard the answer of `acquire`
  (text.go:124, office.go:103). When the other lock appears in between, the
  response says `locked: true, readonly: false`. A text session opened this way
  cannot save (`OnlyGrantedWrite`); an Office session can, because the callback
  checks no lock (office.go:239).

* **A concurrent save can destroy an archive** (`versions_lost`). README.md:55
  says versions are copied before the object is overwritten. `Archive` copies to
  the key of a number it has not reserved (archive.go:17-24). Two saves read the
  same number; the first archives, inserts its row and overwrites the object;
  the second copies the new content over that archive and is then refused by the
  unique index. The row is there, the content it promises is nowhere. The edit
  lock does not keep the saves of one session apart.

  Two more limits of versions need no overlap and are in the model and in the
  conditions of `ArchivesKept` and `RecordsDescribeCopies`: because CopySource is
  sent unescaped (storage/client.go:349), a version of an object in a folder
  cannot be restored, and archiving an object whose key holds a literal %XX
  copies another object, or fails and with it the save.

* **A bucket created in the console can lose its grant** (`grants_lost`).
  README.md:55 says the grant of a bucket created in the console is recorded as
  local and survives changes by operations. `GrantLocal` inserts it ON CONFLICT
  DO NOTHING (bucket/store.go:101). A replacement that names the bucket after its
  row is there and before its grant makes it a grant of operations, which it
  stays; the next replacement that does not name it deletes it.

## 7. What is not modelled

See the components of `PROJECT.json`. Within `internal/edit`: the deletion of a
user cascades to its rows (no handler of this package does it); the content of
documents; `officeDownload` and `officeSave`, which only read. Within
`internal/share`: passwords and the list. Within `internal/versions`: list, get
and download, which only read, and the worker of another repository that removes
old versions. Within `internal/objects`: the expansion of directories (it selects
keys), `PatchHead`, and the statements only the worker of another repository
uses (`PurgeUnseen`, `ExpiredTrash`).

Login, passwords and tokens (`auth`): a token names an id whose row is read on
every request, and that row is in `Rbac`; the rest is one check and one UPDATE of
one row. Policies and CORS of a bucket: calls passed on to the storage
service. Changes of limits while uploads run. Secrets, signatures and what an
authenticated call of the open API then does, which is uploads, downloads and
listings. Platform settings, branding, statistics, the audit log, the task
queue, the storage client, formatting, configuration and the commands: single
statements, appends and pure functions, with nothing for an interleaving to
break.

## 8. Plan

In this order, most important first. Budgets are small on purpose: a run per
question.

1. `EditLocks`, `EditLease`, `EditLocks_proofs` - done.
2. `ShareLinks`, `ShareLinks_proofs` - done.
3. `Versions`, `Versions_proofs` - done. Left: an abstract specification (a
   history that only grows) that the serial behaviours implement, and a
   composition with the edit lock for restores.
4. `ObjectOps`, `ObjectOps_proofs` - done. Left: the order of the keys in a batch
   and a listing of more than one object.
5. `Uploads`, `Quota`, `Uploads_proofs` - done. Left: one module of both, with the
   task's row in common.
6. `ApiAccess`, `Access_proofs` - done.
7. `Grants`, `BucketSettings`, `Grants_proofs` - done. Left: one module of both.
8. `Rules`, `RulePass`, `Rbac`, `Access_proofs` - done. Left: what a decision
   may be when tables change while it is taken.
9. `Listing`, `MCRequests`, `Requests_proofs` - done.
10. `Accounts`: login and password change against disabling.
11. The arithmetic of `stats` as checked operators, and its alerts (raised and
    resolved by upserts).
12. `ExpandDeleteKeys`: which keys the deletion of a directory selects.
