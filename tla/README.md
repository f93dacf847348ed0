# Verification of datoriumdb

TLA+ models of datoriumdb: what happens to a document, its attachments, its search
listings and its cached summaries between the client's command and the last copy, and to
the configuration all servers share, with the concurrency, kills, I/O errors and
unreliable messages the Go code is exposed to. TLC checks the models on small instances;
TLAPS proves every safety property of the eight state machines and of the four
algorithms, and three refinements, for every value of the constants. `PROJECT.json` maps
every definition to the lines it models and lists runs, mutants, hazards, findings and
theorems.

    tlc -workers 2 -config MCDocStore.cfg MCDocStore
    tlapm DocStoreProofs.tla      # and each of the other *Proofs modules

## 1. The system

datoriumdb stores JSON documents as files. A document id hashes to a shard slot;
the shard map gives each slot one source-of-truth server (SOT), read members and
proxy members. Writes go to the SOT only.

| Component | State it keeps | Operations | Interacts with |
|---|---|---|---|
| Engine write path (`internal/engine`) | `Engine.mu`; nothing else | create, patch, delete, read | document storage, replication, change agent |
| Document storage (`internal/fsstore`) | `{id}.json`, preserved `.{id}.json`, `.changeQueue` markers | preserve, atomic write, verify, soft delete, enqueue | engine, agents, appliers: all share the files, only the engine's writers share a lock |
| Document replication (`internal/replication`) | `.pendingWrites/{target}.{id}.json` on the SOT; read state in memory on members | push once per target, stage, list, fetch, complete, apply | HTTP between SOT and members |
| Change agent (`internal/agents/change`) | `.taken` markers | claim, process, clean up, resume | write path (ProcessNow), scheduler (RunOnce), search result files, cache updates |
| Scheduler (`internal/scheduler`) | exclusion set, wake-up channels | run each agent again and again, one holder per key | all agents |
| Attachments (`fsstore/files.go`, `engine/files.go`, `replication/file_*`) | blobs, manifest, operation journal, `.pendingFileWrites` | upload, delete, recover, replicate | engine, HTTP |
| Cached summaries (`internal/agents/cache`) | cache files, `.pendingCacheUpdates` | push, apply, stub on read | change agent, read path |
| Upgrade agent (`internal/agents/upgrade`) | none | migrate documents to the current schema, on a scan or on first read | document storage, without the engine's mutex |
| Search (`internal/search`) | result file per bucket | evaluate, insert sorted, remove, query | change agent, HTTP |
| Establishment (`internal/establish`) | cached configuration files, machine token | refresh, renew token | config server, reload |
| Admin configuration (`internal/adminconfig`, `internal/ctl`) | configuration files, lock file | plan, validate, commit | engine reload |
| Sharding, configuration, auth, JSON, schema patches | loaded values | pure functions | everything |

What is hard here, and what correctness means for each part:

- **Write path.** The version check, the rename of the old file and the write of
  the new one are separate file operations. Two clients must not both consume one
  version; every return must free the mutex; an answer must agree with the effect;
  a kill or an I/O error between two operations must lose as little as possible.
- **Replication.** Pushes run concurrently after the mutex is free, time out
  without being recalled, and are retried by another machine from a staged file
  that later failures replace. A member must end up with the SOT's document, and
  must not serve what it knows to be behind.
- **Change agent.** It reads the files while the engine goes on writing, resumes
  after kills from markers alone, and two callers compete for each marker. A live
  document must end up listed where its content says, and only there.
- **Attachments.** An upload is streamed before the mutex is taken, and its commit
  is a journal, a rename, a manifest update and a clean-up: a kill between any two
  is recovered at the next start from what the journal says. Manifest and bytes must
  agree, a conditional write must replace what it named, and members must end up
  with the same files although their applier takes no lock.
- **Search.** Runs for different documents read, change and rewrite one result file
  without a lock and verify by reading again. The file must stay sorted, and list
  the documents of the bucket. Filing a document and resolving a query are two
  computations that must name the same bucket.
- **Cached summaries.** An update finds a cache file only if a read has made one,
  and reads make stubs at any time. Updates carry no order.
- **Configuration.** Files are replaced one by one under a lock file and read
  without it; members cache them one by one; a reload may be overtaken by an older
  one. A server must never believe it has a change that it has not.
- **Upgrade, sharding, names.** What an update list makes of a schema and of a
  document must fit together; who answers for a slot must be sent its writes; a
  work item must be found again under the id it was listed as.

## 2. Modules

| Module | Models | Composition |
|---|---|---|
| `AtomicDoc` | the promise: one document as an atomic compare-and-swap register that only a mishap can make unreachable | implemented by `DocStore` |
| `Followers` | the promise: copies that, while it is calm, move on to what their source has and to nothing else | implemented by `Replication` (one copy per member) and `FileReplication` (bytes and manifest entry per member and file) |
| `DocStore` | `Engine.create/patch/delete/read` and the `fsstore` operations below them | refines `AtomicDoc`; the change agent appears as `DistributeChange` |
| `Replication` | push, staging, `Applier`, catch-up, read state, for one document and any members | takes the SOT's write as one step, which `DocStore` justifies |
| `ChangeAgent` | claim, resume, search distribution and clean-up, for one document and one search | has the write path's file operations as steps, since the agent takes no lock against them |
| `FileOps` | `PutFile`, `DeleteFile`, download, cascade, the journalled commit and `RecoverFileOps`, one document's attachments on its SOT | stands beside `DocStore`: same mutex, other files |
| `FileReplication` | push, staging, `FileApplier`, file catch-up, for one document and any members | takes the SOT's commit as one step, which `FileOps` looks into |
| `SearchStore` | one bucket's result file on all its servers: `ApplyMutation`, sorted insertion, the delivery to all targets | looks into what `ChangeAgent` takes as one step per bucket |
| `CacheUpdates` | cache distribution, pending updates, the cache agent, stubs made by reads | the change agent's other half |
| `Establishment` | administrative commands, loading, the member's worker, schema versions and migration | composes `adminconfig`, `ctl`, `config`, `establish`, `upgrade` |
| `SearchEval` | validation, evaluation and query resolution of search definitions | operators |
| `SchemaPatch` | update lists on schemas and on documents | operators |
| `WorkItemIds` | the names of pending attachments and their parsing | operators |
| `Routing` | shard maps: coverage, assignment, who serves, who follows | operators |
| `Algorithms` | one input of one of the four, and what the operators return for it | extends the four |
| `MC*` | the instances for TLC | extend the above |
| `DocStoreProofs`, `ReplicationProofs`, `ChangeAgentProofs`, `FileOpsProofs`, `FileReplicationProofs`, `SearchStoreProofs`, `CacheUpdatesProofs`, `EstablishmentProofs` | theorems about the state machine each is named after | extend it and TLAPS; `ChangeAgentProofs` extends `Algorithms` too: the agent's pass is what files documents under their buckets, and the other three algorithms are proved beside that one |

In the state machines a document is abstracted to its `#` version: a number, 0 for
"no file". The id generator draws each id once, so versions can be numbered in the
order they are drawn. Content matters only in `SearchEval` and `SchemaPatch`.

### DocStore

Files are `live`, `prev` and `queue`; `mu` is the mutex; `pc[c]` is where a
request stands in its handler, one step per file operation. `LockAndAdmit` and
`LockAndRefuse` are `e.mu.Lock()` with the checks that follow before the first
change of a file; validation, whose outcome depends on content, is
`RefuseInvalid`. `IOError` is the early return of any file operation, `Crash` a
kill with restart (start-up repairs no document). `DistributeChange` is what the
change agent does to these files, at any time. `doc`, `commits` and `acked` are
history variables that no action reads. One document is enough: no two documents
share a path, and what they share, the mutex, only removes interleavings.

### Replication

`pushes` holds the push requests, each with the step its handler is at and
whether the SOT still waits for it; `PushFailed` is every way `pushOne` returns
false, the timeout included, after which the request may go on at the member.
`ApplyStep` is `Applier.Apply` one file operation at a time; several Apply calls
for one document may run at once, as in the code. `pending` is the one staged
file per target. The catch-up agent's check-in is `CheckIn`/`CheckInFails`,
`Fetch`, `CatchupApply`, `Complete`/`GiveUp`. `isolated` is a history variable:
no write has begun before the last was settled everywhere, and the SOT has staged
every unacknowledged write.

### ChangeAgent

`writer` is the write inside the engine's locked section, `run` the agent run that
holds the exclusion key, `listed` the `.taken` markers some worker has read from
the directory and not yet tried. `bucketOf` assigns each version a bucket or none,
chosen in `Init`, so that all assignments are checked. Each bucket is its own step
of a run (`RemoveOld`, `UpsertNew`), as removals and insertions are delivered one
by one. `cut` records that a write was stopped before its marker, `overlapped`
that a write began before the last was distributed.

### FileOps

`staged`, `journal`, `blob` and `manifest` are the files; bytes are named by the
version they become. The upload is a step before the lock; after it each file
operation of `CommitStagedBinary`, `CommitFileDelete` and
`CascadeDeleteDocumentFiles` is a step that can fail or be followed by a kill. The
server then runs `RecoverFileOps` journal by journal; recovery stops at its first error,
a journal that cannot be removed stays, and the server serves in either case
(`main.go:154`). An operation id names the journal file and is the client's choice, so
it may be one that was used before (`key`): its journal then replaces the older one. A
download reads the manifest (`OpenFileForDownload`) and opens the bytes later
(`OpenBinary`), both without the mutex. `latest` is the version of the last commit.
`harmed` names the files of an operation that was cut off where the journal does not
tell recovery the truth: a kill or an error between the rename of the bytes and the
journal's `blobCommitted`, one inside the cascade of a document delete, and a
`blobCommitted` journal that is left, by an error of the operation or by recovery, while
the server serves: its entry is missing until a later start replays it, perhaps after
later operations. The properties say that these are the only ones.

### FileReplication

Works as `Replication` does, with three differences the code has: one staged entry
per file, a manifest that holds all files of the document and is read and written
back without a lock (`Carried` is what such a write carries along), and content
fetched in a second request, by the version the SOT has by then. A refusal in a 200
answer counts as an acknowledgement, as in `pushFileOne`; `isolated` turns false
there, when an entry could not be staged, and when an operation begins before the last
is settled or while a member still has a journal of it (`Clean`).

### SearchStore

`calls[d][s]` is the `ApplyMutation` of a document's run on a server, one step per
read, write and re-read, up to `MaxAttempts`; `orphan` is one whose client has gone.
Sort values go through `SortValuesToJSON` and back, so that a missing and a null
value end up as the same thing. `prev` is the preserved document: a run takes a document
out of the bucket only if the preserved one was in it (`Begin`; otherwise
`BeginNothing`), and its clean-up removes the preserved one although a later write may
still need it. `lost` are the documents that have left the bucket and are not taken out
for that reason. `harmed` are the servers where a mutation that had
already been verified was overwritten by a writer that had read the file before it,
or where an orphan wrote values that were no longer the document's: the two cases
the re-read cannot see.

### CacheUpdates

A cache file is the version it holds. `run` is the change agent's run: it stages an
update for a target, applies or pushes it, removes what was acknowledged, and goes
on to the next target. `agent` is a member's cache agent; `reader` a read that found
no cache file (`ReadAbsent`) and writes a stub later (`EnsureStub`). The history
variables mark what the code does not promise to survive: `overlapped` (a write
before the last was distributed) and `stubbed` (a stub over a file that had arrived);
`had` are the servers that had a cache file when the source was written. A failed local
update is not repeated, but its entry stays, and so the change does not count as
distributed. A change's commit and its queue marker are one step here; `ChangeAgent` has
the kill between them.

### Establishment

One collection; its schema is the number of upgrades in it. `est` is the directory
of the establishment server, changed by the engine's commands and by `datoriumctl`,
file by file in the order of `orderedWrites`, under the lock file. `loader` is a
load of that directory in three reads, next to commits; `cfg[s]` what a server has in
memory. `worker` is the member's establishment worker: ask, cache file by file
(`disk`), reload, count failures, fall back to the cache at start-up. `doc[s]` is
the schema version of a document, brought forward by `MigrateDocument` where the
update lists are at hand. `GET /establish` is registered on every server: on the
establishment server it loads the directory and answers (`AnswerEstablish`), on a member
it makes the engine load the cached files, whatever the worker is doing to them
(`ReloadMember`). `early` says that a member has loaded files half written, in this way
or at start-up. `promised` remembers what each general version stood for.

### The algorithms

`SearchEval` is written for definitions of two clauses, the first on a field of
every kind, the second on a boolean: enough for clauses that add no segment, one, or
several. Arrays may hold null, and a numeric string is a constant for an array of numbers.
`SchemaPatch` covers all five kinds with required, nullable, defaults and what a
schema asks beyond the kind (`asks`, met by the values that `Has` says: the items of an
array, the required children of an object, the format of a string), and every operation,
on fields that are not inside one another. `WorkItemIds` splits and joins names at their
separators and follows an item id through the request URL, where only `/` is escaped
(`UrlPath`, `PathValue`); `Routing` looks slots up in a shard map. Texts, fields, characters, slots
and servers are constants. What the code computes of a text alone is a constant
function: `Hex` for the hexadecimal encoding, `NumberText` for the number a value is
read as, `ArrayText` for the array of one value, `Escapes` for the character two
hexadecimal digits stand for. Each algorithm is compared with a reference that is written from what the
result is for and not from the code: `Means`, conformance to the new schema, the path
that was staged, the one source of a slot. (Where SEARCHING.md:220 leaves it open,
`Means` follows the code: a document without the field of an `equals` with a constant
counts as not equal.) `InputSpec` picks one input of one of them.

## 3. Runs

| Run | Instance | Result |
|---|---|---|
| `doc_store` | 2 clients, 3 ids, 1 kill, 1 I/O error | passes: types, `NoDoubleClaim`, `LastCommitIsLive`, `AnswerMatchesEffect`, refinement of `AtomicDoc`, `EveryCommandAnswered` |
| `doc_store_crash` | 1 kill, no I/O error | `ConfirmedWriteSurvives` violated |
| `replication` | 1 member, stale after 2, 3 writes, 1 mishap | passes: types, `IsolatedWritesConverge`, `BacklogDrains` |
| `replication_converge` | no mishap | `MembersCatchUp` violated |
| `change_agent` | 2 buckets, 3 writes, 1 mishap | passes: types, `LiveDocumentIsListed`, `ListedOnlyThere`, `QueueDrains` |
| `file_ops` | 2 clients, 1 name, 4 operations, 1 kill, 1 I/O error (627 k states) | passes: types, `FilesAgree`, `NoFilesWithoutDocument`, `DownloadNotOlder`, `NoLostFileUpdate` |
| `file_replication` | 1 member, 2 names, 2 operations, 1 mishap (437 k) | passes: types, `IsolatedFilesConverge`, `StagedNotForgotten`, `FileBacklogDrains` |
| `search_store` | 2 documents, 2 servers, 2 sort values, missing and null, 2 changes, 2 attempts, 1 mishap (704 k) | passes: types, `ResultsSorted`, `VerifiedResultsAgree`, `SearchDrains` |
| `cache_updates` | 2 servers, 2 readers, 2 changes, 1 mishap (875 k) | passes: types, `IsolatedCachesCatchUp`, `PendingUntilApplied`, `OnlyReadsCreate`, `CacheBacklogDrains` |
| `establishment` | 2 administrators, 1 search, 1 upgrade, 3 general versions, 2 failures in a row, 1 mishap (1.3 M) | passes: types, `GeneralCountsChanges`, `GeneralNotAhead`, `MemberCatchesUp`, `EstablishmentDocumentsMigrate` |
| `establishment_upgrade` | 1 upgrade, 2 general versions, no mishap, a document on the member | `DocumentsMigrate` violated |
| `algorithms` | every input over four strings and one number, two fields, with arrays of numbers and objects with or without a required child, ids up to 3 and names up to 4 characters with `.`, `-`, `?`, `#` and `%`, 3 slots, 2 known servers, maps of up to 2 ranges (1.4 M) | passes: `QueryFindsExactly`, `MigrationConforms`, `FileItemsResolve`, `ServersFollowTheirSources` |

What the violated ones show, each against a sentence of the documentation
(quoted in `PROJECT.json` under "findings"):

- `doc_store_crash`: create is confirmed; a patch renames the live file away; a
  kill. The confirmed document is only at the preserved path, where no read looks
  and nothing restores it from.
- `replication_converge`: a create and a delete, both acknowledged; the create's
  write on the member happens after the delete's. Nothing is staged, so the member
  keeps the deleted document.
- `establishment_upgrade`: a collection is upgraded, the member refreshes and has
  schema version 1 with no update list, because the establishment document carries
  none; every migration of its documents fails from then on.

The passing properties state what does hold around them: `LastCommitIsLive` says the
window is the only way to lose sight of a document; `IsolatedWritesConverge` that lost,
late and repeated messages are harmless as long as writes do not overlap;
`LiveDocumentIsListed` that overlap never hides a live document from search;
`FilesAgree` that recovery is right outside the windows `harmed` records, and that it
matters only for the names of journals it has left;
`VerifiedResultsAgree` that the re-read catches every race whose loser is still at work;
`GeneralNotAhead` that writing `__general.json` last and reading it first is enough for
a reader without the lock, and that a member, whose cache is written the other way round,
is ahead only after it has loaded a half-written one. `ServersFollowTheirSources` needs the coverage check: with
overlapping ranges Go's random map order sends a write to one server and a reader to
another.

### Known observations

What else the models showed and what the properties therefore exempt. None of them
is a run of its own. The first four contradict the documentation and are findings in
`PROJECT.json`, attached to the run whose property names the exception.

- A missing sort value is stored as null and compares like one (`search/sort.go:53`),
  so a null that is filed later is listed behind a missing value. docs/search.md:124:
  "known values sort first, then `null`, then missing". `ResultsSorted` asks only for
  known values first.
- `convertKind` looks at the outer kind only (`schemapatch/document.go:193`): an array
  keeps items of another kind, anything else becomes its one item, and what is no object
  becomes `{}` even where children are required. tech-docs/UPDATE-SCHEMA.md:175: "each
  individual item is converted by the rules in this document", :188: "placed as the first
  item in the array if allowed. Otherwise, use an empty array."
- `schemaKindMatches` imports an extra field if its kind is right (`document.go:314`);
  tech-docs/UPDATE-SCHEMA.md:83 asks that its "value matches the new schema".
  `MigrationConforms` exempts both, and only where the value is of the right kind
  (`MeetsKindOnly`).
- `urlPathEscape` escapes only `/` (`replication/file_catchup.go:283`), so the item of a
  file with `?`, `#` or `%` in its name is not found, or another one is;
  tech-docs/BINARY-FILES.md:118 admits these names. `FileItemsResolve` exempts them.
- A null under `convert` is converted like a value, to "null", 0, false, [null] or {}
  (`document.go:164`), though tech-docs/UPDATE-SCHEMA.md:170 has null values "follow
  removal logic" when a field stops being nullable. The result is of the new kind.
- A recovery that fails is logged and the server serves (`main.go:154`): the bytes of
  the operation are new and its entry is old, a conditional write that names the old
  version is admitted, and the journal is replayed at a later start over what was
  written since.
- `GET /establish` on a member in the middle of `writeConfig` loads the new
  `__general.json` with old files (`server/http.go:90`); the member is then ahead until
  it loads again.
- A read on the SOT takes no mutex: between the two renames of a patch it finds no
  document (`engine.go:299`).
- `applyOne` of the catch-up agent clears the mark of a document it knows to be
  behind when the apply failed, too (`catchup.go:144`).
- The change agent's clean-up may remove a previous document it has never processed;
  the bucket of that version then keeps the document (`change/agent.go:198`). In
  `SearchStore` these are the documents in `lost`.
- A delete marker that is processed after the document was created again writes the
  deleted state over the summary of a live version (`change/agent.go:320`).
- A kill between the rename of an attachment's bytes and the journal's next phase
  leaves manifest and bytes apart after recovery (`fsstore/files.go:494`).
- A staged attachment whose bytes the SOT no longer has heads the list for ever and
  holds up all that sort after it (`file_catchup.go:71`); `FileBacklogDrains` exempts
  exactly that entry.
- Of two appliers of one attachment operation, push and catch-up, one may fail after
  its bytes were in place and leave its journal behind, while the other finishes and
  the operation counts as delivered. A later operation on that file is then undone in
  the manifest when the member starts again and replays the old journal
  (`fsstore/files.go:536`). It takes two mishaps and was found when the invariant for
  `IsolatedFilesConverge` turned out not to be inductive; the property now asks for
  members without such journals (`Clean`).
- The error path of `RefreshOnce` after the last file was cached is not taken for what
  relates the files to one another (`establish/worker.go:203`): the proof of
  `RefreshDone` shows that an answer cached completely validates.
- Names: a hyphen in the last part of an attachment's name makes its work item
  unresolvable, and the documents `a` with file `b.c` and `a.b` with file `c` share
  one pending path (`file_workitem.go:39`, `:94`).
- A search that compares a variable with a number or an array is accepted, and every
  evaluation of it fails (`search/definition.go:231`, `evaluate.go:134`).
- `replace` without a value passes on the schema and fails on every document
  (`schemapatch/document.go:119`); a move or copy may capture a field the schema does
  not name (`:126`).
- A kill between `schema.json` and its numbered copy leaves a directory that no
  longer validates; one before the update list is written leaves it missing for good
  (`adminconfig/collection.go`). A search that was deleted stays on members
  (`establish/worker.go:473`).
- An SOT's own pending cache update, left by a failed local apply, is drained by
  nobody (`cache/agent.go:68`).

### Bounds

Two clients show every race on one mutex: a third can only wait. Three ids allow
create, patch, and two commands on the same version, and a delete followed by a
create. One kill and one I/O error may hit any step, and both may hit one history.
Three writes give a member create, patch and delete, and each in flight with the
other two; members share nothing but the SOT's document, which they do not change,
so one member shows what each of them does. (Two members and two writes exceed
five minutes.) Two buckets and "none" cover staying, moving, entering and leaving.
Four operations give an attachment put, replacement, delete and a race
with the document's delete and re-creation; two names show what one file's manifest
update does to another's. Two documents share a result file, and two sort values with
missing and null cover every comparison; two attempts reach the error of exhausted
retries. Two readers can both find no cache file. One upgrade, one search that comes
and goes and one edit of `__servers.json` give each kind of plan, three general
versions let two commands follow one another; two failures in a row reach the limit.
Three slots and two ranges give gaps, overlaps and shared borders; names up to four
characters put each separator at each place.

`MaxIds`, `MaxWrites`, `MaxOps`, `MaxChanges`, `MaxCrashes`, `MaxFaults`,
`MaxMishaps`, `MaxVersion`, `MaxServers` and `MaxGeneral` are bounds in the guards, so
the temporal properties are checked on the complete state graph. The runs of
`FileOps`, `FileReplication`, `SearchStore`, `CacheUpdates` and `Algorithms` switch
the deadlock check off: there everything is done, or the bound is used up, and nobody
has to ask for more. In the three with a liveness property work that could not go on
would break that property; that every attachment request is answered is not checked.

### Fairness

- `DocStore`: each request has a goroutine, so its steps are weakly fair; waiting
  for the mutex is strongly fair because `sync.Mutex` hands the lock to a starving
  waiter. Clients, reads, kills and errors owe nothing.
- `Replication`: the catch-up loop ticks for as long as the process lives, so
  `CheckIn` and each step of an item are weakly fair. `Fetch` and `Complete` are
  strongly fair: a network that is not cut for good lets one through in the end.
  Nothing is assumed of the pushes.
- `ChangeAgent`: the scheduler calls `RunOnce` again and again, so an entry is
  picked up and a run carried on. Mishaps are bounded, so a delivery does not fail
  for ever; with one that does, the queue does not drain, in the code either.
- `FileReplication`: as in `Replication`; the three requests of an item are strongly
  fair, its own steps and the check-in weakly.
- `SearchStore`, `CacheUpdates`: the scheduler retries entries that were left and runs
  every cache agent again and again, so runs begin and go on; a handler that was
  entered ends. Failures are bounded mishaps.
- `Establishment`: a command or handler that has begun goes on, the worker's ticker
  ticks, the upgrade agent is scheduled again and again. Nobody has to start a server,
  issue a command or remove a stale lock: `MemberCatchesUp` and the migration
  properties hold vacuously while the server concerned is down, and say so.

## 4. Mutants

Every property of a passing run has a mutant of the code's model that breaks it: a
marker with a wrong name, no mutex, no version comparison, a forgotten unlock, a
completion on failure, a clean-up that removes too much or too little, and so on.
They are the operators commented "Mutant:" beside the definition they replace.

## 5. Proofs

Each `...Proofs` module proves, for every value of the constants, every invariant
and action property that the runs check of its state machine, `ChangeAgentProofs`
those of the algorithms as well:

| Module | Theorem | Statement |
|---|---|---|
| `DocStoreProofs` | `TypeCorrect` | `Spec => []TypeOK` |
| | `ClaimsAreExclusive` | `Spec => []NoDoubleClaim` |
| | `CommitsAreNotUndone` | `Spec => []LastCommitIsLive` |
| | `AnswersAreTruthful` | `Spec => []AnswerMatchesEffect` |
| | `WritePathIsAtomic` | `Spec => RefinesAtomicDoc` |
| `ReplicationProofs` | `TypeCorrect` | `Spec => []TypeOK` |
| | `IsolatedWritesReachEveryMember` | `Spec => []IsolatedWritesConverge` |
| | `MembersFollow` | `Spec => RefinesFollowers` |
| `ChangeAgentProofs` | `TypeCorrect` | `Spec => []TypeOK` |
| | `DistributedDocumentIsListed` | `Spec => []LiveDocumentIsListed` |
| | `DistributedDocumentIsListedOnce` | `Spec => []ListedOnlyThere` |
| | `ServersFollow` | `InputSpec => []ServersFollowTheirSources` |
| | `PendingFilesResolve` | `InputSpec => []FileItemsResolve` |
| | `MigrationsConform` | `InputSpec => []MigrationConforms` |
| | `QueriesFindExactly` | `InputSpec => []QueryFindsExactly` |
| `FileOpsProofs` | `TypeCorrect` | `Spec => []TypeOK` |
| | `ManifestAndBytesAgree` | `Spec => []FilesAgree` |
| | `DeletedDocumentHasNoFiles` | `Spec => []NoFilesWithoutDocument` |
| | `DownloadsAreNotStale` | `Spec => []DownloadNotOlder` |
| | `FileUpdatesAreNotLost` | `Spec => NoLostFileUpdate` |
| `FileReplicationProofs` | `TypeCorrect` | `Spec => []TypeOK` |
| | `IsolatedFilesReachEveryMember` | `Spec => []IsolatedFilesConverge` |
| | `StagedFilesAreNotForgotten` | `Spec => StagedNotForgotten` |
| | `FilesFollow` | `Spec => RefinesFollowers` |
| `SearchStoreProofs` | `TypeCorrect` | `Spec => []TypeOK` |
| | `ResultsStaySorted` | `Spec => []ResultsSorted` |
| | `VerificationRepairsRaces` | `Spec => []VerifiedResultsAgree` |
| `CacheUpdatesProofs` | `TypeCorrect` | `Spec => []TypeOK` |
| | `CachesCatchUp` | `Spec => []IsolatedCachesCatchUp` |
| | `PendingUpdatesAreNotDropped` | `Spec => PendingUntilApplied` |
| | `UpdatesCreateNothing` | `Spec => OnlyReadsCreate` |
| `EstablishmentProofs` | `TypeCorrect` | `Spec => []TypeOK` |
| | `GeneralVersionsAreCounted` | `Spec => []GeneralCountsChanges` |
| | `GeneralVersionIsNotAhead` | `Spec => []GeneralNotAhead` |

The bounds of the guards are constants too, so a theorem covers any number of writes,
kills and errors; the runs have one or two. The algorithms' theorems are about any
texts, fields and characters, ids and names of any length, and shard maps over any
slots, servers and ranges.

### Assumptions

Bounds are natural numbers, and the values that stand for "nothing" differ from all
others. Beyond that: `FileOps` has at least one file name and `FileReplication` at least
one; `SearchStore` has finitely many documents, and the special sort values (`Gone`,
`Missing`, `Null`) are distinct and no numbers; the read servers of `CacheUpdates` come
as a list without repetitions, as `AllReadMembers` returns them; `Establishment` has
room for at least one general version and one version of `__servers.json`, those of a
fresh directory. `SearchEval` needs of the hexadecimal encoding that different texts
have different ones and that none is the word `empty`, the path of the empty string, or
`null`; no number reads `null` either. In `WorkItemIds` letters are neither separators
nor the characters a URL gives a meaning, and `null` is a text of letters. `SchemaPatch`
and `Routing` need nothing of their texts and servers. No set of clients,
members, buckets, servers or readers need be finite or nonempty. `IInv` of each module
is an invariant that TLC checked on the run's instance before it was proved.

### The arguments

None of the state machines' properties is inductive. What `IInv` adds, and why it is
enough:

- **DocStore.** The mutex is held by exactly the request inside the locked section,
  and by one at most (`MutexInv`); ids are drawn once and files hold committed versions
  only (`IdInv`); what a request relies on at each step, for instance that a patch about
  to write was checked against the last commit, whose version nobody has consumed
  (`StepInv`); and that the live version is unclaimed. Steps that move no version
  need one common argument (`QuietInv`); the two that commit (`CommitInv`) and the
  rename (`PreserveInv`) carry the weight. The refinement maps the document to
  `Current`: inside the rename window it is still the version the patch was checked
  against, otherwise the live file. A committing step is then `Take`, a kill or an I/O
  error is `Mishap`, and everything else stutters.
- **Replication.** While writes do not overlap there is one write `cur` that everything
  under way, staged or being applied is about (`OnlyWriteIs`). A member without it is
  owed it (`Owed`): it is staged, or the SOT still waits for the push. The hard part is
  an Apply that runs twice at once: a patch finds the preserved document instead of the
  live one, so a member that has the patch must also have preserved what it replaced.
  `ApplyKeeps` shows that for one step of one Apply call, push or catch-up. The
  refinement of `Followers` takes the members' documents for the copies. A write that
  keeps the calm finds every member settled, hence up to date, and is `Write`; every
  other step leaves a member as it is or, if it is behind, moves it to the write under
  way or, inside a patch, to no document (`ApplyFollows`), and is `Follow`. `StepFollows`
  adds what convergence at rest does not say: a member that has arrived is never taken
  back by a repeated or late Apply.
- **ChangeAgent.** `ListedInv`: when no write is at work and no marker waits, a run
  knows the live document, and it is listed unless a `.taken` marker is left for a run
  that has not got there. `CalmInv`, for writes that do not overlap: a writer is alone,
  and the preserved document names the only other bucket that may still list it.
- **FileOps.** Per step of the holder, which of journal, bytes and manifest already
  have the new version (`HolderInv`); a `blobCommitted` journal of an unharmed name
  tells the truth and, while the server serves, is the holder's own, because a server
  that begins to serve over others marks their names (`JournalInv`);
  bytes and entry are the last commit's but for what the holder or recovery has still
  to do (`AgreeInv`). Downloads need no lock because bytes only get younger (`AgeInv`):
  whatever a download opens is no older than the entry it has read.
- **FileReplication.** As in `Replication` there is one operation `x` under delivery
  (`Delivering`), until the document is deleted (`AllGone`). Every step then goes
  *forward* with `x` (`Forward` in the proofs): it changes nothing but x's file, to what
  the SOT has, first the bytes, then the entry, and leaves no journals but of `x`.
  `ForwardKeeps` shows that such a step harms no member and no applier at work, which
  settles the races between push, catch-up and recovery once for all actions;
  `ApplyForward` and `StepMemberCrash` show that an applier's steps and a replay are of
  that kind. An applier that writes back a manifest it loaded earlier carries the
  entries of the other files along: they cannot have changed in between (`ApplierInv`).
  That every step goes forward is also why the refinement of `Followers` holds, with the
  bytes and the entry of each file as copies and no value in between (`StepFollows`,
  `FollowersStep`).
- **SearchStore.** `UpsertFacts` shows for lists of any length that insertion before
  the first greater item keeps a sorted list sorted, adds one item and keeps the rest;
  `ResultsSorted` then holds because also what was loaded is sorted (`CopyInv`). For
  `VerifiedResultsAgree` a call that finds its own version in the re-read must find its
  own mutation with it (`VersionInv`), and a document already served is right on each
  unharmed server (`RightInv`): a write that would change that is one that undoes a
  finished mutation, and marks the server as harmed. A run that has nothing to do for a
  document is right because of `AbsentInv`: a document that is out of the bucket, was not
  in it when it was preserved and is not `lost`, is listed nowhere.
- **CacheUpdates.** While changes do not overlap, all that is staged, pushed or applied
  is the live version, and a server that lacks it has an entry or the run has not passed
  it (`Calm`). That updates create no file rests on `WriteInv`: whoever is about to
  write a cache file has seen one, and cache files are never removed.
- **Establishment.** Whoever is at work holds the lock (`LockInv`), and what is left of
  a plan ends in the next general version, preceded by the changes it counts
  (`PlanInv`). Therefore a general version stands for no more than the files hold by the
  time it can be read (`PromiseInv`), and a load that reads it first finds at least that
  much later (`LoadInv`). On the member `AnswerInv` says of each file of an answer that
  it is cached or yet to be cached, so a completed refresh has what it claims, and so has
  whoever loads the cache while no refresh is half written (`CacheInv`).
- **The algorithms** have no state beyond their input, so each theorem is about what the
  operators return. *Routing*: `FullCoverage` makes the range of a slot unique, hence
  also the assignment, and the three look-ups find the same one. *WorkItemIds*: a name
  is taken apart at the last place where an id and a file name result; the listed id is
  the name with a hyphen there (`ParseNameAgain`), and taken apart it becomes the same
  name again (`ParseItemAgain`) unless a hyphen behind that place is preferred, which
  takes one of the exceptions (`ItemResolves`). An item without a URL character arrives as
  it was sent.
  *SchemaPatch*: one lemma per operation says that the fields an update does not touch
  conform as before and that the one it touches has a value the new entry admits, or one
  of the right kind that falls short of it (`MigratedButFor`).
  *SearchEval*: per form of clause, the segments a document is filed under are those a
  query may name, and a query's segment is among them exactly if the document satisfies
  the clause (`EveryClauseRight`; `Hex` is injective). `PathsMeet` puts two clauses
  together: a clause adds a segment to both paths or to neither, so equal paths have
  equal segments.

### Only model-checked

- Liveness: `EveryCommandAnswered`, `BacklogDrains`, `QueueDrains`,
  `FileBacklogDrains`, `SearchDrains`, `CacheBacklogDrains`, `MemberCatchesUp`,
  `EstablishmentDocumentsMigrate`. The prover has no rules for fairness or `ENABLED`.
- What a definition of more than two clauses or an update list of several operations
  does is neither checked nor proved: lists of any length need induction over data,
  which is out of the prover's reach. An update list is applied operation by operation,
  so the theorem about one operation is its step.

`RefinesFollowers` is the other way round: it is proved for both replication modules,
and TLC checked it on the instances of `replication` and `file_replication`, but no run
repeats that.

## 6. Not modelled

- Content in the state machines: schema validation, JSON patches, canonical encoding.
  They decide whether a command is refused and which bucket a version is in; both are
  nondeterministic there. Nested fields and paths, numbers beyond a
  few values, and the paging of search results are abstracted in `SearchEval` and
  `SchemaPatch`.
- Sizes, checksums and byte ranges of attachments (`http_range.go`, the size limit of
  `countingReader`); the hash from a document id to its slot.
- A member's replay of its attachment journals that fails half-way: `MemberCrash` of
  `FileReplication` replays all of them. `FileOps` has the failing recovery for the SOT.
- Migration's own file operations, which run without the engine's mutex: they are one
  step of `Establishment`. A patch between them may be overwritten
  (`upgrade/apply.go:24`); no property speaks about it.
- What a cache projection selects of its source; only the version is followed.
- Authentication, access rules, request decoding, command-line parsing and printing:
  pure functions without shared state. `rfc6902` has no caller outside its tests.
- Durability below rename: a kill is a process kill, so what was renamed is there.
- The durable `.operations` records of `replication/operation.go`: no caller begins
  one any more, so `ResumeIncomplete` finds none.
- Time: intervals and timeouts are "may happen at any moment".

## 7. Plan

The components whose logic a model can tell apart are modelled, and the safety
properties of the state machines and the algorithms are proved. What is left:

1. An abstract specification of `CacheUpdates`. `Followers` does not fit as it is: a
   stub that a read writes late takes a copy back.
2. A convergence theorem that does not ask for isolation, restricted to the operations
   for which the code promises it (creates of different documents commute; a delete
   that is acknowledged last).
3. Search definitions of any number of clauses, with paths as sequences of optional
   segments.

Model extensions still worth their states: migration's file steps inside `DocStore`, a
second document in `ChangeAgent`, and check-ins that hang.
