# cortex-mem (`aoms`): a TLA+ verification project

`cortex-mem` is a local memory store for agents: one SQLite file, written and read
by any number of processes (an MCP server per client, the command line, scheduled
sweeps) without a daemon that would serialise them. These modules model the parts
of it whose correctness depends on the order in which those processes' transactions
land, model-check them with TLC, and prove the properties that matter most with
TLAPS. Paths below are relative to the repository's `src/`.

Contents: 1 the system and its inventory; 2 the modules; 3 the runs, their bounds
and what they show; 4 where the code and its documentation part; 5 what is proved,
and how; 6 assumptions and what is left out; 7 the plan.

## 1. The system

An application call (`aoms/application.py`) is a coroutine. Each `await
self.repository.x()` runs one method of `SQLiteMemoryRepository`
(`aoms/repositories/sqlite.py`) in a thread, on a connection of its own, as one
transaction. Between two awaits any other call of any process can run, and a
process can disappear. This is the grain of every model here: **one action is one
repository transaction together with the Python up to the next await**.

| Component | State | Operations | What is hard about it | What makes it correct |
|---|---|---|---|---|
| Contest gate (`contest.py`) | none: a pure function | `decide` | judged on a slot read earlier; fixed trigger order; triggers can be disabled one by one | errs towards holding aside; an admission over other content replaces the one occupant |
| Contest ledger (`application.py`, `sqlite.py`, `contracts/models.py`) | `memories`, `contest_entries`, `write_receipts` | `remember`, `supersede`, `resolve_contest` | every call is several transactions: check, then act; retries and crashes; racing verdicts | tables agree, incumbents stand, one creator per id, verdicts given once, the trail reproduces every disposition, nothing crosses a scope |
| Embedding queue (`embedding_jobs.py`, `backfill.py`, `sqlite.py`) | `embedding_pending`, the vector tables, `memories.updated_at` | enqueue, claim under lease, embed, complete, fail, scan | leases that run out under a live worker, partial answers, re-imports during embedding, death anywhere | no work lost; rows leave only for their vector; every memory is embedded in the end |
| Schema migrations (`sqlite.py`) | schema, `schema_version`, FTS tables | apply each pending version, rebuild the full-text index | statements commit one by one; a crash inside a version; two processes opening one old file; writers during the rebuild | a version that is recorded is whole; whoever opens the store gets in |
| Recall receipts and retention (`receipts.py`, `sqlite.py`) | `recall_receipts` | save with inline retention, prune, restore | two budgets (count, bytes); a receipt's time is when its recall began, not when it is saved | budgets kept, the newest stay |
| Recall pipeline, supersession chains (`recall.py`, `truth.py`) | none: one read of several steps over a store that changes | embed the task, retrieve by text, vector and recency, rank, resolve chains, pack a budget, leave a receipt | chains that fork, skip or loop; writes and verdicts between the queries; held-aside candidates | a chain speaks by its head; the receipt accounts for every candidate |
| Lineage and as-of search (`sqlite.py`, `truth.py`) | none: reads | walk links, timelines, search at a time, chain diagnosis | four pieces of code read the same links, each in its own way | they agree |
| Auth tokens and rate limit (`auth.py`) | `auth_tokens`, token buckets | create, authenticate, revoke, consume | revocation in another process while the hash is computed; refill at the edges | a revoked token is refused; never more than burst + rate x time |
| MCP adapter (`adapters/mcp_server.py`) | what was decided at start; one application per identity | start, admit a call, serve it | tokens come and go while the server runs | a call is served as what its token is bound to |
| Portable export and restore (`portable.py`) | a bundle; the target store | export, validate, restore | files are written one after the other; a restore is many transactions | a bundle is one moment; what is restored is what was exported |
| Legacy import (`importer.py`, `importers/`) | `memories` | batches of upserts, run again from the start | a death between two batches; a run over records that changed since | running it again changes nothing and misses nothing |
| Ownership assignment (`ownership.py`) | `memories.scope_*` | batches over unscoped rows | concurrent writers | when it ends by itself nothing is unowned |
| Backup job and watchdog (`packaging/ops/backup-aoms-v2.sh`, `aoms/ops/backup_status.py`) | dated generations here and on a remote host, lock, log | snapshot, archive, sidecars, upload, prune; eight checks | a run cut short at any command, runs by hand, checks that look at one place after the other | what looks finished is whole; a check that passes is right |
| Session capture (`recipes/openclaw/session_sync_v2.py`) | a cursor per transcript in a state file; a lock file | an hourly run: read each transcript from its cursor, remember what is marked, save the cursors | the transcripts are being written and started over; runs are refused, killed, lose their cursors | no cursor passes a marker that is not stored; a key holds one memory; every whole marker arrives |
| Integrity and drift reports (`sqlite.py`) | none: reads in several SELECTs | counts and set differences | the store is written while they read | what they call missing is missing |

Not modelled, because they keep no shared state or are pure I/O: the rest of the command line,
anatomy and activation, the embedding providers, the observatory, the evaluation
harness and demos, the other recipes, and the validation and digests of the contract
models. Section 6 says of each what that leaves out.

**How the parts interact.** The MCP server authenticates a call, charges its bucket
and hands it to the application of its identity. `remember` and `supersede` run the
gate over the slot they read, then store record, ledger rows and queue row in one
transaction. `resolve_contest` with `admit-superseding` calls `supersede` first and
closes the entry in a second transaction. Importers and restores write `memories`
directly, past the gate and past the queue. Sweeps and backfills read `memories` and
write vectors. Recall reads everything and writes a receipt. Every process migrates
the schema when it opens the store. The backup job copies the database file and
exports a bundle of the copy; the watchdog compares what it left with the live store.
The session capture stores what it finds through the command line, one process for
each marker.

## 2. The modules

| Module | What it is |
|---|---|
| `ClaimSlots` | constant-level: records, slots, `Occupants`, and the contest gate (`Decide`) |
| `ContestLedger` | the three calls over the three tables |
| `AtomicGate` | abstract specification: a write is judged and stored at once |
| `LedgerLife` | abstract specification: the life of a write however calls interleave |
| `LedgerClaims` | over `ContestLedger`: what docs, messages and tests say, and the refinements `GateIsAtomic` and `WritesLiveByTheLedger` |
| `EmbeddingQueue` | memories, queue, vectors, sweeping workers, importers, one backfill |
| `Lineage` | constant-level: what the code reads out of `supersedes` links |
| `Recall` | one recall, step by step, over a store that is written; searches and diagnosis beside it |
| `Migrations` | processes that open, migrate, write and check one store |
| `Transfer` | export, restore, import, ownership assignment and the receipt log on whole stores |
| `Server` | tokens, servers, buckets, applications and the calls of clients |
| `Backup` | the nightly job, its generations here and remote, and the watchdog |
| `SessionSync` | transcripts, cursors and the runs that capture marked lines |
| `MC...` | instances for TLC: scope access, tokens, inputs, symmetry |
| `ContestLedger_proofs`, `EmbeddingQueue_proofs`, `Recall_proofs`, `Migrations_proofs`, `Transfer_proofs`, `Server_proofs`, `Backup_proofs`, `SessionSync_proofs` | theorems about the module of that name; `ContestLedger_proofs` has those of `ClaimSlots` and `LedgerClaims` too, `Recall_proofs` those of `Lineage` |

Definitions whose comment begins "Seeded fault" are deliberate variants of the
definition they precede, part of no specification: they put a plausible bug in its
place, and the property each is meant for must then fail.

### ContestLedger

| Variable | Code |
|---|---|
| `memories` | the `memories` table, with `contested` as `disposition` |
| `contests` | `contest_entries`, keyed by the call that mints the entry's uuid |
| `receipts` | `write_receipts`, a set: a call writes at most one of each kind |
| `pc`, `req`, `dec`, `into`, `verdict` | a coroutine's position and local variables |
| `out` | what its caller was told |

| Action | Code |
|---|---|
| `BeginRemember`, `BeginSupersede` | entry of `remember` / `supersede`, up to the first await |
| `ReadOld`, `ReadLineage` | `supersede`: predecessor exists, is visible and is a head |
| `ReadExisting` | `get` of the id: retained, refused, or go on |
| `ReadSlot`, `FindOpenContest` | `_adjudicate`'s two awaits |
| `Store` | `_store_if_content_unchanged_sync` with `_write_ledger_rows`, and the return |
| `BeginResolve`, `CheckFree`, `Resolve` | `resolve_contest` up to the routing; split's free-slot test; `_resolve_contest_sync` |
| `Crash` | the process or task goes away at an await |

Contents are compared by digest and are model values. A scope with its agent or
workspace is one member of `Part`. `derived_from` is whether it is empty. A call
stands for every uuid it mints. Reads of the entry and its record in
`resolve_contest` are one step because what the call keeps of the entry is fixed
when the entry is written. A retry is another call with the same id.

### EmbeddingQueue

| Variable | Code |
|---|---|
| `memories` | `updated_at` of each memory |
| `pending`, `before` | `embedding_pending` rows; the order of their `enqueued_at` |
| `vectors` | `record_updated_at` in the vector table |
| `pc`, `token`, `batch`, `embedded`, `first` | a sweep's position, claim token and items |
| `found` | what a backfill read and has not queued |

| Action | Code |
|---|---|
| `Remember` | the storing transaction: memory and row together |
| `Import` | `store_many` by an importer: an upsert with no profile and the source's timestamp |
| `Claim` | `_claim_pending_embeddings_sync` (BEGIN IMMEDIATE, oldest first, a fresh token) |
| `ProvideAll`, `ProvideSome`, `Raise` | the provider's three answers; `Raise` is also a repository call that raises and rolls back |
| `Check`, `Complete` | `_complete_pending_embeddings_sync`, in two steps |
| `FailMissing`, `FailBatch` | the two `fail_pending_embeddings` calls |
| `LeaseRunsOut` | `claimed_at` falls behind the cutoff of later claims |
| `Scan`, `EnqueueFound`, `BackfillDies` | one page of `backfill_embeddings` |
| `Crash` | the worker goes away |

`complete` is two steps because the module's connections are opened in Python's
default transaction mode, where a transaction begins at the first write: the SELECT
that finds the first item current runs before it. The later SELECTs of the same
batch run inside. A sweep that goes on to its next batch is the same as a new sweep.
`attempts` and `last_error` are written and never read, so they are left out.

### Lineage and Recall

`Lineage` has the four readings of a set of records with links: the walk with which
recall finds cycles, `Suppressed` and `Packable` (`resolve_supersession_chains`),
`Diagnosis` and `ActiveVersions` (`diagnose_chains`, `reconstruct_timeline`), and the
two SQL queries `LineageAt` and `AsOf`. Links are a functional graph that may loop:
no contract forbids it.

| Variable of `Recall` | Code |
|---|---|
| `memories`, `vectors`, `contests` | the store underneath: records, vector rows, open entries with their counts |
| `call` | the recall: what it asked, its step, its candidates by source, what it packs |

| Action | Code |
|---|---|
| `Store`, `Embed`, `Resolve` | a write with the gate's outcome, a completed embedding, a verdict |
| `Begin`, `EmbedQuery` | `RecallEngine.recall` up to the provider's answer or failure |
| `RetrieveText`, `RetrieveVector`, `RetrieveRecent` | the three SELECTs of the candidate query |
| `ReadNotices`, `ReadWithheld` | the two awaits for contest notices and withheld candidates |
| `Pack`, `Return` | ranking, chain resolution, packing; the receipt |

Text is how strongly a record matches and how large it is; scores are integers with
the code's weights. `Search` and `SearchAsOf` are the keyword search, plain and at a
boundary. Writes are atomic in this module (which records can be held aside is
`CanBeHeldAside`); that they are not is the subject of `ContestLedger`.

### Migrations

| Variable | Code |
|---|---|
| `schema`, `versions` | tables, columns, indexes; rows of `schema_version` |
| `memories`, `fts`, `contested` | the text of a memory and the one its index row has; the column of version 7 |
| `tx` | the open write transaction |
| `at`, `applied`, `version`, `plan`, `stage` | where a process is in `_initialize_sync` |
| `flag`, `report` | `_contest_schema_present`; a half-read integrity report |

| Action | Code |
|---|---|
| `Open`, `OpenReadOnly` | first use of a repository; a read-only one migrates nothing |
| `Begin`, `CommitBeforeScript`, `Execute`, `RecordVersion` | one version: `executescript`, which commits first and then statement by statement, or the guarded ALTERs of 7 and 9; the row left uncommitted until the next commit |
| `Stage`, `Count`, `Swap` | `_migrate_fts_rowids` |
| `Finish` | the last commit and `_detect_contest_schema` |
| `Store`, `Report` | a write through an open store; one SELECT of `integrity_report` |
| `Close`, `Crash` | the process ends |

### Transfer

| Variable | Code |
|---|---|
| `memories`, `receipts`, `entries` | per store |
| `bundle` | the export directory, file by file, with its manifest; `Blank` while it is empty |
| `job` | what each of the four jobs is at; an export keeps the snapshot its first read fixed |
| `recalls`, `clock` | recalls that have begun and not left their receipt |
| `disturbed`, `torn`, `lost`, `lastImport` | history that only properties read |

Agents: `Remember`, whose decision to coalesce may be older than the last verdict;
`Resolve`, the transaction of each of the four verdicts, of which a split files record
and entry in another slot; `RecallBegin`, `SaveReceipt` (with
`_enforce_receipt_retention`), `Prune`. Export: `ExportBegin`, `ExportRecords` (the
read that fixes the snapshot), `ExportReceipts`, `ExportEntries`, `ExportSeal`.
Restore: `RestoreBegin` (validation and the emptiness test), `RestoreBatch`,
`RestoreRest`. Import: `ImportBegin`, `CountExisting`, `ImportBatch`, with one
operator per adapter for what a source item becomes. Ownership: `AssignBegin`,
`AssignBatch`. `Die` ends any job between two transactions; `Damage` changes a file
of the bundle. An entry has the slot it is filed under now; the slot a write was made
for is the constant `Slot` of its id. `EntryMoved` says of a record held aside that a
split has taken the entry of its slot elsewhere.

### Server

| Variable | Code |
|---|---|
| `tokens` | `auth_tokens` |
| `server` | what `serve` decided: where to listen, whether to ask for tokens |
| `buckets`, `apps` | the rate limiter and the application cache of a server |
| `call` | the call of a client and the row its authentication has read |
| `spent` | history: when calls were let pass |

`Create`, `Revoke` are other processes. `Start`, `Stop` are a server's life. A call is
`Arrive`, `ReadToken` and `Verify` (before and after the slow hash of
`_authenticate_sync`), `Admit` or `AdmitOwn` (`application_for_request`: scope, bucket,
application), `Return`.

### Backup

| Variable | Code |
|---|---|
| `local`, `remote` | generations by kind and date: archive, checksum, metadata |
| `lock`, `run`, `log` | the lock file, where a run of the script is, the last decisive log line |
| `crontab`, `records`, `today` | configuration, record counts, time |
| `watch` | the check in progress |
| `kept` | history that only properties read |

A run is `Start`, then for each generation `Existing`, `Snapshot`, `MakeArchive`,
`MakeSum`, `MakeMeta`, `Upload`, `Confirm`, and at the end `PruneLocal`, `PruneRemote`;
`CutShort` stops it anywhere and leaves what the command under way had left. The
watchdog is `BeginCheck`, `CheckChecksum`, `CheckMetadata`, `CheckRemote`, `Conclude`;
`watch.began` is the one time at which `run_checks` reads the clock. `Newest` picks by
modification time; of two archives written on one day the later date is the later
file, as runs take turns.

### SessionSync

| Variable | Code |
|---|---|
| `text`, `written` | the transcripts, and how much of each is written; a line in two halves |
| `stored` | the memories, by the key their id is made of |
| `saved` | the state file |
| `lock`, `run` | the lock file; where a process is in `main` |
| `mishaps` | bound on kills, failures and lost cursors |
| `missed`, `rewritten` | history: lines read before they were whole; transcripts started over |

`BeginLine`, `EndLine` and `StartOver` are the program that writes the transcripts,
which is not in the repository. A run is `Start` (lock, cursors, list of files), for
each file `OpenFile`, `ReadLine`, `Remember` and `SaveCursors`, and `Finish`; it ends
early by `Refused` (the command exits non-zero) or `Killed`. `LoseCursors` is a state
file that is gone or does not parse. What makes a line eligible is abstracted to the
sequence of contents it marks.

## 3. Runs

| Run | Instance | Shows |
|---|---|---|
| `ledger_interleaved` | 4 calls, 3 in flight, 2 contents, 2 keys; 0.2M states | tables agree under any interleaving; incumbents stand; open counts exact; a decision still stands when its record is stored; a held-aside write leaves every slot; `ContestLedger` implements `LedgerLife` |
| `ledger_retries` | 3 calls, all in flight, one caller-chosen id, 2 agents, a shared and a private partition, crashes; 1.1M states | types; no scope crossed; the trail reproduces dispositions; one creator per id |
| `ledger_serial` | 4 calls, one at a time, all triggers | one answer per slot, one open entry per slot and agent, and `ContestLedger` implements `AtomicGate` |
| `queue` | 2 slow workers, a remembered and a re-imported memory, 2 imports, a backfill; 1.2M states | work is never lost |
| `queue_drains` | 2 memories, batches of 2, 2 workers, a crash; fair; 30k states | rows leave with their vector; every memory is embedded |
| `recall` | stores of up to 3 memories, 6 kinds of write, 2 callers; 0.6M states | chains speak by their heads; the receipt accounts for the recall; a lineage without findings has one version; as-of search, timelines and plain search agree |
| `claim_recall` | stores of up to 2 memories | section 4 |
| `migrations` | 2 processes, stores left at versions 0, 3, 5, 6, one memory, one crash; fair | a recorded version is whole; an undisturbed opener fails at version 4 only; which readers show contested memories; reports; every opener gets in, dies, or meets a half-done version 4 |
| `transfer` | 2 stores, 5 sources, 3 bundles, 2 slots, one directory, 2 jobs and 2 calls beside them | bundles are one moment; restores exact; drift has one of four causes; retention; assignment complete; imports repeatable |
| `server` | one server started twice, 2 tokens, 3 grants, 2 clients, 3 calls, 3 ticks; 1.6M states | a call whose token was unusable on arrival never passes; served as bound; rate bounded |
| `backup` | 2 runs, 2 days, 2 databases, 2 remote roots, one fault | finished generations verify; a date names one snapshot; a passing check is right; a completed run is healthy |
| `session_sync` | 2 transcripts of 2 lines and 1, lines of 1 and 2 markers, one transcript started over, one mishap; fair | no cursor passes a marker that is not stored, a key holds one memory; every whole marker arrives unless a transcript that sorts no later was started over |

**Why these bounds.** The ledger's races need two writers between one's read and
its store, and an entry that is coalesced into while a third call closes it: three
in flight, four in all, so that something comes before or after. Two contents are
"same" and "different"; two keys give a split somewhere to go. The gate is a
pure function of a slot and a write, so what it does beyond the slots of these runs is
left to the theorems about it. A queue row can be held by one worker, taken
over by a second and reset by the backfill or left stale by an importer: two
workers, two memories, two revisions. `MaxInFlight`, `MaxImports` and `MaxCrashes`
bound how often something happens, not what may happen; the proofs of section 5
leave all of them arbitrary.

*Recall*: three memories with links to any id, stored or not, give every shape of a
chain up to forks, skips, self-loops and cycles through each other; `Limit` 2 is less
than the store, `FilteredCap` 1 less than what can be hidden, and one caller sees a
partition the other does not. `MaxDepth` is the length of the longest chain, so the
code's 100 is not reached.
*Migrations*: no store yet, and stores left before version 4 adds its columns, before
the rebuild of the index, and after it; two processes race over every version from the
one found. Memories are never deleted, so one is enough for the counts to differ.
*Transfer*: batches of one record give every transaction a boundary; two stores let a
restore run beside the store the bundle came from; a job and its repetition, or two
different jobs, with two calls between their steps. The directory is empty at first or
has the bundle of an earlier store: one of memories nobody owns, so that a restore can
bring some in while owners are assigned, and one of two memories held aside under one
entry, so that two calls are enough to see a split move it. A second slot gives a split
somewhere to go. `Retention` 2, `Budget` 2 and
receipts of size 1 and 3 make either budget the one that binds, and one receipt larger
than the budget on its own.
*Server*: refill takes more than one tick (3 of 4 units) and less than two, the burst
is one call, and one grant runs out while the server runs. The second start is the
restart with fresh buckets and another choice of asking for tokens.
*Backup*: keeping one generation makes the second day prune the first; the second day
is a Sunday; a maximal age of 0 days makes yesterday's copy stale one day later. One
fault is a failed command, a kill, a damaged file or a lost remote copy.
*Session capture*: a line of two markers gives a run a place to stop inside a line, two
transcripts a run that stops before the second; one process runs again and again, as
the lock admits one at a time.
The proofs of the last two take any number of runs, days, databases, transcripts and
lines, every retention and every age limit.

**Stopping.** Deadlock is checked for the ledger, whose calls must all come to an end
(`Quiesce` is the end), for `recall` and for `migrations`. It is not checked where the
system may legitimately stop: a queue may be empty and idle, transcripts all read, and
in `transfer`, `server` and `backup` the bounds on calls, time and days end the run.

**Symmetry** is used for safety only, over values nothing tells apart. In
`ledger_retries` agents are left out of it, as one of them has a partition of its own.

**Types.** `TypeOK` is an invariant of `ledger_retries`. For the ledger, the queue, the
migrations, the server, the backup and the session capture it is proved (section 5); in
`Recall` and `Transfer` it documents the state. (What is proved of `Transfer` asks nothing
of the contents of an import's source, so ids and texts stay untyped there.)

**Fairness** is stated for the queue, the migrations and the session capture, under `FairSpec`.
In the queue, claims and fail calls are weakly fair: sweeps are scheduled again and
again (`catch_up_embeddings`: "safe for periodic CLI/orchestrator sweeps"). Time passes,
so leases run out. A backfill that has read a page queues it, but nobody has to run
one. `ProvideAll`, `Check` and `Complete` are strongly fair: a provider or a
database that is asked for ever answers in full in the end. That is an assumption
on the environment, not a fact of the code: with a record that the provider always
rejects the queue does not drain, and with `batch_size` 1 nothing behind it is
reached, since `attempts` is never looked at. Leases may not run out under live workers
in that run: one that is always slower than its lease never completes a row.
In the migrations, a process that is migrating goes on, because it runs straight
through; one whose opening failed opens again, because `_initialized` stays False and
the next call of the repository tries. Nobody has to open a store in the first place.
In the session capture a run starts again and again (`openclaw-session-sync-v2.timer`:
`OnCalendar=hourly`, `Persistent=true`) and one that is not killed goes on, since it runs
straight through. The program that writes the transcripts owes nothing.

## 4. Where the code and its documentation part

`claim_recall` shows TLC finding one claim violated: "A contested record never appears
in a recall pack" (`docs/design/WRITE-CORRECTNESS-DECISION.md:359`). The vector candidates are
filtered by scope and kind and not by disposition, so a write that was held aside is
recalled as soon as it is embedded.

Other places where a reader of the documents would expect something else. They follow
from the models above and are stated as history, guard or exception of the property
named in parentheses, not as runs of their own:

- Two undeclared writers both read a free slot, then both store: two current answers
  with different content, neither held aside (`README.md:127` promises otherwise; one call at a time it
  cannot happen, `SlotHoldsOneAnswer`). The same race gives two open entries for one
  slot and agent (`OneOpenEntryPerSlotAndAgent`), and a write that lost the race for
  its id is told of a contest id whose rows were dropped (`application.py:359`).
- A write that coalesced under an entry keeps its key when a `split` verdict re-files
  that entry; nothing covers it any more and the drift check counts it
  (`sqlite.py:2716`), after legal calls in sequence (`EntryMoved` in `DriftHasACause`).
- The successor of an `admit-superseding` verdict goes through the gate and may itself
  be held aside, while the entry is closed as superseded (`application.py:503`). A crash
  between its two transactions leaves an open entry whose successor is current.
- An importer rewrites a memory whose queue row waits. The sweep writes the new vector,
  but the DELETE asks for a row of that revision (`sqlite.py:2203`): the row stays and is
  embedded again for ever (`RowsLeaveWithTheirVector` is about remembered memories).
- An importer's upsert over a record that is held aside admits it and leaves its entry
  open (`DriftHasACause`).
- The ALTERs of version 4 look at nothing and commit one by one: a death between two of
  them, even while a new store is made for the first time, leaves a store nobody can
  open, for good (`EveryOpenerGetsIn`, `[]Stranded`; `sqlite.py:254`). Two processes over an old
  file make one of them fail in the same way, and the retry succeeds.
- A memory stored while another process has staged the index is searchable by its old
  text, or not at all, after the swap (`IndexIsRebuilt`).
- Restored receipts carry no `receipt_bytes` and weigh nothing against the byte budget
  (`portable.py:353`). A restore that died left a store that is not empty, which the
  next attempt refuses (`portable.py:336`).
- A plain search still shows an incumbent that an as-of search hides behind a successor
  that is held aside (`AsOfAgreesWithTimeline` is about callers none of whose records
  is).
- Backups: a generation of the day that is there and incomplete or wrong is verified,
  refused and never rebuilt; a run that fails at an upload does not prune, and a
  generation whose upload failed is not uploaded on a later day. The watchdog takes the
  newest archive by modification time, the pruning by name. It follows the crontab's
  own `AOMS_DB_PATH` where the environment sets none
  (`docs/ops/BACKUP-MONITORING.md:33`), and the remedy it prints omits that variable, so a
  run by hand can back up another database. If that run is of a later date than the
  artifact a check is looking at, its pruning may take that artifact away and the check
  still pass (`TakenOver` in `PassMeansRecoverable`). Where the environment of the
  watchdog assigns another database or directory than the crontab, a check calls a
  sound run wrong (hence `Aligned` in `CompletedRunIsHealthy`).
- Session capture: a line that is read while it is being written is passed for ever,
  its markers with it, since the cursor is saved past a piece that does not parse
  (`missed` in `PassedLinesAreStored`). A transcript that is started over writes new
  lines at the offsets of old ones: the key is taken, the write is refused, and every
  later run stops at that file and reaches none that sorts after it (`MayBeBlocked` in
  `EveryMarkerArrives`). The recipe says that replayed lines "update existing
  memories"; the command retains what is stored.

## 5. Proofs

The theorems hold for every finite or infinite choice of the constants that meets
the modules' named assumptions (`SlotsAssumption`, `WorkloadAssumption`,
`NoneAssumption`, `QueueAssumption`, `MigrationConstants`, `ServerConstants`,
`NoneIsNoRecord`, `BackupAssumption`, `NoneIsNothing`, `SyncAssumption`,
`RunAssumption`, `TransferConstants`, `SourcesAssumption`, `FoundAssumption`,
`LineageAssumption`, `RecallAssumption`): `None` is none of the other values, scopes are
sets of partitions, bounds and times are naturals; a store's memories are finitely many
in `Migrations`, where their texts are counted; every retention of `Backup` keeps at
least one generation, as the script's settings do; a store that `Transfer` finds has no
ledger yet, and a sealed bundle it finds was left by an export, so its ledger is of its
own records and its receipts are of different recalls that are over; a source of
`Transfer` is a sequence of files, each a sequence of items. TLC evaluates those
assumptions in every run. The bounds on calls in flight, crashes, imports, rewrites,
mishaps and days are constants like the others, so the proofs are about systems without
them.

**ContestLedger_proofs, the gate.** `ContestsAreMonotone`: an occupant that a stale read missed, or a
trigger that was off, can only turn an admission into a contest.
`AdmissionReplacesTheOccupant`: what is admitted over other content declared its one
occupant. Both come from one lemma that states `decide` as a single condition and one
that says each of its tests is monotone in the occupants.

**ContestLedger_proofs, the ledger.** `LedgerInvariant` proves `Spec => []IInv`. The safety
properties alone are not inductive: whether a verdict keeps the tables in agreement
depends on what the call read several steps ago. `IInv` adds what every local
variable means while others interleave: *what a call has read may be stale but is
never false*. An entry it read still exists and is of the record it noted
(`ReadsStayTrue`), for entries are never deleted; the incumbents it is going to name are still
admitted (`DecisionHolds`), for nothing demotes a record; its own contest id is unused, for a
call mints it once. `ReceiptsNeverOverstate` strengthens the audit property in the
direction a verdict needs. From `IInv` follow `TypeCorrect`, `LedgerAlwaysAgrees`,
`IncumbentsAlwaysStand` and `ReceiptsAlwaysReproduce`; with the lemma that only two
transactions write tables (`WritingSteps`), the action properties
`RecordsChangeByVerdictOnly`, `LedgerOnlyGrows` and `HeldAsideNeverDisplaces`
(that a record changes only by its verdict, and that entries and receipts are never
taken back, are proved only: TLC checks the former as part of `WritesLiveByTheLedger`).
`OneCreator` needs one more invariant, `CreatedAreStored`: a call told it created a
record has its record in the table, so a later call cannot find the id free.

Three more results each add an invariant of their own on top of `IInv`.
`DecisionsStand` and `ScopesConfine` rest on `ScopedReads`: what a call decided, asked
for or was given a verdict on was shown to it inside the scope of its agent, and stays
so, as no transaction moves a record between partitions. A successor, moreover, is in
the partition of what it succeeds (`SuccessorsFollow`), which is what a verdict that
admits needs. `CountsAreExact` counts: each call past its store has written at most one
receipt of its own (`WritesCountedOnce`) and each receipt is of the entry its record is
filed under (`ReceiptsAreFiled`), so a transaction adds one to the count of one entry
and one member to the finite set of its receipts.

**ContestLedger_proofs, the life of a write.** `LedgerImplementsTheLife`: whatever
interleaves and wherever calls die, `ContestLedger` implements `LedgerLife`, with the
entries seen only as the case of each record (`Cases`). The storing transaction is a
`Write`, the verdict's a `Judgement`, and every other step a stutter. The decision and the
entry to join were read steps before the store, so the refinement needs an invariant of
what such reads still mean, `CaseInv`: those the gate was shown are still filed in the
slot, for a record that is admitted is never re-filed (`AdmittedStayFiled`), and the
entry to join is of the same author and partition for good (`EntriesStay`), though it may
be closed by then or re-filed under another key. That is why `LedgerLife` asks of the
case joined its author and partition and not its slot, and of those shown that they are
filed and not that they are all that hold the slot: the stronger promise is
`AtomicGate`'s. It also follows that a write that joined another's case has none of its
own and is never admitted, in the code as in the model.

**ContestLedger_proofs, the claims.** What the documents promise holds where no two calls overlap,
and is proved under that hypothesis, `MaxInFlight = 1`, which the runs show cannot be
dropped. The invariant is `FreshReads`: the lone call's reads are the store as it
is now. With it each of the two writing transactions is a step of `AtomicGate` on the
same `memories`, and every other step a stutter: `GateIsAtomicWhenSerial`.
`OneOpenEntryWhenSerial` and, with slot collision in force, `OneAnswerWhenSerial` follow
in the same way.

**EmbeddingQueue_proofs.** `QueueInvariant` proves `Spec => []IInv`, and from it
`QueueTypeCorrect`, `WorkIsKept` and `RowsLeaveForVectors`. The argument: of a
memory that no importer writes there is only one revision, so whatever a worker, a
backfill or a row holds of it is that revision (`BatchesAreSound`, `AsStored`,
`RowsAreAsStored`); completing then makes the memory current in the step that drops
its row, even when the worker lost its lease long before. That a batch holds one item
per memory, and that the item checked before the transaction is one of the embedded,
make the vector written the item's own. `RowsLeaveForVectors` holds for imported
memories too.

**Recall_proofs.** What a recall says rests on recursive functions: walks along links,
components, the fold that packs, the levels of the lineage query. The library's
induction theorems are out of reach here, for they take an operator as a parameter, so
induction is done on sets: the numbers for which a statement fails have a least one
(`LeastNumber`), hence a set that has 0 and with each number the next is all of them
(`NumbersByInduction`), and a recursive definition over a finite set has one value
however it is unfolded. On that stand the lemmas about the operators. A walk that meets
a record it has seen has found a loop, and each loop is met by the first of its records
that is taken (`CyclesAreLoops`, in whichever order records are taken). Going up from a
suppressed record ends at one that nothing overrides, as every component either is
finite without a loop or is protected by its cycle (`ChainsHaveHeads`); a component
without a finding has exactly one such record (`HealthyComponentsSpeakOnce`).

`RecallInv` is then short: types; the store's ids are 1 to their number (`StoreFits`);
text scores are fractions (`CandidatesFit`); what was
retrieved is in the caller's scopes and was admitted, unless it came by its vector
(`CallFits`); and once packing is done the receipt is what packing makes of those
candidates (`PackingDone`). It is an invariant because memories are immutable but for
their disposition, so what a recall has read stays true of the record though not of its
standing. From it follow `ChainsAlwaysSpeak`, `HealthyLineageAlwaysSpeaksOnce` and
`ReceiptsExplainTheirRecalls` for any number of writes during a recall, any budget and
any sizes. `AsOfAlwaysAgreesWithTimeline` has a hypothesis,
`Cardinality(Stored) <= MaxDepth + 1`, because the lineage query of the code follows 100
links and no more: a chain that is longer is cut off in one reading and not in the
other. On no more memories than that, the levels of the query reach the whole component
(were a level to add nothing, no later one would; so each adds a memory).

**Migrations_proofs.** `MigrationsTypeCorrect` proves `Spec => [](TypeOK /\ MigrationInv)`.
The invariant has four parts, each the reason of one property. `MigrationsFit`: of the
version a process is at, what its plan no longer lists is in the schema (or in its open
transaction), and a row is written when the plan is empty; hence
`RecordedVersionsAreApplied`, for any number of processes that run the same version at
once. `IndexFits`: what a rebuild has staged for a memory is the memory's text, or the
memory was written meanwhile (`late`); `Swap` then leaves an index that is wrong about
those only. `SoleFits`: to a process that is alone every column it
still has to add is missing, except those of version 4, which are added blindly; hence
`OnlyVersionFourFails`. `ContestsFit`: nothing is held aside before the columns exist,
and an open store has seen them; hence `ReadersAreBlindToLaterContests`. The action
property `ReportedMissingIsMissing` needs only that ids are never taken back and what
a report has counted is finite (`Reports`).

**Backup_proofs.** `BackupTypeCorrect` proves `Spec => [](TypeOK /\ BackupInv)`. One run at
a time holds the lock, writes only generations of its date, found each of them
untouched, and makes them all from one snapshot (`RunFits`), so archive, checksum and
metadata of a generation that has all three agree: `SealedGenerationsAreSound`. That
here and on the remote host a date is one snapshot has a subtler reason
(`DatesFit`). Pruning here is not pruning there, so a remote generation can outlive its
origin; were its date made again, it would be another snapshot. But the date of a run
is the latest of all, pruning keeps the latest, and so whatever was pruned here and not
there is older than any run under way: `DatesNameOneSnapshot`.

The watchdog reads one thing after the other while runs come and go, so an invariant
of the files alone says nothing of what a check concludes. `ChecksStayTrue` proves
`Spec => []HealthInv`, on top of `BackupInv`. Later dates are written later (`InOrder`);
from its upload on a run holds a verified daily generation, and from the confirmation
a copy of it (`DailyIsSafe`). So a step takes away nothing of a daily generation but
where a later date is stored here and there (`Advances`). What a check that has found no
fault has seen of its artifact therefore still holds (`Seen`), or a later date, written since
the check began, is stored (`Replaced`); either is what a verdict of PASS must mean:
`PassesAreRight`. As for the day's own generation after a completed run (`KeptFits`,
`CheckOfKeptFits`), pruning keeps at least one generation and that is the latest, so a check finds it where the
run left it: `CompletedRunsAreHealthy`. Both hold for every retention of at least one,
where TLC checks one.

**Server_proofs.** Three invariants, one on top of the other. `TypeInv` gives the types,
that no bucket was counted in the future, and that the row an authentication has read
still has the grant of its token (a row is created once; only its flags change).
`CallInv` says what a call in progress knows: its server still runs and asked for a
token if and only if the call has one; an application kept under a key is the one of
that identity; and, for a call that arrived too late, that the token is unusable now
and in every later state, because time only passes and a revocation is never taken
back (`StaysUnusable`), so the row it reads says so. From it follow
`OnlyUsableTokensPass` and `CallsAreServedAsBound`. `RateInv` says that from each call
let pass on, the calls since and the units still in the bucket are paid by the burst
and the refill since; `BucketStep` shows one count of the bucket keeps that, for any
capacity, rate and unit. `RateIsBounded` follows, and `ServerTypeCorrect` from
`TypeInv`.

**SessionSync_proofs.** `MarkersAreNotPassed` from `SyncInv`: no cursor, in the state file,
in a run or at the place a run reads, is past a line that is neither stored nor
missed (`Passed`), and a run inside a line has stored what it has sent of it
(`AtItsLine`). The lock is in no part of the argument: the property would hold of runs
that overlap, as the key of a marker says where it was read.

**Transfer_proofs.** `TransferInvariant` proves `Spec => []TransferInv`. One lemma covers
every step that leaves memories and ledgers alone (`QuietFits`) and one every writer
that is not a restore (`WriterFits`: nothing it does makes a memory held aside that was
not, or drift that did not, but what it notes as lost or had its entry moved); each action is shown to be of
one kind or the other, which leaves the restore. The invariant says what jobs may count on
while others write. `ExportFits`: the files of an export are all as of its first read;
hence `BundlesAreOneMoment`. `PutThere`: a memory that a restore has put into its store
is held aside only if it is so in the bundle, is no longer only if somebody admitted it
by an import, and has no entry yet, for nobody writes an entry for an id that is
taken. So when the ledger of the bundle arrives, each memory that lacked an entry
gets the one that covers it in the bundle, and none is left that did not drift before.
Of the ledgers the invariant says (`Agree`) that an entry is of a record that is there
and the only one of it, that an open one is filed under the slot of its record, and that
none says of a record held aside that it was admitted. So the only verdict that takes
cover from a record is a split (`ResolveFits`), a record whose entry was closed while it
was being stored is covered still (`RememberFits`), and with an entry that has moved,
which a restore carries along, the causes are all there: `DriftAlwaysHasACause`. `NothingElse`, while nobody disturbs the restore, gives
`RestoresAreExact`, with the lemma that no other step takes a store from those that are
torn (`OnlyRestRepairs`). `AssignmentsCover` holds because the batch that ends the job is
empty, and a batch is empty only when nothing is left.

The receipt log needs an invariant of its own, `LogsFit`: wherever receipts are kept, in a
store, an export under way or a sealed bundle, each has its own place in the order of
recalls, and no recall that is still to end shares it. Without it two receipts could
tie, and what trimming keeps would not be determined. The newest receipt
always stays, so the log is never empty; the byte count of fewer receipts is no more
(`FewerReceiptsFewerBytes`, from sums over finite sets taken one receipt at a time), so
trimming keeps a newest part of the log: `RetentionKeepsTheNewest`.

For imports the invariant is `ImportInv`, on top of `TransferInv`. While nobody disturbs
an import, what its source makes is either in a batch still to do or has landed in the
store as it was made; and after an import that was not disturbed all of it has landed,
until somebody else writes there (`LastImportFits`). An import that begins has everything to do:
joining files, reading items and cutting batches loses nothing and adds nothing, for
every batch size (`TodoHolds`, from `FlattenedHolds` and `SlicesHold`). A repeated import
counts one existing record for each it asks for, and puts in place of each record the
one that is there, if no two items of the source share an id: `ImportsAreRepeatable`.

**Model-checked only.** The liveness properties `EveryMemoryIsEmbedded`,
`EveryOpenerGetsIn` and `EveryMarkerArrives`, as the prover reaches neither fairness nor
ENABLED. Every other property of a passing run is stated by a theorem.

## 6. Assumptions, and what is left out

- A transaction is atomic and isolated, and one that raises rolls back; a uuid4 is
  fresh; digests do not collide.
- The ledger's ids and the importers' ids do not meet: an importer's upsert over a
  record of `remember` is not in `ContestLedger`, and is in `EmbeddingQueue` only for
  memories that are imported and never remembered.
- In `EmbeddingQueue` a revision is its `updated_at`. A source that changes a text
  and keeps its timestamp is outside the model, as it is outside the queue's own test.
- One embedding profile: rows of two profiles share no key. One backfill at a time.
- Workers take a token that is free at the moment; with a token for every worker and
  every row one always is.
- In `ContestLedger` a caller names in `supersedes` an id of the workload or one it
  can have seen. An incumbent is given with an
  `admit-superseding` verdict only; the code ignores it with the others.
- Expiry and SLA labels, ruleset digests, tags, kinds, validity intervals and full-text
  rows change no decision that is modelled.
- *Recall.* A search is for one word, so "any" and "all" coincide; its page, its total
  and its filtered count are taken as one read; the candidates that are held aside are
  all listed where the code stops at the newest 50, and the receipt has all candidates
  where the code keeps the first `receipt_top_n`, and of those not packed the first
  `rejected_sample_size`; `include_contested` is left out. Vectors
  stay in the namespace they were embedded in: what an ownership assignment does to
  them (`sqlite.py:2548`) is not modelled.
- *Migrations.* A lock is waited for: the busy timeout is not modelled, nor an older
  program opening a newer store.
- *Transfer.* A receipt's `at` is its place in the order of `created_at` and, within one
  time stamp, of receipt ids, which is the order the code trims in. Files of a bundle are damaged only while no
  restore runs, though `restore_bundle` reads them again after it has validated them. The
  file of write receipts travels like the others and is left out. What a verdict asks for
  before its transaction is not modelled here: a split may choose any slot, held or free,
  and the successor of an `admit-superseding` verdict is a `Remember` of its own. An
  unowned memory has one scope, whatever it lacks of author and scope. The
  order in which a batch picks its records is arbitrary. A source does not change while
  it is imported; parsing, kinds, tags, times and chunk sizes are left out, and with
  them that editing a note leaves its old chunks behind.
- *Server.* Hashing and the shape of tokens, the sessions of the SDK and its host and
  origin checks are left out; `last_used_at` is whether the token was used.
- *Backup.* An upload that is cut short leaves nothing new, the archive without its
  sidecars, or a part of it (`rsync --partial`). Disk damage and remote loss happen between runs and checks, and only to daily
  generations. The crontab is not edited during a behaviour. `AOMS_BACKUP_DATE`,
  rot of remote files and clock changes are not modelled; a week's generation is
  forced only by the script's own Sunday rule in the run, though the module has
  `Forces`.
- *Session capture.* Which roles, labels and secrets are filtered out of a line, and
  the ids agent and workspace are hashed into, are left out; a transcript that is started
  over while it is longer than its cursor is read on from the middle, as in the code.
- *Not modelled at all.* `recover_blobs_v2` and the purge of history (one-off scripts by
  one operator, whose two passes read files that may change between them); activation
  (edits of client configuration by one process); the observatory and anatomy (read
  only); the command line (`resolve-many` is several resolves and stops at the first
  closed entry); embedding providers (third party); evaluation, demos and the other
  recipes (they drive the program); validation of contract models and settings.

## 7. Plan

Done, in this order: gate, ledger and queue with their proofs; recall and lineage;
migrations; transfer with the receipt log; server and tokens; backup and watchdog; the
refinement of the atomic gate; session capture; the proofs of migrations, backup and
its watchdog, session capture, transfer, the serial claims, what was left of the
ledger, and then, with induction over data, of recall, lineage, the receipt log and
imports; the life of a write as a second abstract specification of the ledger.

Still worth doing:

- The storing transaction as one step of ledger and queue together, with importers
  over remembered ids: today each half is in one module.
