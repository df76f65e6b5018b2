# super-mem in TLA+

A verification project for super-mem, a local memory store for coding agents:
TLA+ modules translated from the Rust code, TLC runs on small instances, and
theorems that TLAPS checks for every instance: about the store, its lifecycle
and its journal, lookups of earlier failures, session checkpoints, search,
recall, the selection and packing of hits, the files of snapshots, openers and
inspections, the identity of repositories and what a memory says of one, the MCP
server, the hooks, the attempts a checkpoint records and the Git probes.

Paths below are relative to the repository; `engine.rs`, `schema.rs`,
`types.rs`, `ranking.rs`, `search.rs`, `git.rs`, `artifacts.rs` and
`applicability.rs` are in `crates/super-mem-core/src`, `hook.rs`, `mcp.rs` and
`app.rs` in `crates/super-mem-cli/src`.

## 1. The system

| Component | State | Operations | What is hard | What makes it correct |
|---|---|---|---|---|
| Canonical store (`engine.rs`, tables of `schema.rs`) | events, memory heads, revisions and their metadata, links, event mappings, evidence, FTS rows, idempotency rows | `observe`, `remember`, `checkpoint`, `retract` | multi-table writes, several memories per checkpoint, retries with a key, rollback and crash, lifecycle states over many calls, clients of other scopes | chains of revisions, closed scopes, final supersession, one execution per key, a journal of atomic calls |
| Session checkpoints (`checkpoint_session`) | none of its own: a slice of events and derived attempts, held by the caller between two critical sections | collect, then `checkpoint` | the gap between the two, redelivery, long turns, earlier failures | a retry hashes to the same request; one turn is cited once; a failure is closed |
| Earlier failures (`load_failed_checkpoint_attempts`) | reads heads, revisions, links, lifecycle events | lookup now, lookup as of a sequence number | rows that changed since | both lookups find the same failure |
| Recall (`recall`, `compile_context`, `ranking.rs`) | reads only | collect candidates in channels, look at the repository, hydrate, rank, select, pack | two snapshots and Git in between, rules written in SQL and in Rust, limits, budgets | an answer is one committed state and one view of the repository; a limit is spent on what may be seen; a pack fits its budget and says one thing in all its forms |
| Search profiles and projections (`register_search_*`, triggers) | profiles, projections, expansion index | register, activate, remove, list pending, register projections, rebuild | slow workers, compare-and-swap in two calls, triggers | a projection is what was computed of its revision under the profile's settings; everything is covered in the end |
| Snapshots (`export_jsonl_to`, `import_jsonl`) | whole database | export, validate, import, backfill | other writers, torn files, older versions, death | what is restored is what one transaction saw; reconstructed rows are honest |
| Opening and migration (`schema.rs`) | header, schema objects, derived rows | identify, switch to WAL, migrate v1 to v6, repair the index | several processes at once, death, another program, busy writers | the version names the schema; whoever is open finds it whole; opening ends |
| Inspection (`inspect_database_at_identity`) | a private copy | guard, lock, copy, look again | clients in both journal modes, sidecars, a replaced path | what is reported is one commit of the right file |
| Artifacts, applicability (`artifacts.rs`, `applicability.rs`) | fingerprints and a scope per memory | capture, materialise, classify | a user who works meanwhile, commands that fail, limits | a verdict says what it means |
| Git identity (`git.rs`) | none | discover | commands that fail, spellings of one origin | memories are found again, and never a stranger's |
| Feedback and history | feedback rows | `feedback`, `history`, `get` | events of other memories | a history is complete |
| Hooks (`hook.rs`) | one process per harness event | one engine call per event, a recall, a neutral answer | death, redelivery, parallel tool hooks, eight forms of a failure | each event is recorded once, with its outcome |
| MCP server (`mcp.rs`) | engine, read pool, pinned repository | tools | check in one call, act in another; the directory changes | calls stay in the pinned scope; a retry is no conflict |
| Git probes of `doctor` (`app.rs`) | child, two pipe readers, one deadline | start, poll, kill, drain, join | helpers that keep pipes, output over the limit, a late overflow | an answer is whole, nothing is left behind, all probes end |
| Rest of the command line, adapters, redaction, scripts | - | parsing, text | timeouts in the adapters | - |

Processes share one SQLite file. Inside a process the engine has one connection
behind a mutex; between processes SQLite's write lock serialises writers, since
every writing operation begins with `BEGIN IMMEDIATE`. Hooks and adapters start
a process per harness event and call the engine through the command line; the
MCP server is a long-lived process on the same file. All coordination is
through the tables.

## 2. Modules

**`MemoryStore`** is the store. `db` holds the tables that the properties tell
apart; `txn` is an open checkpoint with its private copy.

| TLA+ | Code |
|---|---|
| `db.events` | `events`; an event is named by its `seq` and kept as the request that appended it |
| `db.heads`, `db.revisions` | `memory_heads`; `memory_revisions`, `memory_revision_metadata` and the revision's `memory_evidence` |
| `db.links` | `memory_link_revisions` (`memory_links` is its latest row per pair) |
| `db.touched` | `event_memories` |
| `db.index` | `search_alias_state` and the FTS row: the revision that is indexed, 0 for none |
| `db.receipts`, `Slot`, `Fingerprint` | `idempotency`, `scoped_idempotency_key` and the target key of `retract`, `stabilize_scope` with `request_fingerprint` |
| `Observe`, `Remember`, `Retract` | the operations, one step each: they hold the write lock from the lookup of the key to COMMIT |
| `BeginCheckpoint`, `WriteChild`, `CommitCheckpoint`, `Rollback` | `checkpoint`: event and episode; one decision, attempt or task; receipt and COMMIT; an error or the death of the process at any point |
| `Deduplicate` | an operation that finds its own receipt |
| `Targets`, `Accepts`, `Upsert`, `Linked` | `upsert_memory` with `validate_evidence`, `validate_links`, `apply_link_lifecycle` and `rebuild_fts` |

A refused call (an unknown target, a foreign scope, a terminal memory, a key
used for another request) rolls back and is no step. A repository identity,
branch, namespace and workspace are one `Scope`; session, root, HEAD and dirty
hash are one `Context`. Titles, tags, entities, artifacts, scores, validity and
redaction are left out: no control depends on them here. `observe` with an
explicit event identifier is left out (a duplicate fails on the unique column).

**`Journal`** is what the store promises, without tables: a log that only
grows, by one entry per call, with no two entries for one key.
`MemoryStore!ImplementsJournal` maps event *i* and everything recorded by it to
entry *i*. A revision's retired mark is the one thing later calls may change,
so the mapping drops it.

**`CheckpointSession`** is `checkpoint_session` as hooks drive it. A delivery
collects (`Collect`), then runs the transaction (`Execute`) or is answered from
the receipt (`Answer`), and may end or die at any time (`Restart`), after which
the stop event can be delivered again. `Observe` is any other hook. `Slice`,
`PreviousFailure`, `Promoted` and `AttemptOf` are the walk back through the
session, the earlier failure and the coalescing of attempts. A command is its
identity (`checkpoint_attempt_group_identity`); searches that return 1
(`is_neutral_negative_probe`) are events nobody promotes and are not
distinguished. Left out: events without a command, explicit salience, the quota
of four successful verifications, and redelivery after the worktree artifacts
the hook attaches have changed.

**`FailedAttempts`** extends `MemoryStore` with the two queries of
`load_failed_checkpoint_attempts`. `FirstExecution` remembers what the live
query read; every later state compares the historical query with it.

**`CheckpointAttempts`** is what coalescing makes of the runs of a turn
(`classify_checkpoint_event` to `coalesce_checkpoint_attempts`) and what the
outcome memories say after several checkpoints of it. `Observe` is a run of any
kind, `Prompt` the start of a turn, `Checkpoint` the whole promotion: groups,
priorities, the quota, the composed text, and the refusal when that text has
outgrown its bound. Texts are known by the outputs they quote.

**`SearchProjections`** extends `MemoryStore` with profiles, projections and the
expansion index. A worker lists (`ListPending`), computes without a lock, and
calls `register_search_projections`, which is two steps because the code reads
the profile, unlocks and writes later (`LoadProfile`, `RegisterProjections`).
Operators register, disable and remove profiles; triggers and cascades are part
of the action they fire in. Vectors are their number of components.

**`Recall`** extends it with recalls: `Begin`, one `Collect` per channel inside
the read transaction, `Stage` and `Judge` (filters, applicability, one Git
relation per commit), `Hydrate` in the second transaction, `Return`. A query is
known by what its channels match: for the dense channel, what is at least as near
as `min_similarity`. Which of the matching rows survive a limit is open, as
scores would have it, and so is the shortlist by signature when a profile has
more vectors than `ExactScan`. The rules are translated twice as the code has
them twice: `Sql*` are the conditions of the collectors, on whole milliseconds,
`Outdated`, `StateDropped` and the others the filters in Rust, on the uncut
instant. Whether artifacts make a verdict stale is open here and decided in
`Applicability`. **`Diversity`** is `select_mmr` with its in-place
redundancies, **`ContextPack`** the packing of hits into a token budget with the
binary search for the longest excerpt.

**`Tables`** gives the rows a store is kept in, their foreign keys, and the
statements that reconstruct the tables older data lacks. **`Snapshot`** exports
and imports them table by table beside writers of the source, with damage to the
file, refusal of a used target and the death of the importer at any table.

**`Schema`** has the objects of the six migrations and the rows they derive;
**`Opening`** the processes that open one file, one action per statement that
can be overtaken: identity, WAL switch, `BEGIN IMMEDIATE`, the second identity
check, each migration, commit, index check and repair, with writers, failures,
deaths and another program that takes an empty file. **`Inspection`** is the
copy of a file in use: sidecars, byte locks, pages, sidecars again, identity;
the file may be unlinked, or moved away with its sidecars, meanwhile. Its clients
follow SQLite's locking protocol, which is external to the code.

**`Worktree`** is the user's repository and what Git prints of it;
**`Applicability`** the capture of a checkpoint (scope, listings, files read one
by one) and a later recall's comparison and verdict. Each Git command reads one
instant; its output is used whole, cut at its limit, or missing because the
command failed or, for the diff, printed too much. `Sample` is what is read of a
file: two contents may be alike that far.

**`RepositoryIdentity`** is `discover_repository` and what `build_scope` makes of
it: the steps of `normalize_remote` on the parts of a spelling (a URL is local
only in lower case, `file://`), the directory fallback, the workspace by path
when not even the top level is found, and worktrees, origins and memories that
come and change.

**`McpServer`** extends `MemoryStore` with tool calls as sequences of
rediscovery, look-up, check and act on overlapping worker threads, beside other
processes. `acts` is a history variable. **`Hooks`** is one process per
delivery: parse, open, capture files, write under the key, recall, answer, with
failure and death at every step. **`GitProbe`** is a probe of `doctor`: child,
helper, two pipes and their readers, which may fail, the prober's loop and its
clean-up, and a Git that cannot be started.

### Compositions

**`MCRetrieval`**, **`MCFiles`**, **`MCRepository`**, **`MCAdapters`** and
**`MCLiveness`** check several components in one run each, **`MCCrowding`**
what concerns several scopes: the writes of the store, and three ways in which
`Recall` cuts what it found. A variable `part`
chooses in the initial state which of them moves; the others rest in a fixed
state. Components that do share state are composed for good, by extension:
recalls with workers and writers, snapshots with writers of the source, MCP
calls with other processes, applicability with the user's worktree. The parts of
one run share none: they concern different files or processes, so that letting
them move together would multiply states and show nothing else. Several parts
are one component with other constants (`Pinning` and `Retrying`; `Changes`,
`Pieces`, `History` and `Outputs`; `Scopes`, which is the store
with other kinds and links; `Workspaces`, `ByProfile` and `Crowded`), since the cases need bounds in different directions.

Some of these parts restrict the steps of their component by a condition
on the next state, in the MC module and nowhere else: `Pinning` to one call at a
time, `Retrying` to two tools in one repository, `Deliveries` and `Reporting` to
plain reports or to one event, `Changes`, `Pieces`, `History` and `Outputs` to
the files, commits, requests and failures they need (`History` and `Outputs` take
no automatic fingerprints; only `Outputs` has outputs that are lost or cut and
files beyond what is read, `Changes` loses no more than the diff), the parts of
`MCRetrieval` and `MCCrowding` to some memories, bodies and requests, `OneHelper`
to helpers of the first probe. The theorems are about the components without these restrictions.

The theorems are in modules of their own. **`MemoryStoreProofs`** is about
`MemoryStore` and `Journal`: its invariant, the lifecycle of memories, what rows
tell of the past and what older tables tell. **`FailedAttemptsProofs`**,
**`RecallProofs`**, **`FilesProofs`** and **`AdaptersProofs`** build on it, for
`FailedAttempts`; for `SearchProjections`, `Recall`, `Diversity` and
`ContextPack`; for `Snapshot`, `Opening` and `Inspection` as `MCFiles` composes
them; and for `McpServer`, `Hooks` and `CheckpointAttempts`.
**`RepositoryProofs`** is about `RepositoryIdentity` and `Applicability`,
**`CheckpointSessionProofs`** and **`GitProbeProofs`** about the modules they
are named after. The other **`MC*`** modules give constants to TLC.

## 3. Runs

| Run | Question | Bounds |
|---|---|---|
| `store_lifecycle` | do chains, lifecycle states, index and provenance survive any sequence of revisions, contests, supersession and retraction? | 3 memories, 4 calls, 2 links per call, 3 revisions: a contest between two memories, its resolution and the supersession of one of them by the third need four calls; the revision bound is reached |
| `store_retries` | are calls atomic and executed once? | 3 memories, 2 contexts, 2 bodies, one key, 3 calls; all four operations, with a rollback between any two statements of a checkpoint |
| `failures_keyed` | does a key name one live head, and do both lookups of failures agree then? | 3 memories, 4 calls, all of revision, contest, supersession, retraction and checkpoints, also with one key twice; no explicit identifiers, with which a client may create a second head on purpose |
| `failures_duplicates` | do the lookups agree for two live heads of one key? (no) | the same, with explicit identifiers |
| `session_turns` | is a turn cited once, are failures closed, when is a redelivery refused? | 2 processes, 2 stop events, 2 sessions, 5 events, slices of 3 rows: a failure, its checkpoint, a success, its checkpoint and an intruding event; the limit is reached |
| `session_race` | is a redelivered stop event always deduplicated? (no) | the same |
| `retrieval` | do projections stay true, does a recall answer from one view, is the selection MMR, does a pack fit? | projections: 2 workers, 2 memories, 3 calls, 3 operator steps, 2 digests, so that a profile is replaced between a worker's two calls; recalls: 3 calls in 2 contexts, channel limits of 1 and 2; selection: 4 hits, 3 scores, all token sets of 2 tokens; packs: 2 or 3 hits, 19 budgets from none to enough |
| `crowding` | can anything cross a durable scope, do the rules in SQL and in Rust agree, and may limits hide what a request may see? | writes: 2 scopes, 2 memories, 3 calls, one link and one evidence reference, so one row in each scope and a request that offers the other's; recalls: 2 or 3 memories, 3 calls, channel limits of 1 to 3: a repository and a workspace of it, instants on, before and between milliseconds; 1 profile, exact scan and shortlist of one vector; a candidate set of 2; all of these limits are reached |
| `files` | is a restored store the exported one, is an old one sound, is an opened file whole, is an inspection true? | export: 2 memories, 4 calls; old snapshots: 3 memories, keyed checkpoints with contests, 3 calls; opening: 2 processes, 1 memory, any release from an empty file to a later one, 2 faults; inspection: 2 clients, 3 commits, 2 pages |
| `repository` | is a memory found where it belongs and only there, are verdicts right? | 2 worktrees, 2 clones, 13 spellings, one a `File://` URL, 1 memory; worktrees with 2 files, 2 contents, 2 commits and 2 edits; more artifacts than are compared; a history of 3 commits on 2 branches with 4 edits; 1 large file and 1 other, 1 commit and 2 edits, with outputs lost, cut or whole |
| `adapters` | do MCP calls stay in their scope and answer truly, do hooks record what happened, does a checkpoint promote it? | one call at a time in 4 scopes with 2 clones at the root, 2 calls at a time with one key; 2 hook processes, 2 events, 1 change of files; 13 forms of a report; 4 runs of 9 kinds |
| `live` | do probes, enrichment and openings end, and are answers whole meanwhile? | 2 probes, 2 chunks per pipe, one over the limit, a helper started by the first probe's Git only; 2 workers, listings of one, 3 calls, 2 deaths; 2 processes that open an empty file or one of release 5, 2 faults, writers that never commit |

Model values are interchangeable where no operator orders or names them
(memories, contexts, bodies, processes, stop events); symmetry is used for
safety properties only, never in `live`. Deadlock is not checked: event bounds
end every execution, and the real system may be idle for ever.

What the two failing runs show:

* **A stop event that is redelivered may be refused.** `checkpoint_session`
  gives up the lock between collecting the slice and inserting the checkpoint
  (`engine.rs:635`). An event observed in that gap is before the checkpoint's
  own event; a redelivery ends its slice at that event and cites it, so its
  fingerprint differs and it gets a conflict instead of the receipt.
  `ConflictNeedsIntrusion`, which holds, says that this gap is the only cause
  in the modelled part.
* **Two heads with one key are ordered differently by the two lookups.** The
  live one uses the last update of the head, which a contest moves, the
  historical one the time the revision was recorded.

Observations made while modelling, which the models allow and no property or
run claims anything about:

* The paths of an automatic capture come from three Git commands; a path staged
  between two of them is in none, though the comment at `artifacts.rs:44` says a
  partial set "is never returned". Verdicts are claimed right only for
  repositories left alone while they were looked at.
* A memory of a dirty worktree is stale when its `git status` or `git diff` gave
  nothing on one side only, whatever changed; and its match is exact when both
  sides lost or cut the output alike, or the files differ beyond what is read.
* `File://host/path` is taken for a hosted origin, since only the lower-case
  scheme makes a URL local (`git.rs`, `normalize_remote`).
* An inspection recognises its file by device, number, links, size and times. A
  store moved away with its sidecars passes, and what was read may then be of a
  commit in the middle of being written by those who moved with it.
* The text of an outcome quotes the text before it. A command that fails in turn
  after turn makes it outgrow the bound of a checkpoint, which is then refused,
  also when it would record the pass (`engine.rs`, `coalesced_checkpoint_result`).
* `run_git_probe` kills the group of a child it has already reaped
  (`app.rs:1130`); if the group was empty, the number may be another's by then.
* The legacy backfill keeps only the last link of a source, target and relation.
* Between the identity check and the WAL switch an empty file may become another
  program's; it is refused afterwards, but its journal mode was switched.
* Hook payloads without any identifier and with equal content are recorded
  once, and so are two subagents of a turn with one final text; a stop event
  redelivered after files changed is refused as a conflict (and was recorded).
* Ports, and scp paths that start at the root, are spellings of their own to
  `normalize_remote`; it is not idempotent on ports. A failing `git config`
  falls back to the directory.

## 4. Fairness and liveness

Safety runs assume no fairness: hooks, workers and openers may die or stop
anywhere. `live` assumes, each for its own part:

* `GitProbe!Fairness`: the prober's thread runs and time passes, so its enabled
  steps and the deadline come. Nothing is assumed of Git, of its helpers, or
  even of the reader threads. `DiagnosisEnds` then rests on the deadline alone.
* `SearchProjections!SFairness`: a worker goes on polling and its calls end
  (weak fairness of its three steps as one). Deaths and operator steps are
  bounded and memories stop changing, without which nobody could catch up.
* `OFairness` of `Opening`: a process that was started runs, and its deadlines
  pass. Nobody has to start, and a writer may hold the lock for ever, which is
  why `retry_busy` has a deadline.

Weak fairness is enough and justified: each of these steps stays enabled until
it is taken or until another step of the same part makes it unnecessary. The
store itself promises no liveness: an engine call runs to its end on its
caller's thread or fails.

## 5. Proofs

Every theorem has the form `Spec => []Inv` or `Spec => [][A]_vars` and rests on
an inductive invariant, which TLC checked on an instance before it was proved.
Constants are arbitrary but for the named assumptions, each of which TLC
evaluates in the runs.

### The store

The theorems of `MemoryStoreProofs` are about `MemoryStore!Spec` and rest on its
two assumptions: `StoreAssumption` (constants are of their types, `None` is no member of them, a
revision bound of at least 1) and `NoneAssumption` (`None` is no row). They hold
for any number of memories, scopes, links, children and calls.

The properties of the committed store are not inductive: a commit replaces it
by the private copy of the open checkpoint. `IInv` therefore says the same of
both, by one predicate on a store (`Grounded`: revision chains, closed scopes,
ordered supersession, and no revision of an event the log lacks), and ties them
together (`TxnInv`: the copy's log is the store's with the checkpoint's event
appended, its receipts are the store's, terminal memories are untouched and the
key is still unused). `LogInv` adds that a keyed event has a receipt, which is
what makes a lookup of receipts a guard against a second execution. `Grounded`
is preserved by each table operation (append, upsert, retract, receipt), each
by a lemma of its own; the step lemmas, one per action, combine them.

| Theorem | Says |
|---|---|
| `Inductive` | `Spec => []IInv` |
| `TypeCorrect` | rows keep their types, the revision number its width |
| `ScopesStayClosed` | evidence, links and event mappings stay in one durable scope |
| `SupersessionIsOrdered` | superseded memories are terminal and older than what replaced them |
| `RevisionsFormChains` | heads point to the last of revisions 1..n, one of which is current |
| `KeyedCallsAtMostOnce` | one event per keyed call |
| `TerminalStays` | superseded and retracted memories are never written again |

The section on lifecycles adds what the store says of its memories. `Life` states of the
committed store, and by `TxnLife` of an open checkpoint's copy, that it is
`Explained`: contests shown as long as they are open, the index complete, every
change mapped to its event, and links `Anchored`. The last is the strengthening:
a link names a revision of its source that exists, made by the link's event, so
that a new revision leaves behind all contests the memory raised, and a link of
a new revision can never be an old one.

| Theorem | Says |
|---|---|
| `LifeInductive` | `Spec => [](IInv /\ Life)` |
| `ContestsStayVisible` | a live memory is contested exactly while a contest is open |
| `IndexIsComplete` | the index holds the head revision of what is not retracted, and nothing else |
| `ChangesAreExplained` | every revision and every change of a head has its event |
| `ReceiptsAreTrue` | a receipt names the event of its request and memories it wrote |
| `KeysNameOneHead` | one live head per canonical key, if `ExplicitId = {}` |
| `StoreImplementsJournal` | the store implements `Journal` |

`KeysNameOneHead` has its hypothesis because a client that names identifiers may
make a second head for a key, as `failures_duplicates` shows. The refinement
goes by `Advances`: a step changes nothing (a statement of a checkpoint, a
rollback) or appends one event and leaves alone what every earlier event
recorded (`Effect`), the commit of a checkpoint included.

### Earlier failures and session checkpoints

`FailedAttemptsProofs` compares two ways to read one fact, the second at any
later time. `Told` says that the rows tell when things happened: numbers of
revisions grow with their events, the head revision says what the head says, a
terminal head has the event or link that ended it. Then the historical query
finds, for the present sequence number, what the live one finds; and since rows
are only added, with later numbers, it finds the same ever after.
`RetriesReadTheSame` states that for `RetryReadsTheSame`, under
`ExplicitId = {}`, without which it is false (`failures_duplicates`).

`CheckpointSessionProofs` rests on `SessionAssumption` and `ObservedAssumption`.
`Inv` says that the draft of a delivery and the print of a receipt are what
their collection would read at any later time (`DraftIsTrue`, `ReceiptIsTrue`),
that a stop event has one receipt (`ExecutedOnce`) and that rows name their
places (`Rowed`). The heart is `CollectionStands`: `Slice`, `PreviousFailure`
and `Promoted` of a log are those of any longer one. Their module is
instantiated with other logs (`In`) to say so.

| Theorem | Says |
|---|---|
| `ConflictsAreIntrusions` | a redelivery is refused only if something was written in the gap |
| `EvidenceIsAStretch` | a checkpoint cites one stretch of one turn of its session |
| `TurnsAreCheckpointedOnce` | undisturbed checkpoints cite nothing twice and leave nothing behind, but for the limit |
| `FailuresAreClosed` | an undisturbed checkpoint of a success revises the failure before it and names it |

### Search and recall

`RecallProofs` rests on the assumptions of the store, `SearchAssumption`,
`NoRowAssumption` (`None` is no profile or projection) and `RecallAssumption`.

`SearchInv` is the store's invariants with what the tables say of each other:
projections are true (`ProjectionsAreTrue`) and the expansion index is what a
rebuild would give. Of a worker it needs only that it calls for a profile with
settings it has loaded (`WorkersReady`): registration compares those and the
revision with the present profile and head, so that nothing a slow worker has in
hand need be true any more. `RecallInv` says what a reader
has in hand (`ReaderRight`): the view it pinned is a committed state, whose
revisions later states keep (`KeepsRevisions`, `KeepsKnowledge`); each row, hit
and item is of that view, and each relation the one Git gave for its commit.

| Theorem | Says |
|---|---|
| `SearchNeverLies` | projections are true of their revision and profile, indexes what a rebuild gives, nothing stale passes as current |
| `PackIsOneState` | a pack is one committed state and one view of the repository, and hydration finds what was pinned |
| `SqlAndRustAgree` | no row SQL let through is outside the scope, state, kinds or validity Rust asks for; rows found stale or divergent are dropped later, and use up limits |
| `OnlyPeersCrowd` | a memory is missing only because as many rows the SQL lets this request see took its place in a channel, a shortlist or the candidate set |
| `SelectionIsGreedy` | each hit selected was, when it was taken, the best left by the definition of MMR, ties by order |
| `PacksAreFaithful` | what is rendered fits the budget with its envelope, each excerpt is the longest that fits, and hits, sections and warnings show the same memories |

`SelectionIsGreedy` is about `Diversity` alone, under its own assumptions.
`select_mmr` swaps hits out of an array and keeps their redundancies in place;
`DiversityInv` says that the array is a permutation of the hits not selected
(`Remaining`) and that each redundancy is what recomputing it over everything
selected would give (`UpToDate`). `MaxAdded` is what makes one comparison with
the newest hit enough.

`PacksAreFaithful` is about `ContextPack` alone, under `PackAssumption`, for
sequences of any hits and bodies of any length. `PackInv` says that three times
the tokens budgeted cover the characters rendered (`Budgeted`), whatever was
escaped, cut or put in a new section: rounding up every fragment makes the sum
safe although the text is measured as a whole. That the binary search finds the
longest excerpt needs no invariant of the pack but that more tokens never cost
less (`FragmentGrows`). This is not obvious, since a cut moves back to the last
sentence end in the second half (`KeptGrows`) and an ellipsis goes away when
nothing is cut (`TextGrows`). `Narrowed` is the invariant of its loop. Sums and
the turns of the search are recursive functions; what they yield is shown of the
least argument for which it would fail.

### Files

The theorems of `FilesProofs` are about `MCFiles!FilesSpec`, the composition the
run `files` checks, and rest on the assumptions of the store,
`OpeningAssumption`, `InspectionAssumption`, `VersionsAssumption` and
`ViewAssumption` (`None` is no store).

* `OpenInv`: who holds the lock is inside its transaction (`Locking`); the file
  and the private copy are `Whole`, as a release left them; and each process
  knows so much of them as its place tells (`Known`): from the recheck on that
  the file is a store or empty, while it migrates that it counts the version its
  copy has, after the commit that the file has the latest schema. `Known` of the
  others survives a commit because versions only grow. `ManifestGrows` and
  `MigrationApplies` are about the schema: each migration turns the objects of
  one release into exactly those of the next, and every name it creates is free.
* `LookInv`: what the clients' locks promise of the pages (`Protocol`), what the
  inspection's own locks keep the clients from (`Guarded`), and that the pages
  copied so far are of the commit it began with (`Copied`).
* `SnapInv`: the tables an export has written are of the store its first read
  saw; an intact file is one store; an import's copy has the tables that are
  done. `IndexRebuilt` computes that the index rebuilt from the rows of a store
  is the store's, which needs `IndexCoversKnowledge` of every committed store.

| Theorem | Says |
|---|---|
| `FilesAreWhole` | an opened file has the schema its version names and is complete |
| `RacesFailNobody` | no opener fails because another was faster |
| `InspectionsAreTrue` | a report is of one commit of the right file, and free means free, unless the file is moved away meanwhile |
| `RestoredIsExported` | a restored target is the store the export saw |
| `ImportsAreSound` | an import never fails on the order of its tables, and what it makes of a snapshot of either version is a sound store |

`ImportsAreSound` is about tables that older releases did not have. What is made
of them rests on `RetraceInv` of the store: a revision has its memory's kind; the
head keeps the state a revision was written with until an event changes it; and
all revisions of a memory that one event wrote made the same links (`Retraceable`).
The last takes a checkpoint, whose children link its episode and nothing else
(`Children`), so that the backfill, which gives a link to one revision of its
event, gives it to one that made it. `Rebuilt` says what the filled tables then
are: those every release has as they were exported, metadata of exactly the
revisions, links only a revision made. Soundness of the target follows from
`IInv` and `Life` of the source.

### Identity of repositories, and what a memory says of one

`RepositoryProofs` has two parts. The first rests on `IdentityAssumption`
(origins are origins, clones are no worktree roots, `None` is neither) and holds
for any number of clones, worktrees, origins and memories.

| Theorem | Says |
|---|---|
| `NoStrangers` | whatever commands fail, a memory is found only in its clone or under its hosted origin |
| `MemoriesAreFoundAgain` | and it is found again in each of them |
| `VerdictsHold` | a verdict says what it means of a repository left alone while it was looked at, as far as the outputs it had and the files it read tell |

Neither of the first two is inductive, since a memory does not tell by itself
how its identity came about. `IdentityInv` adds that: an identity by origin is
the normalised origin of the day it was written; one by directory is the clone,
or a root that is a worktree of that clone still. `NameForm` computes what the
steps of `normalize_remote` leave, in the order the code takes them;
`NameIsWhatIsNamed` concludes that two hosted origins get one name exactly when
they name one repository.

`VerdictsHold` is about `Applicability`, under `WorktreeAssumption` (files are
finitely many, a file can be absent, there is a branch) and
`ApplicabilityAssumption`. `VerdictInv` says what an operation has seen so far:
as long as nobody changed the repository since it began (`quiet`), the scope it
read is the repository's, every fingerprint in hand is true, and the lists of
changed paths hold everything the commands run so far report (`Seen`); and that
a remembered scope and its artifacts are true of one repository of the past
(`Remembered`), which is what a verdict compares with. Commits are only added,
so ancestors of a commit stay what they were; `Worktree!Ancestors` is defined as
the least set closed under parents, because an operator declared RECURSIVE
could not be reasoned about.

### MCP server, hooks and attempts

The theorems of `AdaptersProofs` about `McpServer` rest on the assumptions of
the store, `McpAssumption` and `ToolsAssumption` (tools are tools, `None` is no
repository). `McpInv` says of a call in hand only what other processes cannot
take away (`Sound`): the repository it found is the pinned one; the memory it is
about to act on is in the pinned scope, which is for good, since the scope of a
memory never changes; a conflict it was answered was a conflict with a request
nobody carried out or ever will (`Conflicts`); and a history it gave lists every
event that concerns the memory up to its length (`Complete`), which needs that
events of the past are never added to (`Advances`). Steps of other processes are
steps of the store (`StoreStep`); `Stays` is what they all preserve.

About `Hooks` they rest on `HooksAssumption` and on what a harness has to do for
a hook to be right: report in one of the forms the model
has (`ReportAssumption`), set a flag the code does not read (in `tool_result`) only
beside one it reads or a failing exit code (`FlagsAreRead`), not contradict itself within one report (`ReportsAgree`)
and tell the uses of its tools apart (`UsesAreTold`). `HookInv` says that each
row is the row of the event it was written for and unique by operation and key
(`RowsInv`), and that an identifier of a use is the place of its event
(`IdsInv`), from which equal keys mean equal events.

About `CheckpointAttempts` they rest on `AttemptsAssumption`: three reasons that
are not `None`, a quota, and a text that holds one output at least. A group of
runs is grown run by run, so what it says is shown of every number of runs by
taking the least one for which it would be false (`GroupTells`): `Tells` ties
the reason, first failure, counters and end of a group to the set of runs it was
made of. From it follows what a result quotes (`ResultQuotes`). `EnoughAreKept`
deals with the quota: among the successes of a kind, one is left out only when
as many later ones as the quota says are kept. `AttemptsInv` adds to the types
that the attempts of the last checkpoint are those of the runs it was given
(`LastIsTrue`).

| Theorem | Says |
|---|---|
| `ServerInductive` | `McpSpec => []McpInv` |
| `ServerStaysInScope` | what a tool reads, writes, rates or retracts lies in the pinned scope, and what is recalled can be managed |
| `ServerAnswersAreTrue` | no retry conflicts with itself, and a history is complete |
| `HooksRecordWhatHappened` | each event is recorded once, none is taken for another, failures are recorded as failures |
| `CheckpointsPromoteFaithfully` | what failed quotes its first failure and last output and says how it ended; nothing else is recorded as failed; what is left out are old successes |

### Git probes

`GitProbeProofs` rests on `ProbeAssumption` and holds for any sequence of
probes, any limit and any pipe.

| Theorem | Says |
|---|---|
| `ProbeTypes` | types of the prober's state |
| `WholeAnswers` | an answer taken for whole is everything that was written, within the limit |
| `NoLeftovers` | a probe that ends leaves no zombie, and one that was late or cut off no process of its group |

`ProbeInv` ties the prober's place to the child (`ChildInv`: running only until
the prober has seen it end or killed it, reaped before it reports), the counters
of a pipe to the flag (`PipeInv`: what was taken beyond the limit was flagged; a
reader that ended has taken all there will be) and the answer to both
(`AnswerInv`). Most steps are another process's or thread's; `Aside` says what
they have in common and `AsideKeepsControl` deals with them once.

### Only model-checked

Every invariant and action property of the passing runs is stated by a theorem.
What stays with TLC is liveness (`EventuallyCovered`, `DiagnosisEnds`,
`OpeningEnds`): fairness and ENABLED are out of the prover's reach. The two runs
that expect a violation are counterexamples and have nothing to prove.

## 6. Not modelled

* Scores and their weights (floating point), redaction (regular expressions over
  text), alias texts, vector bytes, fingerprints of errors: data no control of
  the modelled parts depends on. Tags, entities and artifact rows travel with
  their revision.
* Of opening and inspection: the Windows and fallback file guards of `schema.rs`,
  the comparison of schema texts and `quick_check`, processes of an older release
  that keep running after a migration.
* Of recall: the artifacts and dirty hash behind a verdict, which `Applicability`
  has.
* Of snapshots: the refusal of single rows (`validate_snapshot_row`); an import
  takes every intact file.
* Of applicability: the 8 MiB cap on the sum of the untracked files, a file that
  vanishes between the listing and its reading, Windows paths.
* Of the MCP server: an error of `discover_repository` counts as a refusal, and
  the worktree is the one verified, though its artifacts are captured later.
* Of the probes: a child that survives SIGKILL. Both
  pipes share one limit, and the 100 ms of the drain are one step.
* The transport and argument parsing of the MCP server, and every command of the
  command line that is argument handling around one engine call; the export to
  a file and the purge.
* The harness adapters in TypeScript, child processes with a timeout around the
  command line, and scripts, fixtures and workflows.

## 7. What could come next

1. The adapters' timeouts as a further client of `Hooks`.
2. The purge and the export to a file as commands of their own, beside `Opening`.
