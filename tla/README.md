# A verification project for the agent memory protocol server

TLA+ models of the AMP reference server (`server/amp_server`), TLC runs on small
instances, and proofs checked by TLAPS for every value of the constants.
`PROJECT.json` lists the components, the runs, the mutants each property is
tested with, the source lines each definition stands for, the hazards of the
code, and what the runs found.

## 1. The system

A *memory cell* is a JSON document with content, scoring, a lifecycle and an
access policy. Agents create, read, patch and delete cells over HTTP; a
background task lets them decay.

| Component | State it keeps | Operations | Talks to |
|---|---|---|---|
| HTTP routes (`main.py`) | the limiter, settings, the key store, the adapter, the background task | POST, GET, PATCH, DELETE of a memory; search; listing; run the lifecycle now; start and stop (`lifespan`) | storage, limiter, engine, key store |
| Cell rules (`lifecycle.py`, `retention.py`, `access_control.py`, `limits.py`, `models.py`, `storage/records.py`) | none | status graph, decay, archival age, retention window, who may read and write, size, validation and merge of a PATCH | called by routes and adapters |
| Lifecycle engine and scheduler (`lifecycle.py`, `scheduler.py`) | none | `process_all`, `purge_expired`, `run_lifecycle`, the sleep-then-run loop | storage |
| Scoring PATCH limiter (`ratelimit.py`) | ordered dictionary of deques, in memory | `check_and_record`, `forget` | routes |
| Storage adapters (`storage/`) | the collection or table | save, get (with the access boost), update, mark_deleted, purge, search, query, list_all | routes, engine |
| Paging (`paging.py`) | the locals of one scan | `readable_page` over several store queries | storage |
| MCP server (`mcp_server.py`) | none of its own | remember, recall, forget, list | the same store, from another process |
| Authentication (`auth.py`) | key store, read once at start | load, verify | routes |
| Python and Node SDKs (`sdk/`) | none between calls | one HTTP request per call, two for `forget` | routes, over a network |
| LangChain memory (`integrations/langchain.py`) | none between calls | `save_context`, `messages`, `clear`: scripts of SDK calls that swallow errors | Python SDK |
| Conformance runner (`conformance/`) | the case in progress, the report | categories of cases, captures, gap markers, exit code | routes, over a network |
| Benchmarks, scripts | none | | routes |

What is hard in it:

* *Two clocks decide one transition.* Decay is measured from the last access,
  archival and retention from the last update, and different calls move them.
  The stamps are only right because nothing writes a deleted cell.
* *A PATCH is a merge in three stages*: the request models fill in defaults,
  nulls are dropped, and what is left is merged object by object.
* *A pass writes many cells, one after another,* and can stop anywhere: an
  error of one cell ends it, the process can die.
* *A limiter that forgets* (pruning, eviction, DELETE, restart) next to a store
  that does not.
* *Concurrency.* The handlers are coroutines, but no storage call suspends, so
  in one process each handler and each pass is atomic. Interleavings are real
  when several processes share a store (PostgreSQL with autocommit; the MCP
  server on the same persistence directory); each statement is then atomic.
* *Pages of a moving list.* Offsets index a filtered stream that others change
  between two pages and, on a shared store, between the batches of one.
* *A network under a two-request `forget`*: either request or answer may be
  lost, and a request given up may still arrive.
* *A process that restarts* on another key file than the one it ran with.

What makes each part correct: a deleted cell is terminal and an archived one
never comes back (rules, routes); nothing is purged inside its window, and what
is due is eventually purged (engine); the engine archives only what was stale
for the whole period (engine); a PATCH keeps what it did not send (rules); the
sliding window is never overspent, nobody is refused too strictly, Retry-After
is right and the table is bounded (limiter); counters only for cells that can
still be edited (routes and limiter); an undisturbed page is exact and a
disturbed walk misses or repeats no more than was changed (paging); with keys,
every cell is created behind the identity gate (authentication); a `forget` that returned, or was
refused for good, left the cell gone (SDK); the report is complete and the exit
code true to it (conformance runner).

## 2. Modules

| Module | Models |
|---|---|
| `MemoryCells` | the cell, a PATCH body, and the rules on one cell, as operators |
| `RateLimit` | the limiter as functions of its state |
| `AmpServer` | one server process: routes, limiter, engine and crash over a store |
| `AmpCluster` | several servers and MCP servers over one store, statement by statement |
| `CellLifecycle` | the abstract specification: the life of a cell |
| `ScoringPatchLimiter` | the limiter alone, at the resolution of its clock, with history |
| `CellPatch` | one cell with all its nested objects, and the three stages of a PATCH |
| `Paging` | a walk over the pages of a listing or a search, with other writers |
| `Serving` | what a process answers: lifespan, key store, identity gate, routes by status code |
| `SdkSession` | a client of `Serving` over a lossy network: AMPClient and AMPMemory |
| `ConformanceRunner` | one run of the conformance suite |
| `RateLimitProofs`, `LimiterProofs`, `AmpServerProofs`, `AmpClusterProofs`, `CellPatchProofs`, `SdkSessionProofs`, `ConformanceProofs`, `PagingProofs` | lemmas and theorems |
| `MCAmpServer`, `MCLimiter`, `MCAmpCluster`, `MCCellPatch`, `MCPaging`, `MCSdkSession`, `MCConformanceRunner` | inputs and symmetry for TLC |

`AmpServer`, `AmpCluster` and `CellPatch` are built on `MemoryCells`;
`SdkSession` composes the client with `Serving`; `AmpServer` composes the routes
with `RateLimit`.

**AmpServer.** State: `store` (the collection), `now`, `minted` (ids handed out;
a ULID is never handed out twice), `seen` (the limiter's `_seen`), and the
history variable `since` (when each id last changed status). Actions: one per
route (`CreateMemory`, `GetMemory`, `UpdateMemory`, `DeleteMemory`), one per
lifecycle pass (`RunLifecycle`, from the loop or from the admin route), `Crash`
and `Tick`. A call that is refused and changes nothing is no step; a PATCH that
is refused after spending budget is one, because it changes the limiter. A pass
has three outcomes: complete; ended by the first cell whose write is refused,
with any set of other due cells written before it (the store lists in its own
order) and nothing purged; or cut short by the death of the process, in which
case what was written stays, a purge has started only if the decay finished,
and the limiter restarts empty.

Abstractions. Time is in units, days when read with the defaults. The decay
score is only ever compared with one threshold, so `scoring` is the largest age
at which the score still reaches it. A pattern list is the set of agents it
matches. A document is its number of bytes apart from the parts the server
itself writes: the status, the two stamps, and `access_count`, which is its number
of digits (`digits`; a GET leaves it or adds one). `expires_at` and `provenance`
are bytes of the body: no rule reads them. Both adapters have the same operations;
the map names ChromaDB's. That a PATCH may be taken as a change of whole fields is
what `CellPatch` shows.

**CellLifecycle** knows only the phase of each id and since when: unborn, active,
stale, archived, deleted, purged. `AmpServer` implements it with the phase read
off the store (`PhaseOf`).

**AmpCluster** has the same store and clock and, for each process, the storage
calls its handler has still to make (`calls`) and the document it has read and
changed but not yet written (`hand`). A handler is its access check (`StartGet`,
`StartUpdate`, `StartDelete`, `StartForget`; one statement), then storage calls;
a call reads the document (`Read`), where it may be passed over or raise, and
writes the whole of the new one by id (`WriteBack`). A pass lists the store and
makes a `decay` call per cell of the snapshot, then lists again (`ListExpired`)
and comes to every deleted cell of that snapshot in turn, whose window it tests
when it gets there (`PassedOver`), before the purge tests what it reads. An error
ends the handler or the pass; `Crash` ends it anywhere. `CallTime` bounds the time
between the two statements of a call. The map names the PostgreSQL adapter; the
MCP server uses the same operations of the ChromaDB one, on a directory it shares.
Each process has a limiter of its own, which only refuses requests, and is left
out.

**ScoringPatchLimiter** counts ticks finer than a second and keeps three history
variables: the attempts allowed on each tracked cell, what the last refused
caller was told, and the number of attempts.

**CellPatch** has one cell whose objects are functions from field names to
values, and the clock. `Parsed` is what a request model makes of a sent object
(absent fields take the model's default), `Dumped` is `exclude_none`,
`ApplyUpdates` the merge with the immutable paths, and `UpdatedCell` adds the
stamp; `Refused` is the transition check before the merge and the size check
after it. The merge descends into dictionaries at any depth; a metadata value may
be a dictionary of plain values here, which `MergedMetadata` merges and does not
replace (a third level is treated by the code as the second). `Flat` maps the
cell to the one of `MemoryCells`.

**Paging** has the order in which the store lists its cells (`rows`), what the
walk makes of each (`view`: shown, unreadable, filtered), and the locals of
`readable_page` (`scan`). `ScanStep` is one batch, `SearchStep` a whole search,
`NextPage` the caller. Others rewrite, reorder, insert and purge; inside a scan
only when several processes share the store (`SharedStore`), and with moved rows
where the table has no ORDER BY (`Reorders`) or the ranking changes. What cells
contain and how a score is computed is not in it.

**Serving** has the process (`process`, `task`, `storage`), the key file and the
store read from it (`keyfile`, `keys`), and the cells reduced to what an answer
depends on. Each route is the status code it answers, in the order of its
checks (`CreateCode` and so on; a chain of IFs, because the guards overlap and
the first that holds decides), and what it leaves in the store (`After`).
`full` marks a cell so near the size limit that stamping it is refused. A digest
is stood for by its key. What `verify` compares with is `Expected`: the entry of
the agent, or for an agent without one the constant of auth.py:68
(`Placeholder`), which a request may hold like any other key. The header may be
absent (`NoAgent`) or empty (`EmptyAgent`): an empty one is a header for the gate
and none for the routes, so that a create then takes the body's `created_by`
(main.py:468).

**SdkSession** has one call at a time, as the `script` of requests still to be
answered; `Receive` takes an answer, `Raise` is an AMPError and ends the script
(or is swallowed, for `messages`, `clear` and `health`). `Lose` breaks a
connection before or after the request was served; a write given up may be
served at any later time (`ServeLate`). The caller repeats a `forget` that got
no answer and gives up other calls. Other agents, strangers with any header or
none, the lifecycle task, stops, kills and key-file changes are the rest of the
world; losses, stops, kills, key changes and strangers are bounded together by
`MaxFaults`, writes of other agents and of the lifecycle are not. The history
variable `entitled` holds the cells this agent could write and archive all
along, with its key accepted. `CreatedAt` gives each cell the second and the
microseconds of its `created_at`; the history is sorted by the text of that
(`TextBefore`: a time on the whole second has no fraction and sorts last in its
second), and cells with the same text stay in the order of the store.

**ConformanceRunner** walks the categories and their cases; an answer of the
server is good, bad, unusable (no body or no JSON), shapeless (JSON of another
shape than the code indexes unchecked, which raises) or lost. Its
five categories, `SkipCategory` and `Exit` follow `run` and `main`; the history
variable `misbehaved` holds the cases that really came out wrong.
`CasesAssumption` says that the ids of the suite are unique and that none is the
id `schema-spec-file` the runner itself reports under, as the tests require of
the vector files (conformance/tests/test_runner.py:38,:41). `VectorsAssumption`
says that the capability vectors are the three checks the runner knows: it keys
them by their check (runner.py:403) and would drop another, or all but the last
of two with the same check, without a word.

## 3. Runs

| Run | Question | Instance |
|---|---|---|
| `server` | do the stamps tell the age of the status (`StampsTellStatusAge`), and does the server implement `CellLifecycle`? | 2 cells, 1 agent, clock to 3, periods of 1, bodies far from and near the size limit, every status, scoring and policy PATCH, purging on, limiter off; 184,547 states |
| `one_cell` | does the limiter keep counters only of live cells; does the engine archive only what was stale throughout; is every due cell served and every deleted cell purged? | 1 cell, 2 agents, two policies, clock to 4, periods of 2, limiter of 1 per window, weak fairness; 63,419 states |
| `limiter` | table shape and cap, sliding window, Retry-After, never too strict | 3 cells over a table of 2, 2 attempts per window of 2 s, half-second ticks, 8 ticks, 6 attempts; 253,862 states |
| `cluster` | type of the cluster; does a purged cell stay purged, and is nothing purged inside its window, when statements interleave? | 2 processes, each of which may act as a server or as an MCP server, 1 cell, clock to 4, window of 3, calls of up to 1, PATCHes that archive, 1 crash; 1,810,032 states |
| `cluster_fair` | does a deleted cell leave its state although errors on another cell end passes before their purge? | 2 servers, 2 cells below the threshold from birth, one of them deleted on the first day (`MCInit`), clock to 2, window of 2, calls of up to 1, PATCHes that archive, no crash, weak and strong fairness; 320,712 states |
| `patch` | is the flat cell an exact reduction, refusals included (`AsFlatCell`); are the objects, lifecycle and provenance fields and metadata keys that were not sent kept; what can exceed the size limit (`OversizeOnlyByReads`)? | 1 cell, 2 texts, 2 metadata keys, plain values and dictionaries as metadata, a count that takes a second digit, clock to 1, PATCH bodies naming every object fully, in part, and with nulls; 8,627 states |
| `paging` | is an undisturbed page exact, and what can a disturbed walk miss or repeat? | 5 cells, pages of 1, batches of 2, ceiling of 4, 2 writes of others, inside scans too, rows that move; about 1.0 million states |
| `sdk` | what may an agent conclude from the outcome of `forget`; does a repeated one get through; is a history whole, and in which order; which requests create a cell once keys are configured, and in whose name; does the loop outlive its storage? | 2 cells of one second, the first on the whole second, 2 agents, 2 keys, key files that name one agent or both, give one the other's key, and are broken, headers absent, empty, listed and unlisted, pages of 2, 2 faults, weak fairness; 464,253 states |
| `conformance` | is every case reported once, is the exit code right, can a gap marker rot? | every set of categories, with and without a server and a schema; 5 categories of 1 to 3 cases, a gap in three of them, 3 requests a case; 41,579 states |
| `oversize` | violation: `DeletedIsPurged` with a cell near the size limit | 2 cells, clock to 3, weak fairness |
| `cluster_terminal` | violation: `DeletedIsTerminal` | 2 servers, 1 cell |
| `patch_scoring` | violation: `UnsentScoringIsKept` | the instance of `patch` |

Why the bounds are enough. Two cells are what one pass needs for one of them to
be hit by the other's error; the rules look at one cell at a time. With periods
of one unit the whole life, from creation to purge, takes three; in `one_cell`
periods of two leave room for a detour through stale and back and for a cell
that turns stale again before it is archived. A table of two with three cells
evicts both another cell and, when only one is tracked, none; eight ticks are
two full windows, so that stamps enter, age and leave. Every interleaving of the
cluster is about one cell; two processes let each be overtaken by the other
between any two statements, and since each may act as either kind the run covers
two servers as well as a server beside an MCP server. `PurgesOnlyAfterRetention` needs
`RetentionDays > 2 * CallTime` (3 and 1 in the run; with 2 and 1 TLC finds a
document read before the DELETE that is written back between the two statements
of the purge), which a window of 30 days and calls of milliseconds meet. It is a
statement about two processes: with three, an old document can be passed on from
hand to hand. TLC finds it violated for three processes with a window of 3 and
calls of 1; and no window is long enough, since two GETs can overwrite each
other's documents, one deleted and one not, for as long as they like. Both
conditions are the hypotheses of its theorem (section 5).
`cluster_fair` needs the second cell, since a pass that starts after the deletion
of the only one has nothing to fail on. It starts with the deleted cell in the
store, as POST, PATCH and DELETE of the first day leave it, because the way there
multiplies the states and does not bear on what follows. `DeletedLeaves` is a
statement about two servers and no other process, cells away from the size limit
and `CallTime < RetentionDays`. An error that ends a pass of one server is then the
work of the other, which archived the cell in question (a decay raises) or purged
it (a purge raises) since the pass listed it. Each happens to a cell once: a
server that has just archived a cell holds no older document of it, nor does one
in the middle of a pass, so it never becomes active again; and a document older
than a deletion is written, or lost, before the window of that deletion ends.
With a third process the argument and the property fail: while one archives a
second cell, the two servers can take turns in making it active again with an
older document and in ending the other's pass on it, for ever, before any purge
is reached.
In `paging`, five cells over batches of two and a ceiling of four let the ceiling,
a short batch and a full page each end some scan, with a cell the ceiling hides; two changes can fall on either side of any batch. In `sdk`, two faults are a
lost answer and a restart, or a loss and a change of keys; two cells are one of
this agent and one shared, or the two turns of `save_context`. The page sizes
are scaled down with the cells, with the listing of `clear` above the maximum as
in the code (1000 against 100). All safety properties and all action properties
of the passing runs are proved without these bounds (section 5).

`CHECK_DEADLOCK FALSE` everywhere: clocks and walks are bounded, a run of the
suite ends, and a server nobody calls really may do nothing.

Fairness. `FairSpec` of `AmpServer` asks for weak fairness of the pass and of the
clock only. The loop of `scheduler.py` sleeps and runs for ever and swallows
every error of a pass, so a pass always comes; the assumption it hides is that
the process lives through one interval from time to time (the loop sleeps
first), or that an operator calls the admin route. No client is assumed to call
anything, and a crash may come at any moment. `DeletedIsPurged` speaks of windows
that end within the bounded clock. In the cluster (`Fairness`) the pass of each server is
strongly fair, because the event loop runs it between requests it is not enabled
in; handlers that have started go on. Crashes are bounded (`MaxCrashes`): a
process that dies in every pass, for ever, would leave the rest of it undone for
ever. In `SdkSession` the client takes its answers and repeats a `forget` that
got none, a serving process answers, a stopped one is started again, and the
operator repairs a key file that keeps it from starting; the repetition is the
caller's, since the SDK itself has no retry. `MaxFaults` stands for a network
and a host that do not fail for ever.

Every property has a mutant, a definition replaced by its `Fault:` variant the
way a plausible bug would, under which TLC finds the property violated.

## 4. What the runs found

1. *A near-limit cell stops the lifecycle for everybody* (`oversize`). The
   engine's own write adds a timestamp, so a cell accepted just under the limit
   is refused with 413 when the engine marks it stale; the pass ends there,
   every time, and the purge is never reached.
2. *With two servers over one database a DELETE can be undone*
   (`cluster_terminal`): documents are written whole and unconditionally, so one
   that was read before the DELETE and is written after it brings the cell back.
3. *A PATCH of one scoring field resets the others* (`patch_scoring`): the request
   model completes the object with its defaults before the merge, and
   `exclude_none` keeps them. `docs/api-reference.md:389` says that "sending
   `scoring.importance` does not clear `scoring.confidence`", line 399 that "A
   field you omit keeps its stored value". An access policy is completed in the
   same way. `AsFlatCell` takes such a PATCH as the code does: the decay profile
   after it depends on that PATCH alone.

Also met while modelling, and part of the models, without a run of their own:

* A GET resets the decay clock of a stale cell, so reading does delay its
  archival (lifecycle.py:91); `spec/v0.1.0/lifecycle.md:119` says it does not.
* Counters of cells nobody edits stay until the cap evicts them
  (ratelimit.py:142); the comment at ratelimit.py:47-48 says they are dropped.
* With two servers the engine can archive a cell that was set active after its
  snapshot (lifecycle.py:160): the write checks only the transition.
* The readable stream a scan sees is not one state of a shared store, so a page
  read while others write may belong to none; `MissedOnlyAsOthersLeft` and
  `RepeatedOnlyAsOthersCame` bound what that costs.
* `AMPMemory.clear` forgets nothing: it asks for 1000 cells, the server refuses
  more than 100 with 422, and the error is swallowed (langchain.py:117-121,
  main.py:507, models.py:193), whatever its docstring (langchain.py:115) says.
* The history can be out of order within a second: `created_at` on a whole second
  is written without a fraction and its text sorts after the later times of that
  second, where langchain.py:165 takes a string sort for a time sort.
  `HistoryIsWhole` states the order exactly, these cells last in their second.
* Reads alone carry a cell past the size limit, by a stamp and by the digits of
  `access_count`; neither write is measured.
* A cell just under the size limit can be neither archived nor forgotten by its
  owner (413 on the PATCH that archives it).
* With keys configured, a create under a name the key file does not list, or under
  an empty one (when the body names the creator), is let through for the constant
  of auth.py:68. `CreatorsAreChecked` states exactly what the gate lets through,
  and so claims a proven name only for the names the file lists, when the header
  holds them.
* `amp-conformance --only http_contract` without `--base-url` runs nothing and
  exits 0; a transport error inside an access case or a capability check is
  caught nowhere and ends the run without a report.

## 5. What is proved

For every set of cells, agents, bodies, policies and patches, and every period,
budget, window, cap and size limit:

* `AmpServerProofs!TypeCorrect`, `StampsAreRight`: from one inductive invariant,
  `Inv == TypeInv /\ StampsTellStatusAge`, where `TypeInv` adds to the types that
  the limiter's table is consistent. `StampsTellStatusAge` is inductive only with
  the types, and the creation of a cell needs its first part (what is in the
  store was minted). Every action is first reduced to what it does to each cell
  (`CellStep`: kept, born, read, written, deleted or purged), then the invariant
  is shown once per kind of `CellStep`.
* `ArchivesOnlyLongStale` (an action property): the engine measures from
  `last_updated_at`, and that is never before the last change of status.
* `CountersAreLive`: with `Inv`, from what `check_and_record` and `forget` do to
  the set of tracked cells.
* `ServerImplementsLifecycle`: initial states map to initial states, every step
  to a step of `CellLifecycle` or a stutter. That a purge is after the window is
  `StampsTellStatusAge` read at a deleted cell.
* `LimiterProofs!TableIsConsistent`: the table is an ordered dictionary of
  non-empty deques within its cap; from `RateLimitProofs`, which proves what
  pruning, taking out a key, eviction, `check_and_record` and `forget` do.
* `LimiterProofs!NoWindowIsOverspent`: the deque of a cell is always the end of
  what was allowed on it, and what has left the deque is a window old
  (`History`); so the attempt `MaxPatches` before a new one is a window old.
* `RefusedOnlyWhenSpent` (an action property): with `InTimeInv`, which adds that
  what was allowed was allowed in the past and in order, a full deque is
  `MaxPatches` different allowed attempts inside the window (`FullDequeIsSpent`).
* `RetryAfterIsRight`: from `PromiseInv`, by which no deque exceeds the budget and
  a promise is always about the deque as it stands: it is the oldest stamp plus
  the window, rounded up to a second. That no deque exceeds the budget is what
  makes one stamp leaving enough.
* `AmpClusterProofs!ClusterTypeCorrect`, by a lemma per kind of statement (what
  a call reads, prepares and writes has its type), and `PurgedStaysPurged`: the
  only steps that touch the store are an INSERT of a fresh id and a write by id,
  which does nothing to a row that is gone. For any number of processes.
* `PurgedAfterTheWindow` (an action property), assuming `TwoProcesses` and
  `ShortCalls` (`2 * CallTime < RetentionDays`): from `RetentionInv`. A purge
  decides on a document it read one statement earlier, so the invariant says what
  every document in hand still tells of its cell (`DocumentOK`): one read after
  the deletion is itself deleted; a GET that found the cell deleted still finds
  it so when it writes; a purge still finds it deleted, and the window was over
  when it read. The second part is what needs two processes (`RevivedUnread`):
  while one holds a document that would revive the cell, the other has no GET of
  it to make, because it was the one that deleted it and a GET does not start on
  a deleted cell. The third needs short calls: a document that could overwrite
  the deletion was read before it and is written, or lost, before the window
  ends. Nothing bounds the number of cells, of requests or of crashes.
* `CellPatchProofs!TypeCorrect`: a body validation accepts is dumped to updates
  that have the types of the fields they go to (`DumpedMergeable`), and such
  updates merge into a cell of the right shape (`MergeTyped`). In particular no
  null reaches a field that is not declared to hold one.
* `FlatCellIsExact`: `Flat` of each operation is the operation of `MemoryCells`
  on `Flat` of the cell, and an update is refused on the one exactly when it is on
  the other, so what the proofs about `MemoryCells` say of whole-field patches
  holds of nested ones. It does not say that unsent fields are kept (finding 3).
* `SizeExceededOnlyByReads`: without the stamp of the last read and the digits of
  their number the cell fits; inductive with the types and with the fact that an
  archived cell carries an update stamp (`ArchivedWasUpdated`), so that a DELETE,
  whose write is not measured, adds no stamp that was not there.
* `UnsentIsKept`: from the merge lemmas alone, at both levels of the metadata.
* `SdkSessionProofs`: all the safety properties of the run, from one inductive
  invariant with seven parts. `ProcessOK`: a serving process has an open adapter,
  a key file that is not broken and the keys it read when it started, and only a
  serving process has a loop (`LoopStopsBeforeStorage`). `ScriptOK`: what can be
  left of the script of each call, in particular that a `forget` has both its
  requests to make or only the second. `Room`: every create still to be served,
  late ones too, has a cell nobody else takes. `EntitledOK`: while an agent is
  entitled to a cell it can write and archive it and its key is accepted.
  `ForgetOK`: once the first request of a `forget` has been answered the cell is
  archived or gone, and an answer in hand says what the outcome will say. Then
  `ForgetReturnsWhenGone` and `ForgetIsRefusedWhenGone` follow from `ResultOK`:
  what is gone stays gone whoever writes next. `HistoryComesWhole` from
  `HistoryOK`: until somebody disturbs it the page in hand has exactly the cells
  shown, and the list the caller sees has the same cells, once each, in the order
  of the text of `created_at`, which is that of the times but for a whole second
  (`TextOrder`). `CreatesAreChecked` (an action property) from `ProcessOK` and the
  identity gate: a cell is born only of a create in `late` or in the script that
  the gate lets through, and the keys of a process started with a key file are
  those of that file.
* `ConformanceProofs`: all the properties of the run. `PlaceOK` says where a run
  can be (and that what is known of a case is cleared with it), `BlameOK` that
  only cases that were run are blamed and that the case in progress is blamed as
  soon as it has a problem, `ResultsOK` that the results are those of the places
  that are over, one each, with the status that follows from the history, and
  `ExitOK` what a run that has ended returns. `GapsAreTold`, `EveryCaseOnce` and
  `ExitCodeIsRight` use that the ids are unique: otherwise two cases would share
  the blame.
* `PagingProofs`: all the properties of the run, for every page size, batch,
  ceiling and finite set of cells, any number of writes, and every store (shared or not,
  with or without an order). `Typed` from `Shape` (the types) and `Locals` (the
  offset is spent before anything is collected, no page exceeds its limit, a scan
  in progress has read whole batches). `PagesAreWindows` adds
  `Windowed` and `Paged`: until others write, what a scan has skipped and
  collected are the readable cells of the batches it has read, in order.
* `MissesAreAccountedFor` and `RepeatsAreAccountedFor`: from `Counted`, `InScan`,
  `PageEnds` and `Answered`. They say of a place of the listing (`At`) that the
  cells before it the walk has missed are no more than the departures, and those
  after it the walk has already seen, with the repetitions in the walk itself, no
  more than the arrivals. Between pages that place is where the next page begins.
  Inside a scan it is where the batches read so far end, and the difference
  between what the scan has seen and what now stands in those batches is kept in
  reserve (`Excess`); the walk must also be accounted for at every place where the
  page could still end (`PageEnds`), because a page keeps only what it returns.
  Reading a batch moves the place and nothing else (`Gathering`). A write of one
  cell raises each of the two counts by at most one (`Cut`, `MissedInCut`,
  `RepeatedInCut`), and only when it was counted as a departure or an arrival.
  The single case that could raise the second by two, a cell hidden before the
  place that comes to light after it, does not happen: a write that makes a cell
  readable leaves it in the batches it was in (`HiddenStays`).

The filtered listing is `Only`, a recursive function over sequences and not
`SelectSeq`, whose definition is recursive and out of the provers' reach. What it
returns for every sequence is proved by induction: the library's induction
theorems take a predicate and cannot be used, so the induction is stated for a
set that holds the empty sequence and is closed under `Append`
(`SequencesByInduction`, from the least element of a set of numbers).

The proofs use the assumptions on the constants: periods and limits are
naturals, the cap is positive, inputs are of their types, `Null`, `NoCell`
and `Nothing` are not values, a metadata value is not also a dictionary, a read
leaves the digits of `access_count` or adds one, `CellId` (for the cluster and for
paging) and `MetaKeys` are finite, page size, batch and ceiling are positive, every
PATCH body is one validation accepts, `NoKey` is neither a key nor the placeholder
and the empty and the absent name are no agents, and the ids of the conformance
cases are unique.

Only model-checked: the liveness properties (`DueCellsAreServed`,
`DeletedIsPurged`, `DeletedLeaves`, `ForgetGetsThrough`), which are out of the
prover's reach, and the violations of section 4, which are single behaviours.

## 6. What is left

1. What the cluster guarantees with three processes or more, where no window
   bounds `PurgesOnlyAfterRetention`; what of `CellLifecycle` it still implements.
2. A limiter in each process of the cluster.
3. The asynchronous client, whose errors carry no status, in `SdkSession`.

## 7. Not modelled

Embeddings and the vector arithmetic of search (numerical; `Paging` takes the
order as given), the error envelope (formatting; the outcomes are the codes of
`Serving`), the generated OpenAPI contract and the contents of `/health` and
`/spec`, the set-up of the adapters, the Node SDK (the same
requests as the Python one) and the asynchronous client, `recall` through the
SDK (its server side is `SearchStep`), benchmarks, scripts and examples (no state
of the running system).
