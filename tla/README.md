# OptiTree backend in TLA+

OptiTree is a Go server (gin, gorm on PostgreSQL, Redis) with a Python worker. Users keep
fault trees and knowledge graphs as projects, have them generated from documents by a
language model, edit them, let an agent edit them, and keep versions of them. This directory
holds TLA+ models of that code, TLC configurations and TLAPS proofs. `PROJECT.json` maps every
definition to the lines it stands for.

Sources are named relative to the repository. "Handler" is an HTTP handler in the Go server.

## 1. Inventory

| Component | Code | State | Operations | Talks to |
|---|---|---|---|---|
| AI task pipeline | `internal/service/ai_task.go`, `ai_task_dispatcher.go`, `repository/ai_task.go`, `worker.py` | `ai_tasks` rows, `projects.generation_status`, Redis: producer stream and delayed zset, worker stream with consumer group and delayed zset, dead letters, project locks, event keys | submit, dispatch, lock, requeue, read, claim, retry, dead-letter, callback | graph store (saves the result), documents, progress hub |
| Graph store and caches | `service/fault_tree.go`, `knowledge_graph.go`, `repository/graph.go`, `repository/project.go`, `service/project.go` | `projects.graph_revision`, node and edge rows, Redis: project detail, graph payload | FindByID, GetGraph, SaveGraph (CAS), whole-row rename, invalidations | everything that reads or saves graphs |
| Versions | `service/version.go`, `version_list_cache.go` | `version_snapshots`, list cache and its index set | create (limit 30), rollback, list | graph store |
| Project list cache | `service/project_list_cache.go` | cached pages, index sets per user | read, invalidate | projects, members |
| Agent sessions and engine | `internal/agent/session.go`, `engine.go` | sessions in memory (state, pending call, confirm and cancel channels), runtime rows, run log | run, pause, confirm, cancel, time out, resume, clean up | graph operations, AI clients |
| Agent safety and planner | `internal/agent/safety.go`, `planner.go` | none (pure) | risk of a call, read-before-write, order and merge of calls | engine |
| Graph operations | `internal/graph_ops/*` | none of its own; preview items | plan operations on nodes and edges, check the result, commit; previews | graph store |
| Documents | `service/document.go`, `document_conversion_queue.go` | `documents`, `document_conversion_tasks`, conversion stream, search cache | upload, convert, search, delete | storage, pipeline |
| Members | `service/member.go` | `project_members`, `project_invitations`, `member_count` | invite, accept, reject, change role, remove | notifications, project list cache |
| Authentication, middleware | `service/auth.go`, `pkg/jwt`, `internal/middleware` | refresh tokens, revoked ids, login failures | register, log in, refresh, log out | users |
| Progress hub, WebSocket | `service/task_progress_hub.go`, `handler/ai_task_ws.go` | subscriber channels | subscribe, publish, unsubscribe | pipeline |
| Notifications, teams, users | `service/notification.go`, `team.go`, `user.go` | rows | create, read, update | - |
| Assistant chat | `service/assistant.go` | conversations, messages | chat, stream | AI clients |
| AI clients | `internal/ai/*` | none | request, stream, parse, route | providers |
| Storage | `service/storage.go` | files, objects | save, open, delete | - |
| Configuration, wiring | `internal/config`, `main.go` | - | start-up | - |

What is hard here, and what makes each part correct:

- **Pipeline.** Two process kinds and a server share streams, a lock with a TTL and rows without
  transactions across them. At-least-once delivery, lost callback answers, idle-time reclaiming,
  crashes between the steps of a retry, and status writes that are late. Correct: a finished task
  stays finished; a completed one has its graph saved, once; a project runs one fault-tree task at
  a time, through every retry; its lock is let go; every task ends; the project shows how.
- **Graph store.** Three values (revision, nodes, edges) read in separate statements behind two
  caches that are invalidated outside or too early in the transaction. Correct: no save is lost
  without a conflict; the cached graph is the current one when its revision is; conflicts end.
- **Graph operations.** An agent rewires a tree in batches of operations that build on one another
  and are checked at the end. Correct: what is stored is one tree; nothing is cut off; the patch the
  client gets gives the graph that is stored.
- **Versions.** A safety copy, a replace and a pruned list with no transaction. Correct: the copy
  made before a rollback is of the graph it replaces; the limit; the list cache follows.
- **Agent sessions.** Two goroutines (engine, confirm/cancel handler) over a state and a buffered
  channel. Correct: an operation runs only after its own confirmation; a cancelled session stays
  cancelled; every run ends; the rows say what the session waits for.
- **Conversion queue.** Row, stream and document updated one by one, a stream that expires, workers
  that die. Correct: a document is converted once; its rows agree; every one leaves `processing`.
- **Members.** Count, then write; correct: a project keeps an administrator, `member_count` is the
  number of members.

## 2. The modules

| Module | Models | Extends, uses | Runs | Proofs |
|---|---|---|---|---|
| `AITaskPipeline` | requests, dispatchers, queues, workers, callbacks | | `base`, `hazards`, `live`, `recovery` | `AITaskPipelineProofs`, `AITaskCustodyProofs` |
| `GraphStore` | reads and saves of one project's graph through two caches | implements `GraphStoreSpec` | `graph`, `conflicts` | `GraphStoreProofs` |
| `GraphStoreSpec` | the same as one atomic object | | | |
| `FaultTreeEditor` | the agent's operations on a fault tree | | `editor` | `FaultTreeEditorProofs` |
| `AgentSafety` | limits and loop rules, as operators | | through `AgentSession` | |
| `AgentSession` | one run of the agent | `AgentSafety` | `session`, `cancelled` | `AgentSessionProofs` |
| `DocumentConversion` | upload, queue, conversion workers | | `conversion` | `DocumentConversionProofs` |
| `Membership` | members, invitations, member_count | | `membership` | `MembershipProofs` |
| `VersionStore` | versions, rollback, the list cache | the graph as a revision counter, as in `GraphStoreSpec` | `versions` | `VersionStoreProofs` |

How they fit: the pipeline's `PersistGeneratedGraph` is a `Replace` of the graph store; the editor's
`Persist` and an agent's save are its `Save` or `Replace`; a rollback's `Restore` is a `Save`. Each
module has the callers it needs as nondeterministic actions of its own.

Next, in order: the properties that survive `lateMark` and `slowRetrying` (section 3), which need
a custody that two places can share for a moment; resumption of a paused session by a new request;
the operations on knowledge graphs; the progress hub.

## 3. The AI task pipeline

`AITaskPipeline.tla`. A request creates the row, normalises its documents and puts the task on the
producer stream (fault trees) or straight on the worker stream (knowledge graphs). A dispatcher
goroutine takes a producer entry, tries to take the project's lock (SETNX), and puts the task on the
worker stream or, if the project is busy, in the delayed set. A worker reads an entry, reports
accepted, one parsing event per document, and the result; the server handles each report in
`HandleTaskCallback`: it checks the event key, reads the row, refreshes the lock, writes row and
project, saves the graph, releases the lock.

| Variable | Code |
|---|---|
| `task` | `ai_tasks`: status, progress, attempt_count |
| `project` | `projects.generation_status` |
| `applied` | how often a task's result was saved in the graph |
| `lock` | Redis `project lock` keys, the value is the task |
| `dedupe` | event keys seen (TTL 24 h, longer than a behaviour) |
| `submit`, `again` | the request, and a second one with the same idempotency key, at which statement |
| `producerStream`, `producerDelayed`, `dispatcher` | producer side |
| `workerStream`, `pending`, `workerDelayed` | worker side; `pending` is the consumer group's list |
| `worker`, `call` | each `worker.py` process, and the handler serving its callback |
| `hazards` | how many failures this behaviour has met |

Actions follow the code's steps: `SubmitStart`, `CreateTask`, `PrepareDocuments`,
`EnqueueFaultTree`, `EnqueueKnowledgeGraph`, `MarkProducerQueued`; `ReleaseDelayedProducerTask`,
`ReadProducerMessage`, `TryAcquireProjectLock`, `DispatcherEnqueue`, `MarkEnqueued`,
`RequeueDelayed`; `ReadMessage`, `ClaimStalePending`, `Advance`, `PostCompleted`, `FailAttempt`,
`AckRescheduled`, `MoveToDeadLetter`, `FinishRetry`; `ReceiveCallback`, `TouchProjectLock`,
`WriteReported`, `ShowGenerating`, `PersistGeneratedGraph`, `SetCompleted`, `ReleaseProjectLock`,
`ClearTaskStreamEntries`. Each comes with its error path. A worker waits for the answer of its
callback, so one callback per worker is in flight.

### Hazards

`Hazards` lists the failures a configuration examines, `MaxHazards` how many one behaviour meets.
The code does not survive all of them; the run `hazards` shows what survives each one. One kind at
a time, with one or two fault-tree tasks of a project, two workers and two attempts, exploration gave:

| Hazard | In the code | What fails under it |
|---|---|---|
| `workerCrash` | worker killed at work | nothing checked |
| `replyLost` | handled callback without an answer | nothing checked |
| `requeueError` | ZADD or XADD of a requeue fails; the entry is acked all the same (`ai_task_dispatcher.go:240-254`) | only termination |
| `redisError` | lock or stream command fails | orphan lock until its TTL when the release's GET fails |
| `dbError` | a status update fails | LockCoversWork, AppliedAtMostOnce |
| `serverCrash` | server dies in a handler or with a producer entry in hand | NoOrphanLock, AppliedAtMostOnce, SettledProject, termination |
| `lateMark` | `pending` written after the XADD (`ai_task.go:797`, `ai_task_dispatcher.go:185`) | TerminalIsFinal, LockCoversWork |
| `slowRetrying` | "retrying" report slower than the back-off (2 s base) | TerminalIsFinal, LockCoversWork, SettledProject |
| `liveReclaim` | idle limit 60 s, model timeout 600 s: an entry is claimed while it is being worked on | LockCoversWork, AppliedAtMostOnce, SettledProject, TerminalIsFinal |
| `crashMidRetry` | worker dies between XACK, ZADD and report | the same |
| `commandUnknown` | SETNX or XADD took effect, the client saw an error | LockCoversWork, NoOrphanLock, AppliedAtMostOnce, SettledProject, TerminalIsFinal |
| `lockExpiry` | lock TTL 20 min | LockCoversWork |
| `resubmit` | same request twice | SettledProject |

`AITaskCustodyProofs` proves the rows that say a property holds for six of these at once, in any
number and mixture and for any tasks, workers and dispatchers: `workerCrash`, `replyLost`,
`requeueError`, `redisError`, `lockExpiry` and `resubmit`, less the one hazard the row names
(section 10). What survives the other seven is known from exploration only.

So the runs `base`, `live` and `recovery` name the hazards their properties are about: those the
code has handling for (crashes of workers, lost answers, retries). `resubmit` breaks
`SettledProject` with one request: the second one shows the status the task had when it looked, and
a task that completes in between leaves its project pending or generating (`ai_task.go:734-753`).
`liveReclaim` needs two workers; the compose file starts one.

### Runs

| Run | Instance | Shows |
|---|---|---|
| `base` | two fault-tree tasks of one project, one worker, two dispatchers, two attempts, one worker crash or lost answer | LockCoversWork, NoOrphanLock, AppliedAtMostOnce, SettledProject, TerminalIsFinal |
| `hazards` | one task, two workers, two dispatchers, any one of the 13 hazards | CompletedMeansApplied, DispatchedOnce |
| `live` | two tasks of one project, one worker, one dispatcher, one attempt, a crash or a lost answer, fairness | EveryTaskEnds, EveryProjectSettles: the waiting task gets its turn |
| `recovery` | one knowledge-graph task, two workers, three attempts, a crash, a Redis error or a lost answer, fairness | EveryTaskEnds through reclaiming and retries |

Bounds: two tasks in one project are what the lock can get wrong, the third only waits. Two
workers and two dispatchers give every race between a holder and a claimer. Two attempts reach
retry and dead letter, three reach a retry of a retry. `Copies` names entries of one task that are
alive together. The delayed sets have no clock: an entry is due at any time (`slowRetrying` guards
the one place where the order of time matters). Deadlock checking is off in the pipeline's runs:
when every task is over and nobody submits, nothing is left to do.

Fairness (`FairSpec`): weak fairness of each request's, dispatcher's, worker's and handler's next
step; they are goroutines and processes that loop. A dead worker is restarted
(`restart: unless-stopped`, `docker-compose.yml:90`) and takes part in `WorkNext`. Submissions and
failures are not fair.

### Left out

Document text, prompts and graph repair inside the worker; the batch sizes of reads (the server
reads 10 at a time, the worker claims up to 20; one at a time here); the status cache and the
WebSocket events; the set of stream entries of a task (`recordTaskStreamEntry`), whose clearing is a
step with no effect on the other state. A late answer is modelled after the handler finished; a
handler that runs on after the worker's 30 s timeout is not. Knowledge-graph tasks have no project
lock in the code, and have none here.

## 4. The graph store

`GraphStore.tla`, one project. A graph is the number of the save that wrote it. `row` is the
committed revision and graph; `rowLock` the transaction that has updated the row and not committed;
`detail` the revision in the cached project row; `graphCache` the cached payload; `filling` the
SET a `FindByID` still has to do; `client` what each client holds.

| Client | Code | Revision it saves against |
|---|---|---|
| editor, `SaveLoaded` | `handler/fault_tree.go` SaveGraph | the one it loaded, checked by the CAS |
| editor, `ExecuteSnapshot` | agent on the client's snapshot (`executor.go:121`) | the one it loaded, compared with `FindByID` and again by the CAS |
| agent, `ExecuteCommit` | `Executor.Execute`, `HybridEngine.Commit` | read after the graph |
| generator, `SaveGenerated` | `ai_generation_project_helpers.go:140` | read just before, two tries |
| renamer | `ProjectService.Update`, `Rename` | writes the whole row |

`FindByID` answers from the cache or from the row; a failing GET falls through to the row, so the
row is always a possible answer. Every cache write may fail, as the code ignores the error.
`UpdateGraphMetaCAS` waits for the row lock (PostgreSQL, read committed) and compares; the
invalidation of the detail cache comes before the commit, as in the code; `Commit` makes nodes,
edges and revision visible together; `PurgeGraph` comes after. `BatchReplace`, which comes first in
the transaction, changes nothing others see before the commit; it may fail (`ReplaceFails`), which
covers the key conflict of two replacements at once. `DetailExpires` stands for the TTL and for
updates of other columns, which drop the cached row.

| Run | Instance | Shows |
|---|---|---|
| `graph` | an editor, an agent, a rename, 2 saves | NoLostUpdate, CachedGraphIsCurrent, ImplementsVersioned |
| `conflicts` | an editor, a generator, 2 saves, fairness | ConflictsEnd |

`ImplementsVersioned` is the refinement: `GraphStoreSpec` has one graph and the copy each editor
holds; `CopyOf` maps an editor to the graph it has read whole, a torn read to none, and a save takes
effect at its commit. Only a copy of the current graph is saved; agents and generators replace
whatever is there, and the code promises no more for them.

Two facts bound what is claimed. A rename writes the whole row of the project back, `graph_revision`
included (`project.go:213`, `repository/project.go:125`): with `RenameRaces = TRUE` the revision of
a save in between is undone, an editor that still holds the older graph passes the compare-and-swap,
and TLC finds `NoLostUpdate` violated. The passing runs and the theorems take `RenameRaces = FALSE`:
renames find the row as they read it. And an agent takes the revision after it has read the graph
(`executor.go:103`), so no property is claimed for the agents' saves. Two saves are enough for a
reader to be torn, a cache to be stale and a conflict to be retried. The fairness of `ConflictsEnd`
is that requests go on, cached rows expire (30 min TTL), and an editor in conflict loads again and
saves (strong fairness: it does not load for ever). The generator has no such property: its two
tries can both meet the same stale row, and its callback then fails the task.

## 5. The fault-tree editor

`FaultTreeEditor.tla`. An agent's call opens the stored graph (`Open`) as one operation, a strict
batch or a repair batch, applies operations to a copy (`AddNode`, `AddGate`, `DeleteNode`,
`MoveNode`, `UpdateNode`, ...; `AddNodePermissive` and `AddGatePermissive` in a repair batch), and ends in `Refuse`, `Unchanged` or `Persist`. The patch grows with
each operation as `mergePatch` appends it. Users save any graph at any time (`SaveGraph`), without a
structural check; a call whose revision has passed is refused. A preview proposes OR for every AND
gate and is committed as a batch on the graph there is by then.

Shape is stated with sets of nodes closed under the edges, without paths: a graph is `Acyclic` if
every set of nodes has one with no child in the set, and `Rooted` if every node is in each closed set
that has the top event. A dangling edge leads to an id that is no node; such a graph may still be
`Rooted`, and the graph users save in the runs has one that its top event leads to.

| Property | About |
|---|---|
| `RootedKept` | no operation cuts a node off the top event, and no check looks for that |
| `AcyclicKept` | no operation draws a cycle, though the check comes at the end of the batch |
| `AncestryKept` | only a move changes who is above whom |
| `PatchRebuilds` | the sum of the patches gives the graph stored |
| `SavesATree` | what is stored, in repair mode too, is one tree |
| `VerifiedAsStored` | the agent's own verification counts as the check before a save does |

Run `editor`: six node ids, four stored graphs (a tree with a gate; events without gates, a double
link and a gate without a type; cycles, loops, orphans and dangling edges; the empty graph), batches
of two operations, one save, by a user or a call, before the last call stores its graph (so that a
preview is committed on another graph than it was made for). Two operations reach every pair that builds on one another;
the graphs hold each flaw the code treats specially.

## 6. The agent's session

`AgentSession.tla`, with the operators of `AgentSafety.tla`. The engine (`engine`) goes through
rounds; a round is a list of calls from `Answers`, merged and preceded by reads as
`mergeRoundMutationCalls` and the round loop do. A call passes the safety check, asks the user if it
deletes, batches or previews, and waits: on the client's connection, the cancel channel, a timer and
the queue of confirmations. The user's `Click`, `Confirm` (a look at the session) and `Deliver` (the
send) are separate steps, as are the engine's `WaitConfirm` and what it makes of the answer (`ResumeRounds`,
`ResumeCall`, `ResumePreview`, and `CommitPreview` after an approved preview). `runtime` and `row` are
the two rows in the database, `session.listed` is the manager's map.

| Run | Instance | Shows |
|---|---|---|
| `session` | reading and writing runs, one free round and one granted, four answers of the model, a queue of one, two confirmations, limits of 3 calls, 2 of a kind and 1 node | ConsentedOnly, RoundsGranted, RequestKept, EveryRunEnds |
| `cancelled` (violation) | the same | a confirmation sent after the cancellation is accepted: the engine has set the state to running and to paused again |

The queue holds 8 in the code; with one place it is full as soon as a late signal stays in it.
`ConsentedOnly` is claimed for calls with ids of their own and confirmations that name theirs
(`UniqueIds`, `NamedOnly`): the fallback parser numbers the calls of every answer from one
(`fallback_parser.go:62`) and a confirmation without an id takes the pending one's
(`session.go:281`), and then an old approval fits a new request. Fairness is weak fairness of the
engine's step: its goroutine is scheduled, each wait has a timer. Not fair: the user, the clean-up.
Deadlock checking is off because the run is over in the end.

## 7. Documents

`DocumentConversion.tla`. An upload writes the document's row, a pending task and a stream entry, in
three steps with their error paths; a worker reads (`ReadNext`: its own unacknowledged entry first),
takes the task, makes the PDF, creates its row, links it, closes the task, acknowledges. Around them
the process may crash or be stopped and start again, and the stream expires with its consumer group
(`Lapse`). `broker` is the deployment: with Redis or polling the table. `slipped` is a ghost: it
names the documents whose failure the code neither notices nor records, at the step where that
happens, and every property is stated for the others. So `NotForgotten` says that the listed ways
are all the ways to forget a document.

Run `conversion`: two documents, two workers, both deployments, three faults. Two documents are
needed for a copy and for a second entry behind a stuck one, two workers for a race for a task, and
three faults for a failure in the handling of a failure. Fairness: requests and workers run on, an
orderly stop exits, a stopped server is started again. Deadlock checking is off: everything may be
converted.

## 8. Members

`Membership.tla`, one project. A request that is more than one statement is a handler in steps: the
row it read, the administrators it counted, the write. What runs in one transaction with the
invitation's row locked is one step. `cached` is member_count in the cached project row, which a
rename or update writes back whole. `miscounted` is a ghost, set where the count is changed without
regard to the rows (a failed decrement whose error is ignored, a second removal of one member, a
rename with an old count). The routes wrap the member handlers in `withAdminRole`
(`main.go:559-574`), which returns the last handler of its chain, the handler itself; so no role
check is part of the actions.

Run `membership`: the creator and one more user, two roles, two overlapping requests, three
memberships, two invitations, one ignored error, from the creation of the project to its deletion.
Two overlapping requests are what a race takes; three memberships let a user leave and come back.
`AdminKept` and `OnlyByInvitation` take `OneAtATime = TRUE`: role changes, removals and the deletion
do not overlap. With FALSE, two removals each count two administrators and delete one
(`member.go:672`), TLC finds `AdminKept` violated, and a role change that saves the row it read
brings a removed member back. Deadlock checking is off: the bounds on rows are reached.

## 9. Versions

`VersionStore.tla`, one project. A creation inserts, counts, picks the oldest version, deletes it,
and invalidates the list in two commands; each is a step. A rollback reads the project's revision,
makes a copy if asked, and saves at the revision it read; the copy may fail and the rollback goes on.
A list request caches what it read and then names it in the index set. The graph is its revision.

- `LimitHeld`: the versions exceed the limit by the requests still to trim and by `slips`, the trims
  that came to nothing: an ignored error, or two requests that picked the same version. The
  schema's comment says at most 30 (`migration/schema.sql:315`); each slip costs one for good, since
  a later creation deletes one version and adds one.
- `CopyHoldsReplaced`: a rollback that made its copy replaces the graph in it. The revision is read
  before the copy, so a save in between makes the compare-and-swap fail.
- `ListFresh`: until a list request and an invalidation overlap (`overlapped`, a ghost), the cached
  list is the table's whenever no invalidation is due.

Run `versions`: two requests, a limit of one, three versions, two saves, one ignored error. Two
requests are enough to pick the same version; the limit only sets how many versions it takes.
Deadlock checking is off: the bound on versions is reached.

## 10. Proofs

`tlapm` checks every step; no assumption but the modules' own ASSUMEs, which TLC evaluates in the
runs. All theorems are for any sets of tasks, workers, clients, users, documents and nodes (nodes
are numbers and finitely many, as are users) and for any values of the bounds. Every invariant and
action property that a passing run checks is stated by a theorem; where the theorem has a hypothesis
it is named below. The hypotheses (`Orderly`, `~RenameRaces`, `OneAtATime`, `UniqueIds`,
`NamedOnly`) are about constants, and the passing runs take values that satisfy them.

In each module one invariant, or a chain of them, is shown to hold initially and to be kept by each
action, with one lemma or step per action.

### `AITaskPipelineProofs`: all thirteen hazards

- `TypeCorrect`: `TypeOK`. It is inductive. The work is in the numbers: progress stays in 0..100,
  and attempts never pass `max_retries`, because a worker reports the next attempt only from states
  it reaches below the limit.
- `DispatchedOnceCorrect`: `DispatchedOnce`, which is inductive once the request's own turn is part
  of it (a task still with its request is nowhere in the producer queue).
- `CompletedMeansAppliedCorrect`: `CompletedMeansApplied` is not inductive, because the save and the
  status are two writes. `SavedInv` adds that a handler past `PersistGeneratedGraph` on its way to
  `SetCompleted` has saved (`HandlerSaved`).

### `AITaskCustodyProofs`: the hazards through which the code hands a task on

Each theorem has `Orderly`: none of the seven hazards in `Disorders` (`dbError`, `serverCrash`,
`lateMark`, `slowRetrying`, `liveReclaim`, `crashMidRetry`, `commandUnknown`). Those put one task in
two places, or end a handler midway, and the table in section 3 shows what they break. The other six
may occur in any number and mixture.

`CustodyInv` says that one place at a time has a task: its request, the producer queue or a
dispatcher, one entry of the worker queues, or one worker with the handler of its callback
(`EntryInv`, `ProducerInv`). Two entries exist only between the ZADD of a retry and
the XACK of the old entry, with the same worker. `HandlerInv` says what a handler has established of the row by each of its steps, and
`SaveInv` that a saved result has completed its task or is about to. From `CustodyInv`:

| Theorem | Further hypothesis | Further invariant |
|---|---|---|
| `AppliedAtMostOnceCorrect` | | part of `SaveInv` |
| `TerminalIsFinalCorrect` | | none: whoever writes a row has custody and judged the row as it is |
| `LockCoversWorkCorrect` | no `lockExpiry` | `HeldInv`: work in the worker queues has the lock, from the SETNX on. `DeleteInv`: who is about to DEL has seen its own task in the lock and it still is |
| `NoOrphanLockCorrect` | no `redisError` | `OwnerInv`: the lock of a task that is over has a handler about to release it |
| `SettledProjectCorrect` | no `resubmit` | `ShownInv`: each project with tasks has one that is not over, or has a handler about to show it, or is shown |

Each further hypothesis is needed: with the hazard it excludes, TLC finds the property violated
(section 3).

### `GraphStoreProofs`

- `TypeCorrect`: `TypeOK`, with renames that race saves. Not inductive alone: a commit must not
  run past the bound, a payload must have been read. `TInv` adds that whoever is between
  compare-and-swap and commit holds the row lock and has the row's revision as its base
  (`HolderInv`), that no revision anywhere exceeds the number of saves (`BoundInv`), and that a
  client has read what its next step uses (`PreparedInv`).
- `NoLostUpdateCorrect`, `CachedGraphCorrect`, `OneSavePerRevisionCorrect`, each under
  `~RenameRaces`. `SInv` adds to `TInv` that the revision counts the saves (`OneSavePerRevision`),
  and that whatever an editor or the graph cache holds under the row's revision is the row's graph,
  part by part (`EditorInv`, `CacheInv`). A save moves the revision to a value nobody has yet, so it
  makes all of these premises false; a torn read is labelled with a revision that is already past.
- `ImplementsVersionedCorrect`, under the same assumption: from `SInv`, the initial state maps to
  `GraphStoreSpec`'s and every step to one of its steps or a stutter. An editor's commit is a `Save`
  because its copy was the row's graph when the compare-and-swap passed, and nobody else saved while
  it held the row lock.

### `FaultTreeEditorProofs`

Seven theorems, without hypotheses: `TypeCorrect`, `PatchRebuildsCorrect`, `RootedKeptCorrect`,
`AcyclicKeptCorrect`, `AncestryKeptCorrect`, `SavesATreeCorrect`, `VerifiedAsStoredCorrect`. So they
hold on any graph users may save, in every mode and for batches of any length.

The first half of the module is about relations: what adding a leaf, putting a node between a parent
and its children, deleting nodes and moving a node do to the closed sets (`Hang`, `Between`,
`Without`, `Through`, `Rehang`), from which `Rooted`, `Acyclic` and `Below` follow. The second half
shows that each operation is one of these, and that its patch is a good one (`Does`). `IInv` is
`TypeOK`, `WorkOK` and `PatchRebuilds`; `WorkOK` says that edges of the copy have ids no newer than
the operations so far, so that an edge drawn now is not one that an earlier operation of the batch
erased, and the sum of the patches is the patch of the sum.

What a call stores has one top event, no cycle and no edge to nothing because the check before a save
looks for these. It does not look for orphans; that a call adds none is `RootedKept`, together with
the copy being of the stored graph when the compare-and-swap passes.

### `AgentSessionProofs`

- `TypeCorrect` and `RequestKeptCorrect`, without hypotheses. `KeptInv` follows a question from the
  step that asks it to the answer, or to the engine's leaving, and says which of the two rows is
  still open at each place between.
- `ConsentedOnlyCorrect`, under `UniqueIds` and `NamedOnly`. Request numbers are never used again,
  so a signal for the number asked last is for that request (`SignalInv`), and `waitForConfirmation`
  takes none of another (`ConsentInv`).
- `RoundsGrantedCorrect`, under `NamedOnly` only: the question for more rounds has no call and a
  name of its own. `GrantInv` says that an approval in the queue adds no more than was granted.

`Merged` is a recursive function over an answer; that it has a value at each place, a list of calls,
is proved by looking at the least place where it would not. `Lawful` adds that a round's automatic
read stands only in front.

### `DocumentConversionProofs`

`TypeCorrect`, `ConvertedOnceCorrect`, `RowsAgreeCorrect`, `NotForgottenCorrect`, for either
deployment and any number of faults, from one `IInv` that speaks of one document at a time. Its task
row is a token: it is pending until one worker takes it, nobody puts it back, and the PDF comes
after that (`OnceAt`). `BeforeAt`, `StoryAt` and `EntryAt` follow a document that has not slipped
from its upload to the end of its conversion, and `QueueInv` says that an entry the stream's lapse
leaves unread belongs to a document that has slipped.

### `MembershipProofs`

- `AdminKeptCorrect`, under `OneAtATime`. `AdminKept` is not inductive: the check and the write are
  two steps. `IInv` adds that at most one role change, removal or deletion is under way (`Single`),
  that the row it has read is still the table's (`RowKept`; an acceptance only adds rows), and that
  a demotion or removal past its check leaves another administrator (`OtherKept`).
- `OnlyByInvitationCorrect`, under `OneAtATime`: by `RowKept` a role change writes a row that is
  there, so a row comes only from an invitation that is open (`InviteInv`).
- `TypeCorrect` and `CountRightCorrect`, whatever overlaps. That no user is twice a member needs
  that row ids are never given out again: a role change that puts back a removed row gives it to the
  user it was read for (`ReadInv`). `member_count` is the members and the removals that have deleted
  the row and not yet decremented (`CountInv`).

### `VersionStoreProofs`

- `LimitHeldCorrect`: each version past the limit has a request that still has to trim, or a slip.
- `ListFreshCorrect`: the index names a cached list, or the request that cached it is about to add
  it (`IndexedInv`); what a list request has read is the table, or an invalidation is due
  (`SeenInv`).
- `CopyHoldsReplacedCorrect`: a rollback reads the revision before the copy's graph (`CopyInv`).

None of the three needs to know which version is the oldest.

### What the proofs changed in the models

- A CASE whose guards overlap leaves the choice open in TLA+, while TLC takes the first. Those of
  `Verdict`, of the limits and loop rules and of the session's final state are chains of IF now, in
  the order of the code's early returns.
- `Rooted` counted ids that are no nodes, so a reachable edge to nothing made its premise false and
  `RootedKept` said nothing of such graphs. It is about nodes now, and one of the run's graphs has
  that edge.
- Constants such as `None` are assumed to differ from the values they stand beside.

### Only model-checked

Every liveness property, which is out of the prover's reach: `EveryTaskEnds` and
`EveryProjectSettles` (runs `live` and `recovery`), `ConflictsEnd`, `EveryRunEnds`, and `Resolved`
for conversions; what of the pipeline survives the seven hazards outside `Orderly`, the three
theorems of `AITaskPipelineProofs` excepted; and the finding of the run `cancelled`. No module with a theorem uses
RECURSIVE.

## 11. Not modelled

See the components with status `not_modelled` in `PROJECT.json`, with their reasons, and the notes
of the components modelled in part. Pure I/O (storage, provider clients), configuration and plain
row handling (notifications, teams, users, assistant) are left out for good. The project list cache
has the version list's scheme of index sets. The progress hub's race (a send on a channel that an
unsubscribe has closed, `task_progress_hub.go:85`) is a hazard without a model. Times are left out
everywhere: a TTL, a timer or an age is an action that may happen at any moment, and the properties
that would need real time say so (`slowRetrying`, `lateMark`, `lockExpiry`).
