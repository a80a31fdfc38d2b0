--------------------------- MODULE AITaskPipeline ---------------------------
(***************************************************************************)
(* The AI generation pipeline: the HTTP request that creates a task, the   *)
(* producer stream, the dispatchers that give a project one slot at a time *)
(* (a Redis lock), the worker stream with its consumer group, the Python   *)
(* workers with their retries and dead letters, and the callback handler   *)
(* that moves the task row, the project row and the lock.                  *)
(*                                                                         *)
(* Every Redis command and every SQL statement on shared state is a step   *)
(* of its own where another process can act in between.  What may go wrong *)
(* is named by the constant Hazards; a behaviour meets at most MaxHazards  *)
(* of them, so a configuration says exactly which failures it examines.    *)
(***************************************************************************)
EXTENDS Integers, FiniteSets

CONSTANTS
  Tasks,           \* generation requests, one idempotency key each
  FaultTreeTasks,  \* those of type generateFaultTree; the rest build knowledge graphs
  Projects,
  ProjectOf,       \* the project each task generates into
  Workers,         \* worker.py processes
  Dispatchers,     \* dispatcher goroutines of the Go server
  MaxRetries,      \* worker.py max_retries
  Docs,            \* documents of a task, each reported by one parsing callback
  Copies,          \* names for stream entries of one task alive at the same time
  Hazards,         \* the failures this configuration examines
  MaxHazards,      \* how many of them one behaviour meets
  NoTask, NoEntry  \* absence of a task, of an entry

HazardKinds ==
  { "workerCrash",    \* a worker dies while it works on a message
    "crashMidRetry",  \* a worker dies between two steps of its retry bookkeeping
    "slowRetrying",   \* the "retrying" callback is slower than the back-off of the next attempt
    "liveReclaim",    \* a message idle for reclaim_idle_ms is claimed while it is being worked on
    "serverCrash",    \* the Go server dies with its dispatchers, requests and callbacks
    "lockExpiry",     \* the project lock outlives its TTL
    "replyLost",      \* a callback is handled but its answer does not reach the worker
    "dbError",        \* a status update fails
    "redisError",     \* a lock command or an XADD of the server, or its SETNX of an event key, fails
    "commandUnknown", \* a SETNX or XADD took effect but its answer is an error
    "requeueError",   \* ZADD or the XADD after a ZREM fails in a dispatcher
    "lateMark",       \* the status update after an enqueue is slower than the whole task
    "resubmit" }      \* the same request is sent again

ASSUME PipelineAssumption ==
  /\ FaultTreeTasks \subseteq Tasks
  /\ ProjectOf \in [Tasks -> Projects]
  /\ MaxRetries \in Nat \ {0}
  /\ Docs \in Nat \ {0}
  /\ Hazards \subseteq HazardKinds
  /\ MaxHazards \in Nat
  /\ NoTask \notin Tasks
  \* A project has one type, and the request checks it.
  /\ \A t, u \in Tasks : ProjectOf[t] = ProjectOf[u] =>
        (t \in FaultTreeTasks <=> u \in FaultTreeTasks)

TaskStatuses == {"none", "pending", "processing", "retrying", "completed", "failed", "dead"}
TerminalStatuses == {"completed", "failed", "dead"}
GenerationStatuses == {"pending_generating", "generating", "completed", "failed"}

Entries == [task: Tasks, attempt: 0..MaxRetries, resume: BOOLEAN, copy: Copies]

VARIABLES
  task,            \* ai_tasks rows: status, progress, attempt_count
  project,         \* projects.generation_status
  applied,         \* has this task's result been saved into the project graph, and how often
  lock,            \* Redis lock of each project: the task that owns it
  dedupe,          \* callback event keys seen
  submit,          \* the request that creates each task
  again,           \* a second request with the same idempotency key
  producerStream,  \* tasks of undelivered producer entries
  producerDelayed, \* tasks in the producers' delayed zset
  dispatcher,      \* what each dispatcher is doing, and with which task
  workerStream,    \* undelivered entries of the worker stream
  pending,         \* delivered, unacknowledged entries, with their consumer
  workerDelayed,   \* entries in the workers' delayed zset
  worker,          \* what each worker is doing, and with which entry
  call,            \* the callback each worker has in flight, as the server handles it
  hazards          \* how many hazards this behaviour has met

taskVars == <<task, project, applied, lock, dedupe>>
requestVars == <<submit, again>>
producerVars == <<producerStream, producerDelayed, dispatcher>>
queueVars == <<workerStream, pending, workerDelayed>>
workerVars == <<worker, call>>
vars == <<taskVars, requestVars, producerVars, queueVars, workerVars, hazards>>

-----------------------------------------------------------------------------
IdleWorker == [st |-> "idle", doc |-> 0, msg |-> NoEntry, up |-> TRUE]
IdleDispatcher == [pc |-> "idle", task |-> NoTask]
NoCall == [pc |-> "none", out |-> "none"]

Init ==
  /\ task = [t \in Tasks |-> [status |-> "none", progress |-> 0, attempt |-> 0]]
  /\ project = [p \in Projects |-> "none"]
  /\ applied = [t \in Tasks |-> 0]
  /\ lock = [p \in Projects |-> NoTask]
  /\ dedupe = {}
  /\ submit = [t \in Tasks |-> "new"]
  /\ again = [t \in Tasks |-> "idle"]
  /\ producerStream = {}
  /\ producerDelayed = {}
  /\ dispatcher = [d \in Dispatchers |-> IdleDispatcher]
  /\ workerStream = {}
  /\ pending = {}
  /\ workerDelayed = {}
  /\ worker = [w \in Workers |-> IdleWorker]
  /\ call = [w \in Workers |-> NoCall]
  /\ hazards = 0

\* Meet hazard h, within the bound MaxHazards.
Meet(h) ==
  /\ h \in Hazards
  /\ hazards < MaxHazards
  /\ hazards' = hazards + 1

IsTerminal(status) == status \in TerminalStatuses

\* What a project shows for a task status.
ProjectGenerationStatus(status) ==
  CASE status = "completed" -> "completed"
    [] status \in {"failed", "dead"} -> "failed"
    [] status \in {"processing", "retrying"} -> "generating"
    [] OTHER -> "pending_generating"

\* UPDATE ai_tasks: status and progress, whatever the row holds.
UpdateStatus(t, status, progress) ==
  task' = [task EXCEPT ![t].status = status, ![t].progress = progress]

UpdateStatusExt(t, status, progress, attempt) ==
  task' = [task EXCEPT ![t] = [status |-> status, progress |-> progress, attempt |-> attempt]]

SetFailed(t) == task' = [task EXCEPT ![t].status = "failed"]

SetProjectGenerationStatus(t, status) ==
  project' = [project EXCEPT ![ProjectOf[t]] = status]

\* Mutants: SET without NX; the lock's value is never recognised as ours.
SetsWithoutNX(t) == TRUE
NeverOurs(t) == FALSE

LockFree(t) == lock[ProjectOf[t]] = NoTask
LockOurs(t) == lock[ProjectOf[t]] = t

\* A stream entry that differs from every entry still known.
KnownEntries ==
  workerStream \union workerDelayed \union {r.entry : r \in pending}
    \union {worker[w].msg : w \in Workers}

FreshEntries(t, attempt, resume) ==
  {e \in Entries : /\ e.task = t
                   /\ e.attempt = attempt
                   /\ e.resume = resume
                   /\ e \notin KnownEntries}

\* XADD to the worker stream of the task's first message.
EnqueueTask(t) ==
  \E e \in FreshEntries(t, 0, FALSE) : workerStream' = workerStream \union {e}

\* The update "pending" that follows an XADD of task t is still to come.
MarkPending(t) ==
  submit[t] = "mark" \/ \E d \in Dispatchers : dispatcher[d] = [pc |-> "mark", task |-> t]

\* The work on t is over before that update.
Outpaces(t) == IF MarkPending(t) THEN Meet("lateMark") ELSE UNCHANGED hazards

-----------------------------------------------------------------------------
(* GenerateFaultTree and GenerateKnowledgeGraph *)

SubmitStart(t) ==
  /\ submit[t] = "new"
  /\ submit' = [submit EXCEPT ![t] = "create"]
  /\ SetProjectGenerationStatus(t, "pending_generating")
  /\ UNCHANGED <<task, applied, lock, dedupe, again, producerVars, queueVars, workerVars, hazards>>

CreateTask(t) ==
  /\ submit[t] = "create"
  /\ submit' = [submit EXCEPT ![t] = "prepare"]
  /\ task' = [task EXCEPT ![t] = [status |-> "pending", progress |-> 0, attempt |-> 0]]
  /\ UNCHANGED <<project, applied, lock, dedupe, again, producerVars, queueVars, workerVars, hazards>>

CreateTaskFails(t) ==
  /\ submit[t] = "create"
  /\ Meet("dbError")
  /\ submit' = [submit EXCEPT ![t] = "done"]
  /\ SetProjectGenerationStatus(t, "failed")
  /\ UNCHANGED <<task, applied, lock, dedupe, again, producerVars, queueVars, workerVars>>

PrepareDocuments(t) ==
  /\ submit[t] = "prepare"
  /\ submit' = [submit EXCEPT ![t] = "enqueue"]
  /\ UNCHANGED <<taskVars, again, producerVars, queueVars, workerVars, hazards>>

\* The request gives up: the task and its project become failed.
GiveUp(t) ==
  /\ submit' = [submit EXCEPT ![t] = "done"]
  /\ SetFailed(t)
  /\ SetProjectGenerationStatus(t, "failed")
  /\ UNCHANGED <<applied, lock, dedupe, again, producerVars, queueVars, workerVars>>

\* A document is missing, foreign or cannot be bound to the project.
PrepareDocumentsFails(t) ==
  /\ submit[t] = "prepare"
  /\ GiveUp(t)
  /\ UNCHANGED hazards

EnqueueFails(t) ==
  /\ submit[t] = "enqueue"
  /\ Meet("redisError")
  /\ GiveUp(t)

EnqueueFaultTree(t) ==
  /\ submit[t] = "enqueue"
  /\ t \in FaultTreeTasks
  /\ submit' = [submit EXCEPT ![t] = "mark"]
  /\ producerStream' = producerStream \union {t}
  /\ UNCHANGED <<taskVars, again, producerDelayed, dispatcher, queueVars, workerVars, hazards>>

EnqueueKnowledgeGraph(t) ==
  /\ submit[t] = "enqueue"
  /\ t \notin FaultTreeTasks
  /\ submit' = [submit EXCEPT ![t] = "done"]
  /\ EnqueueTask(t)
  /\ UNCHANGED <<taskVars, again, producerVars, pending, workerDelayed, workerVars, hazards>>

\* After the XADD the request writes "pending, 1" over whatever the row holds.
MarkProducerQueued(t) ==
  /\ submit[t] = "mark"
  /\ submit' = [submit EXCEPT ![t] = "done"]
  /\ UpdateStatus(t, "pending", 1)
  /\ UNCHANGED <<project, applied, lock, dedupe, again, producerVars, queueVars, workerVars, hazards>>

\* The same request again: the unique idempotency key finds the task that exists.
Resubmit(t) ==
  /\ again[t] = "idle"
  /\ task[t].status # "none"
  /\ Meet("resubmit")
  /\ again' = [again EXCEPT ![t] = "conflict"]
  /\ SetProjectGenerationStatus(t, "pending_generating")
  /\ UNCHANGED <<task, applied, lock, dedupe, submit, producerVars, queueVars, workerVars>>

\* It reads the existing row, and later shows that status on the project.
ResubmitFindsExisting(t) ==
  /\ again[t] = "conflict"
  /\ again' = [again EXCEPT ![t] = ProjectGenerationStatus(task[t].status)]
  /\ UNCHANGED <<taskVars, submit, producerVars, queueVars, workerVars, hazards>>

ResubmitShows(t) ==
  /\ again[t] \in GenerationStatuses
  /\ SetProjectGenerationStatus(t, again[t])
  /\ again' = [again EXCEPT ![t] = "done"]
  /\ UNCHANGED <<task, applied, lock, dedupe, submit, producerVars, queueVars, workerVars, hazards>>

-----------------------------------------------------------------------------
(* The dispatcher loop *)

\* Whatever is due goes back to the producer stream.
ReleaseDelayedProducerTask(d, t) ==
  /\ dispatcher[d].pc = "idle"
  /\ t \in producerDelayed
  /\ producerDelayed' = producerDelayed \ {t}
  /\ \/ producerStream' = producerStream \union {t} /\ UNCHANGED hazards
     \/ Meet("requeueError") /\ UNCHANGED producerStream
  /\ UNCHANGED <<taskVars, requestVars, dispatcher, queueVars, workerVars>>

\* Mutant: XREAD in place of XREADGROUP.
Peeked(t) == UNCHANGED producerStream

Delivered(t) == producerStream' = producerStream \ {t}

\* XREADGROUP ">": a producer entry is delivered once and never looked at again.
ReadProducerMessage(d, t) ==
  /\ dispatcher[d].pc = "idle"
  /\ t \in producerStream
  /\ Delivered(t)
  /\ dispatcher' = [dispatcher EXCEPT ![d] = [pc |-> "lock", task |-> t]]
  /\ UpdateStatus(t, "pending", 4)
  /\ UNCHANGED <<project, applied, lock, dedupe, requestVars, producerDelayed, queueVars, workerVars, hazards>>

Goto(d, pc) == dispatcher' = [dispatcher EXCEPT ![d].pc = pc]

\* SET NX of the project lock.
TryAcquireProjectLock(d) ==
  LET t == dispatcher[d].task IN
  /\ dispatcher[d].pc = "lock"
  /\ \/ /\ LockFree(t)
        /\ lock' = [lock EXCEPT ![ProjectOf[t]] = t]
        /\ Goto(d, "enqueue")
        /\ UNCHANGED <<task, hazards>>
     \/ /\ ~LockFree(t)
        /\ UpdateStatus(t, "pending", 3)
        /\ Goto(d, "requeue")
        /\ UNCHANGED <<lock, hazards>>
     \/ /\ Meet("redisError")
        /\ Goto(d, "requeue")
        /\ UNCHANGED <<task, lock>>
     \/ /\ LockFree(t)
        /\ Meet("commandUnknown")
        /\ lock' = [lock EXCEPT ![ProjectOf[t]] = t]
        /\ Goto(d, "requeue")
        /\ UNCHANGED task
  /\ UNCHANGED <<project, applied, dedupe, requestVars, producerStream, producerDelayed, queueVars, workerVars>>

DispatcherEnqueue(d) ==
  LET t == dispatcher[d].task IN
  /\ dispatcher[d].pc = "enqueue"
  /\ \/ EnqueueTask(t) /\ Goto(d, "mark") /\ UNCHANGED hazards
     \/ Meet("redisError") /\ Goto(d, "unlock") /\ UNCHANGED workerStream
     \/ Meet("commandUnknown") /\ EnqueueTask(t) /\ Goto(d, "unlock")
  /\ UNCHANGED <<taskVars, requestVars, producerStream, producerDelayed, pending, workerDelayed, workerVars>>

\* releaseProjectLock: a GET and, if the lock is ours, a DEL; an error ends it silently.
DispatcherUnlock(d) ==
  LET t == dispatcher[d].task IN
  /\ \/ /\ dispatcher[d].pc = "unlock"
        /\ Goto(d, IF LockOurs(t) THEN "delete" ELSE "retry")
        /\ UNCHANGED <<lock, hazards>>
     \/ /\ dispatcher[d].pc = "delete"
        /\ lock' = [lock EXCEPT ![ProjectOf[t]] = NoTask]
        /\ Goto(d, "retry")
        /\ UNCHANGED hazards
     \/ /\ dispatcher[d].pc \in {"unlock", "delete"}
        /\ Meet("redisError")
        /\ Goto(d, "retry")
        /\ UNCHANGED lock
  /\ UNCHANGED <<task, project, applied, dedupe, requestVars, producerStream, producerDelayed, queueVars, workerVars>>

MarkDispatchRetrying(d) ==
  /\ dispatcher[d].pc = "retry"
  /\ UpdateStatus(dispatcher[d].task, "pending", 3)
  /\ Goto(d, "requeue")
  /\ UNCHANGED <<project, applied, lock, dedupe, requestVars, producerStream, producerDelayed, queueVars, workerVars, hazards>>

\* ZADD, then XACK whatever came of it.
RequeueDelayed(d) ==
  /\ dispatcher[d].pc = "requeue"
  /\ \/ /\ producerDelayed' = producerDelayed \union {dispatcher[d].task}
        /\ UNCHANGED hazards
     \/ Meet("requeueError") /\ UNCHANGED producerDelayed
  /\ dispatcher' = [dispatcher EXCEPT ![d] = IdleDispatcher]
  /\ UNCHANGED <<taskVars, requestVars, producerStream, queueVars, workerVars>>

\* After the XADD the dispatcher writes "pending, 8" over whatever the row holds.
MarkEnqueued(d) ==
  /\ dispatcher[d].pc = "mark"
  /\ UpdateStatus(dispatcher[d].task, "pending", 8)
  /\ dispatcher' = [dispatcher EXCEPT ![d] = IdleDispatcher]
  /\ UNCHANGED <<project, applied, lock, dedupe, requestVars, producerStream, producerDelayed, queueVars, workerVars, hazards>>

-----------------------------------------------------------------------------
(* worker.py: reading, retrying and burying messages *)

\* A message is first tried as attempt 1.
AttemptOf(e) == IF e.attempt = 0 THEN 1 ELSE e.attempt

\* What the worker reports when it is in state st.
ReportedStatus(st) ==
  CASE st \in {"accepted", "parsing", "ready"} -> "processing"
    [] st = "completed" -> "completed"
    [] st = "retrying" -> "retrying"
    [] OTHER -> "dead"

ReportedProgress(wk) ==
  CASE wk.st = "accepted" -> 5
    [] wk.st = "parsing" -> 10 + (25 * wk.doc) \div Docs
    [] wk.st = "ready" -> 35
    [] wk.st = "completed" -> 100
    [] OTHER -> 0

\* Mutant: the attempt is counted before it is reported.
CountsNextAttempt(wk) == AttemptOf(wk.msg) + 1

ReportedAttempt(wk) ==
  IF wk.st = "retrying" THEN AttemptOf(wk.msg) + 1 ELSE AttemptOf(wk.msg)

\* The event key: everything in it follows from the attempt and the worker's state.
EventKey(wk) == <<wk.msg.task, ReportedAttempt(wk), wk.st, wk.doc>>

\* The worker moves on to state st and posts the callback of that state.
Post(w, st, doc) ==
  /\ worker' = [worker EXCEPT ![w].st = st, ![w].doc = doc]
  /\ call' = [call EXCEPT ![w] = [pc |-> "enter", out |-> "none"]]

Stop(w) ==
  /\ worker' = [worker EXCEPT ![w] = IdleWorker]
  /\ call' = [call EXCEPT ![w] = NoCall]

Running(w) == worker[w].up /\ worker[w].st # "idle"
Idle(w) == worker[w].up /\ worker[w].st = "idle"
Answered(w) == call[w].pc \in {"ok", "err"}

\* Mutant: the group reads with NOACK.
DeliversNoAck(w, e) == UNCHANGED pending

\* XREADGROUP leaves the entry in the group's pending list, under the consumer's name.
Deliver(w, e) == pending' = pending \union {[entry |-> e, owner |-> w]}

\* The message e is handed to worker w, which accepts it.
Accept(w, e) ==
  /\ worker' = [worker EXCEPT ![w] = [st |-> "accepted", doc |-> 0, msg |-> e, up |-> TRUE]]
  /\ call' = [call EXCEPT ![w] = [pc |-> "enter", out |-> "none"]]

ReadMessage(w, e) ==
  /\ Idle(w)
  /\ e \in workerStream
  /\ workerStream' = workerStream \ {e}
  /\ Deliver(w, e)
  /\ Accept(w, e)
  /\ UNCHANGED <<taskVars, requestVars, producerVars, workerDelayed, hazards>>

Serving(w) == call[w].pc \notin {"none", "ok", "err"}

\* A worker that is alive, or gone while the server still handles its callback.
Engaged(w) == worker[w].up \/ Serving(w)

\* XPENDING with the idle threshold, XCLAIM.  The owner may be gone, or only slow.
ClaimStalePending(w, r) ==
  /\ Idle(w)
  /\ r \in pending
  /\ IF worker[r.owner].msg = r.entry /\ Engaged(r.owner) THEN Meet("liveReclaim") ELSE UNCHANGED hazards
  /\ pending' = (pending \ {r}) \union {[entry |-> r.entry, owner |-> w]}
  /\ Accept(w, r.entry)
  /\ UNCHANGED <<taskVars, requestVars, producerVars, workerStream, workerDelayed>>

\* Some worker has yet to finish the bookkeeping of a retry of t.
RetryUnfinished(t) ==
  \E w \in Workers : worker[w].st \in {"rescheduled", "retrying"} /\ worker[w].msg.task = t

\* ZREM, which only one worker wins, then XADD.
ReleaseDelayedTask(w, e) ==
  /\ Idle(w)
  /\ e \in workerDelayed
  /\ workerDelayed' = workerDelayed \ {e}
  /\ \/ /\ workerStream' = workerStream \union {e}
        /\ IF RetryUnfinished(e.task) THEN Meet("slowRetrying") ELSE UNCHANGED hazards
     \/ Meet("crashMidRetry") /\ UNCHANGED workerStream
  /\ UNCHANGED <<taskVars, requestVars, producerVars, pending, workerVars>>

Ack(e) == pending' = {r \in pending : r.entry # e}

\* The callback was accepted and the next piece of work succeeds.
Advance(w) ==
  LET wk == worker[w] IN
  /\ Running(w)
  /\ call[w].pc = "ok"
  /\ \/ wk.st = "accepted" /\ Post(w, "parsing", 1) /\ UNCHANGED pending
     \/ wk.st = "accepted" /\ wk.msg.resume /\ Post(w, "ready", 0) /\ UNCHANGED pending
     \/ wk.st = "parsing" /\ wk.doc < Docs /\ Post(w, "parsing", wk.doc + 1) /\ UNCHANGED pending
     \/ wk.st = "parsing" /\ wk.doc = Docs /\ Post(w, "ready", wk.doc) /\ UNCHANGED pending
     \/ wk.st = "completed" /\ Stop(w) /\ Ack(wk.msg)
  /\ UNCHANGED <<taskVars, requestVars, producerVars, workerStream, workerDelayed, hazards>>

\* The LLM has answered: the result goes out with the "completed" callback.
PostCompleted(w) ==
  /\ Running(w)
  /\ worker[w].st = "ready"
  /\ call[w].pc = "ok"
  /\ Outpaces(worker[w].msg.task)
  /\ Post(w, "completed", 0)
  /\ UNCHANGED <<taskVars, requestVars, producerVars, queueVars>>

\* Extraction, OCR or the LLM fails, or the callback is refused: retry or bury.
\* A message that may be tried again is put in the delayed zset before the ack.
FailAttempt(w) ==
  LET wk == worker[w]
      next == AttemptOf(wk.msg) + 1
      resume == wk.msg.resume \/ wk.st \in {"ready", "completed"} IN
  /\ Running(w)
  /\ \/ wk.st \in {"accepted", "parsing", "ready"} /\ Answered(w)
     \/ wk.st = "completed" /\ call[w].pc = "err"
  /\ \/ /\ next <= MaxRetries
        /\ \E e \in FreshEntries(wk.msg.task, next, resume) :
             workerDelayed' = workerDelayed \union {e}
        /\ worker' = [worker EXCEPT ![w].st = "rescheduled"]
        /\ UNCHANGED pending
     \/ /\ next > MaxRetries
        /\ Ack(wk.msg)
        /\ worker' = [worker EXCEPT ![w].st = "acked"]
        /\ UNCHANGED workerDelayed
  /\ call' = [call EXCEPT ![w] = NoCall]
  /\ UNCHANGED <<taskVars, requestVars, producerVars, workerStream, hazards>>

AckRescheduled(w) ==
  /\ Running(w)
  /\ worker[w].st = "rescheduled"
  /\ Ack(worker[w].msg)
  /\ Post(w, "retrying", 0)
  /\ UNCHANGED <<taskVars, requestVars, producerVars, workerStream, workerDelayed, hazards>>

\* XADD to the dead-letter stream, which nothing reads.
MoveToDeadLetter(w) ==
  /\ Running(w)
  /\ worker[w].st = "acked"
  /\ Outpaces(worker[w].msg.task)
  /\ Post(w, "dead", 0)
  /\ UNCHANGED <<taskVars, requestVars, producerVars, queueVars>>

\* The answers to "retrying" and "dead" are not looked at.
FinishRetry(w) ==
  /\ Running(w)
  /\ worker[w].st \in {"retrying", "dead"}
  /\ Answered(w)
  /\ Stop(w)
  /\ UNCHANGED <<taskVars, requestVars, producerVars, queueVars, hazards>>

\* The callback was handled, but the worker sees a timeout or a broken connection.
LoseReply(w) ==
  /\ Running(w)
  /\ call[w].pc = "ok"
  /\ Meet("replyLost")
  /\ call' = [call EXCEPT ![w].pc = "err"]
  /\ UNCHANGED <<taskVars, requestVars, producerVars, queueVars, worker>>

WorkerCrash(w) ==
  /\ Running(w)
  /\ \/ worker[w].st \in {"accepted", "parsing", "ready", "completed"} /\ Meet("workerCrash")
     \/ worker[w].st \in {"rescheduled", "acked"} /\ Meet("crashMidRetry")
  /\ worker' = [worker EXCEPT ![w].up = FALSE]
  /\ UNCHANGED <<taskVars, requestVars, producerVars, queueVars, call>>

\* The process is back; a callback it had in flight has run its course by then.
WorkerRestart(w) ==
  /\ ~worker[w].up
  /\ ~Serving(w)
  /\ Stop(w)
  /\ UNCHANGED <<taskVars, requestVars, producerVars, queueVars, hazards>>

-----------------------------------------------------------------------------
(* HandleTaskCallback *)

\* The handler of w's callback goes on to step pc.
Serve(w, pc) == call' = [call EXCEPT ![w].pc = pc]
ServeOutcome(w, pc, out) == call' = [call EXCEPT ![w] = [pc |-> pc, out |-> out]]

\* Mutant: only a completed task is final.
OnlyCompletedIsFinal(cur, status) == cur.status = "completed"

\* A finished task ignores callbacks; only a failed one may still be reported dead.
IgnoredAsFinal(cur, status) ==
  IsTerminal(cur.status) /\ ~(cur.status = "failed" /\ status = "dead")

\* A report of an earlier attempt, or of less progress in the same one.
OutOfDate(cur, wk) ==
  \/ cur.attempt > 0 /\ ReportedAttempt(wk) < cur.attempt
  \/ /\ ~IsTerminal(ReportedStatus(wk.st))
     /\ ReportedProgress(wk) < cur.progress
     /\ ReportedAttempt(wk) <= cur.attempt

\* The handler's next step for a report that it heeds.
StepFor(status) ==
  CASE status \in {"processing", "retrying"} -> "touch"
    [] status = "completed" -> "persist"
    [] OTHER -> "write"

\* Mutant: the handler does not look at the row.
VerdictOnReport(w) == StepFor(ReportedStatus(worker[w].st))

\* What the handler decides from the row it reads: the next step, or an answer.
Verdict(w) ==
  LET cur == task[worker[w].msg.task]
      status == ReportedStatus(worker[w].st) IN
  IF cur.status = "completed" /\ status = "completed" THEN "release"
  ELSE IF IgnoredAsFinal(cur, status) \/ OutOfDate(cur, worker[w]) THEN "ok"
  ELSE StepFor(status)

\* SETNX of the event key, then the row is read and judged.  When SETNX fails the
\* callback is handled all the same.
ReceiveCallback(w) ==
  LET key == EventKey(worker[w]) IN
  /\ call[w].pc = "enter"
  /\ \/ key \in dedupe /\ Serve(w, "ok") /\ UNCHANGED <<dedupe, hazards>>
     \/ key \notin dedupe /\ Serve(w, Verdict(w)) /\ dedupe' = dedupe \union {key} /\ UNCHANGED hazards
     \/ Meet("redisError") /\ Serve(w, Verdict(w)) /\ UNCHANGED dedupe
  /\ UNCHANGED <<task, project, applied, lock, requestVars, producerVars, queueVars, worker>>

\* The lock of the task's project is taken when it is free, extended when it is ours.
TouchProjectLock(w) ==
  LET t == worker[w].msg.task IN
  /\ call[w].pc = "touch"
  /\ \/ /\ lock' = [lock EXCEPT ![ProjectOf[t]] = IF LockFree(t) THEN t ELSE @]
        /\ UNCHANGED hazards
     \/ Meet("redisError") /\ UNCHANGED lock
  /\ Serve(w, "write")
  /\ UNCHANGED <<task, project, applied, dedupe, requestVars, producerVars, queueVars, worker>>

\* The reported status reaches the row, without another look at it.
WriteReported(w) ==
  LET t == worker[w].msg.task
      status == ReportedStatus(worker[w].st) IN
  /\ call[w].pc = "write"
  /\ \/ /\ UpdateStatusExt(t, status, ReportedProgress(worker[w]), ReportedAttempt(worker[w]))
        /\ IF status = "dead" THEN ServeOutcome(w, "release", "failed") ELSE Serve(w, "project")
        /\ UNCHANGED hazards
     \/ Meet("dbError") /\ Serve(w, "err") /\ UNCHANGED task
  /\ UNCHANGED <<project, applied, lock, dedupe, requestVars, producerVars, queueVars, worker>>

ShowGenerating(w) ==
  /\ call[w].pc = "project"
  /\ SetProjectGenerationStatus(worker[w].msg.task, "generating")
  /\ Serve(w, "ok")
  /\ UNCHANGED <<task, applied, lock, dedupe, requestVars, producerVars, queueVars, worker, hazards>>

\* Mutant: the error of a save is logged and dropped.
IgnoresSaveError(w) ==
  /\ call[w].pc = "persist"
  /\ \/ applied' = [applied EXCEPT ![worker[w].msg.task] = @ + 1]
     \/ UNCHANGED applied
  /\ Serve(w, "complete")
  /\ UNCHANGED <<task, project, lock, dedupe, requestVars, producerVars, queueVars, worker, hazards>>

\* The result is saved into the project's graph, or the task fails for good.
PersistGeneratedGraph(w) ==
  LET t == worker[w].msg.task IN
  /\ call[w].pc = "persist"
  /\ \/ /\ applied' = [applied EXCEPT ![t] = @ + 1]
        /\ Serve(w, "complete")
        /\ UNCHANGED task
     \/ /\ SetFailed(t)
        /\ ServeOutcome(w, "release", "rejected")
        /\ UNCHANGED applied
  /\ UNCHANGED <<project, lock, dedupe, requestVars, producerVars, queueVars, worker, hazards>>

\* When the row cannot be updated the lock is released all the same.
SetCompleted(w) ==
  LET t == worker[w].msg.task IN
  /\ call[w].pc = "complete"
  /\ \/ /\ task' = [task EXCEPT ![t].status = "completed", ![t].progress = 100]
        /\ ServeOutcome(w, "release", "completed")
        /\ UNCHANGED hazards
     \/ Meet("dbError") /\ ServeOutcome(w, "release", "unsaved") /\ UNCHANGED task
  /\ UNCHANGED <<project, applied, lock, dedupe, requestVars, producerVars, queueVars, worker>>

\* The GET, and the DEL when the lock is ours, of releaseProjectLock.
ReleaseProjectLock(w) ==
  LET t == worker[w].msg.task IN
  /\ \/ /\ call[w].pc = "release"
        /\ Serve(w, IF LockOurs(t) THEN "delete" ELSE "clear")
        /\ UNCHANGED <<lock, hazards>>
     \/ /\ call[w].pc = "delete"
        /\ lock' = [lock EXCEPT ![ProjectOf[t]] = NoTask]
        /\ Serve(w, "clear")
        /\ UNCHANGED hazards
     \/ /\ call[w].pc \in {"release", "delete"}
        /\ Meet("redisError")
        /\ Serve(w, "clear")
        /\ UNCHANGED lock
  /\ UNCHANGED <<task, project, applied, dedupe, requestVars, producerVars, queueVars, worker>>

\* Mutant: the project is not told of a result that could not be saved.
ShownUnlessRejected(out, shown) ==
  CASE out = "completed" -> "completed"
    [] out = "failed" -> "failed"
    [] OTHER -> shown

\* What the project shows after a final callback with this outcome.
ShownAfter(out, shown) ==
  CASE out = "completed" -> "completed"
    [] out \in {"failed", "rejected"} -> "failed"
    [] OTHER -> shown

\* XDEL of the entries the server recorded for the task, then the project's status
\* and the answer.  The entries workers added for a retry were never recorded.
ClearTaskStreamEntries(w) ==
  LET t == worker[w].msg.task
      Recorded(e) == e.task = t /\ e.attempt = 0
      out == call[w].out IN
  /\ call[w].pc = "clear"
  /\ workerStream' = {e \in workerStream : ~Recorded(e)}
  /\ pending' = {r \in pending : ~Recorded(r.entry)}
  /\ producerStream' = producerStream \ {t}
  /\ project' = [project EXCEPT ![ProjectOf[t]] = ShownAfter(out, @)]
  /\ Serve(w, IF out \in {"rejected", "unsaved"} THEN "err" ELSE "ok")
  /\ UNCHANGED <<task, applied, lock, dedupe, requestVars, producerDelayed, dispatcher, workerDelayed,
                 worker, hazards>>

-----------------------------------------------------------------------------
(* The environment *)

LockExpires(p) ==
  /\ lock[p] # NoTask
  /\ Meet("lockExpiry")
  /\ lock' = [lock EXCEPT ![p] = NoTask]
  /\ UNCHANGED <<task, project, applied, dedupe, requestVars, producerVars, queueVars, workerVars>>

\* What the server was doing is gone; PostgreSQL and Redis keep what they have.
ServerCrash ==
  /\ Meet("serverCrash")
  /\ dispatcher' = [d \in Dispatchers |-> IdleDispatcher]
  /\ submit' = [t \in Tasks |-> IF submit[t] = "new" THEN "new" ELSE "done"]
  /\ again' = [t \in Tasks |-> IF again[t] = "idle" THEN "idle" ELSE "done"]
  /\ call' = [w \in Workers |-> IF Serving(w) THEN [NoCall EXCEPT !.pc = "err"] ELSE call[w]]
  /\ UNCHANGED <<taskVars, producerStream, producerDelayed, queueVars, worker>>

-----------------------------------------------------------------------------
RequestNext(t) ==
  \/ CreateTask(t) \/ CreateTaskFails(t)
  \/ PrepareDocuments(t) \/ PrepareDocumentsFails(t)
  \/ EnqueueFaultTree(t) \/ EnqueueKnowledgeGraph(t) \/ EnqueueFails(t)
  \/ MarkProducerQueued(t)
  \/ ResubmitFindsExisting(t) \/ ResubmitShows(t)

DispatchNext(d) ==
  \/ TryAcquireProjectLock(d) \/ DispatcherEnqueue(d) \/ DispatcherUnlock(d)
  \/ MarkDispatchRetrying(d) \/ RequeueDelayed(d) \/ MarkEnqueued(d)
  \/ \E t \in Tasks : ReleaseDelayedProducerTask(d, t) \/ ReadProducerMessage(d, t)

WorkNext(w) ==
  \/ \E e \in workerStream : ReadMessage(w, e)
  \/ \E r \in pending : ClaimStalePending(w, r)
  \/ \E e \in workerDelayed : ReleaseDelayedTask(w, e)
  \/ Advance(w) \/ PostCompleted(w) \/ FailAttempt(w) \/ AckRescheduled(w)
  \/ MoveToDeadLetter(w) \/ FinishRetry(w) \/ WorkerRestart(w)

CallbackNext(w) ==
  \/ ReceiveCallback(w) \/ TouchProjectLock(w) \/ WriteReported(w) \/ ShowGenerating(w)
  \/ PersistGeneratedGraph(w) \/ SetCompleted(w)
  \/ ReleaseProjectLock(w) \/ ClearTaskStreamEntries(w)

\* What users and failures do; nothing makes them happen.
EnvironmentNext ==
  \/ \E t \in Tasks : SubmitStart(t) \/ Resubmit(t)
  \/ \E w \in Workers : LoseReply(w) \/ WorkerCrash(w)
  \/ \E p \in Projects : LockExpires(p)
  \/ ServerCrash

Next ==
  \/ \E t \in Tasks : RequestNext(t)
  \/ \E d \in Dispatchers : DispatchNext(d)
  \/ \E w \in Workers : WorkNext(w) \/ CallbackNext(w)
  \/ EnvironmentNext

Spec == Init /\ [][Next]_vars

\* Goroutines, handlers and workers go on as long as they can, and a worker that died
\* is started again (docker-compose restarts it).  Nobody need submit anything.
Fairness ==
  /\ \A t \in Tasks : WF_vars(RequestNext(t))
  /\ \A d \in Dispatchers : WF_vars(DispatchNext(d))
  /\ \A w \in Workers : WF_vars(WorkNext(w)) /\ WF_vars(CallbackNext(w))

FairSpec == Spec /\ Fairness

-----------------------------------------------------------------------------
(* Properties *)

DispatcherSteps ==
  {"idle", "lock", "enqueue", "mark", "unlock", "delete", "retry", "requeue"}
SubmitSteps == {"new", "create", "prepare", "enqueue", "mark", "done"}
ResubmitSteps == {"idle", "conflict", "done"} \union GenerationStatuses
WorkerStates ==
  {"idle", "accepted", "parsing", "ready", "completed", "rescheduled", "acked", "retrying", "dead"}
CallSteps ==
  {"none", "enter", "touch", "write", "project", "persist", "complete", "release", "delete",
   "clear", "ok", "err"}
CallOutcomes == {"none", "completed", "failed", "rejected", "unsaved"}

RowsOK == task \in [Tasks -> [status: TaskStatuses, progress: 0..100, attempt: 0..MaxRetries]]

ProjectsOK ==
  /\ project \in [Projects -> GenerationStatuses \union {"none"}]
  /\ applied \in [Tasks -> Nat]
  /\ lock \in [Projects -> Tasks \union {NoTask}]

EventsOK == dedupe \subseteq Tasks \X (1..MaxRetries) \X WorkerStates \X (0..Docs)

RequestsOK ==
  /\ submit \in [Tasks -> SubmitSteps]
  /\ again \in [Tasks -> ResubmitSteps]

ProducerOK ==
  /\ producerStream \subseteq Tasks
  /\ producerDelayed \subseteq Tasks
  /\ dispatcher \in [Dispatchers -> [pc: DispatcherSteps, task: Tasks \union {NoTask}]]
  /\ \A d \in Dispatchers : dispatcher[d].pc # "idle" => dispatcher[d].task \in Tasks

QueuesOK ==
  /\ workerStream \subseteq Entries
  /\ pending \subseteq [entry: Entries, owner: Workers]
  /\ workerDelayed \subseteq Entries

WorkersOK ==
  /\ worker \in [Workers -> [st: WorkerStates, doc: 0..Docs, msg: Entries \union {NoEntry}, up: BOOLEAN]]
  /\ call \in [Workers -> [pc: CallSteps, out: CallOutcomes]]
  /\ \A w \in Workers : worker[w].st # "idle" \/ call[w].pc # "none" => worker[w].msg \in Entries
  /\ \A w \in Workers :
       worker[w].st \in {"rescheduled", "retrying"} => AttemptOf(worker[w].msg) < MaxRetries

\* Rows satisfy the CHECKs of the schema (status, progress of 0..100), a lock is held by a
\* task, every actor is at a known step, and one that is not idle has a task or an entry.
TypeOK ==
  /\ RowsOK
  /\ ProjectsOK
  /\ EventsOK
  /\ RequestsOK
  /\ ProducerOK
  /\ QueuesOK
  /\ WorkersOK
  /\ hazards \in 0..MaxHazards

\* There is work on t in the worker queues, in whatever place, and its row is not final.
HasEntry(t) ==
  \/ \E e \in workerStream \union workerDelayed : e.task = t
  \/ \E r \in pending : r.entry.task = t

Underway(t) == ~IsTerminal(task[t].status) /\ HasEntry(t)

\* A fault-tree task that workers can see and that is not over owns its project's lock,
\* from the dispatch through every retry: two of one project are never generated at once.
LockCoversWork ==
  \A t \in FaultTreeTasks : Underway(t) => lock[ProjectOf[t]] = t

Finishing(t) ==
  \E w \in Workers : Serving(w) /\ worker[w].msg.task = t

\* A lock whose task is over is about to be released: no project is left blocked.
NoOrphanLock ==
  \A p \in Projects : lock[p] # NoTask =>
    ~IsTerminal(task[lock[p]].status) \/ Finishing(lock[p])

\* A completed task's result is in its project's graph.
CompletedMeansApplied ==
  \A t \in Tasks : task[t].status = "completed" => applied[t] > 0

\* A task's result is saved into the graph once, however often it is reported.
AppliedAtMostOnce == \A t \in Tasks : applied[t] <= 1

\* Redelivery, retries and late callbacks never bring a finished row back to life; the one
\* legal change is from failed to dead.
TerminalIsFinal ==
  [][\A t \in Tasks : IsTerminal(task[t].status) =>
       \/ task'[t].status = task[t].status
       \/ task[t].status = "failed" /\ task'[t].status = "dead"]_vars

\* The task is still with the request that creates it.
NotYetQueued(t) == submit[t] \in {"new", "create", "prepare", "enqueue"}

\* The producer queue holds a task at most once: with its request, in the stream, in the
\* delayed set or in the hands of one dispatcher.  It is never dispatched twice in parallel.
DispatchedOnce ==
  \A t \in Tasks :
    /\ \A d, e \in Dispatchers : dispatcher[d].task = t /\ dispatcher[e].task = t => d = e
    /\ ~(t \in producerStream /\ t \in producerDelayed)
    /\ t \in producerStream \union producerDelayed => \A d \in Dispatchers : dispatcher[d].task # t
    /\ NotYetQueued(t) => /\ t \notin producerStream \union producerDelayed
                         /\ \A d \in Dispatchers : dispatcher[d].task # t

Settled(t) ==
  /\ submit[t] = "done"
  /\ again[t] \in {"idle", "done"}
  /\ IsTerminal(task[t].status)
  /\ ~Finishing(t)

\* When every task of a project is over, the project shows how one of them ended.
SettledProject ==
  \A p \in Projects :
    LET ts == {t \in Tasks : ProjectOf[t] = p /\ submit[t] # "new"} IN
    ts # {} /\ (\A t \in ts : Settled(t)) =>
      \E t \in ts : project[p] = ProjectGenerationStatus(task[t].status)

\* A task that was created ends: a lost message, a lock nobody releases or a worker that
\* died with it would leave it pending or processing for ever.
EveryTaskEnds ==
  \A t \in Tasks : task[t].status = "pending" ~> IsTerminal(task[t].status)

\* A project that waits for a generation stops waiting.
EveryProjectSettles ==
  \A p \in Projects :
    project[p] = "pending_generating" ~> project[p] \in {"completed", "failed"}
=============================================================================
