------------------------ MODULE AITaskPipelineProofs ------------------------
(***************************************************************************)
(* Theorems about AITaskPipeline, for any tasks, projects, workers,        *)
(* dispatchers, retry limit and hazards.                                   *)
(***************************************************************************)
EXTENDS AITaskPipeline, TLAPS

-----------------------------------------------------------------------------
(* What workers report fits the columns of the row. *)

LEMMA ShareBound ==
  ASSUME NEW n \in Nat \ {0}, NEW k \in 0..n
  PROVE  (25 * k) \div n \in 0..25
  OBVIOUS

LEMMA ReportInRange ==
  ASSUME WorkersOK, NEW w \in Workers, worker[w].msg \in Entries
  PROVE  /\ ReportedStatus(worker[w].st) \in {"processing", "completed", "retrying", "dead"}
         /\ ReportedProgress(worker[w]) \in 0..100
         /\ ReportedAttempt(worker[w]) \in 1..MaxRetries
  <1>1. worker[w].doc \in 0..Docs
    BY DEF WorkersOK
  <1>2. (25 * worker[w].doc) \div Docs \in 0..25
    BY <1>1, ShareBound, PipelineAssumption
  <1>3. ReportedProgress(worker[w]) \in 0..100
    BY <1>2 DEF ReportedProgress
  <1>4. ReportedAttempt(worker[w]) \in 1..MaxRetries
    <2>1. worker[w].msg.attempt \in 0..MaxRetries
      BY DEF Entries
    <2>2. AttemptOf(worker[w].msg) \in 1..MaxRetries
      BY <2>1, PipelineAssumption DEF AttemptOf
    <2>3. worker[w].st = "retrying" => AttemptOf(worker[w].msg) < MaxRetries
      BY DEF WorkersOK
    <2> QED BY <2>2, <2>3, PipelineAssumption DEF ReportedAttempt
  <1>5. ReportedStatus(worker[w].st) \in {"processing", "completed", "retrying", "dead"}
    BY DEF ReportedStatus
  <1> QED BY <1>3, <1>4, <1>5

LEMMA EventKeyInRange ==
  ASSUME WorkersOK, NEW w \in Workers, worker[w].msg \in Entries
  PROVE  EventKey(worker[w]) \in Tasks \X (1..MaxRetries) \X WorkerStates \X (0..Docs)
  <1>1. worker[w].msg.task \in Tasks
    BY DEF Entries
  <1>2. worker[w].st \in WorkerStates /\ worker[w].doc \in 0..Docs
    BY DEF WorkersOK
  <1> QED BY <1>1, <1>2, ReportInRange DEF EventKey

-----------------------------------------------------------------------------
(* What the helpers of the actions preserve. *)

LEMMA MeetInRange ==
  ASSUME hazards \in 0..MaxHazards, NEW h, Meet(h)
  PROVE  hazards' \in 0..MaxHazards
  BY PipelineAssumption DEF Meet

LEMMA UpdateStatusRow ==
  ASSUME RowsOK, NEW t \in Tasks, NEW status \in TaskStatuses, NEW progress \in 0..100,
         UpdateStatus(t, status, progress)
  PROVE  RowsOK'
  <1>1. task[t] \in [status : TaskStatuses, progress : 0..100, attempt : 0..MaxRetries]
    BY DEF RowsOK
  <1>2. task'[t] = [task[t] EXCEPT !.status = status, !.progress = progress]
    BY DEF RowsOK, UpdateStatus
  <1>3. task'[t] \in [status : TaskStatuses, progress : 0..100, attempt : 0..MaxRetries]
    BY <1>1, <1>2
  <1>4. /\ task' = [u \in Tasks |-> task'[u]]
        /\ \A u \in Tasks \ {t} : task'[u] = task[u]
    BY DEF RowsOK, UpdateStatus
  <1> QED BY <1>3, <1>4 DEF RowsOK

LEMMA UpdateStatusExtRow ==
  ASSUME RowsOK, NEW t \in Tasks, NEW status \in TaskStatuses, NEW progress \in 0..100,
         NEW attempt \in 0..MaxRetries, UpdateStatusExt(t, status, progress, attempt)
  PROVE  RowsOK'
  <1>1. [status |-> status, progress |-> progress, attempt |-> attempt] \in
          [status : TaskStatuses, progress : 0..100, attempt : 0..MaxRetries]
    OBVIOUS
  <1> QED BY <1>1 DEF RowsOK, UpdateStatusExt

LEMMA SetFailedRow ==
  ASSUME RowsOK, NEW t \in Tasks, SetFailed(t)
  PROVE  RowsOK'
  BY DEF RowsOK, SetFailed, TaskStatuses

LEMMA ProjectShows ==
  ASSUME ProjectsOK, NEW t \in Tasks, NEW status \in GenerationStatuses,
         SetProjectGenerationStatus(t, status), UNCHANGED <<applied, lock>>
  PROVE  ProjectsOK'
  BY PipelineAssumption DEF ProjectsOK, SetProjectGenerationStatus

LEMMA GotoStep ==
  ASSUME ProducerOK, NEW d \in Dispatchers, NEW pc \in DispatcherSteps,
         dispatcher[d].pc # "idle", Goto(d, pc), UNCHANGED <<producerStream, producerDelayed>>
  PROVE  ProducerOK'
  BY DEF ProducerOK, Goto

LEMMA PostStep ==
  ASSUME WorkersOK, NEW w \in Workers, worker[w].msg \in Entries,
         NEW st \in WorkerStates, NEW doc \in 0..Docs, Post(w, st, doc),
         st \in {"rescheduled", "retrying"} => AttemptOf(worker[w].msg) < MaxRetries
  PROVE  WorkersOK'
  <1>1. call' \in [Workers -> [pc: CallSteps, out: CallOutcomes]]
    BY DEF WorkersOK, Post, CallSteps, CallOutcomes
  <1>2. worker' \in [Workers -> [st: WorkerStates, doc: 0..Docs, msg: Entries \union {NoEntry}, up: BOOLEAN]]
    BY DEF WorkersOK, Post
  <1>3. \A v \in Workers : /\ worker'[v].msg = worker[v].msg
                           /\ v # w => worker'[v] = worker[v] /\ call'[v] = call[v]
    BY DEF WorkersOK, Post
  <1>4. worker'[w].st = st
    BY DEF WorkersOK, Post
  <1> QED BY <1>1, <1>2, <1>3, <1>4 DEF WorkersOK, AttemptOf

LEMMA StopStep ==
  ASSUME WorkersOK, NEW w \in Workers, Stop(w)
  PROVE  WorkersOK'
  <1>1. call' \in [Workers -> [pc: CallSteps, out: CallOutcomes]]
    BY DEF WorkersOK, Stop, NoCall, CallSteps, CallOutcomes
  <1>2. worker' \in [Workers -> [st: WorkerStates, doc: 0..Docs, msg: Entries \union {NoEntry}, up: BOOLEAN]]
    BY PipelineAssumption DEF WorkersOK, Stop, IdleWorker, WorkerStates
  <1>3. \A v \in Workers : v # w => worker'[v] = worker[v] /\ call'[v] = call[v]
    BY DEF WorkersOK, Stop
  <1>4. worker'[w].st = "idle" /\ call'[w].pc = "none"
    BY DEF WorkersOK, Stop, IdleWorker, NoCall
  <1> QED BY <1>1, <1>2, <1>3, <1>4 DEF WorkersOK, AttemptOf

LEMMA AcceptStep ==
  ASSUME WorkersOK, NEW w \in Workers, NEW e \in Entries, Accept(w, e)
  PROVE  WorkersOK'
  <1>1. call' \in [Workers -> [pc: CallSteps, out: CallOutcomes]]
    BY DEF WorkersOK, Accept, CallSteps, CallOutcomes
  <1>2. worker' \in [Workers -> [st: WorkerStates, doc: 0..Docs, msg: Entries \union {NoEntry}, up: BOOLEAN]]
    BY PipelineAssumption DEF WorkersOK, Accept, WorkerStates
  <1>3. \A v \in Workers : v # w => worker'[v] = worker[v] /\ call'[v] = call[v]
    BY DEF WorkersOK, Accept
  <1>4. worker'[w].st = "accepted" /\ worker'[w].msg = e
    BY DEF WorkersOK, Accept
  <1> QED BY <1>1, <1>2, <1>3, <1>4 DEF WorkersOK, AttemptOf

\* A handler goes on with the call of a worker that has an entry.
LEMMA CallStep ==
  ASSUME WorkersOK, NEW w \in Workers, worker[w].msg \in Entries, UNCHANGED worker,
         NEW c \in [pc: CallSteps, out: CallOutcomes], call' = [call EXCEPT ![w] = c]
  PROVE  WorkersOK'
  BY DEF WorkersOK, AttemptOf

LEMMA ServeStep ==
  ASSUME WorkersOK, NEW w \in Workers, worker[w].msg \in Entries, UNCHANGED worker,
         NEW pc \in CallSteps, Serve(w, pc)
  PROVE  WorkersOK'
  <1> DEFINE c == [call[w] EXCEPT !.pc = pc]
  <1>1. c \in [pc: CallSteps, out: CallOutcomes] /\ call' = [call EXCEPT ![w] = c]
    BY DEF WorkersOK, Serve
  <1> HIDE DEF c
  <1> QED BY <1>1, CallStep

LEMMA ServeOutcomeStep ==
  ASSUME WorkersOK, NEW w \in Workers, worker[w].msg \in Entries, UNCHANGED worker,
         NEW pc \in CallSteps, NEW out \in CallOutcomes, ServeOutcome(w, pc, out)
  PROVE  WorkersOK'
  BY CallStep DEF ServeOutcome

LEMMA EnqueueStep ==
  ASSUME QueuesOK, NEW t \in Tasks, EnqueueTask(t), UNCHANGED <<pending, workerDelayed>>
  PROVE  QueuesOK'
  BY DEF QueuesOK, EnqueueTask, FreshEntries

LEMMA AckStep ==
  ASSUME QueuesOK, NEW e, Ack(e), UNCHANGED <<workerStream, workerDelayed>>
  PROVE  QueuesOK'
  BY DEF QueuesOK, Ack

-----------------------------------------------------------------------------
(* Every action preserves the types: one step per action, one per part it changes. *)

\* A part whose variables do not change keeps its type.
LEMMA PartsStay ==
  ASSUME TypeOK
  PROVE  /\ UNCHANGED task => RowsOK'
         /\ UNCHANGED <<project, applied, lock>> => ProjectsOK'
         /\ UNCHANGED dedupe => EventsOK'
         /\ UNCHANGED <<submit, again>> => RequestsOK'
         /\ UNCHANGED <<producerStream, producerDelayed, dispatcher>> => ProducerOK'
         /\ UNCHANGED <<workerStream, pending, workerDelayed>> => QueuesOK'
         /\ UNCHANGED <<worker, call>> => WorkersOK'
         /\ UNCHANGED hazards => hazards' \in 0..MaxHazards
  BY DEF TypeOK, RowsOK, ProjectsOK, EventsOK, RequestsOK, ProducerOK, QueuesOK, WorkersOK, AttemptOf

LEMMA RequestTypes ==
  ASSUME TypeOK, NEW t \in Tasks, RequestNext(t)
  PROVE  TypeOK'
  <1>1. CASE CreateTask(t)
    <2>1. RequestsOK'
      BY <1>1 DEF CreateTask, TypeOK, RequestsOK, SubmitSteps
    <2>2. RowsOK'
      BY <1>1, PipelineAssumption DEF CreateTask, TypeOK, RowsOK, TaskStatuses
    <2> QED BY <1>1, <2>1, <2>2, PartsStay
         DEF CreateTask, TypeOK, taskVars, requestVars, producerVars, queueVars, workerVars
  <1>2. CASE CreateTaskFails(t)
    <2>1. RequestsOK'
      BY <1>2 DEF CreateTaskFails, TypeOK, RequestsOK, SubmitSteps
    <2>2. ProjectsOK'
      BY <1>2, ProjectShows DEF CreateTaskFails, TypeOK, GenerationStatuses
    <2>3. hazards' \in 0..MaxHazards
      BY <1>2, MeetInRange DEF CreateTaskFails, TypeOK
    <2> QED BY <1>2, <2>1, <2>2, <2>3, PartsStay
         DEF CreateTaskFails, TypeOK, taskVars, requestVars, producerVars, queueVars, workerVars
  <1>3. CASE PrepareDocuments(t)
    <2>1. RequestsOK'
      BY <1>3 DEF PrepareDocuments, TypeOK, RequestsOK, SubmitSteps
    <2> QED BY <1>3, <2>1, PartsStay
         DEF PrepareDocuments, TypeOK, taskVars, requestVars, producerVars, queueVars, workerVars
  <1>4. CASE PrepareDocumentsFails(t)
    <2>1. RequestsOK'
      BY <1>4 DEF PrepareDocumentsFails, TypeOK, RequestsOK, SubmitSteps, GiveUp
    <2>2. ProjectsOK'
      BY <1>4, ProjectShows DEF PrepareDocumentsFails, TypeOK, GenerationStatuses, GiveUp
    <2>3. RowsOK'
      BY <1>4, SetFailedRow DEF PrepareDocumentsFails, GiveUp, TypeOK
    <2> QED BY <1>4, <2>1, <2>2, <2>3, PartsStay
         DEF PrepareDocumentsFails, GiveUp, TypeOK, taskVars, requestVars, producerVars, queueVars, workerVars
  <1>5. CASE EnqueueFaultTree(t)
    <2>1. RequestsOK'
      BY <1>5 DEF EnqueueFaultTree, TypeOK, RequestsOK, SubmitSteps
    <2>2. ProducerOK'
      BY <1>5 DEF EnqueueFaultTree, TypeOK, ProducerOK
    <2> QED BY <1>5, <2>1, <2>2, PartsStay
         DEF EnqueueFaultTree, TypeOK, taskVars, requestVars, producerVars, queueVars, workerVars
  <1>6. CASE EnqueueKnowledgeGraph(t)
    <2>1. RequestsOK'
      BY <1>6 DEF EnqueueKnowledgeGraph, TypeOK, RequestsOK, SubmitSteps
    <2>2. QueuesOK'
      BY <1>6, EnqueueStep DEF EnqueueKnowledgeGraph, TypeOK
    <2> QED BY <1>6, <2>1, <2>2, PartsStay
         DEF EnqueueKnowledgeGraph, TypeOK, taskVars, requestVars, producerVars, queueVars, workerVars
  <1>7. CASE EnqueueFails(t)
    <2>1. RequestsOK'
      BY <1>7 DEF EnqueueFails, TypeOK, RequestsOK, SubmitSteps, GiveUp
    <2>2. ProjectsOK'
      BY <1>7, ProjectShows DEF EnqueueFails, TypeOK, GenerationStatuses, GiveUp
    <2>3. RowsOK'
      BY <1>7, SetFailedRow DEF EnqueueFails, GiveUp, TypeOK
    <2>4. hazards' \in 0..MaxHazards
      BY <1>7, MeetInRange DEF EnqueueFails, TypeOK
    <2> QED BY <1>7, <2>1, <2>2, <2>3, <2>4, PartsStay
         DEF EnqueueFails, GiveUp, TypeOK, taskVars, requestVars, producerVars, queueVars, workerVars
  <1>8. CASE MarkProducerQueued(t)
    <2>1. RequestsOK'
      BY <1>8 DEF MarkProducerQueued, TypeOK, RequestsOK, SubmitSteps
    <2>2. RowsOK'
      BY <1>8, UpdateStatusRow DEF MarkProducerQueued, TypeOK, TaskStatuses
    <2> QED BY <1>8, <2>1, <2>2, PartsStay
         DEF MarkProducerQueued, TypeOK, taskVars, requestVars, producerVars, queueVars, workerVars
  <1>9. CASE ResubmitFindsExisting(t)
    <2>1. RequestsOK'
      BY <1>9 DEF ResubmitFindsExisting, TypeOK, RequestsOK, ResubmitSteps, GenerationStatuses, ProjectGenerationStatus
    <2> QED BY <1>9, <2>1, PartsStay
         DEF ResubmitFindsExisting, TypeOK, taskVars, requestVars, producerVars, queueVars, workerVars
  <1>10. CASE ResubmitShows(t)
    <2>1. RequestsOK'
      BY <1>10 DEF ResubmitShows, TypeOK, RequestsOK, ResubmitSteps, GenerationStatuses
    <2>2. ProjectsOK'
      BY <1>10, ProjectShows DEF ResubmitShows, TypeOK
    <2> QED BY <1>10, <2>1, <2>2, PartsStay
         DEF ResubmitShows, TypeOK, taskVars, requestVars, producerVars, queueVars, workerVars
  <1> QED BY <1>1, <1>2, <1>3, <1>4, <1>5, <1>6, <1>7, <1>8, <1>9, <1>10 DEF RequestNext

LEMMA DispatchTypes ==
  ASSUME TypeOK, NEW d \in Dispatchers, DispatchNext(d)
  PROVE  TypeOK'
  <1>1. CASE TryAcquireProjectLock(d)
    <2>1. dispatcher[d].task \in Tasks
      BY <1>1 DEF TryAcquireProjectLock, TypeOK, ProducerOK
    <2>2. ProducerOK'
      BY <1>1, GotoStep DEF TryAcquireProjectLock, TypeOK, DispatcherSteps
    <2>3. ProjectsOK'
      BY <1>1, <2>1, PipelineAssumption DEF TryAcquireProjectLock, TypeOK, ProjectsOK
    <2>4. RowsOK'
      BY <1>1, <2>1, UpdateStatusRow, PartsStay DEF TryAcquireProjectLock, TypeOK, TaskStatuses
    <2>5. hazards' \in 0..MaxHazards
      BY <1>1, MeetInRange DEF TryAcquireProjectLock, TypeOK
    <2> QED BY <1>1, <2>1, <2>2, <2>3, <2>4, <2>5, PartsStay
         DEF TryAcquireProjectLock, TypeOK, taskVars, requestVars, producerVars, queueVars, workerVars
  <1>2. CASE DispatcherEnqueue(d)
    <2>1. dispatcher[d].task \in Tasks
      BY <1>2 DEF DispatcherEnqueue, TypeOK, ProducerOK
    <2>2. ProducerOK'
      BY <1>2, GotoStep DEF DispatcherEnqueue, TypeOK, DispatcherSteps
    <2>3. QueuesOK'
      BY <1>2, <2>1, EnqueueStep, PartsStay DEF DispatcherEnqueue, TypeOK
    <2>4. hazards' \in 0..MaxHazards
      BY <1>2, MeetInRange DEF DispatcherEnqueue, TypeOK
    <2> QED BY <1>2, <2>1, <2>2, <2>3, <2>4, PartsStay
         DEF DispatcherEnqueue, TypeOK, taskVars, requestVars, producerVars, queueVars, workerVars
  <1>3. CASE DispatcherUnlock(d)
    <2>1. dispatcher[d].task \in Tasks
      BY <1>3 DEF DispatcherUnlock, TypeOK, ProducerOK
    <2>2. ProducerOK'
      BY <1>3, GotoStep DEF DispatcherUnlock, TypeOK, DispatcherSteps
    <2>3. ProjectsOK'
      BY <1>3, <2>1, PipelineAssumption DEF DispatcherUnlock, TypeOK, ProjectsOK
    <2>4. hazards' \in 0..MaxHazards
      BY <1>3, MeetInRange DEF DispatcherUnlock, TypeOK
    <2> QED BY <1>3, <2>1, <2>2, <2>3, <2>4, PartsStay
         DEF DispatcherUnlock, TypeOK, taskVars, requestVars, producerVars, queueVars, workerVars
  <1>4. CASE MarkDispatchRetrying(d)
    <2>1. dispatcher[d].task \in Tasks
      BY <1>4 DEF MarkDispatchRetrying, TypeOK, ProducerOK
    <2>2. ProducerOK'
      BY <1>4, GotoStep DEF MarkDispatchRetrying, TypeOK, DispatcherSteps
    <2>3. RowsOK'
      BY <1>4, <2>1, UpdateStatusRow DEF MarkDispatchRetrying, TypeOK, TaskStatuses
    <2> QED BY <1>4, <2>1, <2>2, <2>3, PartsStay
         DEF MarkDispatchRetrying, TypeOK, taskVars, requestVars, producerVars, queueVars, workerVars
  <1>5. CASE RequeueDelayed(d)
    <2>1. ProducerOK'
      BY <1>5 DEF RequeueDelayed, TypeOK, ProducerOK, IdleDispatcher, DispatcherSteps
    <2>2. hazards' \in 0..MaxHazards
      BY <1>5, MeetInRange DEF RequeueDelayed, TypeOK
    <2> QED BY <1>5, <2>1, <2>2, PartsStay
         DEF RequeueDelayed, TypeOK, taskVars, requestVars, producerVars, queueVars, workerVars
  <1>6. CASE MarkEnqueued(d)
    <2>1. dispatcher[d].task \in Tasks
      BY <1>6 DEF MarkEnqueued, TypeOK, ProducerOK
    <2>2. ProducerOK'
      BY <1>6 DEF MarkEnqueued, TypeOK, ProducerOK, IdleDispatcher, DispatcherSteps
    <2>3. RowsOK'
      BY <1>6, <2>1, UpdateStatusRow DEF MarkEnqueued, TypeOK, TaskStatuses
    <2> QED BY <1>6, <2>1, <2>2, <2>3, PartsStay
         DEF MarkEnqueued, TypeOK, taskVars, requestVars, producerVars, queueVars, workerVars
  <1>7. ASSUME NEW t \in Tasks, ReleaseDelayedProducerTask(d, t) PROVE TypeOK'
    <2>1. ProducerOK'
      BY <1>7 DEF ReleaseDelayedProducerTask, TypeOK, ProducerOK
    <2>2. hazards' \in 0..MaxHazards
      BY <1>7, MeetInRange DEF ReleaseDelayedProducerTask, TypeOK
    <2> QED BY <1>7, <2>1, <2>2, PartsStay
         DEF ReleaseDelayedProducerTask, TypeOK, taskVars, requestVars, producerVars, queueVars, workerVars
  <1>8. ASSUME NEW t \in Tasks, ReadProducerMessage(d, t) PROVE TypeOK'
    <2>1. ProducerOK'
      BY <1>8 DEF ReadProducerMessage, Delivered, TypeOK, ProducerOK, DispatcherSteps
    <2>2. RowsOK'
      BY <1>8, UpdateStatusRow DEF ReadProducerMessage, TypeOK, TaskStatuses
    <2> QED BY <1>8, <2>1, <2>2, PartsStay
         DEF ReadProducerMessage, TypeOK, taskVars, requestVars, producerVars, queueVars, workerVars
  <1> QED BY <1>1, <1>2, <1>3, <1>4, <1>5, <1>6, <1>7, <1>8 DEF DispatchNext

LEMMA WorkTypes ==
  ASSUME TypeOK, NEW w \in Workers, WorkNext(w)
  PROVE  TypeOK'
  <1>1. ASSUME NEW e \in workerStream, ReadMessage(w, e) PROVE TypeOK'
    <2>1. e \in Entries
      BY <1>1 DEF TypeOK, QueuesOK
    <2>2. QueuesOK'
      BY <1>1, <2>1 DEF ReadMessage, Deliver, TypeOK, QueuesOK
    <2>3. WorkersOK'
      BY <1>1, <2>1, AcceptStep DEF ReadMessage, TypeOK
    <2> QED BY <1>1, <2>1, <2>2, <2>3, PartsStay
         DEF ReadMessage, TypeOK, taskVars, requestVars, producerVars, queueVars, workerVars
  <1>2. ASSUME NEW r \in pending, ClaimStalePending(w, r) PROVE TypeOK'
    <2>1. r.entry \in Entries
      BY <1>2 DEF TypeOK, QueuesOK
    <2>2. QueuesOK'
      BY <1>2, <2>1 DEF ClaimStalePending, TypeOK, QueuesOK
    <2>3. WorkersOK'
      BY <1>2, <2>1, AcceptStep DEF ClaimStalePending, TypeOK
    <2>4. hazards' \in 0..MaxHazards
      BY <1>2, MeetInRange, PartsStay DEF ClaimStalePending, TypeOK
    <2> QED BY <1>2, <2>1, <2>2, <2>3, <2>4, PartsStay
         DEF ClaimStalePending, TypeOK, taskVars, requestVars, producerVars, queueVars, workerVars
  <1>3. ASSUME NEW e \in workerDelayed, ReleaseDelayedTask(w, e) PROVE TypeOK'
    <2>1. QueuesOK'
      BY <1>3 DEF ReleaseDelayedTask, TypeOK, QueuesOK
    <2>2. hazards' \in 0..MaxHazards
      BY <1>3, MeetInRange, PartsStay DEF ReleaseDelayedTask, TypeOK
    <2> QED BY <1>3, <2>1, <2>2, PartsStay
         DEF ReleaseDelayedTask, TypeOK, taskVars, requestVars, producerVars, queueVars, workerVars
  <1>4. CASE Advance(w)
    <2>1. worker[w].msg \in Entries
      BY <1>4 DEF Advance, Running, Idle, TypeOK, WorkersOK
    <2>2. 0 \in 0..Docs /\ 1 \in 0..Docs /\ worker[w].doc \in 0..Docs
      BY PipelineAssumption DEF TypeOK, WorkersOK
    <2>3. worker[w].doc < Docs => worker[w].doc + 1 \in 0..Docs
      BY <2>2, PipelineAssumption
    <2>4. WorkersOK'
      BY <1>4, <2>1, <2>2, <2>3, PostStep, StopStep DEF Advance, TypeOK, WorkerStates
    <2>5. QueuesOK'
      BY <1>4, AckStep, PartsStay DEF Advance, TypeOK, queueVars
    <2> QED BY <1>4, <2>1, <2>2, <2>3, <2>4, <2>5, PartsStay
         DEF Advance, TypeOK, taskVars, requestVars, producerVars, queueVars, workerVars
  <1>5. CASE PostCompleted(w)
    <2>1. worker[w].msg \in Entries
      BY <1>5 DEF PostCompleted, Running, Idle, TypeOK, WorkersOK
    <2>2. WorkersOK'
      BY <1>5, <2>1, PostStep, PipelineAssumption DEF PostCompleted, TypeOK, WorkerStates
    <2>3. hazards' \in 0..MaxHazards
      BY <1>5, MeetInRange, PartsStay DEF PostCompleted, Outpaces, TypeOK
    <2> QED BY <1>5, <2>1, <2>2, <2>3, PartsStay
         DEF PostCompleted, TypeOK, taskVars, requestVars, producerVars, queueVars, workerVars
  <1>6. CASE FailAttempt(w)
    <2>1. worker[w].msg \in Entries
      BY <1>6 DEF FailAttempt, Running, Idle, TypeOK, WorkersOK
    <2>2. QueuesOK'
      BY <1>6, AckStep DEF FailAttempt, FreshEntries, TypeOK, QueuesOK
    <2>3. AttemptOf(worker[w].msg) \in Nat
      BY <2>1, PipelineAssumption DEF AttemptOf, Entries
    <2>4. AttemptOf(worker[w].msg) + 1 <= MaxRetries => AttemptOf(worker[w].msg) < MaxRetries
      BY <2>3, PipelineAssumption
    <2>5. PICK st \in {"rescheduled", "acked"} :
            /\ worker' = [worker EXCEPT ![w].st = st]
            /\ st = "rescheduled" => AttemptOf(worker[w].msg) < MaxRetries
      BY <1>6, <2>4 DEF FailAttempt
    <2>6. worker' \in [Workers -> [st: WorkerStates, doc: 0..Docs, msg: Entries \union {NoEntry}, up: BOOLEAN]]
      BY <2>5 DEF TypeOK, WorkersOK, WorkerStates
    <2>7. call' \in [Workers -> [pc: CallSteps, out: CallOutcomes]]
      BY <1>6 DEF FailAttempt, TypeOK, WorkersOK, NoCall, CallSteps, CallOutcomes
    <2>8. \A v \in Workers : /\ worker'[v].msg = worker[v].msg
                             /\ v # w => worker'[v] = worker[v] /\ call'[v] = call[v]
      BY <1>6, <2>5 DEF FailAttempt, TypeOK, WorkersOK
    <2>9. worker'[w].st = st
      BY <2>5 DEF TypeOK, WorkersOK
    <2>10. WorkersOK'
      BY <2>1, <2>5, <2>6, <2>7, <2>8, <2>9 DEF TypeOK, WorkersOK, AttemptOf
    <2> QED BY <1>6, <2>1, <2>2, <2>3, <2>4, <2>5, <2>6, <2>7, <2>8, <2>9, <2>10, PartsStay
         DEF FailAttempt, TypeOK, taskVars, requestVars, producerVars, queueVars, workerVars
  <1>7. CASE AckRescheduled(w)
    <2>1. worker[w].msg \in Entries
      BY <1>7 DEF AckRescheduled, Running, Idle, TypeOK, WorkersOK
    <2>2. AttemptOf(worker[w].msg) < MaxRetries
      BY <1>7 DEF AckRescheduled, TypeOK, WorkersOK
    <2>3. WorkersOK'
      BY <1>7, <2>1, <2>2, PostStep, PipelineAssumption DEF AckRescheduled, TypeOK, WorkerStates
    <2>4. QueuesOK'
      BY <1>7, AckStep DEF AckRescheduled, TypeOK
    <2> QED BY <1>7, <2>1, <2>2, <2>3, <2>4, PartsStay
         DEF AckRescheduled, TypeOK, taskVars, requestVars, producerVars, queueVars, workerVars
  <1>8. CASE MoveToDeadLetter(w)
    <2>1. worker[w].msg \in Entries
      BY <1>8 DEF MoveToDeadLetter, Running, Idle, TypeOK, WorkersOK
    <2>2. WorkersOK'
      BY <1>8, <2>1, PostStep, PipelineAssumption DEF MoveToDeadLetter, TypeOK, WorkerStates
    <2>3. hazards' \in 0..MaxHazards
      BY <1>8, MeetInRange, PartsStay DEF MoveToDeadLetter, Outpaces, TypeOK
    <2> QED BY <1>8, <2>1, <2>2, <2>3, PartsStay
         DEF MoveToDeadLetter, TypeOK, taskVars, requestVars, producerVars, queueVars, workerVars
  <1>9. CASE FinishRetry(w)
    <2>1. WorkersOK'
      BY <1>9, StopStep DEF FinishRetry, TypeOK
    <2> QED BY <1>9, <2>1, PartsStay
         DEF FinishRetry, TypeOK, taskVars, requestVars, producerVars, queueVars, workerVars
  <1>10. CASE WorkerRestart(w)
    <2>1. WorkersOK'
      BY <1>10, StopStep DEF WorkerRestart, TypeOK
    <2> QED BY <1>10, <2>1, PartsStay
         DEF WorkerRestart, TypeOK, taskVars, requestVars, producerVars, queueVars, workerVars
  <1> QED BY <1>1, <1>2, <1>3, <1>4, <1>5, <1>6, <1>7, <1>8, <1>9, <1>10 DEF WorkNext

LEMMA CallbackTypes ==
  ASSUME TypeOK, NEW w \in Workers, CallbackNext(w)
  PROVE  TypeOK'
  <1> DEFINE t == worker[w].msg.task
  <1>1. call[w].pc # "none"
    BY DEF CallbackNext, ReceiveCallback, TouchProjectLock, WriteReported, ShowGenerating,
           PersistGeneratedGraph, SetCompleted, ReleaseProjectLock, ClearTaskStreamEntries
  <1>2. worker[w].msg \in Entries /\ t \in Tasks
    BY <1>1 DEF TypeOK, WorkersOK, Entries
  <1> HIDE DEF t
  <1>3. CASE ReceiveCallback(w)
    <2>1. Verdict(w) \in CallSteps
      BY DEF Verdict, StepFor, CallSteps
    <2>2. WorkersOK'
      BY <1>3, <1>2, <2>1, ServeStep DEF ReceiveCallback, TypeOK, CallSteps
    <2>3. EventsOK'
      BY <1>3, <1>2, EventKeyInRange DEF ReceiveCallback, TypeOK, EventsOK
    <2>4. hazards' \in 0..MaxHazards
      BY <1>3, MeetInRange DEF ReceiveCallback, TypeOK
    <2> QED BY <1>3, <2>1, <2>2, <2>3, <2>4, PartsStay
         DEF ReceiveCallback, TypeOK, taskVars, requestVars, producerVars, queueVars, workerVars
  <1>4. CASE TouchProjectLock(w)
    <2>1. WorkersOK'
      BY <1>4, <1>2, ServeStep, ServeOutcomeStep DEF TouchProjectLock, TypeOK, CallSteps, CallOutcomes
    <2>2. ProjectsOK'
      BY <1>4, <1>2, PipelineAssumption DEF TouchProjectLock, TypeOK, ProjectsOK, t
    <2>3. hazards' \in 0..MaxHazards
      BY <1>4, MeetInRange DEF TouchProjectLock, TypeOK
    <2> QED BY <1>4, <2>1, <2>2, <2>3, PartsStay
         DEF TouchProjectLock, TypeOK, taskVars, requestVars, producerVars, queueVars, workerVars
  <1>5. CASE WriteReported(w)
    <2>1. /\ ReportedStatus(worker[w].st) \in TaskStatuses
          /\ ReportedProgress(worker[w]) \in 0..100
          /\ ReportedAttempt(worker[w]) \in 0..MaxRetries
      BY <1>2, ReportInRange, PipelineAssumption DEF TypeOK, TaskStatuses
    <2>2. RowsOK'
      BY <1>5, <1>2, <2>1, UpdateStatusExtRow, PartsStay DEF WriteReported, TypeOK, t
    <2>3. WorkersOK'
      BY <1>5, <1>2, ServeStep, ServeOutcomeStep DEF WriteReported, TypeOK, CallSteps, CallOutcomes
    <2>4. hazards' \in 0..MaxHazards
      BY <1>5, MeetInRange DEF WriteReported, TypeOK
    <2> QED BY <1>5, <2>1, <2>2, <2>3, <2>4, PartsStay
         DEF WriteReported, TypeOK, taskVars, requestVars, producerVars, queueVars, workerVars
  <1>6. CASE ShowGenerating(w)
    <2>1. WorkersOK'
      BY <1>6, <1>2, ServeStep, ServeOutcomeStep DEF ShowGenerating, TypeOK, CallSteps, CallOutcomes
    <2>2. ProjectsOK'
      BY <1>6, <1>2, ProjectShows DEF ShowGenerating, TypeOK, GenerationStatuses, t
    <2> QED BY <1>6, <2>1, <2>2, PartsStay
         DEF ShowGenerating, TypeOK, taskVars, requestVars, producerVars, queueVars, workerVars
  <1>7. CASE PersistGeneratedGraph(w)
    <2>1. WorkersOK'
      BY <1>7, <1>2, ServeStep, ServeOutcomeStep DEF PersistGeneratedGraph, TypeOK, CallSteps, CallOutcomes
    <2>2. ProjectsOK'
      BY <1>7, <1>2 DEF PersistGeneratedGraph, TypeOK, ProjectsOK, t
    <2>3. RowsOK'
      BY <1>7, <1>2, SetFailedRow, PartsStay DEF PersistGeneratedGraph, TypeOK, t
    <2> QED BY <1>7, <2>1, <2>2, <2>3, PartsStay
         DEF PersistGeneratedGraph, TypeOK, taskVars, requestVars, producerVars, queueVars, workerVars
  <1>8. CASE SetCompleted(w)
    <2>1. WorkersOK'
      BY <1>8, <1>2, ServeStep, ServeOutcomeStep DEF SetCompleted, TypeOK, CallSteps, CallOutcomes
    <2>2. RowsOK'
      BY <1>8, <1>2 DEF SetCompleted, TypeOK, RowsOK, TaskStatuses, t
    <2>3. hazards' \in 0..MaxHazards
      BY <1>8, MeetInRange DEF SetCompleted, TypeOK
    <2> QED BY <1>8, <2>1, <2>2, <2>3, PartsStay
         DEF SetCompleted, TypeOK, taskVars, requestVars, producerVars, queueVars, workerVars
  <1>9. CASE ReleaseProjectLock(w)
    <2>1. WorkersOK'
      BY <1>9, <1>2, ServeStep, ServeOutcomeStep DEF ReleaseProjectLock, TypeOK, CallSteps, CallOutcomes
    <2>2. ProjectsOK'
      BY <1>9, <1>2, PipelineAssumption DEF ReleaseProjectLock, TypeOK, ProjectsOK, t
    <2>3. hazards' \in 0..MaxHazards
      BY <1>9, MeetInRange DEF ReleaseProjectLock, TypeOK
    <2> QED BY <1>9, <2>1, <2>2, <2>3, PartsStay
         DEF ReleaseProjectLock, TypeOK, taskVars, requestVars, producerVars, queueVars, workerVars
  <1>10. CASE ClearTaskStreamEntries(w)
    <2>1. WorkersOK'
      BY <1>10, <1>2, ServeStep, ServeOutcomeStep DEF ClearTaskStreamEntries, TypeOK, CallSteps, CallOutcomes
    <2>2. ProjectsOK'
      BY <1>10, <1>2, PipelineAssumption DEF ClearTaskStreamEntries, ShownAfter, TypeOK, ProjectsOK, GenerationStatuses, t
    <2>3. ProducerOK'
      BY <1>10 DEF ClearTaskStreamEntries, TypeOK, ProducerOK
    <2>4. QueuesOK'
      BY <1>10 DEF ClearTaskStreamEntries, TypeOK, QueuesOK
    <2> QED BY <1>10, <2>1, <2>2, <2>3, <2>4, PartsStay
         DEF ClearTaskStreamEntries, TypeOK, taskVars, requestVars, producerVars, queueVars, workerVars
  <1> QED BY <1>3, <1>4, <1>5, <1>6, <1>7, <1>8, <1>9, <1>10 DEF CallbackNext

LEMMA EnvironmentTypes ==
  ASSUME TypeOK, EnvironmentNext
  PROVE  TypeOK'
  <1>1. ASSUME NEW t \in Tasks, SubmitStart(t) PROVE TypeOK'
    <2>1. RequestsOK'
      BY <1>1 DEF SubmitStart, TypeOK, RequestsOK, SubmitSteps
    <2>2. ProjectsOK'
      BY <1>1, ProjectShows DEF SubmitStart, TypeOK, GenerationStatuses
    <2> QED BY <1>1, <2>1, <2>2, PartsStay
         DEF SubmitStart, TypeOK, taskVars, requestVars, producerVars, queueVars, workerVars
  <1>2. ASSUME NEW t \in Tasks, Resubmit(t) PROVE TypeOK'
    <2>1. RequestsOK'
      BY <1>2 DEF Resubmit, TypeOK, RequestsOK, ResubmitSteps
    <2>2. ProjectsOK'
      BY <1>2, ProjectShows DEF Resubmit, TypeOK, GenerationStatuses
    <2>3. hazards' \in 0..MaxHazards
      BY <1>2, MeetInRange DEF Resubmit, TypeOK
    <2> QED BY <1>2, <2>1, <2>2, <2>3, PartsStay
         DEF Resubmit, TypeOK, taskVars, requestVars, producerVars, queueVars, workerVars
  <1>3. ASSUME NEW w \in Workers, LoseReply(w) PROVE TypeOK'
    <2>1. WorkersOK'
      BY <1>3 DEF LoseReply, TypeOK, WorkersOK, CallSteps, AttemptOf
    <2>2. hazards' \in 0..MaxHazards
      BY <1>3, MeetInRange DEF LoseReply, TypeOK
    <2> QED BY <1>3, <2>1, <2>2, PartsStay
         DEF LoseReply, TypeOK, taskVars, requestVars, producerVars, queueVars, workerVars
  <1>4. ASSUME NEW w \in Workers, WorkerCrash(w) PROVE TypeOK'
    <2>1. WorkersOK'
      BY <1>4 DEF WorkerCrash, TypeOK, WorkersOK, AttemptOf
    <2>2. hazards' \in 0..MaxHazards
      BY <1>4, MeetInRange DEF WorkerCrash, TypeOK
    <2> QED BY <1>4, <2>1, <2>2, PartsStay
         DEF WorkerCrash, TypeOK, taskVars, requestVars, producerVars, queueVars, workerVars
  <1>5. ASSUME NEW p \in Projects, LockExpires(p) PROVE TypeOK'
    <2>1. ProjectsOK'
      BY <1>5 DEF LockExpires, TypeOK, ProjectsOK
    <2>2. hazards' \in 0..MaxHazards
      BY <1>5, MeetInRange DEF LockExpires, TypeOK
    <2> QED BY <1>5, <2>1, <2>2, PartsStay
         DEF LockExpires, TypeOK, taskVars, requestVars, producerVars, queueVars, workerVars
  <1>6. CASE ServerCrash
    <2>1. RequestsOK'
      BY <1>6 DEF ServerCrash, TypeOK, RequestsOK, SubmitSteps, ResubmitSteps
    <2>2. ProducerOK'
      BY <1>6 DEF ServerCrash, TypeOK, ProducerOK, IdleDispatcher, DispatcherSteps
    <2>3. WorkersOK'
      BY <1>6 DEF ServerCrash, Serving, NoCall, TypeOK, WorkersOK, CallSteps, CallOutcomes, AttemptOf
    <2>4. hazards' \in 0..MaxHazards
      BY <1>6, MeetInRange DEF ServerCrash, TypeOK
    <2> QED BY <1>6, <2>1, <2>2, <2>3, <2>4, PartsStay
         DEF ServerCrash, TypeOK, taskVars, requestVars, producerVars, queueVars, workerVars
  <1> QED BY <1>1, <1>2, <1>3, <1>4, <1>5, <1>6 DEF EnvironmentNext

LEMMA TypeInit ==
  ASSUME Init
  PROVE  TypeOK
  BY PipelineAssumption
     DEF Init, TypeOK, RowsOK, ProjectsOK, EventsOK, RequestsOK, ProducerOK, QueuesOK, WorkersOK,
         TaskStatuses, SubmitSteps, ResubmitSteps, DispatcherSteps, WorkerStates, CallSteps, CallOutcomes,
         IdleWorker, IdleDispatcher, NoCall

LEMMA TypeStep ==
  ASSUME TypeOK, [Next]_vars
  PROVE  TypeOK'
  <1>1. CASE Next
    BY <1>1, RequestTypes, DispatchTypes, WorkTypes, CallbackTypes, EnvironmentTypes DEF Next
  <1>2. CASE UNCHANGED vars
    BY <1>2, PartsStay DEF TypeOK, vars, taskVars, requestVars, producerVars, queueVars, workerVars
  <1> QED BY <1>1, <1>2

\* Rows, locks, queues and actors keep to their kinds, whatever fails and in whatever order:
\* no callback or dispatcher writes a status, progress or attempt the schema refuses.
THEOREM TypeCorrect == Spec => []TypeOK
  <1>1. Init => TypeOK
    BY TypeInit
  <1>2. TypeOK /\ [Next]_vars => TypeOK'
    BY TypeStep
  <1> QED BY <1>1, <1>2, PTL DEF Spec

-----------------------------------------------------------------------------
(* A task is in one place of the producer queue. *)

LEMMA DispatchStays ==
  ASSUME DispatchedOnce, UNCHANGED <<submit, producerStream, producerDelayed, dispatcher>>
  PROVE  DispatchedOnce'
  BY DEF DispatchedOnce, NotYetQueued

\* The request's own moves, before and after its task is queued.
LEMMA RequestDispatchesOnce ==
  ASSUME TypeOK, DispatchedOnce, NEW t \in Tasks, RequestNext(t)
  PROVE  DispatchedOnce'
  <1> USE DEF DispatchedOnce, NotYetQueued, producerVars
  <1>1. CASE CreateTask(t) \/ CreateTaskFails(t)
    BY <1>1 DEF CreateTask, CreateTaskFails, TypeOK, RequestsOK
  <1>2. CASE PrepareDocuments(t) \/ PrepareDocumentsFails(t)
    BY <1>2 DEF PrepareDocuments, PrepareDocumentsFails, GiveUp, TypeOK, RequestsOK
  <1>3. CASE EnqueueKnowledgeGraph(t) \/ EnqueueFails(t)
    BY <1>3 DEF EnqueueKnowledgeGraph, EnqueueFails, GiveUp, TypeOK, RequestsOK
  <1>4. CASE EnqueueFaultTree(t)
    BY <1>4 DEF EnqueueFaultTree, TypeOK, RequestsOK
  <1>5. CASE MarkProducerQueued(t)
    BY <1>5 DEF MarkProducerQueued, TypeOK, RequestsOK
  <1>6. CASE ResubmitFindsExisting(t) \/ ResubmitShows(t)
    BY <1>6 DEF ResubmitFindsExisting, ResubmitShows
  <1> QED BY <1>1, <1>2, <1>3, <1>4, <1>5, <1>6 DEF RequestNext

\* A dispatcher takes the task out of the place it finds it in.
LEMMA DispatcherDispatchesOnce ==
  ASSUME TypeOK, DispatchedOnce, NEW d \in Dispatchers, DispatchNext(d)
  PROVE  DispatchedOnce'
  <1>1. ASSUME NEW pc, Goto(d, pc), UNCHANGED <<submit, producerStream, producerDelayed>>
        PROVE  DispatchedOnce'
    <2>1. \A x \in Dispatchers : dispatcher'[x].task = dispatcher[x].task
      BY <1>1 DEF Goto, TypeOK, ProducerOK
    <2> QED BY <1>1, <2>1 DEF DispatchedOnce, NotYetQueued
  <1>2. CASE TryAcquireProjectLock(d)
    BY <1>1, <1>2 DEF TryAcquireProjectLock, requestVars
  <1>3. CASE DispatcherEnqueue(d)
    BY <1>1, <1>3 DEF DispatcherEnqueue, requestVars
  <1>4. CASE DispatcherUnlock(d)
    BY <1>1, <1>4 DEF DispatcherUnlock, requestVars
  <1>5. CASE MarkDispatchRetrying(d)
    BY <1>1, <1>5 DEF MarkDispatchRetrying, requestVars
  <1>6. CASE RequeueDelayed(d)
    <2>1. dispatcher[d].task \in Tasks
      BY <1>6 DEF RequeueDelayed, TypeOK, ProducerOK
    <2>2. /\ dispatcher'[d].task = NoTask
          /\ \A x \in Dispatchers \ {d} : dispatcher'[x] = dispatcher[x]
      BY <1>6 DEF RequeueDelayed, IdleDispatcher, TypeOK, ProducerOK
    <2>3. producerDelayed' \subseteq producerDelayed \union {dispatcher[d].task} /\ UNCHANGED <<submit, producerStream>>
      BY <1>6 DEF RequeueDelayed, requestVars
    <2> QED BY <2>1, <2>2, <2>3, PipelineAssumption DEF DispatchedOnce, NotYetQueued
  <1>7. CASE MarkEnqueued(d)
    <2>1. /\ dispatcher'[d].task = NoTask
          /\ \A x \in Dispatchers \ {d} : dispatcher'[x] = dispatcher[x]
      BY <1>7 DEF MarkEnqueued, IdleDispatcher, TypeOK, ProducerOK
    <2> QED BY <1>7, <2>1, PipelineAssumption DEF MarkEnqueued, requestVars, DispatchedOnce, NotYetQueued
  <1>8. ASSUME NEW t \in Tasks, ReleaseDelayedProducerTask(d, t)
        PROVE  DispatchedOnce'
    BY <1>8 DEF ReleaseDelayedProducerTask, requestVars, DispatchedOnce, NotYetQueued
  <1>9. ASSUME NEW t \in Tasks, ReadProducerMessage(d, t)
        PROVE  DispatchedOnce'
    <2>1. /\ dispatcher'[d].task = t
          /\ \A x \in Dispatchers \ {d} : dispatcher'[x] = dispatcher[x]
      BY <1>9 DEF ReadProducerMessage, TypeOK, ProducerOK
    <2>2. t \in producerStream /\ producerStream' = producerStream \ {t} /\ UNCHANGED <<submit, again, producerDelayed>>
      BY <1>9 DEF ReadProducerMessage, Delivered, requestVars
    <2> QED BY <2>1, <2>2 DEF DispatchedOnce, NotYetQueued
  <1> QED BY <1>2, <1>3, <1>4, <1>5, <1>6, <1>7, <1>8, <1>9 DEF DispatchNext

LEMMA DispatchStep ==
  ASSUME TypeOK, DispatchedOnce, [Next]_vars
  PROVE  DispatchedOnce'
  <1>1. CASE \E t \in Tasks : RequestNext(t)
    BY <1>1, RequestDispatchesOnce
  <1>2. CASE \E d \in Dispatchers : DispatchNext(d)
    BY <1>2, DispatcherDispatchesOnce
  <1>3. CASE \E w \in Workers : WorkNext(w)
    BY <1>3, DispatchStays
       DEF WorkNext, ReadMessage, ClaimStalePending, ReleaseDelayedTask, Advance, PostCompleted, FailAttempt,
           AckRescheduled, MoveToDeadLetter, FinishRetry, WorkerRestart, requestVars, producerVars
  <1>4. ASSUME NEW w \in Workers, CallbackNext(w)
        PROVE  DispatchedOnce'
    <2>1. CASE ClearTaskStreamEntries(w)
      BY <2>1 DEF ClearTaskStreamEntries, requestVars, DispatchedOnce, NotYetQueued
    <2>2. CASE ~ClearTaskStreamEntries(w)
      BY <1>4, <2>2, DispatchStays
         DEF CallbackNext, ReceiveCallback, TouchProjectLock, WriteReported, ShowGenerating, PersistGeneratedGraph,
             SetCompleted, ReleaseProjectLock, requestVars, producerVars
    <2> QED BY <2>1, <2>2
  <1>5. CASE EnvironmentNext
    <2>1. ASSUME NEW t \in Tasks, SubmitStart(t)
          PROVE  DispatchedOnce'
      BY <2>1 DEF SubmitStart, producerVars, TypeOK, RequestsOK, DispatchedOnce, NotYetQueued
    <2>2. CASE ServerCrash
      BY <2>2, PipelineAssumption DEF ServerCrash, IdleDispatcher, TypeOK, RequestsOK, DispatchedOnce, NotYetQueued
    <2>3. ASSUME NEW t \in Tasks, Resubmit(t)
          PROVE  DispatchedOnce'
      BY <2>3, DispatchStays DEF Resubmit, producerVars
    <2>4. ASSUME NEW w \in Workers, LoseReply(w) \/ WorkerCrash(w)
          PROVE  DispatchedOnce'
      BY <2>4, DispatchStays DEF LoseReply, WorkerCrash, requestVars, producerVars
    <2>5. ASSUME NEW p \in Projects, LockExpires(p)
          PROVE  DispatchedOnce'
      BY <2>5, DispatchStays DEF LockExpires, requestVars, producerVars
    <2> QED BY <1>5, <2>1, <2>2, <2>3, <2>4, <2>5 DEF EnvironmentNext
  <1>6. CASE UNCHANGED vars
    BY <1>6, DispatchStays DEF vars, requestVars, producerVars
  <1> QED BY <1>1, <1>2, <1>3, <1>4, <1>5, <1>6 DEF Next

\* Whatever is lost, repeated or restarted, a task is never in the producer queue twice and
\* never in the hands of two dispatchers: requeueing and releasing only move it.
THEOREM DispatchedOnceCorrect == Spec => []DispatchedOnce
  <1>1. Init => DispatchedOnce
    BY PipelineAssumption DEF Init, IdleDispatcher, DispatchedOnce
  <1>2. DispatchedOnce /\ TypeOK /\ [Next]_vars => DispatchedOnce'
    BY DispatchStep
  <1> QED BY <1>1, <1>2, TypeCorrect, PTL DEF Spec

-----------------------------------------------------------------------------
(* A result is saved before its task is completed. *)

\* CompletedMeansApplied is not inductive: between the save and the update of the row only
\* the handler knows that the result is saved, and a handler that writes the reported status
\* as it is must not be one of a "completed" callback.
HandlerSaved(w) ==
  /\ call[w].pc = "complete" => applied[worker[w].msg.task] > 0
  /\ call[w].pc \in {"touch", "write"} => worker[w].st # "completed"

SavedInv == CompletedMeansApplied /\ \A w \in Workers : HandlerSaved(w)

\* The handler of w is at none of the steps HandlerSaved is about, or it stays there.
HandlerStays(w) ==
  \/ call'[w].pc \notin {"complete", "touch", "write"}
  \/ call'[w] = call[w] /\ worker'[w].msg = worker[w].msg /\ worker'[w].st = worker[w].st

NoneCompletes == \A t \in Tasks : task'[t].status = "completed" => task[t].status = "completed"

LEMMA SavedStays ==
  ASSUME SavedInv, UNCHANGED applied, NoneCompletes,
         \A w \in Workers : HandlerStays(w) \/ HandlerSaved(w)'
  PROVE  SavedInv'
  <1>1. CompletedMeansApplied'
    BY DEF SavedInv, CompletedMeansApplied, NoneCompletes
  <1>2. \A w \in Workers : HandlerSaved(w)'
    BY DEF SavedInv, HandlerSaved, HandlerStays
  <1> QED BY <1>1, <1>2 DEF SavedInv

\* A status other than "completed", written to a row, completes no task.
LEMMA WriteCompletesNone ==
  ASSUME RowsOK, NEW t \in Tasks, task'[t].status # "completed",
         \A u \in Tasks \ {t} : task'[u] = task[u]
  PROVE  NoneCompletes
  BY DEF NoneCompletes

LEMMA UpdateCompletesNone ==
  ASSUME RowsOK, NEW t \in Tasks, NEW status, status # "completed", NEW progress,
         UpdateStatus(t, status, progress)
  PROVE  NoneCompletes
  <1>1. task'[t].status = status /\ \A u \in Tasks \ {t} : task'[u] = task[u]
    BY DEF RowsOK, UpdateStatus
  <1> QED BY <1>1, WriteCompletesNone

LEMMA FailureCompletesNone ==
  ASSUME RowsOK, NEW t \in Tasks, SetFailed(t)
  PROVE  NoneCompletes
  <1>1. task'[t].status = "failed" /\ \A u \in Tasks \ {t} : task'[u] = task[u]
    BY DEF RowsOK, SetFailed
  <1> QED BY <1>1, WriteCompletesNone

LEMMA RequestSaves ==
  ASSUME TypeOK, SavedInv, NEW t \in Tasks, RequestNext(t)
  PROVE  SavedInv'
  <1>1. UNCHANGED <<applied, worker, call>>
    BY DEF RequestNext, CreateTask, CreateTaskFails, PrepareDocuments, PrepareDocumentsFails, EnqueueFaultTree,
           EnqueueKnowledgeGraph, EnqueueFails, GiveUp, MarkProducerQueued, ResubmitFindsExisting, ResubmitShows,
           taskVars, workerVars
  <1>2. NoneCompletes
    <2>1. CASE UNCHANGED task
      BY <2>1 DEF NoneCompletes
    <2>2. CASE CreateTask(t)
      <3>1. task'[t].status = "pending" /\ \A u \in Tasks \ {t} : task'[u] = task[u]
        BY <2>2 DEF CreateTask, TypeOK, RowsOK
      <3> QED BY <3>1, WriteCompletesNone DEF TypeOK
    <2>3. CASE PrepareDocumentsFails(t) \/ EnqueueFails(t)
      BY <2>3, FailureCompletesNone DEF PrepareDocumentsFails, EnqueueFails, GiveUp, TypeOK
    <2>4. CASE MarkProducerQueued(t)
      BY <2>4, UpdateCompletesNone DEF MarkProducerQueued, TypeOK
    <2>5. \/ UNCHANGED task \/ CreateTask(t) \/ MarkProducerQueued(t)
          \/ PrepareDocumentsFails(t) \/ EnqueueFails(t)
      BY DEF RequestNext, CreateTaskFails, PrepareDocuments, EnqueueFaultTree, EnqueueKnowledgeGraph,
             ResubmitFindsExisting, ResubmitShows, taskVars
    <2> QED BY <2>1, <2>2, <2>3, <2>4, <2>5
  <1> QED BY <1>1, <1>2, SavedStays DEF HandlerStays

LEMMA DispatcherSaves ==
  ASSUME TypeOK, SavedInv, NEW d \in Dispatchers, DispatchNext(d)
  PROVE  SavedInv'
  <1>1. UNCHANGED <<applied, worker, call>>
    BY DEF DispatchNext, TryAcquireProjectLock, DispatcherEnqueue, DispatcherUnlock, MarkDispatchRetrying,
           RequeueDelayed, MarkEnqueued, ReleaseDelayedProducerTask, ReadProducerMessage, taskVars, workerVars
  <1>2. NoneCompletes
    <2>1. CASE UNCHANGED task
      BY <2>1 DEF NoneCompletes
    <2>2. ASSUME NEW t \in Tasks, NEW progress, UpdateStatus(t, "pending", progress)
          PROVE  NoneCompletes
      BY <2>2, UpdateCompletesNone DEF TypeOK
    <2>3. ASSUME NEW t \in Tasks, NEW progress, UpdateStatus(t, "retrying", progress)
          PROVE  NoneCompletes
      BY <2>3, UpdateCompletesNone DEF TypeOK
    <2>4. CASE \E t \in Tasks : ReleaseDelayedProducerTask(d, t) \/ ReadProducerMessage(d, t)
      BY <2>1, <2>2, <2>4 DEF ReleaseDelayedProducerTask, ReadProducerMessage, taskVars
    <2>5. CASE TryAcquireProjectLock(d)
      <3>1. dispatcher[d].task \in Tasks
        BY <2>5 DEF TryAcquireProjectLock, TypeOK, ProducerOK
      <3> QED BY <2>1, <2>2, <2>5, <3>1 DEF TryAcquireProjectLock
    <2>6. CASE MarkDispatchRetrying(d)
      <3>1. dispatcher[d].task \in Tasks
        BY <2>6 DEF MarkDispatchRetrying, TypeOK, ProducerOK
      <3> QED BY <2>1, <2>2, <2>3, <2>6, <3>1 DEF MarkDispatchRetrying
    <2>7. CASE MarkEnqueued(d)
      <3>1. dispatcher[d].task \in Tasks
        BY <2>7 DEF MarkEnqueued, TypeOK, ProducerOK
      <3> QED BY <2>1, <2>2, <2>7, <3>1 DEF MarkEnqueued
    <2>8. CASE DispatcherEnqueue(d) \/ DispatcherUnlock(d) \/ RequeueDelayed(d)
      BY <2>1, <2>8 DEF DispatcherEnqueue, DispatcherUnlock, RequeueDelayed, taskVars
    <2> QED BY <2>4, <2>5, <2>6, <2>7, <2>8 DEF DispatchNext
  <1> QED BY <1>1, <1>2, SavedStays DEF HandlerStays

\* A worker that moves on starts a new callback.
LEMMA WorkSaves ==
  ASSUME TypeOK, SavedInv, NEW w \in Workers, WorkNext(w)
  PROVE  SavedInv'
  <1>1. UNCHANGED <<task, applied>>
    BY DEF WorkNext, ReadMessage, ClaimStalePending, ReleaseDelayedTask, Advance, PostCompleted, FailAttempt,
           AckRescheduled, MoveToDeadLetter, FinishRetry, WorkerRestart, taskVars
  <1>2. /\ \A v \in Workers \ {w} : worker'[v] = worker[v] /\ call'[v] = call[v]
        /\ call'[w].pc \in {"enter", "none"} \/ UNCHANGED <<worker, call>>
    BY DEF WorkNext, ReadMessage, ClaimStalePending, ReleaseDelayedTask, Advance, PostCompleted, FailAttempt,
           AckRescheduled, MoveToDeadLetter, FinishRetry, WorkerRestart, Post, Stop, Accept, NoCall, workerVars,
           TypeOK, WorkersOK
  <1> QED BY <1>1, <1>2, SavedStays DEF HandlerStays, NoneCompletes

\* The save itself: what is saved stays saved.
LEMMA PersistSaves ==
  ASSUME TypeOK, SavedInv, NEW w \in Workers, worker[w].msg.task \in Tasks, PersistGeneratedGraph(w)
  PROVE  SavedInv'
  <1> DEFINE t == worker[w].msg.task
  <1>1. applied \in [Tasks -> Nat] /\ UNCHANGED worker
    BY DEF PersistGeneratedGraph, TypeOK, ProjectsOK
  <1>2. \A v \in Workers \ {w} : call'[v] = call[v]
    BY DEF PersistGeneratedGraph, Serve, ServeOutcome, TypeOK, WorkersOK
  <1>3. CASE applied' = [applied EXCEPT ![t] = @ + 1] /\ Serve(w, "complete") /\ UNCHANGED task
    <2>1. \A u \in Tasks : applied[u] > 0 => applied'[u] > 0
      BY <1>1, <1>3
    <2>2. applied'[t] > 0
      BY <1>1, <1>3
    <2>3. CompletedMeansApplied'
      BY <1>3, <2>1 DEF SavedInv, CompletedMeansApplied
    <2>4. \A v \in Workers : call[v].pc = "complete" => worker[v].msg.task \in Tasks
      BY DEF TypeOK, WorkersOK, Entries
    <2>5. \A v \in Workers \ {w} : HandlerSaved(v)'
      BY <1>1, <1>2, <2>1, <2>4 DEF SavedInv, HandlerSaved
    <2>6. call'[w].pc = "complete"
      BY <1>3 DEF Serve, TypeOK, WorkersOK
    <2>7. HandlerSaved(w)'
      BY <1>1, <2>2, <2>6 DEF HandlerSaved
    <2> QED BY <2>3, <2>5, <2>7 DEF SavedInv
  <1>4. CASE SetFailed(t) /\ ServeOutcome(w, "release", "rejected") /\ UNCHANGED applied
    <2>1. NoneCompletes
      BY <1>4 DEF SetFailed, NoneCompletes, TypeOK, RowsOK
    <2>2. call'[w].pc = "release"
      BY <1>4 DEF ServeOutcome, TypeOK, WorkersOK
    <2> QED BY <1>1, <1>2, <1>4, <2>1, <2>2, SavedStays DEF HandlerStays
  <1> QED BY <1>3, <1>4 DEF PersistGeneratedGraph

LEMMA CallbackSaves ==
  ASSUME TypeOK, SavedInv, NEW w \in Workers, CallbackNext(w)
  PROVE  SavedInv'
  <1>1. worker[w].msg.task \in Tasks
    BY DEF CallbackNext, ReceiveCallback, TouchProjectLock, WriteReported, ShowGenerating, PersistGeneratedGraph,
           SetCompleted, ReleaseProjectLock, ClearTaskStreamEntries, TypeOK, WorkersOK, Entries
  <1>2. UNCHANGED worker /\ \A v \in Workers \ {w} : call'[v] = call[v]
    BY DEF CallbackNext, ReceiveCallback, TouchProjectLock, WriteReported, ShowGenerating, PersistGeneratedGraph,
           SetCompleted, ReleaseProjectLock, ClearTaskStreamEntries, Serve, ServeOutcome, TypeOK, WorkersOK
  <1>3. CASE PersistGeneratedGraph(w)
    BY <1>1, <1>3, PersistSaves
  <1>4. CASE SetCompleted(w)
    <2>1. applied[worker[w].msg.task] > 0 /\ UNCHANGED applied
      BY <1>4 DEF SetCompleted, SavedInv, HandlerSaved
    <2>2. \A u \in Tasks : task'[u].status = "completed" => task[u].status = "completed" \/ u = worker[w].msg.task
      BY <1>4 DEF SetCompleted, TypeOK, RowsOK
    <2>3. CompletedMeansApplied'
      BY <2>1, <2>2 DEF SavedInv, CompletedMeansApplied
    <2>4. call'[w].pc = "release"
      BY <1>4 DEF SetCompleted, ServeOutcome, TypeOK, WorkersOK
    <2>5. \A v \in Workers : HandlerSaved(v)'
      BY <1>2, <2>1, <2>4 DEF SavedInv, HandlerSaved
    <2> QED BY <2>3, <2>5 DEF SavedInv
  <1>5. CASE WriteReported(w)
    <2>1. ReportedStatus(worker[w].st) # "completed"
      BY <1>5 DEF WriteReported, ReportedStatus, SavedInv, HandlerSaved
    <2>2. NoneCompletes
      BY <1>1, <1>5, <2>1 DEF WriteReported, UpdateStatusExt, NoneCompletes, TypeOK, RowsOK
    <2>3. call'[w].pc \in {"release", "project", "err"} /\ UNCHANGED applied
      BY <1>5 DEF WriteReported, Serve, ServeOutcome, TypeOK, WorkersOK
    <2> QED BY <1>2, <2>2, <2>3, SavedStays DEF HandlerStays
  <1>6. CASE TouchProjectLock(w)
    <2>1. HandlerSaved(w)' /\ UNCHANGED <<task, applied>>
      BY <1>6 DEF TouchProjectLock, Serve, SavedInv, HandlerSaved, TypeOK, WorkersOK
    <2> QED BY <1>2, <2>1, SavedStays DEF HandlerStays, NoneCompletes
  <1>7. CASE ReceiveCallback(w)
    <2>1. Verdict(w) # "complete" /\ (Verdict(w) \in {"touch", "write"} => worker[w].st # "completed")
      BY DEF Verdict, StepFor, ReportedStatus
    <2>2. call'[w].pc \in {"ok", Verdict(w)} /\ UNCHANGED <<task, applied>>
      BY <1>7 DEF ReceiveCallback, Serve, TypeOK, WorkersOK
    <2>3. HandlerSaved(w)'
      BY <1>2, <2>1, <2>2 DEF HandlerSaved
    <2> QED BY <1>2, <2>2, <2>3, SavedStays DEF HandlerStays, NoneCompletes
  <1>8. CASE ShowGenerating(w) \/ ReleaseProjectLock(w) \/ ClearTaskStreamEntries(w)
    <2>1. call'[w].pc \in {"ok", "err", "delete", "clear"} /\ UNCHANGED <<task, applied>>
      BY <1>8 DEF ShowGenerating, ReleaseProjectLock, ClearTaskStreamEntries, Serve, TypeOK, WorkersOK
    <2> QED BY <1>2, <2>1, SavedStays DEF HandlerStays, NoneCompletes
  <1> QED BY <1>3, <1>4, <1>5, <1>6, <1>7, <1>8 DEF CallbackNext

LEMMA EnvironmentSaves ==
  ASSUME TypeOK, SavedInv, EnvironmentNext
  PROVE  SavedInv'
  <1>1. UNCHANGED <<task, applied>>
    BY DEF EnvironmentNext, SubmitStart, Resubmit, LoseReply, WorkerCrash, LockExpires, ServerCrash, taskVars
  <1>2. \A v \in Workers : HandlerStays(v)
    BY DEF EnvironmentNext, SubmitStart, Resubmit, LoseReply, WorkerCrash, LockExpires, ServerCrash, NoCall,
           HandlerStays, Serving, workerVars, TypeOK, WorkersOK
  <1> QED BY <1>1, <1>2, SavedStays DEF NoneCompletes

\* In every regime, with every failure: a task that is reported completed has its result in
\* the project's graph.  What fails after the save may repeat the save, never skip it.
THEOREM CompletedMeansAppliedCorrect == Spec => []CompletedMeansApplied
  <1>1. Init => SavedInv
    BY DEF Init, NoCall, SavedInv, CompletedMeansApplied, HandlerSaved
  <1>2. SavedInv /\ TypeOK /\ [Next]_vars => SavedInv'
    <2>1. CASE UNCHANGED vars
      BY <2>1, SavedStays DEF vars, taskVars, workerVars, HandlerStays, NoneCompletes
    <2> QED BY <2>1, RequestSaves, DispatcherSaves, WorkSaves, CallbackSaves, EnvironmentSaves DEF Next
  <1>3. SavedInv => CompletedMeansApplied
    BY DEF SavedInv
  <1> QED BY <1>1, <1>2, <1>3, TypeCorrect, PTL DEF Spec

=============================================================================
