------------------------ MODULE AITaskCustodyProofs ------------------------
(***************************************************************************)
(* Theorems about AITaskPipeline that need to know where a task is: at     *)
(* each moment one place has custody of it, the request, the producer      *)
(* queue, one entry of the worker queues or the one worker engaged on it,  *)
(* and only that place moves the task's row.  This holds for any tasks,    *)
(* projects, workers and dispatchers, and any number and mixture of the    *)
(* failures the code hands a task on through: crashes of workers, lost     *)
(* answers, failing lock and stream commands, an expired lock, requests    *)
(* sent twice.                                                             *)
(***************************************************************************)
EXTENDS AITaskPipelineProofs

\* The failures that can put one task in two places, or cut a handler off midway.
Disorders ==
  {"dbError", "serverCrash", "lateMark", "slowRetrying", "liveReclaim", "crashMidRetry",
   "commandUnknown"}

Orderly == Hazards \intersect Disorders = {}

Final(t) == IsTerminal(task[t].status)

\* Worker w works on t, or is gone while the server still handles its callback on t.
Busy(w, t) == worker[w].st # "idle" /\ Engaged(w) /\ worker[w].msg.task = t

\* The request or a dispatcher has t, before its first entry in the worker stream.
InProducer(t) ==
  \/ NotYetQueued(t)
  \/ t \in producerStream \union producerDelayed
  \/ \E d \in Dispatchers : dispatcher[d].task = t /\ dispatcher[d].pc \notin {"idle", "mark"}

-----------------------------------------------------------------------------
(* The inductive invariant.                                                *)

\* One entry of t waits, or one worker has taken it; a retry's new entry waits beside
\* the old one only until the worker that added it has reported the retry.
EntryInv(t) ==
  /\ \A e, f \in workerStream \union workerDelayed : e.task = t /\ f.task = t => e = f
  /\ \A e \in workerStream : e.task = t =>
       /\ e \notin workerDelayed
       /\ \A r \in pending : r.entry.task # t
       /\ \A w \in Workers : ~Busy(w, t)
  /\ \A e \in workerDelayed : e.task = t =>
       /\ \A r \in pending : r.entry.task = t =>
            Busy(r.owner, t) /\ worker[r.owner].st = "rescheduled"
       /\ \A w \in Workers : Busy(w, t) => worker[w].st \in {"rescheduled", "retrying"}
  /\ \A r, s \in pending : r.entry.task = t /\ s.entry.task = t => r = s
  /\ \A r \in pending, w \in Workers : r.entry.task = t /\ Busy(w, t) =>
       r.owner = w /\ worker[w].msg = r.entry
  /\ \A v, w \in Workers : Busy(v, t) /\ Busy(w, t) => v = w

\* No worker sees t before it is dispatched, and its row is open until then and until
\* the last update that follows an enqueue.
ProducerInv(t) ==
  /\ InProducer(t) => ~Final(t) /\ ~HasEntry(t) /\ \A w \in Workers : ~Busy(w, t)
  /\ MarkPending(t) =>
       ~Final(t) /\ \A w \in Workers : Busy(w, t) => worker[w].st \notin {"completed", "dead"}

\* How far a handler is, and what the row it has judged is like by then.
HandlerInv(w, t) ==
  /\ worker[w].st \in {"rescheduled", "acked"} => call[w].pc = "none"
  /\ worker[w].st \in {"rescheduled", "acked", "retrying", "dead"} => worker[w].up
  /\ call[w].pc \in {"touch", "project"} => ~Final(t) /\ worker[w].st \notin {"completed", "dead"}
  /\ call[w].pc = "write" =>
       worker[w].st # "completed" /\ (Final(t) => worker[w].st = "dead" /\ task[t].status = "failed")
  /\ call[w].pc \in {"persist", "complete"} => ~Final(t) /\ worker[w].st = "completed"
  /\ call[w].pc \in {"release", "delete", "clear"} =>
       /\ Final(t)
       /\ call[w].out = "completed" => task[t].status = "completed"
       /\ call[w].out = "failed" => task[t].status = "dead"
       /\ call[w].out = "rejected" => task[t].status = "failed"
  /\ call[w].pc \in {"enter", "touch", "write", "project", "persist", "complete"} =>
       call[w].out = "none"

\* A result that was saved has completed its task, or its handler is about to.
SaveInv(t) ==
  /\ applied[t] <= 1
  /\ applied[t] > 0 =>
       task[t].status = "completed" \/ \E w \in Workers : Busy(w, t) /\ call[w].pc = "complete"

TaskInv(t) ==
  /\ EntryInv(t) /\ ProducerInv(t) /\ SaveInv(t)
  /\ \A w \in Workers : Busy(w, t) => HandlerInv(w, t)

IdleInv == \A w \in Workers : worker[w].st = "idle" => call[w].pc = "none" /\ worker[w].up

CustodyInv == TypeOK /\ DispatchedOnce /\ IdleInv /\ \A t \in Tasks : TaskInv(t)

\* Work that is not over, in the worker queues or on its way there, has the lock.
HeldInv ==
  \A t \in FaultTreeTasks :
    /\ ~Final(t)
    /\ \/ HasEntry(t)
       \/ \E w \in Workers : Busy(w, t)
       \/ \E d \in Dispatchers : dispatcher[d].pc = "enqueue" /\ dispatcher[d].task = t
    => lock[ProjectOf[t]] = t

\* Who is about to delete a lock has seen that it is its task's, and it still is.
DeleteInv ==
  /\ \A w \in Workers : call[w].pc = "delete" =>
       lock[ProjectOf[worker[w].msg.task]] = worker[w].msg.task
  /\ \A d \in Dispatchers : dispatcher[d].pc = "delete" =>
       lock[ProjectOf[dispatcher[d].task]] = dispatcher[d].task

\* A lock is its project's task's, which has left its request; if that task is over, its
\* handler is about to look at the lock or to delete it.
OwnerInv ==
  \A p \in Projects : lock[p] # NoTask =>
    /\ ProjectOf[lock[p]] = p
    /\ ~NotYetQueued(lock[p])
    /\ Final(lock[p]) =>
         \E w \in Workers : Busy(w, lock[p]) /\ call[w].pc \in {"release", "delete"}

\* A task by which its project's column is right, or will be put right: it is not over
\* yet, its final callback still has to show it, or the project shows it.
Shows(t) ==
  \/ submit[t] # "done"
  \/ ~Final(t)
  \/ \E w \in Workers : /\ Busy(w, t) /\ call[w].pc \in {"release", "delete", "clear"}
                        /\ call[w].out \in {"completed", "failed", "rejected"}
  \/ project[ProjectOf[t]] = ProjectGenerationStatus(task[t].status)

ShownInv ==
  /\ \A t \in Tasks : again[t] = "idle"
  /\ \A t \in Tasks : submit[t] # "new" =>
       \E u \in Tasks : ProjectOf[u] = ProjectOf[t] /\ submit[u] # "new" /\ Shows(u)

-----------------------------------------------------------------------------
(* What a worker and the handler of its callback do to themselves.         *)

\* Nobody else's work or callback changes.
Alone(w) == \A v \in Workers : v # w => worker'[v] = worker[v] /\ call'[v] = call[v]

LEMMA PostMoves ==
  ASSUME TypeOK, NEW w \in Workers, NEW st, NEW doc, Post(w, st, doc)
  PROVE  /\ Alone(w) /\ worker'[w].st = st
         /\ worker'[w].msg = worker[w].msg /\ worker'[w].up = worker[w].up
         /\ call'[w].pc = "enter" /\ call'[w].out = "none"
  BY DEF TypeOK, WorkersOK, Post, Alone

LEMMA StopMoves ==
  ASSUME TypeOK, NEW w \in Workers, Stop(w)
  PROVE  /\ Alone(w) /\ worker'[w].st = "idle" /\ worker'[w].up /\ call'[w].pc = "none"
  BY DEF TypeOK, WorkersOK, Stop, Alone, IdleWorker, NoCall

LEMMA AcceptMoves ==
  ASSUME TypeOK, NEW w \in Workers, NEW e, Accept(w, e)
  PROVE  /\ Alone(w) /\ worker'[w].st = "accepted" /\ worker'[w].msg = e /\ worker'[w].up
         /\ call'[w].pc = "enter" /\ call'[w].out = "none"
  BY DEF TypeOK, WorkersOK, Accept, Alone

LEMMA ServeMoves ==
  ASSUME TypeOK, NEW w \in Workers, NEW pc, Serve(w, pc), UNCHANGED worker
  PROVE  Alone(w) /\ call'[w].pc = pc /\ call'[w].out = call[w].out
  BY DEF TypeOK, WorkersOK, Serve, Alone

LEMMA ServeOutcomeMoves ==
  ASSUME TypeOK, NEW w \in Workers, NEW pc, NEW out, ServeOutcome(w, pc, out), UNCHANGED worker
  PROVE  Alone(w) /\ call'[w].pc = pc /\ call'[w].out = out
  BY DEF TypeOK, WorkersOK, ServeOutcome, Alone

LEMMA FailMoves ==
  ASSUME TypeOK, NEW w \in Workers, NEW st, worker' = [worker EXCEPT ![w].st = st],
         call' = [call EXCEPT ![w] = NoCall]
  PROVE  /\ Alone(w) /\ worker'[w].st = st
         /\ worker'[w].msg = worker[w].msg /\ worker'[w].up = worker[w].up
         /\ call'[w].pc = "none"
  BY DEF TypeOK, WorkersOK, Alone, NoCall

\* Who is at work has an entry, of some task.
LEMMA AtWork ==
  ASSUME TypeOK, NEW w \in Workers, worker[w].st # "idle" \/ call[w].pc # "none"
  PROVE  worker[w].msg \in Entries /\ worker[w].msg.task \in Tasks
  BY DEF TypeOK, WorkersOK, Entries

\* Who serves a callback, or runs, is busy with its task and with no other.
LEMMA ServingIsBusy ==
  ASSUME CustodyInv, NEW w \in Workers, Serving(w) \/ Running(w)
  PROVE  /\ Busy(w, worker[w].msg.task) /\ worker[w].msg.task \in Tasks
         /\ \A t : Busy(w, t) => t = worker[w].msg.task
  <1>1. worker[w].st # "idle"
    BY DEF CustodyInv, IdleInv, Serving, Running
  <1>2. worker[w].msg.task \in Tasks
    BY <1>1, AtWork DEF CustodyInv
  <1> QED BY <1>1, <1>2 DEF Busy, Engaged, Running

-----------------------------------------------------------------------------
(* Tasks that a step of worker w has nothing to do with.                   *)

\* The step adds no entry of t.
NoNewEntry(t) ==
  /\ \A e \in workerStream' : e.task = t => e \in workerStream
  /\ \A e \in workerDelayed' : e.task = t => e \in workerDelayed
  /\ \A r \in pending' : r.entry.task = t => r \in pending

\* The request and the producer queue stay as they are, but for entries deleted.
ProducerStays ==
  /\ UNCHANGED <<submit, producerDelayed, dispatcher>>
  /\ producerStream' \subseteq producerStream

LEMMA ProducerKeeps ==
  ASSUME ProducerStays, NEW t
  PROVE  /\ InProducer(t)' => InProducer(t)
         /\ MarkPending(t)' <=> MarkPending(t)
         /\ NotYetQueued(t)' <=> NotYetQueued(t)
  BY DEF ProducerStays, InProducer, MarkPending, NotYetQueued

LEMMA BusyStays ==
  ASSUME NEW w, Alone(w), NEW v \in Workers, v # w
  PROVE  /\ \A t : Busy(v, t)' <=> Busy(v, t)
         /\ worker'[v] = worker[v] /\ call'[v] = call[v]
  BY DEF Alone, Busy, Engaged, Serving

LEMMA OthersStay ==
  ASSUME TypeOK, NEW w \in Workers, NEW t \in Tasks, TaskInv(t), Alone(w),
         ~Busy(w, t), ~Busy(w, t)', NoNewEntry(t), ProducerStays, task'[t] = task[t], applied'[t] = applied[t]
  PROVE  TaskInv(t)'
  <1>1. \A v \in Workers : /\ Busy(v, t)' <=> Busy(v, t)
                           /\ Busy(v, t) => worker'[v] = worker[v] /\ call'[v] = call[v]
    BY BusyStays
  <1>2. EntryInv(t)'
    <2> USE DEF TaskInv, EntryInv, NoNewEntry
    <2>1. \A e, f \in workerStream' \union workerDelayed' : e.task = t /\ f.task = t => e = f
      OBVIOUS
    <2>2. \A e \in workerStream' : e.task = t =>
            /\ e \notin workerDelayed'
            /\ \A r \in pending' : r.entry.task # t
            /\ \A v \in Workers : ~Busy(v, t)'
      BY <1>1
    <2>3. \A e \in workerDelayed', r \in pending' : e.task = t /\ r.entry.task = t =>
            Busy(r.owner, t)' /\ worker'[r.owner].st = "rescheduled"
      <3> SUFFICES ASSUME NEW e \in workerDelayed', NEW r \in pending', e.task = t, r.entry.task = t
                   PROVE  Busy(r.owner, t)' /\ worker'[r.owner].st = "rescheduled"
        OBVIOUS
      <3>1. r \in pending /\ Busy(r.owner, t) /\ worker[r.owner].st = "rescheduled"
        OBVIOUS
      <3>2. r.owner \in Workers
        BY <3>1 DEF TypeOK, QueuesOK
      <3> QED BY <1>1, <3>1, <3>2
    <2>4. \A e \in workerDelayed', v \in Workers : e.task = t /\ Busy(v, t)' =>
            worker'[v].st \in {"rescheduled", "retrying"}
      BY <1>1
    <2>5. \A r, s \in pending' : r.entry.task = t /\ s.entry.task = t => r = s
      OBVIOUS
    <2>6. \A r \in pending', v \in Workers : r.entry.task = t /\ Busy(v, t)' =>
            r.owner = v /\ worker'[v].msg = r.entry
      BY <1>1
    <2>7. \A u, v \in Workers : Busy(u, t)' /\ Busy(v, t)' => u = v
      BY <1>1
    <2> QED BY <2>1, <2>2, <2>3, <2>4, <2>5, <2>6, <2>7
  <1>3. ProducerInv(t)'
    <2>1. HasEntry(t)' => HasEntry(t)
      BY DEF HasEntry, NoNewEntry
    <2> QED BY <1>1, <2>1, ProducerKeeps DEF TaskInv, ProducerInv, Final
  <1>4. SaveInv(t)'
    BY <1>1 DEF TaskInv, SaveInv
  <1>5. \A v \in Workers : Busy(v, t)' => HandlerInv(v, t)'
    BY <1>1 DEF TaskInv, HandlerInv, Final
  <1> QED BY <1>2, <1>3, <1>4, <1>5 DEF TaskInv

-----------------------------------------------------------------------------
(* The task that worker w works on.                                        *)

\* Nobody else is busy with w's task.
LEMMA OnlyBusy ==
  ASSUME NEW t, EntryInv(t), NEW w \in Workers, Busy(w, t), Alone(w)
  PROVE  \A v \in Workers : v # w => ~Busy(v, t) /\ ~Busy(v, t)'
  BY BusyStays DEF EntryInv

\* w goes on with its entry, or lets it go, and adds none.
LEMMA EntryStays ==
  ASSUME TypeOK, NEW w \in Workers, NEW t \in Tasks, EntryInv(t), Busy(w, t), Alone(w),
         worker[w].st # "rescheduled", NoNewEntry(t),
         Busy(w, t)' => /\ worker'[w].msg = worker[w].msg
                        /\ worker[w].st = "retrying" => worker'[w].st = "retrying"
  PROVE  EntryInv(t)'
  <1> USE DEF EntryInv, NoNewEntry
  <1>1. \A v \in Workers : v # w => ~Busy(v, t) /\ ~Busy(v, t)'
    BY OnlyBusy
  <1>2. \A e, f \in workerStream' \union workerDelayed' : e.task = t /\ f.task = t => e = f
    OBVIOUS
  <1>3. \A e \in workerStream' : e.task # t
    OBVIOUS
  <1>4. \A e \in workerDelayed', r \in pending' : ~(e.task = t /\ r.entry.task = t)
    <2> SUFFICES ASSUME NEW e \in workerDelayed', NEW r \in pending', e.task = t, r.entry.task = t
                 PROVE  FALSE
      OBVIOUS
    <2>1. r \in pending /\ Busy(r.owner, t) /\ worker[r.owner].st = "rescheduled"
      OBVIOUS
    <2>2. r.owner \in Workers
      BY <2>1 DEF TypeOK, QueuesOK
    <2> QED BY <1>1, <2>1, <2>2
  <1>5. \A e \in workerDelayed', v \in Workers : e.task = t /\ Busy(v, t)' =>
          worker'[v].st \in {"rescheduled", "retrying"}
    BY <1>1
  <1>6. \A r, s \in pending' : r.entry.task = t /\ s.entry.task = t => r = s
    OBVIOUS
  <1>7. \A r \in pending', v \in Workers : r.entry.task = t /\ Busy(v, t)' =>
          r.owner = v /\ worker'[v].msg = r.entry
    BY <1>1
  <1>8. \A u, v \in Workers : Busy(u, t)' /\ Busy(v, t)' => u = v
    BY <1>1
  <1> QED BY <1>2, <1>3, <1>4, <1>5, <1>6, <1>7, <1>8

\* The task of w is as it should be if its entry, its row and w itself are.
LEMMA TaskGoesOn ==
  ASSUME NEW w \in Workers, NEW t \in Tasks, TaskInv(t), Busy(w, t), Alone(w),
         ProducerStays, EntryInv(t)', SaveInv(t)',
         MarkPending(t) =>
           ~Final(t)' /\ (Busy(w, t)' => worker'[w].st \notin {"completed", "dead"}),
         Busy(w, t)' => HandlerInv(w, t)'
  PROVE  TaskInv(t)'
  <1>1. \A v \in Workers : v # w => ~Busy(v, t) /\ ~Busy(v, t)'
    BY OnlyBusy DEF TaskInv
  <1>2. ~InProducer(t)' /\ (MarkPending(t)' <=> MarkPending(t))
    BY ProducerKeeps DEF TaskInv, ProducerInv
  <1>3. ProducerInv(t)'
    BY <1>1, <1>2 DEF ProducerInv
  <1> QED BY <1>1, <1>3 DEF TaskInv

\* Worker w, at its task t, moves, and with it only what is t's.
MovesOn(w, t) ==
  /\ Alone(w) /\ ProducerStays
  /\ worker'[w].st = "idle" => call'[w].pc = "none" /\ worker'[w].up
  /\ \A u \in Tasks : u # t =>
       ~Busy(w, u) /\ ~Busy(w, u)' /\ NoNewEntry(u) /\ task'[u] = task[u] /\ applied'[u] = applied[u]

LEMMA CustodyMoves ==
  ASSUME CustodyInv, TypeOK', DispatchedOnce', NEW w \in Workers, NEW t \in Tasks,
         MovesOn(w, t), TaskInv(t)'
  PROVE  CustodyInv'
  <1>1. IdleInv'
    BY DEF CustodyInv, IdleInv, MovesOn, Alone
  <1>2. \A u \in Tasks : u # t => TaskInv(u)'
    BY OthersStay DEF CustodyInv, MovesOn
  <1> QED BY <1>1, <1>2 DEF CustodyInv

\* Rows and results stay as they are.
LEMMA SaveStays ==
  ASSUME NEW w \in Workers, NEW t \in Tasks, TaskInv(t), Busy(w, t), Alone(w),
         task'[t] = task[t], applied'[t] = applied[t],
         call[w].pc = "complete" => Busy(w, t)' /\ call'[w].pc = "complete"
  PROVE  SaveInv(t)'
  <1>1. \A v \in Workers : v # w => ~Busy(v, t) /\ ~Busy(v, t)'
    BY OnlyBusy DEF TaskInv
  <1> QED BY <1>1 DEF TaskInv, SaveInv

\* Without its disorders, what a step meets is none of them.
LEMMA NoDisorder ==
  ASSUME Orderly, NEW h \in Disorders
  PROVE  ~Meet(h)
  BY DEF Orderly, Meet

-----------------------------------------------------------------------------
(* Workers.                                                                *)

\* No entry is added.
NoNewEntries == workerStream' \subseteq workerStream /\ workerDelayed' \subseteq workerDelayed
                /\ pending' \subseteq pending

LEMMA AddsNone ==
  ASSUME NoNewEntries, NEW t
  PROVE  NoNewEntry(t)
  BY DEF NoNewEntries, NoNewEntry

LEMMA RunsOn ==
  ASSUME CustodyInv, NEW w \in Workers, Serving(w) \/ Running(w), Alone(w), ProducerStays,
         \A u \in Tasks : u # worker[w].msg.task =>
           NoNewEntry(u) /\ task'[u] = task[u] /\ applied'[u] = applied[u],
         worker'[w].st = "idle" \/ worker'[w].msg = worker[w].msg,
         worker'[w].st = "idle" => call'[w].pc = "none" /\ worker'[w].up
  PROVE  MovesOn(w, worker[w].msg.task)
  BY ServingIsBusy DEF MovesOn, Busy

\* What w's steps rely on.
LEMMA AtTask ==
  ASSUME CustodyInv, NEW w \in Workers, Serving(w) \/ Running(w), NEW t, t = worker[w].msg.task
  PROVE  /\ t \in Tasks /\ TypeOK /\ TaskInv(t) /\ EntryInv(t) /\ Busy(w, t) /\ HandlerInv(w, t)
  BY ServingIsBusy DEF CustodyInv, TaskInv

\* A worker posts what it has come to.
LEMMA PostKeeps ==
  ASSUME CustodyInv, TypeOK', DispatchedOnce', NEW w \in Workers, Running(w), ~Serving(w),
         worker[w].st \notin {"rescheduled", "retrying"},
         NEW st \in {"parsing", "ready", "completed", "dead"}, NEW doc, Post(w, st, doc),
         st \in {"completed", "dead"} => ~MarkPending(worker[w].msg.task),
         NoNewEntries, ProducerStays, UNCHANGED <<task, applied>>
  PROVE  CustodyInv'
  <1>t. PICK t \in Tasks : t = worker[w].msg.task
    BY ServingIsBusy
  <1>1. /\ TypeOK /\ TaskInv(t) /\ EntryInv(t) /\ Busy(w, t) /\ HandlerInv(w, t)
    BY <1>t, AtTask
  <1>2. /\ Alone(w) /\ worker'[w].st = st
        /\ worker'[w].msg = worker[w].msg /\ worker'[w].up
        /\ call'[w].pc = "enter" /\ call'[w].out = "none"
    BY <1>1, PostMoves DEF Running
  <1>3. MovesOn(w, t)
    BY <1>t, <1>2, RunsOn, AddsNone
  <1>4. EntryInv(t)'
    BY <1>1, <1>2, EntryStays, AddsNone
  <1>5. SaveInv(t)'
    BY <1>1, <1>2, SaveStays DEF Serving
  <1>6. HandlerInv(w, t)'
    BY <1>2 DEF HandlerInv
  <1>7. MarkPending(t) =>
          ~Final(t)' /\ (Busy(w, t)' => worker'[w].st \notin {"completed", "dead"})
    BY <1>t, <1>1, <1>2 DEF TaskInv, ProducerInv, Final
  <1>8. TaskInv(t)'
    BY <1>1, <1>2, <1>4, <1>5, <1>6, <1>7, TaskGoesOn
  <1> QED BY <1>1, <1>3, <1>8, CustodyMoves

\* A worker is done with its entry.
LEMMA StopKeeps ==
  ASSUME CustodyInv, TypeOK', DispatchedOnce', NEW w \in Workers, Running(w), ~Serving(w),
         worker[w].st # "rescheduled", Stop(w),
         NoNewEntries, ProducerStays, UNCHANGED <<task, applied>>
  PROVE  CustodyInv'
  <1>t. PICK t \in Tasks : t = worker[w].msg.task
    BY ServingIsBusy
  <1>1. /\ TypeOK /\ TaskInv(t) /\ EntryInv(t) /\ Busy(w, t) /\ HandlerInv(w, t)
    BY <1>t, AtTask
  <1>2. /\ Alone(w) /\ worker'[w].st = "idle" /\ worker'[w].up /\ call'[w].pc = "none"
    BY <1>1, StopMoves
  <1>3. MovesOn(w, t)
    BY <1>t, <1>2, RunsOn, AddsNone
  <1>4. ~Busy(w, t)'
    BY <1>2 DEF Busy
  <1>5. EntryInv(t)'
    BY <1>1, <1>2, <1>4, EntryStays, AddsNone
  <1>6. SaveInv(t)'
    BY <1>1, <1>2, SaveStays DEF Serving
  <1>7. MarkPending(t) => ~Final(t)'
    BY <1>1 DEF TaskInv, ProducerInv, Final
  <1>8. TaskInv(t)'
    BY <1>1, <1>2, <1>4, <1>5, <1>6, <1>7, TaskGoesOn
  <1> QED BY <1>1, <1>3, <1>8, CustodyMoves

\* A worker has failed for the last time, and acknowledges its entry.
LEMMA BuryKeeps ==
  ASSUME CustodyInv, TypeOK', DispatchedOnce', NEW w \in Workers, Running(w), ~Serving(w),
         worker[w].st \in {"accepted", "parsing", "ready", "completed"},
         worker' = [worker EXCEPT ![w].st = "acked"], call' = [call EXCEPT ![w] = NoCall],
         NoNewEntries, ProducerStays, UNCHANGED <<task, applied>>
  PROVE  CustodyInv'
  <1>t. PICK t \in Tasks : t = worker[w].msg.task
    BY ServingIsBusy
  <1>1. /\ TypeOK /\ TaskInv(t) /\ EntryInv(t) /\ Busy(w, t) /\ HandlerInv(w, t)
    BY <1>t, AtTask
  <1>2. /\ Alone(w) /\ worker'[w].st = "acked"
        /\ worker'[w].msg = worker[w].msg /\ worker'[w].up /\ call'[w].pc = "none"
    BY <1>1, FailMoves DEF Running
  <1>3. MovesOn(w, t)
    BY <1>t, <1>2, RunsOn, AddsNone
  <1>4. EntryInv(t)'
    BY <1>1, <1>2, EntryStays, AddsNone
  <1>5. SaveInv(t)'
    BY <1>1, <1>2, SaveStays DEF Serving
  <1>6. HandlerInv(w, t)'
    BY <1>2 DEF HandlerInv
  <1>7. MarkPending(t) => ~Final(t)'
    BY <1>1 DEF TaskInv, ProducerInv, Final
  <1>8. TaskInv(t)'
    BY <1>1, <1>2, <1>4, <1>5, <1>6, <1>7, TaskGoesOn
  <1> QED BY <1>1, <1>3, <1>8, CustodyMoves

\* A worker adds the entry of its next attempt.
LEMMA RetryKeeps ==
  ASSUME CustodyInv, TypeOK', DispatchedOnce', NEW w \in Workers, Running(w), ~Serving(w),
         worker[w].st \in {"accepted", "parsing", "ready", "completed"},
         worker' = [worker EXCEPT ![w].st = "rescheduled"], call' = [call EXCEPT ![w] = NoCall],
         NEW e, e.task = worker[w].msg.task, workerDelayed' = workerDelayed \union {e},
         UNCHANGED <<workerStream, pending>>, ProducerStays, UNCHANGED <<task, applied>>
  PROVE  CustodyInv'
  <1>t. PICK t \in Tasks : t = worker[w].msg.task
    BY ServingIsBusy
  <1>1. /\ TypeOK /\ TaskInv(t) /\ EntryInv(t) /\ Busy(w, t) /\ HandlerInv(w, t)
    BY <1>t, AtTask
  <1>2. /\ Alone(w) /\ worker'[w].st = "rescheduled"
        /\ worker'[w].msg = worker[w].msg /\ worker'[w].up /\ call'[w].pc = "none"
    BY <1>1, FailMoves DEF Running
  <1>3. \A u \in Tasks : u # t => NoNewEntry(u)
    BY <1>t DEF NoNewEntry
  <1>4. MovesOn(w, t)
    BY <1>t, <1>2, <1>3, RunsOn
  <1>5. \A v \in Workers : v # w => ~Busy(v, t) /\ ~Busy(v, t)'
    BY <1>1, <1>2, OnlyBusy
  <1>6. Busy(w, t)'
    BY <1>t, <1>2 DEF Busy, Engaged
  <1>7. /\ \A f \in workerStream \union workerDelayed : f.task # t
        /\ \A r \in pending : r.entry.task = t => r.owner = w /\ worker[w].msg = r.entry
    BY <1>1 DEF EntryInv
  <1>8. EntryInv(t)'
    BY <1>1, <1>2, <1>5, <1>6, <1>7 DEF EntryInv
  <1>9. SaveInv(t)'
    BY <1>1, <1>2, SaveStays DEF Serving
  <1>10. HandlerInv(w, t)'
    BY <1>2 DEF HandlerInv
  <1>11. MarkPending(t) => ~Final(t)'
    BY <1>1 DEF TaskInv, ProducerInv, Final
  <1>12. TaskInv(t)'
    BY <1>1, <1>2, <1>8, <1>9, <1>10, <1>11, TaskGoesOn
  <1> QED BY <1>1, <1>4, <1>12, CustodyMoves

\* Having added it, the worker acknowledges the old one and reports the retry.
LEMMA AckKeeps ==
  ASSUME CustodyInv, TypeOK', DispatchedOnce', NEW w \in Workers, AckRescheduled(w)
  PROVE  CustodyInv'
  <1>r. Running(w) /\ worker[w].st = "rescheduled" /\ Post(w, "retrying", 0)
    BY DEF AckRescheduled
  <1>t. PICK t \in Tasks : t = worker[w].msg.task
    BY <1>r, ServingIsBusy
  <1>1. /\ TypeOK /\ TaskInv(t) /\ EntryInv(t) /\ Busy(w, t) /\ HandlerInv(w, t)
    BY <1>r, <1>t, AtTask
  <1>2. /\ Alone(w) /\ worker'[w].st = "retrying"
        /\ worker'[w].msg = worker[w].msg /\ worker'[w].up
        /\ call'[w].pc = "enter" /\ call'[w].out = "none"
    BY <1>r, <1>1, PostMoves DEF Running
  <1>3. /\ NoNewEntries /\ ProducerStays /\ UNCHANGED <<task, applied, workerStream, workerDelayed>>
        /\ pending' = {r \in pending : r.entry # worker[w].msg}
    BY DEF AckRescheduled, Ack, NoNewEntries, ProducerStays, taskVars, requestVars, producerVars
  <1>4. MovesOn(w, t)
    BY <1>r, <1>t, <1>2, <1>3, RunsOn, AddsNone
  <1>5. \A v \in Workers : v # w => ~Busy(v, t) /\ ~Busy(v, t)'
    BY <1>1, <1>2, OnlyBusy
  <1>6. \A r \in pending' : r.entry.task # t
    BY <1>1, <1>3 DEF EntryInv
  <1>7. \A f \in workerStream : f.task # t
    BY <1>1 DEF EntryInv
  <1>8. EntryInv(t)'
    BY <1>1, <1>2, <1>3, <1>5, <1>6, <1>7 DEF EntryInv
  <1>9. SaveInv(t)'
    BY <1>r, <1>1, <1>2, <1>3, SaveStays DEF HandlerInv
  <1>10. HandlerInv(w, t)'
    BY <1>2 DEF HandlerInv
  <1>11. MarkPending(t) => ~Final(t)'
    BY <1>1, <1>3 DEF TaskInv, ProducerInv, Final
  <1>12. TaskInv(t)'
    BY <1>1, <1>2, <1>3, <1>8, <1>9, <1>10, <1>11, TaskGoesOn
  <1> QED BY <1>1, <1>4, <1>12, CustodyMoves

\* A worker takes the one entry of t there is, that nobody is busy with.
LEMMA TakeKeeps ==
  ASSUME CustodyInv, TypeOK', DispatchedOnce', NEW w \in Workers, Idle(w), NEW e, NEW t \in Tasks,
         e.task = t, Accept(w, e), HasEntry(t), \A v \in Workers : ~Busy(v, t),
         workerStream' \subseteq workerStream, workerDelayed' \subseteq workerDelayed,
         \A f \in workerStream' \union workerDelayed' : f.task # t,
         \A r \in pending' : r \in pending \/ r.entry = e,
         \A r \in pending' : r.entry.task = t => r.entry = e /\ r.owner = w,
         pending' \subseteq [entry : Entries, owner : Workers],
         ProducerStays, UNCHANGED <<task, applied>>
  PROVE  CustodyInv'
  <1>1. TypeOK /\ TaskInv(t)
    BY DEF CustodyInv
  <1>2. /\ Alone(w) /\ worker'[w].st = "accepted" /\ worker'[w].msg = e /\ worker'[w].up
        /\ call'[w].pc = "enter" /\ call'[w].out = "none"
    BY <1>1, AcceptMoves
  <1>3. MovesOn(w, t)
    <2>1. \A u \in Tasks : u # t => ~Busy(w, u) /\ ~Busy(w, u)'
      BY <1>2 DEF Idle, Busy
    <2>2. \A u \in Tasks : u # t => NoNewEntry(u)
      BY DEF NoNewEntry
    <2> QED BY <1>2, <2>1, <2>2 DEF MovesOn
  <1>4. \A v \in Workers : v # w => ~Busy(v, t)'
    BY <1>2, BusyStays
  <1>5. EntryInv(t)'
    <2>1. \A r, s \in pending' : r.entry.task = t /\ s.entry.task = t => r = s
      <3> SUFFICES ASSUME NEW r \in pending', NEW s \in pending', r.entry.task = t, s.entry.task = t
                   PROVE  r = s
        OBVIOUS
      <3>1. r \in [entry : Entries, owner : Workers] /\ s \in [entry : Entries, owner : Workers]
        OBVIOUS
      <3>2. r.entry = s.entry /\ r.owner = s.owner
        OBVIOUS
      <3> QED BY <3>1, <3>2
    <2> QED BY <1>2, <1>4, <2>1 DEF EntryInv
  <1>6. ProducerInv(t)'
    <2>1. ~InProducer(t)' /\ (MarkPending(t)' => ~Final(t)')
      BY <1>1, ProducerKeeps DEF TaskInv, ProducerInv, Final
    <2> QED BY <1>2, <1>4, <2>1 DEF ProducerInv
  <1>7. SaveInv(t)'
    BY <1>1 DEF TaskInv, SaveInv
  <1>8. HandlerInv(w, t)'
    BY <1>2 DEF HandlerInv
  <1>9. TaskInv(t)'
    BY <1>4, <1>5, <1>6, <1>7, <1>8 DEF TaskInv
  <1> QED BY <1>3, <1>9, CustodyMoves

LEMMA ReadKeeps ==
  ASSUME CustodyInv, TypeOK', DispatchedOnce', NEW w \in Workers, NEW e \in workerStream,
         ReadMessage(w, e)
  PROVE  CustodyInv'
  <1>t. PICK t \in Tasks : t = e.task
    BY DEF CustodyInv, TypeOK, QueuesOK, Entries
  <1>1. EntryInv(t) /\ HasEntry(t) /\ pending' \subseteq [entry : Entries, owner : Workers]
    BY <1>t DEF CustodyInv, TaskInv, HasEntry, TypeOK, QueuesOK
  <1>2. /\ Idle(w) /\ Accept(w, e) /\ ProducerStays /\ UNCHANGED <<task, applied>>
        /\ workerStream' = workerStream \ {e} /\ workerDelayed' = workerDelayed
        /\ pending' = pending \union {[entry |-> e, owner |-> w]}
    BY DEF ReadMessage, Deliver, ProducerStays, taskVars, requestVars, producerVars
  <1>3. /\ \A f \in workerStream' \union workerDelayed' : f.task # t
        /\ \A r \in pending : r.entry.task # t
        /\ \A v \in Workers : ~Busy(v, t)
    BY <1>t, <1>1, <1>2 DEF EntryInv
  <1> QED BY <1>t, <1>1, <1>2, <1>3, TakeKeeps

LEMMA ClaimKeeps ==
  ASSUME Orderly, CustodyInv, TypeOK', DispatchedOnce', NEW w \in Workers, NEW r \in pending,
         ClaimStalePending(w, r)
  PROVE  CustodyInv'
  <1>r. r.entry \in Entries /\ r.owner \in Workers
    BY DEF CustodyInv, TypeOK, QueuesOK
  <1>t. PICK t \in Tasks : t = r.entry.task
    BY <1>r DEF Entries
  <1>1. EntryInv(t) /\ HasEntry(t) /\ pending' \subseteq [entry : Entries, owner : Workers]
    BY <1>t DEF CustodyInv, TaskInv, HasEntry, TypeOK, QueuesOK
  <1>2. /\ Idle(w) /\ Accept(w, r.entry) /\ ProducerStays
        /\ UNCHANGED <<task, applied, workerStream, workerDelayed>>
        /\ pending' = (pending \ {r}) \union {[entry |-> r.entry, owner |-> w]}
    BY DEF ClaimStalePending, ProducerStays, taskVars, requestVars, producerVars
  <1>3. ~(worker[r.owner].msg = r.entry /\ Engaged(r.owner))
    BY NoDisorder DEF ClaimStalePending, Disorders
  <1>4. \A v \in Workers : ~Busy(v, t)
    BY <1>t, <1>1, <1>3 DEF EntryInv, Busy
  <1>5. /\ \A f \in workerStream \union workerDelayed : f.task # t
        /\ \A s \in pending : s.entry.task = t => s = r
    BY <1>r, <1>t, <1>1, <1>4 DEF EntryInv
  <1> QED BY <1>t, <1>1, <1>2, <1>4, <1>5, TakeKeeps

\* An entry that is due goes from the delayed set to the stream.
LEMMA ReleaseKeeps ==
  ASSUME Orderly, CustodyInv, TypeOK', DispatchedOnce', NEW w \in Workers, NEW e \in workerDelayed,
         ReleaseDelayedTask(w, e)
  PROVE  CustodyInv'
  <1>t. PICK t \in Tasks : t = e.task
    BY DEF CustodyInv, TypeOK, QueuesOK, Entries
  <1>1. TypeOK /\ TaskInv(t) /\ EntryInv(t) /\ HasEntry(t)
    BY <1>t DEF CustodyInv, TaskInv, HasEntry
  <1>2. /\ workerDelayed' = workerDelayed \ {e} /\ workerStream' = workerStream \union {e}
        /\ ~RetryUnfinished(t) /\ ProducerStays /\ UNCHANGED <<task, applied, pending, worker, call>>
    BY <1>t, NoDisorder
       DEF ReleaseDelayedTask, Disorders, ProducerStays, taskVars, requestVars, producerVars, workerVars
  <1>3. /\ \A v \in Workers : ~Busy(v, t)
        /\ \A r \in pending : r.entry.task # t
    <2>1. \A v \in Workers : ~Busy(v, t)
      BY <1>t, <1>1, <1>2 DEF EntryInv, RetryUnfinished, Busy
    <2>2. \A r \in pending : r.owner \in Workers
      BY <1>1 DEF TypeOK, QueuesOK
    <2> QED BY <1>t, <1>1, <2>1, <2>2 DEF EntryInv
  <1>4. \A u : \A v \in Workers : Busy(v, u)' <=> Busy(v, u)
    BY <1>2 DEF Busy, Engaged, Serving
  <1>5. EntryInv(t)'
    BY <1>t, <1>1, <1>2, <1>3, <1>4 DEF EntryInv
  <1>6. ProducerInv(t)'
    BY <1>1, <1>2, <1>3, <1>4, ProducerKeeps DEF TaskInv, ProducerInv, Final
  <1>7. SaveInv(t)'
    BY <1>1, <1>2, <1>4 DEF TaskInv, SaveInv
  <1>8. TaskInv(t)'
    BY <1>3, <1>4, <1>5, <1>6, <1>7 DEF TaskInv
  <1>9. \A u \in Tasks : u # t => NoNewEntry(u)
    BY <1>t, <1>2 DEF NoNewEntry
  <1>10. ~(\E u : Busy(w, u))
    BY DEF ReleaseDelayedTask, Idle, Busy
  <1>11. Alone(w) /\ (worker'[w].st = "idle" => call'[w].pc = "none" /\ worker'[w].up)
    BY <1>2 DEF Alone, CustodyInv, IdleInv
  <1>12. MovesOn(w, t)
    BY <1>2, <1>4, <1>9, <1>10, <1>11 DEF MovesOn
  <1> QED BY <1>8, <1>12, CustodyMoves

\* A worker dies, or its answer is lost: where it was, nothing else changes.
LEMMA BreakKeeps ==
  ASSUME Orderly, CustodyInv, TypeOK', DispatchedOnce', NEW w \in Workers,
         WorkerCrash(w) \/ LoseReply(w)
  PROVE  CustodyInv'
  <1>r. Running(w)
    BY DEF WorkerCrash, LoseReply
  <1>t. PICK t \in Tasks : t = worker[w].msg.task
    BY <1>r, ServingIsBusy
  <1>1. /\ TypeOK /\ TaskInv(t) /\ EntryInv(t) /\ Busy(w, t) /\ HandlerInv(w, t)
    BY <1>r, <1>t, AtTask
  <1>2. /\ NoNewEntries /\ ProducerStays /\ UNCHANGED <<task, applied>>
    BY DEF WorkerCrash, LoseReply, NoNewEntries, ProducerStays, taskVars, requestVars,
       producerVars, queueVars
  <1>3. /\ Alone(w) /\ worker'[w].st = worker[w].st /\ worker'[w].msg = worker[w].msg
        /\ \/ /\ worker[w].st \in {"accepted", "parsing", "ready", "completed"}
              /\ call'[w] = call[w]
           \/ /\ call[w].pc = "ok" /\ call'[w].pc = "err" /\ worker'[w].up = worker[w].up
    <2>1. CASE WorkerCrash(w)
      <3>1. worker[w].st \in {"accepted", "parsing", "ready", "completed"}
        BY <2>1, NoDisorder DEF WorkerCrash, Disorders
      <3>2. worker' = [worker EXCEPT ![w].up = FALSE] /\ call' = call
        BY <2>1 DEF WorkerCrash
      <3> QED BY <1>1, <3>1, <3>2 DEF TypeOK, WorkersOK, Alone
    <2>2. CASE LoseReply(w)
      <3>1. worker' = worker /\ call' = [call EXCEPT ![w].pc = "err"] /\ call[w].pc = "ok"
        BY <2>2 DEF LoseReply
      <3> QED BY <1>1, <3>1 DEF TypeOK, WorkersOK, Alone
    <2> QED BY <2>1, <2>2
  <1>4. worker'[w].st # "idle" /\ worker[w].st # "rescheduled"
    BY <1>r, <1>1, <1>3 DEF Running, HandlerInv
  <1>5. MovesOn(w, t)
    BY <1>r, <1>t, <1>2, <1>3, <1>4, RunsOn, AddsNone
  <1>6. EntryInv(t)'
    BY <1>1, <1>2, <1>3, <1>4, EntryStays, AddsNone
  <1>7. call[w].pc = "complete" => Busy(w, t)' /\ call'[w].pc = "complete"
    BY <1>t, <1>3, <1>4 DEF Busy, Engaged, Serving
  <1>8. SaveInv(t)'
    BY <1>1, <1>2, <1>3, <1>7, SaveStays
  <1>9. HandlerInv(w, t)'
    <2>1. Final(t)' <=> Final(t)
      BY <1>2 DEF Final
    <2> QED BY <1>1, <1>2, <1>3, <2>1 DEF HandlerInv
  <1>10. MarkPending(t) => ~Final(t)' /\ worker'[w].st \notin {"completed", "dead"}
    BY <1>1, <1>2, <1>3 DEF TaskInv, ProducerInv, Final
  <1>11. TaskInv(t)'
    BY <1>1, <1>2, <1>3, <1>6, <1>8, <1>9, <1>10, TaskGoesOn
  <1> QED BY <1>5, <1>11, CustodyMoves

\* A worker that starts again was busy with nothing.
LEMMA RestartKeeps ==
  ASSUME CustodyInv, TypeOK', DispatchedOnce', NEW w \in Workers, WorkerRestart(w)
  PROVE  CustodyInv'
  <1>1. TypeOK /\ \A u \in Tasks : TaskInv(u)
    BY DEF CustodyInv
  <1>2. Alone(w) /\ worker'[w].st = "idle" /\ worker'[w].up /\ call'[w].pc = "none"
    BY <1>1, StopMoves DEF WorkerRestart
  <1>3. \A u : ~Busy(w, u) /\ ~Busy(w, u)'
    BY <1>2 DEF WorkerRestart, Busy, Engaged
  <1>4. /\ NoNewEntries /\ ProducerStays /\ UNCHANGED <<task, applied>>
    BY DEF WorkerRestart, NoNewEntries, ProducerStays, taskVars, requestVars, producerVars,
       queueVars
  <1>5. \A u \in Tasks : TaskInv(u)'
    BY <1>1, <1>2, <1>3, <1>4, OthersStay, AddsNone
  <1>6. IdleInv'
    BY <1>2 DEF CustodyInv, IdleInv, Alone
  <1> QED BY <1>5, <1>6 DEF CustodyInv

LEMMA WorkKeeps ==
  ASSUME Orderly, CustodyInv, TypeOK', DispatchedOnce', NEW w \in Workers,
         WorkNext(w) \/ WorkerCrash(w) \/ LoseReply(w)
  PROVE  CustodyInv'
  <1>1. CASE Advance(w)
    <2>1. /\ Running(w) /\ ~Serving(w) /\ NoNewEntries /\ ProducerStays /\ UNCHANGED <<task, applied>>
      BY <1>1
         DEF Advance, Serving, Ack, NoNewEntries, ProducerStays, taskVars, requestVars, producerVars
    <2>2. \/ /\ worker[w].st \notin {"rescheduled", "retrying"}
             /\ \E st \in {"parsing", "ready"}, doc \in {0, 1, worker[w].doc, worker[w].doc + 1} :
                  Post(w, st, doc)
          \/ worker[w].st # "rescheduled" /\ Stop(w)
      BY <1>1 DEF Advance
    <2>3. CASE worker[w].st # "rescheduled" /\ Stop(w)
      BY <2>1, <2>3, StopKeeps
    <2>4. CASE ~(worker[w].st # "rescheduled" /\ Stop(w))
      <3>1. PICK st \in {"parsing", "ready"}, doc \in {0, 1, worker[w].doc, worker[w].doc + 1} :
              Post(w, st, doc)
        BY <2>2, <2>4
      <3> QED BY <2>1, <2>2, <2>4, <3>1, PostKeeps
    <2> QED BY <2>3, <2>4
  <1>2. CASE PostCompleted(w)
    <2>1. /\ Running(w) /\ ~Serving(w) /\ NoNewEntries /\ ProducerStays /\ UNCHANGED <<task, applied>>
      BY <1>2
         DEF PostCompleted, Serving, NoNewEntries, ProducerStays, taskVars, requestVars, producerVars, queueVars
    <2>2. worker[w].st = "ready" /\ Post(w, "completed", 0) /\ ~MarkPending(worker[w].msg.task)
      BY <1>2, NoDisorder DEF PostCompleted, Outpaces, Disorders
    <2> QED BY <2>1, <2>2, PostKeeps
  <1>3. CASE FailAttempt(w)
    <2>1. /\ Running(w) /\ ~Serving(w) /\ ProducerStays /\ UNCHANGED <<task, applied, workerStream>>
          /\ worker[w].st \in {"accepted", "parsing", "ready", "completed"}
          /\ call' = [call EXCEPT ![w] = NoCall]
      BY <1>3
         DEF FailAttempt, Answered, Serving, ProducerStays, taskVars, requestVars, producerVars
    <2>2. CASE worker' = [worker EXCEPT ![w].st = "acked"] /\ Ack(worker[w].msg) /\ UNCHANGED workerDelayed
      <3>1. NoNewEntries
        BY <2>1, <2>2 DEF Ack, NoNewEntries
      <3> QED BY <2>1, <2>2, <3>1, BuryKeeps
    <2>3. CASE ~(worker' = [worker EXCEPT ![w].st = "acked"] /\ Ack(worker[w].msg) /\ UNCHANGED workerDelayed)
      <3>1. /\ worker' = [worker EXCEPT ![w].st = "rescheduled"]
            /\ UNCHANGED pending
            /\ \E e \in Entries : e.task = worker[w].msg.task /\ workerDelayed' = workerDelayed \union {e}
        BY <1>3, <2>3 DEF FailAttempt, FreshEntries
      <3> QED BY <2>1, <3>1, RetryKeeps
    <2> QED BY <2>2, <2>3
  <1>4. CASE MoveToDeadLetter(w)
    <2>1. Running(w) /\ worker[w].st = "acked" /\ Post(w, "dead", 0) /\ ~MarkPending(worker[w].msg.task)
      BY <1>4, NoDisorder DEF MoveToDeadLetter, Outpaces, Disorders
    <2>2. ~Serving(w)
      BY <2>1, AtTask DEF HandlerInv, Serving
    <2>3. NoNewEntries /\ ProducerStays /\ UNCHANGED <<task, applied>>
      BY <1>4
         DEF MoveToDeadLetter, NoNewEntries, ProducerStays, taskVars, requestVars, producerVars, queueVars
    <2> QED BY <2>1, <2>2, <2>3, PostKeeps
  <1>5. CASE FinishRetry(w)
    <2>1. /\ Running(w) /\ ~Serving(w) /\ worker[w].st # "rescheduled" /\ Stop(w)
          /\ NoNewEntries /\ ProducerStays /\ UNCHANGED <<task, applied>>
      BY <1>5
         DEF FinishRetry, Answered, Serving, NoNewEntries, ProducerStays, taskVars, requestVars, producerVars, queueVars
    <2> QED BY <2>1, StopKeeps
  <1> QED BY <1>1, <1>2, <1>3, <1>4, <1>5, ReadKeeps, ClaimKeeps, ReleaseKeeps, AckKeeps,
     RestartKeeps, BreakKeeps
          DEF WorkNext

-----------------------------------------------------------------------------
(* The handler of a callback.                                              *)

\* What a handler's step changes of the rows: its task's.
RowOnly(t) == \A u \in Tasks : u # t => task'[u] = task[u] /\ applied'[u] = applied[u]

LEMMA UpdateMoves ==
  ASSUME TypeOK, NEW t \in Tasks
  PROVE  /\ \A s, n : UpdateStatus(t, s, n) =>
              task'[t].status = s /\ \A u \in Tasks : u # t => task'[u] = task[u]
         /\ \A s, n, a : UpdateStatusExt(t, s, n, a) =>
              task'[t].status = s /\ \A u \in Tasks : u # t => task'[u] = task[u]
         /\ SetFailed(t) =>
              task'[t].status = "failed" /\ \A u \in Tasks : u # t => task'[u] = task[u]
  BY DEF TypeOK, RowsOK, UpdateStatus, UpdateStatusExt, SetFailed

LEMMA ServingKeeps ==
  ASSUME CustodyInv, TypeOK', DispatchedOnce', NEW w \in Workers, Serving(w),
         NEW t \in Tasks, t = worker[w].msg.task, UNCHANGED worker, Alone(w),
         NoNewEntries, ProducerStays, RowOnly(t), SaveInv(t)', HandlerInv(w, t)',
         MarkPending(t) => ~Final(t)'
  PROVE  CustodyInv'
  <1>1. /\ TypeOK /\ TaskInv(t) /\ EntryInv(t) /\ Busy(w, t) /\ HandlerInv(w, t)
    BY AtTask
  <1>2. worker[w].st # "idle" /\ worker[w].st # "rescheduled"
    BY <1>1 DEF HandlerInv, Serving, CustodyInv, IdleInv
  <1>3. MovesOn(w, t)
    BY <1>2, RunsOn, AddsNone DEF RowOnly
  <1>4. EntryInv(t)'
    BY <1>1, <1>2, EntryStays, AddsNone
  <1>5. MarkPending(t) => worker'[w].st \notin {"completed", "dead"}
    BY <1>1 DEF TaskInv, ProducerInv
  <1>6. TaskInv(t)'
    BY <1>1, <1>4, <1>5, TaskGoesOn
  <1> QED BY <1>3, <1>6, CustodyMoves

\* A handler that has not completed its task has nothing to show for it, unless it has
\* just saved the result.
LEMMA NothingSaved ==
  ASSUME NEW w \in Workers, NEW t \in Tasks, TypeOK, TaskInv(t), Busy(w, t),
         task[t].status # "completed", call[w].pc # "complete"
  PROVE  applied[t] = 0
  <1>1. applied[t] \in Nat
    BY DEF TypeOK, ProjectsOK
  <1> QED BY <1>1 DEF TaskInv, SaveInv, EntryInv

\* What the handler decides to do.
LEMMA VerdictIs ==
  ASSUME NEW w \in Workers, NEW t, t = worker[w].msg.task
  PROVE  /\ Verdict(w) \in {"release", "ok", "touch", "persist", "write"}
         /\ Verdict(w) = "release" => task[t].status = "completed"
         /\ Verdict(w) = "touch" =>
              ~Final(t) /\ ReportedStatus(worker[w].st) \in {"processing", "retrying"}
         /\ Verdict(w) = "persist" => ~Final(t) /\ ReportedStatus(worker[w].st) = "completed"
         /\ Verdict(w) = "write" =>
              /\ ReportedStatus(worker[w].st) \notin {"processing", "retrying", "completed"}
              /\ Final(t) => ReportedStatus(worker[w].st) = "dead" /\ task[t].status = "failed"
  <1>1. LET cur == task[t]
            status == ReportedStatus(worker[w].st) IN
        ~IgnoredAsFinal(cur, status) => (Final(t) => status = "dead" /\ cur.status = "failed")
    BY DEF IgnoredAsFinal, Final
  <1> QED BY <1>1 DEF Verdict, StepFor

\* What a worker reports says in which state it is.
LEMMA ReportsState ==
  ASSUME TypeOK, NEW w \in Workers
  PROVE  LET st == worker[w].st
             status == ReportedStatus(st) IN
         /\ status \in {"processing", "completed", "retrying", "dead"}
         /\ status = "completed" <=> st = "completed"
         /\ status \in {"processing", "retrying"} => st \in {"accepted", "parsing", "ready", "retrying"}
         /\ status = "dead" => st \in {"idle", "rescheduled", "acked", "dead"}
  BY DEF TypeOK, WorkersOK, WorkerStates, ReportedStatus

LEMMA ReceiveKeeps ==
  ASSUME CustodyInv, TypeOK', DispatchedOnce', NEW w \in Workers, ReceiveCallback(w)
  PROVE  CustodyInv'
  <1>r. Serving(w) /\ call[w].pc = "enter"
    BY DEF ReceiveCallback, Serving
  <1>t. PICK t \in Tasks : t = worker[w].msg.task
    BY <1>r, ServingIsBusy
  <1>1. /\ TypeOK /\ TaskInv(t) /\ EntryInv(t) /\ Busy(w, t) /\ HandlerInv(w, t)
    BY <1>r, <1>t, AtTask
  <1>2. /\ NoNewEntries /\ ProducerStays /\ UNCHANGED <<task, applied, worker>>
    BY DEF ReceiveCallback, NoNewEntries, ProducerStays, requestVars, producerVars, queueVars
  <1>3. PICK pc \in {"ok", Verdict(w)} : Serve(w, pc)
    BY DEF ReceiveCallback
  <1>4. Alone(w) /\ call'[w].pc = pc /\ call'[w].out = "none"
    BY <1>r, <1>1, <1>2, <1>3, ServeMoves DEF HandlerInv
  <1>5. HandlerInv(w, t)'
    <2>1. worker[w].st \notin {"rescheduled", "acked"}
      BY <1>r, <1>1 DEF HandlerInv
    <2>2. (Final(t)' <=> Final(t)) /\ (task[t].status = "completed" => Final(t))
      BY <1>2 DEF Final, IsTerminal, TerminalStatuses
    <2>3. worker[w].st # "idle"
      BY <1>1 DEF Busy
    <2>4. /\ pc \in {"touch", "project"} => ~Final(t) /\ worker[w].st \notin {"completed", "dead"}
          /\ pc = "write" =>
               worker[w].st # "completed" /\ (Final(t) => worker[w].st = "dead" /\ task[t].status = "failed")
          /\ pc \in {"persist", "complete"} => ~Final(t) /\ worker[w].st = "completed"
          /\ pc \in {"release", "delete", "clear"} => Final(t)
      BY <1>t, <1>1, <2>1, <2>2, <2>3, VerdictIs, ReportsState
    <2> QED BY <1>1, <1>2, <1>4, <2>1, <2>2, <2>4 DEF HandlerInv
  <1>6. SaveInv(t)'
    BY <1>r, <1>1, <1>2, <1>4, SaveStays
  <1>7. MarkPending(t) => ~Final(t)'
    BY <1>1, <1>2 DEF TaskInv, ProducerInv, Final
  <1> QED BY <1>r, <1>t, <1>2, <1>4, <1>5, <1>6, <1>7, ServingKeeps DEF RowOnly

LEMMA WriteKeeps ==
  ASSUME Orderly, CustodyInv, TypeOK', DispatchedOnce', NEW w \in Workers, WriteReported(w)
  PROVE  CustodyInv'
  <1>r. Serving(w) /\ call[w].pc = "write"
    BY DEF WriteReported, Serving
  <1>t. PICK t \in Tasks : t = worker[w].msg.task
    BY <1>r, ServingIsBusy
  <1>1. /\ TypeOK /\ TaskInv(t) /\ EntryInv(t) /\ Busy(w, t) /\ HandlerInv(w, t)
    BY <1>r, <1>t, AtTask
  <1>2. /\ NoNewEntries /\ ProducerStays /\ UNCHANGED <<applied, worker>>
    BY DEF WriteReported, NoNewEntries, ProducerStays, requestVars, producerVars, queueVars
  <1>3. PICK status : status = ReportedStatus(worker[w].st)
    OBVIOUS
  <1>4. /\ UpdateStatusExt(t, status, ReportedProgress(worker[w]), ReportedAttempt(worker[w]))
        /\ IF status = "dead" THEN ServeOutcome(w, "release", "failed") ELSE Serve(w, "project")
    BY <1>t, <1>3, NoDisorder DEF WriteReported, Disorders
  <1>5. task'[t].status = status /\ RowOnly(t)
    BY <1>1, <1>2, <1>4, UpdateMoves DEF RowOnly
  <1>6. /\ worker[w].st \notin {"idle", "rescheduled", "acked", "completed"}
        /\ status # "completed"
        /\ status = "dead" <=> worker[w].st = "dead"
        /\ status \in {"processing", "retrying", "dead"}
    <2>1. worker[w].st \notin {"idle", "rescheduled", "acked", "completed"}
      BY <1>r, <1>1 DEF HandlerInv, Busy
    <2> QED BY <1>1, <1>3, <2>1, ReportsState
  <1>7. Final(t)' <=> status = "dead"
    BY <1>5, <1>6 DEF Final, IsTerminal, TerminalStatuses
  <1>8. applied[t] = 0
    <2>1. task[t].status # "completed"
      BY <1>r, <1>1 DEF HandlerInv, Final, IsTerminal, TerminalStatuses
    <2> QED BY <1>r, <1>1, <2>1, NothingSaved
  <1>9. SaveInv(t)'
    BY <1>2, <1>8 DEF SaveInv
  <1>10. /\ Alone(w)
         /\ status = "dead" => call'[w].pc = "release" /\ call'[w].out = "failed"
         /\ status # "dead" => call'[w].pc = "project" /\ call'[w].out = "none"
    BY <1>r, <1>1, <1>2, <1>4, ServeMoves, ServeOutcomeMoves DEF HandlerInv
  <1>11. HandlerInv(w, t)'
    BY <1>1, <1>2, <1>5, <1>6, <1>7, <1>10 DEF HandlerInv
  <1>12. MarkPending(t) => ~Final(t)'
    BY <1>1, <1>6, <1>7 DEF TaskInv, ProducerInv
  <1> QED BY <1>r, <1>t, <1>2, <1>5, <1>9, <1>10, <1>11, <1>12, ServingKeeps

\* The handler's steps that leave the row alone.
LEMMA RowKept ==
  ASSUME CustodyInv, TypeOK', DispatchedOnce', NEW w \in Workers, NEW t \in Tasks,
         t = worker[w].msg.task, call[w].pc \notin {"none", "ok", "err", "complete"},
         UNCHANGED <<worker, task, applied>>, Alone(w), NoNewEntries, ProducerStays, HandlerInv(w, t)'
  PROVE  CustodyInv'
  <1>r. Serving(w)
    BY DEF Serving
  <1>1. TypeOK /\ TaskInv(t) /\ Busy(w, t)
    BY <1>r, AtTask
  <1>2. SaveInv(t)'
    BY <1>1, SaveStays
  <1>3. MarkPending(t) => ~Final(t)'
    BY <1>1 DEF TaskInv, ProducerInv, Final
  <1> QED BY <1>r, <1>2, <1>3, ServingKeeps DEF RowOnly

LEMMA StepsKeep ==
  ASSUME CustodyInv, TypeOK', DispatchedOnce', NEW w \in Workers,
         TouchProjectLock(w) \/ ShowGenerating(w) \/ ReleaseProjectLock(w) \/ ClearTaskStreamEntries(w)
  PROVE  CustodyInv'
  <1> USE DEF requestVars, producerVars, queueVars
  <1>r. Serving(w)
    BY DEF TouchProjectLock, ShowGenerating, ReleaseProjectLock, ClearTaskStreamEntries, Serving
  <1>t. PICK t \in Tasks : t = worker[w].msg.task
    BY <1>r, ServingIsBusy
  <1>1. /\ TypeOK /\ TaskInv(t) /\ EntryInv(t) /\ Busy(w, t) /\ HandlerInv(w, t)
    BY <1>r, <1>t, AtTask
  <1>2. /\ NoNewEntries /\ ProducerStays /\ UNCHANGED <<task, applied, worker>>
    BY DEF TouchProjectLock, ShowGenerating, ReleaseProjectLock, ClearTaskStreamEntries,
           NoNewEntries, ProducerStays
  <1>3. PICK pc \in CallSteps : Serve(w, pc) /\
          \/ call[w].pc = "touch" /\ pc = "write"
          \/ call[w].pc = "project" /\ pc = "ok"
          \/ call[w].pc \in {"release", "delete"} /\ pc \in {"delete", "clear"}
          \/ call[w].pc = "clear" /\ pc \in {"ok", "err"}
    BY DEF TouchProjectLock, ShowGenerating, ReleaseProjectLock, ClearTaskStreamEntries,
       CallSteps
  <1>4. Alone(w) /\ call'[w].pc = pc /\ call'[w].out = call[w].out
    BY <1>1, <1>2, <1>3, ServeMoves
  <1>5. Final(t)' <=> Final(t)
    BY <1>2 DEF Final
  <1>6. HandlerInv(w, t)'
    BY <1>1, <1>2, <1>3, <1>4, <1>5 DEF HandlerInv
  <1> QED BY <1>t, <1>2, <1>3, <1>4, <1>6, RowKept

\* The result is saved, once, or refused.
LEMMA PersistKeeps ==
  ASSUME CustodyInv, TypeOK', DispatchedOnce', NEW w \in Workers, PersistGeneratedGraph(w)
  PROVE  CustodyInv'
  <1>r. Serving(w) /\ call[w].pc = "persist"
    BY DEF PersistGeneratedGraph, Serving
  <1>t. PICK t \in Tasks : t = worker[w].msg.task
    BY <1>r, ServingIsBusy
  <1>1. /\ TypeOK /\ TaskInv(t) /\ EntryInv(t) /\ Busy(w, t) /\ HandlerInv(w, t)
    BY <1>r, <1>t, AtTask
  <1>2. /\ NoNewEntries /\ ProducerStays /\ UNCHANGED worker
    BY DEF PersistGeneratedGraph, NoNewEntries, ProducerStays, requestVars, producerVars,
       queueVars
  <1>3. ~Final(t) /\ worker[w].st = "completed" /\ call[w].out = "none"
    BY <1>r, <1>1 DEF HandlerInv
  <1>4. applied[t] = 0
    BY <1>r, <1>1, <1>3, NothingSaved DEF Final, IsTerminal, TerminalStatuses
  <1>5. ~MarkPending(t)
    BY <1>1, <1>3 DEF TaskInv, ProducerInv
  <1>6. CASE /\ applied' = [applied EXCEPT ![t] = @ + 1] /\ Serve(w, "complete") /\ UNCHANGED task
    <2>1. Alone(w) /\ call'[w].pc = "complete" /\ call'[w].out = "none"
      BY <1>1, <1>2, <1>3, <1>6, ServeMoves
    <2>2. applied'[t] = 1 /\ RowOnly(t)
      BY <1>1, <1>4, <1>6 DEF TypeOK, ProjectsOK, RowOnly
    <2>3. Busy(w, t)'
      BY <1>1, <1>2, <2>1 DEF Busy, Engaged, Serving
    <2>4. SaveInv(t)'
      BY <2>1, <2>2, <2>3 DEF SaveInv
    <2>5. Final(t)' <=> Final(t)
      BY <1>6 DEF Final
    <2>6. HandlerInv(w, t)'
      BY <1>2, <1>3, <2>1, <2>5 DEF HandlerInv
    <2> QED BY <1>r, <1>t, <1>2, <1>5, <2>1, <2>2, <2>4, <2>6, ServingKeeps
  <1>7. CASE SetFailed(t) /\ ServeOutcome(w, "release", "rejected") /\ UNCHANGED applied
    <2>1. Alone(w) /\ call'[w].pc = "release" /\ call'[w].out = "rejected"
      BY <1>1, <1>2, <1>7, ServeOutcomeMoves
    <2>2. task'[t].status = "failed" /\ RowOnly(t)
      BY <1>1, <1>7, UpdateMoves DEF RowOnly
    <2>3. SaveInv(t)'
      BY <1>4, <1>7 DEF SaveInv
    <2>4. Final(t)'
      BY <2>2 DEF Final, IsTerminal, TerminalStatuses
    <2>5. HandlerInv(w, t)'
      BY <1>2, <1>3, <2>1, <2>2, <2>4 DEF HandlerInv
    <2> QED BY <1>r, <1>t, <1>2, <1>5, <2>1, <2>2, <2>3, <2>5, ServingKeeps
  <1> QED BY <1>t, <1>6, <1>7 DEF PersistGeneratedGraph

LEMMA CompleteKeeps ==
  ASSUME Orderly, CustodyInv, TypeOK', DispatchedOnce', NEW w \in Workers, SetCompleted(w)
  PROVE  CustodyInv'
  <1>r. Serving(w) /\ call[w].pc = "complete"
    BY DEF SetCompleted, Serving
  <1>t. PICK t \in Tasks : t = worker[w].msg.task
    BY <1>r, ServingIsBusy
  <1>1. /\ TypeOK /\ TaskInv(t) /\ EntryInv(t) /\ Busy(w, t) /\ HandlerInv(w, t)
    BY <1>r, <1>t, AtTask
  <1>2. /\ NoNewEntries /\ ProducerStays /\ UNCHANGED <<applied, worker>>
        /\ task' = [task EXCEPT ![t].status = "completed", ![t].progress = 100]
        /\ ServeOutcome(w, "release", "completed")
    BY <1>t, NoDisorder
       DEF SetCompleted, Disorders, NoNewEntries, ProducerStays, requestVars, producerVars, queueVars
  <1>3. worker[w].st = "completed"
    BY <1>r, <1>1 DEF HandlerInv
  <1>4. Alone(w) /\ call'[w].pc = "release" /\ call'[w].out = "completed"
    BY <1>1, <1>2, ServeOutcomeMoves
  <1>5. task'[t].status = "completed" /\ RowOnly(t)
    BY <1>1, <1>2 DEF TypeOK, RowsOK, RowOnly
  <1>6. SaveInv(t)'
    BY <1>1, <1>2, <1>5 DEF TaskInv, SaveInv
  <1>7. Final(t)'
    BY <1>5 DEF Final, IsTerminal, TerminalStatuses
  <1>8. HandlerInv(w, t)'
    BY <1>2, <1>3, <1>4, <1>5, <1>7 DEF HandlerInv
  <1>9. ~MarkPending(t)
    BY <1>1, <1>3 DEF TaskInv, ProducerInv
  <1> QED BY <1>r, <1>t, <1>2, <1>4, <1>5, <1>6, <1>8, <1>9, ServingKeeps

LEMMA CallbackKeeps ==
  ASSUME Orderly, CustodyInv, TypeOK', DispatchedOnce', NEW w \in Workers, CallbackNext(w)
  PROVE  CustodyInv'
  BY ReceiveKeeps, WriteKeeps, StepsKeep, PersistKeeps, CompleteKeeps DEF CallbackNext

-----------------------------------------------------------------------------
(* Requests and dispatchers, with the task t.                              *)

\* The step gives t to nobody who had not got it, and leaves its row open.
HandsOver(t) ==
  /\ NoNewEntry(t) /\ applied'[t] = applied[t]
  /\ InProducer(t)' => InProducer(t) /\ ~Final(t)'
  /\ MarkPending(t)' => (MarkPending(t) \/ InProducer(t)) /\ ~Final(t)'
  /\ \/ task'[t] = task[t]
     \/ ~Final(t) /\ ~Final(t)'
     \/ InProducer(t)

LEMMA TaskHandedOver ==
  ASSUME TypeOK, NEW t \in Tasks, TaskInv(t), HandsOver(t), UNCHANGED workerVars
  PROVE  TaskInv(t)'
  <1>1. \A w \in Workers : Busy(w, t)' <=> Busy(w, t)
    BY DEF workerVars, Busy, Engaged, Serving
  <1>2. \A r \in pending : r.owner \in Workers
    BY DEF TypeOK, QueuesOK
  <1>3. EntryInv(t)'
    <2>1. \A e \in workerDelayed' : e.task = t =>
            /\ \A r \in pending' : r.entry.task = t =>
                 Busy(r.owner, t)' /\ worker'[r.owner].st = "rescheduled"
            /\ \A w \in Workers : Busy(w, t)' => worker'[w].st \in {"rescheduled", "retrying"}
      BY <1>1, <1>2 DEF TaskInv, EntryInv, HandsOver, NoNewEntry, workerVars
    <2> QED BY <1>1, <2>1 DEF TaskInv, EntryInv, HandsOver, NoNewEntry, workerVars
  <1>4. ProducerInv(t)'
    <2>1. HasEntry(t)' => HasEntry(t)
      BY DEF HandsOver, HasEntry, NoNewEntry
    <2> QED BY <1>1, <2>1 DEF TaskInv, ProducerInv, HandsOver, workerVars
  <1>5. Final(t)' <=> IsTerminal(task'[t].status)
    BY DEF Final
  <1>6. SaveInv(t)'
    <2>1. CASE task'[t] = task[t] \/ ~Final(t)
      <3>1. task[t].status = "completed" => task'[t].status = "completed"
        BY <2>1 DEF Final, IsTerminal, TerminalStatuses
      <3> QED BY <1>1, <3>1 DEF TaskInv, SaveInv, HandsOver, workerVars
    <2>2. CASE InProducer(t)
      <3>1. ~(applied[t] > 0)
        BY <2>2 DEF TaskInv, SaveInv, ProducerInv, Final, IsTerminal, TerminalStatuses
      <3> QED BY <3>1 DEF TaskInv, SaveInv, HandsOver
    <2> QED BY <2>1, <2>2 DEF HandsOver
  <1>7. \A w \in Workers : Busy(w, t)' => HandlerInv(w, t)'
    <2> SUFFICES ASSUME NEW w \in Workers, Busy(w, t)
                 PROVE  HandlerInv(w, t)'
      BY <1>1
    <2>1. HandlerInv(w, t) /\ ~InProducer(t)
      BY DEF TaskInv, ProducerInv
    <2>2. task'[t] = task[t] \/ (~Final(t) /\ ~Final(t)')
      BY <2>1 DEF HandsOver
    <2>3. worker'[w] = worker[w] /\ call'[w] = call[w]
      BY DEF workerVars
    <2>4. CASE task'[t] = task[t]
      BY <1>5, <2>1, <2>3, <2>4 DEF HandlerInv, Final
    <2>5. CASE ~Final(t) /\ ~Final(t)'
      BY <2>1, <2>3, <2>5 DEF HandlerInv
    <2> QED BY <2>2, <2>4, <2>5
  <1> QED BY <1>3, <1>4, <1>6, <1>7 DEF TaskInv

LEMMA AllHandedOver ==
  ASSUME CustodyInv, TypeOK', DispatchedOnce', UNCHANGED workerVars,
         \A t \in Tasks : HandsOver(t)
  PROVE  CustodyInv'
  <1>1. IdleInv'
    BY DEF CustodyInv, IdleInv, workerVars
  <1> QED BY <1>1, TaskHandedOver DEF CustodyInv

\* Nothing of u's changes.
Untouched(u) ==
  /\ InProducer(u)' => InProducer(u)
  /\ MarkPending(u)' => MarkPending(u)
  /\ task'[u] = task[u] /\ applied'[u] = applied[u] /\ NoNewEntry(u)

LEMMA UntouchedStays ==
  ASSUME NEW u \in Tasks, TaskInv(u), Untouched(u)
  PROVE  HandsOver(u)
  BY DEF TaskInv, ProducerInv, Untouched, HandsOver, Final

\* The first entry of t goes to the worker stream.
LEMMA EnqueueKeeps ==
  ASSUME CustodyInv, TypeOK', DispatchedOnce', NEW t \in Tasks, EnqueueTask(t),
         UNCHANGED <<taskVars, pending, workerDelayed, workerVars>>,
         InProducer(t), ~InProducer(t)',
         \A u \in Tasks : u # t => (InProducer(u)' => InProducer(u)) /\ (MarkPending(u)' => MarkPending(u))
  PROVE  CustodyInv'
  <1>1. PICK e \in Entries : e.task = t /\ workerStream' = workerStream \union {e}
    BY DEF EnqueueTask, FreshEntries
  <1>2. TypeOK /\ TaskInv(t) /\ IdleInv /\ \A u \in Tasks : TaskInv(u)
    BY DEF CustodyInv
  <1>3. \A u \in Tasks : u # t => TaskInv(u)'
    <2> SUFFICES ASSUME NEW u \in Tasks, u # t
                 PROVE  TaskInv(u)'
      OBVIOUS
    <2>1. Untouched(u)
      BY <1>1 DEF Untouched, NoNewEntry, taskVars
    <2> QED BY <1>2, <2>1, UntouchedStays, TaskHandedOver
  <1>4. \A w \in Workers : ~Busy(w, t) /\ ~Busy(w, t)'
    BY <1>2 DEF TaskInv, ProducerInv, workerVars, Busy, Engaged, Serving
  <1>5. EntryInv(t)'
    BY <1>1, <1>2, <1>4 DEF TaskInv, ProducerInv, HasEntry, EntryInv
  <1>6. ProducerInv(t)'
    BY <1>2, <1>4 DEF TaskInv, ProducerInv, Final, taskVars
  <1>7. SaveInv(t)'
    BY <1>2, <1>4 DEF TaskInv, SaveInv, taskVars
  <1>8. TaskInv(t)'
    BY <1>4, <1>5, <1>6, <1>7 DEF TaskInv
  <1>9. IdleInv'
    BY <1>2 DEF IdleInv, workerVars
  <1> QED BY <1>3, <1>8, <1>9 DEF CustodyInv

LEMMA RequestKeeps ==
  ASSUME Orderly, CustodyInv, TypeOK', DispatchedOnce', NEW t \in Tasks,
         RequestNext(t) \/ SubmitStart(t) \/ Resubmit(t)
  PROVE  CustodyInv'
  <1> USE DEF taskVars, producerVars, queueVars, requestVars
  <1>1. TypeOK /\ DispatchedOnce /\ \A u \in Tasks : TaskInv(u)
    BY DEF CustodyInv
  \* Whatever the request does, of the others it leaves everything alone.
  <1>2. ASSUME NEW x, submit' = [submit EXCEPT ![t] = x], UNCHANGED <<producerDelayed, dispatcher>>,
               producerStream' \subseteq producerStream \union {t},
               \A u \in Tasks : u # t => task'[u] = task[u], UNCHANGED <<applied, queueVars, workerVars>>,
               HandsOver(t)
        PROVE  CustodyInv'
    <2>1. \A u \in Tasks : u # t => Untouched(u)
      <3> SUFFICES ASSUME NEW u \in Tasks, u # t
                   PROVE  Untouched(u)
        OBVIOUS
      <3>1. submit'[u] = submit[u]
        BY <1>1, <1>2 DEF TypeOK, RequestsOK
      <3> QED BY <1>2, <3>1 DEF Untouched, NoNewEntry, InProducer, MarkPending, NotYetQueued
    <2>2. \A u \in Tasks : HandsOver(u)
      BY <1>1, <1>2, <2>1, UntouchedStays
    <2> QED BY <1>2, <2>2, AllHandedOver
  <1>3. NotYetQueued(t) => /\ InProducer(t) /\ ~Final(t)
                           /\ t \notin producerStream \union producerDelayed
                           /\ \A d \in Dispatchers : dispatcher[d].task # t
    BY <1>1 DEF InProducer, DispatchedOnce, TaskInv, ProducerInv
  <1>4. CASE SubmitStart(t) \/ PrepareDocuments(t)
    <2>1. PICK x \in {"create", "enqueue"} : submit' = [submit EXCEPT ![t] = x]
      BY <1>4 DEF SubmitStart, PrepareDocuments
    <2>2. NotYetQueued(t) /\ UNCHANGED <<task, applied, producerVars, queueVars, workerVars>>
      BY <1>4 DEF SubmitStart, PrepareDocuments, NotYetQueued
    <2>3. submit'[t] = x
      BY <1>1, <2>1 DEF TypeOK, RequestsOK
    <2>4. HandsOver(t)
      BY <1>3, <2>1, <2>2, <2>3 DEF HandsOver, NoNewEntry, MarkPending, Final
    <2> QED BY <1>2, <2>1, <2>2, <2>4
  <1>5. CASE CreateTask(t)
    <2>1. /\ NotYetQueued(t) /\ submit' = [submit EXCEPT ![t] = "prepare"]
          /\ task' = [task EXCEPT ![t] = [status |-> "pending", progress |-> 0, attempt |-> 0]]
          /\ UNCHANGED <<applied, producerVars, queueVars, workerVars>>
      BY <1>5 DEF CreateTask, NotYetQueued
    <2>2. /\ submit'[t] = "prepare" /\ task'[t].status = "pending"
          /\ \A u \in Tasks : u # t => task'[u] = task[u]
      BY <1>1, <2>1 DEF TypeOK, RequestsOK, RowsOK
    <2>3. ~Final(t)'
      BY <2>2 DEF Final, IsTerminal, TerminalStatuses
    <2>4. HandsOver(t)
      BY <1>3, <2>1, <2>2, <2>3 DEF HandsOver, NoNewEntry, MarkPending
    <2> QED BY <1>2, <2>1, <2>2, <2>4
  <1>6. CASE PrepareDocumentsFails(t) \/ EnqueueFails(t)
    <2>1. /\ NotYetQueued(t) /\ submit' = [submit EXCEPT ![t] = "done"] /\ SetFailed(t)
          /\ UNCHANGED <<applied, producerVars, queueVars, workerVars>>
      BY <1>6 DEF PrepareDocumentsFails, EnqueueFails, GiveUp, NotYetQueued
    <2>2. submit'[t] = "done" /\ \A u \in Tasks : u # t => task'[u] = task[u]
      BY <1>1, <2>1, UpdateMoves DEF TypeOK, RequestsOK
    <2>3. ~InProducer(t)' /\ ~MarkPending(t)'
      BY <1>3, <2>1, <2>2 DEF InProducer, NotYetQueued, MarkPending
    <2>4. HandsOver(t)
      BY <1>3, <2>1, <2>3 DEF HandsOver, NoNewEntry
    <2> QED BY <1>2, <2>1, <2>2, <2>4
  <1>7. CASE EnqueueFaultTree(t)
    <2>1. /\ NotYetQueued(t) /\ submit' = [submit EXCEPT ![t] = "mark"]
          /\ producerStream' = producerStream \union {t}
          /\ UNCHANGED <<task, applied, producerDelayed, dispatcher, queueVars, workerVars>>
      BY <1>7 DEF EnqueueFaultTree, NotYetQueued
    <2>2. HandsOver(t)
      BY <1>3, <2>1 DEF HandsOver, NoNewEntry, Final
    <2> QED BY <1>2, <2>1, <2>2
  <1>8. CASE MarkProducerQueued(t)
    <2>1. /\ submit[t] = "mark" /\ submit' = [submit EXCEPT ![t] = "done"]
          /\ UpdateStatus(t, "pending", 1)
          /\ UNCHANGED <<applied, producerVars, queueVars, workerVars>>
      BY <1>8 DEF MarkProducerQueued
    <2>2. /\ submit'[t] = "done" /\ task'[t].status = "pending"
          /\ \A u \in Tasks : u # t => task'[u] = task[u]
      BY <1>1, <2>1, UpdateMoves DEF TypeOK, RequestsOK
    <2>3. MarkPending(t) /\ ~Final(t)
      BY <1>1, <2>1 DEF MarkPending, TaskInv, ProducerInv
    <2>4. ~Final(t)'
      BY <2>2 DEF Final, IsTerminal, TerminalStatuses
    <2>5. InProducer(t)' => InProducer(t)
      BY <2>1, <2>2 DEF InProducer, NotYetQueued
    <2>6. HandsOver(t)
      BY <2>1, <2>3, <2>4, <2>5 DEF HandsOver, NoNewEntry
    <2> QED BY <1>2, <2>1, <2>2, <2>6
  <1>9. CASE EnqueueKnowledgeGraph(t)
    <2>1. /\ NotYetQueued(t) /\ submit' = [submit EXCEPT ![t] = "done"] /\ EnqueueTask(t)
          /\ UNCHANGED <<taskVars, producerVars, pending, workerDelayed, workerVars>>
      BY <1>9 DEF EnqueueKnowledgeGraph, NotYetQueued
    <2>2. \A u \in Tasks : submit'[u] = IF u = t THEN "done" ELSE submit[u]
      BY <1>1, <2>1 DEF TypeOK, RequestsOK
    <2>3. InProducer(t) /\ ~InProducer(t)'
      BY <1>3, <2>1, <2>2 DEF InProducer, NotYetQueued
    <2>4. \A u \in Tasks : u # t => (InProducer(u)' => InProducer(u)) /\ (MarkPending(u)' => MarkPending(u))
      BY <2>1, <2>2 DEF InProducer, NotYetQueued, MarkPending
    <2> QED BY <2>1, <2>3, <2>4, EnqueueKeeps
  <1>10. CASE ResubmitFindsExisting(t) \/ ResubmitShows(t) \/ Resubmit(t)
    <2>1. UNCHANGED <<task, applied, submit, producerVars, queueVars, workerVars>>
      BY <1>10 DEF ResubmitFindsExisting, ResubmitShows, Resubmit
    <2>2. \A u \in Tasks : Untouched(u)
      BY <2>1 DEF Untouched, NoNewEntry, InProducer, MarkPending, NotYetQueued
    <2> QED BY <1>1, <2>1, <2>2, UntouchedStays, AllHandedOver
  <1>11. ~CreateTaskFails(t)
    BY NoDisorder DEF CreateTaskFails, Disorders
  <1> QED BY <1>4, <1>5, <1>6, <1>7, <1>8, <1>9, <1>10, <1>11 DEF RequestNext

\* A dispatcher moves with task t: of the others it leaves everything alone.
LEMMA DispatcherMoves ==
  ASSUME CustodyInv, TypeOK', DispatchedOnce', NEW d \in Dispatchers, NEW t \in Tasks,
         UNCHANGED <<applied, submit, queueVars, workerVars>>,
         \A u \in Tasks : u # t => task'[u] = task[u],
         producerStream' \union producerDelayed' \subseteq producerStream \union producerDelayed \union {t},
         \A x \in Dispatchers : x # d => dispatcher'[x] = dispatcher[x],
         dispatcher'[d].task \in {t, NoTask}, HandsOver(t)
  PROVE  CustodyInv'
  <1>1. TypeOK /\ \A u \in Tasks : TaskInv(u)
    BY DEF CustodyInv
  <1>2. ASSUME NEW u \in Tasks, u # t
        PROVE  Untouched(u)
    <2>1. \A x \in Dispatchers : dispatcher'[x].task = u => dispatcher'[x] = dispatcher[x]
      BY <1>2, PipelineAssumption
    <2>2. InProducer(u)' => InProducer(u)
      BY <1>2, <2>1 DEF InProducer, NotYetQueued
    <2>3. MarkPending(u)' => MarkPending(u)
      BY <1>2, <2>1 DEF MarkPending
    <2> QED BY <1>2, <2>2, <2>3 DEF Untouched, NoNewEntry, queueVars
  <1>3. \A u \in Tasks : HandsOver(u)
    BY <1>1, <1>2, UntouchedStays
  <1> QED BY <1>3, AllHandedOver

\* While the task is the producer's, a row that stays open is all that matters.
LEMMA ProducerMoves ==
  ASSUME NEW t \in Tasks, InProducer(t), ~Final(t)', UNCHANGED <<applied, queueVars>>
  PROVE  HandsOver(t)
  BY DEF HandsOver, NoNewEntry, queueVars

LEMMA GotoMoves ==
  ASSUME TypeOK, NEW d \in Dispatchers, NEW pc, Goto(d, pc)
  PROVE  /\ dispatcher'[d].pc = pc /\ dispatcher'[d].task = dispatcher[d].task
         /\ \A x \in Dispatchers : x # d => dispatcher'[x] = dispatcher[x]
  BY DEF TypeOK, ProducerOK, Goto

\* A dispatcher that has t lets go of it, keeps it, or puts it back, with its row as it
\* was or pending.
LEMMA DispatcherKeeps ==
  ASSUME CustodyInv, TypeOK', DispatchedOnce', NEW d \in Dispatchers, NEW t \in Tasks,
         dispatcher[d].task = t, dispatcher[d].pc \notin {"idle", "mark"},
         UNCHANGED <<applied, submit, producerStream, queueVars, workerVars>>,
         task' = task \/ (\E n : UpdateStatus(t, "pending", n)),
         producerDelayed' \subseteq producerDelayed \union {t},
         (\E pc : Goto(d, pc)) \/ dispatcher' = [dispatcher EXCEPT ![d] = IdleDispatcher]
  PROVE  CustodyInv'
  <1>1. TypeOK /\ TaskInv(t) /\ InProducer(t)
    BY DEF CustodyInv, InProducer
  <1>2. ~Final(t)' /\ \A u \in Tasks : u # t => task'[u] = task[u]
    <2>1. CASE task' = task
      BY <1>1, <2>1 DEF TaskInv, ProducerInv, Final
    <2>2. CASE \E n : UpdateStatus(t, "pending", n)
      <3>1. task'[t].status = "pending" /\ \A u \in Tasks : u # t => task'[u] = task[u]
        BY <1>1, <2>2, UpdateMoves
      <3> QED BY <3>1 DEF Final, IsTerminal, TerminalStatuses
    <2> QED BY <2>1, <2>2
  <1>3. /\ \A x \in Dispatchers : x # d => dispatcher'[x] = dispatcher[x]
        /\ dispatcher'[d].task \in {t, NoTask}
    <2>1. CASE \E pc : Goto(d, pc)
      BY <1>1, <2>1, GotoMoves
    <2>2. CASE dispatcher' = [dispatcher EXCEPT ![d] = IdleDispatcher]
      BY <1>1, <2>2 DEF IdleDispatcher, TypeOK, ProducerOK
    <2> QED BY <2>1, <2>2
  <1>4. HandsOver(t)
    BY <1>1, <1>2, ProducerMoves
  <1> QED BY <1>2, <1>3, <1>4, DispatcherMoves

LEMMA DispatchKeeps ==
  ASSUME Orderly, CustodyInv, TypeOK', DispatchedOnce', NEW d \in Dispatchers, DispatchNext(d)
  PROVE  CustodyInv'
  <1> USE DEF taskVars, requestVars
  <1>1. TypeOK /\ DispatchedOnce /\ \A u \in Tasks : TaskInv(u)
    BY DEF CustodyInv
  <1>2. dispatcher[d].pc # "idle" => dispatcher[d].task \in Tasks
    BY <1>1 DEF TypeOK, ProducerOK
  <1>3. CASE TryAcquireProjectLock(d)
    <2>1. /\ dispatcher[d].pc = "lock"
          /\ UNCHANGED <<applied, submit, producerStream, producerDelayed, queueVars, workerVars>>
          /\ \E pc : Goto(d, pc)
          /\ task' = task \/ UpdateStatus(dispatcher[d].task, "pending", 3)
      BY <1>3 DEF TryAcquireProjectLock
    <2> QED BY <1>2, <2>1, DispatcherKeeps
  <1>4. CASE DispatcherUnlock(d) \/ MarkDispatchRetrying(d)
    <2>1. /\ dispatcher[d].pc \in {"unlock", "delete", "retry"}
          /\ UNCHANGED <<applied, submit, producerStream, producerDelayed, queueVars, workerVars>>
          /\ \E pc : Goto(d, pc)
          /\ task' = task \/ UpdateStatus(dispatcher[d].task, "pending", 3)
      BY <1>4 DEF DispatcherUnlock, MarkDispatchRetrying
    <2> QED BY <1>2, <2>1, DispatcherKeeps
  <1>5. CASE RequeueDelayed(d)
    <2>1. /\ dispatcher[d].pc = "requeue"
          /\ UNCHANGED <<task, applied, submit, producerStream, queueVars, workerVars>>
          /\ producerDelayed' \subseteq producerDelayed \union {dispatcher[d].task}
          /\ dispatcher' = [dispatcher EXCEPT ![d] = IdleDispatcher]
      BY <1>5 DEF RequeueDelayed
    <2> QED BY <1>2, <2>1, DispatcherKeeps
  <1>6. CASE DispatcherEnqueue(d)
    <2>t. PICK t \in Tasks : t = dispatcher[d].task
      BY <1>2, <1>6 DEF DispatcherEnqueue
    <2>1. /\ dispatcher[d].pc = "enqueue"
          /\ UNCHANGED <<taskVars, submit, producerStream, producerDelayed, pending, workerDelayed, workerVars>>
          /\ \/ EnqueueTask(t) /\ Goto(d, "mark")
             \/ Goto(d, "unlock") /\ UNCHANGED workerStream
      BY <2>t, <1>6, NoDisorder DEF DispatcherEnqueue, Disorders
    <2>2. CASE EnqueueTask(t) /\ Goto(d, "mark")
      <3>1. /\ dispatcher'[d].pc = "mark" /\ dispatcher'[d].task = t
            /\ \A x \in Dispatchers : x # d => dispatcher'[x] = dispatcher[x]
        BY <2>t, <1>1, <2>2, GotoMoves
      <3>2. InProducer(t)
        BY <2>t, <2>1 DEF InProducer
      <3>3. ~InProducer(t)'
        BY <2>t, <1>1, <2>1, <3>1 DEF DispatchedOnce, InProducer, NotYetQueued
      <3>4. \A u \in Tasks : u # t => (InProducer(u)' => InProducer(u)) /\ (MarkPending(u)' => MarkPending(u))
        <4> SUFFICES ASSUME NEW u \in Tasks, u # t
                     PROVE  (InProducer(u)' => InProducer(u)) /\ (MarkPending(u)' => MarkPending(u))
          OBVIOUS
        <4>1. \A x \in Dispatchers : dispatcher'[x].task = u => dispatcher'[x] = dispatcher[x]
          BY <3>1
        <4> QED BY <2>1, <4>1 DEF InProducer, MarkPending, NotYetQueued
      <3> QED BY <2>1, <2>2, <3>2, <3>3, <3>4, EnqueueKeeps
    <2>3. CASE Goto(d, "unlock") /\ UNCHANGED workerStream
      BY <2>t, <2>1, <2>3, DispatcherKeeps DEF queueVars
    <2> QED BY <2>1, <2>2, <2>3
  <1>7. CASE MarkEnqueued(d)
    <2>t. PICK t \in Tasks : t = dispatcher[d].task
      BY <1>2, <1>7 DEF MarkEnqueued
    <2>1. /\ dispatcher[d].pc = "mark" /\ UpdateStatus(t, "pending", 8)
          /\ UNCHANGED <<applied, submit, producerStream, producerDelayed, queueVars, workerVars>>
          /\ dispatcher' = [dispatcher EXCEPT ![d] = IdleDispatcher]
      BY <2>t, <1>7 DEF MarkEnqueued
    <2>2. dispatcher[d] = [pc |-> "mark", task |-> t]
      BY <2>t, <1>1, <2>1 DEF TypeOK, ProducerOK
    <2>3. MarkPending(t) /\ ~Final(t)
      BY <1>1, <2>2 DEF MarkPending, TaskInv, ProducerInv
    <2>4. /\ dispatcher'[d] = IdleDispatcher
          /\ \A x \in Dispatchers : x # d => dispatcher'[x] = dispatcher[x]
      BY <1>1, <2>1 DEF TypeOK, ProducerOK
    <2>5. task'[t].status = "pending" /\ \A u \in Tasks : u # t => task'[u] = task[u]
      BY <1>1, <2>1, UpdateMoves
    <2>6. ~Final(t)'
      BY <2>5 DEF Final, IsTerminal, TerminalStatuses
    <2>7. InProducer(t)' => InProducer(t)
      BY <2>1, <2>4 DEF InProducer, NotYetQueued, IdleDispatcher
    <2>8. HandsOver(t)
      BY <2>1, <2>3, <2>6, <2>7 DEF HandsOver, NoNewEntry, queueVars
    <2>9. dispatcher'[d].task \in {t, NoTask}
      BY <2>4 DEF IdleDispatcher
    <2> QED BY <2>1, <2>4, <2>5, <2>8, <2>9, DispatcherMoves
  <1>8. ASSUME NEW t \in Tasks, ReleaseDelayedProducerTask(d, t) \/ ReadProducerMessage(d, t)
        PROVE  CustodyInv'
    <2>1. /\ t \in producerStream \union producerDelayed
          /\ producerStream' \union producerDelayed' \subseteq producerStream \union producerDelayed
          /\ UNCHANGED <<applied, submit, queueVars, workerVars>>
          /\ task' = task \/ UpdateStatus(t, "pending", 4)
          /\ dispatcher' = dispatcher \/ dispatcher' = [dispatcher EXCEPT ![d] = [pc |-> "lock", task |-> t]]
          /\ dispatcher[d].pc = "idle"
      BY <1>8 DEF ReleaseDelayedProducerTask, ReadProducerMessage, Delivered
    <2>2. InProducer(t) /\ ~Final(t)
      BY <1>1, <2>1 DEF InProducer, TaskInv, ProducerInv
    <2>3. ~Final(t)' /\ \A u \in Tasks : u # t => task'[u] = task[u]
      <3>1. CASE task' = task
        BY <2>2, <3>1 DEF Final
      <3>2. CASE UpdateStatus(t, "pending", 4)
        <4>1. task'[t].status = "pending" /\ \A u \in Tasks : u # t => task'[u] = task[u]
          BY <1>1, <3>2, UpdateMoves
        <4> QED BY <4>1 DEF Final, IsTerminal, TerminalStatuses
      <3> QED BY <2>1, <3>1, <3>2
    <2>4. HandsOver(t)
      BY <2>1, <2>2, <2>3, ProducerMoves
    <2>5. CASE dispatcher' = [dispatcher EXCEPT ![d] = [pc |-> "lock", task |-> t]]
      <3>1. dispatcher'[d].task = t /\ \A x \in Dispatchers : x # d => dispatcher'[x] = dispatcher[x]
        BY <1>1, <2>5 DEF TypeOK, ProducerOK
      <3> QED BY <2>1, <2>3, <2>4, <3>1, DispatcherMoves
    <2>6. CASE dispatcher' = dispatcher
      <3>1. \A u \in Tasks : u # t => Untouched(u)
        BY <2>1, <2>3, <2>6 DEF Untouched, NoNewEntry, InProducer, MarkPending, NotYetQueued,
           queueVars
      <3>2. \A u \in Tasks : HandsOver(u)
        BY <1>1, <2>4, <3>1, UntouchedStays
      <3> QED BY <2>1, <3>2, AllHandedOver
    <2> QED BY <2>1, <2>5, <2>6
  <1> QED BY <1>3, <1>4, <1>5, <1>6, <1>7, <1>8 DEF DispatchNext

-----------------------------------------------------------------------------
LEMMA CustodyInit == Init => CustodyInv
  <1> SUFFICES ASSUME Init
               PROVE  CustodyInv
    OBVIOUS
  <1>1. TypeOK
    BY TypeInit
  <1>2. DispatchedOnce
    BY PipelineAssumption DEF Init, IdleDispatcher, DispatchedOnce
  <1>3. IdleInv
    BY DEF Init, IdleInv, IdleWorker, NoCall
  <1>4. ASSUME NEW t \in Tasks
        PROVE  TaskInv(t)
    <2>1. \A w \in Workers : ~Busy(w, t)
      BY DEF Init, IdleWorker, Busy
    <2>2. EntryInv(t) /\ ~HasEntry(t)
      BY <2>1 DEF Init, EntryInv, HasEntry
    <2>3. ~Final(t)
      BY DEF Init, Final, IsTerminal, TerminalStatuses
    <2>4. SaveInv(t)
      BY DEF Init, SaveInv
    <2> QED BY <2>1, <2>2, <2>3, <2>4 DEF TaskInv, ProducerInv
  <1> QED BY <1>1, <1>2, <1>3, <1>4 DEF CustodyInv

LEMMA CustodyStep ==
  ASSUME Orderly, CustodyInv, [Next]_vars
  PROVE  CustodyInv'
  <1>1. TypeOK' /\ DispatchedOnce'
    BY TypeStep, DispatchStep DEF CustodyInv
  <1>2. CASE \E t \in Tasks : RequestNext(t)
    BY <1>1, <1>2, RequestKeeps
  <1>3. CASE \E d \in Dispatchers : DispatchNext(d)
    BY <1>1, <1>3, DispatchKeeps
  <1>4. CASE \E w \in Workers : WorkNext(w) \/ CallbackNext(w)
    BY <1>1, <1>4, WorkKeeps, CallbackKeeps
  <1>5. CASE (\E p \in Projects : LockExpires(p)) \/ UNCHANGED vars
    <2>1. UNCHANGED <<task, applied, requestVars, producerVars, queueVars, workerVars>>
      BY <1>5 DEF LockExpires, vars, taskVars
    <2>2. \A u \in Tasks : Untouched(u)
      BY <2>1 DEF Untouched, NoNewEntry, InProducer, MarkPending, NotYetQueued, requestVars,
         producerVars, queueVars
    <2>3. \A u \in Tasks : HandsOver(u)
      BY <2>2, UntouchedStays DEF CustodyInv
    <2> QED BY <1>1, <2>1, <2>3, AllHandedOver
  <1>6. CASE EnvironmentNext /\ ~(\E p \in Projects : LockExpires(p))
    <2>1. ~ServerCrash
      BY NoDisorder DEF ServerCrash, Disorders
    <2> QED BY <1>1, <1>6, <2>1, RequestKeeps, WorkKeeps DEF EnvironmentNext
  <1> QED BY <1>2, <1>3, <1>4, <1>5, <1>6 DEF Next

LEMMA CustodyCorrect == ASSUME Orderly PROVE Spec => []CustodyInv
  <1>1. CustodyInv /\ [Next]_vars => CustodyInv'
    BY CustodyStep
  <1> QED BY CustodyInit, <1>1, PTL DEF Spec

\* A task is handed on by every crash, retry and repeated report without being worked on
\* twice: its result reaches the graph once.
THEOREM AppliedAtMostOnceCorrect == ASSUME Orderly PROVE Spec => []AppliedAtMostOnce
  <1>1. CustodyInv => AppliedAtMostOnce
    BY DEF CustodyInv, TaskInv, SaveInv, AppliedAtMostOnce
  <1> QED BY <1>1, CustodyCorrect, PTL

-----------------------------------------------------------------------------
(* What a step can do to the rest, now that it is known where tasks are.   *)

Active(t) == HasEntry(t) \/ \E w \in Workers : Busy(w, t)

\* A worker touches no row, lock, project or request, and nothing while its callback is
\* being handled; entries of a task come of entries of it, or of work on it.
LEMMA WorkActs ==
  ASSUME Orderly, CustodyInv, NEW w \in Workers, WorkNext(w) \/ WorkerCrash(w) \/ LoseReply(w)
  PROVE  /\ Alone(w) /\ UNCHANGED <<taskVars, requestVars, producerVars>>
         /\ Serving(w) =>
              worker'[w].msg = worker[w].msg /\ worker'[w].st = worker[w].st /\ call'[w] = call[w]
         /\ ~Serving(w) => call'[w].pc \in {"none", "enter", "ok", "err"}
         /\ \A t \in Tasks : HasEntry(t)' \/ Busy(w, t)' => HasEntry(t) \/ Busy(w, t)
  <1> USE DEF queueVars
  <1>1. TypeOK /\ IdleInv
    BY DEF CustodyInv
  <1>2. UNCHANGED <<taskVars, requestVars, producerVars>>
    BY DEF WorkNext, ReadMessage, ClaimStalePending, ReleaseDelayedTask, Advance, PostCompleted,
       FailAttempt,
           AckRescheduled, MoveToDeadLetter, FinishRetry, WorkerRestart, WorkerCrash, LoseReply
  <1> DEFINE Acts == /\ Alone(w)
                     /\ Serving(w) => /\ worker'[w].msg = worker[w].msg /\ worker'[w].st = worker[w].st
                                      /\ call'[w] = call[w]
                     /\ ~Serving(w) => call'[w].pc \in {"none", "enter", "ok", "err"}
                     /\ \A t \in Tasks : HasEntry(t)' \/ Busy(w, t)' => HasEntry(t) \/ Busy(w, t)
  \* It runs, and goes on with its entry, of whose task it may add one.
  <1>3. ASSUME Running(w), ~Serving(w), Alone(w), call'[w].pc \in {"none", "enter", "ok", "err"},
               worker'[w].st = "idle" \/ worker'[w].msg = worker[w].msg,
               \A e \in workerStream' : e \in workerStream,
               \A e \in workerDelayed' : e \in workerDelayed \/ e.task = worker[w].msg.task,
               \A r \in pending' : r \in pending
        PROVE  Acts
    <2>1. \A t \in Tasks : Busy(w, t)' => Busy(w, t)
      BY <1>3 DEF Busy, Engaged, Running
    <2>2. \A t \in Tasks : HasEntry(t)' => HasEntry(t) \/ Busy(w, t)
      BY <1>3 DEF HasEntry, Busy, Engaged, Running
    <2> QED BY <1>3, <2>1, <2>2
  <1> HIDE DEF Acts
  <1> DEFINE Alike == /\ Alone(w) /\ call'[w].pc \in {"none", "enter", "ok", "err"}
                      /\ worker'[w].st = "idle" \/ worker'[w].msg = worker[w].msg
  <1>4. ASSUME Advance(w)
        PROVE  Acts
    <2>1. /\ Running(w) /\ ~Serving(w) /\ UNCHANGED <<workerStream, workerDelayed>>
          /\ \A r \in pending' : r \in pending
          /\ Stop(w) \/ \E st, doc : Post(w, st, doc)
      BY <1>4 DEF Advance, Serving, Ack
    <2>2. Alike
      BY <1>1, <2>1, PostMoves, StopMoves
    <2> QED BY <1>3, <2>1, <2>2
  <1>5. ASSUME PostCompleted(w)
        PROVE  Acts
    <2>1. Running(w) /\ ~Serving(w) /\ UNCHANGED queueVars /\ Post(w, "completed", 0)
      BY <1>5 DEF PostCompleted, Serving
    <2>2. Alike
      BY <1>1, <2>1, PostMoves
    <2> QED BY <1>3, <2>1, <2>2
  <1>6. ASSUME FailAttempt(w)
        PROVE  Acts
    <2>1. /\ Running(w) /\ ~Serving(w) /\ UNCHANGED workerStream
          /\ \A r \in pending' : r \in pending
          /\ \A e \in workerDelayed' : e \in workerDelayed \/ e.task = worker[w].msg.task
          /\ \E st : worker' = [worker EXCEPT ![w].st = st]
          /\ call' = [call EXCEPT ![w] = NoCall]
      BY <1>6 DEF FailAttempt, Answered, Serving, Ack, FreshEntries
    <2>2. Alike
      BY <1>1, <2>1, FailMoves
    <2> QED BY <1>3, <2>1, <2>2
  <1>7. ASSUME AckRescheduled(w) \/ MoveToDeadLetter(w)
        PROVE  Acts
    <2>1. /\ Running(w) /\ worker[w].st \in {"rescheduled", "acked"}
          /\ UNCHANGED <<workerStream, workerDelayed>> /\ \A r \in pending' : r \in pending
          /\ \E st, doc : Post(w, st, doc)
      BY <1>7 DEF AckRescheduled, MoveToDeadLetter, Ack
    <2>2. ~Serving(w)
      BY <2>1, AtTask DEF HandlerInv, Serving
    <2>3. Alike
      BY <1>1, <2>1, PostMoves
    <2> QED BY <1>3, <2>1, <2>2, <2>3
  <1>8. ASSUME FinishRetry(w)
        PROVE  Acts
    <2>1. Running(w) /\ ~Serving(w) /\ UNCHANGED queueVars /\ Stop(w)
      BY <1>8 DEF FinishRetry, Answered, Serving
    <2>2. Alike
      BY <1>1, <2>1, StopMoves
    <2> QED BY <1>3, <2>1, <2>2
  <1>9. ASSUME LoseReply(w)
        PROVE  Acts
    <2>1. /\ Running(w) /\ ~Serving(w) /\ UNCHANGED <<queueVars, worker>>
          /\ call' = [call EXCEPT ![w].pc = "err"]
      BY <1>9 DEF LoseReply, Serving
    <2>2. Alone(w) /\ call'[w].pc = "err"
      BY <1>1, <2>1 DEF TypeOK, WorkersOK, Alone
    <2> QED BY <1>3, <2>1, <2>2
  <1>10. ASSUME WorkerCrash(w)
         PROVE  Acts
    <2>1. Running(w) /\ UNCHANGED <<queueVars, call>> /\ worker' = [worker EXCEPT ![w].up = FALSE]
      BY <1>10 DEF WorkerCrash
    <2>2. Alone(w) /\ worker'[w].msg = worker[w].msg /\ worker'[w].st = worker[w].st
      BY <1>1, <2>1 DEF TypeOK, WorkersOK, Alone
    <2>3. ~Serving(w) => call'[w].pc \in {"none", "ok", "err"}
      BY <2>1 DEF Serving
    <2>4. \A t \in Tasks : HasEntry(t)' \/ Busy(w, t)' => HasEntry(t) \/ Busy(w, t)
      BY <2>1, <2>2 DEF HasEntry, Busy, Engaged, Running
    <2> QED BY <2>1, <2>2, <2>3, <2>4 DEF Acts
  <1>11. ASSUME WorkerRestart(w)
         PROVE  Acts
    <2>1. ~Serving(w) /\ UNCHANGED queueVars /\ Stop(w)
      BY <1>11 DEF WorkerRestart
    <2>2. Alone(w) /\ worker'[w].st = "idle" /\ call'[w].pc = "none"
      BY <1>1, <2>1, StopMoves
    <2> QED BY <2>1, <2>2 DEF Acts, HasEntry, Busy
  \* It takes an entry.
  <1>12. ASSUME NEW e, Idle(w), Accept(w, e), HasEntry(e.task), UNCHANGED workerDelayed,
                \A f \in workerStream' : f \in workerStream,
                \A r \in pending' : r \in pending \/ r.entry = e
         PROVE  Acts
    <2>1. Alone(w) /\ worker'[w].msg = e /\ call'[w].pc = "enter"
      BY <1>1, <1>12, AcceptMoves
    <2>2. ~Serving(w)
      BY <1>1, <1>12 DEF Idle, IdleInv, Serving
    <2>3. \A t \in Tasks : HasEntry(t)' => HasEntry(t)
      BY <1>12 DEF HasEntry
    <2>4. \A t \in Tasks : Busy(w, t)' => HasEntry(t)
      BY <1>12, <2>1 DEF Busy
    <2> QED BY <2>1, <2>2, <2>3, <2>4 DEF Acts
  <1>13. ASSUME NEW e \in workerStream, ReadMessage(w, e)
         PROVE  Acts
    <2>1. HasEntry(e.task)
      BY DEF HasEntry
    <2> QED BY <1>12, <1>13, <2>1 DEF ReadMessage, Deliver
  <1>14. ASSUME NEW r \in pending, ClaimStalePending(w, r)
         PROVE  Acts
    <2>1. HasEntry(r.entry.task)
      BY DEF HasEntry
    <2> QED BY <1>12, <1>14, <2>1 DEF ClaimStalePending
  <1>15. ASSUME NEW e \in workerDelayed, ReleaseDelayedTask(w, e)
         PROVE  Acts
    <2>1. /\ UNCHANGED <<worker, call, pending>>
          /\ \A f \in workerStream' \union workerDelayed' : f \in workerStream \union workerDelayed
      BY <1>15 DEF ReleaseDelayedTask, workerVars
    <2>2. \A t \in Tasks : (HasEntry(t)' => HasEntry(t)) /\ (Busy(w, t)' <=> Busy(w, t))
      BY <2>1 DEF HasEntry, Busy, Engaged, Serving
    <2> QED BY <2>1, <2>2 DEF Acts, Alone, Serving
  <1>16. Acts
    BY <1>4, <1>5, <1>6, <1>7, <1>8, <1>9, <1>10, <1>11, <1>13, <1>14, <1>15 DEF WorkNext
  <1> QED BY <1>2, <1>16 DEF Acts

\* A handler leaves workers, requests and dispatchers alone and only takes entries away.
LEMMA CallbackActs ==
  ASSUME CustodyInv, NEW w \in Workers, CallbackNext(w)
  PROVE  /\ Serving(w) /\ UNCHANGED <<worker, requestVars, producerDelayed, dispatcher>>
         /\ \A v \in Workers : v # w => call'[v] = call[v]
         /\ \A t \in Tasks : Active(t)' => Active(t)
  <1> USE DEF producerVars, queueVars, requestVars
  <1>1. TypeOK
    BY DEF CustodyInv
  <1>2. Serving(w)
    BY DEF CallbackNext, ReceiveCallback, TouchProjectLock, WriteReported, ShowGenerating,
       PersistGeneratedGraph,
           SetCompleted, ReleaseProjectLock, ClearTaskStreamEntries, Serving
  <1>3. /\ UNCHANGED <<worker, requestVars, producerDelayed, dispatcher, workerDelayed>>
        /\ workerStream' \subseteq workerStream /\ pending' \subseteq pending
    BY DEF CallbackNext, ReceiveCallback, TouchProjectLock, WriteReported, ShowGenerating,
       PersistGeneratedGraph,
           SetCompleted, ReleaseProjectLock, ClearTaskStreamEntries
  <1>4. (\E pc : Serve(w, pc)) \/ \E pc, out : ServeOutcome(w, pc, out)
    BY DEF CallbackNext, ReceiveCallback, TouchProjectLock, WriteReported, ShowGenerating,
       PersistGeneratedGraph,
           SetCompleted, ReleaseProjectLock, ClearTaskStreamEntries
  <1>5. \A v \in Workers : v # w => call'[v] = call[v]
    BY <1>1, <1>3, <1>4, ServeMoves, ServeOutcomeMoves DEF Alone
  <1>6. \A v \in Workers, t \in Tasks : Busy(v, t)' => Busy(v, t)
    BY <1>2, <1>3, <1>5 DEF Busy, Engaged, Serving
  <1>7. \A t \in Tasks : HasEntry(t)' => HasEntry(t)
    BY <1>3 DEF HasEntry
  <1> QED BY <1>2, <1>3, <1>5, <1>6, <1>7 DEF Active

\* A row that is final stays as it is, but for failed rows that become dead.
Respected(t) ==
  \/ ~Final(t)
  \/ task'[t].status = task[t].status
  \/ task[t].status = "failed" /\ task'[t].status = "dead"

\* A write of one row, and only of it.
RowWritten(t) == \A u \in Tasks : u # t => task'[u] = task[u]

LEMMA RequestRespects ==
  ASSUME CustodyInv, NEW t \in Tasks, RequestNext(t)
  PROVE  \A u \in Tasks : Respected(u)
  <1>1. TypeOK
    BY DEF CustodyInv
  <1>2. CASE UNCHANGED task
    BY <1>2 DEF Respected
  <1>3. CASE ~(UNCHANGED task)
    <2>1. NotYetQueued(t) \/ submit[t] = "mark"
      BY <1>3 DEF RequestNext, CreateTask, CreateTaskFails, PrepareDocuments,
         PrepareDocumentsFails,
                  EnqueueFaultTree, EnqueueKnowledgeGraph, EnqueueFails, MarkProducerQueued,
                  ResubmitFindsExisting, ResubmitShows, GiveUp, NotYetQueued, taskVars
    <2>2. ~Final(t)
      BY <2>1 DEF CustodyInv, TaskInv, ProducerInv, InProducer, MarkPending
    <2>3. \/ \E row : task' = [task EXCEPT ![t] = row]
          \/ SetFailed(t)
          \/ \E status, progress : UpdateStatus(t, status, progress)
      BY <1>3 DEF RequestNext, CreateTask, CreateTaskFails, PrepareDocuments,
         PrepareDocumentsFails,
                  EnqueueFaultTree, EnqueueKnowledgeGraph, EnqueueFails, MarkProducerQueued,
                  ResubmitFindsExisting, ResubmitShows, GiveUp, taskVars
    <2>4. RowWritten(t)
      BY <1>1, <2>3, UpdateMoves DEF RowWritten, TypeOK, RowsOK
    <2> QED BY <2>2, <2>4 DEF RowWritten, Respected
  <1> QED BY <1>2, <1>3

LEMMA DispatchRespects ==
  ASSUME CustodyInv, NEW d \in Dispatchers, DispatchNext(d)
  PROVE  \A u \in Tasks : Respected(u)
  <1>1. TypeOK
    BY DEF CustodyInv
  <1>2. CASE UNCHANGED task
    BY <1>2 DEF Respected
  <1>3. ASSUME NEW t \in Tasks, NEW n, UpdateStatus(t, "pending", n), InProducer(t) \/ MarkPending(t)
        PROVE  \A u \in Tasks : Respected(u)
    <2>1. ~Final(t)
      BY <1>3 DEF CustodyInv, TaskInv, ProducerInv
    <2> QED BY <1>1, <1>3, <2>1, UpdateMoves DEF Respected
  <1>4. CASE ~(UNCHANGED task)
    <2>1. \/ \E n : /\ UpdateStatus(dispatcher[d].task, "pending", n)
                    /\ dispatcher[d].pc \in {"lock", "retry", "mark"}
          \/ \E t \in Tasks : UpdateStatus(t, "pending", 4) /\ t \in producerStream
      BY <1>4 DEF DispatchNext, TryAcquireProjectLock, DispatcherEnqueue, DispatcherUnlock,
         MarkDispatchRetrying,
                  RequeueDelayed, MarkEnqueued, ReleaseDelayedProducerTask, ReadProducerMessage, taskVars
    <2>2. CASE \E t \in Tasks : UpdateStatus(t, "pending", 4) /\ t \in producerStream
      BY <1>3, <2>2 DEF InProducer
    <2>3. CASE dispatcher[d].pc \in {"lock", "retry", "mark"}
      <3>1. PICK t \in Tasks : t = dispatcher[d].task
        BY <1>1, <2>3 DEF TypeOK, ProducerOK
      <3>2. dispatcher[d].pc = "mark" => dispatcher[d] = [pc |-> "mark", task |-> t]
        BY <1>1, <3>1 DEF TypeOK, ProducerOK
      <3>3. InProducer(t) \/ MarkPending(t)
        BY <2>3, <3>1, <3>2 DEF InProducer, MarkPending
      <3> QED BY <1>3, <2>1, <2>2, <3>1, <3>3
    <2> QED BY <2>1, <2>2, <2>3
  <1> QED BY <1>2, <1>4

LEMMA CallbackRespects ==
  ASSUME CustodyInv, NEW w \in Workers, CallbackNext(w)
  PROVE  \A u \in Tasks : Respected(u)
  <1>1. PICK t \in Tasks : t = worker[w].msg.task
    BY CallbackActs, ServingIsBusy
  <1>2. TypeOK /\ HandlerInv(w, t)
    BY <1>1, CallbackActs, AtTask
  <1>3. CASE WriteReported(w)
    <2>1. /\ call[w].pc = "write"
          /\ \/ UNCHANGED task
             \/ \E n, a : UpdateStatusExt(t, ReportedStatus(worker[w].st), n, a)
      BY <1>1, <1>3 DEF WriteReported
    <2>2. Final(t) => ReportedStatus(worker[w].st) = "dead" /\ task[t].status = "failed"
      BY <1>2, <2>1 DEF HandlerInv, ReportedStatus
    <2> QED BY <1>2, <2>1, <2>2, UpdateMoves DEF Respected
  <1>4. CASE PersistGeneratedGraph(w) \/ SetCompleted(w)
    <2>1. ~Final(t)
      BY <1>2, <1>4 DEF PersistGeneratedGraph, SetCompleted, HandlerInv
    <2>2. RowWritten(t)
      BY <1>1, <1>2, <1>4, UpdateMoves DEF PersistGeneratedGraph, SetCompleted, RowWritten,
         TypeOK, RowsOK
    <2> QED BY <2>1, <2>2 DEF RowWritten, Respected
  <1>5. CASE ~WriteReported(w) /\ ~PersistGeneratedGraph(w) /\ ~SetCompleted(w)
    <2>1. UNCHANGED task
      BY <1>5 DEF CallbackNext, ReceiveCallback, TouchProjectLock, ShowGenerating,
         ReleaseProjectLock,
                  ClearTaskStreamEntries
    <2> QED BY <2>1 DEF Respected
  <1> QED BY <1>3, <1>4, <1>5

LEMMA RowsRespected ==
  ASSUME Orderly, CustodyInv, [Next]_vars
  PROVE  \A t \in Tasks : Respected(t)
  <1>1. CASE (\E w \in Workers : WorkNext(w)) \/ EnvironmentNext \/ UNCHANGED vars
    <2>1. UNCHANGED task
      BY <1>1, WorkActs DEF EnvironmentNext, SubmitStart, Resubmit, LockExpires, ServerCrash,
         vars, taskVars
    <2> QED BY <2>1 DEF Respected
  <1> QED BY <1>1, RequestRespects, DispatchRespects, CallbackRespects DEF Next

\* A finished task is never brought back to life, by whatever comes late or twice: who
\* writes its row has custody of it, and judged it by what it is now.
THEOREM TerminalIsFinalCorrect == ASSUME Orderly PROVE Spec => TerminalIsFinal
  <1> DEFINE Kept == \A t \in Tasks : IsTerminal(task[t].status) =>
                       \/ task'[t].status = task[t].status
                       \/ task[t].status = "failed" /\ task'[t].status = "dead"
  <1>1. CustodyInv /\ [Next]_vars => Kept
    BY RowsRespected DEF Respected, Final
  <1>2. CustodyInv /\ [Next]_vars => [Kept]_vars
    BY <1>1
  <1> HIDE DEF Kept
  <1>3. Spec => [][Kept]_vars
    BY <1>2, CustodyCorrect, PTL DEF Spec
  <1> QED BY <1>3 DEF Kept, TerminalIsFinal

-----------------------------------------------------------------------------
(* The locks. *)

\* A handler or a dispatcher deletes the lock of p.
HandlerDeletes(w, p) ==
  call[w].pc = "delete" /\ ProjectOf[worker[w].msg.task] = p /\ call'[w].pc = "clear"

DispatcherDeletes(d, p) ==
  dispatcher[d].pc = "delete" /\ ProjectOf[dispatcher[d].task] = p /\ dispatcher'[d].pc = "retry"

\* The lock of p, which was free, is given to t, which is dispatched or worked on.
TakenFor(p, t) ==
  /\ lock[p] = NoTask /\ lock'[p] = t /\ ProjectOf[t] = p
  /\ ~NotYetQueued(t) /\ ~Final(t)'

\* What becomes of the lock of p, when it does not expire.
LockMoves(p) ==
  \/ lock'[p] = lock[p]
  \/ \E t \in Tasks : TakenFor(p, t)
  \/ lock'[p] = NoTask /\ \E w \in Workers : HandlerDeletes(w, p)
  \/ lock'[p] = NoTask /\ \E d \in Dispatchers : DispatcherDeletes(d, p)

LEMMA CallbackLocks ==
  ASSUME CustodyInv, NEW w \in Workers, CallbackNext(w), NEW p \in Projects
  PROVE  LockMoves(p)
  <1>1. PICK t \in Tasks : t = worker[w].msg.task
    BY CallbackActs, ServingIsBusy
  <1>2. /\ TypeOK /\ TaskInv(t) /\ Busy(w, t) /\ HandlerInv(w, t) /\ ProjectOf[t] \in Projects
    BY <1>1, CallbackActs, AtTask, PipelineAssumption
  <1>3. CASE TouchProjectLock(w)
    <2>1. CASE lock' = [lock EXCEPT ![ProjectOf[t]] = IF LockFree(t) THEN t ELSE @]
      <3>1. \/ lock'[p] = lock[p]
            \/ p = ProjectOf[t] /\ lock[p] = NoTask /\ lock'[p] = t
        BY <1>2, <2>1 DEF TypeOK, ProjectsOK, LockFree
      <3>2. ~NotYetQueued(t) /\ ~Final(t)'
        BY <1>2, <1>3 DEF TouchProjectLock, TaskInv, ProducerInv, InProducer, HandlerInv, Final
      <3> QED BY <3>1, <3>2 DEF LockMoves, TakenFor
    <2>2. CASE UNCHANGED lock
      BY <2>2 DEF LockMoves
    <2> QED BY <1>1, <1>3, <2>1, <2>2 DEF TouchProjectLock
  <1>4. CASE ReleaseProjectLock(w)
    <2>1. CASE /\ call[w].pc = "delete" /\ Serve(w, "clear")
               /\ lock' = [lock EXCEPT ![ProjectOf[t]] = NoTask]
      <3>1. lock'[p] = lock[p] \/ (p = ProjectOf[t] /\ lock'[p] = NoTask)
        BY <1>2, <2>1 DEF TypeOK, ProjectsOK
      <3>2. call'[w].pc = "clear"
        BY <1>2, <1>4, <2>1, ServeMoves DEF ReleaseProjectLock
      <3> QED BY <1>1, <2>1, <3>1, <3>2 DEF LockMoves, HandlerDeletes
    <2>2. CASE UNCHANGED lock
      BY <2>2 DEF LockMoves
    <2> QED BY <1>1, <1>4, <2>1, <2>2 DEF ReleaseProjectLock
  <1>5. CASE ~TouchProjectLock(w) /\ ~ReleaseProjectLock(w)
    <2>1. UNCHANGED lock
      BY <1>5 DEF CallbackNext, ReceiveCallback, WriteReported, ShowGenerating,
         PersistGeneratedGraph,
                  SetCompleted, ClearTaskStreamEntries
    <2> QED BY <2>1 DEF LockMoves
  <1> QED BY <1>3, <1>4, <1>5

LEMMA DispatchLocks ==
  ASSUME Orderly, CustodyInv, NEW d \in Dispatchers, DispatchNext(d), NEW p \in Projects
  PROVE  LockMoves(p)
  <1>1. TypeOK /\ DispatchedOnce
    BY DEF CustodyInv
  <1>2. CASE TryAcquireProjectLock(d)
    <2>1. PICK t \in Tasks : t = dispatcher[d].task
      BY <1>1, <1>2 DEF TryAcquireProjectLock, TypeOK, ProducerOK
    <2>2. UNCHANGED lock \/ (LockFree(t) /\ lock' = [lock EXCEPT ![ProjectOf[t]] = t] /\ UNCHANGED task)
      BY <1>2, <2>1, NoDisorder DEF TryAcquireProjectLock, Disorders
    <2>3. CASE LockFree(t) /\ lock' = [lock EXCEPT ![ProjectOf[t]] = t] /\ UNCHANGED task
      <3>1. InProducer(t) /\ ~NotYetQueued(t)
        BY <1>1, <1>2, <2>1 DEF TryAcquireProjectLock, InProducer, DispatchedOnce
      <3>2. ~Final(t)'
        BY <2>3, <3>1 DEF CustodyInv, TaskInv, ProducerInv, Final
      <3>3. lock'[p] = lock[p] \/ (p = ProjectOf[t] /\ lock[p] = NoTask /\ lock'[p] = t)
        BY <1>1, <2>3 DEF TypeOK, ProjectsOK, LockFree
      <3> QED BY <3>1, <3>2, <3>3 DEF LockMoves, TakenFor
    <2> QED BY <2>2, <2>3 DEF LockMoves
  <1>3. CASE DispatcherUnlock(d)
    <2>1. CASE /\ dispatcher[d].pc = "delete" /\ Goto(d, "retry")
               /\ lock' = [lock EXCEPT ![ProjectOf[dispatcher[d].task]] = NoTask]
      <3>1. dispatcher'[d].pc = "retry"
        BY <1>1, <2>1, GotoMoves
      <3>2. lock'[p] = lock[p] \/ (p = ProjectOf[dispatcher[d].task] /\ lock'[p] = NoTask)
        BY <1>1, <2>1 DEF TypeOK, ProjectsOK
      <3> QED BY <2>1, <3>1, <3>2 DEF LockMoves, DispatcherDeletes
    <2> QED BY <1>3, <2>1 DEF DispatcherUnlock, LockMoves
  <1>4. CASE ~TryAcquireProjectLock(d) /\ ~DispatcherUnlock(d)
    <2>1. UNCHANGED lock
      BY <1>4 DEF DispatchNext, DispatcherEnqueue, MarkDispatchRetrying, RequeueDelayed,
         MarkEnqueued,
                  ReleaseDelayedProducerTask, ReadProducerMessage, taskVars
    <2> QED BY <2>1 DEF LockMoves
  <1> QED BY <1>2, <1>3, <1>4

LEMMA LocksMove ==
  ASSUME Orderly, CustodyInv, [Next]_vars, NEW p \in Projects
  PROVE  LockMoves(p) \/ (lock'[p] = NoTask /\ \E q \in Projects : LockExpires(q))
  <1>1. CASE (\E t \in Tasks : RequestNext(t) \/ SubmitStart(t) \/ Resubmit(t)) \/ ServerCrash \/ UNCHANGED vars
    <2>1. UNCHANGED lock
      BY <1>1 DEF RequestNext, CreateTask, CreateTaskFails, PrepareDocuments,
         PrepareDocumentsFails,
                  EnqueueFaultTree, EnqueueKnowledgeGraph, EnqueueFails, MarkProducerQueued,
                  ResubmitFindsExisting, ResubmitShows, GiveUp, SubmitStart, Resubmit, ServerCrash, vars, taskVars
    <2> QED BY <2>1 DEF LockMoves
  <1>2. CASE \E w \in Workers : WorkNext(w) \/ WorkerCrash(w) \/ LoseReply(w)
    <2>1. UNCHANGED lock
      BY <1>2, WorkActs DEF taskVars
    <2> QED BY <2>1 DEF LockMoves
  <1>3. ASSUME NEW q \in Projects, LockExpires(q)
        PROVE  LockMoves(p) \/ lock'[p] = NoTask
    BY <1>3 DEF LockExpires, CustodyInv, TypeOK, ProjectsOK, LockMoves
  <1> QED BY <1>1, <1>2, <1>3, CallbackLocks, DispatchLocks DEF Next, EnvironmentNext

\* A task gets to the workers from where it is already on its way there.
OnItsWay(t) ==
  Active(t) \/ \E d \in Dispatchers : dispatcher[d].pc = "enqueue" /\ dispatcher[d].task = t

LEMMA RequestActs ==
  ASSUME CustodyInv, NEW t \in Tasks, RequestNext(t) \/ SubmitStart(t) \/ Resubmit(t)
  PROVE  /\ UNCHANGED <<workerVars, dispatcher>>
         /\ \A u \in FaultTreeTasks : Active(u)' => Active(u)
  <1> USE DEF producerVars, queueVars
  <1>1. /\ UNCHANGED <<worker, call, dispatcher, pending, workerDelayed>>
        /\ UNCHANGED workerStream \/ (t \notin FaultTreeTasks /\ EnqueueTask(t))
    BY DEF RequestNext, CreateTask, CreateTaskFails, PrepareDocuments, PrepareDocumentsFails,
           EnqueueFaultTree, EnqueueKnowledgeGraph, EnqueueFails, MarkProducerQueued,
           ResubmitFindsExisting, ResubmitShows, GiveUp, SubmitStart, Resubmit, workerVars
  <1>2. \A e \in workerStream' : e \in workerStream \/ e.task \notin FaultTreeTasks
    BY <1>1 DEF EnqueueTask, FreshEntries
  <1>3. \A u \in FaultTreeTasks : HasEntry(u)' => HasEntry(u)
    BY <1>1, <1>2 DEF HasEntry
  <1>4. \A w \in Workers, u \in FaultTreeTasks : Busy(w, u)' <=> Busy(w, u)
    BY <1>1 DEF Busy, Engaged, Serving
  <1> QED BY <1>1, <1>3, <1>4 DEF Active, workerVars

LEMMA DispatchActs ==
  ASSUME CustodyInv, NEW d \in Dispatchers, DispatchNext(d)
  PROVE  /\ UNCHANGED <<workerVars, submit, again, project>>
         /\ \A x \in Dispatchers : x # d => dispatcher'[x] = dispatcher[x]
         /\ \A u \in Tasks : Active(u)' => OnItsWay(u)
         /\ dispatcher'[d].pc = "enqueue" =>
              /\ dispatcher'[d].task = dispatcher[d].task
              /\ lock'[ProjectOf[dispatcher[d].task]] = dispatcher[d].task
         /\ dispatcher'[d].pc = "delete" =>
              /\ dispatcher'[d].task = dispatcher[d].task /\ UNCHANGED lock
              /\ lock[ProjectOf[dispatcher[d].task]] = dispatcher[d].task
  <1> USE DEF taskVars, requestVars, queueVars
  <1> DEFINE Acts == /\ \A x \in Dispatchers : x # d => dispatcher'[x] = dispatcher[x]
                     /\ dispatcher'[d].pc = "enqueue" =>
                          /\ dispatcher'[d].task = dispatcher[d].task
                          /\ lock'[ProjectOf[dispatcher[d].task]] = dispatcher[d].task
                     /\ dispatcher'[d].pc = "delete" =>
                          /\ dispatcher'[d].task = dispatcher[d].task /\ UNCHANGED lock
                          /\ lock[ProjectOf[dispatcher[d].task]] = dispatcher[d].task
  <1>1. TypeOK
    BY DEF CustodyInv
  <1>2. /\ UNCHANGED <<worker, call, submit, again, project, pending, workerDelayed>>
        /\ UNCHANGED workerStream \/ (dispatcher[d].pc = "enqueue" /\ EnqueueTask(dispatcher[d].task))
    BY DEF DispatchNext, TryAcquireProjectLock, DispatcherEnqueue, DispatcherUnlock,
       MarkDispatchRetrying,
           RequeueDelayed, MarkEnqueued, ReleaseDelayedProducerTask, ReadProducerMessage, workerVars
  <1>3. \A u \in Tasks : Active(u)' => OnItsWay(u)
    <2>1. \A e \in workerStream' : e \in workerStream \/ (dispatcher[d].pc = "enqueue" /\ dispatcher[d].task = e.task)
      BY <1>2 DEF EnqueueTask, FreshEntries
    <2>2. \A u \in Tasks : HasEntry(u)' => OnItsWay(u)
      BY <1>2, <2>1 DEF HasEntry, OnItsWay, Active
    <2>3. \A w \in Workers, u \in Tasks : Busy(w, u)' => Busy(w, u)
      BY <1>2 DEF Busy, Engaged, Serving
    <2> QED BY <2>2, <2>3 DEF OnItsWay, Active
  <1>4. ASSUME NEW pc \in {"requeue", "mark", "unlock", "retry"}, Goto(d, pc)
        PROVE  Acts
    BY <1>1, <1>4, GotoMoves
  <1>5. ASSUME NEW r, r.pc \notin {"enqueue", "delete"}, dispatcher' = [dispatcher EXCEPT ![d] = r]
        PROVE  Acts
    BY <1>1, <1>5 DEF TypeOK, ProducerOK
  <1> HIDE DEF Acts
  <1>6. ASSUME TryAcquireProjectLock(d)
        PROVE  Acts
    <2>1. PICK t \in Tasks : t = dispatcher[d].task
      BY <1>1, <1>6 DEF TryAcquireProjectLock, TypeOK, ProducerOK
    <2>2. CASE lock' = [lock EXCEPT ![ProjectOf[t]] = t] /\ Goto(d, "enqueue")
      <3>1. lock'[ProjectOf[t]] = t
        BY <1>1, <2>2, PipelineAssumption DEF TypeOK, ProjectsOK
      <3> QED BY <1>1, <2>1, <2>2, <3>1, GotoMoves DEF Acts
    <2> QED BY <1>4, <1>6, <2>1, <2>2 DEF TryAcquireProjectLock
  <1>7. ASSUME DispatcherUnlock(d)
        PROVE  Acts
    <2>1. PICK t \in Tasks : t = dispatcher[d].task
      BY <1>1, <1>7 DEF DispatcherUnlock, TypeOK, ProducerOK
    <2>2. CASE LockOurs(t) /\ UNCHANGED lock /\ Goto(d, "delete")
      BY <1>1, <2>1, <2>2, GotoMoves DEF Acts, LockOurs
    <2> QED BY <1>4, <1>7, <2>1, <2>2 DEF DispatcherUnlock
  <1>8. ASSUME DispatcherEnqueue(d) \/ MarkDispatchRetrying(d)
        PROVE  Acts
    BY <1>4, <1>8 DEF DispatcherEnqueue, MarkDispatchRetrying
  <1>9. ASSUME RequeueDelayed(d) \/ MarkEnqueued(d)
        PROVE  Acts
    <2>1. IdleDispatcher.pc = "idle"
      BY DEF IdleDispatcher
    <2> QED BY <1>5, <1>9, <2>1 DEF RequeueDelayed, MarkEnqueued
  <1>10. ASSUME NEW t \in Tasks, ReadProducerMessage(d, t)
         PROVE  Acts
    BY <1>5, <1>10 DEF ReadProducerMessage
  <1>11. ASSUME NEW t \in Tasks, ReleaseDelayedProducerTask(d, t)
         PROVE  Acts
    BY <1>11 DEF Acts, ReleaseDelayedProducerTask
  <1>12. Acts
    BY <1>6, <1>7, <1>8, <1>9, <1>10, <1>11 DEF DispatchNext
  <1> QED BY <1>2, <1>3, <1>12 DEF Acts, workerVars

\* Every step is a request's, a dispatcher's, a worker's or a handler's, or changes only locks.
LEMMA StepIs ==
  ASSUME Orderly, [Next]_vars
  PROVE  \/ \E t \in Tasks : RequestNext(t) \/ SubmitStart(t) \/ Resubmit(t)
         \/ \E d \in Dispatchers : DispatchNext(d)
         \/ \E w \in Workers : WorkNext(w) \/ WorkerCrash(w) \/ LoseReply(w)
         \/ \E w \in Workers : CallbackNext(w)
         \/ UNCHANGED <<task, project, requestVars, producerVars, queueVars, workerVars>>
  BY NoDisorder DEF Next, EnvironmentNext, ServerCrash, LockExpires, Disorders, vars, taskVars

LEMMA OnItsWayBefore ==
  ASSUME Orderly, CustodyInv, [Next]_vars, NEW t \in FaultTreeTasks, OnItsWay(t)'
  PROVE  OnItsWay(t) \/ lock'[ProjectOf[t]] = t
  <1> USE DEF OnItsWay
  <1>t. t \in Tasks
    BY PipelineAssumption
  <1>1. ASSUME NEW u \in Tasks, RequestNext(u) \/ SubmitStart(u) \/ Resubmit(u)
        PROVE  OnItsWay(t)
    BY <1>1, RequestActs
  <1>2. ASSUME NEW d \in Dispatchers, DispatchNext(d)
        PROVE  OnItsWay(t) \/ lock'[ProjectOf[t]] = t
    <2>1. CASE Active(t)'
      BY <1>t, <1>2, <2>1, DispatchActs
    <2>2. ASSUME NEW x \in Dispatchers, dispatcher'[x].pc = "enqueue", dispatcher'[x].task = t
          PROVE  OnItsWay(t) \/ lock'[ProjectOf[t]] = t
      BY <1>2, <2>2, DispatchActs
    <2> QED BY <2>1, <2>2
  <1>3. ASSUME NEW w \in Workers, WorkNext(w) \/ WorkerCrash(w) \/ LoseReply(w)
        PROVE  OnItsWay(t)
    <2>1. /\ Alone(w) /\ UNCHANGED dispatcher
          /\ HasEntry(t)' \/ Busy(w, t)' => HasEntry(t) \/ Busy(w, t)
      BY <1>t, <1>3, WorkActs DEF producerVars
    <2>2. \A v \in Workers : v # w => (Busy(v, t)' <=> Busy(v, t))
      BY <2>1, BusyStays
    <2> QED BY <2>1, <2>2 DEF Active
  <1>4. ASSUME NEW w \in Workers, CallbackNext(w)
        PROVE  OnItsWay(t)
    BY <1>t, <1>4, CallbackActs
  <1>5. CASE UNCHANGED <<producerVars, queueVars, workerVars>>
    BY <1>5 DEF producerVars, queueVars, workerVars, Active, HasEntry, Busy, Engaged, Serving
  <1> QED BY <1>1, <1>2, <1>3, <1>4, <1>5, StepIs

\* Who is about to delete a lock was already, or has just seen whose it is.
LEMMA HandlerChecks ==
  ASSUME Orderly, CustodyInv, [Next]_vars, NEW w \in Workers, call'[w].pc = "delete"
  PROVE  /\ worker'[w].msg = worker[w].msg
         /\ \/ call[w].pc = "delete"
            \/ UNCHANGED lock /\ lock[ProjectOf[worker[w].msg.task]] = worker[w].msg.task
  <1>1. ASSUME NEW v \in Workers, WorkNext(v) \/ WorkerCrash(v) \/ LoseReply(v)
        PROVE  worker'[w].msg = worker[w].msg /\ call[w].pc = "delete"
    BY <1>1, WorkActs DEF Alone
  <1>2. ASSUME NEW v \in Workers, CallbackNext(v), v # w
        PROVE  worker'[w].msg = worker[w].msg /\ call[w].pc = "delete"
    BY <1>2, CallbackActs
  <1>3. ASSUME CallbackNext(w)
        PROVE  /\ worker'[w].msg = worker[w].msg
               /\ UNCHANGED lock /\ lock[ProjectOf[worker[w].msg.task]] = worker[w].msg.task
    <2>1. UNCHANGED worker /\ TypeOK
      BY <1>3, CallbackActs DEF CustodyInv
    <2>2. ASSUME NEW pc, Serve(w, pc)
          PROVE  pc = "delete"
      BY <2>1, <2>2, ServeMoves
    <2>3. ASSUME NEW pc, NEW out, ServeOutcome(w, pc, out)
          PROVE  pc = "delete"
      BY <2>1, <2>3, ServeOutcomeMoves
    <2>4. ~ReceiveCallback(w)
      BY <2>2, VerdictIs DEF ReceiveCallback
    <2>5. ~WriteReported(w) /\ ~PersistGeneratedGraph(w) /\ ~SetCompleted(w)
      BY <2>2, <2>3 DEF WriteReported, PersistGeneratedGraph, SetCompleted
    <2>6. ~TouchProjectLock(w) /\ ~ShowGenerating(w) /\ ~ClearTaskStreamEntries(w)
      BY <2>2 DEF TouchProjectLock, ShowGenerating, ClearTaskStreamEntries
    <2>7. ReleaseProjectLock(w)
      BY <1>3, <2>4, <2>5, <2>6 DEF CallbackNext
    <2>8. LockOurs(worker[w].msg.task) /\ UNCHANGED lock
      BY <2>2, <2>7 DEF ReleaseProjectLock
    <2> QED BY <2>1, <2>8 DEF LockOurs
  <1>4. CASE UNCHANGED <<worker, call>>
    BY <1>4
  <1> QED BY <1>1, <1>2, <1>3, <1>4, StepIs, RequestActs, DispatchActs DEF workerVars

LEMMA DispatcherChecks ==
  ASSUME Orderly, CustodyInv, [Next]_vars, NEW d \in Dispatchers, dispatcher'[d].pc = "delete"
  PROVE  /\ dispatcher'[d].task = dispatcher[d].task
         /\ \/ dispatcher[d].pc = "delete"
            \/ UNCHANGED lock /\ lock[ProjectOf[dispatcher[d].task]] = dispatcher[d].task
  <1>1. ASSUME NEW x \in Dispatchers, DispatchNext(x)
        PROVE  /\ dispatcher'[d].task = dispatcher[d].task
               /\ \/ dispatcher[d].pc = "delete"
                  \/ UNCHANGED lock /\ lock[ProjectOf[dispatcher[d].task]] = dispatcher[d].task
    BY <1>1, DispatchActs
  <1>2. CASE UNCHANGED dispatcher
    BY <1>2
  <1> QED BY <1>1, <1>2, StepIs, RequestActs, WorkActs, CallbackActs DEF producerVars

\* Who is about to delete the lock of p has seen its task in it, and it is still there:
\* nobody else has that task.
LEMMA OnlyDeleter ==
  ASSUME CustodyInv, DeleteInv, NEW t \in Tasks, lock[ProjectOf[t]] = t
  PROVE  /\ \A w \in Workers : HandlerDeletes(w, ProjectOf[t]) => Busy(w, t) /\ call[w].pc = "delete" /\ Final(t)
         /\ \A d \in Dispatchers : DispatcherDeletes(d, ProjectOf[t]) =>
              dispatcher[d].task = t /\ dispatcher[d].pc = "delete" /\ InProducer(t)
  <1>1. ASSUME NEW w \in Workers, HandlerDeletes(w, ProjectOf[t])
        PROVE  Busy(w, t) /\ call[w].pc = "delete" /\ Final(t)
    <2>1. call[w].pc = "delete" /\ worker[w].msg.task = t
      BY <1>1 DEF DeleteInv, HandlerDeletes
    <2>2. Busy(w, t) /\ HandlerInv(w, t)
      BY <2>1, AtTask DEF Serving
    <2> QED BY <2>1, <2>2 DEF HandlerInv
  <1>2. ASSUME NEW d \in Dispatchers, DispatcherDeletes(d, ProjectOf[t])
        PROVE  dispatcher[d].task = t /\ dispatcher[d].pc = "delete" /\ InProducer(t)
    BY <1>2 DEF DeleteInv, DispatcherDeletes, InProducer
  <1> QED BY <1>1, <1>2

LockInv == HeldInv /\ DeleteInv

LEMMA LockStep ==
  ASSUME Orderly, "lockExpiry" \notin Hazards, CustodyInv, LockInv, [Next]_vars
  PROVE  LockInv'
  <1>1. \A t \in Tasks : TaskInv(t) /\ ProjectOf[t] \in Projects /\ t # NoTask
    BY PipelineAssumption DEF CustodyInv
  <1>2. \A p \in Projects : LockMoves(p)
    BY LocksMove DEF LockExpires, Meet
  <1>3. ASSUME NEW t \in FaultTreeTasks, ~Final(t)', OnItsWay(t)'
        PROVE  lock'[ProjectOf[t]] = t
    <2>1. t \in Tasks /\ ~Final(t)
      BY <1>3, RowsRespected, PipelineAssumption DEF Respected, Final, IsTerminal,
         TerminalStatuses
    <2>2. CASE OnItsWay(t)
      <3>1. lock[ProjectOf[t]] = t
        BY <2>1, <2>2 DEF LockInv, HeldInv, OnItsWay, Active
      <3>2. ~(\E w \in Workers : HandlerDeletes(w, ProjectOf[t]))
        BY <2>1, <3>1, OnlyDeleter DEF LockInv
      <3>3. ~(\E d \in Dispatchers : DispatcherDeletes(d, ProjectOf[t]))
        <4> SUFFICES ASSUME NEW d \in Dispatchers, DispatcherDeletes(d, ProjectOf[t])
                     PROVE  FALSE
          OBVIOUS
        <4>1. dispatcher[d].task = t /\ dispatcher[d].pc = "delete" /\ InProducer(t)
          BY <2>1, <3>1, OnlyDeleter DEF LockInv
        <4>2. ~Active(t)
          BY <1>1, <2>1, <4>1 DEF TaskInv, ProducerInv, Active
        <4>3. PICK x \in Dispatchers : dispatcher[x].pc = "enqueue" /\ dispatcher[x].task = t
          BY <2>2, <4>2 DEF OnItsWay
        <4>4. x = d
          BY <2>1, <4>1, <4>3 DEF CustodyInv, DispatchedOnce
        <4> QED BY <4>1, <4>3, <4>4
      <3> QED BY <1>1, <1>2, <2>1, <3>1, <3>2, <3>3 DEF LockMoves, TakenFor
    <2> QED BY <1>3, <2>2, OnItsWayBefore
  <1>4. HeldInv'
    BY <1>3 DEF HeldInv, OnItsWay, Active
  <1>5. ASSUME NEW w \in Workers, call'[w].pc = "delete"
        PROVE  lock'[ProjectOf[worker'[w].msg.task]] = worker'[w].msg.task
    <2>1. CASE call[w].pc = "delete"
      <3>1. PICK t \in Tasks : t = worker[w].msg.task
        BY <2>1, ServingIsBusy DEF Serving
      <3>2. lock[ProjectOf[t]] = t /\ Busy(w, t)
        BY <2>1, <3>1, ServingIsBusy DEF LockInv, DeleteInv, Serving
      <3>3. ~(\E v \in Workers : HandlerDeletes(v, ProjectOf[t]))
        <4> SUFFICES ASSUME NEW v \in Workers, HandlerDeletes(v, ProjectOf[t])
                     PROVE  FALSE
          OBVIOUS
        <4>1. v = w
          BY <1>1, <3>2, OnlyDeleter DEF LockInv, TaskInv, EntryInv
        <4> QED BY <1>5, <4>1 DEF HandlerDeletes
      <3>4. ~(\E d \in Dispatchers : DispatcherDeletes(d, ProjectOf[t]))
        BY <1>1, <3>2, OnlyDeleter DEF LockInv, TaskInv, ProducerInv
      <3>5. lock'[ProjectOf[t]] = t
        BY <1>1, <1>2, <3>2, <3>3, <3>4 DEF LockMoves, TakenFor
      <3> QED BY <1>5, <3>1, <3>5, HandlerChecks
    <2> QED BY <1>5, <2>1, HandlerChecks
  <1>6. ASSUME NEW d \in Dispatchers, dispatcher'[d].pc = "delete"
        PROVE  lock'[ProjectOf[dispatcher'[d].task]] = dispatcher'[d].task
    <2>1. CASE dispatcher[d].pc = "delete"
      <3>1. PICK t \in Tasks : t = dispatcher[d].task
        BY <2>1 DEF CustodyInv, TypeOK, ProducerOK
      <3>2. lock[ProjectOf[t]] = t /\ InProducer(t)
        BY <2>1, <3>1 DEF LockInv, DeleteInv, InProducer
      <3>3. ~(\E v \in Workers : HandlerDeletes(v, ProjectOf[t]))
        BY <1>1, <3>2, OnlyDeleter DEF LockInv, TaskInv, ProducerInv
      <3>4. ~(\E x \in Dispatchers : DispatcherDeletes(x, ProjectOf[t]))
        <4> SUFFICES ASSUME NEW x \in Dispatchers, DispatcherDeletes(x, ProjectOf[t])
                     PROVE  FALSE
          OBVIOUS
        <4>1. dispatcher[x].task = t
          BY <3>2, OnlyDeleter DEF LockInv
        <4>2. x = d
          BY <3>1, <4>1 DEF CustodyInv, DispatchedOnce
        <4> QED BY <1>6, <4>2 DEF DispatcherDeletes
      <3>5. lock'[ProjectOf[t]] = t
        BY <1>1, <1>2, <3>2, <3>3, <3>4 DEF LockMoves, TakenFor
      <3> QED BY <1>6, <3>1, <3>5, DispatcherChecks
    <2> QED BY <1>6, <2>1, DispatcherChecks
  <1>7. DeleteInv'
    BY <1>5, <1>6 DEF DeleteInv
  <1> QED BY <1>4, <1>7 DEF LockInv

\* As long as no lock expires, a project's lock is held from the dispatch of its task, through
\* the retries, to the end of the work on it.  This needs HeldInv, which holds from the moment
\* the lock is taken, and DeleteInv: nobody deletes a lock that is another task's by then.
THEOREM LockCoversWorkCorrect ==
  ASSUME Orderly, "lockExpiry" \notin Hazards PROVE Spec => []LockCoversWork
  <1>1. Init => LockInv
    BY DEF Init, LockInv, HeldInv, DeleteInv, HasEntry, Busy, NoCall, IdleWorker, IdleDispatcher
  <1>2. CustodyInv /\ LockInv /\ [Next]_vars => LockInv'
    BY LockStep
  <1>3. LockInv => LockCoversWork
    BY DEF LockInv, HeldInv, LockCoversWork, Underway, Final
  <1> QED BY <1>1, <1>2, <1>3, CustodyCorrect, PTL DEF Spec

-----------------------------------------------------------------------------
(* The end of the work on a task. *)

\* A handler that is ending its task's work is still there after a step that is not its own.
LEMMA HandlerGoesOn ==
  ASSUME Orderly, CustodyInv, [Next]_vars, NEW w \in Workers, NEW t \in Tasks, Busy(w, t),
         call[w].pc \in {"release", "delete", "clear"}
  PROVE  \/ Busy(w, t)' /\ call'[w] = call[w]
         \/ ReleaseProjectLock(w)
         \/ ClearTaskStreamEntries(w)
  <1>s. Serving(w)
    BY DEF Serving
  <1>1. ASSUME worker'[w].msg = worker[w].msg, worker'[w].st = worker[w].st, call'[w] = call[w]
        PROVE  Busy(w, t)' /\ call'[w] = call[w]
    BY <1>1 DEF Busy, Engaged, Serving
  <1>2. ASSUME NEW v \in Workers, WorkNext(v) \/ WorkerCrash(v) \/ LoseReply(v)
        PROVE  Busy(w, t)' /\ call'[w] = call[w]
    BY <1>s, <1>1, <1>2, WorkActs DEF Alone
  <1>3. ASSUME NEW v \in Workers, CallbackNext(v), v # w
        PROVE  Busy(w, t)' /\ call'[w] = call[w]
    BY <1>1, <1>3, CallbackActs
  <1>4. ASSUME CallbackNext(w)
        PROVE  ReleaseProjectLock(w) \/ ClearTaskStreamEntries(w)
    BY <1>4 DEF CallbackNext, ReceiveCallback, TouchProjectLock, WriteReported, ShowGenerating,
                PersistGeneratedGraph, SetCompleted
  <1>5. CASE UNCHANGED <<worker, call>>
    BY <1>1, <1>5
  <1> QED BY <1>2, <1>3, <1>4, <1>5, StepIs, RequestActs, DispatchActs DEF workerVars

\* A callback that ends a task's work goes on to release its lock, and will tell the project.
LEMMA CallbackEnds ==
  ASSUME CustodyInv, NEW w \in Workers, CallbackNext(w), NEW t \in Tasks, ~Final(t), Final(t)'
  PROVE  Busy(w, t)' /\ call'[w].pc = "release" /\ call'[w].out \in {"completed", "failed", "rejected"}
  <1>1. PICK u \in Tasks : u = worker[w].msg.task
    BY CallbackActs, ServingIsBusy
  <1>2. /\ TypeOK /\ Busy(w, u) /\ HandlerInv(w, u) /\ UNCHANGED worker
    BY <1>1, CallbackActs, AtTask
  <1>3. WriteReported(w) \/ PersistGeneratedGraph(w) \/ SetCompleted(w)
    <2>1. ~(UNCHANGED task)
      BY DEF Final
    <2> QED BY <2>1 DEF CallbackNext, ReceiveCallback, TouchProjectLock, ShowGenerating,
       ReleaseProjectLock,
                        ClearTaskStreamEntries
  <1>4. t = u
    <2>1. \A v \in Tasks : v # u => task'[v] = task[v]
      BY <1>1, <1>2, <1>3, UpdateMoves DEF WriteReported, PersistGeneratedGraph, SetCompleted,
         TypeOK, RowsOK
    <2> QED BY <2>1 DEF Final
  <1>5. \E out \in {"completed", "failed", "rejected"} : ServeOutcome(w, "release", out)
    <2>1. CASE WriteReported(w)
      <3>1. ~(UNCHANGED task)
        BY DEF Final
      <3>2. ReportedStatus(worker[w].st) = "dead"
        <4>1. PICK n, a : UpdateStatusExt(t, ReportedStatus(worker[w].st), n, a)
          BY <1>1, <1>4, <2>1, <3>1 DEF WriteReported
        <4>2. ReportedStatus(worker[w].st) \in TerminalStatuses
          BY <1>2, <4>1, UpdateMoves DEF Final, IsTerminal
        <4>3. ReportedStatus(worker[w].st) # "completed"
          BY <1>2, <2>1, ReportsState DEF WriteReported, HandlerInv
        <4> QED BY <1>2, <4>2, <4>3, ReportsState DEF TerminalStatuses
      <3> QED BY <2>1, <3>1, <3>2 DEF WriteReported
    <2>2. CASE PersistGeneratedGraph(w)
      <3>1. ~(UNCHANGED task)
        BY DEF Final
      <3> QED BY <2>2, <3>1 DEF PersistGeneratedGraph
    <2>3. CASE SetCompleted(w)
      <3>1. ~(UNCHANGED task)
        BY DEF Final
      <3> QED BY <2>3, <3>1 DEF SetCompleted
    <2> QED BY <1>3, <2>1, <2>2, <2>3
  <1>6. call'[w].pc = "release" /\ call'[w].out \in {"completed", "failed", "rejected"}
    BY <1>2, <1>5, ServeOutcomeMoves
  <1>7. Busy(w, t)'
    BY <1>2, <1>4, <1>6 DEF Busy, Engaged, Serving
  <1> QED BY <1>6, <1>7

\* A task ends by its request, before it is queued, or by a handler.
LEMMA Ends ==
  ASSUME Orderly, CustodyInv, [Next]_vars, NEW t \in Tasks, ~Final(t), Final(t)'
  PROVE  \/ NotYetQueued(t)
         \/ \E w \in Workers : /\ Busy(w, t)' /\ call'[w].pc = "release"
                               /\ call'[w].out \in {"completed", "failed", "rejected"}
  <1>1. TypeOK /\ ~(UNCHANGED task)
    BY DEF Final, CustodyInv
  <1>2. ASSUME NEW u \in Tasks, RequestNext(u) \/ SubmitStart(u) \/ Resubmit(u)
        PROVE  NotYetQueued(t)
    <2>1. \/ task' = [task EXCEPT ![u] = [status |-> "pending", progress |-> 0, attempt |-> 0]]
          \/ SetFailed(u) /\ NotYetQueued(u)
          \/ UpdateStatus(u, "pending", 1)
      BY <1>1, <1>2 DEF RequestNext, CreateTask, CreateTaskFails, PrepareDocuments,
         PrepareDocumentsFails,
           EnqueueFaultTree, EnqueueKnowledgeGraph, EnqueueFails, MarkProducerQueued, ResubmitFindsExisting,
           ResubmitShows, GiveUp, SubmitStart, Resubmit, NotYetQueued, taskVars
    <2>2. CASE SetFailed(u) /\ NotYetQueued(u)
      BY <1>1, <2>2, UpdateMoves DEF Final
    <2>3. CASE task' = [task EXCEPT ![u] = [status |-> "pending", progress |-> 0, attempt |-> 0]]
      BY <1>1, <2>3 DEF Final, IsTerminal, TerminalStatuses, TypeOK, RowsOK
    <2>4. CASE UpdateStatus(u, "pending", 1)
      BY <1>1, <2>4, UpdateMoves DEF Final, IsTerminal, TerminalStatuses
    <2> QED BY <2>1, <2>2, <2>3, <2>4
  <1>3. ASSUME NEW d \in Dispatchers, DispatchNext(d)
        PROVE  FALSE
    <2>1. PICK u \in Tasks, n \in {3, 4, 8} : UpdateStatus(u, "pending", n)
      BY <1>1, <1>3
         DEF DispatchNext, TryAcquireProjectLock, DispatcherEnqueue, DispatcherUnlock, MarkDispatchRetrying,
             RequeueDelayed, MarkEnqueued, ReleaseDelayedProducerTask, ReadProducerMessage, taskVars,
             TypeOK, ProducerOK
    <2> QED BY <1>1, <2>1, UpdateMoves DEF Final, IsTerminal, TerminalStatuses
  <1>4. ~(\E w \in Workers : WorkNext(w) \/ WorkerCrash(w) \/ LoseReply(w))
    BY <1>1, WorkActs DEF taskVars
  <1> QED BY <1>1, <1>2, <1>3, <1>4, CallbackEnds, StepIs

\* A request goes on, and the end of one leaves a task that is open, or one that failed and
\* a project that shows it.
LEMMA RequestGoesOn ==
  ASSUME Orderly, CustodyInv, [Next]_vars, NEW t \in Tasks
  PROVE  /\ NotYetQueued(t)' => NotYetQueued(t)
         /\ submit[t] # "new" => submit'[t] # "new"
         /\ submit[t] = "new" => submit'[t] # "done"
         /\ submit[t] # "done" /\ submit'[t] = "done" =>
              \/ ~Final(t)'
              \/ project'[ProjectOf[t]] = ProjectGenerationStatus(task'[t].status)
  <1>1. TypeOK /\ TaskInv(t)
    BY DEF CustodyInv
  <1>2. CASE submit'[t] = submit[t]
    BY <1>2 DEF NotYetQueued
  <1>3. ASSUME NEW u \in Tasks, RequestNext(u) \/ SubmitStart(u) \/ Resubmit(u), submit'[t] # submit[t]
        PROVE  RequestNext(t) \/ SubmitStart(t)
    <2>1. submit' = submit \/ \E x \in SubmitSteps : submit' = [submit EXCEPT ![u] = x]
      BY <1>3 DEF RequestNext, CreateTask, CreateTaskFails, PrepareDocuments,
         PrepareDocumentsFails,
                  EnqueueFaultTree, EnqueueKnowledgeGraph, EnqueueFails, MarkProducerQueued, ResubmitFindsExisting,
                  ResubmitShows, GiveUp, SubmitStart, Resubmit, SubmitSteps
    <2>2. u = t
      BY <1>1, <1>3, <2>1 DEF TypeOK, RequestsOK
    <2>3. ~Resubmit(t)
      BY <1>3 DEF Resubmit
    <2> QED BY <1>3, <2>2, <2>3
  <1>4. CASE SubmitStart(t) \/ CreateTask(t) \/ PrepareDocuments(t)
    <2>1. /\ submit[t] \in {"new", "create", "prepare"}
          /\ \E x \in {"create", "prepare", "enqueue"} : submit' = [submit EXCEPT ![t] = x]
      BY <1>4 DEF SubmitStart, CreateTask, PrepareDocuments
    <2>2. submit'[t] \in {"create", "prepare", "enqueue"}
      BY <1>1, <2>1 DEF TypeOK, RequestsOK
    <2> QED BY <2>1, <2>2 DEF NotYetQueued
  <1>5. CASE EnqueueFaultTree(t) \/ EnqueueKnowledgeGraph(t) \/ MarkProducerQueued(t)
    <2>1. /\ submit[t] \in {"enqueue", "mark"} /\ \E x \in {"mark", "done"} : submit' = [submit EXCEPT ![t] = x]
          /\ UNCHANGED task \/ UpdateStatus(t, "pending", 1)
      BY <1>5 DEF EnqueueFaultTree, EnqueueKnowledgeGraph, MarkProducerQueued, taskVars
    <2>2. submit'[t] \in {"mark", "done"}
      BY <1>1, <2>1 DEF TypeOK, RequestsOK
    <2>3. ~Final(t)
      BY <1>1, <2>1 DEF TaskInv, ProducerInv, InProducer, NotYetQueued, MarkPending
    <2>4. ~Final(t)'
      BY <1>1, <2>1, <2>3, UpdateMoves DEF Final, IsTerminal, TerminalStatuses
    <2> QED BY <2>1, <2>2, <2>4 DEF NotYetQueued
  <1>6. CASE PrepareDocumentsFails(t) \/ EnqueueFails(t)
    <2>1. GiveUp(t) /\ submit[t] # "new"
      BY <1>6 DEF PrepareDocumentsFails, EnqueueFails
    <2>2. submit'[t] = "done" /\ task'[t].status = "failed"
      BY <1>1, <2>1, UpdateMoves DEF GiveUp, TypeOK, RequestsOK
    <2>3. project'[ProjectOf[t]] = "failed"
      BY <1>1, <2>1, PipelineAssumption DEF GiveUp, SetProjectGenerationStatus, TypeOK,
         ProjectsOK
    <2> QED BY <2>1, <2>2, <2>3 DEF NotYetQueued, ProjectGenerationStatus
  <1>7. CASE submit'[t] # submit[t] /\ (RequestNext(t) \/ SubmitStart(t))
    <2>1. ~CreateTaskFails(t)
      BY NoDisorder DEF CreateTaskFails, Disorders
    <2>2. ~ResubmitFindsExisting(t) /\ ~ResubmitShows(t)
      BY <1>7 DEF ResubmitFindsExisting, ResubmitShows
    <2> QED BY <1>4, <1>5, <1>6, <1>7, <2>1, <2>2 DEF RequestNext
  <1>8. CASE UNCHANGED submit
    BY <1>2, <1>8
  <1>9. (\E u \in Tasks : RequestNext(u) \/ SubmitStart(u) \/ Resubmit(u)) \/ UNCHANGED submit
    BY StepIs, DispatchActs, WorkActs, CallbackActs DEF requestVars
  <1> QED BY <1>2, <1>3, <1>7, <1>8, <1>9

\* What OwnerInv says of the lock of p, when t has it.
Owns(p, t) ==
  /\ ProjectOf[t] = p
  /\ ~NotYetQueued(t)
  /\ Final(t) => \E w \in Workers : Busy(w, t) /\ call[w].pc \in {"release", "delete"}

LEMMA OwnerStep ==
  ASSUME Orderly, "redisError" \notin Hazards, CustodyInv, OwnerInv, [Next]_vars
  PROVE  OwnerInv'
  <1>1. TypeOK /\ TypeOK'
    BY TypeStep DEF CustodyInv
  <1>2. ASSUME NEW p \in Projects, NEW t \in Tasks, lock'[p] = t
        PROVE  Owns(p, t)'
    <2>1. CASE lock[p] = t
      <3>1. Owns(p, t)
        BY <2>1, PipelineAssumption DEF OwnerInv, Owns
      <3>2. ~NotYetQueued(t)'
        BY <3>1, RequestGoesOn DEF Owns
      <3>3. CASE ~Final(t) /\ Final(t)'
        BY <3>1, <3>2, <3>3, Ends DEF Owns
      <3>4. CASE Final(t)
        <4>1. PICK w \in Workers : Busy(w, t) /\ call[w].pc \in {"release", "delete"}
          BY <3>1, <3>4 DEF Owns
        <4>2. CASE Busy(w, t)' /\ call'[w] = call[w]
          BY <3>1, <3>2, <4>1, <4>2 DEF Owns
        <4>3. CASE ReleaseProjectLock(w)
          <5>1. worker[w].msg.task = t /\ UNCHANGED worker
            BY <4>1, <4>3 DEF Busy, ReleaseProjectLock
          <5>2. \/ LockOurs(t) /\ Serve(w, "delete")
                \/ call[w].pc = "release" /\ ~LockOurs(t)
                \/ lock' = [lock EXCEPT ![ProjectOf[t]] = NoTask]
            BY <4>3, <5>1 DEF ReleaseProjectLock, Meet
          <5>3. LockOurs(t)
            BY <2>1, <3>1 DEF Owns, LockOurs
          <5>4. lock' # [lock EXCEPT ![ProjectOf[t]] = NoTask]
            BY <1>1, <1>2, <3>1, PipelineAssumption DEF Owns, TypeOK, ProjectsOK
          <5>5. call'[w].pc = "delete"
            BY <1>1, <5>1, <5>2, <5>3, <5>4, ServeMoves
          <5>6. Busy(w, t)'
            BY <4>1, <5>1, <5>5 DEF Busy, Engaged, Serving
          <5> QED BY <3>1, <3>2, <5>5, <5>6 DEF Owns
        <4>4. CASE ClearTaskStreamEntries(w)
          BY <4>1, <4>4 DEF ClearTaskStreamEntries
        <4> QED BY <4>1, <4>2, <4>3, <4>4, HandlerGoesOn
      <3> QED BY <3>1, <3>2, <3>3, <3>4 DEF Owns
    <2>2. CASE lock[p] # t
      <3>1. t # NoTask
        BY PipelineAssumption
      <3>2. TakenFor(p, t)
        BY <1>2, <2>2, <3>1, LocksMove DEF LockMoves, TakenFor
      <3> QED BY <3>2, RequestGoesOn DEF TakenFor, Owns
    <2> QED BY <2>1, <2>2
  <1>3. \A p \in Projects : lock'[p] # NoTask => lock'[p] \in Tasks
    BY <1>1 DEF TypeOK, ProjectsOK
  <1> QED BY <1>2, <1>3 DEF OwnerInv, Owns

\* As long as its commands do not fail, no lock outlives the work on its task: a handler is
\* there to release it.  A lock is its own project's task's, and that task has been dispatched.
THEOREM NoOrphanLockCorrect ==
  ASSUME Orderly, "redisError" \notin Hazards PROVE Spec => []NoOrphanLock
  <1>1. Init => OwnerInv
    BY DEF Init, OwnerInv
  <1>2. CustodyInv /\ OwnerInv /\ [Next]_vars => OwnerInv'
    BY OwnerStep
  <1>3. CustodyInv /\ OwnerInv => NoOrphanLock
    BY DEF OwnerInv, NoOrphanLock, Finishing, Final, Busy, Serving
  <1> QED BY <1>1, <1>2, <1>3, CustodyCorrect, PTL DEF Spec

-----------------------------------------------------------------------------
(* What projects show. *)

\* A task by which p is right.
ShownBy(p, u) == ProjectOf[u] = p /\ submit[u] # "new" /\ Shows(u)

LEMMA RequestShows ==
  ASSUME Orderly, CustodyInv, \A t \in Tasks : again[t] = "idle", "resubmit" \notin Hazards,
         NEW t \in Tasks, RequestNext(t) \/ SubmitStart(t) \/ Resubmit(t)
  PROVE  UNCHANGED again /\ (UNCHANGED project \/ GiveUp(t) \/ SubmitStart(t))
  <1>1. ~Resubmit(t) /\ ~CreateTaskFails(t) /\ ~ResubmitFindsExisting(t) /\ ~ResubmitShows(t)
    BY NoDisorder
       DEF Resubmit, CreateTaskFails, ResubmitFindsExisting, ResubmitShows, GenerationStatuses, Meet, Disorders
  <1> QED BY <1>1 DEF RequestNext, CreateTask, PrepareDocuments, PrepareDocumentsFails,
     EnqueueFaultTree,
                      EnqueueKnowledgeGraph, EnqueueFails, MarkProducerQueued, GiveUp, SubmitStart, taskVars

\* Who changes what the project of p shows leaves a task by which it is right.
LEMMA ProjectMoves ==
  ASSUME Orderly, CustodyInv, \A t \in Tasks : again[t] = "idle", "resubmit" \notin Hazards,
         [Next]_vars, NEW p \in Projects
  PROVE  project'[p] = project[p] \/ \E u \in Tasks : ShownBy(p, u)'
  <1>1. TypeOK /\ \A u \in Tasks : TaskInv(u) /\ ProjectOf[u] \in Projects
    BY PipelineAssumption DEF CustodyInv
  <1>2. ASSUME NEW t \in Tasks, NEW s, SetProjectGenerationStatus(t, s)
        PROVE  /\ project'[p] = project[p] \/ ProjectOf[t] = p
               /\ project'[ProjectOf[t]] = s
    BY <1>1, <1>2 DEF SetProjectGenerationStatus, TypeOK, ProjectsOK
  <1>3. ASSUME NEW t \in Tasks, RequestNext(t) \/ SubmitStart(t) \/ Resubmit(t)
        PROVE  project'[p] = project[p] \/ \E u \in Tasks : ShownBy(p, u)'
    <2>1. CASE GiveUp(t)
      <3>1. submit'[t] = "done" /\ task'[t].status = "failed"
        BY <1>1, <2>1, UpdateMoves DEF GiveUp, TypeOK, RequestsOK
      <3>2. project'[ProjectOf[t]] = "failed" /\ (project'[p] = project[p] \/ ProjectOf[t] = p)
        BY <1>2, <2>1 DEF GiveUp
      <3>3. Shows(t)'
        BY <3>1, <3>2 DEF Shows, ProjectGenerationStatus
      <3> QED BY <3>1, <3>2, <3>3 DEF ShownBy
    <2>2. CASE SubmitStart(t)
      <3>1. submit'[t] = "create"
        BY <1>1, <2>2 DEF SubmitStart, TypeOK, RequestsOK
      <3>2. project'[p] = project[p] \/ ProjectOf[t] = p
        BY <1>2, <2>2 DEF SubmitStart
      <3> QED BY <3>1, <3>2 DEF ShownBy, Shows
    <2> QED BY <1>3, <2>1, <2>2, RequestShows
  <1>4. ASSUME NEW w \in Workers, CallbackNext(w)
        PROVE  project'[p] = project[p] \/ \E u \in Tasks : ShownBy(p, u)'
    <2>1. PICK t \in Tasks : t = worker[w].msg.task
      BY <1>4, CallbackActs, ServingIsBusy
    <2>2. /\ HandlerInv(w, t) /\ UNCHANGED <<worker, submit>>
          /\ ~NotYetQueued(t)
      BY <1>4, <2>1, CallbackActs, AtTask DEF requestVars, TaskInv, ProducerInv, InProducer
    <2>3. submit'[t] # "new"
      BY <2>2 DEF NotYetQueued
    <2>4. CASE ShowGenerating(w)
      <3>1. project'[p] = project[p] \/ ProjectOf[t] = p
        BY <1>2, <2>1, <2>4 DEF ShowGenerating
      <3>2. ~Final(t)'
        BY <2>2, <2>4 DEF ShowGenerating, HandlerInv, Final
      <3> QED BY <2>3, <3>1, <3>2 DEF ShownBy, Shows
    <2>5. CASE ClearTaskStreamEntries(w)
      <3>1. /\ project' = [project EXCEPT ![ProjectOf[t]] = ShownAfter(call[w].out, @)]
            /\ UNCHANGED task /\ call[w].pc = "clear"
        BY <2>1, <2>5 DEF ClearTaskStreamEntries
      <3>2. /\ project'[p] = project[p] \/ ProjectOf[t] = p
            /\ project'[ProjectOf[t]] = ShownAfter(call[w].out, project[ProjectOf[t]])
        BY <1>1, <3>1 DEF TypeOK, ProjectsOK
      <3>3. CASE call[w].out \in {"completed", "failed", "rejected"}
        <4>1. ShownAfter(call[w].out, project[ProjectOf[t]]) = ProjectGenerationStatus(task[t].status)
          BY <2>2, <3>1, <3>3 DEF HandlerInv, ShownAfter, ProjectGenerationStatus
        <4>2. Shows(t)'
          BY <3>1, <3>2, <4>1 DEF Shows
        <4> QED BY <2>3, <3>2, <4>2 DEF ShownBy
      <3>4. CASE call[w].out \notin {"completed", "failed", "rejected"}
        BY <3>2, <3>4 DEF ShownAfter
      <3> QED BY <3>3, <3>4
    <2>6. CASE ~ShowGenerating(w) /\ ~ClearTaskStreamEntries(w)
      <3>1. UNCHANGED project
        BY <1>4, <2>6 DEF CallbackNext, ReceiveCallback, TouchProjectLock, WriteReported,
                          PersistGeneratedGraph, SetCompleted, ReleaseProjectLock
      <3> QED BY <3>1
    <2> QED BY <2>4, <2>5, <2>6
  <1>5. CASE UNCHANGED project
    BY <1>5
  <1> QED BY <1>3, <1>4, <1>5, StepIs, DispatchActs, WorkActs DEF taskVars

\* A task by which the project was right stays one, while nobody changes what it shows.
LEMMA StillShows ==
  ASSUME Orderly, CustodyInv, [Next]_vars, NEW u \in Tasks, Shows(u),
         project'[ProjectOf[u]] = project[ProjectOf[u]]
  PROVE  Shows(u)'
  <1>1. CASE submit[u] # "done"
    BY <1>1, RequestGoesOn DEF Shows
  <1>2. CASE submit[u] = "done" /\ ~Final(u)
    <2>1. ~NotYetQueued(u)
      BY <1>2 DEF NotYetQueued
    <2> QED BY <1>2, <2>1, Ends DEF Shows
  <1>3. ASSUME NEW w \in Workers, Busy(w, u), call[w].pc \in {"release", "delete", "clear"},
               call[w].out \in {"completed", "failed", "rejected"}
        PROVE  Shows(u)'
    <2>1. TypeOK /\ HandlerInv(w, u) /\ worker[w].msg.task = u /\ ProjectOf[u] \in Projects
      BY <1>3, PipelineAssumption DEF CustodyInv, TaskInv, Busy
    <2>2. CASE Busy(w, u)' /\ call'[w] = call[w]
      BY <1>3, <2>2 DEF Shows
    <2>3. CASE ReleaseProjectLock(w)
      <3>1. UNCHANGED worker /\ \E pc \in {"delete", "clear"} : Serve(w, pc)
        BY <2>3 DEF ReleaseProjectLock
      <3>2. call'[w].pc \in {"delete", "clear"} /\ call'[w].out = call[w].out
        BY <2>1, <3>1, ServeMoves
      <3>3. Busy(w, u)'
        BY <1>3, <3>1, <3>2 DEF Busy, Engaged, Serving
      <3> QED BY <1>3, <3>2, <3>3 DEF Shows
    <2>4. CASE ClearTaskStreamEntries(w)
      <3>1. /\ project' = [project EXCEPT ![ProjectOf[u]] = ShownAfter(call[w].out, @)]
            /\ UNCHANGED task
        BY <2>1, <2>4 DEF ClearTaskStreamEntries
      <3>2. project'[ProjectOf[u]] = ShownAfter(call[w].out, project[ProjectOf[u]])
        BY <2>1, <3>1 DEF TypeOK, ProjectsOK
      <3>3. ShownAfter(call[w].out, project[ProjectOf[u]]) = ProjectGenerationStatus(task[u].status)
        BY <1>3, <2>1 DEF HandlerInv, ShownAfter, ProjectGenerationStatus
      <3> QED BY <3>1, <3>2, <3>3 DEF Shows
    <2> QED BY <1>3, <2>2, <2>3, <2>4, HandlerGoesOn
  <1>4. CASE Final(u) /\ project[ProjectOf[u]] = ProjectGenerationStatus(task[u].status)
    <2>1. \/ task'[u].status = task[u].status
          \/ task[u].status = "failed" /\ task'[u].status = "dead"
      BY <1>4, RowsRespected DEF Respected
    <2>2. ProjectGenerationStatus(task'[u].status) = ProjectGenerationStatus(task[u].status)
      BY <2>1 DEF ProjectGenerationStatus
    <2> QED BY <1>4, <2>2 DEF Shows
  <1> QED BY <1>1, <1>2, <1>3, <1>4 DEF Shows

LEMMA ShownStep ==
  ASSUME Orderly, "resubmit" \notin Hazards, CustodyInv, ShownInv, [Next]_vars
  PROVE  ShownInv'
  <1>1. \A t \in Tasks : again[t] = "idle" /\ ProjectOf[t] \in Projects
    BY PipelineAssumption DEF ShownInv
  <1>2. UNCHANGED again
    BY <1>1, StepIs, RequestShows, DispatchActs, WorkActs, CallbackActs DEF requestVars
  <1>3. ASSUME NEW t \in Tasks, submit'[t] # "new"
        PROVE  \E u \in Tasks : ShownBy(ProjectOf[t], u)'
    <2>1. CASE submit[t] = "new"
      <3>1. submit'[t] # "done"
        BY <2>1, RequestGoesOn
      <3> QED BY <1>3, <3>1 DEF ShownBy, Shows
    <2>2. CASE submit[t] # "new"
      <3>1. PICK u \in Tasks : ShownBy(ProjectOf[t], u)
        BY <2>2 DEF ShownInv, ShownBy
      <3>2. CASE project'[ProjectOf[t]] = project[ProjectOf[t]]
        <4>1. Shows(u)' /\ submit'[u] # "new"
          BY <3>1, <3>2, StillShows, RequestGoesOn DEF ShownBy
        <4> QED BY <3>1, <4>1 DEF ShownBy
      <3> QED BY <1>1, <3>2, ProjectMoves
    <2> QED BY <2>1, <2>2
  <1> QED BY <1>1, <1>2, <1>3 DEF ShownInv, ShownBy

\* When the work on a project is over, it shows how one of its tasks ended: each one that
\* changes what the project shows does so for its own task, and the last of them is right.
THEOREM SettledProjectCorrect ==
  ASSUME Orderly, "resubmit" \notin Hazards PROVE Spec => []SettledProject
  <1>1. Init => ShownInv
    BY DEF Init, ShownInv
  <1>2. CustodyInv /\ ShownInv /\ [Next]_vars => ShownInv'
    BY ShownStep
  <1>3. ShownInv => SettledProject
    <2> SUFFICES ASSUME ShownInv, NEW p \in Projects,
                        NEW t \in Tasks, ProjectOf[t] = p, submit[t] # "new",
                        \A u \in Tasks : ProjectOf[u] = p /\ submit[u] # "new" => Settled(u)
                 PROVE  \E u \in Tasks : /\ ProjectOf[u] = p /\ submit[u] # "new"
                                         /\ project[p] = ProjectGenerationStatus(task[u].status)
      BY DEF SettledProject
    <2>1. PICK u \in Tasks : ShownBy(p, u)
      BY DEF ShownInv, ShownBy
    <2>2. Settled(u)
      BY <2>1 DEF ShownBy
    <2>3. \A w \in Workers : ~(Busy(w, u) /\ call[w].pc \in {"release", "delete", "clear"})
      BY <2>2 DEF Settled, Finishing, Busy, Serving
    <2> QED BY <2>1, <2>2, <2>3 DEF ShownBy, Shows, Settled, Final
  <1> QED BY <1>1, <1>2, <1>3, CustodyCorrect, PTL DEF Spec
=============================================================================
