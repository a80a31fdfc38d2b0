------------------------- MODULE DocumentConversion -------------------------
(***************************************************************************)
(* The conversion of uploaded Word documents to PDF previews               *)
(* (service/document.go, document_conversion_queue.go, the repositories of *)
(* documents and conversion tasks).                                        *)
(*                                                                         *)
(* An upload, or the copy of a document into another project, writes the   *)
(* document's row, then a pending task, then an entry of a Redis stream.   *)
(* Workers read the stream as one consumer group, take the task, create    *)
(* the PDF and link it; without Redis they poll the tasks.  No two of      *)
(* these writes share a transaction, most errors on the way are ignored,   *)
(* and the process may die between any two of them.  The stream itself     *)
(* expires, and takes the consumer group with it.                          *)
(*                                                                         *)
(* Documents are Word documents of one project; the others are never       *)
(* queued.  The PDFs made for a document are numbered; contents, names and *)
(* the time of an entry are left out: an entry may always be too old.      *)
(***************************************************************************)
EXTENDS Naturals, Sequences

CONSTANTS
  Docs,         \* document ids
  Workers,      \* conversion workers, and their names as consumers
  Deployments,  \* "redis", or "database" when no Redis is configured
  MaxFaults,    \* bound on the failing calls, crashes and lapses of the stream
  None          \* no row, no task, no entry

VARIABLES
  server,   \* the process: up, stopping its workers, or down
  broker,   \* the deployment
  upload,   \* where the request that stores a document is
  row,      \* documents: the preview's status and the PDF linked
  pdfs,     \* documents: how many PDFs have been created for it
  task,     \* document_conversion_tasks: the status of the document's task
  stream,   \* entries no consumer has read
  group,    \* the stream and its consumer group exist
  held,     \* the entry a consumer has read and not acknowledged
  worker,   \* where a worker's loop is, and the document at hand
  faults,   \* failures so far
  slipped   \* documents whose failure the code did not notice or record

vars == <<server, broker, upload, row, pdfs, task, stream, group, held, worker, faults, slipped>>

Previews == {"processing", "ready", "failed"}
TaskStatuses == {"pending", "processing", "completed", "failed"}
Uploads == {"new", "stored", "tasked", "undo", "untask", "over"}
Places == {"idle", "got", "taken", "making", "linking", "finishing", "fail", "failTask", "ack"}

ASSUME ConversionAssumption ==
  /\ Deployments \subseteq {"redis", "database"} /\ MaxFaults \in Nat
  /\ None \notin Docs \union TaskStatuses
  /\ None \notin [preview : Previews, link : Nat]

Row(preview, link) == [preview |-> preview, link |-> link]
At(place, doc) == [at |-> place, doc |-> doc]
Idle == At("idle", None)

Working(d) == \E w \in Workers : worker[w].doc = d /\ worker[w].at \notin {"idle", "got", "ack"}
Queued(d) == (\E i \in DOMAIN stream : stream[i] = d) \/ \E w \in Workers : held[w] = d

Init ==
  /\ server = "up" /\ broker \in Deployments
  /\ upload = [d \in Docs |-> "new"]
  /\ row = [d \in Docs |-> None]
  /\ pdfs = [d \in Docs |-> 0]
  /\ task = [d \in Docs |-> None]
  /\ stream = <<>> /\ group = TRUE
  /\ held = [w \in Workers |-> None]
  /\ worker = [w \in Workers |-> Idle]
  /\ faults = 0 /\ slipped = {}

Tasks == <<row, pdfs, task>>
Queue == <<stream, group, held>>
Server == <<server, broker>>

\* A call fails; Slips(d) when nothing will set the document right.
Faults == faults < MaxFaults /\ faults' = faults + 1
Slips(d) == slipped' = slipped \union {d}
NoFault == UNCHANGED <<faults, slipped>>

-----------------------------------------------------------------------------
(* Upload, and normalizeDocumentsForTargetProject for a copy.              *)

Step(d, place) == upload' = [upload EXCEPT ![d] = place]

\* The file and the row are stored, or the request fails.
StoreUpload(d) ==
  /\ server = "up" /\ upload[d] = "new"
  /\ \/ Step(d, "over") /\ UNCHANGED row
     \/ Step(d, "stored") /\ row' = [row EXCEPT ![d] = Row("processing", 0)]
  /\ UNCHANGED <<pdfs, task, worker, Queue, Server>> /\ NoFault

\* A copy of a converted document gets a copy of its PDF; any other starts over.
CloneToProject(d, source) ==
  /\ server = "up" /\ upload[d] = "new" /\ row[source] # None
  /\ IF row[source].link # 0
     THEN /\ Step(d, "over")
          /\ pdfs' = [pdfs EXCEPT ![d] = 1]
          /\ row' = [row EXCEPT ![d] = Row("ready", 1)]
     ELSE /\ Step(d, "stored")
          /\ row' = [row EXCEPT ![d] = Row(IF row[source].preview = "ready" THEN "processing"
                                           ELSE row[source].preview, 0)]
          /\ UNCHANGED pdfs
  /\ UNCHANGED <<task, worker, Queue, Server>> /\ NoFault

UpsertPending(d) ==
  /\ upload[d] = "stored"
  /\ \/ /\ task' = [task EXCEPT ![d] = "pending"]
        /\ Step(d, IF broker = "redis" THEN "tasked" ELSE "over") /\ NoFault
     \/ Faults /\ Step(d, "undo") /\ UNCHANGED <<task, slipped>>
  /\ UNCHANGED <<row, pdfs, worker, Queue, Server>>

\* XADD: it is done, it fails, or it is done and the answer is lost.  It creates a
\* stream that has expired, and no consumer group.
Enqueue(d) ==
  /\ upload[d] = "tasked"
  /\ \/ /\ stream' = Append(stream, d) /\ Step(d, "over")
        /\ IF group THEN NoFault ELSE Slips(d) /\ UNCHANGED faults
     \/ Faults /\ Step(d, "undo") /\ UNCHANGED <<stream, slipped>>
     \/ Faults /\ Step(d, "undo") /\ stream' = Append(stream, d) /\ Slips(d)
  /\ UNCHANGED <<group, held, worker, Tasks, Server>>

\* The upload's errors: the preview is marked failed, then the task.
UndoPreview(d) ==
  /\ upload[d] = "undo"
  /\ Step(d, "untask")
  /\ \/ row' = [row EXCEPT ![d] = Row("failed", 0)] /\ NoFault
     \/ Faults /\ Slips(d) /\ UNCHANGED row
  /\ UNCHANGED <<pdfs, task, worker, Queue, Server>>

SetFailedByDocument(d) ==
  /\ upload[d] = "untask"
  /\ Step(d, "over")
  /\ \/ /\ task' = [task EXCEPT ![d] = IF @ \in {"pending", "processing"} THEN "failed" ELSE @]
        /\ NoFault
     \/ Faults /\ Slips(d) /\ UNCHANGED task
  /\ UNCHANGED <<row, pdfs, worker, Queue, Server>>

-----------------------------------------------------------------------------
(* conversionWorkerLoop.                                                   *)

Goto(w, place) == worker' = [worker EXCEPT ![w].at = place]
Requests == <<upload, Server>>

\* Mutant: only new entries are read.
ReadNew(w) ==
  /\ server = "up" /\ broker = "redis" /\ group /\ worker[w].at = "idle"
  /\ held[w] = None /\ stream # <<>>
  /\ worker' = [worker EXCEPT ![w] = At("got", Head(stream))]
  /\ held' = [held EXCEPT ![w] = Head(stream)]
  /\ stream' = Tail(stream)
  /\ UNCHANGED <<group, Tasks, Requests>> /\ NoFault

\* readNextConversionQueueMessage: what this consumer has not acknowledged comes first.
ReadNext(w) ==
  /\ server = "up" /\ broker = "redis" /\ group /\ worker[w].at = "idle"
  /\ \/ /\ held[w] # None
        /\ worker' = [worker EXCEPT ![w] = At("got", held[w])]
        /\ UNCHANGED <<stream, held>>
     \/ /\ held[w] = None /\ stream # <<>>
        /\ worker' = [worker EXCEPT ![w] = At("got", Head(stream))]
        /\ held' = [held EXCEPT ![w] = Head(stream)]
        /\ stream' = Tail(stream)
  /\ UNCHANGED <<group, Tasks, Requests>> /\ NoFault

\* Mutant: whatever the status of the task.
AnyTask(d) == task[d] # None

Takeable(d) == task[d] = "pending"

\* Mutant: an entry is acknowledged also when the task could not be read.
TakeOrAcknowledge(w) ==
  LET d == worker[w].doc
  IN  /\ worker[w].at = "got"
      /\ \/ Takeable(d) /\ NoFault /\ Goto(w, "taken") /\ task' = [task EXCEPT ![d] = "processing"]
         \/ ~ Takeable(d) /\ NoFault /\ Goto(w, "ack") /\ UNCHANGED task
         \/ Faults /\ Goto(w, "ack") /\ UNCHANGED <<task, slipped>>
      /\ UNCHANGED <<row, pdfs, Queue, Requests>>

\* TakePendingByDocument: an entry whose task is not pending is acknowledged.
Take(w) ==
  LET d == worker[w].doc
  IN  /\ worker[w].at = "got"
      /\ \/ /\ Takeable(d) /\ NoFault
            /\ task' = [task EXCEPT ![d] = "processing"]
            /\ Goto(w, "taken")
         \/ /\ ~ Takeable(d) /\ NoFault
            /\ Goto(w, "ack") /\ UNCHANGED task
         \/ /\ Faults /\ UNCHANGED <<task, slipped>>
            /\ worker' = [worker EXCEPT ![w] = Idle]
      /\ UNCHANGED <<row, pdfs, Queue, Requests>>

\* TakeNextPending, without Redis.
TakeNext(w) ==
  /\ server = "up" /\ broker = "database" /\ worker[w].at = "idle"
  /\ \E d \in Docs :
       /\ Takeable(d)
       /\ task' = [task EXCEPT ![d] = "processing"]
       /\ worker' = [worker EXCEPT ![w] = At("taken", d)]
  /\ UNCHANGED <<row, pdfs, Queue, Requests>> /\ NoFault

\* handleConversionTask up to the generated file.  The entry may be too old, the
\* source unreadable; when even the row cannot be read, the preview is not marked.
Generate(w) ==
  /\ worker[w].at = "taken"
  /\ \/ Goto(w, "making") /\ NoFault
     \/ Goto(w, "fail") /\ NoFault
     \/ Goto(w, "failTask") /\ Faults /\ Slips(worker[w].doc)
  /\ UNCHANGED <<Tasks, Queue, Requests>>

\* Mutant: the error of Create is ignored.
CreateUnchecked(w) ==
  LET d == worker[w].doc
  IN  /\ worker[w].at = "making" /\ Goto(w, "linking")
      /\ \/ pdfs' = [pdfs EXCEPT ![d] = @ + 1] /\ NoFault
         \/ Faults /\ UNCHANGED <<pdfs, slipped>>
      /\ UNCHANGED <<row, task, Queue, Requests>>

\* The PDF's row ...
CreateDerived(w) ==
  LET d == worker[w].doc
  IN  /\ worker[w].at = "making"
      /\ \/ pdfs' = [pdfs EXCEPT ![d] = @ + 1] /\ Goto(w, "linking") /\ NoFault
         \/ Faults /\ Goto(w, "fail") /\ UNCHANGED <<pdfs, slipped>>
      /\ UNCHANGED <<row, task, Queue, Requests>>

\* Mutant: the link is the id of another document.
LinkOther(w) ==
  LET d == worker[w].doc
  IN  /\ worker[w].at = "linking" /\ Goto(w, "finishing")
      /\ row' = [row EXCEPT ![d] = Row("ready", pdfs[d] + 1)] /\ NoFault
      /\ UNCHANGED <<pdfs, task, Queue, Requests>>

\* ... and its id in the document's.
LinkDerived(w) ==
  LET d == worker[w].doc
  IN  /\ worker[w].at = "linking"
      /\ \/ row' = [row EXCEPT ![d] = Row("ready", pdfs[d])] /\ Goto(w, "finishing") /\ NoFault
         \/ Faults /\ Goto(w, "fail") /\ UNCHANGED <<row, slipped>>
      /\ UNCHANGED <<pdfs, task, Queue, Requests>>

\* An acknowledged entry leaves the stream; without Redis there is none.
Finish(w, status) ==
  LET d == worker[w].doc
  IN  /\ \/ task' = [task EXCEPT ![d] = status] /\ NoFault
         \/ Faults /\ Slips(d) /\ UNCHANGED task
      /\ worker' = [worker EXCEPT ![w] = IF broker = "redis" THEN At("ack", d) ELSE Idle]
      /\ UNCHANGED <<row, pdfs, Queue, Requests>>

SetCompleted(w) == worker[w].at = "finishing" /\ Finish(w, "completed")

\* failConversionTask.
MarkFailed(w) ==
  LET d == worker[w].doc
  IN  /\ worker[w].at = "fail" /\ Goto(w, "failTask")
      /\ \/ row' = [row EXCEPT ![d] = Row("failed", 0)] /\ NoFault
         \/ Faults /\ Slips(d) /\ UNCHANGED row
      /\ UNCHANGED <<pdfs, task, Queue, Requests>>

SetFailed(w) == worker[w].at = "failTask" /\ Finish(w, "failed")

\* XACK and XDEL; the error is ignored, and the entry read again.
Acknowledge(w) ==
  /\ worker[w].at = "ack"
  /\ worker' = [worker EXCEPT ![w] = Idle]
  /\ \/ server = "up" /\ held' = [held EXCEPT ![w] = None] /\ NoFault
     \/ server = "up" /\ Faults /\ UNCHANGED <<held, slipped>>
     \/ server = "stopping" /\ UNCHANGED held /\ NoFault
  /\ UNCHANGED <<stream, group, Tasks, Requests>>

\* What a request for the preview is answered: that it is being generated, that it
\* failed, which a missing PDF is as well, or the PDF.
resolvePreviewTarget(d) == IF row[d].link \in 1..pdfs[d] THEN "pdf" ELSE "failed"
Preview(d) == IF row[d].preview = "ready" THEN resolvePreviewTarget(d) ELSE row[d].preview

-----------------------------------------------------------------------------
(* What goes wrong around the program.                                     *)

Uploading(d) == upload[d] \in {"stored", "tasked", "undo", "untask"}

Exit ==
  /\ server' = "down"
  /\ upload' = [d \in Docs |-> IF upload[d] = "new" THEN "new" ELSE "over"]
  /\ worker' = [w \in Workers |-> Idle]

\* The process dies.  What it had half done stays so; what a consumer has read stays
\* its own.
Crash ==
  /\ server # "down" /\ Faults
  /\ Exit
  /\ slipped' = slipped \union {d \in Docs : Working(d) \/ Uploading(d)}
  /\ UNCHANGED <<broker, Tasks, Queue>>

\* A new group reads what is added from now on.
ensureConversionQueueGroup ==
  group' = TRUE /\ stream' = IF group THEN stream ELSE <<>>

StartBackgroundWorkers ==
  /\ server = "down" /\ server' = "up"
  /\ ensureConversionQueueGroup
  /\ UNCHANGED <<broker, upload, held, worker, Tasks>> /\ NoFault

\* An orderly stop: each worker finishes its document, but its context is cancelled, so
\* its entry is not acknowledged; requests that outlast the shutdown are cut off.
StopBackgroundWorkers ==
  /\ server = "up" /\ Faults
  /\ server' = "stopping"
  /\ UNCHANGED <<broker, upload, worker, slipped, Tasks, Queue>>

Exited ==
  /\ server = "stopping" /\ \A w \in Workers : worker[w] = Idle
  /\ Exit
  /\ slipped' = slipped \union {d \in Docs : Uploading(d)}
  /\ UNCHANGED <<broker, faults, Tasks, Queue>>

\* An hour without an upload: the stream expires with its entries and its group.
Lapse ==
  /\ broker = "redis" /\ group /\ Faults
  /\ group' = FALSE /\ stream' = <<>> /\ held' = [w \in Workers |-> None]
  /\ slipped' = slipped \union {d \in Docs : Queued(d) /\ task[d] = "pending"}
  /\ UNCHANGED <<upload, worker, Tasks, Server>>

-----------------------------------------------------------------------------
FinishUpload(d) ==
  UpsertPending(d) \/ Enqueue(d) \/ UndoPreview(d) \/ SetFailedByDocument(d)

WorkStep(w) ==
  \/ ReadNext(w) \/ Take(w) \/ TakeNext(w) \/ Generate(w) \/ CreateDerived(w) \/ LinkDerived(w)
  \/ SetCompleted(w) \/ MarkFailed(w) \/ SetFailed(w) \/ Acknowledge(w)

Next ==
  \/ \E d \in Docs : StoreUpload(d) \/ FinishUpload(d)
  \/ \E d, source \in Docs : CloneToProject(d, source)
  \/ \E w \in Workers : WorkStep(w)
  \/ Crash \/ StopBackgroundWorkers \/ Exited \/ StartBackgroundWorkers \/ Lapse

\* Requests and workers are goroutines; a stopped server is started again.
Spec ==
  /\ Init /\ [][Next]_vars
  /\ \A d \in Docs : WF_vars(FinishUpload(d))
  /\ \A w \in Workers : WF_vars(WorkStep(w))
  /\ WF_vars(Exited) /\ WF_vars(StartBackgroundWorkers)

-----------------------------------------------------------------------------
(* Properties.                                                             *)

Loops == [at : Places, doc : Docs \union {None}]

\* Every variable has its type; a link names a PDF that exists.
TypeOK ==
  /\ server \in {"up", "stopping", "down"} /\ broker \in Deployments /\ group \in BOOLEAN
  /\ upload \in [Docs -> Uploads]
  /\ row \in [Docs -> [preview : Previews, link : Nat] \union {None}]
  /\ pdfs \in [Docs -> Nat]
  /\ task \in [Docs -> TaskStatuses \union {None}]
  /\ stream \in Seq(Docs) /\ held \in [Workers -> Docs \union {None}]
  /\ worker \in [Workers -> Loops]
  /\ slipped \subseteq Docs /\ faults \in 0..MaxFaults
  /\ \A d \in Docs : row[d] # None => row[d].link <= pdfs[d]

\* A document is converted once, by one worker, however often its entry is read again
\* after a crash or a lost acknowledgement (TakePendingByDocument).
ConvertedOnce ==
  \A d \in Docs :
    /\ pdfs[d] <= 1
    /\ \A v, w \in Workers : worker[v].doc = d /\ worker[w].doc = d
                              /\ {worker[v].at, worker[w].at} \subseteq Places \ {"idle", "got", "ack"} => v = w

Generating(d) == row[d] # None /\ row[d].preview = "processing"
AtRest(d) == ~ Working(d) /\ upload[d] \in {"new", "over"} /\ d \notin slipped

\* The document's row, its task and its PDF are written one by one; once nobody works
\* on the document they tell the same story, unless a failure went unnoticed; and a
\* preview that is listed as ready can be opened (handleConversionTask,
\* failConversionTask, the errors of Upload, resolvePreviewTarget).
RowsAgree ==
  \A d \in Docs : row[d] # None =>
    /\ row[d].preview = "ready" => Preview(d) = "pdf"
    /\ AtRest(d) => /\ task[d] = "completed" => row[d].preview = "ready"
                    /\ task[d] = "failed" => row[d].preview = "failed"
                    /\ row[d].preview = "ready" => task[d] \in {"completed", None}

\* A preview that is being generated has somebody who will generate it: the request that
\* still has to queue it, an entry and a pending task, or a worker; only the failures in
\* slipped leave it to nobody (Upload, conversionWorkerLoop).
NotForgotten ==
  \A d \in Docs : Generating(d) =>
    \/ upload[d] \in {"stored", "tasked", "undo"}
    \/ task[d] = "pending" /\ (broker = "database" \/ Queued(d))
    \/ Working(d)
    \/ d \in slipped

\* So it ends: the preview becomes ready or failed.
Resolved == \A d \in Docs : Generating(d) ~> (~ Generating(d) \/ d \in slipped)
=============================================================================
