------------------------ MODULE DocumentConversionProofs ------------------------
(***************************************************************************)
(* Proofs about DocumentConversion, for any documents and workers, either  *)
(* deployment and any number of faults: the type invariant, that a         *)
(* document is converted once, that its rows agree and that none is        *)
(* forgotten.                                                              *)
(*                                                                         *)
(* One inductive invariant carries them all.  It speaks of one document at *)
(* a time: its task is a token that only one worker ever takes (OnceAt),   *)
(* and a document that has not slipped is followed from the request to the *)
(* end of its conversion (BeforeAt, StoryAt, EntryAt).                     *)
(***************************************************************************)
EXTENDS DocumentConversion, SequenceTheorems, TLAPS

\* A worker is past the taking of the document's task and not yet done with it.
Busy(w, d) == worker[w].doc = d /\ worker[w].at \notin {"idle", "got", "ack"}

\* A worker that is not idle has a document at hand, and holds no other's entry;
\* without Redis there are no entries.
HandInv ==
  \A w \in Workers :
    /\ broker = "database" => held[w] = None
    /\ \/ worker[w].at = "idle" /\ worker[w].doc = None
       \/ /\ worker[w].at # "idle" /\ worker[w].doc \in Docs
          /\ held[w] \in {None, worker[w].doc}

\* The task is taken once: whoever works on a document has taken its task, alone, and
\* the PDF comes after that.
OnceAt(d) ==
  /\ upload[d] \in {"new", "stored"} => task[d] = None /\ pdfs[d] = 0
  /\ task[d] \in {None, "pending"} => \A w \in Workers : ~ Busy(w, d)
  /\ task[d] = "pending" => pdfs[d] = 0
  /\ \A w \in Workers : Busy(w, d) /\ worker[w].at \in {"taken", "making"} => pdfs[d] = 0
  /\ \A w \in Workers : Busy(w, d) /\ worker[w].at = "linking" => pdfs[d] # 0
  /\ \A v, w \in Workers : Busy(v, d) /\ Busy(w, d) => v = w
  /\ pdfs[d] <= 1

\* A document's row comes first, and a preview is ready with its PDF.
RowAt(d) ==
  /\ upload[d] = "new" => row[d] = None
  /\ row[d] = None => task[d] = None /\ upload[d] \in {"new", "over"}
  /\ row[d] # None /\ row[d].preview = "ready" => row[d].link # 0
  /\ upload[d] = "stored" => row[d].preview # "ready"

\* The documents with an entry that nobody has read.
Entries == {stream[i] : i \in DOMAIN stream}

\* Nobody has the document at hand before its request has queued it, nor after the
\* request has failed to, unless that failure slipped.
Unseen(d) ==
  /\ d \notin Entries
  /\ \A w \in Workers : held[w] # d /\ worker[w].doc # d
BeforeAt(d) ==
  /\ upload[d] \in {"new", "stored", "tasked"} => Unseen(d)
  /\ upload[d] \in {"undo", "untask"} /\ d \notin slipped => Unseen(d) /\ task[d] \in {None, "pending"}
  /\ upload[d] = "tasked" => task[d] = "pending" /\ broker # "database"
  /\ upload[d] \in {"undo", "untask"} /\ broker = "database" => task[d] = None

\* The preview that goes with the task's status and the place of the one who works on
\* it, of a document that has not slipped.
Told(d) ==
  /\ task[d] = "pending" => row[d].preview # "ready"
  /\ task[d] = "processing" => \E w \in Workers : Busy(w, d)
  /\ task[d] = "completed" => row[d].preview = "ready"
  /\ task[d] = "failed" => row[d].preview = "failed"
  /\ upload[d] = "untask" => row[d].preview = "failed"
  /\ upload[d] = "over" /\ task[d] = None => row[d].preview # "processing"
  /\ \A w \in Workers : Busy(w, d) =>
       /\ task[d] = "processing"
       /\ worker[w].at = "finishing" => row[d].preview = "ready"
       /\ worker[w].at = "failTask" => row[d].preview = "failed"
StoryAt(d) == d \notin slipped /\ row[d] # None => Told(d)

\* A pending task has its entry until a worker has looked at it.
EntryAt(d) ==
  d \notin slipped /\ task[d] = "pending" /\ upload[d] = "over" =>
    broker = "database" \/ d \in Entries \/ \E w \in Workers : held[w] = d

DocInv(d) == OnceAt(d) /\ RowAt(d) /\ BeforeAt(d) /\ StoryAt(d) /\ EntryAt(d)

\* Whose entry is to be acknowledged is not pending, and the entries that a new group
\* will not see have slipped.
QueueInv ==
  /\ \A w \in Workers : worker[w].at = "ack" => task[worker[w].doc] # "pending"
  /\ ~ group => Entries \subseteq slipped

IInv == TypeOK /\ HandInv /\ QueueInv /\ \A d \in Docs : DocInv(d)

\* The function g on S is f but for the value v at x.
Changed(f, g, S, x, v) == g = [y \in S |-> IF y = x THEN v ELSE f[y]]

-----------------------------------------------------------------------------
(* The stream, as the set of the documents in it.                          *)

LEMMA AppendEntry ==
  ASSUME NEW s \in Seq(Docs), NEW d \in Docs
  PROVE  /\ Append(s, d) \in Seq(Docs)
         /\ {Append(s, d)[i] : i \in DOMAIN Append(s, d)} = {s[i] : i \in DOMAIN s} \union {d}
  <1> DEFINE t == Append(s, d)
  <1>1. t \in Seq(Docs) /\ DOMAIN t = 1..Len(s) + 1 /\ DOMAIN s = 1..Len(s) /\ Len(s) \in Nat
    OBVIOUS
  <1>2. /\ \A i \in 1..Len(s) : t[i] = s[i]
        /\ t[Len(s) + 1] = d
    OBVIOUS
  <1>3. {t[i] : i \in DOMAIN t} \subseteq {s[i] : i \in DOMAIN s} \union {d}
    BY <1>1, <1>2
  <1>4. {s[i] : i \in DOMAIN s} \union {d} \subseteq {t[i] : i \in DOMAIN t}
    BY <1>1, <1>2
  <1> QED BY <1>1, <1>3, <1>4

LEMMA ReadEntry ==
  ASSUME NEW s \in Seq(Docs), s # <<>>
  PROVE  /\ Tail(s) \in Seq(Docs) /\ Head(s) \in Docs
         /\ {s[i] : i \in DOMAIN s} = {Tail(s)[i] : i \in DOMAIN Tail(s)} \union {Head(s)}
  <1> DEFINE t == Tail(s)
  <1>1. /\ t \in Seq(Docs) /\ Head(s) \in Docs /\ Head(s) = s[1]
        /\ Len(s) \in Nat /\ Len(s) >= 1
        /\ DOMAIN t = 1..Len(s) - 1 /\ DOMAIN s = 1..Len(s)
        /\ \A i \in 1..Len(s) - 1 : t[i] = s[i + 1]
    OBVIOUS
  <1>2. {t[i] : i \in DOMAIN t} \union {Head(s)} \subseteq {s[i] : i \in DOMAIN s}
    BY <1>1
  <1>3. ASSUME NEW i \in DOMAIN s
        PROVE  s[i] \in {t[j] : j \in DOMAIN t} \union {Head(s)}
    <2>1. CASE i = 1
      BY <2>1, <1>1
    <2>2. CASE i # 1
      <3>1. i - 1 \in DOMAIN t /\ t[i - 1] = s[i]
        BY <2>2, <1>1
      <3> QED BY <3>1
    <2> QED BY <2>1, <2>2
  <1> QED BY <1>1, <1>2, <1>3

\* How the actions that touch the stream change the entries.
LEMMA Appended ==
  ASSUME TypeOK, NEW d \in Docs, stream' = Append(stream, d)
  PROVE  stream' \in Seq(Docs) /\ Entries' = Entries \union {d}
  <1>1. stream \in Seq(Docs)
    BY DEF TypeOK
  <1>2. /\ stream' \in Seq(Docs)
        /\ {stream'[i] : i \in DOMAIN stream'} = {stream[i] : i \in DOMAIN stream} \union {d}
    BY <1>1, AppendEntry
  <1> QED BY <1>2 DEF Entries

LEMMA Taken ==
  ASSUME TypeOK, stream # <<>>, stream' = Tail(stream)
  PROVE  /\ stream' \in Seq(Docs) /\ Head(stream) \in Docs
         /\ Entries = Entries' \union {Head(stream)}
  BY ReadEntry DEF TypeOK, Entries

LEMMA Emptied ==
  ASSUME stream' = <<>>
  PROVE  stream' \in Seq(Docs) /\ Entries' = {}
  BY DEF Entries

LEMMA QueuedEntry ==
  ASSUME NEW d
  PROVE  /\ Queued(d) <=> d \in Entries \/ \E w \in Workers : held[w] = d
         /\ Queued(d)' <=> d \in Entries' \/ \E w \in Workers : held'[w] = d
  BY DEF Queued, Entries

LEMMA EntriesSame == stream' = stream => Entries' = Entries
  BY DEF Entries

-----------------------------------------------------------------------------
(* Rows are no None, and what the types say of one document.               *)

LEMMA RowReal ==
  ASSUME NEW p \in Previews, NEW n \in Nat
  PROVE  /\ Row(p, n) # None /\ Row(p, n).preview = p /\ Row(p, n).link = n
         /\ Row(p, n) \in [preview : Previews, link : Nat]
  BY ConversionAssumption DEF Row

LEMMA Typed ==
  ASSUME TypeOK, NEW d \in Docs
  PROVE  /\ upload[d] \in Uploads /\ pdfs[d] \in Nat /\ task[d] \in TaskStatuses \union {None}
         /\ row[d] # None => row[d].preview \in Previews /\ row[d].link \in Nat
  BY DEF TypeOK

\* The actions change one place of a function.
LEMMA ExceptChanged ==
  ASSUME NEW S, NEW T, NEW f \in [S -> T], NEW x, NEW v
  PROVE  Changed(f, [f EXCEPT ![x] = v], S, x, v)
  BY DEF Changed

LEMMA GotoChanged ==
  ASSUME TypeOK, NEW w \in Workers, NEW place, Goto(w, place)
  PROVE  Changed(worker, worker', Workers, w, At(place, worker[w].doc))
  <1>1. worker \in [Workers -> Loops] /\ worker[w] = [at |-> worker[w].at, doc |-> worker[w].doc]
    BY DEF TypeOK, Loops
  <1>2. [worker[w] EXCEPT !.at = place] = At(place, worker[w].doc)
    BY <1>1 DEF At
  <1>3. worker' = [worker EXCEPT ![w] = At(place, worker[w].doc)]
    BY <1>2 DEF Goto
  <1> QED BY <1>1, <1>3, ExceptChanged

-----------------------------------------------------------------------------
(* A document that a step has nothing to do with.                          *)

Untouched(d) ==
  /\ upload'[d] = upload[d] /\ row'[d] = row[d] /\ pdfs'[d] = pdfs[d] /\ task'[d] = task[d]
  /\ \A w \in Workers : worker[w].doc = d \/ worker'[w].doc = d => worker'[w] = worker[w]
  /\ \A w \in Workers : held'[w] = d <=> held[w] = d
  /\ d \in Entries' <=> d \in Entries
  /\ d \in slipped' <=> d \in slipped
  /\ broker' = broker

LEMMA Frame ==
  ASSUME NEW d \in Docs, DocInv(d), Untouched(d)
  PROVE  DocInv(d)'
  <1> USE DEF DocInv
  <1>1. \A w \in Workers : Busy(w, d)' <=> Busy(w, d)
    BY DEF Untouched, Busy
  <1>2. \A w \in Workers : Busy(w, d) => worker'[w] = worker[w]
    BY DEF Untouched, Busy
  <1>3. Unseen(d) => Unseen(d)'
    BY DEF Untouched, Unseen
  <1>4. OnceAt(d)'
    BY <1>1, <1>2 DEF Untouched, OnceAt
  <1>5. RowAt(d)' /\ BeforeAt(d)'
    BY <1>3 DEF Untouched, RowAt, BeforeAt
  <1>6. StoryAt(d)'
    BY <1>1, <1>2 DEF Untouched, StoryAt, Told
  <1>7. EntryAt(d)'
    BY DEF Untouched, EntryAt
  <1> QED BY <1>4, <1>5, <1>6, <1>7

-----------------------------------------------------------------------------
(* The initial state, and stuttering.                                      *)

LEMMA Initially == Init => IInv
  <1> SUFFICES ASSUME Init PROVE IInv
    OBVIOUS
  <1> USE ConversionAssumption DEF Init
  <1>1. Entries = {} /\ <<>> \in Seq(Docs)
    BY DEF Entries
  <1>2. \A w \in Workers : worker[w].at = "idle" /\ worker[w].doc = None /\ held[w] = None
    BY DEF Idle, At
  <1>3. TypeOK
    BY <1>1 DEF TypeOK, Uploads, Loops, Places, Idle, At
  <1>4. HandInv /\ QueueInv
    BY <1>1, <1>2 DEF HandInv, QueueInv
  <1>5. ASSUME NEW d \in Docs PROVE DocInv(d)
    <2>1. upload[d] = "new" /\ row[d] = None /\ pdfs[d] = 0 /\ task[d] = None
      OBVIOUS
    <2>2. \A w \in Workers : ~ Busy(w, d)
      BY <1>2 DEF Busy
    <2>3. OnceAt(d) /\ RowAt(d)
      BY <2>1, <2>2 DEF OnceAt, RowAt
    <2>4. Unseen(d)
      BY <1>1, <1>2 DEF Unseen
    <2>5. BeforeAt(d) /\ StoryAt(d) /\ EntryAt(d)
      BY <2>1, <2>4 DEF BeforeAt, StoryAt, EntryAt
    <2> QED BY <2>3, <2>5 DEF DocInv
  <1> QED BY <1>3, <1>4, <1>5 DEF IInv

LEMMA Stutter == IInv /\ UNCHANGED vars => IInv'
  <1> SUFFICES ASSUME IInv, UNCHANGED vars PROVE IInv'
    OBVIOUS
  <1> USE DEF vars
  <1>1. Entries' = Entries
    BY DEF Entries
  <1>2. TypeOK' /\ HandInv' /\ QueueInv'
    BY <1>1 DEF IInv, TypeOK, HandInv, QueueInv
  <1>3. ASSUME NEW d \in Docs PROVE DocInv(d)'
    BY <1>1, Frame DEF IInv, Untouched
  <1> QED BY <1>2, <1>3 DEF IInv

-----------------------------------------------------------------------------
(* Every action keeps the invariant.  Each lemma first says what the       *)
(* action does to single documents and workers (Changed), and the parts    *)
(* of the invariant follow from that alone.                                *)

LEMMA StoreUploadKeeps ==
  ASSUME IInv, NEW d \in Docs, StoreUpload(d)
  PROVE  IInv'
  <1> USE ConversionAssumption DEF IInv
  <1>1. /\ upload[d] = "new" /\ UNCHANGED <<pdfs, task, worker, stream, group, held, broker, slipped>>
        /\ \/ Changed(upload, upload', Docs, d, "over") /\ UNCHANGED row
           \/ Changed(upload, upload', Docs, d, "stored") /\ Changed(row, row', Docs, d, Row("processing", 0))
        /\ Entries' = Entries
    <2>1. upload[d] = "new" /\ UNCHANGED <<pdfs, task, worker, stream, group, held, broker, slipped>>
      BY EntriesSame, SMT DEF TypeOK, Loops, StoreUpload, Step, Queue, Server, NoFault, Row
    <2>2. \/ Changed(upload, upload', Docs, d, "over") /\ UNCHANGED row
          \/ Changed(upload, upload', Docs, d, "stored") /\ Changed(row, row', Docs, d, Row("processing", 0))
      BY EntriesSame, SMT DEF Changed, TypeOK, Loops, Previews, StoreUpload, Step, Queue,
         Server, NoFault, Row
    <2>3. Entries' = Entries
      BY EntriesSame DEF StoreUpload, Step, Queue, Server, NoFault, Row
    <2> QED BY <2>1, <2>2, <2>3
  <1>b. DocInv(d) /\ pdfs[d] \in Nat /\ task[d] \in TaskStatuses \union {None}
    BY Typed
  <1>c. /\ "processing" \in Previews /\ "ready" \in Previews /\ "failed" \in Previews
        /\ 0 \in Nat /\ 1 \in Nat
        /\ \A p \in Previews, n \in Nat : Row(p, n) # None /\ Row(p, n).preview = p /\ Row(p, n).link = n
    BY RowReal DEF Previews
  <1>2. TypeOK'
    <2>1. upload' \in [Docs -> Uploads]
      BY <1>1, SMT DEF TypeOK, Changed, Uploads
    <2>2. row' \in [Docs -> [preview : Previews, link : Nat] \union {None}]
      BY <1>1, SMT DEF TypeOK, Changed, Previews, Row
    <2>3. \A e \in Docs : row'[e] # None => row'[e].link <= pdfs'[e]
      BY <1>1, SMT DEF TypeOK, Changed, Row
    <2> QED BY <2>1, <2>2, <2>3, SMT DEF TypeOK, StoreUpload, Step, Queue, Server, NoFault, Row
  <1>3. HandInv'
    BY <1>1 DEF HandInv, Changed, At
  <1>4. ASSUME NEW e \in Docs, e # d PROVE DocInv(e)'
    <2>1. Untouched(e)
      BY <1>1, <1>4 DEF Untouched, Changed, At
    <2> QED BY <2>1, Frame
  <1>5. OnceAt(d)'
    BY <1>b, <1>c, <1>1, SMT DEF DocInv, OnceAt, TaskStatuses, BeforeAt, Unseen, RowAt, Busy,
       Changed, At
  <1>6. RowAt(d)'
    BY <1>b, <1>c, <1>1, SMT DEF DocInv, RowAt, TaskStatuses, OnceAt, BeforeAt, Busy, Changed,
       At
  <1>7. BeforeAt(d)'
    BY <1>b, <1>c, <1>1, SMT DEF DocInv, BeforeAt, TaskStatuses, Unseen, OnceAt, Busy, Changed,
       At
  <1>8. StoryAt(d)'
    BY <1>b, <1>c, <1>1, SMT DEF DocInv, StoryAt, TaskStatuses, Told, OnceAt, RowAt, BeforeAt,
       Unseen, Busy, Working, Changed, At
  <1>9. EntryAt(d)'
    BY <1>b, <1>c, <1>1, SMT DEF DocInv, EntryAt, TaskStatuses, OnceAt, BeforeAt, Unseen,
       QueueInv, Busy, Changed, At
  <1>10. QueueInv'
    BY <1>b, <1>c, <1>1, SMT DEF QueueInv, DocInv, BeforeAt, Unseen, OnceAt, Busy, HandInv,
       Changed, At
  <1> QED BY <1>2, <1>3, <1>4, <1>5, <1>6, <1>7, <1>8, <1>9, <1>10 DEF DocInv

LEMMA CloneToProjectKeeps ==
  ASSUME IInv, NEW d \in Docs, NEW source \in Docs, CloneToProject(d, source)
  PROVE  IInv'
  <1> USE ConversionAssumption DEF IInv
  <1>1. /\ upload[d] = "new" /\ UNCHANGED <<task, worker, stream, group, held, broker, slipped>>
        /\ \/ /\ Changed(upload, upload', Docs, d, "over") /\ Changed(pdfs, pdfs', Docs, d, 1)
              /\ Changed(row, row', Docs, d, Row("ready", 1))
           \/ /\ Changed(upload, upload', Docs, d, "stored") /\ UNCHANGED pdfs
              /\ \E p \in {"processing", "failed"} : Changed(row, row', Docs, d, Row(p, 0))
        /\ Entries' = Entries
    <2>1. upload[d] = "new" /\ UNCHANGED <<task, worker, stream, group, held, broker, slipped>>
      BY EntriesSame, SMT DEF TypeOK, Loops, CloneToProject, Step, Queue, Server, NoFault, Row
    <2>2. \/ /\ Changed(upload, upload', Docs, d, "over") /\ Changed(pdfs, pdfs', Docs, d, 1)
             /\ Changed(row, row', Docs, d, Row("ready", 1))
          \/ /\ Changed(upload, upload', Docs, d, "stored") /\ UNCHANGED pdfs
             /\ \E p \in {"processing", "failed"} : Changed(row, row', Docs, d, Row(p, 0))
      BY EntriesSame, SMT DEF Changed, TypeOK, Loops, Previews, CloneToProject, Step, Queue,
         Server, NoFault, Row
    <2>3. Entries' = Entries
      BY EntriesSame DEF CloneToProject, Step, Queue, Server, NoFault, Row
    <2> QED BY <2>1, <2>2, <2>3
  <1>b. DocInv(d) /\ pdfs[d] \in Nat /\ task[d] \in TaskStatuses \union {None}
    BY Typed
  <1>c. /\ "processing" \in Previews /\ "ready" \in Previews /\ "failed" \in Previews
        /\ 0 \in Nat /\ 1 \in Nat
        /\ \A p \in Previews, n \in Nat : Row(p, n) # None /\ Row(p, n).preview = p /\ Row(p, n).link = n
    BY RowReal DEF Previews
  <1>2. TypeOK'
    <2>1. upload' \in [Docs -> Uploads]
      BY <1>1, SMT DEF TypeOK, Changed, Uploads
    <2>2. row' \in [Docs -> [preview : Previews, link : Nat] \union {None}]
      BY <1>1, SMT DEF TypeOK, Changed, Previews, Row
    <2>3. pdfs' \in [Docs -> Nat]
      <3>1. pdfs \in [Docs -> Nat] /\ 1 \in Nat
        BY DEF TypeOK
      <3> QED BY <1>1, <3>1 DEF Changed
    <2>4. \A e \in Docs : row'[e] # None => row'[e].link <= pdfs'[e]
      BY <1>1, SMT DEF TypeOK, Changed, Row
    <2> QED BY <2>1, <2>2, <2>3, <2>4, SMT DEF TypeOK, CloneToProject, Step, Queue, Server,
       NoFault, Row
  <1>3. HandInv'
    BY <1>1 DEF HandInv, Changed, At
  <1>4. ASSUME NEW e \in Docs, e # d PROVE DocInv(e)'
    <2>1. Untouched(e)
      BY <1>1, <1>4 DEF Untouched, Changed, At
    <2> QED BY <2>1, Frame
  <1>5. OnceAt(d)'
    BY <1>b, <1>c, <1>1, SMT DEF DocInv, OnceAt, TaskStatuses, BeforeAt, Unseen, RowAt, Busy,
       Changed, At
  <1>6. RowAt(d)'
    BY <1>b, <1>c, <1>1, SMT DEF DocInv, RowAt, TaskStatuses, OnceAt, BeforeAt, Busy, Changed,
       At
  <1>7. BeforeAt(d)'
    BY <1>b, <1>c, <1>1, SMT DEF DocInv, BeforeAt, TaskStatuses, Unseen, OnceAt, Busy, Changed,
       At
  <1>8. StoryAt(d)'
    BY <1>b, <1>c, <1>1, SMT DEF DocInv, StoryAt, TaskStatuses, Told, OnceAt, RowAt, BeforeAt,
       Unseen, Busy, Working, Changed, At
  <1>9. EntryAt(d)'
    BY <1>b, <1>c, <1>1, SMT DEF DocInv, EntryAt, TaskStatuses, OnceAt, BeforeAt, Unseen,
       QueueInv, Busy, Changed, At
  <1>10. QueueInv'
    BY <1>b, <1>c, <1>1, SMT DEF QueueInv, DocInv, BeforeAt, Unseen, OnceAt, Busy, HandInv,
       Changed, At
  <1> QED BY <1>2, <1>3, <1>4, <1>5, <1>6, <1>7, <1>8, <1>9, <1>10 DEF DocInv

LEMMA UpsertPendingKeeps ==
  ASSUME IInv, NEW d \in Docs, UpsertPending(d)
  PROVE  IInv'
  <1> USE ConversionAssumption DEF IInv
  <1>1. /\ upload[d] = "stored" /\ UNCHANGED <<row, pdfs, worker, stream, group, held, broker, slipped>>
        /\ \/ /\ Changed(task, task', Docs, d, "pending")
              /\ \/ broker = "redis" /\ Changed(upload, upload', Docs, d, "tasked")
                 \/ broker = "database" /\ Changed(upload, upload', Docs, d, "over")
           \/ Changed(upload, upload', Docs, d, "undo") /\ UNCHANGED task
        /\ Entries' = Entries
    <2>1. upload[d] = "stored" /\ UNCHANGED <<row, pdfs, worker, stream, group, held, broker, slipped>>
      BY EntriesSame, SMT DEF TypeOK, Loops, Previews, UpsertPending, Step, Queue, Server,
         NoFault, Faults
    <2>2. \/ /\ Changed(task, task', Docs, d, "pending")
             /\ \/ broker = "redis" /\ Changed(upload, upload', Docs, d, "tasked")
                \/ broker = "database" /\ Changed(upload, upload', Docs, d, "over")
          \/ Changed(upload, upload', Docs, d, "undo") /\ UNCHANGED task
      BY EntriesSame, SMT DEF Changed, TypeOK, Loops, UpsertPending, Step, Queue, Server,
         NoFault, Faults
    <2>3. Entries' = Entries
      BY EntriesSame DEF UpsertPending, Step, Queue, Server, NoFault, Faults
    <2> QED BY <2>1, <2>2, <2>3
  <1>b. DocInv(d) /\ pdfs[d] \in Nat /\ task[d] \in TaskStatuses \union {None}
    BY Typed
  <1>2. TypeOK'
    <2>1. upload' \in [Docs -> Uploads]
      BY <1>1, SMT DEF TypeOK, Changed, Uploads
    <2>2. task' \in [Docs -> TaskStatuses \union {None}]
      BY <1>1, SMT DEF TypeOK, Changed, TaskStatuses
    <2> QED BY <2>1, <2>2, SMT DEF TypeOK, UpsertPending, Step, Queue, Server, NoFault, Faults
  <1>3. HandInv'
    BY <1>1 DEF HandInv, Changed, At
  <1>4. ASSUME NEW e \in Docs, e # d PROVE DocInv(e)'
    <2>1. Untouched(e)
      BY <1>1, <1>4 DEF Untouched, Changed, At
    <2> QED BY <2>1, Frame
  <1>5. OnceAt(d)'
    BY <1>b, <1>1, SMT DEF DocInv, OnceAt, TaskStatuses, BeforeAt, Unseen, RowAt, Busy, Changed,
       At
  <1>6. RowAt(d)'
    BY <1>b, <1>1, SMT DEF DocInv, RowAt, TaskStatuses, OnceAt, BeforeAt, Busy, Changed, At
  <1>7. BeforeAt(d)'
    BY <1>b, <1>1, SMT DEF DocInv, BeforeAt, TaskStatuses, Unseen, OnceAt, Busy, Changed, At
  <1>8. StoryAt(d)'
    BY <1>b, <1>1, SMT DEF DocInv, StoryAt, TaskStatuses, Told, OnceAt, RowAt, BeforeAt, Unseen,
       Busy, Working, Changed, At
  <1>9. EntryAt(d)'
    BY <1>b, <1>1, SMT DEF DocInv, EntryAt, TaskStatuses, OnceAt, BeforeAt, Unseen, QueueInv,
       Busy, Changed, At
  <1>10. QueueInv'
    BY <1>b, <1>1, SMT DEF QueueInv, DocInv, BeforeAt, Unseen, OnceAt, Busy, HandInv, Changed,
       At
  <1> QED BY <1>2, <1>3, <1>4, <1>5, <1>6, <1>7, <1>8, <1>9, <1>10 DEF DocInv

LEMMA EnqueueKeeps ==
  ASSUME IInv, NEW d \in Docs, Enqueue(d)
  PROVE  IInv'
  <1> USE ConversionAssumption DEF IInv
  <1>1. /\ upload[d] = "tasked" /\ UNCHANGED <<row, pdfs, task, worker, group, held, broker>>
        /\ \/ /\ Changed(upload, upload', Docs, d, "over") /\ Entries' = Entries \union {d}
              /\ slipped' = IF group THEN slipped ELSE slipped \union {d}
           \/ Changed(upload, upload', Docs, d, "undo") /\ Entries' = Entries /\ UNCHANGED slipped
           \/ /\ Changed(upload, upload', Docs, d, "undo") /\ Entries' = Entries \union {d}
              /\ slipped' = slipped \union {d}
    <2>1. upload[d] = "tasked" /\ UNCHANGED <<row, pdfs, task, worker, group, held, broker>>
      BY Appended, EntriesSame, SMT DEF TypeOK, Loops, Previews, Enqueue, Step, Tasks, Server,
         NoFault, Faults, Slips
    <2>2. \/ /\ Changed(upload, upload', Docs, d, "over") /\ Entries' = Entries \union {d}
             /\ slipped' = IF group THEN slipped ELSE slipped \union {d}
          \/ Changed(upload, upload', Docs, d, "undo") /\ Entries' = Entries /\ UNCHANGED slipped
          \/ /\ Changed(upload, upload', Docs, d, "undo") /\ Entries' = Entries \union {d}
             /\ slipped' = slipped \union {d}
      BY Appended, EntriesSame, SMT DEF Changed, TypeOK, Loops, Enqueue, Step, Tasks, Server,
         NoFault, Faults, Slips
    <2> QED BY <2>1, <2>2
  <1>b. DocInv(d) /\ pdfs[d] \in Nat /\ task[d] \in TaskStatuses \union {None}
    BY Typed
  <1>2. TypeOK'
    <2>1. upload' \in [Docs -> Uploads]
      BY <1>1, SMT DEF TypeOK, Changed, Uploads
    <2>2. stream' \in Seq(Docs)
      BY Appended, SMT DEF TypeOK, Enqueue, Step, Tasks, Server, NoFault, Faults, Slips
    <2>3. slipped' \subseteq Docs
      BY <1>1, SMT DEF TypeOK, Changed, Uploads, Places, Loops, Previews, TaskStatuses, At, Row
    <2> QED BY <2>1, <2>2, <2>3, SMT DEF TypeOK, Enqueue, Step, Tasks, Server, NoFault, Faults,
       Slips
  <1>3. HandInv'
    BY <1>1 DEF HandInv, Changed, At
  <1>4. ASSUME NEW e \in Docs, e # d PROVE DocInv(e)'
    <2>1. Untouched(e)
      BY <1>1, <1>4 DEF Untouched, Changed, At
    <2> QED BY <2>1, Frame
  <1>5. OnceAt(d)'
    BY <1>b, <1>1, SMT DEF DocInv, OnceAt, TaskStatuses, BeforeAt, Unseen, RowAt, Busy, Changed,
       At
  <1>6. RowAt(d)'
    BY <1>b, <1>1, SMT DEF DocInv, RowAt, TaskStatuses, OnceAt, BeforeAt, Busy, Changed, At
  <1>7. BeforeAt(d)'
    BY <1>b, <1>1, SMT DEF DocInv, BeforeAt, TaskStatuses, Unseen, OnceAt, Busy, Changed, At
  <1>8. StoryAt(d)'
    BY <1>b, <1>1, SMT DEF DocInv, StoryAt, TaskStatuses, Told, OnceAt, RowAt, BeforeAt, Unseen,
       Busy, Working, Changed, At
  <1>9. EntryAt(d)'
    BY <1>b, <1>1, SMT DEF DocInv, EntryAt, TaskStatuses, OnceAt, BeforeAt, Unseen, QueueInv,
       Busy, Changed, At
  <1>10. QueueInv'
    BY <1>b, <1>1, SMT DEF QueueInv, DocInv, BeforeAt, Unseen, OnceAt, Busy, HandInv, Changed,
       At
  <1> QED BY <1>2, <1>3, <1>4, <1>5, <1>6, <1>7, <1>8, <1>9, <1>10 DEF DocInv

LEMMA UndoPreviewKeeps ==
  ASSUME IInv, NEW d \in Docs, UndoPreview(d)
  PROVE  IInv'
  <1> USE ConversionAssumption DEF IInv
  <1>1. /\ upload[d] = "undo"
        /\ Changed(upload, upload', Docs, d, "untask")
        /\ UNCHANGED <<pdfs, task, worker, stream, group, held, broker>>
        /\ \/ Changed(row, row', Docs, d, Row("failed", 0)) /\ UNCHANGED slipped
           \/ slipped' = slipped \union {d} /\ UNCHANGED row
        /\ Entries' = Entries
    <2>1. upload[d] = "undo"
      BY EntriesSame, SMT DEF TypeOK, Loops, UndoPreview, Step, Queue, Server, NoFault, Faults,
         Slips, Row
    <2>2. Changed(upload, upload', Docs, d, "untask")
      <3>1. upload \in [Docs -> Uploads] /\ upload' = [upload EXCEPT ![d] = "untask"]
        BY DEF TypeOK, UndoPreview, Step
      <3> QED BY <3>1, ExceptChanged
    <2>3. UNCHANGED <<pdfs, task, worker, stream, group, held, broker>>
      BY EntriesSame, SMT DEF TypeOK, Loops, UndoPreview, Step, Queue, Server, NoFault, Faults,
         Slips, Row
    <2>4. \/ Changed(row, row', Docs, d, Row("failed", 0)) /\ UNCHANGED slipped
          \/ slipped' = slipped \union {d} /\ UNCHANGED row
      BY EntriesSame, SMT DEF Changed, TypeOK, Loops, Previews, UndoPreview, Step, Queue,
         Server, NoFault, Faults, Slips, Row
    <2>5. Entries' = Entries
      BY EntriesSame DEF UndoPreview, Step, Queue, Server, NoFault, Faults, Slips, Row
    <2> QED BY <2>1, <2>2, <2>3, <2>4, <2>5
  <1>b. DocInv(d) /\ pdfs[d] \in Nat /\ task[d] \in TaskStatuses \union {None}
    BY Typed
  <1>c. /\ "processing" \in Previews /\ "ready" \in Previews /\ "failed" \in Previews
        /\ 0 \in Nat /\ 1 \in Nat
        /\ \A p \in Previews, n \in Nat : Row(p, n) # None /\ Row(p, n).preview = p /\ Row(p, n).link = n
    BY RowReal DEF Previews
  <1>2. TypeOK'
    <2>1. upload' \in [Docs -> Uploads]
      BY <1>1, SMT DEF TypeOK, Changed, Uploads
    <2>2. row' \in [Docs -> [preview : Previews, link : Nat] \union {None}]
      BY <1>1, SMT DEF TypeOK, Changed, Previews, Row
    <2>3. slipped' \subseteq Docs
      BY <1>1, SMT DEF TypeOK, Changed, Uploads, Places, Loops, Previews, TaskStatuses, At, Row
    <2>4. \A e \in Docs : row'[e] # None => row'[e].link <= pdfs'[e]
      BY <1>1, SMT DEF TypeOK, Changed, Row
    <2> QED BY <2>1, <2>2, <2>3, <2>4, SMT DEF TypeOK, UndoPreview, Step, Queue, Server,
       NoFault, Faults, Slips, Row
  <1>3. HandInv'
    BY <1>1 DEF HandInv, Changed, At
  <1>4. ASSUME NEW e \in Docs, e # d PROVE DocInv(e)'
    <2>1. Untouched(e)
      BY <1>1, <1>4 DEF Untouched, Changed, At
    <2> QED BY <2>1, Frame
  <1>5. OnceAt(d)'
    BY <1>b, <1>c, <1>1, SMT DEF DocInv, OnceAt, TaskStatuses, BeforeAt, Unseen, RowAt, Busy,
       Changed, At
  <1>6. RowAt(d)'
    BY <1>b, <1>c, <1>1, SMT DEF DocInv, RowAt, TaskStatuses, OnceAt, BeforeAt, Busy, Changed,
       At
  <1>7. BeforeAt(d)'
    BY <1>b, <1>c, <1>1, SMT DEF DocInv, BeforeAt, TaskStatuses, Unseen, OnceAt, Busy, Changed,
       At
  <1>8. StoryAt(d)'
    BY <1>b, <1>c, <1>1, SMT DEF DocInv, StoryAt, TaskStatuses, Told, OnceAt, RowAt, BeforeAt,
       Unseen, Busy, Working, Changed, At
  <1>9. EntryAt(d)'
    BY <1>b, <1>c, <1>1, SMT DEF DocInv, EntryAt, TaskStatuses, OnceAt, BeforeAt, Unseen,
       QueueInv, Busy, Changed, At
  <1>10. QueueInv'
    BY <1>b, <1>c, <1>1, SMT DEF QueueInv, DocInv, BeforeAt, Unseen, OnceAt, Busy, HandInv,
       Changed, At
  <1> QED BY <1>2, <1>3, <1>4, <1>5, <1>6, <1>7, <1>8, <1>9, <1>10 DEF DocInv

LEMMA SetFailedByDocumentKeeps ==
  ASSUME IInv, NEW d \in Docs, SetFailedByDocument(d)
  PROVE  IInv'
  <1> USE ConversionAssumption DEF IInv
  <1>1. /\ upload[d] = "untask"
        /\ Changed(upload, upload', Docs, d, "over")
        /\ UNCHANGED <<row, pdfs, worker, stream, group, held, broker>>
        /\ \/ /\ task[d] \in {"pending", "processing"} /\ Changed(task, task', Docs, d, "failed")
              /\ UNCHANGED slipped
           \/ task[d] \notin {"pending", "processing"} /\ UNCHANGED <<task, slipped>>
           \/ slipped' = slipped \union {d} /\ UNCHANGED task
        /\ Entries' = Entries
    <2>1. upload[d] = "untask"
      BY EntriesSame, SMT DEF TypeOK, Loops, SetFailedByDocument, Step, Queue, Server, NoFault,
         Faults, Slips
    <2>2. Changed(upload, upload', Docs, d, "over")
      <3>1. upload \in [Docs -> Uploads] /\ upload' = [upload EXCEPT ![d] = "over"]
        BY DEF TypeOK, SetFailedByDocument, Step
      <3> QED BY <3>1, ExceptChanged
    <2>3. UNCHANGED <<row, pdfs, worker, stream, group, held, broker>>
      BY EntriesSame, SMT DEF TypeOK, Loops, Previews, SetFailedByDocument, Step, Queue, Server,
         NoFault, Faults, Slips
    <2>4. \/ /\ task[d] \in {"pending", "processing"} /\ Changed(task, task', Docs, d, "failed")
             /\ UNCHANGED slipped
          \/ task[d] \notin {"pending", "processing"} /\ UNCHANGED <<task, slipped>>
          \/ slipped' = slipped \union {d} /\ UNCHANGED task
      BY EntriesSame, SMT DEF Changed, TypeOK, Loops, SetFailedByDocument, Step, Queue, Server,
         NoFault, Faults, Slips
    <2>5. Entries' = Entries
      BY EntriesSame DEF SetFailedByDocument, Step, Queue, Server, NoFault, Faults, Slips
    <2> QED BY <2>1, <2>2, <2>3, <2>4, <2>5
  <1>b. DocInv(d) /\ pdfs[d] \in Nat /\ task[d] \in TaskStatuses \union {None}
    BY Typed
  <1>2. TypeOK'
    <2>1. upload' \in [Docs -> Uploads]
      BY <1>1, SMT DEF TypeOK, Changed, Uploads
    <2>2. task' \in [Docs -> TaskStatuses \union {None}]
      BY <1>1, SMT DEF TypeOK, Changed, TaskStatuses
    <2>3. slipped' \subseteq Docs
      BY <1>1, SMT DEF TypeOK, Changed, Uploads, Places, Loops, Previews, TaskStatuses, At, Row
    <2> QED BY <2>1, <2>2, <2>3, SMT DEF TypeOK, SetFailedByDocument, Step, Queue, Server,
       NoFault, Faults, Slips
  <1>3. HandInv'
    BY <1>1 DEF HandInv, Changed, At
  <1>4. ASSUME NEW e \in Docs, e # d PROVE DocInv(e)'
    <2>1. Untouched(e)
      BY <1>1, <1>4 DEF Untouched, Changed, At
    <2> QED BY <2>1, Frame
  <1>5. OnceAt(d)'
    BY <1>b, <1>1, SMT DEF DocInv, OnceAt, TaskStatuses, BeforeAt, Unseen, RowAt, Busy, Changed,
       At
  <1>6. RowAt(d)'
    BY <1>b, <1>1, SMT DEF DocInv, RowAt, TaskStatuses, OnceAt, BeforeAt, Busy, Changed, At
  <1>7. BeforeAt(d)'
    BY <1>b, <1>1, SMT DEF DocInv, BeforeAt, TaskStatuses, Unseen, OnceAt, Busy, Changed, At
  <1>8. StoryAt(d)'
    BY <1>b, <1>1, SMT DEF DocInv, StoryAt, TaskStatuses, Told, OnceAt, RowAt, BeforeAt, Unseen,
       Busy, Working, Changed, At
  <1>9. EntryAt(d)'
    BY <1>b, <1>1, SMT DEF DocInv, EntryAt, TaskStatuses, OnceAt, BeforeAt, Unseen, QueueInv,
       Busy, Changed, At
  <1>10. QueueInv'
    BY <1>b, <1>1, SMT DEF QueueInv, DocInv, BeforeAt, Unseen, OnceAt, Busy, HandInv, Changed,
       At
  <1> QED BY <1>2, <1>3, <1>4, <1>5, <1>6, <1>7, <1>8, <1>9, <1>10 DEF DocInv

LEMMA ReadNextKeeps ==
  ASSUME IInv, NEW w \in Workers, ReadNext(w)
  PROVE  IInv'
  <1> USE ConversionAssumption DEF IInv
  <1>a. worker[w].at = "idle" /\ worker[w].doc = None
    BY DEF HandInv, ReadNext
  <1>0. /\ broker = "redis" /\ worker[w].at = "idle" /\ group
        /\ UNCHANGED <<upload, row, pdfs, task, group, broker, slipped>>
    BY Taken, EntriesSame, SMT DEF ReadNext, Tasks, Server, Requests, NoFault, At
  <1>1. PICK d \in Docs :
          /\ Changed(worker, worker', Workers, w, At("got", d))
          /\ \/ held[w] = d /\ UNCHANGED held /\ Entries' = Entries
             \/ /\ held[w] = None /\ Changed(held, held', Workers, w, d)
                /\ Entries = Entries' \union {d}
    <2>1. CASE held[w] # None
      <3>1. /\ worker \in [Workers -> Loops] /\ held[w] \in Docs
            /\ worker' = [worker EXCEPT ![w] = At("got", held[w])] /\ held' = held /\ stream' = stream
        BY <2>1 DEF TypeOK, ReadNext
      <3>2. Changed(worker, worker', Workers, w, At("got", held[w]))
        BY <3>1, ExceptChanged
      <3> QED BY <3>1, <3>2, EntriesSame
    <2>2. CASE held[w] = None
      <3>1. /\ worker \in [Workers -> Loops] /\ held \in [Workers -> Docs \union {None}]
            /\ stream # <<>> /\ stream' = Tail(stream)
            /\ worker' = [worker EXCEPT ![w] = At("got", Head(stream))]
            /\ held' = [held EXCEPT ![w] = Head(stream)]
        BY <2>2 DEF TypeOK, ReadNext
      <3>2. Head(stream) \in Docs /\ Entries = Entries' \union {Head(stream)}
        BY <3>1, Taken
      <3>3. /\ Changed(worker, worker', Workers, w, At("got", Head(stream)))
            /\ Changed(held, held', Workers, w, Head(stream))
        BY <3>1, ExceptChanged
      <3> QED BY <2>2, <3>2, <3>3
    <2> QED BY <2>1, <2>2
  <1>b. DocInv(d) /\ pdfs[d] \in Nat /\ task[d] \in TaskStatuses \union {None}
    BY Typed
  <1>2. TypeOK'
    <2>1. worker' \in [Workers -> Loops]
      BY <1>0, <1>a, <1>1, SMT DEF TypeOK, Changed, Places, Loops, At
    <2>2. held' \in [Workers -> Docs \union {None}]
      <3>1. held \in [Workers -> Docs \union {None}]
        BY DEF TypeOK
      <3> QED BY <1>1, <3>1 DEF Changed
    <2>3. stream' \in Seq(Docs)
      BY Taken, SMT DEF TypeOK, ReadNext, Tasks, Server, Requests, NoFault, At
    <2> QED BY <2>1, <2>2, <2>3, SMT DEF TypeOK, ReadNext, Tasks, Server, Requests, NoFault, At
  <1>3. HandInv'
    BY <1>0, <1>a, <1>1 DEF HandInv, Changed, At
  <1>4. ASSUME NEW e \in Docs, e # d PROVE DocInv(e)'
    <2>1. Untouched(e)
      BY <1>0, <1>a, <1>1, <1>4 DEF Untouched, Changed, At
    <2> QED BY <2>1, Frame
  <1>5. OnceAt(d)'
    BY <1>0, <1>a, <1>b, <1>1, SMT DEF DocInv, OnceAt, TaskStatuses, BeforeAt, Unseen, RowAt,
       Busy, Changed, At
  <1>6. RowAt(d)'
    BY <1>0, <1>a, <1>b, <1>1, SMT DEF DocInv, RowAt, TaskStatuses, OnceAt, BeforeAt, Busy,
       Changed, At
  <1>7. BeforeAt(d)'
    BY <1>0, <1>a, <1>b, <1>1, SMT DEF DocInv, BeforeAt, TaskStatuses, Unseen, OnceAt, Busy,
       Changed, At
  <1>8. StoryAt(d)'
    BY <1>0, <1>a, <1>b, <1>1, SMT DEF DocInv, StoryAt, TaskStatuses, Told, OnceAt, RowAt,
       BeforeAt, Unseen, Busy, Working, Changed, At
  <1>9. EntryAt(d)'
    BY <1>0, <1>a, <1>b, <1>1, SMT DEF DocInv, EntryAt, TaskStatuses, OnceAt, BeforeAt, Unseen,
       QueueInv, Busy, Changed, At
  <1>10. QueueInv'
    BY <1>0, <1>a, <1>b, <1>1, SMT DEF QueueInv, DocInv, BeforeAt, Unseen, OnceAt, Busy,
       HandInv, Changed, At
  <1> QED BY <1>2, <1>3, <1>4, <1>5, <1>6, <1>7, <1>8, <1>9, <1>10 DEF DocInv

LEMMA TakeKeeps ==
  ASSUME IInv, NEW w \in Workers, Take(w)
  PROVE  IInv'
  <1> USE ConversionAssumption DEF IInv
  <1>a. PICK d \in Docs : worker[w].doc = d /\ worker[w].at # "idle" /\ held[w] \in {None, d}
    BY DEF HandInv, Take
  <1>1. /\ worker[w].at = "got" /\ UNCHANGED <<upload, row, pdfs, stream, group, held, broker, slipped>>
        /\ \/ /\ task[d] = "pending" /\ Changed(task, task', Docs, d, "processing")
              /\ Changed(worker, worker', Workers, w, At("taken", d))
           \/ /\ task[d] # "pending" /\ UNCHANGED task
              /\ Changed(worker, worker', Workers, w, At("ack", d))
           \/ UNCHANGED task /\ Changed(worker, worker', Workers, w, At("idle", None))
        /\ Entries' = Entries
    <2>1. worker[w].at = "got" /\ UNCHANGED <<upload, row, pdfs, stream, group, held, broker, slipped>>
      BY EntriesSame, <1>a, SMT DEF TypeOK, Loops, Previews, Take, Goto, Queue, Server,
         Requests, NoFault, Faults, At, Idle, Takeable
    <2>2. \/ /\ task[d] = "pending" /\ Changed(task, task', Docs, d, "processing")
             /\ Changed(worker, worker', Workers, w, At("taken", d))
          \/ /\ task[d] # "pending" /\ UNCHANGED task
             /\ Changed(worker, worker', Workers, w, At("ack", d))
          \/ UNCHANGED task /\ Changed(worker, worker', Workers, w, At("idle", None))
      BY EntriesSame, <1>a, SMT DEF Changed, TypeOK, Loops, Take, Goto, Queue, Server, Requests,
         NoFault, Faults, At, Idle, Takeable
    <2>3. Entries' = Entries
      BY EntriesSame DEF Take, Goto, Queue, Server, Requests, NoFault, Faults, At, Idle,
         Takeable
    <2> QED BY <2>1, <2>2, <2>3
  <1>b. DocInv(d) /\ pdfs[d] \in Nat /\ task[d] \in TaskStatuses \union {None}
    BY Typed
  <1>2. TypeOK'
    <2>1. worker' \in [Workers -> Loops]
      BY <1>a, <1>1, SMT DEF TypeOK, Changed, Places, Loops, At
    <2>2. task' \in [Docs -> TaskStatuses \union {None}]
      BY <1>a, <1>1, SMT DEF TypeOK, Changed, TaskStatuses
    <2> QED BY <2>1, <2>2, SMT DEF TypeOK, Take, Goto, Queue, Server, Requests, NoFault, Faults,
       At, Idle, Takeable
  <1>3. HandInv'
    BY <1>a, <1>1 DEF HandInv, Changed, At
  <1>4. ASSUME NEW e \in Docs, e # d PROVE DocInv(e)'
    <2>1. Untouched(e)
      BY <1>a, <1>1, <1>4 DEF Untouched, Changed, At
    <2> QED BY <2>1, Frame
  <1>5. OnceAt(d)'
    BY <1>a, <1>b, <1>1, SMT DEF DocInv, OnceAt, TaskStatuses, BeforeAt, Unseen, RowAt, Busy,
       Changed, At
  <1>6. RowAt(d)'
    BY <1>a, <1>b, <1>1, SMT DEF DocInv, RowAt, TaskStatuses, OnceAt, BeforeAt, Busy, Changed,
       At
  <1>7. BeforeAt(d)'
    BY <1>a, <1>b, <1>1, SMT DEF DocInv, BeforeAt, TaskStatuses, Unseen, OnceAt, Busy, Changed,
       At
  <1>8. StoryAt(d)'
    BY <1>a, <1>b, <1>1, SMT DEF DocInv, StoryAt, TaskStatuses, Told, OnceAt, RowAt, BeforeAt,
       Unseen, Busy, Working, Changed, At
  <1>9. EntryAt(d)'
    BY <1>a, <1>b, <1>1, SMT DEF DocInv, EntryAt, TaskStatuses, OnceAt, BeforeAt, Unseen,
       QueueInv, Busy, Changed, At
  <1>10. QueueInv'
    BY <1>a, <1>b, <1>1, SMT DEF QueueInv, DocInv, BeforeAt, Unseen, OnceAt, Busy, HandInv,
       Changed, At
  <1> QED BY <1>2, <1>3, <1>4, <1>5, <1>6, <1>7, <1>8, <1>9, <1>10 DEF DocInv

LEMMA TakeNextKeeps ==
  ASSUME IInv, NEW w \in Workers, TakeNext(w)
  PROVE  IInv'
  <1> USE ConversionAssumption DEF IInv
  <1>a. worker[w].at = "idle" /\ worker[w].doc = None
    BY DEF HandInv, TakeNext
  <1>0. /\ broker = "database" /\ worker[w].at = "idle"
        /\ UNCHANGED <<upload, row, pdfs, stream, group, held, broker, slipped>>
        /\ Entries' = Entries
    BY EntriesSame, SMT DEF TakeNext, Queue, Server, Requests, NoFault, At, Takeable
  <1>1. PICK d \in Docs :
          /\ task[d] = "pending" /\ Changed(task, task', Docs, d, "processing")
          /\ Changed(worker, worker', Workers, w, At("taken", d))
    <2>1. PICK d \in Docs : /\ task[d] = "pending" /\ task' = [task EXCEPT ![d] = "processing"]
                            /\ worker' = [worker EXCEPT ![w] = At("taken", d)]
      BY DEF TakeNext, Takeable
    <2>2. worker \in [Workers -> Loops] /\ task \in [Docs -> TaskStatuses \union {None}]
      BY DEF TypeOK
    <2> QED BY <2>1, <2>2, ExceptChanged
  <1>b. DocInv(d) /\ pdfs[d] \in Nat /\ task[d] \in TaskStatuses \union {None}
    BY Typed
  <1>2. TypeOK'
    <2>1. worker' \in [Workers -> Loops]
      BY <1>0, <1>a, <1>1, SMT DEF TypeOK, Changed, Places, Loops, At
    <2>2. task' \in [Docs -> TaskStatuses \union {None}]
      BY <1>0, <1>a, <1>1, SMT DEF TypeOK, Changed, TaskStatuses
    <2> QED BY <2>1, <2>2, SMT DEF TypeOK, TakeNext, Queue, Server, Requests, NoFault, At,
       Takeable
  <1>3. HandInv'
    BY <1>0, <1>a, <1>1 DEF HandInv, Changed, At
  <1>4. ASSUME NEW e \in Docs, e # d PROVE DocInv(e)'
    <2>1. Untouched(e)
      BY <1>0, <1>a, <1>1, <1>4 DEF Untouched, Changed, At
    <2> QED BY <2>1, Frame
  <1>5. OnceAt(d)'
    BY <1>0, <1>a, <1>b, <1>1, SMT DEF DocInv, OnceAt, TaskStatuses, BeforeAt, Unseen, RowAt,
       Busy, Changed, At
  <1>6. RowAt(d)'
    BY <1>0, <1>a, <1>b, <1>1, SMT DEF DocInv, RowAt, TaskStatuses, OnceAt, BeforeAt, Busy,
       Changed, At
  <1>7. BeforeAt(d)'
    BY <1>0, <1>a, <1>b, <1>1, SMT DEF DocInv, BeforeAt, TaskStatuses, Unseen, OnceAt, Busy,
       Changed, At
  <1>8. StoryAt(d)'
    BY <1>0, <1>a, <1>b, <1>1, SMT DEF DocInv, StoryAt, TaskStatuses, Told, OnceAt, RowAt,
       BeforeAt, Unseen, Busy, Working, Changed, At
  <1>9. EntryAt(d)'
    BY <1>0, <1>a, <1>b, <1>1, SMT DEF DocInv, EntryAt, TaskStatuses, OnceAt, BeforeAt, Unseen,
       QueueInv, Busy, Changed, At
  <1>10. QueueInv'
    BY <1>0, <1>a, <1>b, <1>1, SMT DEF QueueInv, DocInv, BeforeAt, Unseen, OnceAt, Busy,
       HandInv, Changed, At
  <1> QED BY <1>2, <1>3, <1>4, <1>5, <1>6, <1>7, <1>8, <1>9, <1>10 DEF DocInv

LEMMA GenerateKeeps ==
  ASSUME IInv, NEW w \in Workers, Generate(w)
  PROVE  IInv'
  <1> USE ConversionAssumption DEF IInv
  <1>a. PICK d \in Docs : worker[w].doc = d /\ worker[w].at # "idle" /\ held[w] \in {None, d}
    BY DEF HandInv, Generate
  <1>1. /\ worker[w].at = "taken" /\ UNCHANGED <<upload, row, pdfs, task, stream, group, held, broker>>
        /\ \/ /\ \E place \in {"making", "fail"} : Changed(worker, worker', Workers, w, At(place, d))
              /\ UNCHANGED slipped
           \/ slipped' = slipped \union {d} /\ Changed(worker, worker', Workers, w, At("failTask", d))
        /\ Entries' = Entries
    <2>1. worker[w].at = "taken" /\ UNCHANGED <<upload, row, pdfs, task, stream, group, held, broker>>
      BY EntriesSame, <1>a, SMT DEF TypeOK, Loops, Previews, Generate, Goto, Tasks, Queue,
         Server, Requests, NoFault, Faults, Slips
    <2>2. \/ /\ \E place \in {"making", "fail"} : Changed(worker, worker', Workers, w, At(place, d))
             /\ UNCHANGED slipped
          \/ slipped' = slipped \union {d} /\ Changed(worker, worker', Workers, w, At("failTask", d))
      BY EntriesSame, <1>a, SMT DEF Changed, TypeOK, Loops, Previews, Generate, Goto, Tasks,
         Queue, Server, Requests, NoFault, Faults, Slips, At
    <2>3. Entries' = Entries
      BY EntriesSame DEF Generate, Goto, Tasks, Queue, Server, Requests, NoFault, Faults, Slips
    <2> QED BY <2>1, <2>2, <2>3
  <1>b. DocInv(d) /\ pdfs[d] \in Nat /\ task[d] \in TaskStatuses \union {None}
    BY Typed
  <1>2. TypeOK'
    <2>1. worker' \in [Workers -> Loops]
      BY <1>a, <1>1, SMT DEF TypeOK, Changed, Places, Loops, At
    <2>2. slipped' \subseteq Docs
      BY <1>a, <1>1, SMT DEF TypeOK, Changed, Uploads, Places, Loops, Previews, TaskStatuses,
         At, Row
    <2> QED BY <2>1, <2>2, SMT DEF TypeOK, Generate, Goto, Tasks, Queue, Server, Requests,
       NoFault, Faults, Slips
  <1>3. HandInv'
    BY <1>a, <1>1 DEF HandInv, Changed, At
  <1>4. ASSUME NEW e \in Docs, e # d PROVE DocInv(e)'
    <2>1. Untouched(e)
      BY <1>a, <1>1, <1>4 DEF Untouched, Changed, At
    <2> QED BY <2>1, Frame
  <1>5. OnceAt(d)'
    BY <1>a, <1>b, <1>1, SMT DEF DocInv, OnceAt, TaskStatuses, BeforeAt, Unseen, RowAt, Busy,
       Changed, At
  <1>6. RowAt(d)'
    BY <1>a, <1>b, <1>1, SMT DEF DocInv, RowAt, TaskStatuses, OnceAt, BeforeAt, Busy, Changed,
       At
  <1>7. BeforeAt(d)'
    BY <1>a, <1>b, <1>1, SMT DEF DocInv, BeforeAt, TaskStatuses, Unseen, OnceAt, Busy, Changed,
       At
  <1>8. StoryAt(d)'
    BY <1>a, <1>b, <1>1, SMT DEF DocInv, StoryAt, TaskStatuses, Told, OnceAt, RowAt, BeforeAt,
       Unseen, Busy, Working, Changed, At
  <1>9. EntryAt(d)'
    BY <1>a, <1>b, <1>1, SMT DEF DocInv, EntryAt, TaskStatuses, OnceAt, BeforeAt, Unseen,
       QueueInv, Busy, Changed, At
  <1>10. QueueInv'
    BY <1>a, <1>b, <1>1, SMT DEF QueueInv, DocInv, BeforeAt, Unseen, OnceAt, Busy, HandInv,
       Changed, At
  <1> QED BY <1>2, <1>3, <1>4, <1>5, <1>6, <1>7, <1>8, <1>9, <1>10 DEF DocInv

LEMMA CreateDerivedKeeps ==
  ASSUME IInv, NEW w \in Workers, CreateDerived(w)
  PROVE  IInv'
  <1> USE ConversionAssumption DEF IInv
  <1>a. PICK d \in Docs : worker[w].doc = d /\ worker[w].at # "idle" /\ held[w] \in {None, d}
    BY DEF HandInv, CreateDerived
  <1>1. /\ worker[w].at = "making" /\ UNCHANGED <<upload, row, task, stream, group, held, broker, slipped>>
        /\ \/ /\ Changed(pdfs, pdfs', Docs, d, pdfs[d] + 1)
              /\ Changed(worker, worker', Workers, w, At("linking", d))
           \/ UNCHANGED pdfs /\ Changed(worker, worker', Workers, w, At("fail", d))
        /\ Entries' = Entries
    <2>1. worker[w].at = "making" /\ UNCHANGED <<upload, row, task, stream, group, held, broker, slipped>>
      BY EntriesSame, <1>a, SMT DEF TypeOK, Loops, Previews, CreateDerived, Goto, Queue, Server,
         Requests, NoFault, Faults
    <2>2. \/ /\ Changed(pdfs, pdfs', Docs, d, pdfs[d] + 1)
             /\ Changed(worker, worker', Workers, w, At("linking", d))
          \/ UNCHANGED pdfs /\ Changed(worker, worker', Workers, w, At("fail", d))
      BY EntriesSame, <1>a, SMT DEF Changed, TypeOK, Loops, CreateDerived, Goto, Queue, Server,
         Requests, NoFault, Faults, At
    <2>3. Entries' = Entries
      BY EntriesSame DEF CreateDerived, Goto, Queue, Server, Requests, NoFault, Faults
    <2> QED BY <2>1, <2>2, <2>3
  <1>b. DocInv(d) /\ pdfs[d] \in Nat /\ task[d] \in TaskStatuses \union {None}
    BY Typed
  <1>2. TypeOK'
    <2>1. worker' \in [Workers -> Loops]
      BY <1>a, <1>1, SMT DEF TypeOK, Changed, Places, Loops, At
    <2>2. pdfs' \in [Docs -> Nat]
      <3>1. pdfs \in [Docs -> Nat]
        BY DEF TypeOK
      <3> QED BY <1>b, <1>1, <3>1 DEF Changed
    <2>3. \A e \in Docs : row'[e] # None => row'[e].link <= pdfs'[e]
      <3> SUFFICES ASSUME NEW e \in Docs, row[e] # None PROVE row[e].link <= pdfs'[e]
        BY <1>1
      <3>1. row[e].link <= pdfs[e] /\ row[e].link \in Nat /\ pdfs[e] \in Nat
        BY DEF TypeOK
      <3>2. pdfs'[e] = pdfs[e] \/ pdfs'[e] = pdfs[e] + 1
        BY <1>1 DEF Changed, TypeOK
      <3> QED BY <3>1, <3>2
    <2> QED BY <2>1, <2>2, <2>3, SMT DEF TypeOK, CreateDerived, Goto, Queue, Server, Requests,
       NoFault, Faults
  <1>3. HandInv'
    BY <1>a, <1>1 DEF HandInv, Changed, At
  <1>4. ASSUME NEW e \in Docs, e # d PROVE DocInv(e)'
    <2>1. Untouched(e)
      BY <1>a, <1>1, <1>4 DEF Untouched, Changed, At
    <2> QED BY <2>1, Frame
  <1>5. OnceAt(d)'
    BY <1>a, <1>b, <1>1, SMT DEF DocInv, OnceAt, TaskStatuses, BeforeAt, Unseen, RowAt, Busy,
       Changed, At
  <1>6. RowAt(d)'
    BY <1>a, <1>b, <1>1, SMT DEF DocInv, RowAt, TaskStatuses, OnceAt, BeforeAt, Busy, Changed,
       At
  <1>7. BeforeAt(d)'
    BY <1>a, <1>b, <1>1, SMT DEF DocInv, BeforeAt, TaskStatuses, Unseen, OnceAt, Busy, Changed,
       At
  <1>8. StoryAt(d)'
    BY <1>a, <1>b, <1>1, SMT DEF DocInv, StoryAt, TaskStatuses, Told, OnceAt, RowAt, BeforeAt,
       Unseen, Busy, Working, Changed, At
  <1>9. EntryAt(d)'
    BY <1>a, <1>b, <1>1, SMT DEF DocInv, EntryAt, TaskStatuses, OnceAt, BeforeAt, Unseen,
       QueueInv, Busy, Changed, At
  <1>10. QueueInv'
    BY <1>a, <1>b, <1>1, SMT DEF QueueInv, DocInv, BeforeAt, Unseen, OnceAt, Busy, HandInv,
       Changed, At
  <1> QED BY <1>2, <1>3, <1>4, <1>5, <1>6, <1>7, <1>8, <1>9, <1>10 DEF DocInv

LEMMA LinkDerivedKeeps ==
  ASSUME IInv, NEW w \in Workers, LinkDerived(w)
  PROVE  IInv'
  <1> USE ConversionAssumption DEF IInv
  <1>a. PICK d \in Docs : worker[w].doc = d /\ worker[w].at # "idle" /\ held[w] \in {None, d}
    BY DEF HandInv, LinkDerived
  <1>1. /\ worker[w].at = "linking" /\ UNCHANGED <<upload, pdfs, task, stream, group, held, broker, slipped>>
        /\ \/ /\ Changed(row, row', Docs, d, Row("ready", pdfs[d]))
              /\ Changed(worker, worker', Workers, w, At("finishing", d))
           \/ UNCHANGED row /\ Changed(worker, worker', Workers, w, At("fail", d))
        /\ Entries' = Entries
    <2>1. worker[w].at = "linking" /\ UNCHANGED <<upload, pdfs, task, stream, group, held, broker, slipped>>
      BY EntriesSame, <1>a, SMT DEF TypeOK, Loops, LinkDerived, Goto, Queue, Server, Requests,
         NoFault, Faults, Row
    <2>2. \/ /\ Changed(row, row', Docs, d, Row("ready", pdfs[d]))
             /\ Changed(worker, worker', Workers, w, At("finishing", d))
          \/ UNCHANGED row /\ Changed(worker, worker', Workers, w, At("fail", d))
      BY EntriesSame, <1>a, SMT DEF Changed, TypeOK, Loops, Previews, LinkDerived, Goto, Queue,
         Server, Requests, NoFault, Faults, At, Row
    <2>3. Entries' = Entries
      BY EntriesSame DEF LinkDerived, Goto, Queue, Server, Requests, NoFault, Faults, Row
    <2> QED BY <2>1, <2>2, <2>3
  <1>b. DocInv(d) /\ pdfs[d] \in Nat /\ task[d] \in TaskStatuses \union {None}
    BY Typed
  <1>c. /\ "processing" \in Previews /\ "ready" \in Previews /\ "failed" \in Previews
        /\ 0 \in Nat /\ 1 \in Nat
        /\ \A p \in Previews, n \in Nat : Row(p, n) # None /\ Row(p, n).preview = p /\ Row(p, n).link = n
    BY RowReal DEF Previews
  <1>2. TypeOK'
    <2>1. worker' \in [Workers -> Loops]
      BY <1>a, <1>1, SMT DEF TypeOK, Changed, Places, Loops, At
    <2>2. row' \in [Docs -> [preview : Previews, link : Nat] \union {None}]
      BY <1>a, <1>1, SMT DEF TypeOK, Changed, Previews, Row
    <2>3. \A e \in Docs : row'[e] # None => row'[e].link <= pdfs'[e]
      BY <1>a, <1>1, SMT DEF TypeOK, Changed, Row
    <2> QED BY <2>1, <2>2, <2>3, SMT DEF TypeOK, LinkDerived, Goto, Queue, Server, Requests,
       NoFault, Faults, Row
  <1>3. HandInv'
    BY <1>a, <1>1 DEF HandInv, Changed, At
  <1>4. ASSUME NEW e \in Docs, e # d PROVE DocInv(e)'
    <2>1. Untouched(e)
      BY <1>a, <1>1, <1>4 DEF Untouched, Changed, At
    <2> QED BY <2>1, Frame
  <1>5. OnceAt(d)'
    BY <1>a, <1>b, <1>c, <1>1, SMT DEF DocInv, OnceAt, TaskStatuses, BeforeAt, Unseen, RowAt,
       Busy, Changed, At
  <1>6. RowAt(d)'
    BY <1>a, <1>b, <1>c, <1>1, SMT DEF DocInv, RowAt, TaskStatuses, OnceAt, BeforeAt, Busy,
       Changed, At
  <1>7. BeforeAt(d)'
    BY <1>a, <1>b, <1>c, <1>1, SMT DEF DocInv, BeforeAt, TaskStatuses, Unseen, OnceAt, Busy,
       Changed, At
  <1>8. StoryAt(d)'
    BY <1>a, <1>b, <1>c, <1>1, SMT DEF DocInv, StoryAt, TaskStatuses, Told, OnceAt, RowAt,
       BeforeAt, Unseen, Busy, Working, Changed, At
  <1>9. EntryAt(d)'
    BY <1>a, <1>b, <1>c, <1>1, SMT DEF DocInv, EntryAt, TaskStatuses, OnceAt, BeforeAt, Unseen,
       QueueInv, Busy, Changed, At
  <1>10. QueueInv'
    BY <1>a, <1>b, <1>c, <1>1, SMT DEF QueueInv, DocInv, BeforeAt, Unseen, OnceAt, Busy,
       HandInv, Changed, At
  <1> QED BY <1>2, <1>3, <1>4, <1>5, <1>6, <1>7, <1>8, <1>9, <1>10 DEF DocInv

LEMMA SetCompletedKeeps ==
  ASSUME IInv, NEW w \in Workers, SetCompleted(w)
  PROVE  IInv'
  <1> USE ConversionAssumption DEF IInv
  <1>a. PICK d \in Docs : worker[w].doc = d /\ worker[w].at # "idle" /\ held[w] \in {None, d}
    BY DEF HandInv, SetCompleted, Finish
  <1>1. /\ worker[w].at = "finishing" /\ UNCHANGED <<upload, row, pdfs, stream, group, held, broker>>
        /\ \/ Changed(worker, worker', Workers, w, At("ack", d))
           \/ Changed(worker, worker', Workers, w, At("idle", None))
        /\ \/ Changed(task, task', Docs, d, "completed") /\ UNCHANGED slipped
           \/ slipped' = slipped \union {d} /\ UNCHANGED task
        /\ Entries' = Entries
    <2>1. worker[w].at = "finishing" /\ UNCHANGED <<upload, row, pdfs, stream, group, held, broker>>
      BY EntriesSame, <1>a, SMT DEF TypeOK, Loops, Previews, SetCompleted, Finish, Queue,
         Server, Requests, NoFault, Faults, Slips, At, Idle
    <2>2. \/ Changed(worker, worker', Workers, w, At("ack", d))
          \/ Changed(worker, worker', Workers, w, At("idle", None))
      <3>1. worker \in [Workers -> Loops]
        BY DEF TypeOK
      <3>2. \/ worker' = [worker EXCEPT ![w] = At("ack", d)]
            \/ worker' = [worker EXCEPT ![w] = At("idle", None)]
        BY <1>a DEF SetCompleted, Finish, Idle
      <3> QED BY <3>1, <3>2, ExceptChanged
    <2>3. \/ Changed(task, task', Docs, d, "completed") /\ UNCHANGED slipped
          \/ slipped' = slipped \union {d} /\ UNCHANGED task
      BY EntriesSame, <1>a, SMT DEF Changed, TypeOK, Loops, SetCompleted, Finish, Queue, Server,
         Requests, NoFault, Faults, Slips, At, Idle
    <2>4. Entries' = Entries
      BY EntriesSame DEF SetCompleted, Finish, Queue, Server, Requests, NoFault, Faults, Slips,
         At, Idle
    <2> QED BY <2>1, <2>2, <2>3, <2>4
  <1>b. DocInv(d) /\ pdfs[d] \in Nat /\ task[d] \in TaskStatuses \union {None}
    BY Typed
  <1>2. TypeOK'
    <2>1. worker' \in [Workers -> Loops]
      BY <1>a, <1>1, SMT DEF TypeOK, Changed, Places, Loops, At
    <2>2. task' \in [Docs -> TaskStatuses \union {None}]
      BY <1>a, <1>1, SMT DEF TypeOK, Changed, TaskStatuses
    <2>3. slipped' \subseteq Docs
      BY <1>a, <1>1, SMT DEF TypeOK, Changed, Uploads, Places, Loops, Previews, TaskStatuses,
         At, Row
    <2> QED BY <2>1, <2>2, <2>3, SMT DEF TypeOK, SetCompleted, Finish, Queue, Server, Requests,
       NoFault, Faults, Slips, At, Idle
  <1>3. HandInv'
    BY <1>a, <1>1 DEF HandInv, Changed, At
  <1>4. ASSUME NEW e \in Docs, e # d PROVE DocInv(e)'
    <2>1. Untouched(e)
      BY <1>a, <1>1, <1>4 DEF Untouched, Changed, At
    <2> QED BY <2>1, Frame
  <1>5. OnceAt(d)'
    BY <1>a, <1>b, <1>1, SMT DEF DocInv, OnceAt, TaskStatuses, BeforeAt, Unseen, RowAt, Busy,
       Changed, At
  <1>6. RowAt(d)'
    BY <1>a, <1>b, <1>1, SMT DEF DocInv, RowAt, TaskStatuses, OnceAt, BeforeAt, Busy, Changed,
       At
  <1>7. BeforeAt(d)'
    BY <1>a, <1>b, <1>1, SMT DEF DocInv, BeforeAt, TaskStatuses, Unseen, OnceAt, Busy, Changed,
       At
  <1>8. StoryAt(d)'
    BY <1>a, <1>b, <1>1, SMT DEF DocInv, StoryAt, TaskStatuses, Told, OnceAt, RowAt, BeforeAt,
       Unseen, Busy, Working, Changed, At
  <1>9. EntryAt(d)'
    BY <1>a, <1>b, <1>1, SMT DEF DocInv, EntryAt, TaskStatuses, OnceAt, BeforeAt, Unseen,
       QueueInv, Busy, Changed, At
  <1>10. QueueInv'
    BY <1>a, <1>b, <1>1, SMT DEF QueueInv, DocInv, BeforeAt, Unseen, OnceAt, Busy, HandInv,
       Changed, At
  <1> QED BY <1>2, <1>3, <1>4, <1>5, <1>6, <1>7, <1>8, <1>9, <1>10 DEF DocInv

LEMMA MarkFailedKeeps ==
  ASSUME IInv, NEW w \in Workers, MarkFailed(w)
  PROVE  IInv'
  <1> USE ConversionAssumption DEF IInv
  <1>a. PICK d \in Docs : worker[w].doc = d /\ worker[w].at # "idle" /\ held[w] \in {None, d}
    BY DEF HandInv, MarkFailed
  <1>1. /\ worker[w].at = "fail"
        /\ Changed(worker, worker', Workers, w, At("failTask", d))
        /\ UNCHANGED <<upload, pdfs, task, stream, group, held, broker>>
        /\ \/ Changed(row, row', Docs, d, Row("failed", 0)) /\ UNCHANGED slipped
           \/ slipped' = slipped \union {d} /\ UNCHANGED row
        /\ Entries' = Entries
    <2>1. worker[w].at = "fail"
      BY EntriesSame, <1>a, SMT DEF TypeOK, Loops, MarkFailed, Goto, Queue, Server, Requests,
         NoFault, Faults, Slips, Row
    <2>2. Changed(worker, worker', Workers, w, At("failTask", d))
      BY <1>a, GotoChanged DEF MarkFailed
    <2>3. UNCHANGED <<upload, pdfs, task, stream, group, held, broker>>
      BY EntriesSame, <1>a, SMT DEF TypeOK, Loops, MarkFailed, Goto, Queue, Server, Requests,
         NoFault, Faults, Slips, Row
    <2>4. \/ Changed(row, row', Docs, d, Row("failed", 0)) /\ UNCHANGED slipped
          \/ slipped' = slipped \union {d} /\ UNCHANGED row
      BY EntriesSame, <1>a, SMT DEF Changed, TypeOK, Loops, Previews, MarkFailed, Goto, Queue,
         Server, Requests, NoFault, Faults, Slips, Row
    <2>5. Entries' = Entries
      BY EntriesSame DEF MarkFailed, Goto, Queue, Server, Requests, NoFault, Faults, Slips, Row
    <2> QED BY <2>1, <2>2, <2>3, <2>4, <2>5
  <1>b. DocInv(d) /\ pdfs[d] \in Nat /\ task[d] \in TaskStatuses \union {None}
    BY Typed
  <1>c. /\ "processing" \in Previews /\ "ready" \in Previews /\ "failed" \in Previews
        /\ 0 \in Nat /\ 1 \in Nat
        /\ \A p \in Previews, n \in Nat : Row(p, n) # None /\ Row(p, n).preview = p /\ Row(p, n).link = n
    BY RowReal DEF Previews
  <1>2. TypeOK'
    <2>1. worker' \in [Workers -> Loops]
      BY <1>a, <1>1, SMT DEF TypeOK, Changed, Places, Loops, At
    <2>2. row' \in [Docs -> [preview : Previews, link : Nat] \union {None}]
      BY <1>a, <1>1, SMT DEF TypeOK, Changed, Previews, Row
    <2>3. slipped' \subseteq Docs
      BY <1>a, <1>1, SMT DEF TypeOK, Changed, Uploads, Places, Loops, Previews, TaskStatuses,
         At, Row
    <2>4. \A e \in Docs : row'[e] # None => row'[e].link <= pdfs'[e]
      BY <1>a, <1>1, SMT DEF TypeOK, Changed, Row
    <2> QED BY <2>1, <2>2, <2>3, <2>4, SMT DEF TypeOK, MarkFailed, Goto, Queue, Server,
       Requests, NoFault, Faults, Slips, Row
  <1>3. HandInv'
    BY <1>a, <1>1 DEF HandInv, Changed, At
  <1>4. ASSUME NEW e \in Docs, e # d PROVE DocInv(e)'
    <2>1. Untouched(e)
      BY <1>a, <1>1, <1>4 DEF Untouched, Changed, At
    <2> QED BY <2>1, Frame
  <1>5. OnceAt(d)'
    BY <1>a, <1>b, <1>c, <1>1, SMT DEF DocInv, OnceAt, TaskStatuses, BeforeAt, Unseen, RowAt,
       Busy, Changed, At
  <1>6. RowAt(d)'
    BY <1>a, <1>b, <1>c, <1>1, SMT DEF DocInv, RowAt, TaskStatuses, OnceAt, BeforeAt, Busy,
       Changed, At
  <1>7. BeforeAt(d)'
    BY <1>a, <1>b, <1>c, <1>1, SMT DEF DocInv, BeforeAt, TaskStatuses, Unseen, OnceAt, Busy,
       Changed, At
  <1>8. StoryAt(d)'
    BY <1>a, <1>b, <1>c, <1>1, SMT DEF DocInv, StoryAt, TaskStatuses, Told, OnceAt, RowAt,
       BeforeAt, Unseen, Busy, Working, Changed, At
  <1>9. EntryAt(d)'
    BY <1>a, <1>b, <1>c, <1>1, SMT DEF DocInv, EntryAt, TaskStatuses, OnceAt, BeforeAt, Unseen,
       QueueInv, Busy, Changed, At
  <1>10. QueueInv'
    BY <1>a, <1>b, <1>c, <1>1, SMT DEF QueueInv, DocInv, BeforeAt, Unseen, OnceAt, Busy,
       HandInv, Changed, At
  <1> QED BY <1>2, <1>3, <1>4, <1>5, <1>6, <1>7, <1>8, <1>9, <1>10 DEF DocInv

LEMMA SetFailedKeeps ==
  ASSUME IInv, NEW w \in Workers, SetFailed(w)
  PROVE  IInv'
  <1> USE ConversionAssumption DEF IInv
  <1>a. PICK d \in Docs : worker[w].doc = d /\ worker[w].at # "idle" /\ held[w] \in {None, d}
    BY DEF HandInv, SetFailed, Finish
  <1>1. /\ worker[w].at = "failTask" /\ UNCHANGED <<upload, row, pdfs, stream, group, held, broker>>
        /\ \/ Changed(worker, worker', Workers, w, At("ack", d))
           \/ Changed(worker, worker', Workers, w, At("idle", None))
        /\ \/ Changed(task, task', Docs, d, "failed") /\ UNCHANGED slipped
           \/ slipped' = slipped \union {d} /\ UNCHANGED task
        /\ Entries' = Entries
    <2>1. worker[w].at = "failTask" /\ UNCHANGED <<upload, row, pdfs, stream, group, held, broker>>
      BY EntriesSame, <1>a, SMT DEF TypeOK, Loops, Previews, SetFailed, Finish, Queue, Server,
         Requests, NoFault, Faults, Slips, At, Idle
    <2>2. \/ Changed(worker, worker', Workers, w, At("ack", d))
          \/ Changed(worker, worker', Workers, w, At("idle", None))
      <3>1. worker \in [Workers -> Loops]
        BY DEF TypeOK
      <3>2. \/ worker' = [worker EXCEPT ![w] = At("ack", d)]
            \/ worker' = [worker EXCEPT ![w] = At("idle", None)]
        BY <1>a DEF SetFailed, Finish, Idle
      <3> QED BY <3>1, <3>2, ExceptChanged
    <2>3. \/ Changed(task, task', Docs, d, "failed") /\ UNCHANGED slipped
          \/ slipped' = slipped \union {d} /\ UNCHANGED task
      BY EntriesSame, <1>a, SMT DEF Changed, TypeOK, Loops, SetFailed, Finish, Queue, Server,
         Requests, NoFault, Faults, Slips, At, Idle
    <2>4. Entries' = Entries
      BY EntriesSame DEF SetFailed, Finish, Queue, Server, Requests, NoFault, Faults, Slips, At,
         Idle
    <2> QED BY <2>1, <2>2, <2>3, <2>4
  <1>b. DocInv(d) /\ pdfs[d] \in Nat /\ task[d] \in TaskStatuses \union {None}
    BY Typed
  <1>2. TypeOK'
    <2>1. worker' \in [Workers -> Loops]
      BY <1>a, <1>1, SMT DEF TypeOK, Changed, Places, Loops, At
    <2>2. task' \in [Docs -> TaskStatuses \union {None}]
      BY <1>a, <1>1, SMT DEF TypeOK, Changed, TaskStatuses
    <2>3. slipped' \subseteq Docs
      BY <1>a, <1>1, SMT DEF TypeOK, Changed, Uploads, Places, Loops, Previews, TaskStatuses,
         At, Row
    <2> QED BY <2>1, <2>2, <2>3, SMT DEF TypeOK, SetFailed, Finish, Queue, Server, Requests,
       NoFault, Faults, Slips, At, Idle
  <1>3. HandInv'
    BY <1>a, <1>1 DEF HandInv, Changed, At
  <1>4. ASSUME NEW e \in Docs, e # d PROVE DocInv(e)'
    <2>1. Untouched(e)
      BY <1>a, <1>1, <1>4 DEF Untouched, Changed, At
    <2> QED BY <2>1, Frame
  <1>5. OnceAt(d)'
    BY <1>a, <1>b, <1>1, SMT DEF DocInv, OnceAt, TaskStatuses, BeforeAt, Unseen, RowAt, Busy,
       Changed, At
  <1>6. RowAt(d)'
    BY <1>a, <1>b, <1>1, SMT DEF DocInv, RowAt, TaskStatuses, OnceAt, BeforeAt, Busy, Changed,
       At
  <1>7. BeforeAt(d)'
    BY <1>a, <1>b, <1>1, SMT DEF DocInv, BeforeAt, TaskStatuses, Unseen, OnceAt, Busy, Changed,
       At
  <1>8. StoryAt(d)'
    BY <1>a, <1>b, <1>1, SMT DEF DocInv, StoryAt, TaskStatuses, Told, OnceAt, RowAt, BeforeAt,
       Unseen, Busy, Working, Changed, At
  <1>9. EntryAt(d)'
    BY <1>a, <1>b, <1>1, SMT DEF DocInv, EntryAt, TaskStatuses, OnceAt, BeforeAt, Unseen,
       QueueInv, Busy, Changed, At
  <1>10. QueueInv'
    BY <1>a, <1>b, <1>1, SMT DEF QueueInv, DocInv, BeforeAt, Unseen, OnceAt, Busy, HandInv,
       Changed, At
  <1> QED BY <1>2, <1>3, <1>4, <1>5, <1>6, <1>7, <1>8, <1>9, <1>10 DEF DocInv

LEMMA AcknowledgeKeeps ==
  ASSUME IInv, NEW w \in Workers, Acknowledge(w)
  PROVE  IInv'
  <1> USE ConversionAssumption DEF IInv
  <1>a. PICK d \in Docs : worker[w].doc = d /\ worker[w].at # "idle" /\ held[w] \in {None, d}
    BY DEF HandInv, Acknowledge
  <1>1. /\ worker[w].at = "ack"
        /\ Changed(worker, worker', Workers, w, At("idle", None))
        /\ UNCHANGED <<upload, row, pdfs, task, stream, group, broker, slipped>>
        /\ UNCHANGED held \/ Changed(held, held', Workers, w, None)
        /\ Entries' = Entries
    <2>1. worker[w].at = "ack"
      BY EntriesSame, <1>a, SMT DEF TypeOK, Loops, Acknowledge, Tasks, Server, Requests,
         NoFault, Faults, At, Idle
    <2>2. Changed(worker, worker', Workers, w, At("idle", None))
      <3>1. worker \in [Workers -> Loops] /\ worker' = [worker EXCEPT ![w] = At("idle", None)]
        BY DEF TypeOK, Acknowledge, Idle
      <3> QED BY <3>1, ExceptChanged
    <2>3. UNCHANGED <<upload, row, pdfs, task, stream, group, broker, slipped>>
      BY EntriesSame, <1>a, SMT DEF TypeOK, Loops, Previews, Acknowledge, Tasks, Server,
         Requests, NoFault, Faults, At, Idle
    <2>4. UNCHANGED held \/ Changed(held, held', Workers, w, None)
      BY EntriesSame, <1>a, SMT DEF Changed, TypeOK, Loops, Acknowledge, Tasks, Server,
         Requests, NoFault, Faults, At, Idle
    <2>5. Entries' = Entries
      BY EntriesSame DEF Acknowledge, Tasks, Server, Requests, NoFault, Faults, At, Idle
    <2> QED BY <2>1, <2>2, <2>3, <2>4, <2>5
  <1>b. DocInv(d) /\ pdfs[d] \in Nat /\ task[d] \in TaskStatuses \union {None}
    BY Typed
  <1>2. TypeOK'
    <2>1. worker' \in [Workers -> Loops]
      BY <1>a, <1>1, SMT DEF TypeOK, Changed, Places, Loops, At
    <2>2. held' \in [Workers -> Docs \union {None}]
      BY <1>a, <1>1, SMT DEF TypeOK, Changed
    <2> QED BY <2>1, <2>2, SMT DEF TypeOK, Acknowledge, Tasks, Server, Requests, NoFault,
       Faults, At, Idle
  <1>3. HandInv'
    BY <1>a, <1>1 DEF HandInv, Changed, At
  <1>4. ASSUME NEW e \in Docs, e # d PROVE DocInv(e)'
    <2>1. Untouched(e)
      BY <1>a, <1>1, <1>4 DEF Untouched, Changed, At
    <2> QED BY <2>1, Frame
  <1>5. OnceAt(d)'
    BY <1>a, <1>b, <1>1, SMT DEF DocInv, OnceAt, TaskStatuses, BeforeAt, Unseen, RowAt, Busy,
       Changed, At
  <1>6. RowAt(d)'
    BY <1>a, <1>b, <1>1, SMT DEF DocInv, RowAt, TaskStatuses, OnceAt, BeforeAt, Busy, Changed,
       At
  <1>7. BeforeAt(d)'
    BY <1>a, <1>b, <1>1, SMT DEF DocInv, BeforeAt, TaskStatuses, Unseen, OnceAt, Busy, Changed,
       At
  <1>8. StoryAt(d)'
    BY <1>a, <1>b, <1>1, SMT DEF DocInv, StoryAt, TaskStatuses, Told, OnceAt, RowAt, BeforeAt,
       Unseen, Busy, Working, Changed, At
  <1>9. EntryAt(d)'
    BY <1>a, <1>b, <1>1, SMT DEF DocInv, EntryAt, TaskStatuses, OnceAt, BeforeAt, Unseen,
       QueueInv, Busy, Changed, At
  <1>10. QueueInv'
    BY <1>a, <1>b, <1>1, SMT DEF QueueInv, DocInv, BeforeAt, Unseen, OnceAt, Busy, HandInv,
       Changed, At
  <1> QED BY <1>2, <1>3, <1>4, <1>5, <1>6, <1>7, <1>8, <1>9, <1>10 DEF DocInv

LEMMA CrashKeeps ==
  ASSUME IInv, Crash
  PROVE  IInv'
  <1> USE ConversionAssumption DEF IInv
  <1>1. /\ \A d \in Docs : upload'[d] = IF upload[d] = "new" THEN "new" ELSE "over"
        /\ \A w \in Workers : worker'[w] = At("idle", None)
        /\ UNCHANGED <<row, pdfs, task, stream, group, held, broker>> /\ slipped \subseteq slipped'
        /\ \A d \in Docs : d \in slipped' \/ (upload[d] \in {"new", "over"} /\ \A w \in Workers : ~ Busy(w, d))
        /\ Entries' = Entries
    <2>1. \A d \in Docs : upload'[d] = IF upload[d] = "new" THEN "new" ELSE "over"
      BY EntriesSame, SMT DEF TypeOK, Loops, Crash, Exit, Uploading, Working, Busy, Uploads,
         Tasks, Queue, Faults, At, Idle
    <2>2. \A w \in Workers : worker'[w] = At("idle", None)
      BY EntriesSame, SMT DEF TypeOK, Loops, Crash, Exit, Uploading, Working, Busy, Uploads,
         Tasks, Queue, Faults, At, Idle
    <2>3. UNCHANGED <<row, pdfs, task, stream, group, held, broker>> /\ slipped \subseteq slipped'
      BY EntriesSame, SMT DEF TypeOK, Loops, Previews, Crash, Exit, Uploading, Working, Busy,
         Uploads, Tasks, Queue, Faults, At, Idle
    <2>4. \A d \in Docs : d \in slipped' \/ (upload[d] \in {"new", "over"} /\ \A w \in Workers : ~ Busy(w, d))
      <3> SUFFICES ASSUME NEW d \in Docs, d \notin slipped'
                   PROVE  upload[d] \in {"new", "over"} /\ \A w \in Workers : ~ Busy(w, d)
        OBVIOUS
      <3>1. ~ Working(d) /\ ~ Uploading(d)
        BY DEF Crash
      <3>2. upload[d] \in Uploads
        BY Typed
      <3> QED BY <3>1, <3>2 DEF Working, Busy, Uploading, Uploads
    <2>5. Entries' = Entries
      BY EntriesSame DEF Crash, Exit, Uploading, Working, Busy, Uploads, Tasks, Queue, Faults,
         At, Idle
    <2> QED BY <2>1, <2>2, <2>3, <2>4, <2>5
  <1>2. TypeOK'
    <2>1. upload' \in [Docs -> Uploads]
      BY SMT DEF TypeOK, Uploads, Places, Loops, Crash, Exit, Uploading, Working, Busy, Tasks,
         Queue, Faults, At, Idle
    <2>2. worker' \in [Workers -> Loops]
      BY SMT DEF TypeOK, Uploads, Places, Loops, Crash, Exit, Uploading, Working, Busy, Tasks,
         Queue, Faults, At, Idle
    <2>3. slipped' \subseteq Docs
      BY SMT DEF TypeOK, Uploads, Places, Loops, Crash, Exit, Uploading, Working, Busy, Tasks,
         Queue, Faults, At, Idle
    <2> QED BY <2>1, <2>2, <2>3, SMT DEF TypeOK, Crash, Exit, Uploading, Working, Busy, Uploads,
       Tasks, Queue, Faults, At, Idle
  <1>3. HandInv'
    BY <1>1 DEF HandInv, Changed, At
  <1>4. ASSUME NEW d \in Docs PROVE DocInv(d)'
    <2>5. OnceAt(d)'
      BY <1>1, SMT DEF DocInv, OnceAt, TaskStatuses, BeforeAt, Unseen, RowAt, Busy, Changed, At
    <2>6. RowAt(d)'
      BY <1>1, SMT DEF DocInv, RowAt, TaskStatuses, OnceAt, BeforeAt, Busy, Changed, At
    <2>7. BeforeAt(d)'
      BY <1>1, SMT DEF DocInv, BeforeAt, TaskStatuses, Unseen, OnceAt, Busy, Changed, At
    <2>8. StoryAt(d)'
      BY <1>1, SMT DEF DocInv, StoryAt, TaskStatuses, Told, OnceAt, RowAt, BeforeAt, Unseen,
         Busy, Working, Changed, At
    <2>9. EntryAt(d)'
      BY <1>1, SMT DEF DocInv, EntryAt, TaskStatuses, OnceAt, BeforeAt, Unseen, QueueInv, Busy,
         Changed, At
    <2> QED BY <2>5, <2>6, <2>7, <2>8, <2>9 DEF DocInv
  <1>10. QueueInv'
    BY <1>1, SMT DEF QueueInv, DocInv, BeforeAt, Unseen, OnceAt, Busy, HandInv, Changed, At
  <1> QED BY <1>2, <1>3, <1>4, <1>10 DEF DocInv

LEMMA StopBackgroundWorkersKeeps ==
  ASSUME IInv, StopBackgroundWorkers
  PROVE  IInv'
  <1> USE ConversionAssumption DEF IInv
  <1>1. /\ UNCHANGED <<upload, row, pdfs, task, stream, group, held, worker, broker, slipped>>
        /\ Entries' = Entries
    <2>1. UNCHANGED <<upload, row, pdfs, task, stream, group, held, worker, broker, slipped>>
      BY EntriesSame, SMT DEF TypeOK, Loops, Previews, StopBackgroundWorkers, Tasks, Queue,
         Faults
    <2>2. Entries' = Entries
      BY EntriesSame DEF StopBackgroundWorkers, Tasks, Queue, Faults
    <2> QED BY <2>1, <2>2
  <1>2. TypeOK'
    <2> QED BY SMT DEF TypeOK, StopBackgroundWorkers, Tasks, Queue, Faults
  <1>3. HandInv'
    BY <1>1 DEF HandInv, Changed, At
  <1>4. ASSUME NEW d \in Docs PROVE DocInv(d)'
    <2>5. OnceAt(d)'
      BY <1>1, SMT DEF DocInv, OnceAt, TaskStatuses, BeforeAt, Unseen, RowAt, Busy, Changed, At
    <2>6. RowAt(d)'
      BY <1>1, SMT DEF DocInv, RowAt, TaskStatuses, OnceAt, BeforeAt, Busy, Changed, At
    <2>7. BeforeAt(d)'
      BY <1>1, SMT DEF DocInv, BeforeAt, TaskStatuses, Unseen, OnceAt, Busy, Changed, At
    <2>8. StoryAt(d)'
      BY <1>1, SMT DEF DocInv, StoryAt, TaskStatuses, Told, OnceAt, RowAt, BeforeAt, Unseen,
         Busy, Working, Changed, At
    <2>9. EntryAt(d)'
      BY <1>1, SMT DEF DocInv, EntryAt, TaskStatuses, OnceAt, BeforeAt, Unseen, QueueInv, Busy,
         Changed, At
    <2> QED BY <2>5, <2>6, <2>7, <2>8, <2>9 DEF DocInv
  <1>10. QueueInv'
    BY <1>1, SMT DEF QueueInv, DocInv, BeforeAt, Unseen, OnceAt, Busy, HandInv, Changed, At
  <1> QED BY <1>2, <1>3, <1>4, <1>10 DEF DocInv

LEMMA ExitedKeeps ==
  ASSUME IInv, Exited
  PROVE  IInv'
  <1> USE ConversionAssumption DEF IInv
  <1>1. /\ \A w \in Workers : worker[w] = At("idle", None)
        /\ \A d \in Docs : upload'[d] = IF upload[d] = "new" THEN "new" ELSE "over"
        /\ \A w \in Workers : worker'[w] = At("idle", None)
        /\ UNCHANGED <<row, pdfs, task, stream, group, held, broker>> /\ slipped \subseteq slipped'
        /\ \A d \in Docs : d \in slipped' \/ upload[d] \in {"new", "over"}
        /\ Entries' = Entries
    <2>1. \A w \in Workers : worker[w] = At("idle", None)
      BY EntriesSame, SMT DEF TypeOK, Loops, Exited, Exit, Uploading, Uploads, Tasks, Queue, At,
         Idle
    <2>2. \A d \in Docs : upload'[d] = IF upload[d] = "new" THEN "new" ELSE "over"
      BY EntriesSame, SMT DEF TypeOK, Loops, Exited, Exit, Uploading, Uploads, Tasks, Queue, At,
         Idle
    <2>3. \A w \in Workers : worker'[w] = At("idle", None)
      BY EntriesSame, SMT DEF TypeOK, Loops, Exited, Exit, Uploading, Uploads, Tasks, Queue, At,
         Idle
    <2>4. UNCHANGED <<row, pdfs, task, stream, group, held, broker>> /\ slipped \subseteq slipped'
      BY EntriesSame, SMT DEF TypeOK, Loops, Previews, Exited, Exit, Uploading, Uploads, Tasks,
         Queue, At, Idle
    <2>5. \A d \in Docs : d \in slipped' \/ upload[d] \in {"new", "over"}
      BY EntriesSame, SMT DEF TypeOK, Loops, Exited, Exit, Uploading, Uploads, Tasks, Queue, At,
         Idle
    <2>6. Entries' = Entries
      BY EntriesSame DEF Exited, Exit, Uploading, Uploads, Tasks, Queue, At, Idle
    <2> QED BY <2>1, <2>2, <2>3, <2>4, <2>5, <2>6
  <1>2. TypeOK'
    <2>1. upload' \in [Docs -> Uploads]
      BY SMT DEF TypeOK, Uploads, Places, Loops, Exited, Exit, Uploading, Tasks, Queue, At, Idle
    <2>2. worker' \in [Workers -> Loops]
      BY SMT DEF TypeOK, Uploads, Places, Loops, Exited, Exit, Uploading, Tasks, Queue, At, Idle
    <2>3. slipped' \subseteq Docs
      BY SMT DEF TypeOK, Uploads, Places, Loops, Exited, Exit, Uploading, Tasks, Queue, At, Idle
    <2> QED BY <2>1, <2>2, <2>3, SMT DEF TypeOK, Exited, Exit, Uploading, Uploads, Tasks, Queue,
       At, Idle
  <1>3. HandInv'
    BY <1>1 DEF HandInv, Changed, At
  <1>4. ASSUME NEW d \in Docs PROVE DocInv(d)'
    <2>5. OnceAt(d)'
      BY <1>1, SMT DEF DocInv, OnceAt, TaskStatuses, BeforeAt, Unseen, RowAt, Busy, Changed, At
    <2>6. RowAt(d)'
      BY <1>1, SMT DEF DocInv, RowAt, TaskStatuses, OnceAt, BeforeAt, Busy, Changed, At
    <2>7. BeforeAt(d)'
      BY <1>1, SMT DEF DocInv, BeforeAt, TaskStatuses, Unseen, OnceAt, Busy, Changed, At
    <2>8. StoryAt(d)'
      BY <1>1, SMT DEF DocInv, StoryAt, TaskStatuses, Told, OnceAt, RowAt, BeforeAt, Unseen,
         Busy, Working, Changed, At
    <2>9. EntryAt(d)'
      BY <1>1, SMT DEF DocInv, EntryAt, TaskStatuses, OnceAt, BeforeAt, Unseen, QueueInv, Busy,
         Changed, At
    <2> QED BY <2>5, <2>6, <2>7, <2>8, <2>9 DEF DocInv
  <1>10. QueueInv'
    BY <1>1, SMT DEF QueueInv, DocInv, BeforeAt, Unseen, OnceAt, Busy, HandInv, Changed, At
  <1> QED BY <1>2, <1>3, <1>4, <1>10 DEF DocInv

LEMMA StartBackgroundWorkersKeeps ==
  ASSUME IInv, StartBackgroundWorkers
  PROVE  IInv'
  <1> USE ConversionAssumption DEF IInv
  <1>1. /\ UNCHANGED <<upload, row, pdfs, task, held, worker, broker, slipped>>
        /\ group' /\ Entries' = IF group THEN Entries ELSE {}
    <2>1. UNCHANGED <<upload, row, pdfs, task, held, worker, broker, slipped>>
      BY Emptied, EntriesSame, SMT DEF TypeOK, Loops, Previews, StartBackgroundWorkers,
         ensureConversionQueueGroup, Tasks, NoFault
    <2>2. group' /\ Entries' = IF group THEN Entries ELSE {}
      BY Emptied, EntriesSame, SMT DEF TypeOK, Loops, StartBackgroundWorkers,
         ensureConversionQueueGroup, Tasks, NoFault
    <2> QED BY <2>1, <2>2
  <1>2. TypeOK'
    <2>1. stream' \in Seq(Docs)
      BY Emptied, SMT DEF TypeOK, StartBackgroundWorkers, ensureConversionQueueGroup, Tasks,
         NoFault
    <2> QED BY <2>1, SMT DEF TypeOK, StartBackgroundWorkers, ensureConversionQueueGroup, Tasks,
       NoFault
  <1>3. HandInv'
    BY <1>1 DEF HandInv, Changed, At
  <1>4. ASSUME NEW d \in Docs PROVE DocInv(d)'
    <2>5. OnceAt(d)'
      BY <1>1, SMT DEF DocInv, OnceAt, TaskStatuses, BeforeAt, Unseen, RowAt, Busy, Changed, At
    <2>6. RowAt(d)'
      BY <1>1, SMT DEF DocInv, RowAt, TaskStatuses, OnceAt, BeforeAt, Busy, Changed, At
    <2>7. BeforeAt(d)'
      BY <1>1, SMT DEF DocInv, BeforeAt, TaskStatuses, Unseen, OnceAt, Busy, Changed, At
    <2>8. StoryAt(d)'
      BY <1>1, SMT DEF DocInv, StoryAt, TaskStatuses, Told, OnceAt, RowAt, BeforeAt, Unseen,
         Busy, Working, Changed, At
    <2>9. EntryAt(d)'
      BY <1>1, SMT DEF DocInv, EntryAt, TaskStatuses, OnceAt, BeforeAt, Unseen, QueueInv, Busy,
         Changed, At
    <2> QED BY <2>5, <2>6, <2>7, <2>8, <2>9 DEF DocInv
  <1>10. QueueInv'
    BY <1>1, SMT DEF QueueInv, DocInv, BeforeAt, Unseen, OnceAt, Busy, HandInv, Changed, At
  <1> QED BY <1>2, <1>3, <1>4, <1>10 DEF DocInv

LEMMA LapseKeeps ==
  ASSUME IInv, Lapse
  PROVE  IInv'
  <1> USE ConversionAssumption DEF IInv
  <1>1. /\ broker = "redis" /\ ~ group' /\ Entries' = {} /\ slipped \subseteq slipped'
        /\ UNCHANGED <<upload, row, pdfs, task, worker, broker>>
        /\ \A w \in Workers : held'[w] = None
        /\ \A d \in Docs : task[d] = "pending" /\ (d \in Entries \/ \E w \in Workers : held[w] = d) => d \in slipped'
    <2>1. broker = "redis" /\ ~ group' /\ Entries' = {} /\ slipped \subseteq slipped'
      BY Emptied, QueuedEntry, SMT DEF TypeOK, Loops, Lapse, Tasks, Server, Faults
    <2>2. UNCHANGED <<upload, row, pdfs, task, worker, broker>>
      BY Emptied, QueuedEntry, SMT DEF TypeOK, Loops, Previews, Lapse, Tasks, Server, Faults
    <2>3. \A w \in Workers : held'[w] = None
      BY Emptied, QueuedEntry, SMT DEF TypeOK, Loops, Lapse, Tasks, Server, Faults
    <2>4. \A d \in Docs : task[d] = "pending" /\ (d \in Entries \/ \E w \in Workers : held[w] = d) => d \in slipped'
      BY Emptied, QueuedEntry, SMT DEF TypeOK, Loops, Lapse, Tasks, Server, Faults
    <2> QED BY <2>1, <2>2, <2>3, <2>4
  <1>2. TypeOK'
    <2>1. stream' \in Seq(Docs)
      BY Emptied, SMT DEF TypeOK, Lapse, Tasks, Server, Faults
    <2>2. held' \in [Workers -> Docs \union {None}]
      BY SMT DEF TypeOK, Uploads, Places, Loops, Lapse, Tasks, Server, Faults
    <2>3. slipped' \subseteq Docs
      BY SMT DEF TypeOK, Uploads, Places, Loops, Lapse, Tasks, Server, Faults
    <2>4. faults \in 0..MaxFaults /\ faults < MaxFaults /\ faults' = faults + 1
      BY DEF TypeOK, Lapse, Faults
    <2>5. faults' \in 0..MaxFaults
      BY <2>4
    <2>6. group' \in BOOLEAN /\ server' = server /\ broker' = broker /\ UNCHANGED <<upload, row, pdfs, task, worker>>
      BY DEF Lapse, Tasks, Server
    <2> QED BY <2>1, <2>2, <2>3, <2>5, <2>6 DEF TypeOK
  <1>3. HandInv'
    BY <1>1 DEF HandInv, Changed, At
  <1>4. ASSUME NEW d \in Docs PROVE DocInv(d)'
    <2>5. OnceAt(d)'
      BY <1>1, SMT DEF DocInv, OnceAt, TaskStatuses, BeforeAt, Unseen, RowAt, Busy, Changed, At
    <2>6. RowAt(d)'
      BY <1>1, SMT DEF DocInv, RowAt, TaskStatuses, OnceAt, BeforeAt, Busy, Changed, At
    <2>7. BeforeAt(d)'
      BY <1>1, SMT DEF DocInv, BeforeAt, TaskStatuses, Unseen, OnceAt, Busy, Changed, At
    <2>8. StoryAt(d)'
      BY <1>1, SMT DEF DocInv, StoryAt, TaskStatuses, Told, OnceAt, RowAt, BeforeAt, Unseen,
         Busy, Working, Changed, At
    <2>9. EntryAt(d)'
      BY <1>1, SMT DEF DocInv, EntryAt, TaskStatuses, OnceAt, BeforeAt, Unseen, QueueInv, Busy,
         Changed, At
    <2> QED BY <2>5, <2>6, <2>7, <2>8, <2>9 DEF DocInv
  <1>10. QueueInv'
    BY <1>1, SMT DEF QueueInv, DocInv, BeforeAt, Unseen, OnceAt, Busy, HandInv, Changed, At
  <1> QED BY <1>2, <1>3, <1>4, <1>10 DEF DocInv

-----------------------------------------------------------------------------
(* The theorems.                                                           *)

LEMMA NextKeeps == IInv /\ [Next]_vars => IInv'
  <1> SUFFICES ASSUME IInv, [Next]_vars PROVE IInv'
    OBVIOUS
  <1>1. CASE UNCHANGED vars
    BY <1>1, Stutter
  <1>2. ASSUME NEW d \in Docs, StoreUpload(d) \/ FinishUpload(d)
        PROVE  IInv'
    BY <1>2, StoreUploadKeeps, UpsertPendingKeeps, EnqueueKeeps, UndoPreviewKeeps,
       SetFailedByDocumentKeeps DEF FinishUpload
  <1>3. ASSUME NEW d \in Docs, NEW source \in Docs, CloneToProject(d, source)
        PROVE  IInv'
    BY <1>3, CloneToProjectKeeps
  <1>4. ASSUME NEW w \in Workers, WorkStep(w)
        PROVE  IInv'
    BY <1>4, ReadNextKeeps, TakeKeeps, TakeNextKeeps, GenerateKeeps, CreateDerivedKeeps,
       LinkDerivedKeeps, SetCompletedKeeps, MarkFailedKeeps, SetFailedKeeps, AcknowledgeKeeps
       DEF WorkStep
  <1>5. CASE Crash \/ StopBackgroundWorkers \/ Exited \/ StartBackgroundWorkers \/ Lapse
    BY <1>5, CrashKeeps, StopBackgroundWorkersKeeps, ExitedKeeps, StartBackgroundWorkersKeeps,
       LapseKeeps
  <1> QED BY <1>1, <1>2, <1>3, <1>4, <1>5 DEF Next

LEMMA Invariant == Spec => []IInv
  <1> QED BY Initially, NextKeeps, PTL DEF Spec

\* Every variable has its type, and a link names a PDF that exists.
THEOREM TypeCorrect == Spec => []TypeOK
  <1>1. IInv => TypeOK
    BY DEF IInv
  <1> QED BY <1>1, Invariant, PTL

\* A document is converted once, by one worker, through re-read entries, crashes, restarts
\* and lapses of the stream (TakePendingByDocument, TakeNextPending).
THEOREM ConvertedOnceCorrect == Spec => []ConvertedOnce
  <1>1. ASSUME IInv PROVE ConvertedOnce
    <2>1. ASSUME NEW d \in Docs, NEW v \in Workers, NEW w \in Workers,
                 worker[v].doc = d, worker[w].doc = d,
                 {worker[v].at, worker[w].at} \subseteq Places \ {"idle", "got", "ack"}
          PROVE  v = w
      <3>1. Busy(v, d) /\ Busy(w, d)
        BY <2>1 DEF Busy
      <3> QED BY <1>1, <3>1 DEF IInv, DocInv, OnceAt
    <2>2. \A d \in Docs : pdfs[d] <= 1
      BY <1>1 DEF IInv, DocInv, OnceAt
    <2> QED BY <2>1, <2>2 DEF ConvertedOnce
  <1> QED BY <1>1, Invariant, PTL

\* A document's row, its task and its PDF tell the same story once nobody works on it,
\* and a ready preview can be opened (handleConversionTask, failConversionTask, Upload).
THEOREM RowsAgreeCorrect == Spec => []RowsAgree
  <1>1. ASSUME IInv PROVE RowsAgree
    <2> SUFFICES ASSUME NEW d \in Docs, row[d] # None
                 PROVE  /\ row[d].preview = "ready" => Preview(d) = "pdf"
                        /\ AtRest(d) => /\ task[d] = "completed" => row[d].preview = "ready"
                                        /\ task[d] = "failed" => row[d].preview = "failed"
                                        /\ row[d].preview = "ready" => task[d] \in {"completed", None}
      BY DEF RowsAgree
    <2>1. DocInv(d) /\ task[d] \in TaskStatuses \union {None}
      BY <1>1, Typed DEF IInv
    <2>2. ASSUME row[d].preview = "ready" PROVE Preview(d) = "pdf"
      <3>1. row[d].link # 0
        BY <2>1, <2>2 DEF DocInv, RowAt
      <3>2. row[d].link <= pdfs[d] /\ row[d].link \in Nat /\ pdfs[d] \in Nat
        BY <1>1, Typed DEF IInv, TypeOK
      <3>3. row[d].link \in 1..pdfs[d]
        BY <3>1, <3>2
      <3> QED BY <2>2, <3>3 DEF Preview, resolvePreviewTarget
    <2>3. ASSUME AtRest(d)
          PROVE  /\ task[d] = "completed" => row[d].preview = "ready"
                 /\ task[d] = "failed" => row[d].preview = "failed"
                 /\ row[d].preview = "ready" => task[d] \in {"completed", None}
      <3>1. Told(d)
        BY <2>1, <2>3 DEF DocInv, StoryAt, AtRest
      <3>2. \A w \in Workers : ~ Busy(w, d)
        BY <2>3 DEF AtRest, Working, Busy
      <3> QED BY <2>1, <3>1, <3>2 DEF Told, TaskStatuses
    <2> QED BY <2>2, <2>3
  <1> QED BY <1>1, Invariant, PTL

\* A preview that is being generated has somebody who will generate it, unless its
\* document has slipped (Upload, conversionWorkerLoop).
THEOREM NotForgottenCorrect == Spec => []NotForgotten
  <1>1. ASSUME IInv PROVE NotForgotten
    <2> SUFFICES ASSUME NEW d \in Docs, Generating(d), d \notin slipped,
                        upload[d] \notin {"stored", "tasked", "undo"}, ~ Working(d)
                 PROVE  task[d] = "pending" /\ (broker = "database" \/ Queued(d))
      BY DEF NotForgotten
    <2>1. /\ DocInv(d) /\ task[d] \in TaskStatuses \union {None} /\ upload[d] \in Uploads
          /\ row[d] # None /\ row[d].preview = "processing"
      BY <1>1, Typed DEF IInv, Generating
    <2>2. Told(d)
      BY <2>1 DEF DocInv, StoryAt
    <2>3. upload[d] = "over"
      BY <2>1, <2>2 DEF DocInv, RowAt, Told, Uploads
    <2>4. \A w \in Workers : ~ Busy(w, d)
      BY DEF Working, Busy
    <2>5. task[d] = "pending"
      BY <2>1, <2>2, <2>3, <2>4 DEF Told, TaskStatuses
    <2>6. broker = "database" \/ d \in Entries \/ \E w \in Workers : held[w] = d
      BY <2>1, <2>3, <2>5 DEF DocInv, EntryAt
    <2> QED BY <2>5, <2>6, QueuedEntry
  <1> QED BY <1>1, Invariant, PTL
=============================================================================
