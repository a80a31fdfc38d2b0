---------------------------- MODULE AgentSession ----------------------------
(***************************************************************************)
(* One run of the agent: the engine that lets a model call tools in rounds *)
(* (agent/engine.go), the session in memory that users confirm and cancel  *)
(* through (agent/session.go), the handlers that open and drop it          *)
(* (handler/agent.go), and the two rows that outlive it.                   *)
(*                                                                         *)
(* The engine, the user's requests, the clean-up and the client's          *)
(* connection run on their own and share the session's fields, its queue   *)
(* of confirmations and its cancel channel.  Requests for a confirmation   *)
(* are numbered in the order they are made; their call ids need not be     *)
(* different.  Texts, prompts and the plan are left out; what the model    *)
(* answers is any member of Answers.                                       *)
(***************************************************************************)
EXTENDS AgentSafety

CONSTANTS
  Answers,      \* the lists of calls a model may answer with
  Modes,        \* runs that may change the graph ("write") or not ("read")
  MaxRounds,    \* rounds before the user is asked to go on
  QueueSize,    \* capacity of confirmCh (8 in the code)
  UniqueIds,    \* every call has an id of its own
  NamedOnly,    \* every confirmation names its call
  MaxSignals,   \* bound on the confirmations the user sends
  Extra,        \* the rounds a user may grant at once
  MaxUnits,     \* bound on the nodes one call changes
  None          \* no request, no error, no row

VARIABLES
  session,   \* AgentSession: state, pending request, cancel channel, calls run, in the manager's map
  queue,     \* confirmCh
  desk,      \* the user's confirmation under way
  sent,      \* confirmations sent
  engine,    \* RunStream: where it is, and its locals
  safety,    \* the SafetyController's record of the session
  asked,     \* requests for a confirmation so far
  granted,   \* rounds the user granted
  runtime,   \* the session's row in agent_session_runtime
  row,       \* the state in its row in agent_sessions
  gone       \* the client has closed the stream

vars == <<session, queue, desk, sent, engine, safety, asked, granted, runtime, row, gone>>

Paused == {"paused_confirm", "paused_preview"}
SessionStates == Paused \union {"running", "done", "cancelled", "timeout", "failed"}
Places == {"new", "round", "calls", "dispatch", "wait", "resume", "leave", "run", "commit", "after", "close", "drop", "over"}
Tools == {"read", "validate", "check", "update", "delete", "batch", "hybrid", "ui"}
Whys == {"iteration", "confirm", "preview"}
Requests == [why : Whys, number : Nat]
Runtimes == [status : {"waiting", "approved", "rejected", "timeout", "cleared"}, request : Requests \union {None}]
Errors == {None, "failed", "deadline", "canceled", "closed"}

ASSUME SessionAssumption ==
  /\ MaxRounds \in Nat \ {0} /\ QueueSize \in Nat \ {0} /\ MaxUnits \in Nat \ {0} /\ MaxSignals \in Nat
  /\ Extra \subseteq Nat \ {0}
  /\ Modes \subseteq {"read", "write"}
  /\ UniqueIds \in BOOLEAN /\ NamedOnly \in BOOLEAN
  /\ \A a \in Answers : a \in Seq([tool : Tools])
  /\ None \notin Nat /\ None \notin Requests /\ None \notin Runtimes
  /\ None \notin SessionStates \union {"failed", "deadline", "canceled", "closed"}

\* The id of a request, as the engine and the handler compare them.  A model, or
\* the parser of its text, may number the calls of every answer from one.
IdOf(request) == IF request.why = "iteration" \/ UniqueIds THEN request.number ELSE 0

-----------------------------------------------------------------------------
(* The calls of a round.  An item is a call and who makes it: the model,   *)
(* or the engine before ("auto") or after ("follow") a change.  A call of  *)
(* the model is "fresh" before its turn, and "checked" once the read that  *)
(* the engine adds is lined up before it.                                  *)

Item(tool, by) == [tool |-> tool, by |-> by]
Call(item) == [tool |-> item.tool]

IsMutation(item) == item.tool \in Mutations
Writes == engine.mode = "write"

\* mergeRoundMutationCalls: neighbouring changes become one batch, a batch stays.
Mergeable(a, i) == i \in DOMAIN a /\ a[i].tool \in {"update", "delete"}
Merged(a) ==
  LET merged[i \in 0..Len(a)] ==
        CASE i = 0 -> <<>>
          [] i > 0 /\ Mergeable(a, i - 1) /\ Mergeable(a, i) ->
               [merged[i - 1] EXCEPT ![Len(merged[i - 1])] = Item("batch", "fresh")]
          [] OTHER -> Append(merged[i - 1], Item(a[i].tool, "fresh"))
  IN  merged
Merge(a) == Merged(a)[Len(a)]

\* A change is preceded by a read if the round has read nothing yet.
Lined(todo, read) ==
  IF todo # <<>> /\ todo[1].by = "fresh"
  THEN IF Writes /\ IsMutation(todo[1]) /\ ~ read
       THEN <<Item("read", "auto"), Item(todo[1].tool, "checked")>> \o Tail(todo)
       ELSE <<Item(todo[1].tool, "model")>> \o Tail(todo)
  ELSE todo

Head1 == engine.todo[1]
Skip(todo, read) == Lined(Tail(todo), read)

\* The model's call at the head, with the read that precedes it, is dropped.
SkipCall(todo, read) == IF Head1.by = "auto" THEN Skip(Tail(todo), read) ELSE Skip(todo, read)

-----------------------------------------------------------------------------
Init ==
  /\ session = [state |-> "running", pending |-> None, closed |-> FALSE, calls |-> 0, listed |-> TRUE]
  /\ queue = <<>> /\ desk = None /\ sent = 0
  /\ \E mode \in Modes :
       engine = [at |-> "new", mode |-> mode, round |-> 0, limit |-> MaxRounds, todo |-> <<>>,
                 read |-> FALSE, answer |-> None, err |-> None]
  /\ safety = ClearSession
  /\ asked = None /\ granted = 0
  /\ runtime = None /\ row = None /\ gone = FALSE

Users == <<queue, desk, sent, granted, gone>>

\* RunStream refuses: no such conversation, not a member, no message.
Refuse ==
  /\ engine.at = "new"
  /\ engine' = [engine EXCEPT !.at = "over"]
  /\ session' = [session EXCEPT !.listed = FALSE]
  /\ UNCHANGED <<safety, asked, runtime, row, Users>>

\* How loadConversationContext may end.
Loading == {None, "failed"}

\* The session's row is written and the conversation loaded.
Start ==
  /\ engine.at = "new"
  /\ session' = [session EXCEPT !.state = "running"]
  /\ row' = "running"
  /\ \E err \in Loading :
       engine' = [engine EXCEPT !.at = IF err = None THEN "round" ELSE "close", !.err = err]
  /\ UNCHANGED <<safety, asked, runtime, Users>>

\* The runtime row of a request: upsertRuntimePending ...
Waiting(request) == [status |-> "waiting", request |-> request]

\* Mutant: the request is cleared and its status is not.
StillWaiting(status) == [status |-> "waiting", request |-> None]

\* ... and ClearPending ...
Settled(status) == [status |-> status, request |-> None]

\* ... and MarkWaitStatus, which keeps the request of a status that is still open.
Marked(status) == IF status = "waiting" THEN [runtime EXCEPT !.status = status] ELSE Settled(status)

\* The engine asks the user and pauses.
Ask(why, state) ==
  LET request == [why |-> why, number |-> (IF asked = None THEN 0 ELSE asked.number) + 1]
  IN  /\ asked' = request
      /\ session' = [session EXCEPT !.pending = request, !.state = state]
      /\ runtime' = Waiting(request)
      /\ engine' = [engine EXCEPT !.at = "wait", !.answer = None]

\* CheckRoundWithLimit
AtLimit == engine.round >= engine.limit

AskForRounds ==
  /\ engine.at = "round" /\ AtLimit
  /\ Ask("iteration", "paused_confirm")
  /\ UNCHANGED <<safety, row, Users>>

\* The model answers: with calls, or with a text, which ends the rounds.
AnswerRound ==
  /\ engine.at = "round" /\ ~ AtLimit /\ ~ gone
  /\ safety' = BeginRound(safety)
  /\ \E a \in Answers :
       engine' = [engine EXCEPT !.at = IF a = <<>> THEN "after" ELSE "calls", !.read = FALSE,
                                !.todo = Lined(Merge(a), FALSE)]
  /\ UNCHANGED <<session, asked, runtime, row, Users>>

\* The call of the model fails, as it does once the client is gone.
FailRound ==
  /\ engine.at = "round" /\ ~ AtLimit
  /\ safety' = BeginRound(safety)
  /\ \E err \in IF gone THEN {"canceled"} ELSE {"failed", "deadline"} :
       engine' = [engine EXCEPT !.at = "after", !.err = err]
  /\ UNCHANGED <<session, asked, runtime, row, Users>>

\* The round's messages are stored.
EndRound ==
  /\ engine.at = "calls" /\ engine.todo = <<>>
  /\ \/ engine' = [engine EXCEPT !.at = "round", !.round = @ + 1]
     \/ engine' = [engine EXCEPT !.at = "after", !.err = "failed"]
  /\ UNCHANGED <<session, safety, asked, runtime, row, Users>>

\* A call of the model that the user may not make, or with parameters that are wrong.
RefuseCall ==
  /\ engine.at = "calls" /\ engine.todo # <<>>
  /\ Head1.by \in {"auto", "model"}
  /\ engine' = [engine EXCEPT !.todo = SkipCall(@, engine.read)]
  /\ UNCHANGED <<session, safety, asked, runtime, row, Users>>

\* handleSafetyCheck
CheckCall ==
  /\ engine.at = "calls" /\ engine.todo # <<>>
  /\ LET check == CheckToolCall(safety, Call(Head1), session.calls, session.state)
     IN  /\ safety' = check.safety
         /\ CASE check.verdict = "stop" ->
                   /\ engine' = [engine EXCEPT !.at = "after", !.err = "failed"]
                   /\ UNCHANGED session
              [] check.verdict \in {"inactive", "warning"} ->
                   /\ engine' = [engine EXCEPT !.todo = Skip(@, engine.read)]
                   /\ UNCHANGED session
              [] OTHER ->
                   /\ engine' = [engine EXCEPT !.at = "dispatch"]
                   /\ session' = [session EXCEPT !.calls = @ + 1]
  /\ UNCHANGED <<asked, runtime, row, Users>>

\* The call at the head is over, whatever came of it.
Finished ==
  LET read == engine.read \/ Head1.tool = "read"
  IN  [engine EXCEPT !.at = "calls", !.read = read, !.todo = Skip(@, read)]

NeedsConfirm == Writes /\ Head1.tool \in {"delete", "batch"}
NeedsPreview == Writes /\ Head1.tool = "hybrid"

\* A tool of the client, a change in a read-only run, a preview that fails.
SkipTool ==
  /\ engine.at = "dispatch"
  /\ \/ Head1.tool \in {"ui", "hybrid"}
     \/ ~ Writes /\ IsMutation(Head1)
  /\ engine' = Finished
  /\ UNCHANGED <<session, safety, asked, runtime, row, Users>>

\* The audit row of a call cannot be written.
AuditLost == [engine EXCEPT !.at = "after", !.err = "failed"]

\* Before the call or after it.
FailAudit ==
  /\ engine.at \in {"dispatch", "run"}
  /\ engine' = AuditLost
  /\ UNCHANGED <<session, safety, asked, runtime, row, Users>>

AskForCall ==
  /\ engine.at = "dispatch"
  /\ \/ /\ NeedsConfirm
        /\ Ask("confirm", "paused_confirm")
     \/ /\ NeedsPreview
        /\ Ask("preview", "paused_preview")
  /\ UNCHANGED <<safety, row, Users>>

-----------------------------------------------------------------------------
(* The wait.  Of the client gone, the session cancelled, the time over and *)
(* a confirmation in the queue, the engine takes any that is there.        *)

Lost(err) == [for |-> None, id |-> None, ok |-> FALSE, more |-> 0, err |-> err]

EndWait(answer) ==
  /\ engine' = [engine EXCEPT !.at = "resume", !.answer = answer]
  /\ session' = [session EXCEPT !.pending = None]
  /\ UNCHANGED <<safety, asked, runtime, row>>

\* The client is gone: the request stays open unless the session was cancelled.
WaitCanceled ==
  /\ engine.at = "wait" /\ gone
  /\ IF session.state \in Paused
     THEN /\ engine' = [engine EXCEPT !.at = "leave"]
          /\ runtime' = Marked("waiting")
          /\ UNCHANGED <<session, safety, asked, row>>
     ELSE EndWait(Lost("canceled"))
  /\ UNCHANGED Users

WaitClosed == engine.at = "wait" /\ session.closed /\ EndWait(Lost("closed")) /\ UNCHANGED Users

\* Mutant: no timer.
NoTimer == FALSE

WaitTimeout == engine.at = "wait" /\ EndWait(Lost("failed")) /\ UNCHANGED Users

\* Mutant: whatever the queue holds is the answer.
TakeAny(signal) == TRUE

Matches(signal) == signal.id = IdOf(asked)

WaitConfirm ==
  /\ engine.at = "wait" /\ queue # <<>>
  /\ queue' = Tail(queue)
  /\ IF Matches(queue[1])
     THEN EndWait(queue[1])
     ELSE UNCHANGED <<engine, session, safety, asked, runtime, row>>
  /\ UNCHANGED <<desk, sent, granted, gone>>

\* The session runs again, cancelled or not, and the answer takes effect.
Resume ==
  LET answer == engine.answer
  IN  /\ engine.at = "resume"
      /\ session' = [session EXCEPT !.state = "running"]
      /\ runtime' = Settled(CASE answer.ok -> "approved"
                               [] answer.err = "failed" -> "timeout"
                               [] OTHER -> "rejected")
      /\ UNCHANGED <<safety, asked, row, Users>>

ResumeRounds ==
  /\ Resume /\ asked.why = "iteration"
  /\ engine' = IF engine.answer.ok
               THEN [engine EXCEPT !.at = "round", !.limit = @ + engine.answer.more]
               ELSE [engine EXCEPT !.at = "after", !.err = engine.answer.err]

\* A call that is refused is over, once its audit row says so.
ResumeCall ==
  /\ Resume /\ asked.why = "confirm"
  /\ engine' \in IF engine.answer.ok THEN {[engine EXCEPT !.at = "run"]} ELSE {Finished, AuditLost}

ResumePreview ==
  /\ Resume /\ asked.why = "preview"
  /\ engine' \in IF engine.answer.ok THEN {[engine EXCEPT !.at = "commit"]} ELSE {Finished, AuditLost}

\* The approved items of the preview are stored, or are not: neither counts towards a limit.
CommitPreview ==
  /\ engine.at = "commit"
  /\ engine' \in {Finished, AuditLost}
  /\ UNCHANGED <<session, safety, asked, runtime, row, Users>>

\* The engine leaves a paused session to its request; a cancelled one goes on.
Leave ==
  /\ engine.at = "leave"
  /\ engine' = IF asked.why = "iteration" \/ session.state \in Paused
               THEN [engine EXCEPT !.at = "after", !.err = "canceled"]
               ELSE Finished
  /\ UNCHANGED <<session, safety, asked, runtime, row, Users>>

-----------------------------------------------------------------------------
(* Running a call, and the end of the run.                                 *)

\* Mutant: the state is named after the error.
ErrorState == IF engine.err = None THEN "done" ELSE engine.err

MayRun ==
  \/ engine.at = "run"
  \/ /\ engine.at = "dispatch" /\ Head1.tool \in {"read", "validate", "check", "update"}
     /\ Writes \/ ~ IsMutation(Head1)

\* The call fails: a bad parameter, a graph changed meanwhile, no database.
FailTool ==
  /\ MayRun
  /\ engine' = Finished
  /\ UNCHANGED <<session, safety, asked, runtime, row, Users>>

\* The calls the engine adds after a change; an update or a batch may be about gates.
FollowUps(item) ==
  LET validate == Item("validate", "follow")
  IN  {<<validate>>} \union (IF item.tool = "delete" THEN {} ELSE {<<validate, Item("check", "follow")>>})

\* It succeeds.  A server's change counts towards the limit and is validated.
RunTool ==
  /\ MayRun
  /\ IF ~ IsMutation(Head1)
     THEN engine' = Finished /\ UNCHANGED safety
     ELSE \E units \in 0..MaxUnits, follow \in FollowUps(Head1) :
            LET count == RecordMutation(safety, units)
            IN  /\ safety' = count.safety
                /\ engine' = IF count.verdict = "stop"
                             THEN [engine EXCEPT !.at = "after", !.err = "failed"]
                             ELSE [engine EXCEPT !.at = "calls", !.todo = follow \o Tail(@)]
  /\ UNCHANGED <<session, asked, runtime, row, Users>>

\* The answer is stored, unless the session is left paused.
Finalize ==
  /\ engine.at = "after"
  /\ IF engine.err = "canceled" /\ session.state \in Paused
     THEN engine' = [engine EXCEPT !.at = "close"] /\ UNCHANGED session
     ELSE /\ session' = IF engine.err = None THEN [session EXCEPT !.state = "done"] ELSE session
          /\ \E err \in {engine.err, "failed"} : engine' = [engine EXCEPT !.at = "close", !.err = err]
  /\ UNCHANGED <<safety, asked, runtime, row, Users>>

FinalState ==
  IF engine.err = None THEN "done"
  ELSE IF engine.err = "deadline" THEN "timeout"
  ELSE IF gone \/ engine.err \in {"canceled", "closed"} THEN "cancelled"
  ELSE "failed"

\* The deferred end of RunStream.
Close ==
  /\ engine.at = "close"
  /\ engine' = [engine EXCEPT !.at = "drop"]
  /\ IF session.state \in Paused
     THEN row' = session.state /\ UNCHANGED <<session, runtime>>
     ELSE /\ row' = FinalState
          /\ session' = [session EXCEPT !.state = FinalState]
          /\ runtime' = IF runtime = None THEN None ELSE Settled("cleared")
  /\ safety' = ClearSession
  /\ UNCHANGED <<asked, Users>>

\* The handler keeps a paused session for a later confirmation.
Drop ==
  /\ engine.at = "drop"
  /\ engine' = [engine EXCEPT !.at = "over"]
  /\ session' = [session EXCEPT !.listed = @ /\ engine.err = "canceled" /\ session.state \in Paused]
  /\ UNCHANGED <<safety, asked, runtime, row, Users>>

-----------------------------------------------------------------------------
(* The user and the clean-up.                                              *)

Engine == <<engine, safety, asked, runtime, row>>

\* The user answers the request the client shows, the last one made.
Click ==
  /\ desk = None /\ asked # None /\ sent < MaxSignals
  /\ sent' = sent + 1
  /\ \E ok \in BOOLEAN, more \in Extra, named \in IF NamedOnly THEN {TRUE} ELSE BOOLEAN :
       desk' = [looked |-> FALSE, late |-> session.closed,
                signal |-> [for |-> asked, id |-> IF named THEN IdOf(asked) ELSE None,
                            ok |-> ok, more |-> more, err |-> None]]
  /\ UNCHANGED <<session, queue, granted, gone, Engine>>

\* Confirm: a look at the session ...
Confirm ==
  LET pending == session.pending
      named == desk.signal.id # None
  IN  /\ desk # None /\ ~ desk.looked
      /\ desk' = IF /\ session.listed /\ session.state \in Paused
                    /\ pending # None /\ named => desk.signal.id = IdOf(pending)
                 THEN [desk EXCEPT !.looked = TRUE,
                                   !.signal.id = IF pending # None THEN IdOf(pending) ELSE @]
                 ELSE None
      /\ UNCHANGED <<session, queue, sent, granted, gone, Engine>>

\* ... and then the queue, if it has room; a closed session is one of two ready cases.
Deliver ==
  /\ desk # None /\ desk.looked
  /\ desk' = None
  /\ \/ /\ (session.closed \/ Len(queue) = QueueSize)
        /\ UNCHANGED <<queue, granted>>
     \/ /\ Len(queue) < QueueSize
        /\ queue' = Append(queue, desk.signal)
        /\ granted' = IF desk.signal.ok /\ desk.signal.for.why = "iteration"
                      THEN granted + desk.signal.more ELSE granted
  /\ UNCHANGED <<session, sent, gone, Engine>>

Cancel ==
  /\ session.listed
  /\ session' = [session EXCEPT !.state = "cancelled", !.closed = TRUE]
  /\ UNCHANGED <<queue, desk, sent, granted, gone, Engine>>

Disconnect ==
  /\ ~ gone /\ engine.at # "over"
  /\ gone' = TRUE
  /\ UNCHANGED <<session, queue, desk, sent, granted, Engine>>

\* StartCleanup drops a session by its age, in use or not.
Expire ==
  /\ session.listed
  /\ session' = [session EXCEPT !.listed = FALSE]
  /\ UNCHANGED <<queue, desk, sent, granted, gone, Engine>>

-----------------------------------------------------------------------------
RunStep ==
  \/ Refuse \/ Start \/ AskForRounds \/ AnswerRound \/ FailRound \/ EndRound
  \/ RefuseCall \/ CheckCall \/ SkipTool \/ FailAudit \/ AskForCall
  \/ WaitCanceled \/ WaitClosed \/ WaitTimeout \/ WaitConfirm \/ Leave
  \/ ResumeRounds \/ ResumeCall \/ ResumePreview \/ CommitPreview
  \/ FailTool \/ RunTool \/ Finalize \/ Close \/ Drop

UserStep == Click \/ Confirm \/ Deliver \/ Cancel \/ Disconnect \/ Expire

Next == RunStep \/ UserStep

\* The engine's goroutine is scheduled, and every wait has a timer.
Spec == Init /\ [][Next]_vars /\ WF_vars(RunStep)

-----------------------------------------------------------------------------
(* Properties.                                                             *)

Signals == [for : Requests, id : Nat \union {None}, ok : BOOLEAN, more : Extra, err : {None}]
Answered == {Lost(err) : err \in Errors} \union Signals \union {None}
Items == [tool : Tools, by : {"fresh", "model", "checked", "auto", "follow"}]

\* Every variable has its type.
TypeOK ==
  /\ session \in [state : SessionStates, pending : Requests \union {None}, closed : BOOLEAN,
                  calls : Nat, listed : BOOLEAN]
  /\ queue \in Seq(Signals) /\ Len(queue) <= QueueSize
  /\ desk \in {None} \union [looked : BOOLEAN, late : BOOLEAN, signal : Signals]
  /\ sent \in 0..MaxSignals
  /\ engine \in [at : Places, mode : Modes, round : Nat, limit : Nat, todo : Seq(Items),
                 read : BOOLEAN, answer : Answered, err : Errors]
  /\ asked \in Requests \union {None} /\ granted \in Nat
  /\ runtime \in {None} \union Runtimes
  /\ row \in SessionStates \union {None} /\ gone \in BOOLEAN

\* A deletion, a batch or a preview is carried out on an approval of that very
\* request: not on one that waited in the queue for an earlier request, nor one
\* sent twice (Confirm, waitForConfirmation).
ConsentedOnly == engine.at \in {"run", "commit"} => engine.answer.ok /\ engine.answer.for = asked

\* The rounds the engine may run beyond MaxRounds are rounds the user granted, whatever
\* confirmations are late or repeated (requestIterationContinuation).
RoundsGranted == engine.limit <= MaxRounds + granted

\* The rows agree when the run is over: the session's row is paused exactly when its
\* runtime row still waits for the request, and only such a session stays in memory;
\* while the engine waits, the runtime row names the request it waits for
\* (the deferred end of RunStream, keepSession in AgentStream).
RequestKept ==
  /\ engine.at = "wait" => runtime = Waiting(asked)
  /\ engine.at = "over" /\ row # None =>
       (row \in Paused <=> runtime # None /\ runtime.status = "waiting")
  /\ engine.at = "over" /\ session.listed => row \in Paused

\* Every run of the agent ends, whatever the user and the model do: each wait has a
\* timer and each round beyond the limit needs the user (RunStream).
EveryRunEnds == <>(engine.at = "over")

\* What session_test.go says of Cancel: a confirmation sent to a cancelled session is
\* refused as closed.
CancelledStaysClosed ==
  [][desk # None /\ desk.late => Len(queue') <= Len(queue)]_vars
=============================================================================
