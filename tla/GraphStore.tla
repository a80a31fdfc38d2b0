----------------------------- MODULE GraphStore -----------------------------
(***************************************************************************)
(* How the graph of one project is read and replaced.  The project row     *)
(* holds graph_revision, a save replaces all nodes and edges and moves the *)
(* revision by compare-and-swap in one transaction.  Two Redis caches sit  *)
(* in front: the project row (repository/project.go) and the graph with    *)
(* the revision it was read under (fault_tree.go, knowledge_graph.go).     *)
(*                                                                         *)
(* A graph is the number of the save that wrote it, so two graphs differ   *)
(* whenever a save lies between them.  Every Redis command and every SQL   *)
(* statement is a step of its own; a transaction is seen at its commit and *)
(* holds the lock of the project row from the compare-and-swap on.  Redis  *)
(* commands may fail, and the code ignores it; so may statements.          *)
(***************************************************************************)
EXTENDS Integers, FiniteSets

CONSTANTS
  Editors,     \* clients that load the graph and save changes to what they loaded
  Agents,      \* agent runs and preview commits without a client snapshot (Executor.Execute)
  Generators,  \* callbacks that save a generated graph
  Renamers,    \* ProjectService.Update and Rename requests
  MaxCommits,  \* bound on the saves of one behaviour
  MaxTries,    \* tries of a generator, 2 in the code
  RenameRaces, \* FALSE: only renames that find the row unchanged are examined
  None         \* no revision, no graph, no holder

ASSUME GraphStoreAssumption ==
  /\ MaxCommits \in Nat
  /\ MaxTries \in Nat \ {0}
  /\ RenameRaces \in BOOLEAN
  /\ None \notin 0..MaxCommits
  /\ None \notin Editors \union Agents \union Generators \union Renamers
  \* A client is of one kind.
  /\ Editors \intersect (Agents \union Generators \union Renamers) = {}
  /\ Agents \intersect (Generators \union Renamers) = {}
  /\ Generators \intersect Renamers = {}

Clients == Editors \union Agents \union Generators \union Renamers
Revisions == 0..MaxCommits

VARIABLES
  row,        \* committed graph_revision, and the committed nodes and edges
  rowLock,    \* the client whose transaction holds the project row
  detail,     \* revision in the cached project row
  graphCache, \* cached graph
  filling,    \* row read by a client and not yet SET into the detail cache
  client,     \* what each client is doing
  commits     \* number of saves so far

vars == <<row, rowLock, detail, graphCache, filling, client, commits>>

-----------------------------------------------------------------------------
Fresh == [pc |-> "idle", base |-> None, nodes |-> None, edges |-> None, tries |-> 0]

Init ==
  /\ row = [rev |-> 0, content |-> 0]
  /\ rowLock = None
  /\ detail = None
  /\ graphCache = None
  /\ filling = [c \in Clients |-> None]
  /\ client = [c \in Clients |-> Fresh]
  /\ commits = 0

\* Client c stands at pc and waits for no cache.
At(c, pc) == client[c].pc = pc /\ filling[c] = None

Goto(c, pc) == client' = [client EXCEPT ![c].pc = pc]

\* The client's request is over, and what it read is forgotten.
Drop(c, pc) ==
  client' = [client EXCEPT ![c] = [Fresh EXCEPT !.pc = pc, !.tries = client[c].tries]]

\* The project row as FindByID returns it to c: the cached one, or the
\* committed one, which is put in the cache before c goes on.
FindByID(c, r) ==
  \/ r = detail /\ detail # None /\ UNCHANGED filling
  \/ r = row.rev /\ filling' = [filling EXCEPT ![c] = r]

\* cacheProjectDetail: the SET that ends FindByID.
CacheProjectDetail(c) ==
  /\ filling[c] # None
  /\ detail' \in {detail, filling[c]}
  /\ filling' = [filling EXCEPT ![c] = None]
  /\ UNCHANGED <<row, rowLock, graphCache, client, commits>>

\* Mutant: SET without a TTL.
CachedForever == FALSE /\ UNCHANGED vars

\* The cached row is gone: its TTL, or an update of another of its columns.
DetailExpires ==
  /\ detail # None
  /\ detail' = None
  /\ UNCHANGED <<row, rowLock, graphCache, filling, client, commits>>

GraphExpires ==
  /\ graphCache # None
  /\ graphCache' = None
  /\ UNCHANGED <<row, rowLock, detail, filling, client, commits>>

-----------------------------------------------------------------------------
(* GetGraph: the row, then the cached graph if it has the row's revision,  *)
(* else nodes and edges in two statements.                                 *)

GetGraph(c) ==
  /\ c \in Editors /\ At(c, "idle")
  /\ \E r \in Revisions :
       /\ FindByID(c, r)
       /\ client' = [client EXCEPT ![c] = [Fresh EXCEPT !.pc = "found", !.base = r]]
  /\ UNCHANGED <<row, rowLock, detail, graphCache, commits>>

\* Mutant: the cached graph is taken whatever its revision.
AnyCached(rev) == graphCache # None

\* A payload counts only under the revision the row has.
CachedAt(rev) == graphCache # None /\ graphCache.rev = rev

GraphHit(c) ==
  /\ c \in Editors /\ At(c, "found")
  /\ CachedAt(client[c].base)
  /\ client' = [client EXCEPT ![c].pc = "loaded",
                              ![c].nodes = graphCache.nodes, ![c].edges = graphCache.edges]
  /\ UNCHANGED <<row, rowLock, detail, graphCache, filling, commits>>

\* An agent run starts here, and asks for the revision last.
ReadNodes(c) ==
  /\ \/ c \in Editors /\ At(c, "found")
     \/ c \in Agents /\ At(c, "idle")
  /\ client' = [client EXCEPT ![c].pc = "nodes", ![c].nodes = row.content]
  /\ UNCHANGED <<row, rowLock, detail, graphCache, filling, commits>>

ReadEdges(c) ==
  /\ At(c, "nodes")
  /\ client' = [client EXCEPT ![c].pc = IF c \in Agents THEN "planned" ELSE "read",
                              ![c].edges = row.content]
  /\ UNCHANGED <<row, rowLock, detail, graphCache, filling, commits>>

\* Mutant: the payload is labelled with the revision of the row at the time of the SET.
LabelledLate(c) == [rev |-> row.rev, nodes |-> client[c].nodes, edges |-> client[c].edges]

Payload(c) == [rev |-> client[c].base, nodes |-> client[c].nodes, edges |-> client[c].edges]

CacheGraph(c) ==
  /\ At(c, "read")
  /\ graphCache' \in {graphCache, Payload(c)}
  /\ Goto(c, "loaded")
  /\ UNCHANGED <<row, rowLock, detail, filling, commits>>

-----------------------------------------------------------------------------
(* Who saves what, against which revision.                                 *)

\* The editor's PUT: the revision it loaded, unchecked until the CAS.
SaveLoaded(c) ==
  /\ c \in Editors /\ At(c, "loaded")
  /\ Goto(c, "save")
  /\ UNCHANGED <<row, rowLock, detail, graphCache, filling, commits>>

\* ExecuteFaultTreeSnapshot: the agent works on the client's graph and
\* revision, and compares the revision with the row first.
ExecuteSnapshot(c) ==
  /\ c \in Editors /\ At(c, "loaded")
  /\ \E r \in Revisions :
       /\ FindByID(c, r)
       /\ IF r = client[c].base THEN Goto(c, "save") ELSE Drop(c, "conflict")
  /\ UNCHANGED <<row, rowLock, detail, graphCache, commits>>

\* Execute: no expected revision, the row's is taken after the graph was read.
ExecuteCommit(c) ==
  /\ c \in Agents /\ At(c, "planned")
  /\ \E r \in Revisions :
       /\ FindByID(c, r)
       /\ client' = [client EXCEPT ![c].pc = "save", ![c].base = r]
  /\ UNCHANGED <<row, rowLock, detail, graphCache, commits>>

\* saveFaultTreeGraphWithRetry and its knowledge-graph twin: the generated
\* graph replaces whatever is there.
SaveGenerated(c) ==
  /\ c \in Generators
  /\ \/ At(c, "idle")
     \/ At(c, "conflict") /\ client[c].tries < MaxTries
  /\ \E r \in Revisions :
       /\ FindByID(c, r)
       /\ client' = [client EXCEPT ![c].pc = "save", ![c].base = r, ![c].tries = @ + 1]
  /\ UNCHANGED <<row, rowLock, detail, graphCache, commits>>

\* After a conflict or an error the client starts afresh.
StartOver(c) ==
  /\ \/ At(c, "failed")
     \/ At(c, "conflict") /\ (c \in Generators => client[c].tries = MaxTries)
  /\ client' = [client EXCEPT ![c] = Fresh]
  /\ UNCHANGED <<row, rowLock, detail, graphCache, filling, commits>>

\* An editor loads the graph again without having saved.
Reload(c) ==
  /\ c \in Editors /\ At(c, "loaded")
  /\ client' = [client EXCEPT ![c] = Fresh]
  /\ UNCHANGED <<row, rowLock, detail, graphCache, filling, commits>>

-----------------------------------------------------------------------------
(* SaveGraph's transaction.                                                *)

\* Mutant: the UPDATE without its condition on the revision.
AnyRevision(c) == TRUE

\* UPDATE projects ... WHERE graph_revision = base finds the row.
RevisionMatches(c) == row.rev = client[c].base

\* The statement waits for the transaction that holds the row.
RowFree(c) == rowLock = None

UpdateGraphMetaCAS(c) ==
  /\ At(c, "save")
  /\ RowFree(c)
  /\ IF RevisionMatches(c)
     THEN commits < MaxCommits /\ rowLock' = c /\ Goto(c, "invalidate")
     ELSE rowLock' = rowLock /\ Drop(c, "conflict")
  /\ UNCHANGED <<row, detail, graphCache, filling, commits>>

\* A statement of the transaction before the CAS fails.
ReplaceFails(c) ==
  /\ At(c, "save")
  /\ Drop(c, "failed")
  /\ UNCHANGED <<row, rowLock, detail, graphCache, filling, commits>>

\* invalidateProjectDetailCache, inside the transaction.
InvalidateDetail(c) ==
  /\ At(c, "invalidate")
  /\ detail' \in {detail, None}
  /\ Goto(c, "commit")
  /\ UNCHANGED <<row, rowLock, graphCache, filling, commits>>

Commit(c) ==
  /\ At(c, "commit")
  /\ commits' = commits + 1
  /\ row' = [rev |-> client[c].base + 1, content |-> commits + 1]
  /\ rowLock' = None
  /\ client' = [client EXCEPT ![c].pc = "purge", ![c].base = @ + 1,
                              ![c].nodes = commits + 1, ![c].edges = commits + 1]
  /\ UNCHANGED <<detail, graphCache, filling>>

\* The audit row or the COMMIT itself fails.
Rollback(c) ==
  /\ At(c, "commit")
  /\ rowLock' = None
  /\ Drop(c, "failed")
  /\ UNCHANGED <<row, detail, graphCache, filling, commits>>

\* Mutant: the new revision is counted by the client as well as by the server.
CountedTwice(c) ==
  IF c \in Editors THEN [client[c] EXCEPT !.pc = "loaded", !.base = @ + 1] ELSE Fresh

\* An editor keeps what it saved, with the revision the answer gives it.
AfterSave(c) == IF c \in Editors THEN [client[c] EXCEPT !.pc = "loaded"] ELSE Fresh

\* The graph cache is dropped after the commit.
PurgeGraph(c) ==
  /\ At(c, "purge")
  /\ graphCache' \in {graphCache, None}
  /\ client' = [client EXCEPT ![c] = AfterSave(c)]
  /\ UNCHANGED <<row, rowLock, detail, filling, commits>>

-----------------------------------------------------------------------------
(* ProjectService.Update and Rename: read the row, save it whole.          *)

RenameRead(c) ==
  /\ c \in Renamers /\ At(c, "idle")
  /\ \E r \in Revisions :
       /\ FindByID(c, r)
       /\ client' = [client EXCEPT ![c].pc = "rename", ![c].base = r]
  /\ UNCHANGED <<row, rowLock, detail, graphCache, commits>>

RenameSave(c) ==
  /\ At(c, "rename")
  /\ RowFree(c)
  /\ RenameRaces \/ RevisionMatches(c)
  /\ row' = [row EXCEPT !.rev = client[c].base]
  /\ Drop(c, "renamed")
  /\ UNCHANGED <<rowLock, detail, graphCache, filling, commits>>

RenameInvalidate(c) ==
  /\ At(c, "renamed")
  /\ detail' \in {detail, None}
  /\ client' = [client EXCEPT ![c] = Fresh]
  /\ UNCHANGED <<row, rowLock, graphCache, filling, commits>>

-----------------------------------------------------------------------------
ReadStep(c) ==
  \/ CacheProjectDetail(c) \/ GetGraph(c) \/ GraphHit(c)
  \/ ReadNodes(c) \/ ReadEdges(c) \/ CacheGraph(c)

BeginSave(c) == SaveLoaded(c) \/ ExecuteSnapshot(c) \/ ExecuteCommit(c) \/ SaveGenerated(c)

Transaction(c) ==
  \/ UpdateGraphMetaCAS(c) \/ ReplaceFails(c)
  \/ InvalidateDetail(c) \/ Commit(c) \/ Rollback(c) \/ PurgeGraph(c)

Rename(c) == RenameRead(c) \/ RenameSave(c) \/ RenameInvalidate(c)

Next ==
  \/ \E c \in Clients : \/ ReadStep(c) \/ BeginSave(c) \/ StartOver(c) \/ Reload(c)
                        \/ Transaction(c) \/ Rename(c)
  \/ DetailExpires \/ GraphExpires

Spec == Init /\ [][Next]_vars

\* Started requests go on to their answer, cached rows expire, and an editor that
\* met a conflict loads again and does not load forever without saving.
Fairness ==
  /\ \A c \in Clients :
       /\ WF_vars(ReadStep(c) \/ StartOver(c) \/ Transaction(c))
       /\ WF_vars(Rename(c))
       /\ SF_vars(BeginSave(c))
  /\ WF_vars(DetailExpires)

LiveSpec == Spec /\ Fairness

-----------------------------------------------------------------------------
(* Properties.                                                             *)

Pcs == {"idle", "found", "nodes", "read", "planned", "loaded", "save", "invalidate",
        "commit", "purge", "conflict", "failed", "rename", "renamed"}

MaybeRevision == Revisions \union {None}

ClientStates == [pc: Pcs, base: MaybeRevision, nodes: MaybeRevision, edges: MaybeRevision,
                 tries: 0..MaxTries]

\* Revisions and graphs stay within what was saved, and every cache holds one of
\* them: the tables and cache payloads of repository/project.go and fault_tree.go.
TypeOK ==
  /\ row \in [rev: Revisions, content: Revisions]
  /\ rowLock \in Clients \union {None}
  /\ detail \in MaybeRevision
  /\ graphCache \in [rev: Revisions, nodes: Revisions, edges: Revisions] \union {None}
  /\ filling \in [Clients -> MaybeRevision]
  /\ client \in [Clients -> ClientStates]
  /\ commits \in 0..MaxCommits

InTransaction(c) == client[c].pc \in {"invalidate", "commit"}

WorkedOnCurrent(c) == client[c].nodes = row.content /\ client[c].edges = row.content

\* A save that passes the revision check was made from the graph it replaces, whole:
\* nobody's save is lost, though revision, nodes and edges come from caches and from
\* separate statements (fault_tree.go GetGraph and SaveGraph).
NoLostUpdate == \A c \in Editors : InTransaction(c) => WorkedOnCurrent(c)

\* The cached graph, when its revision is the row's, is the graph in the database and
\* not nodes of one save with edges of another (fault_tree.go GetGraph).
CachedGraphIsCurrent ==
  graphCache # None /\ graphCache.rev = row.rev =>
    graphCache.nodes = row.content /\ graphCache.edges = row.content

\* Every save takes a revision of its own (repository/project.go UpdateGraphMetaCAS).
OneSavePerRevision == row.rev = commits

\* An editor in conflict that keeps loading and saving gets its save through, or
\* an error, unless other saves go on: a stale cached row holds it up only for so
\* long (repository/project.go FindByID and its TTL).
ConflictsEnd ==
  \A c \in Editors :
    client[c].pc = "conflict" ~> client[c].pc \in {"purge", "failed"} \/ commits = MaxCommits

\* The copy an editor holds: nodes and edges of one save, or none.
CopyOf(c) == IF client[c].nodes = client[c].edges THEN client[c].nodes ELSE None

Versioned == INSTANCE GraphStoreSpec WITH
  NoCopy <- None,
  graph <- row.content,
  copy <- [c \in Editors |-> CopyOf(c)]

\* Behind its caches and split statements the store is the object of GraphStoreSpec: a save
\* by an editor replaces the graph that editor holds, and nothing else replaces it unseen
\* but the clients that mean to (fault_tree.go, executor.go, ai_generation_project_helpers.go).
ImplementsVersioned == Versioned!Spec
=============================================================================
