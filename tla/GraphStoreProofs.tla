-------------------------- MODULE GraphStoreProofs --------------------------
(***************************************************************************)
(* Proofs about GraphStore, for any number of clients and saves.           *)
(*                                                                         *)
(* TypeCorrect needs that whoever is between the compare-and-swap and the  *)
(* commit holds the row lock and still has the row's revision as its base, *)
(* and that no revision anywhere exceeds the number of saves.  The safety  *)
(* theorems hold when renames find the row unchanged (~RenameRaces): then  *)
(* the revision counts the saves, and a graph read under the current       *)
(* revision is the current graph.                                          *)
(***************************************************************************)
EXTENDS GraphStore, TLAPS

\* From the compare-and-swap to the commit the row is the client's own.
HolderInv ==
  \A c \in Clients : InTransaction(c) =>
    rowLock = c /\ client[c].base = row.rev /\ commits < MaxCommits

\* No revision is ahead of the saves.
AtMost(rev) == rev # None => rev <= commits

BoundInv ==
  /\ row.rev <= commits
  /\ AtMost(detail)
  /\ \A c \in Clients : AtMost(filling[c]) /\ AtMost(client[c].base)

\* A client has read what its next step uses, and only editors cache a graph.
Prepared(c) ==
  /\ client[c].pc = "nodes" => c \in Editors \union Agents
  /\ client[c].pc = "read" => c \in Editors
  /\ client[c].pc = "idle" => client[c].tries = 0
  /\ client[c].pc \in {"found", "read", "rename"} => client[c].base # None
  /\ client[c].pc = "nodes" /\ c \notin Agents => client[c].base # None
  /\ client[c].pc \in {"nodes", "read"} => client[c].nodes # None
  /\ client[c].pc = "read" => client[c].edges # None

PreparedInv == \A c \in Clients : Prepared(c)

TInv == TypeOK /\ HolderInv /\ BoundInv /\ PreparedInv

\* The revision FindByID gives a client is bounded like the row and the cache.
LEMMA FindByIDBounded ==
  ASSUME TInv, NEW c \in Clients, NEW r \in Revisions, FindByID(c, r)
  PROVE  /\ r # None /\ AtMost(r)
         /\ filling' \in [Clients -> MaybeRevision]
         /\ \A d \in Clients : AtMost(filling'[d])
  BY GraphStoreAssumption DEF TInv, TypeOK, BoundInv, FindByID, AtMost, Revisions, MaybeRevision

\* A step of client c that leaves the row, its lock and the number of saves
\* alone keeps TInv if it keeps the client's part of it.
LEMMA ClientStep ==
  ASSUME TInv, NEW c \in Clients,
         client' \in [Clients -> ClientStates],
         \A d \in Clients \ {c} : client'[d] = client[d],
         InTransaction(c)' => InTransaction(c) /\ client'[c].base = client[c].base,
         AtMost(client'[c].base),
         Prepared(c)',
         UNCHANGED <<row, rowLock, commits>>,
         detail' \in MaybeRevision, AtMost(detail'),
         graphCache' \in [rev: Revisions, nodes: Revisions, edges: Revisions] \union {None},
         filling' \in [Clients -> MaybeRevision],
         \A d \in Clients : AtMost(filling'[d])
  PROVE  TInv'
  <1>1. TypeOK'
    BY DEF TInv, TypeOK
  <1>2. HolderInv'
    BY DEF TInv, HolderInv, InTransaction
  <1>3. BoundInv'
    BY DEF TInv, BoundInv, AtMost
  <1>4. PreparedInv'
    BY DEF TInv, PreparedInv, Prepared
  <1> QED BY <1>1, <1>2, <1>3, <1>4 DEF TInv

\* What TInv says of one client and of the caches.
LEMMA Parts ==
  ASSUME TInv, NEW c \in Clients
  PROVE  /\ client \in [Clients -> ClientStates]
         /\ client[c] \in ClientStates /\ AtMost(client[c].base)
         /\ Prepared(c)
         /\ detail \in MaybeRevision /\ AtMost(detail)
         /\ row \in [rev: Revisions, content: Revisions] /\ AtMost(row.rev)
         /\ graphCache \in [rev: Revisions, nodes: Revisions, edges: Revisions] \union {None}
         /\ filling \in [Clients -> MaybeRevision]
         /\ \A d \in Clients : AtMost(filling[d])
  BY DEF TInv, TypeOK, BoundInv, PreparedInv, AtMost

\* A fresh state, moved to pc with base r.
LEMMA FreshState ==
  /\ Fresh \in ClientStates /\ Fresh.pc = "idle" /\ Fresh.base = None
  /\ Fresh.nodes = None /\ Fresh.edges = None /\ Fresh.tries = 0
  BY GraphStoreAssumption DEF Fresh, ClientStates, Pcs, MaybeRevision

\* What moving a client does to it.
LEMMA GotoStep ==
  ASSUME client \in [Clients -> ClientStates], NEW c \in Clients, NEW pc \in Pcs, Goto(c, pc)
  PROVE  /\ client' \in [Clients -> ClientStates]
         /\ \A d \in Clients \ {c} : client'[d] = client[d]
         /\ client'[c].pc = pc /\ client'[c].base = client[c].base
         /\ client'[c].nodes = client[c].nodes /\ client'[c].edges = client[c].edges
  BY DEF Goto, ClientStates

LEMMA DropStep ==
  ASSUME client \in [Clients -> ClientStates], NEW c \in Clients, NEW pc \in Pcs, Drop(c, pc)
  PROVE  /\ client' \in [Clients -> ClientStates]
         /\ \A d \in Clients \ {c} : client'[d] = client[d]
         /\ client'[c].pc = pc /\ client'[c].base = None
  <1> DEFINE s == [Fresh EXCEPT !.pc = pc, !.tries = client[c].tries]
  <1>1. s \in ClientStates /\ s.pc = pc /\ s.base = None
    BY FreshState DEF ClientStates
  <1>2. client' = [client EXCEPT ![c] = s]
    BY DEF Drop
  <1> HIDE DEF s
  <1> QED BY <1>1, <1>2

LEMMA InitT == Init => TInv
  <1> SUFFICES ASSUME Init PROVE TInv
    OBVIOUS
  <1>1. TypeOK
    BY FreshState, GraphStoreAssumption DEF Init, TypeOK, Revisions, MaybeRevision
  <1>2. \A c \in Clients : client[c] = Fresh
    BY DEF Init
  <1>3. BoundInv
    BY <1>2, FreshState DEF Init, BoundInv, AtMost
  <1> QED BY <1>1, <1>2, <1>3, FreshState DEF TInv, HolderInv, PreparedInv, Prepared, InTransaction

LEMMA ReadT ==
  ASSUME TInv, NEW c \in Clients, ReadStep(c)
  PROVE  TInv'
  <1> USE Parts DEF InTransaction, Prepared, At
  <1>1. CASE CacheProjectDetail(c)
    <2>1. /\ filling' \in [Clients -> MaybeRevision]
          /\ \A d \in Clients : AtMost(filling'[d])
          /\ detail' \in MaybeRevision /\ AtMost(detail')
      BY <1>1 DEF CacheProjectDetail, AtMost, MaybeRevision
    <2> QED BY <1>1, <2>1, ClientStep DEF CacheProjectDetail
  <1>2. CASE GetGraph(c)
    <2>1. PICK r \in Revisions :
            /\ FindByID(c, r)
            /\ client' = [client EXCEPT ![c] = [Fresh EXCEPT !.pc = "found", !.base = r]]
      BY <1>2 DEF GetGraph
    <2>2. /\ client' \in [Clients -> ClientStates]
          /\ \A d \in Clients \ {c} : client'[d] = client[d]
          /\ client'[c].pc = "found" /\ client'[c].base = r
      BY <2>1, FreshState DEF ClientStates, Pcs, MaybeRevision
    <2> QED BY <1>2, <2>1, <2>2, FindByIDBounded, ClientStep DEF GetGraph
  <1>3. CASE GraphHit(c)
    <2>1. /\ client' \in [Clients -> ClientStates]
          /\ \A d \in Clients \ {c} : client'[d] = client[d]
          /\ client'[c].pc = "loaded" /\ client'[c].base = client[c].base
      BY <1>3 DEF GraphHit, CachedAt, ClientStates, Pcs, MaybeRevision
    <2> QED BY <1>3, <2>1, ClientStep DEF GraphHit
  <1>4. CASE ReadNodes(c)
    <2>1. /\ client' \in [Clients -> ClientStates]
          /\ \A d \in Clients \ {c} : client'[d] = client[d]
          /\ client'[c].pc = "nodes" /\ client'[c].base = client[c].base
          /\ client'[c].nodes # None
      BY <1>4, GraphStoreAssumption DEF ReadNodes, Revisions, ClientStates, Pcs, MaybeRevision
    <2> QED BY <1>4, <2>1, ClientStep DEF ReadNodes
  <1>5. CASE ReadEdges(c)
    <2>1. /\ client' \in [Clients -> ClientStates]
          /\ \A d \in Clients \ {c} : client'[d] = client[d]
          /\ client'[c].pc = IF c \in Agents THEN "planned" ELSE "read"
          /\ client'[c].base = client[c].base
          /\ client'[c].nodes = client[c].nodes /\ client'[c].edges # None
      BY <1>5, GraphStoreAssumption DEF ReadEdges, Revisions, ClientStates, Pcs, MaybeRevision
    <2> QED BY <1>5, <2>1, ClientStep DEF ReadEdges
  <1>6. CASE CacheGraph(c)
    <2>1. /\ client' \in [Clients -> ClientStates]
          /\ \A d \in Clients \ {c} : client'[d] = client[d]
          /\ client'[c].pc = "loaded" /\ client'[c].base = client[c].base
      BY <1>6 DEF CacheGraph, Goto, ClientStates, Pcs, MaybeRevision
    <2> QED BY <1>6, <2>1, ClientStep DEF CacheGraph, Payload, ClientStates, MaybeRevision
  <1> QED BY <1>1, <1>2, <1>3, <1>4, <1>5, <1>6 DEF ReadStep

LEMMA BeginT ==
  ASSUME TInv, NEW c \in Clients, BeginSave(c)
  PROVE  TInv'
  <1> USE Parts DEF InTransaction, Prepared, At
  <1>1. CASE SaveLoaded(c)
    <2>1. /\ client' \in [Clients -> ClientStates]
          /\ \A d \in Clients \ {c} : client'[d] = client[d]
          /\ client'[c].pc = "save" /\ client'[c].base = client[c].base
      BY <1>1 DEF SaveLoaded, Goto, ClientStates, Pcs, MaybeRevision
    <2> QED BY <1>1, <2>1, ClientStep DEF SaveLoaded
  <1>2. CASE ExecuteSnapshot(c)
    <2>1. PICK r \in Revisions :
            /\ FindByID(c, r)
            /\ IF r = client[c].base THEN Goto(c, "save") ELSE Drop(c, "conflict")
      BY <1>2 DEF ExecuteSnapshot
    <2>2. /\ client' \in [Clients -> ClientStates]
          /\ \A d \in Clients \ {c} : client'[d] = client[d]
          /\ client'[c].pc \in {"save", "conflict"} /\ client'[c].base \in {client[c].base, None}
      BY <2>1, GotoStep, DropStep DEF Pcs
    <2> QED BY <1>2, <2>1, <2>2, FindByIDBounded, ClientStep DEF ExecuteSnapshot, AtMost
  <1>3. CASE ExecuteCommit(c)
    <2>1. PICK r \in Revisions :
            /\ FindByID(c, r)
            /\ client' = [client EXCEPT ![c].pc = "save", ![c].base = r]
      BY <1>3 DEF ExecuteCommit
    <2>2. /\ client' \in [Clients -> ClientStates]
          /\ \A d \in Clients \ {c} : client'[d] = client[d]
          /\ client'[c].pc = "save" /\ client'[c].base = r
      BY <1>3, <2>1, FreshState DEF ExecuteCommit, ClientStates, Pcs, MaybeRevision
    <2> QED BY <1>3, <2>1, <2>2, FindByIDBounded, ClientStep DEF ExecuteCommit
  <1>4. CASE SaveGenerated(c)
    <2>1. PICK r \in Revisions :
            /\ FindByID(c, r)
            /\ client' = [client EXCEPT ![c].pc = "save", ![c].base = r, ![c].tries = @ + 1]
      BY <1>4 DEF SaveGenerated
    <2>2. client[c].tries + 1 \in 0..MaxTries
      BY <1>4, GraphStoreAssumption DEF SaveGenerated, ClientStates
    <2>3. /\ client' \in [Clients -> ClientStates]
          /\ \A d \in Clients \ {c} : client'[d] = client[d]
          /\ client'[c].pc = "save" /\ client'[c].base = r
      BY <2>1, <2>2 DEF ClientStates, Pcs, MaybeRevision
    <2> QED BY <1>4, <2>1, <2>3, FindByIDBounded, ClientStep DEF SaveGenerated
  <1> QED BY <1>1, <1>2, <1>3, <1>4 DEF BeginSave

LEMMA OverT ==
  ASSUME TInv, NEW c \in Clients, StartOver(c) \/ Reload(c)
  PROVE  TInv'
  <1>1. /\ client' = [client EXCEPT ![c] = Fresh]
        /\ UNCHANGED <<row, rowLock, detail, graphCache, filling, commits>>
    BY DEF StartOver, Reload
  <1>2. /\ client' \in [Clients -> ClientStates]
        /\ \A d \in Clients \ {c} : client'[d] = client[d]
        /\ client'[c] = Fresh
    BY <1>1, Parts, FreshState
  <1> QED BY <1>1, <1>2, Parts, FreshState, ClientStep DEF AtMost, InTransaction, Prepared

LEMMA TransactionT ==
  ASSUME TInv, NEW c \in Clients, Transaction(c)
  PROVE  TInv'
  <1> USE Parts DEF InTransaction, Prepared, At
  <1>1. CASE UpdateGraphMetaCAS(c)
    <2>1. CASE RevisionMatches(c)
      <3>1. /\ client' \in [Clients -> ClientStates]
            /\ \A d \in Clients \ {c} : client'[d] = client[d]
            /\ client'[c].pc = "invalidate" /\ client'[c].base = client[c].base
        BY <1>1, <2>1, GotoStep DEF UpdateGraphMetaCAS, Pcs
      <3>2. /\ rowLock = None /\ rowLock' = c /\ commits < MaxCommits
            /\ client[c].base = row.rev
            /\ UNCHANGED <<row, detail, graphCache, filling, commits>>
        BY <1>1, <2>1 DEF UpdateGraphMetaCAS, RowFree, RevisionMatches
      <3>3. \A d \in Clients : ~InTransaction(d)
        BY <3>2, GraphStoreAssumption DEF TInv, HolderInv, Clients
      <3>4. TypeOK'
        BY <3>1, <3>2 DEF TInv, TypeOK
      <3>5. HolderInv'
        BY <3>1, <3>2, <3>3 DEF HolderInv
      <3>6. BoundInv'
        BY <3>1, <3>2 DEF BoundInv, TInv, AtMost
      <3>7. PreparedInv'
        BY <3>1, <3>2 DEF PreparedInv, TInv
      <3> QED BY <3>4, <3>5, <3>6, <3>7 DEF TInv
    <2>2. CASE ~RevisionMatches(c)
      <3>1. /\ client' \in [Clients -> ClientStates]
            /\ \A d \in Clients \ {c} : client'[d] = client[d]
            /\ client'[c].pc = "conflict" /\ client'[c].base = None
        BY <1>1, <2>2, DropStep DEF UpdateGraphMetaCAS, Pcs
      <3> QED BY <1>1, <2>2, <3>1, ClientStep DEF UpdateGraphMetaCAS, AtMost
    <2> QED BY <2>1, <2>2
  <1>2. CASE ReplaceFails(c)
    <2>1. /\ client' \in [Clients -> ClientStates]
          /\ \A d \in Clients \ {c} : client'[d] = client[d]
          /\ client'[c].pc = "failed" /\ client'[c].base = None
      BY <1>2, DropStep DEF ReplaceFails, Pcs
    <2> QED BY <1>2, <2>1, ClientStep DEF ReplaceFails, AtMost
  <1>3. CASE InvalidateDetail(c)
    <2>1. /\ client' \in [Clients -> ClientStates]
          /\ \A d \in Clients \ {c} : client'[d] = client[d]
          /\ client'[c].pc = "commit" /\ client'[c].base = client[c].base
      BY <1>3, GotoStep DEF InvalidateDetail, Pcs
    <2>2. detail' \in MaybeRevision /\ AtMost(detail')
      BY <1>3 DEF InvalidateDetail, AtMost, MaybeRevision
    <2> QED BY <1>3, <2>1, <2>2, ClientStep DEF InvalidateDetail
  <1>4. CASE Commit(c)
    <2>1. /\ rowLock = c /\ client[c].base = row.rev /\ commits < MaxCommits
          /\ \A d \in Clients : InTransaction(d) => d = c
      BY <1>4 DEF Commit, TInv, HolderInv
    <2>2. /\ commits' = commits + 1 /\ commits' \in 0..MaxCommits
          /\ row' = [rev |-> row.rev + 1, content |-> commits + 1]
          /\ row.rev + 1 \in Revisions /\ row.rev + 1 <= commits'
          /\ rowLock' = None /\ UNCHANGED <<detail, graphCache, filling>>
      BY <1>4, <2>1, GraphStoreAssumption DEF Commit, TInv, TypeOK, BoundInv, Revisions
    <2>3. /\ client' \in [Clients -> ClientStates]
          /\ \A d \in Clients \ {c} : client'[d] = client[d]
          /\ client'[c].pc = "purge" /\ client'[c].base = row.rev + 1
      BY <1>4, <2>1, <2>2 DEF Commit, ClientStates, Pcs, MaybeRevision, Revisions
    <2>4. TypeOK'
      BY <2>2, <2>3 DEF TInv, TypeOK, Revisions
    <2>5. HolderInv'
      BY <2>1, <2>3 DEF HolderInv
    <2>6. BoundInv'
      <3>1. \A r \in MaybeRevision : AtMost(r) => AtMost(r)'
        BY <2>2, GraphStoreAssumption DEF AtMost, MaybeRevision, Revisions, TInv, TypeOK
      <3>2. \A d \in Clients : AtMost(client[d].base) /\ client[d].base \in MaybeRevision
        BY DEF ClientStates
      <3> QED BY <2>2, <2>3, <3>1, <3>2 DEF BoundInv, AtMost
    <2>7. PreparedInv'
      BY <2>2, <2>3 DEF PreparedInv, TInv
    <2> QED BY <2>4, <2>5, <2>6, <2>7 DEF TInv
  <1>5. CASE Rollback(c)
    <2>1. /\ client' \in [Clients -> ClientStates]
          /\ \A d \in Clients \ {c} : client'[d] = client[d]
          /\ client'[c].pc = "failed" /\ client'[c].base = None
      BY <1>5, DropStep DEF Rollback, Pcs
    <2>2. /\ rowLock' = None
          /\ UNCHANGED <<row, detail, graphCache, filling, commits>>
          /\ \A d \in Clients : InTransaction(d) => d = c
      BY <1>5 DEF Rollback, TInv, HolderInv
    <2>3. TypeOK'
      BY <2>1, <2>2 DEF TInv, TypeOK
    <2>4. HolderInv'
      BY <2>1, <2>2 DEF HolderInv
    <2>5. BoundInv'
      BY <2>1, <2>2 DEF BoundInv, TInv, AtMost
    <2>6. PreparedInv'
      BY <2>1, <2>2 DEF PreparedInv, TInv
    <2> QED BY <2>3, <2>4, <2>5, <2>6 DEF TInv
  <1>6. CASE PurgeGraph(c)
    <2>1. /\ client' \in [Clients -> ClientStates]
          /\ \A d \in Clients \ {c} : client'[d] = client[d]
          /\ \/ client'[c].pc = "loaded" /\ client'[c].base = client[c].base
             \/ client'[c] = Fresh
      BY <1>6, FreshState DEF PurgeGraph, AfterSave, ClientStates, Pcs
    <2> QED BY <1>6, <2>1, FreshState, ClientStep DEF PurgeGraph, AtMost
  <1> QED BY <1>1, <1>2, <1>3, <1>4, <1>5, <1>6 DEF Transaction

LEMMA RenameT ==
  ASSUME TInv, NEW c \in Clients, Rename(c)
  PROVE  TInv'
  <1> USE Parts DEF InTransaction, Prepared, At
  <1>1. CASE RenameRead(c)
    <2>1. PICK r \in Revisions :
            /\ FindByID(c, r)
            /\ client' = [client EXCEPT ![c].pc = "rename", ![c].base = r]
      BY <1>1 DEF RenameRead
    <2>2. /\ client' \in [Clients -> ClientStates]
          /\ \A d \in Clients \ {c} : client'[d] = client[d]
          /\ client'[c].pc = "rename" /\ client'[c].base = r
      BY <2>1 DEF ClientStates, Pcs, MaybeRevision
    <2> QED BY <1>1, <2>1, <2>2, FindByIDBounded, ClientStep DEF RenameRead
  <1>2. CASE RenameSave(c)
    <2>1. /\ client' \in [Clients -> ClientStates]
          /\ \A d \in Clients \ {c} : client'[d] = client[d]
          /\ client'[c].pc = "renamed" /\ client'[c].base = None
      BY <1>2, DropStep DEF RenameSave, Pcs
    <2>2. client[c].base \in Revisions /\ client[c].base <= commits
      BY <1>2 DEF RenameSave, AtMost, ClientStates, MaybeRevision
    <2>3. /\ row' \in [rev: Revisions, content: Revisions] /\ row'.rev = client[c].base
          /\ UNCHANGED <<rowLock, detail, graphCache, filling, commits>>
      BY <1>2, <2>2 DEF RenameSave
    <2>4. \A d \in Clients : ~InTransaction(d)
      BY <1>2, GraphStoreAssumption DEF RenameSave, RowFree, TInv, HolderInv, Clients
    <2>5. TypeOK'
      BY <2>1, <2>3 DEF TInv, TypeOK
    <2>6. HolderInv'
      BY <2>1, <2>4 DEF HolderInv
    <2>7. BoundInv'
      BY <2>1, <2>2, <2>3 DEF BoundInv, TInv, AtMost
    <2>8. PreparedInv'
      BY <2>1 DEF PreparedInv, TInv
    <2> QED BY <2>5, <2>6, <2>7, <2>8 DEF TInv
  <1>3. CASE RenameInvalidate(c)
    <2>1. /\ client' \in [Clients -> ClientStates]
          /\ \A d \in Clients \ {c} : client'[d] = client[d]
          /\ client'[c] = Fresh
      BY <1>3, FreshState DEF RenameInvalidate
    <2>2. detail' \in MaybeRevision /\ AtMost(detail')
      BY <1>3 DEF RenameInvalidate, AtMost, MaybeRevision
    <2> QED BY <1>3, <2>1, <2>2, FreshState, ClientStep DEF RenameInvalidate, AtMost
  <1> QED BY <1>1, <1>2, <1>3 DEF Rename

LEMMA ExpireT ==
  ASSUME TInv, DetailExpires \/ GraphExpires
  PROVE  TInv'
  BY DEF DetailExpires, GraphExpires, TInv, TypeOK, HolderInv, BoundInv, PreparedInv, Prepared,
         AtMost, InTransaction, MaybeRevision

LEMMA StepT == TInv /\ [Next]_vars => TInv'
  <1> SUFFICES ASSUME TInv, [Next]_vars PROVE TInv'
    OBVIOUS
  <1>1. CASE UNCHANGED vars
    BY <1>1 DEF vars, TInv, TypeOK, HolderInv, BoundInv, PreparedInv, Prepared, AtMost, InTransaction
  <1>2. CASE Next
    BY <1>2, ReadT, BeginT, OverT, TransactionT, RenameT, ExpireT DEF Next
  <1> QED BY <1>1, <1>2

\* The graph store's rows, caches and clients stay within the saves made, for any number of
\* clients and with renames that race saves.
THEOREM TypeCorrect == Spec => []TypeOK
  <1>1. TInv => TypeOK
    BY DEF TInv
  <1> QED BY <1>1, InitT, StepT, PTL DEF Spec

-----------------------------------------------------------------------------
(* Safety, when no rename writes an old revision back.                     *)

\* What editor c holds of the graph is current if its revision is.
HoldsCurrent(c) ==
  client[c].base = row.rev =>
    /\ client[c].pc \in {"nodes", "read", "loaded", "save", "invalidate", "commit", "purge"}
         => client[c].nodes = row.content
    /\ client[c].pc \in {"read", "loaded", "save", "invalidate", "commit", "purge"}
         => client[c].edges = row.content

EditorInv == \A c \in Editors : HoldsCurrent(c)

\* The cached payload is not ahead of the row, and current if its revision is.
CacheInv == CachedGraphIsCurrent /\ (graphCache # None => graphCache.rev <= commits)

SInv == TInv /\ OneSavePerRevision /\ EditorInv /\ CacheInv

\* A step that leaves the row alone is safe if the client's and the cache's part are.
LEMMA QuietStep ==
  ASSUME SInv, TInv', NEW c \in Clients, UNCHANGED <<row, commits>>,
         \A d \in Clients \ {c} : client'[d] = client[d],
         c \in Editors => HoldsCurrent(c)', CacheInv'
  PROVE  SInv'
  <1>1. OneSavePerRevision'
    BY DEF SInv, OneSavePerRevision
  <1>2. EditorInv'
    BY DEF SInv, EditorInv, HoldsCurrent, Clients
  <1> QED BY <1>1, <1>2 DEF SInv

LEMMA CacheStays ==
  ASSUME SInv, UNCHANGED <<row, commits>>, graphCache' \in {graphCache, None}
  PROVE  CacheInv'
  BY DEF SInv, CacheInv, CachedGraphIsCurrent

LEMMA InitS == Init => SInv
  BY InitT, FreshState, GraphStoreAssumption
     DEF Init, SInv, OneSavePerRevision, EditorInv, HoldsCurrent, CacheInv, CachedGraphIsCurrent,
         Clients

LEMMA ReadS ==
  ASSUME SInv, TInv', NEW c \in Clients, ReadStep(c)
  PROVE  SInv'
  <1> USE DEF HoldsCurrent, At
  <1>t. TInv /\ client \in [Clients -> ClientStates] /\ Prepared(c)
        /\ (c \in Editors => HoldsCurrent(c))
    BY Parts DEF SInv, EditorInv
  <1>1. CASE CacheProjectDetail(c)
    <2>1. UNCHANGED <<row, commits, graphCache, client>>
      BY <1>1 DEF CacheProjectDetail
    <2> QED BY <1>t, <2>1, QuietStep, CacheStays
  <1>2. CASE GetGraph(c)
    <2>1. /\ UNCHANGED <<row, commits, graphCache>>
          /\ \A d \in Clients \ {c} : client'[d] = client[d]
          /\ client'[c].pc = "found"
      BY <1>2, <1>t, FreshState DEF GetGraph, ClientStates
    <2> QED BY <2>1, QuietStep, CacheStays
  <1>3. CASE GraphHit(c)
    <2>1. /\ UNCHANGED <<row, commits, graphCache>>
          /\ \A d \in Clients \ {c} : client'[d] = client[d]
          /\ client'[c].pc = "loaded" /\ client'[c].base = client[c].base
          /\ client'[c].nodes = graphCache.nodes /\ client'[c].edges = graphCache.edges
      BY <1>3, <1>t DEF GraphHit, ClientStates
    <2>2. graphCache # None /\ graphCache.rev = client[c].base
      BY <1>3 DEF GraphHit, CachedAt
    <2>3. HoldsCurrent(c)'
      BY <2>1, <2>2 DEF SInv, CacheInv, CachedGraphIsCurrent
    <2> QED BY <2>1, <2>3, QuietStep, CacheStays
  <1>4. CASE ReadNodes(c)
    <2>1. /\ UNCHANGED <<row, commits, graphCache>>
          /\ \A d \in Clients \ {c} : client'[d] = client[d]
          /\ client'[c].pc = "nodes" /\ client'[c].nodes = row.content
      BY <1>4, <1>t DEF ReadNodes, ClientStates
    <2> QED BY <2>1, QuietStep, CacheStays
  <1>5. CASE ReadEdges(c)
    <2>1. /\ UNCHANGED <<row, commits, graphCache>>
          /\ \A d \in Clients \ {c} : client'[d] = client[d]
          /\ client'[c].base = client[c].base /\ client[c].pc = "nodes"
          /\ client'[c].nodes = client[c].nodes /\ client'[c].edges = row.content
      BY <1>5, <1>t DEF ReadEdges, ClientStates
    <2>2. c \in Editors => HoldsCurrent(c)'
      BY <1>t, <2>1
    <2> QED BY <2>1, <2>2, QuietStep, CacheStays
  <1>6. CASE CacheGraph(c)
    <2>1. /\ UNCHANGED <<row, commits>>
          /\ \A d \in Clients \ {c} : client'[d] = client[d]
          /\ client'[c].pc = "loaded" /\ client'[c].base = client[c].base /\ client[c].pc = "read"
          /\ client'[c].nodes = client[c].nodes /\ client'[c].edges = client[c].edges
      BY <1>6, <1>t, GotoStep DEF CacheGraph, Pcs
    <2>2. c \in Editors
      BY <1>t, <2>1 DEF Prepared
    <2>3. HoldsCurrent(c)'
      BY <1>t, <2>1, <2>2
    <2>4. CASE graphCache' = graphCache
      BY <2>1, <2>3, <2>4, QuietStep, CacheStays
    <2>5. CASE graphCache' = Payload(c)
      <3>1. client[c].base # None /\ client[c].base <= commits
        BY <1>t, <2>1, Parts DEF Prepared, AtMost
      <3>2. CacheInv'
        BY <1>t, <2>1, <2>2, <2>5, <3>1 DEF CacheInv, CachedGraphIsCurrent, Payload
      <3> QED BY <2>1, <2>3, <3>2, QuietStep
    <2> QED BY <1>6, <2>4, <2>5 DEF CacheGraph
  <1> QED BY <1>1, <1>2, <1>3, <1>4, <1>5, <1>6 DEF ReadStep

LEMMA BeginS ==
  ASSUME SInv, TInv', NEW c \in Clients, BeginSave(c)
  PROVE  SInv'
  <1> USE DEF HoldsCurrent, At
  <1>t. client \in [Clients -> ClientStates] /\ (c \in Editors => HoldsCurrent(c))
    BY Parts DEF SInv, EditorInv
  <1>q. UNCHANGED <<row, commits, graphCache>>
    BY DEF BeginSave, SaveLoaded, ExecuteSnapshot, ExecuteCommit, SaveGenerated
  <1>o. \A d \in Clients \ {c} : client'[d] = client[d]
    BY <1>t, GotoStep, DropStep
       DEF BeginSave, SaveLoaded, ExecuteSnapshot, ExecuteCommit, SaveGenerated, Pcs
  <1>1. CASE SaveLoaded(c)
    <2>1. c \in Editors => HoldsCurrent(c)'
      BY <1>1, <1>t, <1>q, GotoStep DEF SaveLoaded, Pcs
    <2> QED BY <1>q, <1>o, <2>1, QuietStep, CacheStays
  <1>2. CASE ExecuteSnapshot(c)
    <2>1. \/ client[c].pc = "loaded" /\ Goto(c, "save")
          \/ Drop(c, "conflict")
      BY <1>2 DEF ExecuteSnapshot
    <2>2. c \in Editors => HoldsCurrent(c)'
      BY <2>1, <1>t, <1>q, GotoStep, DropStep DEF Pcs
    <2> QED BY <1>q, <1>o, <2>2, QuietStep, CacheStays
  <1>3. CASE ExecuteCommit(c) \/ SaveGenerated(c)
    <2>1. c \notin Editors
      BY <1>3, GraphStoreAssumption DEF ExecuteCommit, SaveGenerated
    <2> QED BY <1>q, <1>o, <2>1, QuietStep, CacheStays
  <1> QED BY <1>1, <1>2, <1>3 DEF BeginSave

LEMMA OverS ==
  ASSUME SInv, TInv', NEW c \in Clients, StartOver(c) \/ Reload(c)
  PROVE  SInv'
  <1>1. /\ client' = [client EXCEPT ![c] = Fresh]
        /\ UNCHANGED <<row, commits, graphCache>>
    BY DEF StartOver, Reload
  <1>2. client'[c] = Fresh /\ \A d \in Clients \ {c} : client'[d] = client[d]
    BY <1>1, Parts DEF SInv
  <1> QED BY <1>1, <1>2, FreshState, QuietStep, CacheStays DEF HoldsCurrent

LEMMA TransactionS ==
  ASSUME SInv, TInv', NEW c \in Clients, Transaction(c)
  PROVE  SInv'
  <1> USE DEF HoldsCurrent, At
  <1>t. /\ TInv /\ client \in [Clients -> ClientStates]
        /\ (c \in Editors => HoldsCurrent(c))
    BY Parts DEF SInv, EditorInv
  <1>1. CASE UpdateGraphMetaCAS(c) \/ ReplaceFails(c) \/ InvalidateDetail(c) \/ Rollback(c)
    <2>1. UNCHANGED <<row, commits, graphCache>>
      BY <1>1 DEF UpdateGraphMetaCAS, ReplaceFails, InvalidateDetail, Rollback
    <2>2. \/ client[c].pc = "save" /\ Goto(c, "invalidate")
          \/ client[c].pc = "invalidate" /\ Goto(c, "commit")
          \/ Drop(c, "conflict")
          \/ Drop(c, "failed")
      BY <1>1 DEF UpdateGraphMetaCAS, ReplaceFails, InvalidateDetail, Rollback
    <2>3. /\ \A d \in Clients \ {c} : client'[d] = client[d]
          /\ c \in Editors => HoldsCurrent(c)'
      BY <2>1, <2>2, <1>t, GotoStep, DropStep DEF Pcs
    <2> QED BY <2>1, <2>3, QuietStep, CacheStays
  <1>2. CASE Commit(c)
    <2>1. client[c].base = row.rev
      BY <1>2, <1>t DEF Commit, TInv, HolderInv, InTransaction
    <2>2. /\ commits' = commits + 1 /\ graphCache' = graphCache
          /\ row' = [rev |-> row.rev + 1, content |-> commits + 1]
          /\ \A d \in Clients \ {c} : client'[d] = client[d]
          /\ client'[c].nodes = commits + 1 /\ client'[c].edges = commits + 1
      BY <1>2, <1>t, <2>1 DEF Commit, ClientStates
    <2>3. OneSavePerRevision'
      BY <2>2 DEF SInv, OneSavePerRevision
    <2>4. commits \in Nat /\ row.rev = commits
      BY <1>t DEF SInv, OneSavePerRevision, TypeOK, TInv
    <2>5. \A d \in Editors \ {c} : client[d].base # row'.rev
      BY <1>t, <2>2, <2>4, Parts, GraphStoreAssumption
         DEF AtMost, Clients, ClientStates, MaybeRevision, Revisions, TInv, TypeOK
    <2>6. EditorInv'
      BY <2>2, <2>5 DEF EditorInv, Clients
    <2>7. CacheInv'
      BY <2>2, <2>4, <1>t DEF SInv, CacheInv, CachedGraphIsCurrent, TInv, TypeOK, Revisions
    <2> QED BY <2>3, <2>6, <2>7 DEF SInv
  <1>3. CASE PurgeGraph(c)
    <2>1. UNCHANGED <<row, commits>> /\ graphCache' \in {graphCache, None}
      BY <1>3 DEF PurgeGraph
    <2>2. /\ \A d \in Clients \ {c} : client'[d] = client[d]
          /\ c \in Editors => HoldsCurrent(c)'
      BY <1>3, <1>t, <2>1 DEF PurgeGraph, AfterSave, ClientStates
    <2> QED BY <2>1, <2>2, QuietStep, CacheStays
  <1> QED BY <1>1, <1>2, <1>3 DEF Transaction

LEMMA RenameS ==
  ASSUME ~RenameRaces, SInv, TInv', NEW c \in Clients, Rename(c)
  PROVE  SInv'
  <1>t. TInv /\ client \in [Clients -> ClientStates]
    BY Parts DEF SInv
  <1>1. \A d \in Clients \ {c} : client'[d] = client[d]
    BY <1>t, DropStep DEF Rename, RenameRead, RenameSave, RenameInvalidate, Pcs
  <1>2. client'[c].pc \in {"rename", "renamed", "idle"}
    BY <1>t, DropStep, FreshState
       DEF Rename, RenameRead, RenameSave, RenameInvalidate, Pcs, ClientStates
  <1>3. row' = row
    <2>1. CASE RenameSave(c)
      BY <1>t, <2>1 DEF RenameSave, RevisionMatches, TInv, TypeOK
    <2> QED BY <2>1 DEF Rename, RenameRead, RenameInvalidate
  <1>4. UNCHANGED <<commits, graphCache>>
    BY DEF Rename, RenameRead, RenameSave, RenameInvalidate
  <1> QED BY <1>1, <1>2, <1>3, <1>4, QuietStep, CacheStays DEF HoldsCurrent

LEMMA StepS == ~RenameRaces /\ SInv /\ [Next]_vars => SInv'
  <1> SUFFICES ASSUME ~RenameRaces, SInv, [Next]_vars PROVE SInv'
    OBVIOUS
  <1>1. TInv'
    BY StepT DEF SInv
  <1>2. CASE UNCHANGED vars
    BY <1>1, <1>2 DEF vars, SInv, OneSavePerRevision, EditorInv, HoldsCurrent, CacheInv,
       CachedGraphIsCurrent
  <1>3. CASE DetailExpires \/ GraphExpires
    <2>1. UNCHANGED <<row, commits, client>> /\ graphCache' \in {graphCache, None}
      BY <1>3 DEF DetailExpires, GraphExpires
    <2>2. CacheInv'
      BY <2>1, CacheStays
    <2> QED BY <1>1, <2>1, <2>2 DEF SInv, OneSavePerRevision, EditorInv, HoldsCurrent
  <1>4. ASSUME NEW c \in Clients,
               \/ ReadStep(c) \/ BeginSave(c) \/ StartOver(c) \/ Reload(c)
               \/ Transaction(c) \/ Rename(c)
        PROVE  SInv'
    BY <1>1, <1>4, ReadS, BeginS, OverS, TransactionS, RenameS
  <1> QED BY <1>2, <1>3, <1>4 DEF Next

LEMMA SafetyInv ==
  ASSUME ~RenameRaces
  PROVE  Spec => []SInv
  <1>1. SInv /\ [Next]_vars => SInv'
    BY StepS
  <1> QED BY <1>1, InitS, PTL DEF Spec

\* If no rename writes an old revision back, no editor ever overwrites a save it has not seen:
\* what passes the compare-and-swap was made from the graph it replaces, nodes and edges alike,
\* whatever the caches hold and whichever cache commands fail.
THEOREM NoLostUpdateCorrect ==
  ASSUME ~RenameRaces
  PROVE  Spec => []NoLostUpdate
  <1>1. SInv => NoLostUpdate
    BY DEF SInv, TInv, HolderInv, EditorInv, HoldsCurrent, NoLostUpdate, InTransaction,
       WorkedOnCurrent, Clients
  <1> QED BY <1>1, SafetyInv, PTL

\* The cached graph is never a mixture of two saves or an old one under the current revision.
THEOREM CachedGraphCorrect ==
  ASSUME ~RenameRaces
  PROVE  Spec => []CachedGraphIsCurrent
  <1>1. SInv => CachedGraphIsCurrent
    BY DEF SInv, CacheInv
  <1> QED BY <1>1, SafetyInv, PTL

\* The revision counts the saves: no two saves, by whatever client, take the same one.
THEOREM OneSavePerRevisionCorrect ==
  ASSUME ~RenameRaces
  PROVE  Spec => []OneSavePerRevision
  <1>1. SInv => OneSavePerRevision
    BY DEF SInv
  <1> QED BY <1>1, SafetyInv, PTL
-----------------------------------------------------------------------------
(* The refinement: the store behaves as one graph that an editor can only  *)
(* replace when it holds it.  Besides SInv it needs that no copy is of a   *)
(* graph that is still to come.                                            *)

Past(g) == g # None => g <= commits

PastInv ==
  /\ row.content = commits
  /\ graphCache # None => Past(graphCache.nodes) /\ Past(graphCache.edges)
  /\ \A c \in Clients : Past(client[c].nodes) /\ Past(client[c].edges)

LEMMA InitP == Init => PastInv
  <1> SUFFICES ASSUME Init PROVE PastInv
    OBVIOUS
  <1> USE DEF Init
  <1>1. \A c \in Clients : client[c].nodes = None /\ client[c].edges = None
    BY FreshState
  <1> QED BY <1>1 DEF PastInv, Past

\* A step that commits nothing and takes its graphs from where there are graphs keeps PastInv.
LEMMA QuietP ==
  ASSUME TInv, PastInv, NEW c \in Clients,
         row'.content = row.content, commits' = commits,
         \A d \in Clients \ {c} : client'[d] = client[d],
         Past(client'[c].nodes), Past(client'[c].edges),
         \/ graphCache' \in {graphCache, None}
         \/ Past(graphCache'.nodes) /\ Past(graphCache'.edges)
  PROVE  PastInv'
  BY DEF PastInv, Past

\* What a dropped or fresh client holds.
LEMMA DropHolds ==
  ASSUME client \in [Clients -> ClientStates], NEW c \in Clients, NEW pc \in Pcs, Drop(c, pc)
  PROVE  /\ \A d \in Clients \ {c} : client'[d] = client[d]
         /\ client'[c].nodes = None /\ client'[c].edges = None
  <1> DEFINE s == [Fresh EXCEPT !.pc = pc, !.tries = client[c].tries]
  <1>1. s.nodes = None /\ s.edges = None
    BY FreshState DEF ClientStates
  <1>2. client' = [client EXCEPT ![c] = s]
    BY DEF Drop
  <1> HIDE DEF s
  <1> QED BY <1>1, <1>2

\* Every step of a client but the commit is quiet in this sense.
Quiet(c) ==
  /\ row'.content = row.content /\ commits' = commits
  /\ \A d \in Clients \ {c} : client'[d] = client[d]
  /\ Past(client'[c].nodes) /\ Past(client'[c].edges)
  /\ \/ graphCache' \in {graphCache, None}
     \/ Past(graphCache'.nodes) /\ Past(graphCache'.edges)

LEMMA DropQuiet ==
  ASSUME TInv, PastInv, NEW c \in Clients, NEW pc \in Pcs, Drop(c, pc),
         row'.content = row.content, commits' = commits, graphCache' = graphCache
  PROVE  Quiet(c)
  <1>1. client \in [Clients -> ClientStates]
    BY DEF TInv, TypeOK
  <1> QED BY <1>1, DropHolds DEF Quiet, Past

LEMMA ReadQuiet ==
  ASSUME TInv, PastInv, NEW c \in Clients, ReadStep(c)
  PROVE  Quiet(c)
  <1>t. /\ client \in [Clients -> ClientStates]
        /\ row.content = commits
        /\ Past(client[c].nodes) /\ Past(client[c].edges)
        /\ row.content \in Revisions /\ commits \in Nat
    BY DEF TInv, TypeOK, PastInv
  <1>p. row.content <= commits
    BY <1>t
  <1>1. CASE CacheProjectDetail(c)
    BY <1>1, <1>t DEF CacheProjectDetail, Quiet
  <1>2. CASE GetGraph(c)
    <2>1. PICK r \in Revisions :
            client' = [client EXCEPT ![c] = [Fresh EXCEPT !.pc = "found", !.base = r]]
      BY <1>2 DEF GetGraph
    <2>2. r \in MaybeRevision
      BY DEF MaybeRevision
    <2>3. client'[c].nodes = None /\ client'[c].edges = None
      BY <2>1, <2>2, <1>t, FreshState DEF ClientStates, Pcs
    <2> QED BY <1>2, <2>1, <2>3, <1>t DEF GetGraph, Quiet, Past
  <1>3. CASE GraphHit(c)
    <2>1. Past(graphCache.nodes) /\ Past(graphCache.edges)
      BY <1>3 DEF GraphHit, CachedAt, PastInv
    <2>2. client'[c].nodes = graphCache.nodes /\ client'[c].edges = graphCache.edges
      BY <1>3, <1>t DEF GraphHit, ClientStates
    <2> QED BY <1>3, <1>t, <2>1, <2>2 DEF GraphHit, Quiet
  <1>4. CASE ReadNodes(c)
    <2>1. client'[c].nodes = row.content /\ client'[c].edges = client[c].edges
      BY <1>4, <1>t DEF ReadNodes, ClientStates
    <2> QED BY <1>4, <1>t, <1>p, <2>1 DEF ReadNodes, Quiet, Past
  <1>5. CASE ReadEdges(c)
    <2>1. client'[c].edges = row.content /\ client'[c].nodes = client[c].nodes
      BY <1>5, <1>t DEF ReadEdges, ClientStates
    <2> QED BY <1>5, <1>t, <1>p, <2>1 DEF ReadEdges, Quiet, Past
  <1>6. CASE CacheGraph(c)
    <2>1. /\ \A d \in Clients \ {c} : client'[d] = client[d]
          /\ client'[c].nodes = client[c].nodes /\ client'[c].edges = client[c].edges
      BY <1>6, <1>t, GotoStep DEF CacheGraph, Pcs
    <2> QED BY <1>6, <1>t, <2>1 DEF CacheGraph, Payload, Quiet
  <1> QED BY <1>1, <1>2, <1>3, <1>4, <1>5, <1>6 DEF ReadStep

LEMMA BeginQuiet ==
  ASSUME TInv, PastInv, NEW c \in Clients, BeginSave(c)
  PROVE  Quiet(c)
  <1>t. /\ client \in [Clients -> ClientStates]
        /\ Past(client[c].nodes) /\ Past(client[c].edges)
    BY DEF TInv, TypeOK, PastInv
  <1>0. row' = row /\ commits' = commits /\ graphCache' = graphCache
    BY DEF BeginSave, SaveLoaded, ExecuteSnapshot, ExecuteCommit, SaveGenerated
  <1>1. CASE Goto(c, "save")
    BY <1>0, <1>1, <1>t, GotoStep DEF Pcs, Quiet
  <1>2. CASE Drop(c, "conflict")
    BY <1>0, <1>2, DropQuiet DEF Pcs
  <1>3. CASE ExecuteCommit(c) \/ SaveGenerated(c)
    <2>1. /\ \A d \in Clients \ {c} : client'[d] = client[d]
          /\ client'[c].nodes = client[c].nodes /\ client'[c].edges = client[c].edges
      BY <1>3, <1>t DEF ExecuteCommit, SaveGenerated, ClientStates
    <2> QED BY <1>0, <1>t, <2>1 DEF Quiet
  <1> QED BY <1>1, <1>2, <1>3 DEF BeginSave, SaveLoaded, ExecuteSnapshot

LEMMA OtherQuiet ==
  ASSUME TInv, TInv', PastInv, NEW c \in Clients,
         StartOver(c) \/ Reload(c) \/ Rename(c) \/ (Transaction(c) /\ ~Commit(c))
  PROVE  Quiet(c)
  <1>t. /\ client \in [Clients -> ClientStates] /\ row \in [rev: Revisions, content: Revisions]
        /\ Past(client[c].nodes) /\ Past(client[c].edges)
    BY DEF TInv, TypeOK, PastInv
  <1>1. CASE StartOver(c) \/ Reload(c)
    BY <1>1, <1>t, FreshState DEF StartOver, Reload, Quiet, Past
  <1>2. CASE Rename(c)
    <2>1. CASE RenameRead(c)
      BY <2>1, <1>t DEF RenameRead, Quiet, ClientStates
    <2>2. CASE RenameSave(c)
      <3>1. row'.content = row.content
        BY <2>2, <1>t DEF RenameSave
      <3> QED BY <2>2, <3>1, DropQuiet DEF RenameSave, Pcs
    <2>3. CASE RenameInvalidate(c)
      BY <2>3, <1>t, FreshState DEF RenameInvalidate, Quiet, Past
    <2> QED BY <1>2, <2>1, <2>2, <2>3 DEF Rename
  <1>3. CASE Transaction(c) /\ ~Commit(c)
    <2>1. CASE UpdateGraphMetaCAS(c)
      <3>1. Goto(c, "invalidate") \/ Drop(c, "conflict")
        BY <2>1 DEF UpdateGraphMetaCAS
      <3>2. row' = row /\ commits' = commits /\ graphCache' = graphCache
        BY <2>1 DEF UpdateGraphMetaCAS
      <3> QED BY <3>1, <3>2, <1>t, GotoStep, DropQuiet DEF Pcs, Quiet
    <2>2. CASE ReplaceFails(c) \/ Rollback(c)
      BY <2>2, DropQuiet DEF ReplaceFails, Rollback, Pcs
    <2>3. CASE InvalidateDetail(c)
      BY <2>3, <1>t, GotoStep DEF InvalidateDetail, Pcs, Quiet
    <2>4. CASE PurgeGraph(c)
      <3>1. AfterSave(c).nodes \in {client[c].nodes, None} /\ AfterSave(c).edges \in {client[c].edges, None}
        BY <1>t, FreshState DEF AfterSave, ClientStates
      <3>2. Past(AfterSave(c).nodes) /\ Past(AfterSave(c).edges)
        BY <3>1, <1>t DEF Past
      <3>3. client'[c] = AfterSave(c) /\ \A d \in Clients \ {c} : client'[d] = client[d]
        BY <2>4, <1>t DEF PurgeGraph
      <3> QED BY <2>4, <3>2, <3>3 DEF PurgeGraph, Quiet
    <2> QED BY <1>3, <2>1, <2>2, <2>3, <2>4 DEF Transaction
  <1> QED BY <1>1, <1>2, <1>3

\* A quiet step loads or forgets one copy.
LEMMA QuietMaps ==
  ASSUME TInv, TInv', PastInv, NEW c \in Clients, Quiet(c)
  PROVE  PastInv' /\ [Versioned!Next]_(Versioned!vars)
  <1>1. PastInv'
    BY QuietP DEF Quiet
  <1>2. \A d \in Editors \ {c} : CopyOf(d)' = CopyOf(d)
    BY DEF Quiet, CopyOf, Clients
  <1>3. CASE c \notin Editors
    BY <1>1, <1>2, <1>3 DEF Quiet, Versioned!vars
  <1>4. CASE c \in Editors
    <2>1. client'[c] \in ClientStates /\ commits \in Nat
      BY <1>4 DEF TInv, TypeOK, Clients
    <2>2. client'[c].nodes \in Nat \union {None}
      BY <2>1, GraphStoreAssumption DEF ClientStates, MaybeRevision, Revisions
    <2>3. CopyOf(c)' = None \/ CopyOf(c)' \in 0..row.content
      BY <2>1, <2>2 DEF Quiet, CopyOf, Past, PastInv
    <2> QED BY <1>1, <1>2, <1>4, <2>3 DEF Quiet, Versioned!Next, Versioned!Load, Versioned!Forget
  <1> QED BY <1>3, <1>4
\* A commit saves the editor's copy of the current graph, or replaces the graph.
LEMMA CommitMaps ==
  ASSUME SInv, TInv', PastInv, NEW c \in Clients, Commit(c)
  PROVE  PastInv' /\ Versioned!Next
  <1>t. /\ client \in [Clients -> ClientStates] /\ commits \in Nat
        /\ row \in [rev: Revisions, content: Revisions]
        /\ row.content = commits /\ client[c] \in ClientStates
    BY DEF SInv, TInv, TypeOK, PastInv
  <1>1. /\ commits' = commits + 1 /\ row'.content = commits + 1 /\ graphCache' = graphCache
        /\ client' = [client EXCEPT ![c].pc = "purge", ![c].base = @ + 1,
                                    ![c].nodes = commits + 1, ![c].edges = commits + 1]
    BY DEF Commit
  <1>2. /\ \A d \in Clients \ {c} : client'[d] = client[d]
        /\ client'[c].nodes = commits + 1 /\ client'[c].edges = commits + 1
    BY <1>1, <1>t DEF ClientStates
  <1>3. PastInv'
    <2> DEFINE PastNext(g) == g # None => g <= commits + 1
    <2>1. \A g \in MaybeRevision : Past(g) => PastNext(g)
      BY <1>t, GraphStoreAssumption DEF Past, MaybeRevision, Revisions
    <2>2. PastNext(commits + 1)
      BY <1>t
    <2>3. \A d \in Clients : PastNext(client'[d].nodes) /\ PastNext(client'[d].edges)
      <3> SUFFICES ASSUME NEW d \in Clients
                   PROVE  PastNext(client'[d].nodes) /\ PastNext(client'[d].edges)
        OBVIOUS
      <3> HIDE DEF PastNext
      <3>1. CASE d = c
        BY <1>2, <2>2, <3>1
      <3>2. CASE d # c
        <4>1. client[d].nodes \in MaybeRevision /\ client[d].edges \in MaybeRevision
          BY <1>t DEF ClientStates
        <4>2. client'[d] = client[d] /\ Past(client[d].nodes) /\ Past(client[d].edges)
          BY <1>2, <3>2 DEF PastInv
        <4> QED BY <2>1, <4>1, <4>2
      <3> QED BY <3>1, <3>2
    <2>4. graphCache # None => PastNext(graphCache.nodes) /\ PastNext(graphCache.edges)
      <3> SUFFICES ASSUME graphCache # None
                   PROVE  PastNext(graphCache.nodes) /\ PastNext(graphCache.edges)
        OBVIOUS
      <3> HIDE DEF PastNext
      <3>1. graphCache.nodes \in MaybeRevision /\ graphCache.edges \in MaybeRevision
        BY DEF SInv, TInv, TypeOK, MaybeRevision
      <3> QED BY <2>1, <3>1 DEF PastInv
    <2> QED BY <1>1, <2>3, <2>4 DEF PastInv, Past
  <1>4. \A d \in Editors \ {c} : CopyOf(d)' = CopyOf(d)
    BY <1>2 DEF CopyOf, Clients
  <1>5. CASE c \in Editors
    <2>1. InTransaction(c)
      BY DEF Commit, At, InTransaction
    <2>2. WorkedOnCurrent(c)
      BY <1>5, <2>1 DEF SInv, TInv, HolderInv, EditorInv, HoldsCurrent, InTransaction,
         WorkedOnCurrent, Clients
    <2>3. CopyOf(c) = row.content /\ CopyOf(c)' = row.content + 1
      BY <1>2, <1>t, <2>2 DEF WorkedOnCurrent, CopyOf
    <2> QED BY <1>1, <1>3, <1>4, <1>5, <1>t, <2>3 DEF Versioned!Next, Versioned!Save
  <1>6. CASE c \notin Editors
    BY <1>1, <1>3, <1>4, <1>6, <1>t DEF Versioned!Next, Versioned!Replace
  <1> QED BY <1>5, <1>6

LEMMA StepMaps ==
  ASSUME SInv, TInv', PastInv, [Next]_vars
  PROVE  PastInv' /\ [Versioned!Next]_(Versioned!vars)
  <1>t. TInv
    BY DEF SInv
  <1>1. CASE UNCHANGED vars \/ DetailExpires \/ GraphExpires
    <2>1. /\ UNCHANGED <<row, client, commits>>
          /\ graphCache' \in {graphCache, None}
      BY <1>1 DEF vars, DetailExpires, GraphExpires
    <2>2. PastInv'
      BY <2>1 DEF PastInv, Past
    <2> QED BY <2>1, <2>2 DEF Versioned!vars, CopyOf
  <1>2. ASSUME NEW c \in Clients,
               \/ ReadStep(c) \/ BeginSave(c) \/ StartOver(c) \/ Reload(c)
               \/ Transaction(c) \/ Rename(c)
        PROVE  PastInv' /\ [Versioned!Next]_(Versioned!vars)
    <2>1. CASE Commit(c)
      BY <2>1, CommitMaps
    <2>2. CASE ~Commit(c)
      <3>1. Quiet(c)
        BY <1>t, <1>2, <2>2, ReadQuiet, BeginQuiet, OtherQuiet
      <3> QED BY <1>t, <3>1, QuietMaps
    <2> QED BY <2>1, <2>2
  <1> QED BY <1>1, <1>2 DEF Next

\* The graph store with its caches, revisions and split statements implements one graph that an
\* editor replaces only while holding it (fault_tree.go, project.go UpdateGraphMetaCAS), for any
\* number of clients, if no rename writes an old revision back.
THEOREM ImplementsVersionedCorrect ==
  ASSUME ~RenameRaces
  PROVE  Spec => ImplementsVersioned
  <1>1. Init => Versioned!Init
    <2> SUFFICES ASSUME Init PROVE Versioned!Init
      OBVIOUS
    <2>1. \A c \in Editors : client[c].nodes = None /\ client[c].edges = None
      BY FreshState DEF Init, Clients
    <2>2. row.content = 0
      BY DEF Init
    <2> QED BY <2>1, <2>2 DEF Versioned!Init, CopyOf
  <1>2. SInv /\ SInv' /\ PastInv /\ [Next]_vars => PastInv' /\ [Versioned!Next]_(Versioned!vars)
    BY StepMaps DEF SInv
  <1> QED BY <1>1, <1>2, InitP, SafetyInv, PTL DEF Spec, ImplementsVersioned, Versioned!Spec
=============================================================================
