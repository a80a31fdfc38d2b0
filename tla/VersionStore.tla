---------------------------- MODULE VersionStore ----------------------------
(***************************************************************************)
(* The versions of one project: VersionService over the table              *)
(* version_snapshots, the graph store underneath (GraphStore has the       *)
(* detail of it) and the cache of the version list with its index set.     *)
(*                                                                         *)
(* A request runs in steps, one per statement or Redis command; errors the *)
(* service ignores are steps too.  The graph is the number of saves so     *)
(* far, as in GraphStore, which is its revision as well; what a snapshot   *)
(* holds matters only for the copy a rollback makes.  The list is one page *)
(* of the cache: the set of the ids it shows.                              *)
(***************************************************************************)
EXTENDS Integers, FiniteSets, FiniteSetsExt

CONSTANTS
    Handlers,         \* the requests that can be in progress at once
    MaxVersionCount,  \* the limit trimming aims at, 30 in the code
    MaxVersions,      \* bound: versions ever created
    MaxSaves,         \* bound: saves of the graph
    MaxErrors,        \* bound: errors that are ignored
    None

ASSUME VersionsAssumption ==
    /\ MaxVersionCount \in Nat \ {0} /\ MaxVersions \in Nat
    /\ MaxSaves \in Nat /\ MaxErrors \in Nat
    /\ None \notin Int

VARIABLES
    versions,  \* the ids in version_snapshots
    made,      \* ids given out, in the order of created_at
    graph,     \* the project's graph, and graph_revision
    list,      \* the cached list of versions, or None
    index,     \* whether the index set names the cached list
    at,        \* where each request is
    job,       \* what it has read
    errors,    \* errors ignored so far
    slips,     \* times a request over the limit deleted nothing
    overlapped \* a list was cached in the middle of an invalidation

vars == <<versions, made, graph, list, index, at, job, errors, slips, overlapped>>

Ids == 1 .. MaxVersions

\* Of a rollback, the revision it read and the graph its copy holds, whole when
\* the copy was wanted and nothing went wrong with it; of a creation, the
\* version to delete; of a list request, what it read.
NoJob == [base |-> None, copy |-> None, whole |-> FALSE, pick |-> None,
          seen |-> {}]

Goto(h, place, what) == /\ at' = [at EXCEPT ![h] = place]
                        /\ job' = [job EXCEPT ![h] = what]
Move(h, place) == Goto(h, place, job[h])
Done(h) == Goto(h, "idle", NoJob)

Ignore == errors < MaxErrors /\ errors' = errors + 1

-----------------------------------------------------------------------------
Init == /\ versions = {} /\ made = 0 /\ graph = 0
        /\ list = None /\ index = FALSE
        /\ at = [h \in Handlers |-> "idle"] /\ job = [h \in Handlers |-> NoJob]
        /\ errors = 0 /\ slips = 0 /\ overlapped = FALSE

\* Someone else saves the graph.
SaveGraph ==
    /\ graph < MaxSaves /\ graph' = graph + 1
    /\ UNCHANGED <<versions, made, list, index, at, job, errors, slips, overlapped>>

(***************************************************************************)
(* Create: insert, trim to the limit, invalidate the list.                 *)
(***************************************************************************)
Insert(h, next) ==
    /\ made < MaxVersions
    /\ made' = made + 1
    /\ versions' = versions \cup {made + 1}
    /\ Goto(h, "counting", next)
    /\ UNCHANGED <<graph, list, index, slips, overlapped>>

\* A client sends the graph as it has it.
Create(h) == at[h] = "idle" /\ Insert(h, NoJob) /\ UNCHANGED errors

\* Mutant: the count is compared before it is over the limit.
OverAlready == Cardinality(versions) > MaxVersionCount + 1

OverLimit == Cardinality(versions) > MaxVersionCount

\* CountByProject; an error leaves the count at 0.
CountVersions(h) ==
    /\ at[h] = "counting"
    /\ \/ Move(h, IF OverLimit THEN "picking" ELSE "purging")
          /\ UNCHANGED <<errors, slips>>
       \/ Ignore /\ slips' = slips + 1 /\ Move(h, "purging")
    /\ UNCHANGED <<versions, made, graph, list, index, overlapped>>

\* GetOldestByProject, which finds nothing once the others have deleted all.
GetOldest(h) ==
    /\ at[h] = "picking"
    /\ IF versions = {} THEN Move(h, "purging")
       ELSE Goto(h, "trimming", [job[h] EXCEPT !.pick = Min(versions)])
    /\ UNCHANGED <<versions, made, graph, list, index, errors, slips, overlapped>>

\* The delete, of a row another request may have deleted already.
Trim(h) ==
    /\ at[h] = "trimming"
    /\ \/ /\ versions' = versions \ {job[h].pick}
          /\ slips' = IF job[h].pick \in versions THEN slips ELSE slips + 1
          /\ UNCHANGED errors
       \/ Ignore /\ slips' = slips + 1 /\ UNCHANGED versions
    /\ Goto(h, "purging", [job[h] EXCEPT !.pick = None])
    /\ UNCHANGED <<made, graph, list, index, overlapped>>

\* A list request is between its query and its entry in the index.
Listing == \E g \in Handlers : at[g] \in {"caching", "indexing"}

\* The lists the index names are deleted ...
PurgeList(h) ==
    /\ at[h] = "purging"
    /\ list' = IF index THEN None ELSE list
    /\ overlapped' = (overlapped \/ Listing)
    /\ Move(h, "unindexing")
    /\ UNCHANGED <<versions, made, graph, index, errors, slips>>

\* ... and then the index, with whatever was added to it meanwhile.  A rollback
\* goes on to its save.
DropIndex(h) ==
    /\ at[h] = "unindexing"
    /\ index' = FALSE
    /\ overlapped' = (overlapped \/ Listing \/ (index /\ list # None))
    /\ IF job[h].base = None THEN Done(h) ELSE Move(h, "saving")
    /\ UNCHANGED <<versions, made, graph, list, errors, slips>>

(***************************************************************************)
(* Delete.                                                                 *)
(***************************************************************************)
\* Mutant: the lists are not invalidated.
DeleteQuietly(h, v) ==
    /\ at[h] = "idle" /\ v \in versions
    /\ versions' = versions \ {v}
    /\ UNCHANGED <<made, graph, list, index, at, job, errors, slips, overlapped>>

Delete(h, v) ==
    /\ at[h] = "idle" /\ v \in versions
    /\ versions' = versions \ {v}
    /\ Move(h, "purging")
    /\ UNCHANGED <<made, graph, list, index, errors, slips, overlapped>>

(***************************************************************************)
(* Rollback: the version, the project's revision, a copy of the current    *)
(* graph if the client wants one, and the save at the revision read.       *)
(***************************************************************************)
\* A revision the project has left.
Behind == -1

\* The revision is that of the project's row, or an earlier one from the cache.
Rollback(h, v) ==
    /\ at[h] = "idle" /\ v \in versions
    /\ \E r \in {graph, Behind} :
          \E place \in {"copying", "saving"} :
             Goto(h, place, [NoJob EXCEPT !.base = r])
    /\ UNCHANGED <<versions, made, graph, list, index, errors, slips, overlapped>>

\* The copy holds the current graph; or another, when GetGraph failed or was
\* served from caches behind.  Where the insert fails there is no copy.  The
\* rollback goes on all the same.
Copy(h) ==
    /\ at[h] = "copying"
    /\ \/ /\ Insert(h, [job[h] EXCEPT !.copy = graph, !.whole = TRUE])
          /\ UNCHANGED errors
       \/ Ignore /\ Insert(h, job[h])
       \/ /\ Ignore /\ Move(h, "saving")
          /\ UNCHANGED <<versions, made, graph, list, index, slips, overlapped>>

\* Mutant: the graph is replaced whatever its revision.
AnyRevision(h) == TRUE

CurrentRevision(h) == job[h].base = graph

\* SaveGraph, refused by the compare-and-swap unless the revision is current.
Restore(h) ==
    /\ at[h] = "saving"
    /\ IF CurrentRevision(h)
       THEN graph < MaxSaves /\ graph' = graph + 1
       ELSE UNCHANGED graph
    /\ Done(h)
    /\ UNCHANGED <<versions, made, list, index, errors, slips, overlapped>>

(***************************************************************************)
(* List: what the cache has, which changes nothing, or what the table has, *)
(* which is cached and indexed.                                            *)
(***************************************************************************)
List(h) ==
    /\ at[h] = "idle"
    /\ Goto(h, "caching", [NoJob EXCEPT !.seen = versions])
    /\ UNCHANGED <<versions, made, graph, list, index, errors, slips, overlapped>>

CacheList(h) ==
    /\ at[h] = "caching"
    /\ list' = job[h].seen
    /\ Move(h, "indexing")
    /\ UNCHANGED <<versions, made, graph, index, errors, slips, overlapped>>

AddIndex(h) ==
    /\ at[h] = "indexing"
    /\ index' = TRUE
    /\ Done(h)
    /\ UNCHANGED <<versions, made, graph, list, errors, slips, overlapped>>

\* The list expires; its index lives longer.
Expire == /\ list # None /\ list' = None
          /\ UNCHANGED <<versions, made, graph, index, at, job, errors, slips,
                         overlapped>>

-----------------------------------------------------------------------------
Step(h) == \/ Create(h) \/ CountVersions(h) \/ GetOldest(h) \/ Trim(h)
           \/ PurgeList(h) \/ DropIndex(h)
           \/ \E v \in Ids : Delete(h, v) \/ Rollback(h, v)
           \/ Copy(h) \/ Restore(h)
           \/ List(h) \/ CacheList(h) \/ AddIndex(h)

Next == SaveGraph \/ Expire \/ \E h \in Handlers : Step(h)

Spec == Init /\ [][Next]_vars

-----------------------------------------------------------------------------
\* Requests that have inserted a version and are still to trim.
Untrimmed == {h \in Handlers : at[h] \in {"counting", "picking", "trimming"}}

\* The versions exceed the limit by no more than the requests still to trim and
\* the trims that came to nothing: an ignored error, or two requests that pick
\* the same oldest version.  Each of the latter costs one version, for good.
LimitHeld == Cardinality(versions) <=
                MaxVersionCount + Cardinality(Untrimmed) + slips

\* A rollback that made its copy replaces the graph the copy holds, and none
\* saved after it: the order of Rollback's reads and its revision see to that.
CopyHoldsReplaced ==
    [][\A h \in Handlers :
          at[h] = "saving" /\ at'[h] = "idle" /\ graph' # graph /\ job[h].whole =>
              job[h].copy = graph]_vars

\* A request that has changed the versions and not yet purged the list.
Purging == \E h \in Handlers :
              at[h] \in {"counting", "picking", "trimming", "purging"}

\* The cached list shows the versions there are whenever no invalidation is
\* due, until a list request and an invalidation overlap: then an outdated list
\* may stay, or a list no index names, which later changes do not invalidate.
ListFresh == list # None /\ ~Purging /\ ~overlapped => list = versions
=============================================================================
