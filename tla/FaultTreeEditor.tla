-------------------------- MODULE FaultTreeEditor --------------------------
(***************************************************************************)
(* How the agent's operations change a fault tree (graph_ops/executor.go). *)
(* An operation, or a batch of them, works on a copy of the stored graph.  *)
(* It either ends in an error and leaves the stored graph alone, or the    *)
(* copy passes a check and is stored; the client gets the changes as a     *)
(* patch.  Users save graphs without any structural check, so the stored   *)
(* graph may have any flaw.                                                *)
(*                                                                         *)
(* A graph is the kind of each node and a set of edges.  An edge carries   *)
(* an id besides its ends: 0 if it was stored, else the operation that     *)
(* drew it, so an edge drawn again is a new one, as with util.NewID.       *)
(* Names, descriptions and positions are left out.                         *)
(***************************************************************************)
EXTENDS Integers, FiniteSets

CONSTANTS
  Nodes,     \* node ids, numbered; an edge may name an id that is no node
  Stored,    \* the graphs users save
  Modes,     \* "single" operation, strict "batch", "repair" batch
  MaxOps,    \* bound on the operations of a batch (50 in the code)
  MaxSaves,  \* bound on the saves before the last call stores its graph
  None       \* no operation under way, no preview

GateTypes == {"AND", "OR", "NOT"}
EventTypes == {"topEvent", "midEvent", "basicEvent"}

\* A gate is known by its type, "gate" is one whose type is missing or unknown.
GateKinds == GateTypes \union {"gate"}
Kinds == EventTypes \union GateKinds

Edges == [from: Nodes, to: Nodes, id: 0..MaxOps]

IsGraph(g) ==
  /\ DOMAIN g = {"kind", "edges"}
  /\ \E N \in SUBSET Nodes : g.kind \in [N -> Kinds]
  /\ g.edges \subseteq Edges

ASSUME EditorAssumption ==
  /\ Nodes \subseteq Nat \ {0} /\ IsFiniteSet(Nodes)
  /\ MaxOps \in Nat \ {0} /\ MaxSaves \in Nat
  /\ Modes \subseteq {"single", "batch", "repair"}
  /\ \A g \in Stored : IsGraph(g) /\ \A e \in g.edges : e.id = 0

VARIABLES
  stored,   \* the graph in the database
  work,     \* the operation under way: its copy of the graph and its patch
  preview,  \* gates a preview proposes to turn into OR gates
  saves     \* saves so far, by whomever: the graph's revision

vars == <<stored, work, preview, saves>>

-----------------------------------------------------------------------------
(* Graphs.                                                                 *)

Ids(g) == DOMAIN g.kind
HasNode(g, n) == n \in DOMAIN g.kind
Is(g, n, kinds) == n \in DOMAIN g.kind /\ g.kind[n] \in kinds

Children(g, n) == {e.to : e \in {d \in g.edges : d.from = n}}
Parents(g, n) == {e.from : e \in {d \in g.edges : d.to = n}}
Linked(g, p, c) == \E e \in g.edges : e.from = p /\ e.to = c

\* S has every child of its nodes.
Closed(g, S) == \A e \in g.edges : e.from \in S => e.to \in S

\* Mutant: children only.
ChildrenOnly(g, n) == Children(g, n) \ {n}

\* collectDescendants: the least closed set with the children of n, n left out.
Below(g, n) ==
  LET closed == {S \in SUBSET Nodes : n \in S /\ Closed(g, S)}
  IN  {m \in Nodes \ {n} : \A S \in closed : m \in S}

\* hasDirectedCycle, negated: every set of ids has one with no child in the set.
Acyclic(g) ==
  \A S \in SUBSET Nodes : S # {} => \E n \in S : Children(g, n) \intersect S = {}

Tops(g) == {n \in DOMAIN g.kind : g.kind[n] = "topEvent"}

\* Every node is under the top event.
Rooted(g) ==
  \A S \in SUBSET Nodes : Tops(g) \subseteq S /\ Closed(g, S) => Ids(g) \subseteq S

-----------------------------------------------------------------------------
(* evaluateFTAConstraintIssues, the codes it finds.  Every code is an      *)
(* error or one of the three warnings that block a strict change as well;  *)
(* repair mode blocks the fatal ones only.                                 *)

\* Edges between existing nodes, the only ones that count below.
Sound(g) == {e \in g.edges : HasNode(g, e.from) /\ HasNode(g, e.to)}

\* Mutant: the edges that end in n.
InDegree(g, n) == Cardinality({e \in Sound(g) : e.to = n})

OutDegree(g, n) == Cardinality({e \in Sound(g) : e.from = n})

GateIssue(type, count) ==
  CASE type = "gate" -> {"INVALID_GATE_TYPE"}
    [] type = "NOT" /\ count > 1 -> {"NOT_GATE_CHILD_COUNT_TOO_HIGH"}
    [] type \in {"AND", "OR"} /\ count < 2 -> {"GATE_CHILD_COUNT_TOO_LOW"}
    [] OTHER -> {}

GateIssues(g) ==
  UNION {GateIssue(g.kind[n], OutDegree(g, n)) : n \in {m \in Ids(g) : g.kind[m] \in GateKinds}}

EdgeIssues(g) ==
  LET between(from, to) == \E e \in Sound(g) : Is(g, e.from, from) /\ Is(g, e.to, to)
      Found(code, cond) == IF cond THEN {code} ELSE {}
  IN  Found("EDGE_SOURCE_NOT_FOUND", \E e \in g.edges : ~HasNode(g, e.from))
      \union Found("EDGE_TARGET_NOT_FOUND", \E e \in g.edges : HasNode(g, e.from) /\ ~HasNode(g, e.to))
      \union Found("BASIC_EVENT_AS_PARENT", between({"basicEvent"}, Kinds))
      \union Found("TOP_EVENT_AS_CHILD", between(Kinds, {"topEvent"}))
      \union Found("GATE_HAS_GATE_CHILD", between(GateKinds, GateKinds))

TreeIssues(g) ==
  LET tops == Cardinality(Tops(g))
  IN  (IF tops = 0 THEN {"MISSING_TOP_EVENT"} ELSE IF tops > 1 THEN {"MULTIPLE_TOP_EVENTS"} ELSE {})
      \union (IF Acyclic(g) THEN {} ELSE {"CYCLE_DETECTED"})

Issues(g) == EdgeIssues(g) \union GateIssues(g) \union TreeIssues(g)

Fatal == {"CYCLE_DETECTED", "MISSING_TOP_EVENT", "MULTIPLE_TOP_EVENTS", "TOP_EVENT_AS_CHILD",
          "EDGE_SOURCE_NOT_FOUND", "EDGE_TARGET_NOT_FOUND"}

\* Mutant: a batch is checked like a repair, a repair like a read.
OneModeUp(g, mode) == mode = "repair" \/ Issues(g) \intersect Fatal = {}

\* enforceFaultTreeMutationSafety and its permissive twin.
Safe(g, mode) == IF mode = "repair" THEN Issues(g) \intersect Fatal = {} ELSE Issues(g) = {}

\* check_gate_semantics counts every edge that leaves a gate, whatever it points to.
CheckGateSemantics(g) ==
  UNION {GateIssue(g.kind[n], Cardinality({e \in g.edges : e.from = n})) :
           n \in {m \in Ids(g) : g.kind[m] \in GateKinds}}

-----------------------------------------------------------------------------
(* The operation under way.                                                *)

NoPatch == [upsert |-> [n \in {} |-> None], gone |-> {}, draw |-> {}, erase |-> {}]

Init ==
  /\ stored \in Stored
  /\ work = None
  /\ preview = None
  /\ saves = 0

\* Execute and ExecuteFaultTreeSnapshot load the graph.
Open(mode) ==
  /\ work = None /\ saves < MaxSaves
  /\ work' = [mode |-> mode, rev |-> saves, base |-> stored, graph |-> stored, patch |-> NoPatch,
              ops |-> 0, changed |-> FALSE]
  /\ UNCHANGED <<stored, preview, saves>>

\* ValidateParameters: a call holds one operation or a batch of at most MaxOps.  What it
\* asks of their arguments are the sets the operations below take them from.
Ready ==
  /\ work # None
  /\ work.ops < (IF work.mode = "single" THEN 1 ELSE MaxOps)

Strict == work.mode # "repair"
Graph == work.graph

\* n is the next id nobody has used: util.NewID.
Used == Ids(work.base) \union Ids(Graph) \union work.patch.gone
          \union {e.from : e \in Graph.edges} \union {e.to : e \in Graph.edges}

IsFresh(n) == n \in Nodes \ Used /\ \A m \in Nodes \ Used : n <= m

\* Mutant: an edge is drawn whether or not it is there, under an id of the next operation.
DrawnAhead(g, pairs) == {[from |-> p[1], to |-> p[2], id |-> work.ops + 2] : p \in pairs}

\* Edges this operation draws for the pairs that are not linked in g: addEdge.
Drawn(g, pairs) ==
  {[from |-> p[1], to |-> p[2], id |-> work.ops + 1] : p \in {q \in pairs : ~Linked(g, q[1], q[2])}}

Within(f, S) == [n \in S |-> f[n]]

\* f, and g where f says nothing.
Over(f, g) == [n \in DOMAIN f \union DOMAIN g |-> IF n \in DOMAIN f THEN f[n] ELSE g[n]]

Upsert(n, kind) == [NoPatch EXCEPT !.upsert = [m \in {n} |-> kind]]

\* What an operation does to a graph.
After(g, p) ==
  [kind |-> Within(Over(p.upsert, g.kind), (DOMAIN p.upsert \union DOMAIN g.kind) \ p.gone),
   edges |-> (g.edges \ p.erase) \union p.draw]

\* Mutant: the last operation's changes only.
LastPatch(p, q) == q

\* mergePatch.
MergePatch(p, q) ==
  [upsert |-> Over(q.upsert, p.upsert), gone |-> p.gone \union q.gone,
   draw |-> p.draw \union q.draw, erase |-> p.erase \union q.erase]

\* The operation succeeds with the changes p.
Apply(p) ==
  /\ work' = [work EXCEPT !.graph = After(work.graph, p), !.patch = MergePatch(work.patch, p),
                          !.ops = @ + 1, !.changed = TRUE]
  /\ UNCHANGED <<stored, preview, saves>>

\* It succeeds and changes nothing: a read tool, an update without a difference.
Nothing ==
  /\ work' = [work EXCEPT !.ops = @ + 1]
  /\ UNCHANGED <<stored, preview, saves>>

-----------------------------------------------------------------------------
(* The operations.                                                         *)

\* applyUpdateNode: name, description, method; the node comes back in the patch.
UpdateNode(n) ==
  /\ Ready /\ HasNode(Graph, n)
  /\ \/ Nothing
     \/ Apply(Upsert(n, Graph.kind[n]))

UpdateGate(n, type) ==
  /\ Ready /\ Is(Graph, n, GateKinds)
  /\ IF Graph.kind[n] = type THEN Nothing ELSE Apply(Upsert(n, type))

\* applyAddNode: the top event of an empty tree.
AddTopEvent(n) ==
  /\ Ready /\ IsFresh(n) /\ Ids(Graph) = {}
  /\ Apply(Upsert(n, "topEvent"))

NewNode(n, type, parent) ==
  /\ Ready /\ IsFresh(n) /\ type \in EventTypes \ {"topEvent"}
  /\ Apply([Upsert(n, type) EXCEPT !.draw = Drawn(Graph, {<<parent, n>>})])

\* applyAddNode: under a gate.
AddNode(n, type, parent) ==
  /\ Strict /\ Is(Graph, parent, GateKinds)
  /\ NewNode(n, type, parent)

\* applyAddNodePermissive: under anything that may have children.
AddNodePermissive(n, type, parent) ==
  /\ ~ Strict /\ Is(Graph, parent, Kinds \ {"basicEvent"})
  /\ NewNode(n, type, parent)

\* A gate between a node and some of its children.
NewGate(n, type, parent, C) ==
  LET old == {e \in Graph.edges : e.from = parent /\ e.to \in C}
      cut == [Graph EXCEPT !.edges = @ \ old]
      pairs == {<<parent, n>>} \union {<<n, c>> : c \in C}
  IN  /\ Ready /\ IsFresh(n)
      /\ Is(Graph, parent, Kinds \ {"basicEvent"})
      /\ \A c \in C : c # parent /\ Is(Graph, c, Kinds \ {"topEvent"}) /\ Linked(Graph, parent, c)
      /\ Apply([Upsert(n, type) EXCEPT !.erase = old, !.draw = Drawn(cut, pairs)])

\* applyAddGate: NOT takes one child, AND and OR take two ...
AddGate(n, type, parent, C) ==
  /\ Strict
  /\ IF type = "NOT" THEN Cardinality(C) = 1 ELSE Cardinality(C) >= 2
  /\ NewGate(n, type, parent, C)

\* ... or, applyAddGatePermissive, just one.
AddGatePermissive(n, type, parent, C) ==
  /\ ~ Strict
  /\ C # {} /\ (type = "NOT" => Cardinality(C) = 1)
  /\ NewGate(n, type, parent, C)

\* Mutant: the children are not handed to the parents.
LeavesChildren(n) == {}

\* The parents of a deleted node take its children.
Bypass(n) ==
  {p \in Parents(Graph, n) \X Children(Graph, n) : p[1] # p[2]}

\* applyDeleteNode: n and all below it, or n alone.
DeleteNode(n, withChildren) ==
  LET gone == {n} \union (IF withChildren THEN Below(Graph, n) ELSE {})
      old == {e \in Graph.edges : e.from \in gone \/ e.to \in gone}
      cut == [Graph EXCEPT !.edges = @ \ old]
  IN  /\ Ready
      /\ Is(Graph, n, Kinds \ {"topEvent"})
      /\ Strict /\ ~withChildren /\ Children(Graph, n) # {} => Parents(Graph, n) # {}
      /\ Apply([NoPatch EXCEPT !.gone = gone \intersect Ids(Graph), !.erase = old,
                               !.draw = IF withChildren THEN {} ELSE Drawn(cut, Bypass(n))])

\* applyMoveNode: n under another parent, with everything below it.
MoveNode(n, parent) ==
  LET old == {e \in Graph.edges : e.to = n}
      cut == [Graph EXCEPT !.edges = @ \ old]
  IN  /\ Ready /\ n # parent
      /\ Is(Graph, n, Kinds \ {"topEvent"})
      /\ Is(Graph, parent, Kinds \ {"basicEvent"})
      /\ Strict => Is(Graph, parent, GateKinds) \/ Is(Graph, n, GateKinds)
      /\ parent \notin Below(Graph, n)
      /\ Apply([NoPatch EXCEPT !.erase = old, !.draw = Drawn(cut, {<<parent, n>>})])

\* Snapshot, gate semantics, constraints.
ReadTool == Ready /\ Nothing

\* applyGetNodeDetail, applyGetSubtree: what is around a node, or below it.
LookAt(n) == Ready /\ HasNode(Graph, n) /\ Nothing

-----------------------------------------------------------------------------
(* How it ends.                                                            *)

\* An operation's error or the check's, a conflict, a failing statement: nothing is stored.
Refuse ==
  /\ work # None
  /\ work' = None
  /\ UNCHANGED <<stored, preview, saves>>

\* applyPlannedPatchSet without a change: no check, nothing to store.
Unchanged ==
  /\ work # None /\ work.ops > 0 /\ ~work.changed
  /\ work' = None
  /\ UNCHANGED <<stored, preview, saves>>

\* With one: the check, then the compare-and-swap.
Persist ==
  /\ work # None /\ work.changed
  /\ Safe(work.graph, work.mode)
  /\ work.rev = saves /\ saves <= MaxSaves
  /\ stored' = [work.graph EXCEPT !.edges = {[e EXCEPT !.id = 0] : e \in work.graph.edges}]
  /\ saves' = saves + 1
  /\ work' = None
  /\ UNCHANGED preview

\* A user saves a graph: SaveGraph checks the revision and nothing else.
SaveGraph ==
  /\ saves < MaxSaves
  /\ stored' \in Stored
  /\ saves' = saves + 1
  /\ UNCHANGED <<work, preview>>

\* generateGateCorrectionPreview: every AND gate could be an OR gate.
GeneratePreview ==
  /\ work = None
  /\ preview' = {n \in Ids(stored) : stored.kind[n] = "AND"}
  /\ UNCHANGED <<stored, work, saves>>

\* HybridEngine.Commit: the approved items, all if none is named, as one strict batch
\* on the graph as it is by now; a gate that is gone is an error.
CommitPreview(approved) ==
  LET items == IF approved = {} THEN preview ELSE approved
      todo == {n \in items : stored.kind[n] # "OR"}
      p == [NoPatch EXCEPT !.upsert = [n \in todo |-> "OR"]]
  IN  /\ work = None /\ saves <= MaxSaves
      /\ preview # None /\ approved \subseteq preview
      /\ items # {} /\ \A n \in items : Is(stored, n, GateKinds)
      /\ work' = [mode |-> "batch", rev |-> saves, base |-> stored, graph |-> After(stored, p),
                  patch |-> p, ops |-> MaxOps, changed |-> todo # {}]
      /\ preview' = None
      /\ UNCHANGED <<stored, saves>>

\* Nothing approved that exists, or the preview's time is over.
DropPreview ==
  /\ work = None /\ preview # None
  /\ preview' = None
  /\ UNCHANGED <<stored, work, saves>>

Operation ==
  \/ ReadTool
  \/ \E n \in Nodes :
       \/ LookAt(n)
       \/ UpdateNode(n)
       \/ \E type \in GateTypes : UpdateGate(n, type)
       \/ AddTopEvent(n)
       \/ \E type \in EventTypes, parent \in Nodes :
            AddNode(n, type, parent) \/ AddNodePermissive(n, type, parent)
       \/ \E type \in GateTypes, parent \in Nodes :
            \E C \in SUBSET Children(Graph, parent) :
              AddGate(n, type, parent, C) \/ AddGatePermissive(n, type, parent, C)
       \/ \E withChildren \in BOOLEAN : DeleteNode(n, withChildren)
       \/ \E parent \in Nodes : MoveNode(n, parent)

Next ==
  \/ \E mode \in Modes : Open(mode)
  \/ work # None /\ Operation
  \/ Refuse \/ Unchanged \/ Persist
  \/ SaveGraph
  \/ GeneratePreview \/ DropPreview
  \/ preview # None /\ \E approved \in SUBSET preview : CommitPreview(approved)

Spec == Init /\ [][Next]_vars

-----------------------------------------------------------------------------
(* Properties.                                                             *)

IsPatch(p) ==
  /\ DOMAIN p.upsert \subseteq Nodes /\ \A n \in DOMAIN p.upsert : p.upsert[n] \in Kinds
  /\ p.gone \subseteq Nodes
  /\ p.draw \subseteq Edges /\ p.erase \subseteq Edges

\* Graphs, patches and counters stay what the tables and the bounds allow, and a call
\* under way was opened on a revision there has been (executor.go faultTreeState).
TypeOK ==
  /\ IsGraph(stored) /\ \A e \in stored.edges : e.id = 0
  /\ work # None =>
       /\ work.mode \in {"single", "batch", "repair"} /\ work.rev \in 0..saves
       /\ IsGraph(work.base) /\ IsGraph(work.graph) /\ IsPatch(work.patch)
       /\ work.ops \in 0..MaxOps /\ work.changed \in BOOLEAN
  /\ preview # None => preview \subseteq Nodes
  /\ saves \in 0..MaxSaves + 1

\* No check looks for orphans, and none is needed: if every node was under the top event
\* when the call began, every node still is after each operation, in every mode
\* (executor.go applyAddNode to applyMoveNodePermissive).
RootedKept == work # None /\ Rooted(work.base) => Rooted(work.graph)

\* No operation draws a cycle, though the check for one comes only at the end of a batch,
\* and moves and deletions rewire whole subtrees (executor.go applyMoveNode, applyDeleteNode).
AcyclicKept == work # None /\ Acyclic(work.base) => Acyclic(work.graph)

\* The patch of the whole batch, applied to the graph it began with by a client that drops
\* whatever is named as deleted, gives the graph that is stored: nodes drawn and removed in
\* the same batch, edges drawn again and gates changed twice included (executor.go mergePatch).
PatchRebuilds ==
  work # None =>
    LET seen == After(work.base, work.patch)
    IN  /\ seen.kind = work.graph.kind
        /\ seen.edges \ work.patch.erase = work.graph.edges

\* Adding or removing nodes, gates in between included, leaves the others above and below
\* each other as they were; only a move changes that (executor.go applyAddGate, applyDeleteNode).
AncestryKept ==
  [][work # None /\ work' # None =>
       LET g == work.graph
           h == work'.graph
           both == Ids(g) \intersect Ids(h)
       IN  Ids(g) # Ids(h) =>
             \A n \in both : Below(g, n) \intersect both = Below(h, n) \intersect both]_vars

\* What a call stores, in repair mode too, is one tree: a single top event, no cycle, no edge
\* to nothing, and no orphan that was not there before; and it was made from the graph it
\* replaces (executor.go applyPlannedPatchSet).
SavesATree ==
  [][work # None /\ work' = None /\ saves' # saves =>
       /\ Cardinality(Tops(stored')) = 1 /\ Acyclic(stored') /\ Sound(stored') = stored'.edges
       /\ Rooted(stored) => Rooted(stored')]_vars

\* The agent verifies its work with check_gate_semantics, which counts edges in another way
\* than the check before a save: on what a strict call stores they agree
\* (executor.go applyCheckGateSemantics, evaluateFTAConstraintIssues).
VerifiedAsStored ==
  [][work # None /\ work' = None /\ saves' # saves =>
       CheckGateSemantics(stored') = GateIssues(stored')]_vars
=============================================================================
