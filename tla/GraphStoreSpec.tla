--------------------------- MODULE GraphStoreSpec ---------------------------
(***************************************************************************)
(* What the graph store promises its editors, with no caches, revisions or *)
(* transactions: a graph that is replaced as a whole, and copies of it.    *)
(* An editor may hold the current graph or one that is past, but it saves  *)
(* only over the graph it holds.  Everyone else replaces whatever is there.*)
(***************************************************************************)
EXTENDS Naturals

CONSTANTS
  Editors,  \* those who load a graph, change it and save it
  NoCopy    \* an editor without a graph

VARIABLES
  graph,  \* the number of the save that wrote the current graph
  copy    \* the graph each editor holds

vars == <<graph, copy>>

Init == graph = 0 /\ copy = [c \in Editors |-> NoCopy]

\* An editor takes the current graph or, from a cache, an earlier one.
Load(c) == \E g \in 0..graph : copy' = [copy EXCEPT ![c] = g] /\ UNCHANGED graph

Forget(c) == copy' = [copy EXCEPT ![c] = NoCopy] /\ UNCHANGED graph

\* Only a copy of the current graph can be saved.
Save(c) ==
  /\ copy[c] = graph
  /\ graph' = graph + 1
  /\ copy' = [copy EXCEPT ![c] = graph + 1]

\* A generated graph, or an agent's, takes the place of the current one.
Replace == graph' = graph + 1 /\ UNCHANGED copy

Next ==
  \/ \E c \in Editors : Load(c) \/ Forget(c) \/ Save(c)
  \/ Replace

Spec == Init /\ [][Next]_vars
=============================================================================
