------------------------- MODULE MCFaultTreeEditor -------------------------
(* Constants for model-checking FaultTreeEditor: graphs users save. *)
EXTENDS FaultTreeEditor

Edge(p, c) == [from |-> p, to |-> c, id |-> 0]

\* A tree with a gate between the top event and two events.
Tree == [kind |-> <<"topEvent", "AND", "midEvent", "basicEvent">>,
         edges |-> {Edge(1, 2), Edge(2, 3), Edge(2, 4)}]

\* Events linked without gates, one of them twice, and a gate without a type.
Loose == [kind |-> <<"topEvent", "midEvent", "gate", "basicEvent">>,
          edges |-> {Edge(1, 2), Edge(2, 3), Edge(3, 4), Edge(1, 4)}]

\* A cycle, a loop, an orphan and an edge to nothing.
Broken == [kind |-> <<"topEvent", "midEvent", "midEvent", "OR">>,
           edges |-> {Edge(1, 2), Edge(2, 3), Edge(3, 2), Edge(4, 4), Edge(2, 5)}]

Empty == [kind |-> <<>>, edges |-> {}]

StoredGraphs == {Tree, Loose, Broken, Empty}
=============================================================================
