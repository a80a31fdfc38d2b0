-------------------------- MODULE MCAITaskPipeline --------------------------
(* Small instances of AITaskPipeline for TLC. *)
EXTENDS AITaskPipeline, TLC

CONSTANTS t1, t2, p1, p2

\* Every task in one project: they compete for its lock.
OneProject == [t \in Tasks |-> p1]

\* A project each.
OwnProject == [t \in Tasks |-> IF t = t1 THEN p1 ELSE p2]

Symmetry == Permutations(Workers) \union Permutations(Dispatchers)

\* The tasks are alike too when all of them are fault trees of one project.
SymmetryWithTasks == Symmetry \union Permutations(Tasks)
=============================================================================
