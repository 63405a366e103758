---------------------------- MODULE BlueprintGraph ----------------------------
(***************************************************************************)
(* scripts/blueprint-edges.py: the audit together with the two algorithms  *)
(* on graphs that it takes its edges and its cycles from, each as the code *)
(* runs it: the walk through Lean's constants (LeanWalk), which reads the  *)
(* same dump, and the search for cycles among the nodes (FindCycles).      *)
(***************************************************************************)
EXTENDS BlueprintEdges, FindCycles

VARIABLES theorems, owner, alias, label, starts, stmtOnly, found, seen,
  toVisit   \* the walk's stack

W == INSTANCE LeanWalk WITH stack <- toVisit

-----------------------------------------------------------------------------
\* "Node A uses node B in Lean when a declaration of A reaches a declaration of B
\* through constants that belong to no third node": the walk ends with exactly
\* these, whatever cycles there are and in whatever order they were popped, and
\* the groups it found are those of their nodes, each group whole.  And the clusters
\* of a graph of nodes are its strongly connected components.
WalkIsExact == W!TypeOK /\ W!WalkIsExact /\ CyclesAreExact
=============================================================================
