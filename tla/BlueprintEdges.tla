---------------------------- MODULE BlueprintEdges ----------------------------
(***************************************************************************)
(* scripts/blueprint-edges.py: the \uses lists of the blueprint against    *)
(* what Lean's constants use.  lean_edges turns the dump into groups of    *)
(* nodes, audit compares the groups with \uses, and fix (with --fix)       *)
(* rewrites \uses, after which the audit runs again.                       *)
(*                                                                         *)
(* A \uses list is the set of its labels.  The order of labels and of      *)
(* names, which breaks ties in the code, is left open.                     *)
(***************************************************************************)
EXTENDS Integers, FiniteSets

CONSTANTS
  Nodes,          \* labels of the graph
  Definitions,    \* those of kind "definition"
  Decls,          \* Lean's constants, in the dump or only mentioned there
  Dumped,         \* those in the dump: the constants of this repository
  Theorems,       \* those of kind "thm"
  Lean,           \* Lean[l]: the constants in l's \lean
  Alias,          \* Alias[c]: the constant c stands for
  Only            \* the labels of --only, or Nodes

ASSUME NodesAssumption ==
  /\ IsFiniteSet(Nodes)
  /\ Definitions \subseteq Nodes /\ Only \subseteq Nodes
ASSUME DeclsAssumption ==
  /\ Dumped \subseteq Decls /\ Theorems \subseteq Dumped
  /\ Lean \in [Nodes -> SUBSET Decls]
  /\ Alias \in [Decls -> Decls]

VARIABLES
  types, values,  \* the dump: what a constant's statement and its body use
  groups,         \* groups[l]: the groups of nodes l uses in Lean
  fromTypes,      \* those reached from the statement
  stmtUses,       \* \uses in the statement
  proofUses,      \* \uses in the proof
  stated,         \* nodes whose statement carries \leanok
  hasProof,       \* nodes with a proof environment
  proofOk,        \* nodes whose proof carries \leanok
  pc,             \* "dump" -> "audit" -> "fix" -> "done", or "crashed"
  todo,           \* nodes still without their missing edges
  cur,            \* the node under work
  left,           \* its groups still to consider
  added           \* added[l]: the edges minimal_additions adds

lean == <<types, values, groups, fromTypes>>
marks == <<stated, hasProof, proofOk>>
work == <<todo, cur, left, added>>
vars == <<lean, marks, stmtUses, proofUses, pc, work>>

-----------------------------------------------------------------------------
(* lean_edges: the walk of LeanWalk, from three sets of starting points.   *)

Owner == [c \in Decls |-> {l \in Nodes : c \in Lean[l]}]

Walk(label, starts, stmtOnly) == INSTANCE LeanWalk WITH
  theorems <- Theorems, owner <- Owner, alias <- Alias,
  found <- {}, seen <- {}, stack <- {}

\* reach: the groups met in the least closed set, which is what LeanWalk finds.
Reach(l, starts, stmtOnly) ==
  LET visited == {c \in Decls : \A S \in SUBSET Decls :
                                  Walk(l, starts, stmtOnly)!Closed(S) => c \in S}
  IN  {Owner[c] : c \in {d \in visited : Owner[d] # {} /\ l \notin Owner[d]}}

Own(l) == {Alias[d] : d \in Lean[l]}
Used(f, S) == UNION {f[d] : d \in S}

StatementGroups(l) ==
  Reach(l, Used(types, Own(l)) \cup Used(values, Own(l) \ Theorems), TRUE)

\* The proofs of a definition's lemmas are not the definition's.
BodyGroups(l) ==
  Reach(l, Used(values, Own(l) \ IF l \in Definitions THEN Theorems ELSE {}), FALSE)

-----------------------------------------------------------------------------
(* Reachability between nodes.                                             *)

Holds(E, a, S) == E[a] \subseteq S /\ \A x \in S : E[x] \subseteq S

Closure(E, a) == {b \in Nodes : \A S \in SUBSET Nodes : Holds(E, a, S) => b \in S}

Direct == [l \in Nodes |-> UNION groups[l]]

Cluster(l) == {b \in Closure(Direct, l) : l \in Closure(Direct, b)}

-----------------------------------------------------------------------------
(* audit.                                                                  *)

Formal(l) == Lean[l] # {}
Formalized(l) == l \in IF l \in Definitions THEN stated ELSE proofOk

AllUses == [l \in Nodes |-> stmtUses[l] \cup proofUses[l]]
Uses == [l \in Nodes |-> AllUses[l] \ {l}]

UnusedInStatement(l, u) ==   \* mutant: stale edges of proofs are missed
  /\ Formal(l) /\ Formal(u) /\ u \notin Closure(Direct, l)
  /\ Lean[l] \cap Lean[u] = {}
  /\ u \in stmtUses[l]

Unused(l, u) ==
  /\ Formal(l) /\ Formal(u) /\ u \notin Closure(Direct, l)
  /\ Lean[l] \cap Lean[u] = {}
  /\ Formalized(l) \/ u \in stmtUses[l]

Unformalized(l) ==
  {u \in Uses[l] : Formalized(l) /\ ~Formalized(u) /\ u \notin stated}
Stale(l) == {u \in Uses[l] : Unused(l, u)} \ Unformalized(l)
UnprovedInStatement(l) ==   \* mutant: \uses of proofs are not looked at
  {u \in stmtUses[l] \ {l} : Formalized(l) /\ ~Formalized(u)}
    \ (Unformalized(l) \cup Stale(l))
Unproved(l) ==
  {u \in Uses[l] : Formalized(l) /\ ~Formalized(u)} \ (Unformalized(l) \cup Stale(l))

Kept == [l \in Nodes |-> Uses[l] \ (Stale(l) \cup Unformalized(l))]
Missing(l) ==
  {g \in groups[l] : g \cap Closure(Kept, l) = {} /\ g \cap Cluster(l) = {}}

OnCycle(E) == {l \in Nodes : l \in Closure(E, l)}
Shared == {c \in Decls : Cardinality(Owner[c]) > 1}

Passes ==
  /\ \A l \in Nodes : /\ Unformalized(l) = {} /\ Stale(l) = {} /\ Unproved(l) = {}
                      /\ Missing(l) = {}
  /\ OnCycle(AllUses) = {} /\ Shared = {}

-----------------------------------------------------------------------------
(* fix.                                                                    *)

DropStale(l) == IF l \in Only THEN Stale(l) ELSE {}   \* mutant
Drop(l) == IF l \in Only THEN Stale(l) \cup Unformalized(l) ELSE {}

FinalUndropped == [l \in Nodes |-> Uses[l] \cup added[l]]   \* mutant
Final == [l \in Nodes |-> (Uses[l] \ Drop(l)) \cup added[l]]

Below(l) == Cardinality(Closure(Direct, l))

\* height puts h no higher than g.
NoHigher(h, g) == \A b \in h : \E c \in g : Below(b) <= Below(c)

\* preferred: the most specific members of a group.
Preferred(g) ==
  {b \in g : \A c \in g : Cardinality(Lean[b]) <= Cardinality(Lean[c])}

\* A node without declarations keeps no groups.  consts[d]["v"] raises KeyError
\* for a listed constant that the dump does not have.
LeanEdges ==
  /\ pc = "dump" /\ \A l \in Nodes : Own(l) \subseteq Dumped
  /\ groups' = [l \in Nodes |-> StatementGroups(l) \cup BodyGroups(l)]
  /\ fromTypes' = [l \in Nodes |-> StatementGroups(l)]
  /\ pc' = "audit"
  /\ UNCHANGED <<types, values, marks, stmtUses, proofUses, work>>

KeyError ==
  /\ pc = "dump" /\ \E l \in Nodes : ~(Own(l) \subseteq Dumped)
  /\ pc' = "crashed"
  /\ UNCHANGED <<lean, marks, stmtUses, proofUses, work>>

NothingToFix ==
  /\ pc = "audit" /\ Passes
  /\ pc' = "done"
  /\ UNCHANGED <<lean, marks, stmtUses, proofUses, work>>

StartFix ==
  /\ pc = "audit" /\ ~Passes
  /\ pc' = "fix" /\ todo' = {l \in Nodes : Formal(l)}
  /\ UNCHANGED <<lean, marks, stmtUses, proofUses, cur, left, added>>

TakeAny(a) ==   \* mutant: dependencies do not come first
  /\ pc = "fix" /\ left = {}
  /\ todo' = todo \ {a} /\ cur' = a /\ left' = groups[a]
  /\ UNCHANGED <<lean, marks, stmtUses, proofUses, pc, added>>

\* Dependencies first.
Take(a) ==
  /\ pc = "fix" /\ left = {}
  /\ \A b \in todo : Below(a) <= Below(b)
  /\ todo' = todo \ {a} /\ cur' = a /\ left' = groups[a]
  /\ UNCHANGED <<lean, marks, stmtUses, proofUses, pc, added>>

\* The highest group first, which is passed over when it is reached already.
Consider(g) ==
  /\ pc = "fix" /\ \A h \in left : NoHigher(h, g)
  /\ left' = left \ {g}
  /\ IF g \cap Closure(Final, cur) # {} \/ g \cap Cluster(cur) # {}
     THEN UNCHANGED added
     ELSE \E b \in Preferred(g) : added' = [added EXCEPT ![cur] = @ \cup {b}]
  /\ UNCHANGED <<lean, marks, stmtUses, proofUses, pc, todo, cur>>

ToStatement(l) ==
  {b \in added[l] : l \notin hasProof \/ \E g \in fromTypes[l] : b \in g}

Rewrite ==
  /\ pc = "fix" /\ todo = {} /\ left = {}
  /\ stmtUses' = [l \in Nodes |-> (stmtUses[l] \ Drop(l))
                     \cup IF l \in Only THEN ToStatement(l) ELSE {}]
  /\ proofUses' = [l \in Nodes |-> (proofUses[l] \ Drop(l))
                     \cup IF l \in Only THEN added[l] \ ToStatement(l) ELSE {}]
  /\ pc' = "done"
  /\ UNCHANGED <<lean, marks, work>>

-----------------------------------------------------------------------------
Begin ==
  /\ groups = [l \in Nodes |-> {}] /\ fromTypes = groups
  /\ pc = "dump" /\ todo = {} /\ left = {} /\ cur \in Nodes
  /\ added = [l \in Nodes |-> {}]

Init ==
  /\ types \in [Decls -> SUBSET Decls] /\ values \in [Decls -> SUBSET Decls]
  /\ \A c \in Decls \ Dumped : types[c] = {} /\ values[c] = {}
  /\ stmtUses \in [Nodes -> SUBSET Nodes]
  /\ proofUses \in [Nodes -> SUBSET Nodes]
  /\ \A l \in Nodes \ hasProof : proofUses[l] = {}
  /\ stated \subseteq Nodes /\ hasProof \subseteq Nodes /\ proofOk \subseteq hasProof
  /\ Begin

Next ==
  \/ LeanEdges \/ KeyError \/ NothingToFix \/ StartFix \/ Rewrite
  \/ \E a \in todo : Take(a)
  \/ \E g \in left : Consider(g)

Spec == Init /\ [][Next]_vars

-----------------------------------------------------------------------------
(* What the audit and the rewriting promise.                               *)

Cited(l) == Closure(AllUses, l)
LeanOrders == \A l \in Nodes : l \notin Closure(Direct, l)
AllProved == \A l \in Nodes : Formal(l) /\ Formalized(l)

\* Every variable has its type: only Lean edges are added, and a node without a
\* proof environment has no \uses in one.
TypeOK ==
  /\ types \in [Decls -> SUBSET Decls] /\ values \in [Decls -> SUBSET Decls]
  /\ groups \in [Nodes -> SUBSET SUBSET Nodes]
  /\ fromTypes \in [Nodes -> SUBSET SUBSET Nodes]
  /\ stmtUses \in [Nodes -> SUBSET Nodes]
  /\ proofUses \in [Nodes -> SUBSET Nodes]
  /\ \A l \in Nodes \ hasProof : proofUses[l] = {}
  /\ stated \subseteq Nodes /\ hasProof \subseteq Nodes /\ proofOk \subseteq hasProof
  /\ pc \in {"dump", "audit", "fix", "done", "crashed"}
  /\ todo \subseteq Nodes /\ cur \in Nodes /\ left \subseteq groups[cur]
  /\ added \in [Nodes -> SUBSET Nodes]
  /\ \A l \in Nodes : added[l] \subseteq Direct[l]

\* "When the check passes, every graph node that a proved result cites, directly
\* or through others, is a proved result or a formalized definition": so the
\* colours of leanblueprint's graph are dark for a whole ancestry at once.
GreenAncestors ==
  Passes => \A l \in Nodes : Formalized(l) => \A b \in Cited(l) : Formalized(b)

\* "Edges are compared up to reachability": when the check passes, everything is
\* formalized and Lean orders the nodes, \uses and Lean reach the same nodes,
\* although neither's edges need be the other's.
SameReach ==
  (pc \in {"audit", "fix", "done"} /\ Passes /\ AllProved /\ LeanOrders)
    => \A l \in Nodes : Cited(l) = Closure(Direct, l)

\* --fix on all nodes leaves nothing for the audit that follows it when every
\* node is formalized, none cites itself, no constant is shared, and Lean orders
\* the nodes.
FixLeavesNothing ==
  (/\ pc = "done" /\ Only = Nodes
   /\ AllProved /\ LeanOrders /\ Shared = {}
   /\ \A l \in Nodes : l \notin AllUses[l]) => Passes

\* Whatever is formalized: after --fix no edge is stale, and an edge to a node
\* without a statement in Lean is there only because Lean uses that node.
FixDropsStale ==
  (pc = "done" /\ Only = Nodes)
    => \A l \in Nodes : Stale(l) = {} /\ Unformalized(l) \subseteq Direct[l]

\* What --fix drops and adds in one rewriting, from one audit, leaves nothing for the
\* next audit, on both accounts.
FixPasses == FixLeavesNothing /\ FixDropsStale

\* "--fix adds few edges": run on all nodes of a blueprint in which every result is proved
\* and every definition formalized, and which Lean orders with no constant shared, it adds
\* no edge that the others it leaves imply, whichever came first. With an unfinished node
\* it may: Z, unformalized, cites X; B uses X and Z in Lean, as high as each other; X is
\* added to B and then Z, through which X was to be had.
NoNeedlessEdge ==
  (pc = "done" /\ Only = Nodes /\ AllProved /\ LeanOrders /\ Shared = {})
    => \A l \in Nodes : \A b \in added[l] :
         b \notin Closure([Final EXCEPT ![l] = @ \ {b}], l)
=============================================================================
