------------------------- MODULE BlueprintEdgesProofs -------------------------
(***************************************************************************)
(* What a passing audit means and what --fix reaches, for every blueprint  *)
(* and every dump; and what scripts/lean-coverage.py says of the           *)
(* blueprint: its guards, its cross references and its mathematics.        *)
(***************************************************************************)
EXTENDS BlueprintEdges, LeanCoverage, TexProblems, FiniteSetTheorems, WellFoundedInduction, TLAPS

Edges == [Nodes -> SUBSET Nodes]

-----------------------------------------------------------------------------
(* Reachability: Closure(E, a) is the least set that Holds.                *)

LEMMA ClosureHolds ==
  ASSUME NEW E \in Edges, NEW a \in Nodes
  PROVE  Closure(E, a) \subseteq Nodes /\ Holds(E, a, Closure(E, a))
  BY DEF Closure, Holds, Edges

LEMMA ClosureLeast ==
  ASSUME NEW E \in Edges, NEW a \in Nodes,
         NEW S \in SUBSET Nodes, Holds(E, a, S)
  PROVE  Closure(E, a) \subseteq S
  BY DEF Closure

\* Edges that another graph reaches reach no more than it does.
LEMMA ClosureWithin ==
  ASSUME NEW E \in Edges, NEW F \in Edges, NEW a \in Nodes,
         \A x \in Nodes : E[x] \subseteq Closure(F, x)
  PROVE  Closure(E, a) \subseteq Closure(F, a)
  <1> DEFINE S == Closure(F, a)
  <1>1. S \in SUBSET Nodes /\ Holds(F, a, S)
    BY ClosureHolds
  <1>2. ASSUME NEW x \in S PROVE Closure(F, x) \subseteq S
    <2>1. Holds(F, x, S)
      BY <1>1 DEF Holds
    <2>2. x \in Nodes
      BY <1>1
    <2> HIDE DEF S
    <2>3. QED BY <1>1, <2>1, <2>2, ClosureLeast
  <1>3. Holds(E, a, S)
    <2>1. E[a] \subseteq S
      OBVIOUS
    <2>2. ASSUME NEW x \in S PROVE E[x] \subseteq S
      BY <1>1, <1>2
    <2>3. QED BY <2>1, <2>2 DEF Holds
  <1> HIDE DEF S
  <1>4. Closure(E, a) \subseteq S
    BY <1>1, <1>3, ClosureLeast
  <1>5. QED BY <1>4 DEF S

LEMMA ClosureStep ==
  ASSUME NEW E \in Edges, NEW a \in Nodes
  PROVE  E[a] \subseteq Closure(E, a)
  BY ClosureHolds DEF Holds

LEMMA ClosureMonotone ==
  ASSUME NEW E \in Edges, NEW F \in Edges, NEW a \in Nodes,
         \A x \in Nodes : E[x] \subseteq F[x]
  PROVE  Closure(E, a) \subseteq Closure(F, a)
  <1>1. \A x \in Nodes : E[x] \subseteq Closure(F, x)
    BY ClosureStep
  <1>2. QED BY <1>1, ClosureWithin

-----------------------------------------------------------------------------
(* The audit's sets have their types.                                      *)

\* Every group is the set of nodes that list some constant.
GroupsOwned == \A l \in Nodes : \A g \in groups[l] : \E c \in Decls : g = Owner[c]

\* Nothing is planned before fix starts.
NotStarted == pc \in {"dump", "audit"} => left = {} /\ added = [l \in Nodes |-> {}]

LEMMA AuditTypes ==
  ASSUME TypeOK
  PROVE  /\ Direct \in Edges /\ AllUses \in Edges /\ Uses \in Edges
         /\ Kept \in Edges /\ Final \in Edges
         /\ \A l \in Nodes : Kept[l] \subseteq Uses[l] /\ Uses[l] \subseteq AllUses[l]
  BY DEF TypeOK, Edges, Direct, AllUses, Uses, Kept, Final, Drop, Stale, Unformalized

\* A constant has one home, when none is shared.
LEMMA OneHome ==
  ASSUME Shared = {}, NEW c \in Decls, NEW l \in Owner[c], NEW u \in Owner[c]
  PROVE  l = u
  <1>1. Owner[c] \subseteq Nodes
    BY DEF Owner
  <1>2. IsFiniteSet(Owner[c])
    BY <1>1, NodesAssumption, FS_Subset
  <1>3. Cardinality(Owner[c]) \in Nat /\ ~(Cardinality(Owner[c]) > 1)
    BY <1>2, FS_CardinalityType DEF Shared
  <1>4. ASSUME l # u PROVE FALSE
    <2>1. {l, u} \subseteq Owner[c]
      OBVIOUS
    <2>2. Cardinality({l, u}) <= Cardinality(Owner[c])
      BY <1>2, <2>1, FS_Subset
    <2>3. Cardinality({l, u}) = 2
      <3>1. Cardinality({l}) = 1 /\ IsFiniteSet({l})
        BY FS_Singleton
      <3>2. Cardinality({l} \cup {u}) = Cardinality({l}) + 1
        BY <1>4, <3>1, FS_AddElement
      <3>3. {l} \cup {u} = {l, u}
        OBVIOUS
      <3>4. QED BY <3>1, <3>2, <3>3
    <2>4. QED BY <1>3, <2>2, <2>3
  <1>5. QED BY <1>4

LEMMA DisjointHomes ==
  ASSUME Shared = {}, NEW l \in Nodes, NEW u \in Nodes, l # u
  PROVE  Lean[l] \cap Lean[u] = {}
  <1>1. ASSUME NEW c \in Lean[l], c \in Lean[u] PROVE FALSE
    <2>1. c \in Decls
      BY DeclsAssumption
    <2>2. l \in Owner[c] /\ u \in Owner[c]
      BY <1>1, <2>1 DEF Owner
    <2>3. QED BY <2>1, <2>2, OneHome
  <1>2. QED BY <1>1

-----------------------------------------------------------------------------
(* What a passing audit means.                                             *)

LEMMA PassesMeansGreen == TypeOK => GreenAncestors
  <1> SUFFICES ASSUME TypeOK, Passes, NEW l \in Nodes, Formalized(l)
               PROVE  \A b \in Cited(l) : Formalized(b)
    BY DEF GreenAncestors
  <1> DEFINE S == {b \in Nodes : Formalized(b)}
  <1>1. AllUses \in Edges
    BY AuditTypes
  <1>2. ASSUME NEW x \in S, NEW u \in AllUses[x] PROVE u \in S
    <2>1. x \in Nodes /\ u \in Nodes /\ Formalized(x)
      BY <1>1 DEF Edges
    <2>2. CASE u = x
      BY <2>2
    <2>3. CASE u # x
      <3>1. u \in Uses[x]
        BY <2>1, <2>3 DEF Uses
      <3>2. u \notin Unformalized(x) /\ u \notin Stale(x) /\ u \notin Unproved(x)
        BY <2>1 DEF Passes
      <3>3. Formalized(u)
        BY <2>1, <3>1, <3>2 DEF Unproved
      <3>4. QED BY <2>1, <3>3
    <2>4. QED BY <2>2, <2>3
  <1>3. l \in S
    OBVIOUS
  <1>4. S \in SUBSET Nodes
    OBVIOUS
  <1> HIDE DEF S
  <1>5. Holds(AllUses, l, S)
    BY <1>2, <1>3 DEF Holds
  <1>6. Closure(AllUses, l) \subseteq S
    BY <1>1, <1>4, <1>5, ClosureLeast
  <1>7. QED BY <1>6 DEF S, Cited

\* Everything cited is reached in Lean, when nothing else is left to say of it.
LEMMA UsedIsReached ==
  ASSUME TypeOK, AllProved, Shared = {},
         NEW l \in Nodes, NEW u \in Uses[l], u \notin Stale(l)
  PROVE  u \in Closure(Direct, l)
  <1>1. u \in Nodes /\ u # l
    BY AuditTypes DEF Edges, Uses
  <1>2. Formal(l) /\ Formal(u) /\ Formalized(l) /\ Formalized(u)
    BY <1>1 DEF AllProved
  <1>3. u \notin Unformalized(l)
    BY <1>2 DEF Unformalized
  <1>4. ~Unused(l, u)
    BY <1>3 DEF Stale
  <1>5. QED BY <1>1, <1>2, <1>4, DisjointHomes DEF Unused

LEMMA PassesMeansSameReach == TypeOK /\ GroupsOwned => SameReach
  <1> SUFFICES ASSUME TypeOK, GroupsOwned, Passes, AllProved, LeanOrders, NEW a \in Nodes
               PROVE  Cited(a) = Closure(Direct, a)
    BY DEF SameReach
  <1>1. Direct \in Edges /\ AllUses \in Edges /\ Kept \in Edges
    BY AuditTypes
  <1>2. ASSUME NEW l \in Nodes PROVE AllUses[l] \subseteq Closure(Direct, l)
    <2>1. l \notin AllUses[l]
      <3>1. l \notin Closure(AllUses, l)
        BY DEF Passes, OnCycle
      <3>2. QED BY <1>1, <3>1, ClosureStep
    <2>2. Uses[l] = AllUses[l]
      BY <2>1 DEF Uses
    <2>3. Stale(l) = {} /\ Shared = {}
      BY DEF Passes
    <2>4. QED BY <2>2, <2>3, UsedIsReached
  <1>3. ASSUME NEW l \in Nodes PROVE Direct[l] \subseteq Closure(AllUses, l)
    <2> SUFFICES ASSUME NEW g \in groups[l], NEW b \in g
                 PROVE  b \in Closure(AllUses, l)
      BY DEF Direct
    <2>1. Cluster(l) = {}
      <3>1. ASSUME NEW x \in Cluster(l) PROVE FALSE
        <4>1. x \in Nodes /\ x \in Closure(Direct, l) /\ l \in Closure(Direct, x)
          BY <1>1, ClosureHolds DEF Cluster
        <4>2. Holds(Direct, x, Closure(Direct, l))
          BY <1>1, <4>1, ClosureHolds DEF Holds
        <4>3. Closure(Direct, x) \subseteq Closure(Direct, l)
          BY <1>1, <4>1, <4>2, ClosureHolds, ClosureLeast
        <4>4. QED BY <4>1, <4>3 DEF LeanOrders
      <3>2. QED BY <3>1
    <2>2. g \cap Closure(Kept, l) # {}
      BY <2>1 DEF Passes, Missing
    <2>3. b \in Closure(Kept, l)
      <3>1. PICK c \in Decls : g = Owner[c]
        BY DEF GroupsOwned
      <3>2. PICK x : x \in g /\ x \in Closure(Kept, l)
        BY <2>2
      <3>3. x = b
        BY <3>1, <3>2, OneHome DEF Passes
      <3>4. QED BY <3>2, <3>3
    <2>4. Closure(Kept, l) \subseteq Closure(AllUses, l)
      <3>1. \A x \in Nodes : Kept[x] \subseteq AllUses[x]
        BY AuditTypes
      <3>2. QED BY <1>1, <3>1, ClosureMonotone
    <2>5. QED BY <2>3, <2>4
  <1>4. Closure(AllUses, a) \subseteq Closure(Direct, a)
    BY <1>1, <1>2, ClosureWithin
  <1>5. Closure(Direct, a) \subseteq Closure(AllUses, a)
    BY <1>1, <1>3, ClosureWithin
  <1>6. QED BY <1>4, <1>5 DEF Cited

-----------------------------------------------------------------------------
(* The invariant: types, the shape of groups, and, while fix runs, that    *)
(* every group already considered is reached.                              *)

Served(l, g) == g \cap Closure(Final, l) # {} \/ g \cap Cluster(l) # {}

Progress ==
  pc = "fix" => \A l \in Nodes : Formal(l) /\ l \notin todo =>
    \A g \in groups[l] : (l = cur /\ g \in left) \/ Served(l, g)

Inv ==
  /\ TypeOK /\ GroupsOwned /\ NotStarted /\ Progress
  /\ FixDropsStale /\ FixLeavesNothing

LEMMA GroupTypes ==
  ASSUME NEW l \in Nodes
  PROVE  /\ StatementGroups(l) \in SUBSET SUBSET Nodes
         /\ BodyGroups(l) \in SUBSET SUBSET Nodes
         /\ \A g \in StatementGroups(l) \cup BodyGroups(l) : \E c \in Decls : g = Owner[c]
  <1>1. ASSUME NEW starts, NEW b
        PROVE  \A g \in Reach(l, starts, b) : \E c \in Decls : g = Owner[c]
    BY DEF Reach
  <1>2. \A c \in Decls : Owner[c] \in SUBSET Nodes
    BY DEF Owner
  <1>3. \A g \in StatementGroups(l) \cup BodyGroups(l) : \E c \in Decls : g = Owner[c]
    BY <1>1 DEF StatementGroups, BodyGroups
  <1>4. QED BY <1>2, <1>3

LEMMA InvInit == Init => Inv
  <1> SUFFICES ASSUME Init PROVE Inv
    OBVIOUS
  <1>1. pc = "dump" /\ left = {} /\ todo = {} /\ cur \in Nodes
        /\ added = [l \in Nodes |-> {}]
        /\ groups = [l \in Nodes |-> {}] /\ fromTypes = [l \in Nodes |-> {}]
    BY DEF Init, Begin
  <1>2. TypeOK
    BY <1>1 DEF Init, TypeOK
  <1>3. QED BY <1>1, <1>2 DEF Inv, GroupsOwned, NotStarted, Progress, FixDropsStale, FixLeavesNothing

\* The audit reads the marks, the groups and \uses, nothing else.
LEMMA AuditFixed ==
  ASSUME UNCHANGED <<lean, marks, stmtUses, proofUses>>
  PROVE  /\ Direct' = Direct /\ AllUses' = AllUses /\ Uses' = Uses
         /\ \A l : Cluster(l)' = Cluster(l)
         /\ \A l : /\ Stale(l)' = Stale(l) /\ Unformalized(l)' = Unformalized(l)
                   /\ Unproved(l)' = Unproved(l) /\ Missing(l)' = Missing(l)
                   /\ Drop(l)' = Drop(l)
         /\ Passes' = Passes
  BY DEF lean, marks, Direct, AllUses, Uses, Cluster, Stale, Unformalized, Unproved,
         Missing, Drop, Kept, Unused, Formalized, Passes, OnCycle, Shared

LEMMA NextTypes ==
  ASSUME Inv, Next
  PROVE  TypeOK' /\ GroupsOwned' /\ NotStarted'
  <1>1. CASE LeanEdges
    <2>1. left = {} /\ added = [l \in Nodes |-> {}]
      BY <1>1 DEF LeanEdges, Inv, NotStarted
    <2>2. /\ groups' = [l \in Nodes |-> StatementGroups(l) \cup BodyGroups(l)]
          /\ fromTypes' = [l \in Nodes |-> StatementGroups(l)] /\ pc' = "audit"
          /\ UNCHANGED <<types, values, marks, stmtUses, proofUses, work>>
      BY <1>1 DEF LeanEdges
    <2>3. groups' \in [Nodes -> SUBSET SUBSET Nodes] /\ fromTypes' \in [Nodes -> SUBSET SUBSET Nodes]
      BY <2>2, GroupTypes
    <2>4. TypeOK'
      BY <2>1, <2>2, <2>3 DEF Inv, TypeOK, marks, work
    <2>5. GroupsOwned'
      BY <2>2, GroupTypes DEF GroupsOwned, Owner
    <2>6. NotStarted'
      BY <2>1, <2>2 DEF NotStarted, work
    <2>7. QED BY <2>4, <2>5, <2>6
  <1>2. CASE KeyError \/ NothingToFix
    BY <1>2 DEF KeyError, NothingToFix, Inv, TypeOK, GroupsOwned, NotStarted,
                Direct, lean, marks, work, Owner
  <1>3. CASE StartFix
    BY <1>3 DEF StartFix, Inv, TypeOK, GroupsOwned, NotStarted, Direct, lean, marks, Owner
  <1>4. ASSUME NEW a \in todo, Take(a) PROVE TypeOK' /\ GroupsOwned' /\ NotStarted'
    BY <1>4 DEF Take, Inv, TypeOK, GroupsOwned, NotStarted, Direct, lean, marks, Owner
  <1>5. ASSUME NEW g \in left, Consider(g) PROVE TypeOK' /\ GroupsOwned' /\ NotStarted'
    <2>1. /\ left' \subseteq left /\ pc = "fix"
          /\ UNCHANGED <<lean, marks, stmtUses, proofUses, pc, todo, cur>>
      BY <1>5 DEF Consider
    <2>2. added' \in [Nodes -> SUBSET Nodes] /\ \A l \in Nodes : added'[l] \subseteq Direct[l]
      <3>1. CASE UNCHANGED added
        BY <3>1 DEF Inv, TypeOK
      <3>2. ASSUME NEW b \in Preferred(g), added' = [added EXCEPT ![cur] = @ \cup {b}]
            PROVE  added' \in [Nodes -> SUBSET Nodes]
                   /\ \A l \in Nodes : added'[l] \subseteq Direct[l]
        <4>1. b \in g /\ g \in groups[cur] /\ cur \in Nodes /\ b \in Nodes
          BY <3>2 DEF Preferred, Inv, TypeOK
        <4>2. b \in Direct[cur]
          BY <4>1 DEF Direct
        <4>3. QED BY <3>2, <4>1, <4>2 DEF Inv, TypeOK
      <3>3. QED BY <1>5, <3>1, <3>2 DEF Consider
    <2>3. Direct' = Direct
      BY <2>1 DEF Direct, lean
    <2>4. TypeOK'
      BY <2>1, <2>2, <2>3 DEF Inv, TypeOK, lean, marks
    <2>5. GroupsOwned' /\ NotStarted'
      BY <2>1 DEF Inv, GroupsOwned, NotStarted, lean, Owner
    <2>6. QED BY <2>4, <2>5
  <1>6. CASE Rewrite
    <2>1. /\ stmtUses' = [l \in Nodes |-> (stmtUses[l] \ Drop(l))
                             \cup IF l \in Only THEN ToStatement(l) ELSE {}]
          /\ proofUses' = [l \in Nodes |-> (proofUses[l] \ Drop(l))
                             \cup IF l \in Only THEN added[l] \ ToStatement(l) ELSE {}]
          /\ pc' = "done" /\ UNCHANGED <<lean, marks, work>>
      BY <1>6 DEF Rewrite
    <2>2. \A l \in Nodes : ToStatement(l) \subseteq added[l] /\ added[l] \subseteq Nodes
      BY DEF ToStatement, Inv, TypeOK
    <2>3. stmtUses' \in [Nodes -> SUBSET Nodes] /\ proofUses' \in [Nodes -> SUBSET Nodes]
      BY <2>1, <2>2 DEF Inv, TypeOK
    <2>4. \A l \in Nodes \ hasProof : proofUses'[l] = {}
      BY <2>1 DEF ToStatement, Inv, TypeOK
    <2>5. QED BY <2>1, <2>3, <2>4
             DEF Inv, TypeOK, GroupsOwned, NotStarted, Direct, lean, marks, work, Owner
  <1>7. QED BY <1>1, <1>2, <1>3, <1>4, <1>5, <1>6 DEF Next

LEMMA NextProgress ==
  ASSUME Inv, Next
  PROVE  Progress'
  <1>1. CASE LeanEdges \/ KeyError \/ NothingToFix \/ Rewrite
    BY <1>1 DEF LeanEdges, KeyError, NothingToFix, Rewrite, Progress
  <1>2. CASE StartFix
    BY <1>2 DEF StartFix, Progress, lean
  <1>3. ASSUME NEW a \in todo, Take(a) PROVE Progress'
    <2>1. /\ pc = "fix" /\ left = {} /\ todo' = todo \ {a} /\ cur' = a /\ left' = groups[a]
          /\ groups' = groups /\ UNCHANGED <<lean, marks, stmtUses, proofUses, pc, added>>
      BY <1>3 DEF Take, lean
    <2>2. Final' = Final /\ Direct' = Direct /\ \A l : Cluster(l)' = Cluster(l)
      BY <2>1, AuditFixed DEF Final
    <2>3. \A l, g : Served(l, g)' = Served(l, g)
      BY <2>2 DEF Served
    <2>4. QED BY <2>1, <2>3 DEF Inv, Progress
  <1>4. ASSUME NEW g \in left, Consider(g) PROVE Progress'
    <2>1. /\ pc = "fix" /\ left' = left \ {g} /\ groups' = groups
          /\ UNCHANGED <<lean, marks, stmtUses, proofUses, pc, todo, cur>>
      BY <1>4 DEF Consider, lean
    <2>2. Uses' = Uses /\ (\A l : Drop(l)' = Drop(l)) /\ (\A l : Cluster(l)' = Cluster(l))
      BY <2>1, AuditFixed
    <2>3. /\ cur \in Nodes /\ g \in SUBSET Nodes
          /\ TypeOK /\ TypeOK' /\ Final \in Edges /\ Final' \in Edges
      <3>1. TypeOK'
        BY NextTypes
      <3>2. Final' \in Edges
        BY <3>1, AuditTypes DEF TypeOK, Edges, Final, Uses, AllUses, Drop
      <3>3. QED BY <3>1, <3>2, AuditTypes DEF Inv, TypeOK
    <2>4. \A l \in Nodes : Final[l] \subseteq Final'[l]
      <3>1. \A l \in Nodes : added[l] \subseteq added'[l]
        <4>1. CASE UNCHANGED added
          BY <4>1
        <4>2. CASE \E b : added' = [added EXCEPT ![cur] = @ \cup {b}]
          BY <4>2 DEF Inv, TypeOK
        <4>3. QED BY <1>4, <4>1, <4>2 DEF Consider
      <3>2. QED BY <2>2, <3>1 DEF Final
    <2>5. ASSUME NEW l \in Nodes, NEW h, Served(l, h) PROVE Served(l, h)'
      <3>1. Closure(Final, l) \subseteq Closure(Final', l)
        BY <2>3, <2>4, ClosureMonotone
      <3>2. QED BY <2>2, <2>5, <3>1 DEF Served
    <2>6. ASSUME NEW l \in Nodes, l = cur PROVE Served(l, g)'
      <3>1. CASE g \cap Closure(Final, cur) # {} \/ g \cap Cluster(cur) # {}
        BY <2>5, <2>6, <3>1 DEF Served
      <3>2. ASSUME NEW b \in Preferred(g), added' = [added EXCEPT ![cur] = @ \cup {b}]
            PROVE  Served(l, g)'
        <4>1. b \in g /\ b \in added'[cur]
          BY <2>3, <3>2 DEF Preferred, Inv, TypeOK
        <4>2. b \in Final'[l]
          BY <2>6, <4>1 DEF Final
        <4>3. b \in Closure(Final', l)
          BY <2>3, <4>2, ClosureStep
        <4>4. QED BY <4>1, <4>3 DEF Served
      <3>3. QED BY <1>4, <3>1, <3>2 DEF Consider
    <2>7. QED BY <2>1, <2>5, <2>6 DEF Inv, Progress
  <1>5. QED BY <1>1, <1>2, <1>3, <1>4 DEF Next

-----------------------------------------------------------------------------
(* No added edge is needless.  Nodes are taken by what is below them, and  *)
(* so are the groups of a node: what is added later is never below what    *)
(* was added before.                                                       *)

Orderly == Only = Nodes /\ AllProved /\ LeanOrders /\ Shared = {}

\* No added edge is implied by another edge of its node.
Needed ==
  (pc = "fix" /\ Orderly) =>
    \A l \in Nodes : \A b \in added[l] : \A x \in Final[l] \ {b} : b \notin Closure(Final, x)

Ascending ==
  (pc = "fix" /\ Orderly) =>
    /\ \A l \in todo : added[l] = {}
    /\ \A l \in Nodes \ todo, y \in todo : Below(l) <= Below(y)
    /\ \/ left = {} /\ todo = Nodes
       \/ cur \notin todo /\ \A l \in Nodes \ todo : Below(l) <= Below(cur)
    /\ \A h \in left : \A x \in h, b \in added[cur] : Below(x) <= Below(b)

LEMMA BelowNat ==
  ASSUME TypeOK, NEW l \in Nodes
  PROVE  IsFiniteSet(Closure(Direct, l)) /\ Below(l) \in Nat
  <1>1. Closure(Direct, l) \subseteq Nodes
    BY AuditTypes, ClosureHolds
  <1>2. IsFiniteSet(Closure(Direct, l))
    BY <1>1, NodesAssumption, FS_Subset
  <1>3. QED BY <1>2, FS_CardinalityType DEF Below

\* What Lean reaches from a node has strictly less below it.
LEMMA BelowFalls ==
  ASSUME TypeOK, LeanOrders, NEW l \in Nodes, NEW x \in Closure(Direct, l)
  PROVE  x \in Nodes /\ Below(x) < Below(l)
  <1>1. Direct \in Edges /\ x \in Nodes
    BY AuditTypes, ClosureHolds
  <1>2. Holds(Direct, x, Closure(Direct, l)) /\ Closure(Direct, l) \in SUBSET Nodes
    BY <1>1, ClosureHolds DEF Holds
  <1>3. Closure(Direct, x) \subseteq Closure(Direct, l)
    BY <1>1, <1>2, ClosureLeast
  <1>4. Closure(Direct, x) # Closure(Direct, l)
    BY <1>1 DEF LeanOrders
  <1>5. Below(x) <= Below(l) /\ (Below(x) = Below(l) => Closure(Direct, x) = Closure(Direct, l))
    BY <1>1, <1>3, BelowNat, FS_Subset DEF Below
  <1>6. QED BY <1>1, <1>4, <1>5, BelowNat

LEMMA FinalIsReached ==
  ASSUME TypeOK, Orderly, NEW l \in Nodes
  PROVE  Final[l] \subseteq Closure(Direct, l)
  <1>1. added[l] \subseteq Closure(Direct, l)
    BY AuditTypes, ClosureStep DEF TypeOK
  <1>2. ASSUME NEW u \in Uses[l], u \notin Drop(l) PROVE u \in Closure(Direct, l)
    <2>1. u \notin Stale(l)
      BY <1>2 DEF Drop, Orderly
    <2>2. QED BY <2>1, UsedIsReached DEF Orderly
  <1>3. QED BY <1>1, <1>2 DEF Final

\* An edge added to a node that x does not reach leaves what x reaches.
LEMMA AddedElsewhere ==
  ASSUME NEW E \in Edges, NEW F \in Edges, NEW x \in Nodes, NEW a,
         \A y \in Nodes : y # a => F[y] = E[y],
         x # a, a \notin Closure(E, x)
  PROVE  Closure(F, x) \subseteq Closure(E, x)
  <1>1. Closure(E, x) \in SUBSET Nodes /\ Holds(E, x, Closure(E, x))
    BY ClosureHolds
  <1>2. Holds(F, x, Closure(E, x))
    BY <1>1 DEF Holds
  <1>3. QED BY <1>1, <1>2, ClosureLeast

LEMMA NextAscending ==
  ASSUME Inv, Ascending, Next
  PROVE  Ascending'
  <1>1. CASE LeanEdges \/ KeyError \/ NothingToFix \/ Rewrite
    BY <1>1 DEF LeanEdges, KeyError, NothingToFix, Rewrite, Ascending
  <1>2. CASE ~(LeanEdges \/ KeyError \/ NothingToFix \/ Rewrite)
    <2> SUFFICES ASSUME pc' = "fix", Orderly'
                 PROVE  /\ \A l \in todo' : added'[l] = {}
                        /\ \A l \in Nodes \ todo', y \in todo' : Below(l) <= Below(y)
                        /\ \/ left' = {} /\ todo' = Nodes
                           \/ /\ cur' \notin todo'
                              /\ \A l \in Nodes \ todo' : Below(l) <= Below(cur')
                        /\ \A h \in left' : \A x \in h, b \in added'[cur'] :
                              Below(x) <= Below(b)
      <3>1. Direct' = Direct
        BY <1>2 DEF Next, StartFix, Take, Consider, lean, Direct
      <3>2. \A l : Below(l)' = Below(l) /\ Below(cur') = Below(cur)'
        BY <3>1 DEF Below
      <3>3. QED BY <3>1 DEF Ascending, Below
    <2>1. UNCHANGED <<lean, marks, stmtUses, proofUses>>
      BY <1>2 DEF Next, StartFix, Take, Consider
    <2>2. Orderly
      BY <2>1 DEF Orderly, AllProved, LeanOrders, Formal, Formalized, Direct, Shared, Owner,
                  lean, marks
    <2>3. CASE StartFix
      BY <2>2, <2>3 DEF StartFix, Orderly, AllProved, Inv, NotStarted
    <2>4. ASSUME NEW a \in todo, Take(a)
          PROVE  /\ \A l \in todo' : added'[l] = {}
                 /\ \A l \in Nodes \ todo', y \in todo' : Below(l) <= Below(y)
                 /\ cur' \notin todo' /\ \A l \in Nodes \ todo' : Below(l) <= Below(cur')
                 /\ \A h \in left' : \A x \in h, b \in added'[cur'] : Below(x) <= Below(b)
      <3>1. /\ pc = "fix" /\ \A b \in todo : Below(a) <= Below(b)
            /\ todo' = todo \ {a} /\ cur' = a /\ added' = added
        BY <2>4 DEF Take
      <3>2. todo \subseteq Nodes /\ \A l \in Nodes : Below(l) \in Nat
        BY BelowNat DEF Inv, TypeOK
      <3>3. /\ \A l \in todo : added[l] = {}
            /\ \A l \in Nodes \ todo, y \in todo : Below(l) <= Below(y)
        BY <2>2, <3>1 DEF Ascending
      <3>4. QED BY <3>1, <3>2, <3>3
    <2>5. ASSUME NEW g \in left, Consider(g)
          PROVE  /\ \A l \in todo' : added'[l] = {}
                 /\ \A l \in Nodes \ todo', y \in todo' : Below(l) <= Below(y)
                 /\ cur' \notin todo' /\ \A l \in Nodes \ todo' : Below(l) <= Below(cur')
                 /\ \A h \in left' : \A x \in h, b \in added'[cur'] : Below(x) <= Below(b)
      <3>1. /\ pc = "fix" /\ todo' = todo /\ cur' = cur /\ left' = left \ {g}
            /\ \A h \in left : NoHigher(h, g)
        BY <2>5 DEF Consider
      <3>2. /\ \A l \in todo : added[l] = {}
            /\ \A l \in Nodes \ todo, y \in todo : Below(l) <= Below(y)
            /\ cur \notin todo /\ \A l \in Nodes \ todo : Below(l) <= Below(cur)
            /\ \A h \in left : \A x \in h, b \in added[cur] : Below(x) <= Below(b)
        BY <2>2, <2>5, <3>1 DEF Ascending
      <3>3. CASE UNCHANGED added
        BY <3>1, <3>2, <3>3
      <3>4. ASSUME NEW b \in Preferred(g), added' = [added EXCEPT ![cur] = @ \cup {b}]
            PROVE  /\ \A l \in todo' : added'[l] = {}
                   /\ \A h \in left' : \A x \in h, c \in added'[cur'] : Below(x) <= Below(c)
        <4>1. /\ cur \in Nodes /\ todo \subseteq Nodes /\ added \in [Nodes -> SUBSET Nodes]
              /\ b \in g /\ \A h \in left : h \in groups[cur]
          BY DEF Preferred, Inv, TypeOK
        <4>2. added'[cur] = added[cur] \cup {b} /\ \A l \in Nodes \ {cur} : added'[l] = added[l]
          BY <3>4, <4>1
        <4>3. g = {b}
          <5>1. PICK d \in Decls : g = Owner[d]
            BY <4>1 DEF Inv, GroupsOwned
          <5>2. QED BY <2>2, <4>1, <5>1, OneHome DEF Orderly
        <4>4. ASSUME NEW h \in left, NEW x \in h PROVE Below(x) <= Below(b)
          BY <3>1, <4>3, <4>4 DEF NoHigher
        <4>5. QED BY <3>1, <3>2, <3>4, <4>1, <4>2, <4>4
      <3>5. QED BY <2>5, <3>1, <3>2, <3>3, <3>4 DEF Consider
    <2>6. QED BY <1>2, <2>3, <2>4, <2>5 DEF Next
  <1>3. QED BY <1>1, <1>2

-----------------------------------------------------------------------------
(* What fix reaches.                                                       *)

\* What the rewritten lists hold, when all nodes may be rewritten.
LEMMA Rewritten ==
  ASSUME TypeOK, Rewrite, Only = Nodes, NEW l \in Nodes
  PROVE  /\ AllUses'[l] = (AllUses[l] \ Drop(l)) \cup added[l]
         /\ Uses'[l] = ((AllUses[l] \ Drop(l)) \cup added[l]) \ {l}
         /\ stmtUses'[l] \subseteq (stmtUses[l] \ Drop(l)) \cup added[l]
         /\ Direct' = Direct /\ added[l] \subseteq Closure(Direct, l)
  <1>1. /\ stmtUses'[l] = (stmtUses[l] \ Drop(l)) \cup ToStatement(l)
        /\ proofUses'[l] = (proofUses[l] \ Drop(l)) \cup (added[l] \ ToStatement(l))
    BY DEF Rewrite
  <1>2. ToStatement(l) \subseteq added[l]
    BY DEF ToStatement
  <1>3. AllUses'[l] = (AllUses[l] \ Drop(l)) \cup added[l]
    BY <1>1, <1>2 DEF AllUses
  <1>4. Uses'[l] = AllUses'[l] \ {l}
    BY DEF Uses
  <1>5. Direct' = Direct
    BY DEF Rewrite, Direct, lean
  <1>6. added[l] \subseteq Closure(Direct, l)
    BY AuditTypes, ClosureStep DEF TypeOK
  <1>7. QED BY <1>1, <1>2, <1>3, <1>4, <1>5, <1>6

LEMMA NextDropsStale ==
  ASSUME Inv, Next
  PROVE  FixDropsStale'
  <1>1. CASE NothingToFix
    <2>1. Passes'
      <3>1. UNCHANGED <<lean, marks, stmtUses, proofUses>> /\ Passes
        BY <1>1 DEF NothingToFix
      <3>2. QED BY <3>1, AuditFixed
    <2>2. QED BY <2>1 DEF Passes, FixDropsStale
  <1>2. CASE Rewrite
    <2> SUFFICES ASSUME Only = Nodes, NEW l \in Nodes
                 PROVE  Stale(l)' = {} /\ Unformalized(l)' \subseteq Direct'[l]
      BY DEF FixDropsStale
    <2>1. /\ Uses'[l] = ((AllUses[l] \ Drop(l)) \cup added[l]) \ {l}
          /\ stmtUses'[l] \subseteq (stmtUses[l] \ Drop(l)) \cup added[l]
          /\ Direct' = Direct /\ added[l] \subseteq Closure(Direct, l)
      BY <1>2, Rewritten DEF Inv
    <2>2. /\ UNCHANGED marks /\ Drop(l) = Stale(l) \cup Unformalized(l)
          /\ added[l] \subseteq Direct[l] /\ Uses[l] = AllUses[l] \ {l}
      BY <1>2 DEF Rewrite, Drop, Inv, TypeOK, Uses
    <2>3. \A u : Formalized(u)' = Formalized(u)
      BY <2>2 DEF Formalized, marks
    <2>4. ASSUME NEW u \in Stale(l)' PROVE FALSE
      <3>1. u \in Uses'[l] /\ Unused(l, u)'
        BY DEF Stale
      <3>2. /\ Formal(l) /\ Formal(u) /\ u \notin Closure(Direct, l)
            /\ Lean[l] \cap Lean[u] = {} /\ (Formalized(l) \/ u \in stmtUses'[l])
        BY <2>1, <2>3, <3>1 DEF Unused, Formal
      <3>3. u \in Uses[l] \ Drop(l) /\ (Formalized(l) \/ u \in stmtUses[l])
        BY <2>1, <2>2, <3>1, <3>2
      <3>4. Unused(l, u)
        BY <3>2, <3>3 DEF Unused
      <3>5. QED BY <2>2, <3>3, <3>4 DEF Stale
    <2>5. ASSUME NEW u \in Unformalized(l)' PROVE u \in Direct[l]
      <3>1. u \in Uses'[l] /\ Formalized(l) /\ ~Formalized(u) /\ u \notin stated
        BY <2>2, <2>3 DEF Unformalized, marks
      <3>2. CASE u \in added[l]
        BY <2>2, <3>2
      <3>3. CASE u \notin added[l]
        <4>1. u \in Uses[l] /\ u \notin Drop(l)
          BY <2>1, <2>2, <3>1, <3>3
        <4>2. QED BY <2>2, <3>1, <4>1 DEF Unformalized
      <3>4. QED BY <3>2, <3>3
    <2>6. QED BY <2>1, <2>4, <2>5
  <1>3. CASE ~(NothingToFix \/ Rewrite)
    BY <1>3 DEF Next, LeanEdges, KeyError, StartFix, Take, Consider, FixDropsStale
  <1>4. QED BY <1>1, <1>2, <1>3

LEMMA NextPasses ==
  ASSUME Inv, Next
  PROVE  FixLeavesNothing'
  <1>1. CASE NothingToFix
    BY <1>1, AuditFixed DEF NothingToFix, FixLeavesNothing
  <1>2. CASE Rewrite
    <2> SUFFICES ASSUME Only = Nodes, AllProved', LeanOrders', Shared = {},
                        \A l \in Nodes : l \notin AllUses'[l]
                 PROVE  Passes'
      BY DEF FixLeavesNothing, Shared, Owner
    <2>1. /\ UNCHANGED <<lean, marks, work>> /\ pc = "fix" /\ todo = {} /\ left = {}
          /\ TypeOK /\ Progress
      BY <1>2 DEF Rewrite, Inv
    <2>2. TypeOK' /\ AllUses' \in Edges /\ Direct \in Edges /\ Uses' \in Edges
          /\ Kept' \in Edges
      <3>1. TypeOK'
        BY NextTypes
      <3>2. AllUses' \in Edges /\ Uses' \in Edges /\ Kept' \in Edges
        BY <3>1 DEF TypeOK, Edges, AllUses, Uses, Kept
      <3>3. QED BY <2>1, <3>1, <3>2, AuditTypes
    <2>3. Direct' = Direct /\ (\A l : Cluster(l)' = Cluster(l))
      BY <2>1 DEF Direct, Cluster, lean
    <2>4. AllProved /\ LeanOrders
      BY <2>1, <2>3 DEF AllProved, LeanOrders, Formal, Formalized, marks
    <2>5. ASSUME NEW l \in Nodes
          PROVE  AllUses'[l] = Final[l] /\ Uses'[l] = Final[l]
      <3>1. AllUses'[l] = (AllUses[l] \ Drop(l)) \cup added[l] /\ l \notin AllUses'[l]
        BY <1>2, <2>1, Rewritten
      <3>2. l \notin Drop(l)
        BY DEF Drop, Stale, Unformalized, Uses
      <3>3. Final[l] = ((AllUses[l] \ {l}) \ Drop(l)) \cup added[l]
        BY DEF Final, Uses
      <3>4. Uses'[l] = AllUses'[l] \ {l}
        BY DEF Uses
      <3>5. QED BY <3>1, <3>2, <3>3, <3>4
    <2>6. ASSUME NEW l \in Nodes PROVE Final[l] \subseteq Closure(Direct, l)
      <3>1. added[l] \subseteq Closure(Direct, l)
        BY <1>2, <2>1, Rewritten
      <3>2. ASSUME NEW u \in Uses[l], u \notin Drop(l) PROVE u \in Closure(Direct, l)
        <4>1. u \notin Stale(l)
          BY <3>2 DEF Drop
        <4>2. QED BY <2>1, <2>4, <4>1, UsedIsReached
      <3>3. QED BY <3>1, <3>2 DEF Final
    <2>7. ASSUME NEW l \in Nodes
          PROVE  Unformalized(l)' = {} /\ Stale(l)' = {} /\ Unproved(l)' = {}
      <3>1. \A u \in Nodes : Formalized(u)'
        BY DEF AllProved
      <3>2. Unformalized(l)' = {} /\ Unproved(l)' = {}
        BY <2>2, <3>1 DEF Unformalized, Unproved, Edges
      <3>3. FixDropsStale' /\ pc' = "done"
        BY <1>2, NextDropsStale DEF Rewrite
      <3>4. Stale(l)' = {}
        BY <3>3 DEF FixDropsStale
      <3>5. QED BY <3>2, <3>4
    <2>8. ASSUME NEW l \in Nodes PROVE Missing(l)' = {}
      <3>1. Kept' = Uses'
        BY <2>2, <2>7 DEF Kept, Uses, Edges
      <3>2. Kept' = Final
        BY <2>5, <3>1 DEF Uses, Final
      <3>3. \A g \in groups[l] : Served(l, g)
        BY <2>1, <2>4 DEF Progress, AllProved
      <3>4. ASSUME NEW g \in Missing(l)' PROVE FALSE
        <4>1. /\ g \in groups[l] /\ g \cap Closure(Kept', l) = {}
              /\ g \cap Cluster(l)' = {}
          BY <2>1 DEF Missing, lean
        <4>2. QED BY <2>3, <3>2, <3>3, <4>1 DEF Served
      <3>5. QED BY <3>4
    <2>9. OnCycle(AllUses)' = {}
      <3>1. ASSUME NEW l \in Nodes PROVE l \notin Closure(AllUses', l)
        <4>1. Closure(AllUses', l) \subseteq Closure(Direct, l)
          BY <2>2, <2>5, <2>6, ClosureWithin
        <4>2. QED BY <2>4, <4>1 DEF LeanOrders
      <3>2. QED BY <3>1 DEF OnCycle
    <2>10. Shared' = {}
      BY DEF Shared, Owner
    <2>11. QED BY <2>7, <2>8, <2>9, <2>10 DEF Passes
  <1>3. CASE ~(NothingToFix \/ Rewrite)
    BY <1>3 DEF Next, LeanEdges, KeyError, StartFix, Take, Consider, FixLeavesNothing
  <1>4. QED BY <1>1, <1>2, <1>3

\* The step that adds an edge: what was needed stays so, and the edge is.
LEMMA ConsiderNeeded ==
  ASSUME Inv, TypeOK', Ascending, Needed, Orderly, Orderly',
         NEW g \in left, Consider(g),
         NEW b \in Preferred(g), added' = [added EXCEPT ![cur] = @ \cup {b}],
         g \cap Closure(Final, cur) = {},
         NEW l \in Nodes, NEW d \in added'[l], NEW x \in Final'[l] \ {d}
  PROVE  d \notin Closure(Final', x)
  <1>1. /\ pc = "fix" /\ UNCHANGED <<lean, marks, stmtUses, proofUses, pc, todo, cur>>
        /\ TypeOK /\ cur \in Nodes /\ todo \subseteq Nodes /\ added \in [Nodes -> SUBSET Nodes]
        /\ b \in g
    BY DEF Consider, Preferred, Inv, TypeOK
  <1>2. Uses' = Uses /\ (\A y : Drop(y)' = Drop(y)) /\ Direct' = Direct
    BY <1>1, AuditFixed
  <1>3. /\ \A y \in Nodes : y # cur => added'[y] = added[y] /\ Final'[y] = Final[y]
        /\ added'[cur] = added[cur] \cup {b} /\ Final'[cur] = Final[cur] \cup {b}
    BY <1>1, <1>2 DEF Final
  <1>4. Final \in Edges /\ Final' \in Edges /\ Direct \in Edges
    <2>1. Final' \in Edges
      BY AuditTypes, <1>2 DEF TypeOK, Edges, Final, Uses, AllUses, Drop
    <2>2. QED BY <1>1, <2>1, AuditTypes
  <1>5. /\ \A y \in todo : added[y] = {}
        /\ cur \notin todo /\ \A y \in Nodes \ todo : Below(y) <= Below(cur)
        /\ \A h \in left : \A y \in h, c \in added[cur] : Below(y) <= Below(c)
    BY <1>1 DEF Ascending
  <1>6. \A y \in Nodes : Final'[y] \subseteq Closure(Direct, y) /\ Final[y] \subseteq Closure(Direct, y)
    <2>1. ASSUME NEW y \in Nodes PROVE Final[y] \subseteq Closure(Direct, y)
      BY <1>1, FinalIsReached
    <2>2. b \in Closure(Direct, cur)
      <3>1. b \in Direct[cur]
        BY <1>1 DEF Direct, Inv, TypeOK
      <3>2. QED BY <1>1, <1>4, <3>1, ClosureStep
    <2>3. QED BY <1>3, <2>1, <2>2
  <1>7. x \in Nodes /\ x \in Closure(Direct, l) /\ Below(x) < Below(l)
    <2>1. x \in Closure(Direct, l)
      BY <1>6
    <2>2. QED BY <1>1, <2>1, BelowFalls DEF Orderly
  <1>8. Below(l) <= Below(cur)
    <2>1. CASE l = cur
      BY <1>1, <2>1, BelowNat
    <2>2. CASE l # cur
      BY <1>3, <1>5, <2>2
    <2>3. QED BY <2>1, <2>2
  <1>9. Closure(Final, x) \subseteq Closure(Direct, x)
    BY <1>4, <1>6, <1>7, ClosureWithin
  <1>10. Closure(Final', x) \subseteq Closure(Final, x)
    <2>1. Below(l) \in Nat /\ Below(cur) \in Nat /\ Below(x) \in Nat
      BY <1>1, <1>7, BelowNat
    <2>2. x # cur
      BY <1>7, <1>8, <2>1
    <2>3. cur \notin Closure(Direct, x)
      <3>1. ASSUME cur \in Closure(Direct, x) PROVE FALSE
        <4>1. Below(cur) < Below(x)
          BY <1>1, <1>7, <3>1, BelowFalls DEF Orderly
        <4>2. QED BY <1>7, <1>8, <2>1, <4>1
      <3>2. QED BY <3>1
    <2>4. cur \notin Closure(Final, x)
      BY <1>9, <2>3
    <2>5. QED BY <1>3, <1>4, <1>7, <2>2, <2>4, AddedElsewhere
  <1>11. d \notin Closure(Final, x)
    <2>1. CASE d \in added[l] /\ x \in Final[l]
      BY <1>1, <2>1 DEF Needed
    <2>2. CASE l = cur /\ x = b /\ d \in added[cur]
      <3>1. Below(b) <= Below(d)
        BY <1>1, <1>5, <2>2
      <3>2. ASSUME d \in Closure(Direct, b) PROVE FALSE
        <4>1. d \in Nodes /\ Below(d) < Below(b)
          BY <1>1, <1>7, <2>2, <3>2, BelowFalls DEF Orderly
        <4>2. QED BY <1>1, <1>7, <2>2, <3>1, <4>1, BelowNat
      <3>3. QED BY <1>9, <2>2, <3>2
    <2>3. CASE l = cur /\ d = b /\ x \in Final[cur]
      <3>1. Holds(Final, cur, Closure(Final, cur)) /\ Closure(Final, cur) \in SUBSET Nodes
        BY <1>1, <1>4, ClosureHolds
      <3>2. x \in Closure(Final, cur)
        BY <1>1, <1>4, <2>3, ClosureStep
      <3>3. Holds(Final, x, Closure(Final, cur))
        BY <3>1, <3>2 DEF Holds
      <3>4. Closure(Final, x) \subseteq Closure(Final, cur)
        BY <1>4, <1>7, <3>1, <3>3, ClosureLeast
      <3>5. b \notin Closure(Final, cur)
        BY <1>1
      <3>6. QED BY <2>3, <3>4, <3>5
    <2>4. QED BY <1>3, <2>1, <2>2, <2>3
  <1>12. QED BY <1>10, <1>11

LEMMA NextNeeded ==
  ASSUME Inv, TypeOK', Ascending, Needed, Next
  PROVE  Needed'
  <1>1. CASE LeanEdges \/ KeyError \/ NothingToFix \/ Rewrite
    BY <1>1 DEF LeanEdges, KeyError, NothingToFix, Rewrite, Needed
  <1>2. CASE ~(LeanEdges \/ KeyError \/ NothingToFix \/ Rewrite)
    <2> SUFFICES ASSUME pc' = "fix", Orderly', NEW l \in Nodes, NEW d \in added'[l],
                        NEW x \in Final'[l] \ {d}
                 PROVE  d \notin Closure(Final', x)
      BY DEF Needed
    <2>1. UNCHANGED <<lean, marks, stmtUses, proofUses>>
      BY <1>2 DEF Next, StartFix, Take, Consider
    <2>2. Orderly
      BY <2>1 DEF Orderly, AllProved, LeanOrders, Formal, Formalized, Direct, Shared, Owner,
                  lean, marks
    <2>3. CASE StartFix
      BY <2>3 DEF StartFix, Inv, NotStarted
    <2>4. CASE pc = "fix" /\ UNCHANGED added
      <3>1. Final' = Final
        BY <2>1, <2>4, AuditFixed DEF Final
      <3>2. d \in added[l] /\ x \in Final[l] \ {d}
        BY <2>4, <3>1
      <3>3. d \notin Closure(Final, x)
        BY <2>2, <2>4, <3>2 DEF Needed
      <3>4. QED BY <3>1, <3>3
    <2>5. ASSUME NEW g \in left, Consider(g), ~UNCHANGED added
          PROVE  d \notin Closure(Final', x)
      <3>1. PICK b \in Preferred(g) : added' = [added EXCEPT ![cur] = @ \cup {b}]
        BY <2>5 DEF Consider
      <3>2. g \cap Closure(Final, cur) = {}
        BY <2>5 DEF Consider
      <3>3. QED BY <2>2, <2>5, <3>1, <3>2, ConsiderNeeded
    <2>6. QED BY <1>2, <2>3, <2>4, <2>5 DEF Next, Take, Consider
  <1>3. QED BY <1>1, <1>2

LEMMA DoneNeedsAll ==
  ASSUME Inv, Inv', Needed, Next
  PROVE  NoNeedlessEdge => NoNeedlessEdge'
  <1>1. CASE NothingToFix
    BY <1>1 DEF NothingToFix, NoNeedlessEdge, Inv, NotStarted, work
  <1>2. CASE Rewrite
    <2> SUFFICES ASSUME Only = Nodes, AllProved', LeanOrders', Shared = {},
                        NEW l \in Nodes, NEW b \in added'[l]
                 PROVE  b \notin Closure([Final' EXCEPT ![l] = @ \ {b}], l)
      BY DEF NoNeedlessEdge, Shared, Owner
    <2>1. /\ UNCHANGED <<lean, marks, work>> /\ pc = "fix" /\ TypeOK /\ TypeOK'
          /\ added' = added /\ groups' = groups
      BY <1>2 DEF Rewrite, Inv, lean, work
    <2>2. Orderly
      BY <2>1 DEF Orderly, AllProved, LeanOrders, Formal, Formalized, Direct, marks
    <2>3. Final \in Edges /\ Final' \in Edges
      BY <2>1, AuditTypes DEF TypeOK, Edges, Final, Uses, AllUses, Drop
    <2>4. ASSUME NEW y \in Nodes PROVE Final'[y] \subseteq Final[y]
      <3>1. Uses'[y] = ((AllUses[y] \ Drop(y)) \cup added[y]) \ {y}
        BY <1>2, <2>1, Rewritten
      <3>2. Final[y] = ((AllUses[y] \ {y}) \ Drop(y)) \cup added[y]
        BY DEF Final, Uses
      <3>3. Final'[y] \subseteq Uses'[y] \cup added[y]
        BY <2>1 DEF Final
      <3>4. QED BY <3>1, <3>2, <3>3
    <2> DEFINE F == [Final' EXCEPT ![l] = @ \ {b}]
               S == {y \in Nodes : \E x \in Final[l] \ {b} : y = x \/ y \in Closure(Final, x)}
    <2>5. F \in Edges /\ F[l] \subseteq Final[l] \ {b} /\ \A y \in Nodes : F[y] \subseteq Final[y]
      BY <2>3, <2>4 DEF Edges
    <2>6. Final[l] \subseteq Nodes
      BY <2>3 DEF Edges
    <2>7. ASSUME NEW y \in S PROVE F[y] \subseteq S
      <3>1. PICK x \in Final[l] \ {b} : y = x \/ y \in Closure(Final, x)
        OBVIOUS
      <3>2. x \in Nodes /\ y \in Nodes
        BY <2>6
      <3>3. Holds(Final, x, Closure(Final, x)) /\ Closure(Final, x) \subseteq Nodes
        BY <2>3, <3>2, ClosureHolds
      <3>4. Final[y] \subseteq Closure(Final, x)
        BY <3>1, <3>3 DEF Holds
      <3>5. QED BY <2>5, <3>2, <3>3, <3>4
    <2>8. b \notin S
      BY <2>1, <2>2 DEF Needed
    <2>9. S \in SUBSET Nodes /\ F[l] \subseteq S
      BY <2>5, <2>6
    <2> HIDE DEF S, F
    <2>10. Holds(F, l, S)
      BY <2>7, <2>9 DEF Holds
    <2>11. Closure(F, l) \subseteq S
      BY <2>5, <2>9, <2>10, ClosureLeast
    <2>12. QED BY <2>8, <2>11 DEF F
  <1>3. CASE ~(NothingToFix \/ Rewrite)
    BY <1>3 DEF Next, LeanEdges, KeyError, StartFix, Take, Consider, NoNeedlessEdge
  <1>4. QED BY <1>1, <1>2, <1>3

LEMMA StutterKeepsInv == Inv /\ UNCHANGED vars => Inv'
  <1> SUFFICES ASSUME Inv, UNCHANGED vars PROVE Inv'
    OBVIOUS
  <1>1. /\ UNCHANGED <<lean, marks, stmtUses, proofUses>> /\ UNCHANGED <<pc, work>>
    BY DEF vars
  <1>2. /\ Direct' = Direct /\ AllUses' = AllUses /\ Uses' = Uses /\ Passes' = Passes
        /\ (\A l : Cluster(l)' = Cluster(l) /\ Stale(l)' = Stale(l)
                  /\ Unformalized(l)' = Unformalized(l) /\ Drop(l)' = Drop(l))
    BY <1>1, AuditFixed
  <1>3. Final' = Final
    BY <1>1, <1>2 DEF Final, work
  <1>4. TypeOK' /\ GroupsOwned' /\ NotStarted'
    BY <1>1, <1>2 DEF Inv, TypeOK, GroupsOwned, NotStarted, lean, marks, work, Owner
  <1>5. Progress'
    <2>1. \A l, g : Served(l, g)' = Served(l, g)
      BY <1>2, <1>3 DEF Served
    <2>2. QED BY <1>1, <2>1 DEF Inv, Progress, lean, work
  <1>6. FixDropsStale' /\ FixLeavesNothing'
    BY <1>1, <1>2 DEF Inv, FixDropsStale, FixLeavesNothing, AllProved, LeanOrders, Formalized, Formal,
                      marks, Shared, Owner
  <1>7. QED BY <1>4, <1>5, <1>6 DEF Inv

LEMMA InvNext == Inv /\ [Next]_vars => Inv'
  <1>1. Inv /\ Next => Inv'
    BY NextTypes, NextProgress, NextDropsStale, NextPasses DEF Inv
  <1>2. QED BY <1>1, StutterKeepsInv

LEMMA Invariance == Spec => []Inv
  BY InvInit, InvNext, PTL DEF Spec

\* The same, with what fix knows of the edges it has added.
FullInv == Inv /\ Ascending /\ Needed /\ NoNeedlessEdge

LEMMA StutterKeepsFull == FullInv /\ UNCHANGED vars => FullInv'
  <1> SUFFICES ASSUME FullInv, UNCHANGED vars PROVE FullInv'
    OBVIOUS
  <1>1. /\ UNCHANGED <<lean, marks, stmtUses, proofUses>> /\ UNCHANGED <<pc, work>>
        /\ UNCHANGED <<pc, todo, cur, left, added>>
    BY DEF vars, work
  <1>2. Direct' = Direct /\ Final' = Final /\ Inv'
    BY <1>1, AuditFixed, StutterKeepsInv DEF Final, FullInv
  <1>3. Orderly' = Orderly /\ AllProved' = AllProved /\ LeanOrders' = LeanOrders
    BY <1>1, <1>2 DEF Orderly, AllProved, LeanOrders, Formalized, Formal, marks, Shared, Owner
  <1>4. Ascending' /\ Needed'
    BY <1>1, <1>2, <1>3 DEF FullInv, Ascending, Needed, Below
  <1>5. NoNeedlessEdge'
    BY <1>1, <1>2, <1>3 DEF FullInv, NoNeedlessEdge, Shared, Owner
  <1>6. QED BY <1>2, <1>4, <1>5 DEF FullInv

LEMMA FullInvariance == Spec => []FullInv
  <1>1. Init => FullInv
    <2> SUFFICES ASSUME Init PROVE FullInv
      OBVIOUS
    <2>1. pc = "dump"
      BY DEF Init, Begin
    <2>2. QED BY <2>1, InvInit DEF FullInv, Ascending, Needed, NoNeedlessEdge
  <1>2. FullInv /\ [Next]_vars => FullInv'
    <2>1. FullInv /\ Next => FullInv'
      <3> SUFFICES ASSUME FullInv, Next PROVE FullInv'
        OBVIOUS
      <3>1. Inv' /\ TypeOK'
        BY InvNext DEF FullInv, Inv
      <3>2. QED BY <3>1, NextAscending, NextNeeded, DoneNeedsAll DEF FullInv
    <2>2. QED BY <2>1, StutterKeepsFull
  <1>3. QED BY <1>1, <1>2, PTL DEF Spec

\* Every variable keeps its type: only Lean edges are added, and \uses goes to
\* proofs that exist.
THEOREM TypeCorrect == Spec => []TypeOK
  <1>1. Inv => TypeOK
    BY DEF Inv
  <1>2. QED BY Invariance, <1>1, PTL

\* When the check passes, everything a proved result cites, directly or through
\* others, is formalized.
THEOREM PassingIsGreen == Spec => []GreenAncestors
  <1>1. Inv => GreenAncestors
    BY PassesMeansGreen DEF Inv
  <1>2. QED BY Invariance, <1>1, PTL

\* When the check passes on a finished blueprint, \uses and Lean reach the same.
THEOREM PassingReachesTheSame == Spec => []SameReach
  <1>1. Inv => SameReach
    BY PassesMeansSameReach DEF Inv
  <1>2. QED BY Invariance, <1>1, PTL

\* --fix on all nodes of a finished blueprint makes the audit pass; and of any blueprint,
\* no edge is stale after it, and only Lean's edges go to unformalized nodes.
THEOREM FixReachesAPass == Spec => []FixPasses
  <1>1. Inv => FixPasses
    BY DEF Inv, FixPasses
  <1>2. QED BY Invariance, <1>1, PTL

\* When every result is proved and every definition formalized, Lean orders the nodes, no
\* constant is shared and --fix runs on all nodes, no edge that it adds is implied by the
\* others it leaves, although each is added before the ones that follow it are known.
THEOREM AddsFewEdges == Spec => []NoNeedlessEdge
  <1>1. FullInv => NoNeedlessEdge
    BY DEF FullInv
  <1>2. QED BY FullInvariance, <1>1, PTL

-----------------------------------------------------------------------------
(***************************************************************************)
(* The other audit of the blueprint, lean-coverage.py: for a chapter of    *)
(* any length, any names and modules, and any edits between two runs.      *)
(***************************************************************************)
\* The order of the naturals as a relation, which WFMin takes.
Less == {p \in Nat \X Nat : p[1] < p[2]}

LEMMA Greatest ==
  ASSUME NEW n \in Nat, NEW S \in SUBSET (1..n), S # {}
  PROVE  \E x \in S : \A y \in S : x >= y
  <1> DEFINE T == {n - x : x \in S}
  <1>1. T \in SUBSET Nat /\ T # {}
    <2>1. \A x \in S : x \in 1..n /\ n - x \in Nat
      OBVIOUS
    <2>2. QED BY <2>1
  <1>2. IsWellFoundedOn(Less, Nat)
    BY NatLessThanWellFounded DEF OpToRel, Less
  <1>3. PICK t \in T : \A u \in T : ~(<<u, t>> \in Less)
    BY <1>1, <1>2, WFMin
  <1>4. PICK x \in S : t = n - x
    BY <1>3
  <1>5. ASSUME NEW y \in S PROVE x >= y
    <2>1. n - y \in T /\ n - y \in Nat /\ t \in Nat
      BY <1>1, <1>3
    <2>2. ~(n - y < t)
      BY <1>3, <2>1 DEF Less
    <2>3. QED BY <1>4, <2>2
  <1>6. QED BY <1>5

\* The statement that a proof is attributed to.
LEMMA LastTagged ==
  ASSUME NEW p \in 1..Statements
  PROVE  /\ chapter[p].lean # {} => LastTag(p) = chapter[p].lean
         /\ \A n \in LastTag(p) : \E j \in 1..Statements : j <= p /\ n \in chapter[j].lean
  <1> DEFINE S == {j \in 1..p : chapter[j].lean # {}}
             m == CHOOSE x \in S : \A y \in S : x >= y
  <1>1. LastTag(p) = IF S = {} THEN {} ELSE chapter[m].lean
    BY DEF LastTag, Max
  <1>2. S # {} => m \in S /\ \A y \in S : m >= y
    <2>1. S \in SUBSET (1..p) /\ p \in Nat
      OBVIOUS
    <2> HIDE DEF S
    <2>2. S # {} => \E x \in S : \A y \in S : x >= y
      BY <2>1, Greatest
    <2>3. QED BY <2>2
  <1>3. S # {} => m \in 1..p
    BY <1>2
  <1>4. chapter[p].lean # {} => p \in S
    OBVIOUS
  <1>5. chapter[p].lean # {} => m = p
    BY <1>2, <1>3, <1>4
  <1> HIDE DEF m
  <1>6. chapter[p].lean # {} => LastTag(p) = chapter[p].lean
    BY <1>1, <1>4, <1>5
  <1>7. ASSUME NEW n \in LastTag(p)
        PROVE  \E j \in 1..Statements : j <= p /\ n \in chapter[j].lean
    <2>1. S # {} /\ n \in chapter[m].lean
      BY <1>1, <1>7
    <2>2. QED BY <1>3, <2>1, StatementsAssumption
  <1>8. QED BY <1>6, <1>7

\* A run that passed says something of the files until somebody edits them.
Standing == exit = "passed" => build.problems = {} /\ build.unresolved = {}

LEMMA StandingInit == CoverageInit => Standing
  BY DEF CoverageInit, Standing

LEMMA StandingNext == Standing /\ [CoverageNext]_covering => Standing'
  <1> SUFFICES ASSUME Standing, [CoverageNext]_covering PROVE Standing'
    OBVIOUS
  <1>1. CASE UNCHANGED <<chapter, place, guards>>
    <2>1. build' = build
      BY <1>1 DEF build, blueprint_names, index, leanok_guard_problems, covered_modules,
        proof_level_leanok, per_module, LastTag, Marked
    <2>2. exit' = "passed" => exit = "passed" \/ check(build, snapshot)
      BY DEF CoverageNext, Refresh, Check, report, Edit, covering
    <2>3. QED BY <2>1, <2>2 DEF Standing, check
  <1>2. CASE Edit
    BY <1>2 DEF Edit, Standing
  <1>3. QED
    BY <1>1, <1>2 DEF CoverageNext, Refresh, Check, report, covering

\* A passing --check of lean-coverage.py: every marked proof of a statement that names
\* a declaration has it guarded and existing, and no guard is of a declaration that the
\* blueprint does not cite at or before a marked proof.
THEOREM PassingIsGuarded == CoverageSpec => []ClaimsAreGuarded
  <1>1. Standing => ClaimsAreGuarded
    <2> SUFFICES ASSUME Standing, exit = "passed"
                 PROVE  /\ \A p \in Marked : chapter[p].lean \subseteq guards \cap index
                        /\ \A n \in guards : \E p \in 1..Statements, j \in Marked :
                             p <= j /\ n \in chapter[p].lean
      BY DEF ClaimsAreGuarded
    <2>1. /\ proof_level_leanok \subseteq guards /\ guards \subseteq proof_level_leanok
          /\ blueprint_names \subseteq index
      BY DEF Standing, build, leanok_guard_problems
    <2>2. ASSUME NEW p \in Marked PROVE chapter[p].lean \subseteq guards \cap index
      <3>1. p \in 1..Statements
        BY <2>2 DEF Marked
      <3>2. chapter[p].lean \subseteq blueprint_names
        BY <3>1 DEF blueprint_names
      <3>3. chapter[p].lean \subseteq proof_level_leanok
        BY <2>2, <3>1, LastTagged DEF proof_level_leanok
      <3>4. QED BY <2>1, <3>2, <3>3
    <2>3. ASSUME NEW n \in guards
          PROVE  \E p \in 1..Statements, j \in Marked : p <= j /\ n \in chapter[p].lean
      <3>1. PICK j \in Marked : n \in LastTag(j)
        BY <2>1, <2>3 DEF proof_level_leanok
      <3>2. j \in 1..Statements
        BY <3>1 DEF Marked
      <3>3. QED BY <3>1, <3>2, LastTagged
    <2>4. QED BY <2>2, <2>3
  <1>2. QED BY StandingInit, StandingNext, <1>1, PTL DEF CoverageSpec

\* A --check that passes has lost nothing that the snapshot held: whatever the last
\* passing one accounted for and the blueprint does not name any more was not in the
\* snapshot, and what the snapshot holds is where it was and is named.
THEOREM PassingLosesNothing == CoverageSpec => LossesAreSeen
  <1> DEFINE Seen ==
        exit' = "passed" /\ exit' # exit =>
          /\ \A n \in passed : n \notin blueprint_names => n \notin snapshot.cited
          /\ \A m \in DOMAIN snapshot.covered : \A n \in snapshot.covered[m] :
               place[n] = m /\ n \in blueprint_names
  <1>1. [CoverageNext]_covering => [Seen]_covering
    <2> SUFFICES ASSUME CoverageNext, exit' = "passed", exit' # exit
                 PROVE  /\ \A n \in passed : n \notin blueprint_names => n \notin snapshot.cited
                        /\ \A m \in DOMAIN snapshot.covered : \A n \in snapshot.covered[m] :
                             place[n] = m /\ n \in blueprint_names
      OBVIOUS
    <2>1. check(build, snapshot)
      BY DEF CoverageNext, Refresh, Check, report, Edit
    <2>2. /\ snapshot.cited \subseteq blueprint_names
          /\ DOMAIN snapshot.covered \subseteq DOMAIN covered_modules
          /\ \A m \in DOMAIN snapshot.covered : snapshot.covered[m] \subseteq covered_modules[m]
      BY <2>1 DEF check, build, lost_mod, gone
    <2>3. \A m \in DOMAIN covered_modules : \A n \in covered_modules[m] :
            place[n] = m /\ n \in blueprint_names
      BY DEF covered_modules, per_module
    <2>4. QED BY <2>2, <2>3
  <1>2. QED BY <1>1, PTL DEF CoverageSpec, LossesAreSeen

-----------------------------------------------------------------------------
(* cross_references.  How environments are ended as far as a chapter was   *)
(* read: its tokens before a.                                              *)

Token == [kind : {"label", "ref", "cite", "notedcite", "bibitem", "begin", "end"}, of : STRING]

\* The ends of all environments, where every \end has its \begin.
Total(s) == {m \in Endings(s) : \A q \in Where(s, "end") : \E p \in DOMAIN m : m[p] = q}

\* The environments at the places of o are open, and st has their names; the others have
\* ended where e says, as they do however one ends all of them.
Partial(s, a, st, o, e) ==
  /\ o \in Seq(Nat) /\ Len(o) = Len(st)
  /\ \A k \in 1..Len(o) : o[k] \in Where(s, "begin") /\ o[k] < a /\ s[o[k]].of = st[k]
  /\ \A j, k \in 1..Len(o) : j < k => o[j] < o[k]
  /\ e \in [{p \in Where(s, "begin") : p < a} \ {o[k] : k \in 1..Len(o)} -> {q \in Where(s, "end") : q < a}]
  /\ \A p \in DOMAIN e : p < e[p] /\ s[e[p]].of = s[p].of
  /\ \A p, q \in DOMAIN e : p < q /\ q < e[p] => e[q] < e[p]
  /\ \A q \in Where(s, "end") : q < a => \E p \in DOMAIN e : e[p] = q
  /\ \A p \in DOMAIN e : \A k \in 1..Len(o) : p < o[k] => e[p] < o[k]
  /\ \A m \in Total(s) : \A p \in DOMAIN e : m[p] = e[p]

Follows(s, a, st) == \E o, e : Partial(s, a, st, o, e)

LEMMA BalancedIs ==
  ASSUME NEW s
  PROVE  Balanced(s) <=> Total(s) # {}
  BY DEF Balanced, Total

LEMMA WhereIs ==
  ASSUME NEW s \in Seq(Token), NEW k
  PROVE  Where(s, k) \subseteq Nat /\ \A p \in Where(s, k) : 1 <= p /\ p <= Len(s) /\ s[p].kind = k
  BY DEF Where

\* Two environments do not end at one place.
LEMMA EndsDiffer ==
  ASSUME NEW s \in Seq(Token), NEW m \in Total(s), NEW p \in Where(s, "begin"), NEW q \in Where(s, "begin"),
         m[p] = m[q]
  PROVE  p = q
  <1>1. DOMAIN m = Where(s, "begin") /\ \A x, y \in DOMAIN m : x < y /\ y < m[x] => m[y] < m[x]
    BY DEF Total, Endings
  <1>2. p \in Nat /\ q \in Nat /\ m[p] \in Nat /\ p < m[p] /\ q < m[q]
    <2>1. m[p] \in Where(s, "end") /\ p < m[p] /\ q < m[q]
      BY DEF Total, Endings
    <2>2. QED BY <2>1, WhereIs
  <1>3. ~(p < q) /\ ~(q < p)
    BY <1>1, <1>2
  <1>4. QED BY <1>2, <1>3

LEMMA FollowsBegin ==
  ASSUME NEW s \in Seq(Token)
  PROVE  Follows(s, 1, <<>>)
  <1> DEFINE e == [p \in {} |-> 0]
  <1>1. {p \in Where(s, "begin") : p < 1} = {} /\ \A q \in Where(s, "end") : ~(q < 1)
    BY WhereIs
  <1>2. e \in [{} -> {q \in Where(s, "end") : q < 1}] /\ DOMAIN e = {}
    OBVIOUS
  <1> HIDE DEF e
  <1>3. <<>> \in Seq(Nat) /\ Len(<<>>) = 0 /\ 1..0 = {}
    OBVIOUS
  <1>4. {p \in Where(s, "begin") : p < 1} \ {<<>>[k] : k \in 1..Len(<<>>)} = {}
    BY <1>1
  <1>5. Partial(s, 1, <<>>, <<>>, e)
    BY <1>1, <1>2, <1>3, <1>4 DEF Partial
  <1>6. QED BY <1>5 DEF Follows

LEMMA FollowsOther ==
  ASSUME NEW s \in Seq(Token), NEW a \in 1..Len(s), NEW st, Follows(s, a, st),
         s[a].kind \notin {"begin", "end"}
  PROVE  Follows(s, a + 1, st)
  <1>1. PICK o, e : Partial(s, a, st, o, e)
    BY DEF Follows
  <1>2. \A k \in {"begin", "end"} : \A p \in Where(s, k) : p \in Nat /\ p # a
    BY WhereIs DEF Where
  <1>3. \A k \in {"begin", "end"} : \A p \in Where(s, k) : p < a + 1 <=> p < a
    BY <1>2
  <1>4. /\ {p \in Where(s, "begin") : p < a + 1} = {p \in Where(s, "begin") : p < a}
        /\ {p \in Where(s, "end") : p < a + 1} = {p \in Where(s, "end") : p < a}
    BY <1>3
  <1>5. Partial(s, a + 1, st, o, e)
    BY <1>1, <1>3, <1>4 DEF Partial
  <1>6. QED BY <1>5 DEF Follows

LEMMA FollowsOpening ==
  ASSUME NEW s \in Seq(Token), NEW a \in 1..Len(s), NEW st \in Seq(STRING), Follows(s, a, st),
         s[a].kind = "begin"
  PROVE  Follows(s, a + 1, Append(st, s[a].of))
  <1>1. PICK o, e : Partial(s, a, st, o, e)
    BY DEF Follows
  <1> DEFINE u == Append(o, a)
             t == Append(st, s[a].of)
             n == Len(o)
  <1>2. /\ o \in Seq(Nat) /\ n = Len(st) /\ n \in Nat /\ a \in Nat
        /\ \A k \in 1..n : o[k] \in Where(s, "begin") /\ o[k] < a /\ s[o[k]].of = st[k]
        /\ \A j, k \in 1..n : j < k => o[j] < o[k]
    BY <1>1 DEF Partial
  <1>3. /\ u \in Seq(Nat) /\ Len(u) = n + 1 /\ Len(t) = n + 1 /\ u[n + 1] = a /\ t[n + 1] = s[a].of
        /\ \A k \in 1..n : u[k] = o[k] /\ t[k] = st[k]
    <2>1. s[a] \in Token
      OBVIOUS
    <2>2. s[a].of \in STRING
      BY <2>1 DEF Token
    <2>3. QED BY <1>2, <2>2
  <1> HIDE DEF u, t, n
  <1>4. 1..(n + 1) = 1..n \cup {n + 1}
    <2>1. n \in Nat
      BY <1>2
    <2>2. QED BY <2>1
  <1>5. a \in Where(s, "begin") /\ a \notin Where(s, "end")
    BY DEF Where
  <1>6. \A k \in 1..(n + 1) : u[k] \in Where(s, "begin") /\ u[k] < a + 1 /\ s[u[k]].of = t[k]
    <2>1. ASSUME NEW k \in 1..n PROVE u[k] \in Where(s, "begin") /\ u[k] < a + 1 /\ s[u[k]].of = t[k]
      <3>1. o[k] \in Nat /\ o[k] < a /\ a \in Nat
        BY <1>2, WhereIs
      <3>2. o[k] < a + 1
        BY <3>1
      <3>3. u[k] = o[k] /\ t[k] = st[k]
        BY <1>3
      <3>4. o[k] \in Where(s, "begin") /\ s[o[k]].of = st[k]
        BY <1>2
      <3>5. QED BY <3>2, <3>3, <3>4
    <2>2. QED BY <1>2, <1>3, <1>4, <1>5, <2>1
  <1>7. \A j, k \in 1..(n + 1) : j < k => u[j] < u[k]
    <2>1. ASSUME NEW j \in 1..(n + 1), NEW k \in 1..(n + 1), j < k PROVE u[j] < u[k]
      <3>1. n \in Nat /\ j \in Nat /\ k \in Nat /\ j < k
        BY <1>2, <2>1
      <3>2. j \in 1..n /\ (k \in 1..n \/ k = n + 1)
        BY <2>1, <3>1
      <3>3. QED BY <1>2, <1>3, <2>1, <3>2
    <2>2. QED BY <2>1
  <1>8. {u[k] : k \in 1..(n + 1)} = {o[k] : k \in 1..n} \cup {a}
    <2>1. {u[k] : k \in 1..(n + 1)} = {u[k] : k \in 1..n} \cup {u[n + 1]}
      BY <1>4
    <2>2. {u[k] : k \in 1..n} = {o[k] : k \in 1..n}
      BY <1>3
    <2>3. QED BY <1>3, <2>1, <2>2
  <1>9. \A k \in {"begin", "end"} : \A p \in Where(s, k) : p \in Nat
    BY WhereIs
  <1>10. /\ {p \in Where(s, "begin") : p < a + 1} = {p \in Where(s, "begin") : p < a} \cup {a}
         /\ \A q \in Where(s, "end") : q < a + 1 <=> q < a
    <2>1. a \in Nat
      BY <1>2
    <2>2. \A p \in Where(s, "begin") : p < a + 1 <=> p < a \/ p = a
      BY <1>9, <2>1
    <2>3. \A q \in Where(s, "end") : q < a + 1 <=> q < a
      <3>1. ASSUME NEW q \in Where(s, "end") PROVE q \in Nat /\ q # a
        BY <1>5, <1>9
      <3>2. QED BY <2>1, <3>1
    <2>4. a \in Where(s, "begin") /\ a < a + 1
      BY <1>5, <2>1
    <2>5. QED BY <2>2, <2>3, <2>4
  <1>11. /\ {p \in Where(s, "begin") : p < a + 1} \ {u[k] : k \in 1..(n + 1)}
              = {p \in Where(s, "begin") : p < a} \ {o[k] : k \in 1..n}
         /\ {q \in Where(s, "end") : q < a + 1} = {q \in Where(s, "end") : q < a}
    <2>1. a \notin {p \in Where(s, "begin") : p < a}
      BY <1>2
    <2>2. QED BY <1>8, <1>10, <2>1
  <1>12. \A p \in DOMAIN e : \A k \in 1..(n + 1) : p < u[k] => e[p] < u[k]
    <2>1. ASSUME NEW p \in DOMAIN e, NEW k \in 1..(n + 1), p < u[k] PROVE e[p] < u[k]
      <3>1. e[p] < a
        BY <1>1 DEF Partial
      <3>2. CASE k \in 1..n
        BY <1>1, <1>3, <2>1, <3>2 DEF Partial, n
      <3>3. QED BY <1>3, <1>4, <3>1, <3>2
    <2>2. QED BY <2>1
  <1>13. /\ e \in [{p \in Where(s, "begin") : p < a} \ {o[k] : k \in 1..n} -> {q \in Where(s, "end") : q < a}]
         /\ \A p \in DOMAIN e : p < e[p] /\ s[e[p]].of = s[p].of
         /\ \A p, q \in DOMAIN e : p < q /\ q < e[p] => e[q] < e[p]
         /\ \A q \in Where(s, "end") : q < a => \E p \in DOMAIN e : e[p] = q
         /\ \A m \in Total(s) : \A p \in DOMAIN e : m[p] = e[p]
    BY <1>1 DEF Partial, n
  <1>14. Partial(s, a + 1, t, u, e)
    BY <1>3, <1>6, <1>7, <1>10, <1>11, <1>12, <1>13 DEF Partial
  <1>15. QED BY <1>14 DEF Follows, t

\* An \end ends the last environment that is open, or there is no way to end them all.
LEMMA EndsTheLast ==
  ASSUME NEW s \in Seq(Token), NEW a \in 1..Len(s), NEW st, NEW o, NEW e, Partial(s, a, st, o, e),
         s[a].kind = "end", NEW m \in Total(s)
  PROVE  /\ Len(o) \in Nat /\ Len(o) >= 1 /\ m[o[Len(o)]] = a
         /\ s[a].of = st[Len(o)]
  <1> DEFINE n == Len(o)
             l == o[n]
  <1>1. /\ o \in Seq(Nat) /\ n \in Nat /\ a \in Nat
        /\ \A k \in 1..n : o[k] \in Where(s, "begin") /\ o[k] < a /\ s[o[k]].of = st[k]
        /\ \A j, k \in 1..n : j < k => o[j] < o[k]
        /\ DOMAIN e = {p \in Where(s, "begin") : p < a} \ {o[k] : k \in 1..n}
        /\ \A q \in Where(s, "end") : q < a => \E p \in DOMAIN e : e[p] = q
        /\ \A p \in DOMAIN e : e[p] < a /\ m[p] = e[p]
    BY DEF Partial
  <1>2. /\ m \in [Where(s, "begin") -> Where(s, "end")]
        /\ \A p \in DOMAIN m : p < m[p] /\ s[m[p]].of = s[p].of
        /\ \A p, q \in DOMAIN m : p < q /\ q < m[p] => m[q] < m[p]
        /\ \A q \in Where(s, "end") : \E p \in DOMAIN m : m[p] = q
    BY DEF Total, Endings
  <1>3. a \in Where(s, "end")
    BY DEF Where
  <1>4. PICK p \in Where(s, "begin") : m[p] = a
    BY <1>2, <1>3
  <1>5. p < a /\ p \notin DOMAIN e /\ p \in Nat
    <2>1. p < a
      BY <1>2, <1>4
    <2>2. p \in DOMAIN e => m[p] < a
      BY <1>1
    <2>3. QED BY <1>1, <1>4, <2>1, <2>2, WhereIs
  <1>6. PICK k \in 1..n : p = o[k]
    BY <1>1, <1>5
  <1>7. n >= 1 /\ n \in 1..n
    BY <1>1, <1>6
  <1>8. k = n
    <2>1. SUFFICES ASSUME k < n PROVE FALSE
      BY <1>1, <1>6
    <2>2. p < l /\ l < a /\ l \in Where(s, "begin")
      BY <1>1, <1>6, <1>7, <2>1
    <2>3. m[l] < a /\ m[l] \in Where(s, "end")
      BY <1>2, <1>4, <2>2
    <2>4. PICK x \in DOMAIN e : e[x] = m[l]
      BY <1>1, <2>3
    <2>5. x \in Where(s, "begin") /\ m[x] = m[l]
      BY <1>1, <2>4
    <2>6. x = l
      BY <2>2, <2>5, EndsDiffer
    <2>7. l \notin DOMAIN e
      BY <1>1, <1>7
    <2>8. QED BY <2>4, <2>6, <2>7
  <1>9. QED BY <1>1, <1>2, <1>4, <1>6, <1>7, <1>8

LEMMA FollowsEnding ==
  ASSUME NEW s \in Seq(Token), NEW a \in 1..Len(s), NEW st \in Seq(STRING), Follows(s, a, st),
         s[a].kind = "end", st # <<>>, Last(st) = s[a].of
  PROVE  Follows(s, a + 1, Front(st))
  <1>1. PICK o, e : Partial(s, a, st, o, e)
    BY DEF Follows
  <1> DEFINE n == Len(o)
             l == o[n]
             u == SubSeq(o, 1, n - 1)
             t == Front(st)
             g == [p \in DOMAIN e \cup {l} |-> IF p = l THEN a ELSE e[p]]
  <1>2. /\ o \in Seq(Nat) /\ n = Len(st) /\ n \in Nat /\ a \in Nat /\ n >= 1
        /\ \A k \in 1..n : o[k] \in Where(s, "begin") /\ o[k] < a /\ s[o[k]].of = st[k]
        /\ \A j, k \in 1..n : j < k => o[j] < o[k]
    BY <1>1 DEF Partial
  <1>3. /\ e \in [{p \in Where(s, "begin") : p < a} \ {o[k] : k \in 1..n} -> {q \in Where(s, "end") : q < a}]
        /\ \A p \in DOMAIN e : p < e[p] /\ s[e[p]].of = s[p].of
        /\ \A p, q \in DOMAIN e : p < q /\ q < e[p] => e[q] < e[p]
        /\ \A q \in Where(s, "end") : q < a => \E p \in DOMAIN e : e[p] = q
        /\ \A p \in DOMAIN e : \A k \in 1..n : p < o[k] => e[p] < o[k]
        /\ \A m \in Total(s) : \A p \in DOMAIN e : m[p] = e[p]
    BY <1>1 DEF Partial
  <1>4. /\ u \in Seq(Nat) /\ Len(u) = n - 1 /\ Len(t) = n - 1
        /\ \A k \in 1..(n - 1) : u[k] = o[k] /\ t[k] = st[k]
    BY <1>2 DEF Front
  <1>5. l \in Nat /\ l < a /\ l \in Where(s, "begin") /\ s[l].of = s[a].of /\ n \in 1..n
    <2>1. n \in 1..n
      BY <1>2
    <2>2. Last(st) = st[n]
      BY <1>2 DEF Last
    <2>3. QED BY <1>2, <2>1, <2>2
  <1>6. l \notin DOMAIN e
    BY <1>3, <1>5
  <1>7. DOMAIN g = DOMAIN e \cup {l} /\ g[l] = a /\ \A p \in DOMAIN e : g[p] = e[p]
    BY <1>6
  <1> HIDE DEF u, t, g, l, n
  <1>8. 1..n = 1..(n - 1) \cup {n}
    BY <1>2
  <1>9. \A k \in 1..(n - 1) : u[k] \in Where(s, "begin") /\ u[k] < a + 1 /\ s[u[k]].of = t[k] /\ u[k] < l
    <2>1. ASSUME NEW k \in 1..(n - 1)
          PROVE  u[k] \in Where(s, "begin") /\ u[k] < a + 1 /\ s[u[k]].of = t[k] /\ u[k] < l
      <3>1. n \in Nat
        BY <1>2
      <3>2. k \in 1..n /\ k < n /\ n \in 1..n
        BY <2>1, <3>1
      <3>3. u[k] = o[k] /\ t[k] = st[k] /\ o[k] \in Where(s, "begin") /\ o[k] < a /\ s[o[k]].of = st[k] /\ o[k] < l
        BY <1>2, <1>4, <2>1, <3>2 DEF l
      <3>4. o[k] \in Nat /\ a \in Nat
        BY <1>2, <3>3, WhereIs
      <3>5. o[k] < a + 1
        BY <3>3, <3>4
      <3>6. QED BY <3>3, <3>5
    <2>2. QED BY <2>1
  <1>10. \A j, k \in 1..(n - 1) : j < k => u[j] < u[k]
    BY <1>2, <1>4, <1>8
  <1>11. a \in Where(s, "end") /\ a \notin Where(s, "begin")
    BY DEF Where
  <1>12. \A k \in {"begin", "end"} : \A p \in Where(s, k) : p \in Nat
    BY WhereIs
  <1>13. /\ {p \in Where(s, "begin") : p < a + 1} = {p \in Where(s, "begin") : p < a}
         /\ {q \in Where(s, "end") : q < a + 1} = {q \in Where(s, "end") : q < a} \cup {a}
    <2>1. a \in Nat
      BY <1>2
    <2>2. \A q \in Where(s, "end") : q < a + 1 <=> q < a \/ q = a
      BY <1>12, <2>1
    <2>3. \A p \in Where(s, "begin") : p < a + 1 <=> p < a
      <3>1. ASSUME NEW p \in Where(s, "begin") PROVE p \in Nat /\ p # a
        BY <1>11, <1>12
      <3>2. QED BY <2>1, <3>1
    <2>4. a \in Where(s, "end") /\ a < a + 1
      BY <1>11, <2>1
    <2>5. QED BY <2>2, <2>3, <2>4
  <1>14. {o[k] : k \in 1..n} = {u[k] : k \in 1..(n - 1)} \cup {l} /\ l \notin {u[k] : k \in 1..(n - 1)}
    <2>1. \A k \in 1..(n - 1) : u[k] # l
      BY <1>5, <1>9
    <2>2. QED BY <1>4, <1>8, <2>1 DEF l
  <1>15. DOMAIN g = {p \in Where(s, "begin") : p < a + 1} \ {u[k] : k \in 1..(n - 1)}
    <2> DEFINE P == {p \in Where(s, "begin") : p < a}
               U == {u[k] : k \in 1..(n - 1)}
    <2>1. DOMAIN e = P \ (U \cup {l}) /\ l \in P
      BY <1>3, <1>5, <1>14
    <2>2. l \notin U /\ {p \in Where(s, "begin") : p < a + 1} = P
      BY <1>13, <1>14
    <2> HIDE DEF P, U
    <2>3. DOMAIN g = P \ U
      BY <1>7, <2>1, <2>2
    <2>4. QED BY <2>2, <2>3 DEF U
  <1>16. g \in [{p \in Where(s, "begin") : p < a + 1} \ {u[k] : k \in 1..(n - 1)}
                 -> {q \in Where(s, "end") : q < a + 1}]
    <2>1. \A p \in DOMAIN g : g[p] \in {q \in Where(s, "end") : q < a + 1}
      BY <1>3, <1>7, <1>13
    <2>2. g = [p \in DOMAIN g |-> g[p]]
      BY DEF g
    <2>3. QED BY <1>15, <2>1, <2>2
  <1>17. \A p \in DOMAIN e : e[p] \in Nat /\ p \in Nat /\ e[p] < a
    BY <1>3, <1>12
  <1>18. \A p \in DOMAIN g : p < g[p] /\ s[g[p]].of = s[p].of
    BY <1>3, <1>5, <1>7
  <1>19. \A p, q \in DOMAIN g : p < q /\ q < g[p] => g[q] < g[p]
    <2>1. ASSUME NEW p \in DOMAIN g, NEW q \in DOMAIN g, p < q, q < g[p] PROVE g[q] < g[p]
      <3>1. CASE p = l
        <4>1. q \in DOMAIN e
          BY <1>5, <1>7, <2>1, <3>1
        <4>2. QED BY <1>7, <1>17, <3>1, <4>1
      <3>2. CASE p \in DOMAIN e /\ q = l
        <4>1. e[p] < l
          BY <1>3, <1>5, <2>1, <3>2 DEF l
        <4>2. QED BY <1>5, <1>7, <1>17, <2>1, <3>2, <4>1
      <3>3. CASE p \in DOMAIN e /\ q \in DOMAIN e
        BY <1>3, <1>7, <2>1, <3>3
      <3>4. QED BY <1>7, <3>1, <3>2, <3>3
    <2>2. QED BY <2>1
  <1>20. \A q \in Where(s, "end") : q < a + 1 => \E p \in DOMAIN g : g[p] = q
    <2>1. ASSUME NEW q \in Where(s, "end"), q < a + 1 PROVE \E p \in DOMAIN g : g[p] = q
      <3>1. CASE q = a
        BY <1>7, <3>1
      <3>2. CASE q < a
        <4>1. PICK p \in DOMAIN e : e[p] = q
          BY <1>3, <3>2
        <4>2. QED BY <1>7, <4>1
      <3>3. QED BY <1>2, <1>12, <2>1, <3>1, <3>2
    <2>2. QED BY <2>1
  <1>21. \A p \in DOMAIN g : \A k \in 1..(n - 1) : p < u[k] => g[p] < u[k]
    <2>1. ASSUME NEW p \in DOMAIN g, NEW k \in 1..(n - 1), p < u[k] PROVE g[p] < u[k]
      <3>1. u[k] \in Nat /\ u[k] < l
        BY <1>9, <1>12
      <3>2. p # l
        BY <1>5, <2>1, <3>1
      <3>3. p \in DOMAIN e
        BY <1>7, <3>2
      <3>4. QED BY <1>3, <1>4, <1>7, <1>8, <2>1, <3>3
    <2>2. QED BY <2>1
  <1>22. \A m \in Total(s) : \A p \in DOMAIN g : m[p] = g[p]
    <2>1. ASSUME NEW m \in Total(s) PROVE m[l] = a
      BY <1>1, EndsTheLast DEF l, n
    <2>2. QED BY <1>3, <1>7, <2>1
  <1>23. Partial(s, a + 1, t, u, g)
    BY <1>4, <1>9, <1>10, <1>16, <1>18, <1>19, <1>20, <1>21, <1>22 DEF Partial
  <1>24. QED BY <1>23 DEF Follows, t

\* At the end of a chapter.
LEMMA FollowsToTheEnd ==
  ASSUME NEW s \in Seq(Token), NEW a \in Nat, a > Len(s), NEW st \in Seq(STRING), Follows(s, a, st)
  PROVE  Balanced(s) <=> st = <<>>
  <1>1. PICK o, e : Partial(s, a, st, o, e)
    BY DEF Follows
  <1>2. \A k \in {"begin", "end"} : \A p \in Where(s, k) : p \in Nat /\ p < a
    BY WhereIs
  <1>3. /\ {p \in Where(s, "begin") : p < a} = Where(s, "begin")
        /\ {q \in Where(s, "end") : q < a} = Where(s, "end")
    BY <1>2
  <1>4. CASE st = <<>>
    <2>1. Len(st) = 0 /\ 1..Len(o) = {}
      BY <1>1, <1>4 DEF Partial
    <2>2. {o[k] : k \in 1..Len(o)} = {}
      BY <2>1
    <2>3. e \in [Where(s, "begin") -> Where(s, "end")]
      BY <1>1, <1>3, <2>2 DEF Partial
    <2>4. e \in Endings(s)
      BY <1>1, <2>3 DEF Partial, Endings
    <2>5. \A q \in Where(s, "end") : \E p \in DOMAIN e : e[p] = q
      BY <1>1, <1>2 DEF Partial
    <2>6. QED BY <1>4, <2>4, <2>5 DEF Balanced
  <1>5. ASSUME st # <<>>, NEW m \in Total(s) PROVE FALSE
    <2> DEFINE l == o[1]
    <2>1. 1 \in 1..Len(o)
      BY <1>1, <1>5 DEF Partial
    <2>2. l \in Where(s, "begin") /\ l \notin DOMAIN e
      BY <1>1, <2>1 DEF Partial
    <2> HIDE DEF l
    <2>3. m[l] \in Where(s, "end")
      BY <2>2 DEF Total, Endings
    <2>4. PICK x \in DOMAIN e : e[x] = m[l]
      BY <1>1, <1>2, <2>3 DEF Partial
    <2>5. x \in Where(s, "begin") /\ m[x] = m[l]
      BY <1>1, <2>4 DEF Partial
    <2>6. QED BY <2>2, <2>4, <2>5, EndsDiffer
  <1>6. QED BY <1>4, <1>5, BalancedIs

LEMMA Mismatches ==
  ASSUME NEW s \in Seq(Token), NEW a \in 1..Len(s), NEW st \in Seq(STRING), Follows(s, a, st),
         s[a].kind = "end", st = <<>> \/ Last(st) # s[a].of
  PROVE  ~Balanced(s)
  <1>1. PICK o, e : Partial(s, a, st, o, e)
    BY DEF Follows
  <1>2. Len(o) = Len(st)
    BY <1>1 DEF Partial
  <1>3. ASSUME NEW m \in Total(s) PROVE FALSE
    <2>1. Len(o) >= 1 /\ s[a].of = st[Len(o)]
      BY <1>1, EndsTheLast
    <2>2. QED BY <1>2, <2>1 DEF Last
  <1>4. QED BY <1>3, BalancedIs

-----------------------------------------------------------------------------
(* All chapters.                                                           *)

\* What was read of a chapter.
Seen(c) == IF c < file THEN 1..Len(files[c]) ELSE IF c = file THEN 1..(at - 1) ELSE {}

Behind(k, x) == \E c \in Chapters : \E p \in Where(files[c], k) \cap Seen(c) : files[c][p].of = x

Twice ==
  \E c, d \in Chapters : \E p \in Where(files[c], "label") \cap Seen(c), q \in Where(files[d], "label") \cap Seen(d) :
    files[c][p].of = files[d][q].of /\ ~(c = d /\ p = q)

ReadTypes ==
  /\ files \in Seq(Seq(Token)) /\ file \in 1..(Len(files) + 1) /\ at \in Nat \ {0}
  /\ file <= Len(files) => at <= Len(files[file]) + 1
  /\ phase \in {"read", "done"} /\ (phase = "done" => file > Len(files))
  /\ stack \in Seq(STRING) /\ unbalanced \in BOOLEAN /\ verdict \in BOOLEAN

Collected ==
  /\ \A x : (x \in labels <=> Behind("label", x)) /\ (x \in refs <=> Behind("ref", x))
  /\ \A x : (x \in cites <=> Behind("cite", x)) /\ (x \in bib <=> Behind("bibitem", x))
  /\ dup # {} <=> Twice

\* A problem of nesting is in a chapter that was begun; without one, the stack has what is
\* open.
Nested ==
  IF unbalanced THEN \E c \in Chapters : ~Balanced(files[c])
  ELSE /\ \A c \in Chapters : c < file => Balanced(files[c])
       /\ file <= Len(files) => Follows(files[file], at, stack)

Judged ==
  phase = "done" =>
    (verdict <=> unbalanced \/ dup # {} \/ ~(refs \subseteq labels) \/ ~(cites \subseteq bib))

ReferencesInv == ReadTypes /\ Collected /\ Nested /\ Judged

LEMMA ReferencesBegins == ReferencesInit => ReferencesInv
  <1> SUFFICES ASSUME ReferencesInit PROVE ReferencesInv
    OBVIOUS
  <1>1. /\ file = 1 /\ at = 1 /\ stack = <<>> /\ unbalanced = FALSE /\ verdict = FALSE /\ phase = "read"
        /\ labels = {} /\ dup = {} /\ refs = {} /\ cites = {} /\ bib = {}
    BY DEF ReferencesInit, ReferencesBegin
  <1>2. files \in Seq(Seq(Token))
    BY BlueprintsAssumption DEF ReferencesInit, Token
  <1>3. Len(files) \in Nat /\ Chapters = 1..Len(files)
    BY <1>2 DEF Chapters
  <1>4. \A c \in Chapters : files[c] \in Seq(Token)
    BY <1>2 DEF Chapters
  <1>5. \A c \in Chapters : Seen(c) = {}
    BY <1>1, <1>3 DEF Seen
  <1>6. ReadTypes
    <2>1. 1 <= Len(files) => 1 \in Chapters
      BY <1>3
    <2>2. 1 <= Len(files) => 1 <= Len(files[1]) + 1
      BY <1>4, <2>1
    <2>3. 1 \in 1..(Len(files) + 1) /\ 1 \in Nat \ {0} /\ <<>> \in Seq(STRING)
      BY <1>3
    <2>4. QED BY <1>1, <1>2, <2>2, <2>3 DEF ReadTypes
  <1>7. Collected
    <2>1. ~Twice
      BY <1>5 DEF Twice
    <2>2. \A k, x : ~Behind(k, x)
      BY <1>5 DEF Behind
    <2>3. QED BY <1>1, <2>1, <2>2 DEF Collected
  <1>8. Nested
    <2>1. \A c \in Chapters : ~(c < 1)
      BY <1>3
    <2>2. 1 <= Len(files) => Follows(files[1], 1, <<>>)
      BY <1>3, <1>4, FollowsBegin
    <2>3. QED BY <1>1, <2>1, <2>2 DEF Nested
  <1>9. QED BY <1>1, <1>6, <1>7, <1>8 DEF ReferencesInv, Judged

\* What the next token adds to what was read.
LEMMA TokenRead ==
  ASSUME ReadTypes, MoreTokens, Onward
  PROVE  /\ file \in Chapters /\ files[file] \in Seq(Token) /\ at \in 1..Len(files[file])
         /\ Here \in Token
         /\ \A k, x : Behind(k, x)' <=> Behind(k, x) \/ (Here.kind = k /\ Here.of = x)
         /\ Twice' <=> Twice \/ (Here.kind = "label" /\ Behind("label", Here.of))
         /\ stack' \in Seq(STRING) /\ unbalanced' \in BOOLEAN => ReadTypes'
  <1>1. /\ files \in Seq(Seq(Token)) /\ file \in Nat /\ at \in Nat /\ at >= 1 /\ phase = "read"
        /\ 1 <= file /\ file <= Len(files) /\ at <= Len(files[file])
        /\ verdict \in BOOLEAN
    BY DEF ReadTypes, MoreTokens
  <1>2. files' = files /\ file' = file /\ at' = at + 1 /\ phase' = phase /\ verdict' = verdict
    BY DEF Onward
  <1>3. file \in Chapters /\ Chapters' = Chapters
    BY <1>1, <1>2 DEF Chapters
  <1>4. \A c \in Chapters : files[c] \in Seq(Token)
    BY <1>1 DEF Chapters
  <1>5. at \in 1..Len(files[file]) /\ Here \in Token
    <2>1. at \in 1..Len(files[file])
      BY <1>1, <1>3, <1>4
    <2>2. files[file][at] \in Token
      BY <1>3, <1>4, <2>1
    <2>3. QED BY <2>1, <2>2 DEF Here
  <1>6. \A c \in Chapters : Seen(c)' = IF c = file THEN Seen(c) \cup {at} ELSE Seen(c)
    <2>1. 1..(at' - 1) = 1..(at - 1) \cup {at}
      BY <1>1, <1>2
    <2>2. ~(file < file)
      BY <1>1
    <2>3. ASSUME NEW c \in Chapters PROVE Seen(c)' = IF c = file THEN Seen(c) \cup {at} ELSE Seen(c)
      <3>1. Seen(c)' = IF c < file THEN 1..Len(files[c]) ELSE IF c = file THEN 1..(at' - 1) ELSE {}
        BY <1>2 DEF Seen
      <3>2. CASE c = file
        BY <2>1, <2>2, <3>1, <3>2 DEF Seen
      <3>3. CASE c # file
        BY <3>1, <3>3 DEF Seen
      <3>4. QED BY <3>2, <3>3
    <2>4. QED BY <2>3
  <1>7. at \notin Seen(file)
    BY <1>1 DEF Seen
  <1>8. \A k : at \in Where(files[file], k) <=> Here.kind = k
    BY <1>5 DEF Where, Here
  <1>9. \A k, c : (Where(files[c], k))' = Where(files[c], k)
    BY <1>2 DEF Where
  <1>10. \A k, x : Behind(k, x)' <=> Behind(k, x) \/ (Here.kind = k /\ Here.of = x)
    <2>1. ASSUME NEW k, NEW x PROVE Behind(k, x)' => Behind(k, x) \/ (Here.kind = k /\ Here.of = x)
      <3>1. SUFFICES ASSUME Behind(k, x)' PROVE Behind(k, x) \/ (Here.kind = k /\ Here.of = x)
        OBVIOUS
      <3>2. PICK c \in Chapters : \E p \in Where(files[c], k) \cap Seen(c)' : files[c][p].of = x
        BY <1>2, <1>3, <1>9, <3>1 DEF Behind
      <3>3. PICK p \in Where(files[c], k) \cap Seen(c)' : files[c][p].of = x
        BY <3>2
      <3>4. CASE p \in Seen(c)
        BY <3>3, <3>4 DEF Behind
      <3>5. CASE p \notin Seen(c)
        <4>1. c = file /\ p = at
          BY <1>6, <3>3, <3>5
        <4>2. QED BY <1>8, <3>3, <4>1 DEF Here
      <3>6. QED BY <3>4, <3>5
    <2>2. ASSUME NEW k, NEW x, Behind(k, x) \/ (Here.kind = k /\ Here.of = x) PROVE Behind(k, x)'
      <3>1. PICK c \in Chapters : \E p \in Where(files[c], k) \cap Seen(c)' : files[c][p].of = x
        <4>1. CASE Behind(k, x)
          <5>1. PICK c \in Chapters : \E p \in Where(files[c], k) \cap Seen(c) : files[c][p].of = x
            BY <4>1 DEF Behind
          <5>2. Seen(c) \subseteq Seen(c)'
            BY <1>6
          <5>3. QED BY <5>1, <5>2
        <4>2. CASE Here.kind = k /\ Here.of = x
          <5>1. PICK c \in Chapters : c = file
            BY <1>3
          <5>2. at \in Where(files[c], k) /\ files[c][at].of = x
            BY <1>8, <4>2, <5>1 DEF Here
          <5>3. at \in Seen(c)'
            BY <1>6, <5>1
          <5>4. QED BY <5>2, <5>3
        <4>3. QED BY <2>2, <4>1, <4>2
      <3>2. QED BY <1>2, <1>3, <1>9, <3>1 DEF Behind
    <2>3. QED BY <2>1, <2>2
  <1>11. Twice' => Twice \/ (Here.kind = "label" /\ Behind("label", Here.of))
    <2> DEFINE L(c) == Where(files[c], "label")
    <2>1. SUFFICES ASSUME Twice' PROVE Twice \/ (Here.kind = "label" /\ Behind("label", Here.of))
      OBVIOUS
    <2>2. PICK c \in Chapters, d \in Chapters : \E p \in L(c) \cap Seen(c)', q \in L(d) \cap Seen(d)' :
            files[c][p].of = files[d][q].of /\ ~(c = d /\ p = q)
      BY <1>2, <1>3, <1>9, <2>1 DEF Twice
    <2>3. PICK p \in L(c) \cap Seen(c)', q \in L(d) \cap Seen(d)' :
            files[c][p].of = files[d][q].of /\ ~(c = d /\ p = q)
      BY <2>2
    <2>4. CASE p \in Seen(c) /\ q \in Seen(d)
      BY <2>3, <2>4 DEF Twice
    <2>5. CASE p \notin Seen(c)
      <3>1. c = file /\ p = at
        BY <1>6, <2>3, <2>5
      <3>2. Here.kind = "label" /\ Here.of = files[d][q].of
        BY <1>8, <2>3, <3>1 DEF Here
      <3>3. q \in Seen(d)
        BY <1>6, <2>3, <3>1
      <3>4. QED BY <2>3, <3>2, <3>3 DEF Behind
    <2>6. CASE q \notin Seen(d)
      <3>1. d = file /\ q = at
        BY <1>6, <2>3, <2>6
      <3>2. Here.kind = "label" /\ Here.of = files[c][p].of
        BY <1>8, <2>3, <3>1 DEF Here
      <3>3. p \in Seen(c)
        BY <1>6, <2>3, <3>1
      <3>4. QED BY <2>3, <3>2, <3>3 DEF Behind
    <2>7. QED BY <2>4, <2>5, <2>6
  <1>12. ASSUME Twice \/ (Here.kind = "label" /\ Behind("label", Here.of)) PROVE Twice'
    <2> DEFINE L(c) == Where(files[c], "label")
    <2>1. \E c, d \in Chapters : \E p \in L(c) \cap Seen(c)', q \in L(d) \cap Seen(d)' :
            files[c][p].of = files[d][q].of /\ ~(c = d /\ p = q)
      <3>1. CASE Twice
        <4>1. PICK c \in Chapters, d \in Chapters : \E p \in L(c) \cap Seen(c), q \in L(d) \cap Seen(d) :
                files[c][p].of = files[d][q].of /\ ~(c = d /\ p = q)
          BY <3>1 DEF Twice
        <4>2. Seen(c) \subseteq Seen(c)' /\ Seen(d) \subseteq Seen(d)'
          BY <1>6
        <4>3. QED BY <4>1, <4>2
      <3>2. CASE Here.kind = "label" /\ Behind("label", Here.of)
        <4>1. PICK c \in Chapters : \E p \in L(c) \cap Seen(c) : files[c][p].of = Here.of
          BY <3>2 DEF Behind
        <4>2. PICK p \in L(c) \cap Seen(c) : files[c][p].of = Here.of
          BY <4>1
        <4>3. PICK d \in Chapters : d = file
          BY <1>3
        <4>4. at \in L(d) /\ files[d][at].of = Here.of
          BY <1>8, <3>2, <4>3 DEF Here
        <4>5. at \in Seen(d)' /\ p \in Seen(c)'
          BY <1>6, <4>2, <4>3
        <4>6. ~(c = d /\ p = at)
          BY <1>7, <4>2, <4>3
        <4>7. QED BY <4>2, <4>4, <4>5, <4>6
      <3>3. QED BY <1>12, <3>1, <3>2
    <2>2. QED BY <1>2, <1>3, <1>9, <2>1 DEF Twice
  <1>13. stack' \in Seq(STRING) /\ unbalanced' \in BOOLEAN => ReadTypes'
    <2>1. Len(files[file]) \in Nat
      BY <1>3, <1>4
    <2>2. at + 1 \in Nat \ {0} /\ at + 1 <= Len(files[file]) + 1
      BY <1>1, <2>1
    <2>3. QED BY <1>1, <1>2, <2>2 DEF ReadTypes
  <1>14. QED BY <1>3, <1>4, <1>5, <1>10, <1>11, <1>12, <1>13

\* A token that is no \begin and no \end.
LEMMA OtherToken ==
  ASSUME ReferencesInv, MoreTokens, Onward, Here.kind \notin {"begin", "end"},
         stack' = stack, unbalanced' = unbalanced, Collected'
  PROVE  ReferencesInv'
  <1>1. /\ file \in Chapters /\ files[file] \in Seq(Token) /\ at \in 1..Len(files[file])
        /\ ReadTypes'
    BY TokenRead DEF ReferencesInv, ReadTypes
  <1>2. /\ files' = files /\ file' = file /\ at' = at + 1 /\ phase' = phase /\ phase = "read"
        /\ Chapters' = Chapters /\ file <= Len(files)
    BY DEF Onward, MoreTokens, Chapters
  <1>3. Nested'
    <2>1. CASE unbalanced
      BY <1>2, <2>1 DEF ReferencesInv, Nested
    <2>2. CASE ~unbalanced
      <3>1. Follows(files[file], at, stack)
        BY <1>2, <2>2 DEF ReferencesInv, Nested
      <3>2. Follows(files[file], at + 1, stack)
        BY <1>1, <3>1, FollowsOther DEF Here
      <3>3. QED BY <1>2, <2>2, <3>2 DEF ReferencesInv, Nested
    <2>3. QED BY <2>1, <2>2
  <1>4. Judged'
    BY <1>2 DEF Judged
  <1>5. QED BY <1>1, <1>3, <1>4 DEF ReferencesInv

LEMMA ReferencesStep == ReferencesInv /\ [ReferencesNext]_referring => ReferencesInv'
  <1> SUFFICES ASSUME ReferencesInv, [ReferencesNext]_referring PROVE ReferencesInv'
    OBVIOUS
  <1>1. ReadTypes /\ Collected /\ Nested /\ Judged
    BY DEF ReferencesInv
  <1>2. CASE Label
    <2>1. MoreTokens /\ Onward /\ Here.kind = "label" /\ UNCHANGED <<refs, cites, bib, stack, unbalanced>>
      BY <1>2 DEF Label
    <2>2. /\ \A k, x : Behind(k, x)' <=> Behind(k, x) \/ (Here.kind = k /\ Here.of = x)
          /\ Twice' <=> Twice \/ (Here.kind = "label" /\ Behind("label", Here.of))
      BY <1>1, <2>1, TokenRead
    <2>3. Collected'
      <3>1. \A k \in {"ref", "cite", "bibitem"} : \A x : Behind(k, x)' <=> Behind(k, x)
        BY <2>1, <2>2
      <3>2. \A x : Behind("label", x)' <=> x \in labels \/ x = Here.of
        BY <1>1, <2>1, <2>2 DEF Collected
      <3>3. \A x : x \in labels' <=> x \in labels \/ x = Here.of
        BY <1>2 DEF Label
      <3>4. dup' # {} <=> dup # {} \/ Here.of \in labels
        BY <1>2 DEF Label
      <3>5. dup' # {} <=> Twice'
        BY <1>1, <2>1, <2>2, <3>4 DEF Collected
      <3>6. QED BY <1>1, <2>1, <3>1, <3>2, <3>3, <3>5 DEF Collected
    <2>4. QED BY <2>1, <2>3, OtherToken
  <1>3. CASE Ref
    <2>1. /\ MoreTokens /\ Onward /\ Here.kind = "ref" /\ refs' = refs \cup {Here.of}
          /\ UNCHANGED <<labels, dup, cites, bib, stack, unbalanced>>
      BY <1>3 DEF Ref
    <2>2. /\ \A k, x : Behind(k, x)' <=> Behind(k, x) \/ (Here.kind = k /\ Here.of = x)
          /\ Twice' <=> Twice
      BY <1>1, <2>1, TokenRead
    <2>3. Collected'
      <3>1. \A k \in {"label", "cite", "bibitem"} : \A x : Behind(k, x)' <=> Behind(k, x)
        BY <2>1, <2>2
      <3>2. \A x : Behind("ref", x)' <=> x \in refs'
        BY <1>1, <2>1, <2>2 DEF Collected
      <3>3. QED BY <1>1, <2>1, <2>2, <3>1, <3>2 DEF Collected
    <2>4. QED BY <2>1, <2>3, OtherToken
  <1>4. CASE Cite
    <2>1. /\ MoreTokens /\ Onward /\ Here.kind = "cite" /\ cites' = cites \cup {Here.of}
          /\ UNCHANGED <<labels, dup, refs, bib, stack, unbalanced>>
      BY <1>4 DEF Cite
    <2>2. /\ \A k, x : Behind(k, x)' <=> Behind(k, x) \/ (Here.kind = k /\ Here.of = x)
          /\ Twice' <=> Twice
      BY <1>1, <2>1, TokenRead
    <2>3. Collected'
      <3>1. \A k \in {"label", "ref", "bibitem"} : \A x : Behind(k, x)' <=> Behind(k, x)
        BY <2>1, <2>2
      <3>2. \A x : Behind("cite", x)' <=> x \in cites'
        BY <1>1, <2>1, <2>2 DEF Collected
      <3>3. QED BY <1>1, <2>1, <2>2, <3>1, <3>2 DEF Collected
    <2>4. QED BY <2>1, <2>3, OtherToken
  <1>5. CASE Bibitem
    <2>1. /\ MoreTokens /\ Onward /\ Here.kind = "bibitem" /\ bib' = bib \cup {Here.of}
          /\ UNCHANGED <<labels, dup, refs, cites, stack, unbalanced>>
      BY <1>5 DEF Bibitem
    <2>2. /\ \A k, x : Behind(k, x)' <=> Behind(k, x) \/ (Here.kind = k /\ Here.of = x)
          /\ Twice' <=> Twice
      BY <1>1, <2>1, TokenRead
    <2>3. Collected'
      <3>1. \A k \in {"label", "ref", "cite"} : \A x : Behind(k, x)' <=> Behind(k, x)
        BY <2>1, <2>2
      <3>2. \A x : Behind("bibitem", x)' <=> x \in bib'
        BY <1>1, <2>1, <2>2 DEF Collected
      <3>3. QED BY <1>1, <2>1, <2>2, <3>1, <3>2 DEF Collected
    <2>4. QED BY <2>1, <2>3, OtherToken
  <1>6. ASSUME Opening \/ Ending
        PROVE  /\ MoreTokens /\ Onward /\ UNCHANGED <<labels, dup, refs, cites, bib>> /\ Collected'
               /\ files' = files /\ file' = file /\ at' = at + 1 /\ phase' = "read" /\ file <= Len(files)
               /\ file \in Chapters /\ files[file] \in Seq(Token) /\ at \in 1..Len(files[file])
               /\ Here \in Token /\ Here = files[file][at] /\ stack \in Seq(STRING) /\ unbalanced \in BOOLEAN
               /\ stack' \in Seq(STRING) /\ unbalanced' \in BOOLEAN => ReadTypes'
    <2>1. /\ MoreTokens /\ Onward /\ Here.kind \in {"begin", "end"}
          /\ UNCHANGED <<labels, dup, refs, cites, bib>>
      BY <1>6 DEF Opening, Ending
    <2>2. /\ \A k, x : Behind(k, x)' <=> Behind(k, x) \/ (Here.kind = k /\ Here.of = x)
          /\ Twice' <=> Twice
          /\ file \in Chapters /\ files[file] \in Seq(Token) /\ at \in 1..Len(files[file]) /\ Here \in Token
          /\ stack' \in Seq(STRING) /\ unbalanced' \in BOOLEAN => ReadTypes'
      BY <1>1, <2>1, TokenRead
    <2>3. \A k \in {"label", "ref", "cite", "bibitem"} : \A x : Behind(k, x)' <=> Behind(k, x)
      BY <2>1, <2>2
    <2>4. Collected'
      BY <1>1, <2>1, <2>2, <2>3 DEF Collected
    <2>5. QED BY <1>1, <2>1, <2>2, <2>4 DEF Onward, MoreTokens, Here, ReadTypes
  <1>7. CASE Opening
    <2>1. Here.kind = "begin" /\ stack' = Append(stack, Here.of) /\ unbalanced' = unbalanced
      BY <1>7 DEF Opening
    <2>2. stack' \in Seq(STRING) /\ unbalanced' \in BOOLEAN
      <3>1. Here.of \in STRING
        BY <1>6, <1>7 DEF Token
      <3>2. QED BY <1>6, <1>7, <2>1, <3>1
    <2>3. Nested'
      <3>1. CASE unbalanced
        BY <1>1, <1>6, <1>7, <2>1, <3>1 DEF Nested, Chapters
      <3>2. CASE ~unbalanced
        <4>1. Follows(files[file], at, stack)
          BY <1>1, <1>6, <1>7, <3>2 DEF Nested
        <4>2. Follows(files[file], at + 1, Append(stack, Here.of))
          BY <1>6, <1>7, <2>1, <4>1, FollowsOpening
        <4>3. QED BY <1>1, <1>6, <1>7, <2>1, <3>2, <4>2 DEF Nested, Chapters
      <3>3. QED BY <3>1, <3>2
    <2>4. QED BY <1>6, <1>7, <2>2, <2>3 DEF ReferencesInv, Judged
  <1>8. CASE Ending
    <2>1. /\ Here.kind = "end"
          /\ stack' = IF stack = <<>> THEN stack ELSE Front(stack)
          /\ unbalanced' = (unbalanced \/ Mismatch(Here.of))
      BY <1>8 DEF Ending
    <2>2. stack' \in Seq(STRING) /\ unbalanced' \in BOOLEAN
      <3>1. stack # <<>> => Front(stack) \in Seq(STRING)
        BY <1>6, <1>8 DEF Front
      <3>2. QED BY <1>6, <1>8, <2>1, <3>1 DEF Mismatch
    <2>3. Nested'
      <3>1. CASE unbalanced
        BY <1>1, <1>6, <1>8, <2>1, <3>1 DEF Nested, Chapters
      <3>2. CASE ~unbalanced
        <4>1. Follows(files[file], at, stack)
          BY <1>1, <1>6, <1>8, <3>2 DEF Nested
        <4>2. CASE Mismatch(Here.of)
          <5>1. ~Balanced(files[file])
            BY <1>6, <1>8, <2>1, <4>1, <4>2, Mismatches DEF Mismatch
          <5>2. QED BY <1>6, <1>8, <2>1, <4>2, <5>1 DEF Nested, Chapters
        <4>3. CASE ~Mismatch(Here.of)
          <5>1. Follows(files[file], at + 1, Front(stack))
            BY <1>6, <1>8, <2>1, <4>1, <4>3, FollowsEnding DEF Mismatch
          <5>2. QED BY <1>1, <1>6, <1>8, <2>1, <3>2, <4>3, <5>1 DEF Nested, Chapters, Mismatch
        <4>4. QED BY <4>2, <4>3
      <3>3. QED BY <3>1, <3>2
    <2>4. QED BY <1>6, <1>8, <2>2, <2>3 DEF ReferencesInv, Judged
  <1>9. CASE NextFile
    <2>1. /\ phase = "read" /\ file <= Len(files) /\ at > Len(files[file])
          /\ unbalanced' = (unbalanced \/ stack # <<>>)
          /\ file' = file + 1 /\ at' = 1 /\ stack' = <<>>
          /\ UNCHANGED <<files, labels, dup, refs, cites, bib, verdict, phase>>
      BY <1>9 DEF NextFile
    <2>2. /\ files \in Seq(Seq(Token)) /\ file \in Nat /\ 1 <= file /\ at \in Nat /\ Len(files) \in Nat
          /\ Chapters' = Chapters /\ Chapters = 1..Len(files) /\ file \in Chapters
          /\ stack \in Seq(STRING) /\ unbalanced \in BOOLEAN /\ verdict \in BOOLEAN
      BY <1>1, <2>1 DEF ReadTypes, Chapters
    <2>3. \A c \in Chapters : files[c] \in Seq(Token) /\ Len(files[c]) \in Nat
      BY <2>2
    <2>4. \A c \in Chapters : \A k : Where(files[c], k) \cap Seen(c)' = Where(files[c], k) \cap Seen(c)
      <3>1. ASSUME NEW c \in Chapters, NEW k
            PROVE  Where(files[c], k) \cap Seen(c)' = Where(files[c], k) \cap Seen(c)
        <4>1. CASE c < file
          <5>1. c < file + 1
            BY <2>2, <4>1
          <5>2. QED BY <2>1, <4>1, <5>1 DEF Seen
        <4>2. CASE c = file
          <5>1. c < file + 1 /\ ~(c < file)
            BY <2>2, <4>2
          <5>2. Seen(c)' = 1..Len(files[c]) /\ Seen(c) = 1..(at - 1)
            BY <2>1, <4>2, <5>1 DEF Seen
          <5>3. \A p \in 1..Len(files[c]) : p \in 1..(at - 1)
            BY <2>1, <2>2, <2>3, <4>2
          <5>4. Where(files[c], k) \subseteq 1..Len(files[c])
            BY DEF Where
          <5>5. QED BY <5>2, <5>3, <5>4
        <4>3. CASE c > file
          <5>1. ~(c < file + 1) /\ ~(c < file) /\ c # file /\ 1..(1 - 1) = {}
            BY <2>2, <4>3
          <5>2. Seen(c)' = {} /\ Seen(c) = {}
            BY <2>1, <5>1 DEF Seen
          <5>3. QED BY <5>2
        <4>4. QED BY <2>2, <4>1, <4>2, <4>3
      <3>2. QED BY <3>1
    <2>5. \A k, x : Behind(k, x)' <=> Behind(k, x)
      <3>1. ASSUME NEW k, NEW x
            PROVE  Behind(k, x)' <=> \E c \in Chapters : \E p \in Where(files[c], k) \cap Seen(c)' : files[c][p].of = x
        BY <2>1, <2>2 DEF Behind
      <3>2. ASSUME NEW k, NEW x PROVE Behind(k, x)' <=> Behind(k, x)
        <4>1. \A c \in Chapters : Where(files[c], k) \cap Seen(c)' = Where(files[c], k) \cap Seen(c)
          BY <2>4
        <4>2. (\E c \in Chapters : \E p \in Where(files[c], k) \cap Seen(c)' : files[c][p].of = x)
                <=> \E c \in Chapters : \E p \in Where(files[c], k) \cap Seen(c) : files[c][p].of = x
          BY <4>1
        <4>3. Behind(k, x) <=> \E c \in Chapters : \E p \in Where(files[c], k) \cap Seen(c) : files[c][p].of = x
          BY DEF Behind
        <4>4. Behind(k, x)' <=> \E c \in Chapters : \E p \in Where(files[c], k) \cap Seen(c)' : files[c][p].of = x
          BY <3>1
        <4>5. QED BY <4>2, <4>3, <4>4
      <3>3. QED BY <3>2
    <2>6. Twice' <=> Twice
      <3>1. Twice' <=> \E c, d \in Chapters :
                         \E p \in Where(files[c], "label") \cap Seen(c)', q \in Where(files[d], "label") \cap Seen(d)' :
                           files[c][p].of = files[d][q].of /\ ~(c = d /\ p = q)
        BY <2>1, <2>2 DEF Twice
      <3>2. QED BY <2>4, <3>1 DEF Twice
    <2>7. Collected'
      BY <1>1, <2>1, <2>5, <2>6 DEF Collected
    <2>8. ReadTypes'
      <3>1. file + 1 \in 1..(Len(files) + 1) /\ 1 \in Nat \ {0} /\ <<>> \in Seq(STRING)
        BY <2>1, <2>2
      <3>2. file + 1 <= Len(files) => 1 <= Len(files[file + 1]) + 1
        <4>1. file + 1 <= Len(files) => file + 1 \in Chapters
          BY <2>2
        <4>2. QED BY <2>3, <4>1
      <3>3. QED BY <2>1, <2>2, <3>1, <3>2 DEF ReadTypes
    <2>9. Nested'
      <3>1. CASE unbalanced
        BY <1>1, <2>1, <2>2, <3>1 DEF Nested
      <3>2. CASE ~unbalanced
        <4>1. Follows(files[file], at, stack) /\ \A c \in Chapters : c < file => Balanced(files[c])
          BY <1>1, <2>1, <3>2 DEF Nested
        <4>2. Balanced(files[file]) <=> stack = <<>>
          BY <2>1, <2>2, <2>3, <4>1, FollowsToTheEnd
        <4>3. \A c \in Chapters : c < file + 1 => c < file \/ c = file
          BY <2>2
        <4>4. file + 1 <= Len(files) => Follows(files[file + 1], 1, <<>>)
          <5>1. file + 1 <= Len(files) => file + 1 \in Chapters
            BY <2>2
          <5>2. QED BY <2>3, <5>1, FollowsBegin
        <4>5. QED BY <2>1, <2>2, <3>2, <4>1, <4>2, <4>3, <4>4 DEF Nested
      <3>3. QED BY <3>1, <3>2
    <2>10. QED BY <2>1, <2>7, <2>8, <2>9 DEF ReferencesInv, Judged
  <1>10. CASE Judge
    <2>1. /\ file > Len(files)
          /\ verdict' = (unbalanced \/ dup # {} \/ ~(refs \subseteq labels) \/ ~(cites \subseteq bib))
          /\ phase' = "done"
          /\ UNCHANGED <<files, file, at, labels, dup, refs, cites, bib, stack, unbalanced>>
      BY <1>10 DEF Judge
    <2>2. ReadTypes'
      BY <1>1, <2>1 DEF ReadTypes
    <2>3. Collected' /\ Nested'
      BY <1>1, <2>1 DEF Collected, Nested, Behind, Twice, Seen, Chapters
    <2>4. Judged'
      BY <2>1 DEF Judged
    <2>5. QED BY <2>2, <2>3, <2>4 DEF ReferencesInv
  <1>11. CASE UNCHANGED referring
    <2>1. ReadTypes' /\ Judged'
      BY <1>1, <1>11 DEF ReadTypes, Judged, referring
    <2>2. Collected' /\ Nested'
      BY <1>1, <1>11 DEF Collected, Nested, Behind, Twice, Seen, Chapters, referring
    <2>3. QED BY <2>1, <2>2 DEF ReferencesInv
  <1>12. CASE NotedCite
    <2>1. /\ MoreTokens /\ Onward /\ Here.kind = "notedcite"
          /\ UNCHANGED <<labels, dup, refs, cites, bib, stack, unbalanced>>
      BY <1>12 DEF NotedCite
    <2>2. /\ \A k, x : Behind(k, x)' <=> Behind(k, x) \/ (Here.kind = k /\ Here.of = x)
          /\ Twice' <=> Twice
      BY <1>1, <2>1, TokenRead
    <2>3. Collected'
      <3>1. \A k \in {"label", "ref", "cite", "bibitem"} : \A x : Behind(k, x)' <=> Behind(k, x)
        BY <2>1, <2>2
      <3>2. QED BY <1>1, <2>1, <2>2, <3>1 DEF Collected
    <2>4. QED BY <2>1, <2>3, OtherToken
  <1>13. QED BY <1>2, <1>3, <1>4, <1>5, <1>7, <1>8, <1>9, <1>10, <1>11, <1>12 DEF ReferencesNext

LEMMA ReferencesJudged == ReferencesInv => ReferencesAreRight
  <1> SUFFICES ASSUME ReferencesInv, phase = "done"
                 PROVE  verdict \/ ~Defined("notedcite", "bibitem") <=> ~WellFormed
    BY DEF ReferencesAreRight
  <1>1. /\ files \in Seq(Seq(Token)) /\ file \in Nat /\ Len(files) \in Nat /\ file > Len(files)
        /\ Chapters = 1..Len(files)
    BY DEF ReferencesInv, ReadTypes, Chapters
  <1>2. \A c \in Chapters : c < file
    BY <1>1
  <1>3. \A c \in Chapters : \A k : Where(files[c], k) \cap Seen(c) = Where(files[c], k)
    BY <1>2 DEF Seen, Where
  <1>4. unbalanced <=> \E c \in Chapters : ~Balanced(files[c])
    BY <1>2 DEF ReferencesInv, Nested
  <1>5. \A k, x : Behind(k, x) <=> Has(k, x)
    BY <1>3 DEF Behind, Has
  <1>6. dup # {} <=> \E c, d \in Chapters : \E p \in Where(files[c], "label"), q \in Where(files[d], "label") :
                       files[c][p].of = files[d][q].of /\ ~(c = d /\ p = q)
    BY <1>3 DEF ReferencesInv, Collected, Twice
  <1>7. refs \subseteq labels <=> Defined("ref", "label")
    <2>1. \A x : (x \in refs <=> Has("ref", x)) /\ (x \in labels <=> Has("label", x))
      BY <1>5 DEF ReferencesInv, Collected
    <2>2. QED BY <2>1 DEF Has, Defined
  <1>8. cites \subseteq bib <=> Defined("cite", "bibitem")
    <2>1. \A x : (x \in cites <=> Has("cite", x)) /\ (x \in bib <=> Has("bibitem", x))
      BY <1>5 DEF ReferencesInv, Collected
    <2>2. QED BY <2>1 DEF Has, Defined
  <1>9. verdict <=> unbalanced \/ dup # {} \/ ~(refs \subseteq labels) \/ ~(cites \subseteq bib)
    BY DEF ReferencesInv, Judged
  <1>10. QED BY <1>4, <1>6, <1>7, <1>8, <1>9 DEF WellFormed

\* Of any blueprint, any number of chapters of any length: problems are found only where
\* environments do not nest, a label is defined twice, or a reference or citation has none,
\* and wherever that is so, if the keys of citations with an optional argument are known.
THEOREM ReferencesHold == ReferencesSpec => []ReferencesAreRight
  <1>1. ReferencesInit => ReferencesInv
    BY ReferencesBegins
  <1>2. ReferencesInv /\ [ReferencesNext]_referring => ReferencesInv'
    BY ReferencesStep
  <1>3. ReferencesInv => ReferencesAreRight
    BY ReferencesJudged
  <1>4. QED BY <1>1, <1>2, <1>3, PTL DEF ReferencesSpec

-----------------------------------------------------------------------------
(* text_mode_specials against TeX. The reading of the file is a recursive  *)
(* function of the place; what holds at each place is shown for the first  *)
(* place where it would not.                                               *)

LEMMA FirstExists ==
  ASSUME NEW S \in SUBSET Nat, S # {}
  PROVE  \E x \in S : \A y \in S : x <= y
  <1>1. PICK x \in S : \A y \in S : ~(<<y, x>> \in OpToRel(<, Nat))
    BY NatLessThanWellFounded, WFMin
  <1>2. ASSUME NEW y \in S PROVE x <= y
    <2>1. x \in Nat /\ y \in Nat
      OBVIOUS
    <2>2. ~(y < x)
      BY <1>1, <2>1 DEF OpToRel
    <2>3. QED BY <2>1, <2>2
  <1>3. QED BY <1>2

LEMMA MinIsFirst ==
  ASSUME NEW S \in SUBSET Nat, S # {}
  PROVE  Min(S) \in S /\ \A y \in S : Min(S) <= y
  BY FirstExists DEF Min

\* What holds of a place and passes on to the next holds up to the last.
LEMMA Spreads ==
  ASSUME NEW a \in Nat, NEW b \in Int, NEW S, a \in S, \A p \in a..b : p \in S /\ p # b => p + 1 \in S
  PROVE  \A p \in a..b : p \in S
  <1> DEFINE D == {p \in a..b : p \notin S}
  <1> SUFFICES ASSUME D # {} PROVE FALSE
    OBVIOUS
  <1>1. D \in SUBSET Nat
    OBVIOUS
  <1>2. PICK x \in D : \A y \in D : x <= y
    BY <1>1, FirstExists
  <1>3. x # a /\ x \in a..b
    BY <1>2
  <1>4. x - 1 \in a..b /\ x - 1 # b
    BY <1>3
  <1>5. x - 1 \notin D
    BY <1>1, <1>2, <1>4
  <1>6. x - 1 + 1 \in S
    BY <1>4, <1>5
  <1>7. QED BY <1>2, <1>6

-----------------------------------------------------------------------------
(* TeX's reading.                                                          *)

Kinds == {"copy", "comment", "slash", "before", "inside", "escape"}
MathModes == {"text", "open", "inline", "display", "closing", "bracket"}
Mistakes == {"display", "nested", "newline", "bare", "comment", "name", "brace", "option", "text", "special"}
Harmless == {"display", "nested", "option", "text", "special"}
Options == {"none", "may", "open", "closed", "keys", "starts", "text"}

Reading ==
  [in : Kinds, command : {"none", "begin", "end", "cite"}, depth : Nat, arg : Seq(STRING),
   option : Options, mode : MathModes, envs : Nat, tick : BOOLEAN, odd : SUBSET Mistakes]

\* A backtick is seen in copy only, display mathematics is odd, and an argument is in braces.
Displays(s) == s.mode \in {"display", "closing"} => "display" \in s.odd
Formed(s) ==
  s \in Reading /\ (s.in # "copy" => ~s.tick) /\ Displays(s) /\ (s.in \in {"inside", "escape"} => s.depth > 0)

\* Copy before the token is told apart.
Told(s, t) == [s EXCEPT !.tick = t = "tick" /\ ~@, !.mode = IF @ = "open" /\ t # "dollar" THEN "inline" ELSE @]

LEMMA TeXExists ==
  ASSUME size \in Nat
  PROVE  TeX = [p \in 1..(size + 1) |-> IF p = 1 THEN Start ELSE ReadTeX(TeX[p - 1], src[p - 1])]
  <1> DEFINE Ok(n, f) == f = [p \in 1..n |-> IF p = 1 THEN Start ELSE ReadTeX(f[p - 1], src[p - 1])]
             S == {n \in Nat : \A f : ~Ok(n, f)}
  <1>1. \E f : Ok(0, f)
    <2>1. Ok(0, [p \in 1..0 |-> Start])
      OBVIOUS
    <2>2. QED BY <2>1
  <1>2. ASSUME NEW n \in Nat, NEW f, Ok(n, f) PROVE \E g : Ok(n + 1, g)
    <2> DEFINE g == [p \in 1..(n + 1) |-> IF p = 1 THEN Start
                                          ELSE IF p = n + 1 THEN ReadTeX(f[n], src[n]) ELSE f[p]]
    <2>1. \A p \in 1..(n + 1) : g[p] = IF p = 1 THEN Start ELSE ReadTeX(g[p - 1], src[p - 1])
      BY <1>2
    <2>2. Ok(n + 1, g)
      BY <2>1
    <2> HIDE DEF Ok
    <2>3. QED BY <2>2
  <1>3. \E f : Ok(size + 1, f)
    <2> HIDE DEF Ok
    <2>1. S = {}
      <3> SUFFICES ASSUME S # {} PROVE FALSE
        OBVIOUS
      <3>1. PICK x \in S : \A y \in S : x <= y
        BY FirstExists
      <3>2. x # 0
        BY <1>1, <3>1
      <3>3. x - 1 \in Nat /\ x - 1 \notin S
        BY <3>1, <3>2
      <3>4. PICK f : Ok(x - 1, f)
        BY <3>3
      <3>5. \E g : Ok(x - 1 + 1, g)
        BY <1>2, <3>3, <3>4
      <3>6. QED BY <3>1, <3>5
    <2>2. QED BY <2>1
  <1>4. QED BY <1>3 DEF TeX

LEMMA ReadingFields ==
  ASSUME NEW s \in Reading
  PROVE  /\ s.in \in Kinds /\ s.command \in {"none", "begin", "end", "cite"} /\ s.depth \in Nat
         /\ s.arg \in Seq(STRING) /\ s.mode \in MathModes /\ s.envs \in Nat
         /\ s.option \in Options /\ s.tick \in BOOLEAN /\ s.odd \in SUBSET Mistakes
  BY DEF Reading

LEMMA OddIs ==
  ASSUME NEW s \in Reading, NEW what \in Mistakes
  PROVE  /\ Odd(s, what) \in Reading /\ what \in Odd(s, what).odd /\ s.odd \subseteq Odd(s, what).odd
         /\ Odd(s, what).in = s.in /\ Odd(s, what).tick = s.tick /\ Odd(s, what).envs = s.envs
         /\ Odd(s, what).mode = s.mode /\ Odd(s, what).depth = s.depth
         /\ Odd(s, what).command = s.command /\ Odd(s, what).option = s.option
  <1> DEFINE w == s.odd \cup {what}
             q == [s EXCEPT !.odd = w]
  <1>1. w \in SUBSET Mistakes
    BY ReadingFields
  <1>2. Odd(s, what) = q
    BY DEF Odd
  <1> HIDE DEF w
  <1>3. q \in Reading /\ q.odd = w /\ q.in = s.in /\ q.tick = s.tick /\ q.envs = s.envs /\ q.mode = s.mode
        /\ q.depth = s.depth /\ q.command = s.command /\ q.option = s.option
    BY <1>1 DEF Reading
  <1>4. QED BY <1>2, <1>3 DEF w

LEMMA TurnIs ==
  ASSUME NEW s \in Reading, NEW from \in MathModes, NEW to \in MathModes
  PROVE  LET r == Turn(s, from, to)
         IN  /\ r \in Reading /\ s.odd \subseteq r.odd /\ r.in = s.in /\ r.tick = s.tick /\ r.envs = s.envs
             /\ r.mode \in {s.mode, to}
             /\ \/ r.odd = s.odd /\ s.mode = from /\ r.mode = to
                \/ "nested" \in r.odd
  <1>1. CASE s.mode = from /\ s.envs = 0
    <2>1. Turn(s, from, to) = [s EXCEPT !.mode = to]
      BY <1>1 DEF Turn
    <2>2. QED BY <1>1, <2>1 DEF Reading
  <1>2. CASE ~(s.mode = from /\ s.envs = 0)
    <2>1. Turn(s, from, to) = Odd(s, "nested") /\ "nested" \in Mistakes
      BY <1>2 DEF Turn, Mistakes
    <2>2. QED BY <2>1, OddIs
  <1>3. QED BY <1>1, <1>2

LEMMA TokenInCopy ==
  ASSUME NEW s \in Reading, NEW t
  PROVE  /\ Told(s, t) \in Reading /\ Told(s, t).odd = s.odd /\ Told(s, t).in = s.in /\ Told(s, t).envs = s.envs
         /\ Told(s, t).tick = (t = "tick" /\ ~s.tick)
         /\ Told(s, t).mode = IF s.mode = "open" /\ t # "dollar" THEN "inline" ELSE s.mode
  <1> DEFINE tick == (t = "tick" /\ ~s.tick)
             mode == IF s.mode = "open" /\ t # "dollar" THEN "inline" ELSE s.mode
             u == [s EXCEPT !.tick = tick, !.mode = mode]
  <1>1. Told(s, t) = u
    BY DEF Told
  <1>2. tick \in BOOLEAN /\ mode \in MathModes
    BY ReadingFields DEF MathModes
  <1> HIDE DEF tick, mode
  <1>3. u \in Reading /\ u.odd = s.odd /\ u.in = s.in /\ u.envs = s.envs /\ u.tick = tick /\ u.mode = mode
    BY <1>2 DEF Reading
  <1> HIDE DEF u
  <1>4. QED BY <1>1, <1>3 DEF tick, mode

LEMMA OptionalIs ==
  ASSUME NEW s \in Reading, NEW t
  PROVE  LET w == Optional(s, t)
         IN  /\ w \in Reading /\ s.odd \subseteq w.odd /\ w.in = s.in /\ w.tick = s.tick /\ w.envs = s.envs
             /\ w.mode = s.mode /\ (s.option = "text" /\ t = "underscore" => "special" \in w.odd)
  <1> DEFINE next == CASE s.option = "open" /\ t = "rbracket" -> "closed"
                       [] s.option = "closed" /\ t = "lbrace" -> "keys"
                       [] s.option \in {"keys", "text"} /\ t = "rbrace" -> "none"
                       [] s.option = "starts" /\ t = "lbrace" -> "text"
                       [] OTHER -> s.option
             u == [s EXCEPT !.option = next]
             w == Optional(s, t)
  <1>1. /\ w = u \/ \E what \in {"option", "text", "special"} : w = Odd(u, what)
        /\ s.option = "text" /\ t = "underscore" => w = Odd(u, "special")
    BY DEF Optional
  <1>2. next \in Options
    <2>1. s.option \in Options
      BY ReadingFields
    <2>2. {"closed", "keys", "none", "text"} \subseteq Options
      BY DEF Options
    <2>3. next \in {"closed", "keys", "none", "text", s.option}
      <3>1. CASE s.option = "open" /\ t = "rbracket"
        BY <3>1
      <3>2. CASE s.option = "closed" /\ t = "lbrace"
        BY <3>2
      <3>3. CASE s.option \in {"keys", "text"} /\ t = "rbrace"
        BY <3>3
      <3>4. CASE s.option = "starts" /\ t = "lbrace"
        BY <3>4
      <3>5. CASE /\ ~(s.option = "open" /\ t = "rbracket") /\ ~(s.option = "closed" /\ t = "lbrace")
                 /\ ~(s.option \in {"keys", "text"} /\ t = "rbrace") /\ ~(s.option = "starts" /\ t = "lbrace")
        BY <3>5
      <3>6. QED BY <3>1, <3>2, <3>3, <3>4, <3>5
    <2>4. QED BY <2>1, <2>2, <2>3
  <1> HIDE DEF next, w
  <1>3. /\ u \in Reading /\ u.odd = s.odd /\ u.in = s.in /\ u.tick = s.tick /\ u.envs = s.envs
        /\ u.mode = s.mode
    BY <1>2 DEF Reading
  <1> HIDE DEF u
  <1>4. {"option", "text", "special"} \subseteq Mistakes
    BY DEF Mistakes
  <1>5. ASSUME NEW what \in {"option", "text", "special"}
        PROVE  LET x == Odd(u, what)
               IN  /\ x \in Reading /\ s.odd \subseteq x.odd /\ x.in = s.in /\ x.tick = s.tick
                   /\ x.envs = s.envs /\ x.mode = s.mode /\ what \in x.odd
    <2>1. what \in Mistakes
      BY <1>4
    <2>2. QED BY <1>3, <2>1, OddIs
  <1>6. CASE s.option = "text" /\ t = "underscore"
    BY <1>1, <1>5, <1>6 DEF w
  <1>7. CASE ~(s.option = "text" /\ t = "underscore")
    <2>1. CASE w = u
      BY <1>3, <1>7, <2>1 DEF w
    <2>2. CASE w # u
      BY <1>1, <1>5, <1>7, <2>2 DEF w
    <2>3. QED BY <2>1, <2>2
  <1>8. QED BY <1>6, <1>7

LEMMA CopyRead ==
  ASSUME NEW s \in Reading, Displays(s), NEW t, s.in = "copy"
  PROVE  LET r == InCopy(s, t)
         IN  /\ Formed(r) /\ s.odd \subseteq r.odd /\ r.envs = s.envs
             /\ r.tick = (t = "tick" /\ ~s.tick)
             /\ r.in = IF t = "percent" THEN "comment" ELSE IF t = "backslash" THEN "slash" ELSE "copy"
             /\ r.odd = {} =>
                  IF t = "dollar" THEN (s.mode = "text" /\ r.mode = "open") \/ (s.mode = "inline" /\ r.mode = "text")
                             ELSE r.mode = IF s.mode = "open" THEN "inline" ELSE s.mode
             /\ r.odd = {} /\ t = "underscore" => s.option # "text"
  <1> DEFINE w == Optional(s, t)
             u == Told(w, t)
             r == InCopy(s, t)
  <1>0. /\ w \in Reading /\ s.odd \subseteq w.odd /\ w.in = "copy" /\ w.tick = s.tick /\ w.envs = s.envs
        /\ w.mode = s.mode /\ (s.option = "text" /\ t = "underscore" => "special" \in w.odd)
    BY OptionalIs
  <1> HIDE DEF w
  <1>1. /\ u \in Reading /\ s.odd \subseteq u.odd /\ u.in = "copy" /\ u.envs = s.envs
        /\ u.tick = (t = "tick" /\ ~s.tick)
        /\ u.mode = IF s.mode = "open" /\ t # "dollar" THEN "inline" ELSE s.mode
        /\ s.option = "text" /\ t = "underscore" => u.odd # {}
    BY <1>0, TokenInCopy
  <1>2. r = CASE t = "percent" -> [u EXCEPT !.in = "comment"]
              [] t = "backslash" -> [u EXCEPT !.in = "slash"]
              [] t = "dollar" -> (CASE u.mode = "text" -> Turn(u, "text", "open")
                               [] u.mode = "open" -> Odd(Turn(u, "open", "display"), "display")
                               [] u.mode = "inline" -> Turn(u, "inline", "text")
                               [] u.mode = "display" -> Turn(u, "display", "closing")
                               [] u.mode = "closing" -> Turn(u, "closing", "text")
                               [] OTHER -> Odd(u, "nested"))
              [] OTHER -> u
    BY DEF InCopy, Copy, Told, w
  <1> HIDE DEF u, r
  <1>3. Displays(u)
    BY <1>1 DEF Displays
  <1>4. CASE t \in {"percent", "backslash"}
    <2> DEFINE in == IF t = "percent" THEN "comment" ELSE "slash"
    <2>1. r = [u EXCEPT !.in = in]
      BY <1>2, <1>4
    <2>2. r \in Reading /\ r.in = in /\ r.odd = u.odd /\ r.envs = u.envs /\ r.tick = u.tick /\ r.mode = u.mode
      BY <1>1, <2>1 DEF Reading, Kinds
    <2>3. Formed(r)
      BY <1>1, <1>3, <1>4, <2>2 DEF Formed, Displays
    <2>4. QED BY <1>1, <1>4, <2>2, <2>3 DEF r
  <1>5. CASE t \notin {"percent", "backslash", "dollar"}
    <2>1. r = u
      BY <1>2, <1>5
    <2>2. QED BY <1>1, <1>3, <1>5, <2>1 DEF r, Formed
  <1>6. CASE t = "dollar"
    <2>1. u.mode = s.mode
      BY <1>1, <1>6
    <2>2. u.mode \in MathModes /\ {"text", "open", "inline", "display", "closing"} \subseteq MathModes
          /\ {"nested", "display"} \subseteq Mistakes
      BY <1>1, ReadingFields DEF MathModes, Mistakes
    <2> SUFFICES /\ r \in Reading /\ Displays(r) /\ u.odd \subseteq r.odd /\ r.envs = u.envs
                 /\ r.tick = u.tick /\ r.in = u.in
                 /\ r.odd = {} => (u.mode = "text" /\ r.mode = "open") \/ (u.mode = "inline" /\ r.mode = "text")
      BY <1>1, <1>6, <2>1 DEF r, Formed
    <2>3. CASE u.mode \in {"text", "inline"}
      <3> DEFINE to == IF u.mode = "text" THEN "open" ELSE "text"
      <3>1. r = Turn(u, u.mode, to)
        BY <1>2, <1>6, <2>3
      <3>2. to \in MathModes
        BY <2>2
      <3> HIDE DEF to
      <3>3. /\ r \in Reading /\ u.odd \subseteq r.odd /\ r.in = u.in /\ r.tick = u.tick /\ r.envs = u.envs
            /\ r.mode \in {u.mode, to}
            /\ \/ r.odd = u.odd /\ r.mode = to
               \/ "nested" \in r.odd
        <4>1. u \in Reading /\ u.mode \in MathModes
          BY <1>1, <2>2
        <4>2. QED BY <3>1, <3>2, <4>1, TurnIs
      <3>4. QED BY <2>3, <3>3 DEF Displays, to
    <2>4. CASE u.mode = "open"
      <3> DEFINE q == Turn(u, "open", "display")
      <3>1. r = Odd(q, "display")
        BY <1>2, <1>6, <2>4
      <3>2. q \in Reading /\ u.odd \subseteq q.odd /\ q.in = u.in /\ q.tick = u.tick /\ q.envs = u.envs
        <4>1. "open" \in MathModes /\ "display" \in MathModes
          BY <2>2
        <4>2. QED BY <1>1, <4>1, TurnIs
      <3> HIDE DEF q
      <3>3. QED BY <1>1, <2>2, <3>1, <3>2, OddIs DEF Displays
    <2>5. CASE u.mode \in {"display", "closing"}
      <3> DEFINE to == IF u.mode = "display" THEN "closing" ELSE "text"
      <3>1. r = Turn(u, u.mode, to)
        BY <1>2, <1>6, <2>5
      <3>2. r \in Reading /\ u.odd \subseteq r.odd /\ r.in = u.in /\ r.tick = u.tick /\ r.envs = u.envs
        <4>1. to \in MathModes
          BY <2>2
        <4> HIDE DEF to
        <4>2. u \in Reading /\ u.mode \in MathModes
          BY <1>1, <2>2
        <4>3. QED BY <3>1, <4>1, <4>2, TurnIs
      <3>3. "display" \in r.odd
        BY <1>3, <2>5, <3>2 DEF Displays
      <3>4. QED BY <3>2, <3>3 DEF Displays
    <2>6. CASE u.mode \notin {"text", "open", "inline", "display", "closing"}
      <3>1. r = Odd(u, "nested")
        BY <1>2, <1>6, <2>6
      <3>2. QED BY <1>1, <1>3, <2>2, <2>6, <3>1, OddIs DEF Displays
    <2>7. QED BY <2>3, <2>4, <2>5, <2>6
  <1>7. QED BY <1>4, <1>5, <1>6

LEMMA CommentRead ==
  ASSUME NEW s, Formed(s), NEW t, s.in = "comment"
  PROVE  LET r == IF t = "nl" THEN [s EXCEPT !.in = "copy"] ELSE s
         IN  /\ Formed(r) /\ s.odd \subseteq r.odd /\ r.envs = s.envs /\ r.mode = s.mode /\ ~r.tick
             /\ IF t = "nl" THEN r.in = "copy" ELSE r = s
  <1>1. CASE t = "nl"
    <2> DEFINE r == [s EXCEPT !.in = "copy"]
    <2>1. r \in Reading /\ r.in = "copy" /\ r.odd = s.odd /\ r.envs = s.envs /\ r.mode = s.mode /\ r.tick = s.tick
      BY DEF Formed, Reading, Kinds
    <2> HIDE DEF r
    <2>2. Formed(r)
      BY <2>1 DEF Formed, Displays
    <2>3. ~r.tick
      BY <2>1 DEF Formed
    <2>4. QED BY <1>1, <2>1, <2>2, <2>3 DEF r
  <1>2. CASE t # "nl"
    BY <1>2 DEF Formed
  <1>3. QED BY <1>1, <1>2

LEMMA SlashRead ==
  ASSUME NEW s, Formed(s), NEW t, s.in = "slash"
  PROVE  LET r == AfterSlash(s, t)
         IN  /\ Formed(r) /\ s.odd \subseteq r.odd /\ r.envs = s.envs /\ ~r.tick
             /\ r.odd \subseteq Harmless =>
                  /\ t # "nl"
                  /\ IF t \in {"begin", "end", "cite"} THEN r.in = "before" /\ r.command = t ELSE r.in = "copy"
                  /\ t \in {"begin", "end", "cite"} => r.option = IF t = "cite" THEN "may" ELSE "none"
             /\ r.odd = {} => r.mode = CASE t = "lbracket" -> "bracket" [] t = "rbracket" -> "text" [] OTHER -> s.mode
  <1> DEFINE u == [s EXCEPT !.in = "copy"]
             r == AfterSlash(s, t)
  <1>1. /\ u \in Reading /\ u.in = "copy" /\ u.odd = s.odd /\ u.envs = s.envs /\ u.mode = s.mode
        /\ u.tick = s.tick
    BY DEF Formed, Reading, Kinds
  <1>2. r = CASE t = "nl" -> Odd(u, "newline")
              [] t \in {"begin", "end"} \cup NAME_ARG_CMDS -> Control(s, t)
              [] t = "lbracket" -> Turn(u, "text", "bracket")
              [] t = "rbracket" -> Turn(u, "bracket", "text")
              [] t = "text" /\ ~InTextMode(s) ->
                   IF s.option = "none" THEN [u EXCEPT !.option = "starts"] ELSE Odd(u, "text")
              [] OTHER -> u
    BY DEF AfterSlash
  <1> HIDE DEF u, r
  <1>3. ~u.tick /\ Displays(u)
    BY <1>1 DEF Formed, Displays
  <1>4. CASE t = "nl"
    <2>1. r = Odd(u, "newline")
      BY <1>2, <1>4 DEF NAME_ARG_CMDS
    <2>0. "newline" \in Mistakes /\ "newline" \notin Harmless
      BY DEF Mistakes, Harmless
    <2>2. r \in Reading /\ "newline" \in r.odd /\ u.odd \subseteq r.odd /\ r.in = u.in /\ r.tick = u.tick
          /\ r.envs = u.envs /\ r.mode = u.mode
      BY <1>1, <2>0, <2>1, OddIs
    <2>3. QED BY <1>1, <1>3, <1>4, <2>0, <2>2 DEF r, Formed, Displays
  <1>5. CASE t \in {"begin", "end", "cite"}
    <2> DEFINE option == IF t = "cite" THEN "may" ELSE "none"
               v == [s EXCEPT !.in = "before", !.command = t, !.option = option]
    <2>1. r = v \/ r = Odd(v, "option")
      <3>1. r = Control(s, t)
        BY <1>2, <1>5 DEF NAME_ARG_CMDS
      <3>2. t \in NAME_ARG_CMDS <=> t = "cite"
        BY DEF NAME_ARG_CMDS
      <3>3. QED BY <3>1, <3>2 DEF Control
    <2>2. option \in Options
      BY DEF Options
    <2> HIDE DEF option
    <2>3. /\ v \in Reading /\ v.in = "before" /\ v.command = t /\ v.option = option /\ v.odd = s.odd /\ v.tick = s.tick
          /\ v.envs = s.envs /\ v.mode = s.mode
      BY <1>5, <2>2 DEF Formed, Reading, Kinds
    <2> HIDE DEF v
    <2>4. /\ r \in Reading /\ r.in = "before" /\ r.command = t /\ r.option = option /\ s.odd \subseteq r.odd /\ r.tick = s.tick
          /\ r.envs = s.envs /\ r.mode = s.mode
      <3>1. "option" \in Mistakes
        BY DEF Mistakes
      <3>2. CASE r = v
        BY <2>3, <3>2
      <3>3. CASE r = Odd(v, "option")
        BY <2>3, <3>1, <3>3, OddIs
      <3>4. QED BY <2>1, <3>2, <3>3
    <2>5. Formed(r)
      BY <1>1, <1>3, <2>4 DEF Formed, Displays
    <2>6. QED BY <1>1, <1>3, <1>5, <2>4, <2>5 DEF r, option
  <1>6. CASE t \in {"lbracket", "rbracket"}
    <2> DEFINE from == IF t = "lbracket" THEN "text" ELSE "bracket"
               to == IF t = "lbracket" THEN "bracket" ELSE "text"
    <2>1. r = Turn(u, from, to)
      BY <1>2, <1>6 DEF NAME_ARG_CMDS
    <2>2. from \in MathModes /\ to \in MathModes /\ to \notin {"display", "closing"}
      BY DEF MathModes
    <2>3. to = CASE t = "lbracket" -> "bracket" [] t = "rbracket" -> "text" [] OTHER -> s.mode
      BY <1>6
    <2> HIDE DEF from, to
    <2>4. /\ r \in Reading /\ u.odd \subseteq r.odd /\ r.in = u.in /\ r.tick = u.tick /\ r.envs = u.envs
          /\ r.mode \in {u.mode, to}
          /\ \/ r.odd = u.odd /\ u.mode = from /\ r.mode = to
             \/ "nested" \in r.odd
      BY <1>1, <2>1, <2>2, TurnIs
    <2>5. QED BY <1>1, <1>3, <1>6, <2>2, <2>3, <2>4 DEF r, Formed, Displays
  <1>7. CASE t \notin {"nl", "begin", "end", "cite", "lbracket", "rbracket"}
    <2>1. r = u \/ r = [u EXCEPT !.option = "starts"] \/ r = Odd(u, "text")
      BY <1>2, <1>7 DEF NAME_ARG_CMDS
    <2>2. "starts" \in Options /\ "text" \in Mistakes
      BY DEF Options, Mistakes
    <2>3. /\ r \in Reading /\ r.in = u.in /\ u.odd \subseteq r.odd /\ r.envs = u.envs /\ r.mode = u.mode
          /\ r.tick = u.tick
      <3>1. CASE r = u
        BY <1>1, <3>1
      <3>2. CASE r = [u EXCEPT !.option = "starts"]
        BY <1>1, <2>2, <3>2 DEF Reading
      <3>3. CASE r = Odd(u, "text")
        BY <1>1, <2>2, <3>3, OddIs
      <3>4. QED BY <2>1, <3>1, <3>2, <3>3
    <2>4. QED BY <1>1, <1>3, <1>7, <2>3 DEF r, Formed, Displays
  <1>8. QED BY <1>4, <1>5, <1>6, <1>7

\* What an argument, and the blanks before it, leave alone.
SameMode(s, r) == r.command = s.command /\ r.mode = s.mode /\ r.envs = s.envs

LEMMA BeforeRead ==
  ASSUME NEW s, Formed(s), NEW t, s.in = "before"
  PROVE  LET r == BeforeArgument(s, t)
         IN  /\ Formed(r) /\ s.odd \subseteq r.odd
             /\ r.odd \subseteq Harmless =>
                  /\ SameMode(s, r)
                  /\ \/ t = "lbrace" /\ r.in = "inside" /\ r.depth = 1 /\ r.arg = <<>>
                     \/ (t = "space" \/ (t = "nl" /\ s.command = "cite")) /\ r.in = "before" /\ r.option = "none"
                     \/ t = "lbracket" /\ s.option = "may" /\ r.in = "copy" /\ ~r.tick
  <1> DEFINE r == BeforeArgument(s, t)
             what == IF t = "nl" THEN "newline" ELSE "bare"
             u == [s EXCEPT !.in = "copy"]
  <1>1. r = CASE t = "lbrace" -> [s EXCEPT !.in = "inside", !.depth = 1, !.arg = <<>>, !.option = "none"]
              [] t = "space" \/ (t = "nl" /\ s.command = "cite") -> [s EXCEPT !.option = "none"]
              [] t = "lbracket" /\ s.option = "may" -> [s EXCEPT !.in = "copy", !.option = "open"]
              [] OTHER -> Odd(u, what)
    BY DEF BeforeArgument, NAME_ARG_CMDS
  <1>2. /\ u \in Reading /\ u.in = "copy" /\ u.odd = s.odd /\ u.mode = s.mode /\ u.tick = s.tick
        /\ s \in Reading /\ ~s.tick /\ Displays(s)
    BY DEF Formed, Reading, Kinds
  <1>3. what \in Mistakes /\ what \notin Harmless
    BY DEF Mistakes, Harmless
  <1>0. "none" \in Options /\ "open" \in Options
    BY DEF Options
  <1> HIDE DEF r, u, what
  <1>4. CASE t = "lbrace"
    <2>1. r = [s EXCEPT !.in = "inside", !.depth = 1, !.arg = <<>>, !.option = "none"]
      BY <1>1, <1>4
    <2>2. <<>> \in Seq(STRING)
      OBVIOUS
    <2>3. /\ r \in Reading /\ r.in = "inside" /\ r.depth = 1 /\ r.arg = <<>> /\ r.command = s.command
          /\ r.mode = s.mode /\ r.envs = s.envs /\ r.odd = s.odd /\ r.tick = s.tick
      BY <1>0, <1>2, <2>1, <2>2 DEF Reading, Kinds
    <2>4. Formed(r)
      BY <1>2, <2>3 DEF Formed, Displays
    <2>5. QED BY <1>4, <2>3, <2>4 DEF r, SameMode
  <1>5. CASE t # "lbrace" /\ (t = "space" \/ (t = "nl" /\ s.command = "cite"))
    <2>1. r = [s EXCEPT !.option = "none"]
      BY <1>1, <1>5
    <2>2. /\ r \in Reading /\ r.in = "before" /\ r.command = s.command /\ r.option = "none"
          /\ r.mode = s.mode /\ r.envs = s.envs /\ r.odd = s.odd /\ r.tick = s.tick
      BY <1>0, <1>2, <2>1 DEF Reading
    <2>3. Formed(r)
      BY <1>2, <2>2 DEF Formed, Displays
    <2>4. QED BY <1>5, <2>2, <2>3 DEF r, SameMode
  <1>6. CASE t = "lbracket" /\ s.option = "may"
    <2>1. r = [s EXCEPT !.in = "copy", !.option = "open"]
      BY <1>1, <1>6
    <2>2. /\ r \in Reading /\ r.in = "copy" /\ r.command = s.command
          /\ r.mode = s.mode /\ r.envs = s.envs /\ r.odd = s.odd /\ r.tick = s.tick
      BY <1>0, <1>2, <2>1 DEF Reading, Kinds
    <2>3. Formed(r)
      BY <1>2, <2>2 DEF Formed, Displays
    <2>4. QED BY <1>2, <1>6, <2>2, <2>3 DEF r, SameMode
  <1>7. CASE t # "lbrace" /\ ~(t = "space" \/ (t = "nl" /\ s.command = "cite")) /\ ~(t = "lbracket" /\ s.option = "may")
    <2>1. r = Odd(u, what)
      BY <1>1, <1>7
    <2>2. r \in Reading /\ what \in r.odd /\ u.odd \subseteq r.odd /\ r.in = u.in /\ r.tick = u.tick /\ r.mode = u.mode
      BY <1>2, <1>3, <2>1, OddIs
    <2>3. QED BY <1>2, <1>3, <2>2 DEF r, Formed, Displays
  <1>8. QED BY <1>4, <1>5, <1>6, <1>7

\* What the end of an environment's name does to the environments that are open.
Opened(s) ==
  IF s.arg \notin MATH_ENVS THEN s.envs
  ELSE CASE s.command = "begin" -> s.envs + 1 [] s.command = "end" -> s.envs - 1 [] OTHER -> s.envs

LEMMA ArgumentEnds ==
  ASSUME NEW s, Formed(s), s.in = "inside"
  PROVE  LET r == EndArgument(s)
         IN  /\ Formed(r) /\ s.odd \subseteq r.odd /\ r.in = "copy" /\ ~r.tick /\ r.mode = s.mode
             /\ r.odd = {} => r.envs = Opened(s)
  <1> DEFINE u == [s EXCEPT !.in = "copy"]
             r == EndArgument(s)
             named == s.arg \in MATH_ENVS
  <1>1. /\ u \in Reading /\ u.in = "copy" /\ u.odd = s.odd /\ u.mode = s.mode /\ u.tick = s.tick /\ u.envs = s.envs
        /\ s \in Reading /\ ~s.tick /\ Displays(s) /\ s.envs \in Nat
    BY DEF Formed, Reading, Kinds
  <1>2. r = CASE s.command = "begin" /\ named -> IF s.mode = "text" THEN [u EXCEPT !.envs = s.envs + 1] ELSE Odd(u, "nested")
              [] s.command = "end" /\ named -> IF s.envs > 0 THEN [u EXCEPT !.envs = s.envs - 1] ELSE Odd(u, "nested")
              [] OTHER -> u
    <2>1. s.command # "begin" \/ s.command # "end"
      OBVIOUS
    <2>2. QED BY <1>1, <2>1 DEF EndArgument
  <1> HIDE DEF u, r
  <1>3. Opened(s) = CASE s.command = "begin" /\ named -> s.envs + 1
                      [] s.command = "end" /\ named -> s.envs - 1
                      [] OTHER -> s.envs
    BY DEF Opened
  <1> HIDE DEF named
  <1>4. CASE \/ s.command = "begin" /\ named /\ s.mode = "text"
             \/ s.command = "end" /\ named /\ s.envs > 0
    <2> DEFINE e == IF s.command = "begin" THEN s.envs + 1 ELSE s.envs - 1
    <2>1. e \in Nat /\ e = Opened(s) /\ r = [u EXCEPT !.envs = e]
      BY <1>1, <1>2, <1>3, <1>4
    <2> HIDE DEF e
    <2>2. r \in Reading /\ r.in = u.in /\ r.odd = u.odd /\ r.mode = u.mode /\ r.tick = u.tick /\ r.envs = e
      BY <1>1, <2>1 DEF Reading
    <2>3. QED BY <1>1, <2>1, <2>2 DEF r, Formed, Displays
  <1>5. CASE \/ s.command = "begin" /\ named /\ s.mode # "text"
             \/ s.command = "end" /\ named /\ ~(s.envs > 0)
    <2>1. r = Odd(u, "nested") /\ "nested" \in Mistakes
      BY <1>2, <1>5 DEF Mistakes
    <2>2. r \in Reading /\ "nested" \in r.odd /\ u.odd \subseteq r.odd /\ r.in = u.in /\ r.tick = u.tick /\ r.mode = u.mode
      BY <1>1, <2>1, OddIs
    <2>3. QED BY <1>1, <2>2 DEF r, Formed, Displays
  <1>6. CASE ~(s.command = "begin" /\ named) /\ ~(s.command = "end" /\ named)
    <2>1. r = u /\ Opened(s) = s.envs
      BY <1>2, <1>3, <1>6
    <2>2. QED BY <1>1, <2>1 DEF r, Formed, Displays
  <1>7. QED BY <1>4, <1>5, <1>6

LEMMA InsideRead ==
  ASSUME NEW s, Formed(s), NEW t \in STRING, s.in = "inside"
  PROVE  LET r == InArgument(s, t)
         IN  /\ Formed(r) /\ s.odd \subseteq r.odd
             /\ t = "rbrace" /\ s.depth = 1 => r = EndArgument(s)
             /\ ~(t = "rbrace" /\ s.depth = 1) /\ r.odd \subseteq Harmless =>
                  /\ t # "percent" /\ r.command = s.command /\ r.mode = s.mode /\ r.envs = s.envs
                  /\ IF s.command = "cite"
                     THEN /\ r.in = IF t = "backslash" THEN "escape" ELSE "inside"
                          /\ r.depth = CASE t = "lbrace" -> s.depth + 1 [] t = "rbrace" -> s.depth - 1 [] OTHER -> s.depth
                     ELSE /\ r.in = "inside"
                          /\ t # "rbrace" => t \notin {"lbrace", "backslash", "nl"} /\ r.depth = s.depth /\ r.arg = Append(s.arg, t)
  <1> DEFINE r == InArgument(s, t)
             Moved(q) == /\ q \in Reading /\ q.command = s.command /\ q.mode = s.mode /\ q.envs = s.envs
                         /\ q.odd = s.odd /\ ~q.tick /\ q.depth > 0
  <1>1. /\ s \in Reading /\ ~s.tick /\ Displays(s) /\ s.depth \in Nat /\ s.depth > 0 /\ s.arg \in Seq(STRING)
        /\ Moved(s)
    BY DEF Formed, Reading
  <1>2. \A q : Moved(q) /\ q.in \in {"inside", "escape"} => Formed(q) /\ s.odd \subseteq q.odd
    BY <1>1 DEF Formed, Displays
  <1>3. CASE t = "rbrace" /\ s.depth = 1
    <2>1. r = EndArgument(s)
      BY <1>3 DEF InArgument
    <2>2. Formed(r) /\ s.odd \subseteq r.odd
      BY <2>1, ArgumentEnds
    <2> HIDE DEF r
    <2>3. QED BY <1>3, <2>1, <2>2 DEF r
  <1>4. CASE t = "rbrace" /\ s.depth # 1
    <2> DEFINE d == s.depth - 1
    <2> HIDE DEF Moved
    <2>1. d \in Nat /\ d > 0
      BY <1>1, <1>4
    <2> USE DEF Moved
    <2>0. r = [s EXCEPT !.depth = d]
      BY <1>4 DEF InArgument
    <2> HIDE DEF d, r
    <2>2. Moved(r) /\ r.in = "inside" /\ r.depth = d
      BY <1>1, <2>0, <2>1 DEF Reading
    <2> HIDE DEF Moved
    <2>3. Formed(r) /\ s.odd \subseteq r.odd
      BY <1>2, <2>2
    <2>4. QED BY <1>4, <2>2, <2>3 DEF r, d, Moved
  <1>5. CASE t # "rbrace" /\ s.command = "cite"
    <2>1. r = InKeys(s, t)
      BY <1>5 DEF InArgument, NAME_ARG_CMDS
    <2> HIDE DEF r
    <2>2. CASE t = "percent"
      <3>1. r = Odd(s, "comment")
        BY <2>1, <2>2 DEF InKeys
      <3>2. "comment" \in Mistakes /\ "comment" \notin Harmless
        BY DEF Mistakes, Harmless
      <3>3. r \in Reading /\ "comment" \in r.odd /\ s.odd \subseteq r.odd /\ r.in = s.in /\ r.tick = s.tick /\ r.mode = s.mode
            /\ r.depth = s.depth
        BY <1>1, <3>1, <3>2, OddIs
      <3>4. Formed(r)
        BY <1>1, <3>3 DEF Formed, Displays
      <3>5. QED BY <1>5, <3>2, <3>3, <3>4 DEF r
    <2>3. CASE t = "lbrace"
      <3> DEFINE d == s.depth + 1
      <3>1. d \in Nat /\ d > 0
        BY <1>1
      <3>0. r = [s EXCEPT !.depth = d]
        BY <2>1, <2>3 DEF InKeys
      <3> HIDE DEF d
      <3>2. Moved(r) /\ r.in = "inside" /\ r.depth = d
        BY <1>1, <3>0, <3>1 DEF Reading
      <3> HIDE DEF Moved
      <3>3. Formed(r) /\ s.odd \subseteq r.odd
        BY <1>2, <3>2
      <3>4. QED BY <1>5, <2>3, <3>2, <3>3 DEF r, d, Moved
    <2>4. CASE t = "backslash"
      <3>1. r = [s EXCEPT !.in = "escape"]
        BY <2>1, <2>4 DEF InKeys
      <3>2. Moved(r) /\ r.in = "escape" /\ r.depth = s.depth
        BY <1>1, <3>1 DEF Reading, Kinds
      <3> HIDE DEF Moved
      <3>3. Formed(r) /\ s.odd \subseteq r.odd
        BY <1>2, <3>2
      <3>4. QED BY <1>5, <2>4, <3>2, <3>3 DEF r, Moved
    <2>5. CASE t \notin {"percent", "lbrace", "backslash"}
      <3>1. r = s
        BY <2>1, <2>5 DEF InKeys
      <3>2. QED BY <1>1, <1>5, <2>5, <3>1 DEF r
    <2>6. QED BY <2>2, <2>3, <2>4, <2>5
  <1>6. CASE t # "rbrace" /\ s.command # "cite"
    <2>1. r = InEnvironmentName(s, t)
      BY <1>6 DEF InArgument, NAME_ARG_CMDS
    <2> HIDE DEF r
    <2>2. CASE t \in {"percent", "lbrace", "backslash", "nl"}
      <3>1. r = Odd(s, "name")
        BY <2>1, <2>2 DEF InEnvironmentName
      <3>2. "name" \in Mistakes /\ "name" \notin Harmless
        BY DEF Mistakes, Harmless
      <3>3. r \in Reading /\ "name" \in r.odd /\ s.odd \subseteq r.odd /\ r.in = s.in /\ r.tick = s.tick /\ r.mode = s.mode
            /\ r.depth = s.depth
        BY <1>1, <3>1, <3>2, OddIs
      <3>4. Formed(r)
        BY <1>1, <3>3 DEF Formed, Displays
      <3>5. QED BY <1>6, <3>2, <3>3, <3>4 DEF r
    <2>3. CASE t \notin {"percent", "lbrace", "backslash", "nl"}
      <3> DEFINE w == Append(s.arg, t)
      <3>1. w \in Seq(STRING)
        BY <1>1
      <3>2. r = [s EXCEPT !.arg = w]
        BY <2>1, <2>3 DEF InEnvironmentName
      <3> HIDE DEF w
      <3>3. Moved(r) /\ r.in = "inside" /\ r.depth = s.depth /\ r.arg = w
        BY <1>1, <3>1, <3>2 DEF Reading
      <3> HIDE DEF Moved
      <3>4. Formed(r) /\ s.odd \subseteq r.odd
        BY <1>2, <3>3
      <3>5. QED BY <1>6, <2>3, <3>3, <3>4 DEF r, w, Moved
    <2>4. QED BY <2>2, <2>3
  <1>7. QED BY <1>3, <1>4, <1>5, <1>6

LEMMA EscapeRead ==
  ASSUME NEW s, Formed(s), NEW t, s.in = "escape"
  PROVE  LET r == InEscape(s, t)
         IN  /\ Formed(r) /\ s.odd \subseteq r.odd
             /\ r.odd \subseteq Harmless =>
                  /\ t \notin {"lbrace", "rbrace", "nl"} /\ r.in = "inside" /\ r.command = s.command
                  /\ r.depth = s.depth /\ r.mode = s.mode /\ r.envs = s.envs
  <1> DEFINE u == [s EXCEPT !.in = "inside"]
             r == InEscape(s, t)
  <1>1. /\ u \in Reading /\ u.in = "inside" /\ u.odd = s.odd /\ u.envs = s.envs /\ u.mode = s.mode
        /\ u.tick = s.tick /\ u.command = s.command /\ u.depth = s.depth
        /\ ~s.tick /\ Displays(s) /\ s.depth > 0
    BY DEF Formed, Reading, Kinds
  <1>2. r = IF t \in {"lbrace", "rbrace", "nl"} THEN Odd(u, "brace") ELSE u
    BY DEF InEscape
  <1> HIDE DEF r, u
  <1>3. CASE t \in {"lbrace", "rbrace", "nl"}
    <2>1. r = Odd(u, "brace")
      BY <1>2, <1>3
    <2>2. "brace" \in Mistakes /\ "brace" \notin Harmless
      BY DEF Mistakes, Harmless
    <2>3. r \in Reading /\ "brace" \in r.odd /\ u.odd \subseteq r.odd /\ r.in = u.in /\ r.tick = u.tick /\ r.mode = u.mode
          /\ r.depth = u.depth
      BY <1>1, <2>1, <2>2, OddIs
    <2>4. Formed(r)
      BY <1>1, <2>3 DEF Formed, Displays
    <2>5. QED BY <1>1, <2>2, <2>3, <2>4 DEF r
  <1>4. CASE t \notin {"lbrace", "rbrace", "nl"}
    <2>1. r = u
      BY <1>2, <1>4
    <2>2. QED BY <1>1, <1>4, <2>1 DEF r, Formed, Displays
  <1>5. QED BY <1>3, <1>4

-----------------------------------------------------------------------------
(* The places of the file.                                                 *)

LEMMA TeXRuns ==
  ASSUME src \in Seq(STRING)
  PROVE  /\ size \in Nat /\ TeX[1] = Start
         /\ \A p \in 1..size : TeX[p + 1] = ReadTeX(TeX[p], src[p]) /\ src[p] \in STRING
         /\ \A p \in 1..(size + 1) : Formed(TeX[p])
         /\ \A p \in 1..size : TeX[p].odd \subseteq TeX[p + 1].odd
  <1>1. size \in Nat /\ \A p \in 1..size : src[p] \in STRING
    BY DEF size
  <1>2. TeX = [p \in 1..(size + 1) |-> IF p = 1 THEN Start ELSE ReadTeX(TeX[p - 1], src[p - 1])]
    BY <1>1, TeXExists
  <1>3. TeX[1] = Start
    <2>1. 1 \in 1..(size + 1)
      BY <1>1
    <2>2. QED BY <1>2, <2>1
  <1>4. ASSUME NEW p \in 1..size PROVE TeX[p + 1] = ReadTeX(TeX[p], src[p])
    <2>1. p + 1 \in 1..(size + 1) /\ p + 1 # 1 /\ p + 1 - 1 = p
      BY <1>1
    <2>2. PICK q \in 1..(size + 1) : q = p + 1 /\ q # 1 /\ q - 1 = p
      BY <2>1
    <2>3. TeX[q] = IF q = 1 THEN Start ELSE ReadTeX(TeX[q - 1], src[q - 1])
      BY <1>2, Zenon
    <2>4. QED BY <2>2, <2>3
  <1>5. Formed(Start)
    <2>1. <<>> \in Seq(STRING)
      OBVIOUS
    <2>2. QED BY <2>1 DEF Start, Formed, Reading, Kinds, MathModes, Mistakes, Options, Displays
  <1>6. ASSUME NEW s, Formed(s), NEW t \in STRING
        PROVE  Formed(ReadTeX(s, t)) /\ s.odd \subseteq ReadTeX(s, t).odd
    <2>1. s \in Reading /\ Displays(s) /\ s.in \in Kinds
      BY <1>6 DEF Formed, Reading
    <2>2. CASE s.in = "copy"
      BY <2>1, <2>2, CopyRead DEF ReadTeX
    <2>3. CASE s.in = "comment"
      BY <1>6, <2>3, CommentRead DEF ReadTeX
    <2>4. CASE s.in = "slash"
      BY <1>6, <2>4, SlashRead DEF ReadTeX
    <2>5. CASE s.in = "before"
      BY <1>6, <2>5, BeforeRead DEF ReadTeX
    <2>6. CASE s.in = "inside"
      BY <1>6, <2>6, InsideRead DEF ReadTeX
    <2>7. CASE s.in = "escape"
      BY <1>6, <2>7, EscapeRead DEF ReadTeX
    <2>8. QED BY <2>1, <2>2, <2>3, <2>4, <2>5, <2>6, <2>7 DEF Kinds
  <1>7. \A p \in 1..(size + 1) : Formed(TeX[p])
    <2> DEFINE S == {p \in Nat : Formed(TeX[p])}
    <2>1. 1 \in S
      BY <1>3, <1>5
    <2>2. ASSUME NEW p \in 1..size, p \in S PROVE p + 1 \in S
      <3>1. Formed(ReadTeX(TeX[p], src[p])) /\ src[p] \in STRING
        BY <1>1, <1>6, <2>2
      <3>2. QED BY <1>1, <1>4, <3>1
    <2> HIDE DEF S
    <2>3. PICK last \in Nat : last = size + 1
      BY <1>1
    <2>4. \A p \in 1..last : p \in S /\ p # last => p + 1 \in S
      BY <1>1, <2>2, <2>3
    <2>5. \A p \in 1..last : p \in S
      BY <2>1, <2>4, Spreads
    <2>6. QED BY <2>3, <2>5 DEF S
  <1>8. \A p \in 1..size : TeX[p].odd \subseteq TeX[p + 1].odd
    <2>1. \A p \in 1..size : p \in 1..(size + 1)
      BY <1>1
    <2>2. QED BY <1>1, <1>4, <1>6, <1>7, <2>1
  <1>9. QED BY <1>1, <1>3, <1>4, <1>7, <1>8

\* TeX stops at nothing but dollars that pair up otherwise, and ends outside of arguments.
Clean == src \in Seq(STRING) /\ Oddities \subseteq Harmless

LEMMA CleanRuns ==
  ASSUME Clean
  PROVE  /\ \A p \in 1..(size + 1) : TeX[p].odd \subseteq Harmless /\ (Oddities = {} => TeX[p].odd = {})
         /\ TeX[size + 1].in \in {"copy", "comment", "slash"}
  <1>1. size \in Nat /\ \A p \in 1..size : TeX[p].odd \subseteq TeX[p + 1].odd
    BY TeXRuns DEF Clean
  <1>2. TeX[size + 1].odd \subseteq Oddities
    BY DEF Oddities
  <1>3. \A p \in 1..(size + 1) : TeX[p].odd \subseteq Oddities
    <2> DEFINE D == {p \in 1..(size + 1) : ~(TeX[p].odd \subseteq Oddities)}
    <2> SUFFICES ASSUME D # {} PROVE FALSE
      OBVIOUS
    <2> DEFINE E == {size + 1 - p : p \in D}
    <2>1. E \in SUBSET Nat /\ E # {}
      BY <1>1
    <2>2. PICK e \in E : \A f \in E : e <= f
      BY <2>1, FirstExists
    <2>3. PICK p \in D : e = size + 1 - p
      BY <2>2
    <2>4. p # size + 1 /\ p \in 1..(size + 1)
      BY <1>2, <2>3
    <2>5. p \in 1..size /\ p + 1 \in 1..(size + 1) /\ ~(e <= size + 1 - (p + 1))
      BY <1>1, <2>3, <2>4
    <2>6. p + 1 \in D
      BY <1>1, <2>3, <2>5
    <2>7. size + 1 - (p + 1) \in E
      BY <2>6
    <2>8. QED BY <2>2, <2>5, <2>7
  <1>4. TeX[size + 1].in \in {"copy", "comment", "slash"}
    <2>1. "unclosed" \notin Oddities
      BY DEF Clean, Harmless
    <2>2. QED BY <2>1 DEF Oddities
  <1>5. QED BY <1>3, <1>4 DEF Clean

LEMMA CopyAt ==
  ASSUME Clean, NEW p \in 1..size, TeX[p].in = "copy"
  PROVE  LET s == TeX[p]
             r == TeX[p + 1]
             t == src[p]
         IN  /\ r.envs = s.envs /\ r.tick = (t = "tick" /\ ~s.tick)
             /\ r.in = IF t = "percent" THEN "comment" ELSE IF t = "backslash" THEN "slash" ELSE "copy"
             /\ Oddities = {} =>
                  IF t = "dollar" THEN (s.mode = "text" /\ r.mode = "open") \/ (s.mode = "inline" /\ r.mode = "text")
                                  ELSE r.mode = IF s.mode = "open" THEN "inline" ELSE s.mode
             /\ Oddities = {} /\ t = "underscore" => s.option # "text"
  <1>1. p \in 1..(size + 1) /\ p + 1 \in 1..(size + 1)
    BY TeXRuns DEF Clean
  <1>2. TeX[p + 1] = InCopy(TeX[p], src[p])
    BY TeXRuns DEF Clean, ReadTeX
  <1>3. TeX[p] \in Reading /\ Displays(TeX[p])
    BY <1>1, TeXRuns DEF Clean, Formed
  <1>4. Oddities = {} => TeX[p + 1].odd = {}
    BY <1>1, CleanRuns
  <1>5. QED BY <1>2, <1>3, <1>4, CopyRead

LEMMA CommentAt ==
  ASSUME Clean, NEW p \in 1..size, TeX[p].in = "comment"
  PROVE  LET r == TeX[p + 1]
         IN  /\ r.envs = TeX[p].envs /\ r.mode = TeX[p].mode /\ ~r.tick
             /\ IF src[p] = "nl" THEN r.in = "copy" ELSE r = TeX[p]
  <1>1. Formed(TeX[p])
    BY TeXRuns DEF Clean
  <1>2. TeX[p + 1] = IF src[p] = "nl" THEN [TeX[p] EXCEPT !.in = "copy"] ELSE TeX[p]
    BY TeXRuns DEF Clean, ReadTeX
  <1>3. QED BY <1>1, <1>2, CommentRead

LEMMA SlashAt ==
  ASSUME Clean, NEW p \in 1..size, TeX[p].in = "slash"
  PROVE  LET r == TeX[p + 1]
             t == src[p]
         IN  /\ r.envs = TeX[p].envs /\ ~r.tick /\ t # "nl"
             /\ IF t \in {"begin", "end", "cite"} THEN r.in = "before" /\ r.command = t ELSE r.in = "copy"
             /\ t \in {"begin", "end", "cite"} => r.option = IF t = "cite" THEN "may" ELSE "none"
             /\ Oddities = {} =>
                  r.mode = CASE t = "lbracket" -> "bracket" [] t = "rbracket" -> "text" [] OTHER -> TeX[p].mode
  <1>1. p \in 1..(size + 1) /\ p + 1 \in 1..(size + 1)
    BY TeXRuns DEF Clean
  <1>2. Formed(TeX[p]) /\ TeX[p + 1] = AfterSlash(TeX[p], src[p])
    BY <1>1, TeXRuns DEF Clean, ReadTeX
  <1>3. TeX[p + 1].odd \subseteq Harmless /\ (Oddities = {} => TeX[p + 1].odd = {})
    BY <1>1, CleanRuns
  <1>4. QED BY <1>2, <1>3, SlashRead

LEMMA BeforeAt ==
  ASSUME Clean, NEW p \in 1..size, TeX[p].in = "before"
  PROVE  LET s == TeX[p]
             r == TeX[p + 1]
             t == src[p]
         IN  /\ SameMode(s, r)
             /\ \/ t = "lbrace" /\ r.in = "inside" /\ r.depth = 1 /\ r.arg = <<>>
                \/ (t = "space" \/ (t = "nl" /\ s.command = "cite")) /\ r.in = "before" /\ r.option = "none"
                \/ t = "lbracket" /\ s.option = "may" /\ r.in = "copy" /\ ~r.tick
  <1>1. p \in 1..(size + 1) /\ p + 1 \in 1..(size + 1)
    BY TeXRuns DEF Clean
  <1>2. Formed(TeX[p]) /\ TeX[p + 1] = BeforeArgument(TeX[p], src[p])
    BY <1>1, TeXRuns DEF Clean, ReadTeX
  <1>3. TeX[p + 1].odd \subseteq Harmless
    BY <1>1, CleanRuns
  <1>4. QED BY <1>2, <1>3, BeforeRead

LEMMA InsideAt ==
  ASSUME Clean, NEW p \in 1..size, TeX[p].in = "inside"
  PROVE  LET s == TeX[p]
             r == TeX[p + 1]
             t == src[p]
         IN  IF t = "rbrace" /\ s.depth = 1
             THEN r.in = "copy" /\ ~r.tick /\ r.mode = s.mode /\ (Oddities = {} => r.envs = Opened(s))
             ELSE /\ t # "percent" /\ r.command = s.command /\ r.mode = s.mode /\ r.envs = s.envs
                  /\ IF s.command = "cite"
                     THEN /\ r.in = IF t = "backslash" THEN "escape" ELSE "inside"
                          /\ r.depth = CASE t = "lbrace" -> s.depth + 1 [] t = "rbrace" -> s.depth - 1 [] OTHER -> s.depth
                     ELSE /\ r.in = "inside"
                          /\ t # "rbrace" =>
                               t \notin {"lbrace", "backslash", "nl"} /\ r.depth = s.depth /\ r.arg = Append(s.arg, t)
  <1>1. p \in 1..(size + 1) /\ p + 1 \in 1..(size + 1)
    BY TeXRuns DEF Clean
  <1>2. Formed(TeX[p]) /\ TeX[p + 1] = InArgument(TeX[p], src[p]) /\ src[p] \in STRING
    BY <1>1, TeXRuns DEF Clean, ReadTeX
  <1>3. TeX[p + 1].odd \subseteq Harmless /\ (Oddities = {} => TeX[p + 1].odd = {})
    BY <1>1, CleanRuns
  <1>4. QED BY <1>2, <1>3, InsideRead, ArgumentEnds

LEMMA EscapeAt ==
  ASSUME Clean, NEW p \in 1..size, TeX[p].in = "escape"
  PROVE  LET s == TeX[p]
             r == TeX[p + 1]
         IN  /\ src[p] \notin {"lbrace", "rbrace", "nl"} /\ r.in = "inside" /\ r.command = s.command
             /\ r.depth = s.depth /\ r.mode = s.mode /\ r.envs = s.envs
  <1>1. p \in 1..(size + 1) /\ p + 1 \in 1..(size + 1)
    BY TeXRuns DEF Clean
  <1>2. Formed(TeX[p]) /\ TeX[p + 1] = InEscape(TeX[p], src[p])
    BY <1>1, TeXRuns DEF Clean, ReadTeX
  <1>3. TeX[p + 1].odd \subseteq Harmless
    BY <1>1, CleanRuns
  <1>4. QED BY <1>2, <1>3, EscapeRead

-----------------------------------------------------------------------------
(* Counting.                                                               *)

Times(c, a, b) == Cardinality({p \in a..b : src[p] = c})

LEMMA TimesAre ==
  ASSUME NEW c, NEW a \in Nat, NEW b \in Int
  PROVE  IsFiniteSet({p \in a..b : src[p] = c}) /\ Times(c, a, b) \in Nat
  <1>1. IsFiniteSet(a..b)
    BY FS_Interval
  <1>2. {p \in a..b : src[p] = c} \subseteq a..b
    OBVIOUS
  <1>3. IsFiniteSet({p \in a..b : src[p] = c})
    BY <1>1, <1>2, FS_Subset
  <1>4. QED BY <1>3, FS_CardinalityType DEF Times

LEMMA TimesAdd ==
  ASSUME NEW c, NEW a \in Nat, NEW b \in Int, NEW d \in Int, a <= b + 1, b <= d
  PROVE  Times(c, a, d) = Times(c, a, b) + Times(c, b + 1, d)
  <1> DEFINE P(x, y) == {p \in x..y : src[p] = c}
  <1>1. P(a, d) = P(a, b) \cup P(b + 1, d) /\ P(a, b) \cap P(b + 1, d) = {}
    OBVIOUS
  <1>2. IsFiniteSet(P(a, b)) /\ IsFiniteSet(P(b + 1, d))
    <2>1. b + 1 \in Nat
      OBVIOUS
    <2>2. QED BY <2>1, TimesAre
  <1>3. Cardinality({}) = 0
    BY FS_EmptySet
  <1>4. Cardinality(P(a, b)) \in Nat /\ Cardinality(P(b + 1, d)) \in Nat
    BY <1>2, FS_CardinalityType
  <1> HIDE DEF P
  <1>5. Cardinality(P(a, d)) = Cardinality(P(a, b)) + Cardinality(P(b + 1, d))
    <2>1. Cardinality(P(a, b) \cup P(b + 1, d)) =
            Cardinality(P(a, b)) + Cardinality(P(b + 1, d)) - Cardinality(P(a, b) \cap P(b + 1, d))
      BY <1>2, FS_Union, Zenon
    <2>2. Cardinality(P(a, b) \cap P(b + 1, d)) = 0 /\ Cardinality(P(a, d)) = Cardinality(P(a, b) \cup P(b + 1, d))
      BY <1>1, <1>3, Zenon
    <2>3. QED BY <1>4, <2>1, <2>2
  <1>6. QED BY <1>5 DEF P, Times

LEMMA TimesNone ==
  ASSUME NEW c, NEW a, NEW b, \A p \in a..b : src[p] # c
  PROVE  Times(c, a, b) = 0
  <1>1. {p \in a..b : src[p] = c} = {}
    OBVIOUS
  <1>2. QED BY <1>1, FS_EmptySet DEF Times

LEMMA TimesOne ==
  ASSUME NEW c, NEW a \in Nat
  PROVE  Times(c, a, a) = IF src[a] = c THEN 1 ELSE 0
  <1>1. CASE src[a] = c
    <2>1. {p \in a..a : src[p] = c} = {a}
      BY <1>1
    <2>2. QED BY <1>1, <2>1, FS_Singleton DEF Times
  <1>2. CASE src[a] # c
    <2>1. \A p \in a..a : src[p] # c
      BY <1>2
    <2>2. QED BY <1>2, <2>1, TimesNone
  <1>3. QED BY <1>1, <1>2

LEMMA TimesNext ==
  ASSUME NEW c, NEW a \in Nat, NEW b \in Int, a <= b + 1
  PROVE  Times(c, a, b + 1) = Times(c, a, b) + (IF src[b + 1] = c THEN 1 ELSE 0)
  <1>1. b + 1 \in Nat /\ b <= b + 1
    OBVIOUS
  <1>2. QED BY <1>1, TimesAdd, TimesOne

LEMMA NewlinesAre ==
  ASSUME NEW a, NEW b
  PROVE  Newlines(a, b) = Times("nl", a, b)
  BY DEF Newlines, Times

-----------------------------------------------------------------------------
(* The jumps. Where the reader is in no copy, nothing is expected.         *)

LEMMA CommentRuns ==
  ASSUME Clean, NEW a \in 1..size, NEW e \in a..(size + 1), TeX[a].in = "comment",
         \A p \in a..(e - 1) : src[p] # "nl"
  PROVE  \A p \in a..e : TeX[p] = TeX[a]
  <1> DEFINE S == {p \in Nat : TeX[p] = TeX[a]}
  <1>1. a \in Nat /\ e \in Int /\ a \in S /\ size \in Nat
    BY TeXRuns DEF Clean
  <1>2. ASSUME NEW p \in a..e, p \in S, p # e PROVE p + 1 \in S
    <2>1. p \in 1..size /\ TeX[p].in = "comment" /\ src[p] # "nl"
      BY <1>1, <1>2
    <2>2. TeX[p + 1] = TeX[p]
      BY <2>1, CommentAt
    <2>3. QED BY <1>1, <1>2, <2>2
  <1> HIDE DEF S
  <1>3. \A p \in a..e : p \in S
    BY <1>1, <1>2, Spreads
  <1>4. QED BY <1>3 DEF S

\* After a control word comes its argument, after blanks, where no optional one does.
LEMMA BlanksRun ==
  ASSUME Clean, NEW a \in 1..(size + 1), TeX[a].in = "before",
         TeX[a].option = "may" => ~(a <= size /\ src[a] = "lbracket")
  PROVE  \E b \in a..size : /\ src[b] = "lbrace" /\ \A p \in a..b : TeX[p].in = "before" /\ SameMode(TeX[a], TeX[p])
                            /\ \A p \in a..(b - 1) : src[p] = "space" \/ (src[p] = "nl" /\ TeX[a].command = "cite")
  <1> DEFINE S == {p \in Nat : TeX[p].in = "before" /\ SameMode(TeX[a], TeX[p]) /\ (p # a => TeX[p].option = "none")}
             D == {p \in a..size : src[p] = "lbrace"}
             b == IF D = {} THEN size + 1 ELSE Min(D)
  <1>1. a \in Nat /\ a \in S /\ size \in Nat
    BY TeXRuns DEF Clean, SameMode
  <1>2. b \in a..(size + 1) /\ (D # {} => b \in D) /\ \A p \in a..(b - 1) : p \notin D
    <2>1. CASE D = {}
      BY <1>1, <2>1
    <2>2. CASE D # {}
      <3>1. D \in SUBSET Nat
        BY <1>1
      <3>2. Min(D) \in D /\ \A p \in D : Min(D) <= p
        BY <2>2, <3>1, MinIsFirst
      <3>3. QED BY <1>1, <2>2, <3>2
    <2>3. QED BY <2>1, <2>2
  <1> HIDE DEF b
  <1>3. ASSUME NEW p \in a..(b - 1), p \in S
        PROVE  p + 1 \in S /\ (src[p] = "space" \/ (src[p] = "nl" /\ TeX[a].command = "cite"))
    <2>1. p \in 1..size /\ TeX[p].in = "before" /\ SameMode(TeX[a], TeX[p]) /\ src[p] # "lbrace"
      BY <1>1, <1>2, <1>3
    <2>2. ~(src[p] = "lbracket" /\ TeX[p].option = "may")
      <3>1. CASE p = a
        BY <2>1, <3>1
      <3>2. CASE p # a
        BY <1>3, <3>2
      <3>3. QED BY <3>1, <3>2
    <2>3. /\ TeX[p + 1].in = "before" /\ TeX[p + 1].option = "none" /\ SameMode(TeX[p], TeX[p + 1])
          /\ src[p] = "space" \/ (src[p] = "nl" /\ TeX[p].command = "cite")
      BY <2>1, <2>2, BeforeAt
    <2>4. SameMode(TeX[a], TeX[p + 1]) /\ TeX[p].command = TeX[a].command
      BY <2>1, <2>3 DEF SameMode
    <2>5. p + 1 \in Nat
      BY <2>1
    <2>6. QED BY <2>3, <2>4, <2>5
  <1>4. \A p \in a..b : p \in S
    <2>1. b \in Int /\ \A p \in a..b : p \in S /\ p # b => p + 1 \in S
      <3>1. \A p \in a..b : p # b => p \in a..(b - 1)
        BY <1>1, <1>2
      <3> HIDE DEF S
      <3>2. QED BY <1>1, <1>2, <1>3, <3>1
    <2> HIDE DEF S
    <2>2. QED BY <1>1, <2>1, Spreads
  <1>5. D # {}
    <2> SUFFICES ASSUME D = {} PROVE FALSE
      OBVIOUS
    <2>1. b = size + 1 /\ b \in a..b
      BY <1>1, <1>2 DEF b
    <2>2. TeX[size + 1].in = "before"
      BY <1>4, <2>1
    <2>3. QED BY <2>2, CleanRuns
  <1>6. b \in a..size /\ src[b] = "lbrace"
    BY <1>2, <1>5
  <1>7. \A p \in a..(b - 1) : p \in a..b
    BY <1>1, <1>6
  <1>8. QED BY <1>3, <1>4, <1>6, <1>7

LEMMA NameOfEnvironment ==
  ASSUME Clean, NEW k \in Nat, k + 1 \in 1..(size + 1), TeX[k + 1].in = "inside", TeX[k + 1].depth = 1,
         TeX[k + 1].arg = <<>>, TeX[k + 1].command # "cite"
  PROVE  \E e \in (k + 1)..size :
           /\ src[e] = "rbrace" /\ \A p \in (k + 1)..(e - 1) : src[p] \notin {"rbrace", "nl"}
           /\ \A p \in (k + 1)..e : TeX[p].in = "inside" /\ TeX[p].depth = 1
           /\ TeX[e].arg = SubSeq(src, k + 1, e - 1) /\ SameMode(TeX[k + 1], TeX[e])
  <1> DEFINE a == k + 1
             In(p) == /\ TeX[p].in = "inside" /\ TeX[p].depth = 1 /\ SameMode(TeX[a], TeX[p])
                      /\ TeX[p].arg = SubSeq(src, a, p - 1)
             S == {p \in Nat : In(p)}
             D == {p \in a..size : src[p] = "rbrace"}
             e == IF D = {} THEN size + 1 ELSE Min(D)
  <1>1. a \in Nat /\ a \in 1..(size + 1) /\ size \in Nat /\ src \in Seq(STRING)
    BY TeXRuns DEF Clean
  <1>2. a \in S
    <2>1. SubSeq(src, a, a - 1) = <<>>
      BY <1>1
    <2>2. QED BY <1>1, <2>1 DEF SameMode
  <1>3. e \in a..(size + 1) /\ (D # {} => e \in D) /\ \A p \in a..(e - 1) : p \notin D
    <2> HIDE DEF a
    <2>1. CASE D = {}
      BY <1>1, <2>1
    <2>2. CASE D # {}
      <3>1. D \in SUBSET Nat
        BY <1>1
      <3>2. Min(D) \in D /\ \A p \in D : Min(D) <= p
        BY <2>2, <3>1, MinIsFirst
      <3>3. e \in D /\ \A p \in D : e <= p
        BY <2>2, <3>2
      <3> HIDE DEF e
      <3>4. QED BY <1>1, <3>3
    <2>3. QED BY <2>1, <2>2
  <1> HIDE DEF e
  <1>4. ASSUME NEW p \in a..(e - 1), p \in S PROVE p + 1 \in S /\ src[p] \notin {"rbrace", "nl"}
    <2>1. p \in 1..size /\ src[p] # "rbrace" /\ In(p)
      BY <1>1, <1>3, <1>4
    <2>2. /\ TeX[p + 1].in = "inside" /\ src[p] # "nl" /\ TeX[p + 1].depth = 1
          /\ TeX[p + 1].arg = Append(TeX[p].arg, src[p]) /\ SameMode(TeX[p], TeX[p + 1])
      BY <2>1, InsideAt DEF SameMode
    <2>3. Append(SubSeq(src, a, p - 1), src[p]) = SubSeq(src, a, p + 1 - 1)
      BY <1>1, <2>1 DEF size
    <2>4. In(p + 1)
      <3>1. SameMode(TeX[a], TeX[p + 1])
        BY <2>1, <2>2 DEF SameMode
      <3>2. TeX[p + 1].arg = SubSeq(src, a, p + 1 - 1)
        <4>1. TeX[p].arg = SubSeq(src, a, p - 1)
          BY <2>1, Zenon
        <4>2. TeX[p + 1].arg = Append(TeX[p].arg, src[p])
          BY <2>2, Zenon
        <4>3. QED BY <2>3, <4>1, <4>2, Zenon
      <3>3. TeX[p + 1].in = "inside" /\ TeX[p + 1].depth = 1
        BY <2>2
      <3>4. QED BY <3>1, <3>2, <3>3
    <2>5. QED BY <1>1, <2>1, <2>2, <2>4
  <1>5. \A p \in a..e : p \in S
    <2>1. e \in Int /\ a \in Int
      BY <1>1, <1>3
    <2>2. ASSUME NEW p \in a..e, p \in S, p # e PROVE p + 1 \in S
      <3>1. p \in a..(e - 1)
        BY <2>1, <2>2
      <3>2. QED BY <1>4, <2>2, <3>1
    <2> HIDE DEF S, a
    <2>3. QED BY <1>1, <1>2, <2>1, <2>2, Spreads
  <1>6. D # {}
    <2> SUFFICES ASSUME D = {} PROVE FALSE
      OBVIOUS
    <2>1. e = size + 1 /\ e \in a..e
      BY <1>1, <1>3 DEF e
    <2>2. TeX[size + 1].in = "inside"
      BY <1>5, <2>1
    <2>3. QED BY <2>2, CleanRuns
  <1>7. e \in a..size /\ src[e] = "rbrace" /\ e \in a..e
    BY <1>1, <1>3, <1>6
  <1>8. \A p \in a..(e - 1) : p \in a..e
    BY <1>1, <1>7
  <1>9. \A p \in a..(e - 1) : src[p] \notin {"rbrace", "nl"}
    BY <1>4, <1>5, <1>8
  <1>10. \A p \in a..e : In(p)
    BY <1>5
  <1> HIDE DEF D, S
  <1>11. QED BY <1>7, <1>9, <1>10

\* The braces that are open from b to q.
Net(b, q) == Times("lbrace", b, q) - Times("rbrace", b, q)

LEMMA Keys ==
  ASSUME Clean, NEW b \in 1..size, src[b] = "lbrace", TeX[b + 1].in = "inside", TeX[b + 1].depth = 1,
         TeX[b + 1].command = "cite"
  PROVE  \E e \in (b + 1)..size :
           /\ Net(b, e) = 0 /\ \A q \in b..(e - 1) : Net(b, q) # 0
           /\ \A p \in (b + 1)..e : TeX[p].in \in {"inside", "escape"}
           /\ TeX[e].in = "inside" /\ src[e] = "rbrace" /\ TeX[e].depth = 1 /\ SameMode(TeX[b + 1], TeX[e])
  <1> DEFINE a == b + 1
             In(p) == /\ TeX[p].in \in {"inside", "escape"} /\ SameMode(TeX[a], TeX[p])
                      /\ TeX[p].depth = Net(b, p - 1) /\ TeX[p].depth > 0
             S == {p \in Nat : In(p)}
             D == {p \in a..size : TeX[p].in = "inside" /\ src[p] = "rbrace" /\ TeX[p].depth = 1}
             e == IF D = {} THEN size + 1 ELSE Min(D)
  <1>1. a \in Nat /\ a \in 1..(size + 1) /\ size \in Nat /\ b \in Nat
    BY TeXRuns DEF Clean
  <1>2. ASSUME NEW q \in Nat, b <= q
        PROVE  /\ Net(b, q) \in Int
               /\ Net(b, q + 1) = CASE src[q + 1] = "lbrace" -> Net(b, q) + 1
                                    [] src[q + 1] = "rbrace" -> Net(b, q) - 1
                                    [] OTHER -> Net(b, q)
    <2>1. Times("lbrace", b, q) \in Nat /\ Times("rbrace", b, q) \in Nat
      <3>1. b \in Nat /\ q \in Int
        BY <1>1, <1>2
      <3>2. QED BY <3>1, TimesAre, Zenon
    <2>2. /\ Times("lbrace", b, q + 1) = Times("lbrace", b, q) + (IF src[q + 1] = "lbrace" THEN 1 ELSE 0)
          /\ Times("rbrace", b, q + 1) = Times("rbrace", b, q) + (IF src[q + 1] = "rbrace" THEN 1 ELSE 0)
      BY <1>1, <1>2, TimesNext
    <2>3. QED BY <2>1, <2>2 DEF Net
  <1>3. Net(b, b) = 1
    BY <1>1, TimesOne DEF Net
  <1>4. a \in S
    <2>1. a - 1 = b
      BY <1>1
    <2>2. QED BY <1>1, <1>3, <2>1 DEF SameMode
  <1>5. e \in a..(size + 1) /\ (D # {} => e \in D) /\ \A p \in a..(e - 1) : p \notin D
    <2> HIDE DEF a
    <2>1. CASE D = {}
      BY <1>1, <2>1
    <2>2. CASE D # {}
      <3>1. D \in SUBSET Nat
        BY <1>1
      <3>2. Min(D) \in D /\ \A p \in D : Min(D) <= p
        BY <2>2, <3>1, MinIsFirst
      <3>3. e \in D /\ \A p \in D : e <= p
        BY <2>2, <3>2
      <3> HIDE DEF e
      <3>4. QED BY <1>1, <3>3
    <2>3. QED BY <2>1, <2>2
  <1> HIDE DEF e
  <1>6. ASSUME NEW p \in a..(e - 1), p \in S PROVE p + 1 \in S
    <2>1. p \in 1..size /\ In(p) /\ p \notin D /\ p \in Nat /\ p - 1 \in Nat /\ b <= p - 1
      BY <1>1, <1>5, <1>6
    <2>2. Net(b, p) = CASE src[p] = "lbrace" -> Net(b, p - 1) + 1
                        [] src[p] = "rbrace" -> Net(b, p - 1) - 1
                        [] OTHER -> Net(b, p - 1)
      <3>1. p - 1 + 1 = p
        BY <2>1
      <3>2. QED BY <1>2, <2>1, <3>1
    <2>3. TeX[p].depth \in Nat /\ Formed(TeX[p]) /\ Formed(TeX[p + 1]) /\ p + 1 \in 1..(size + 1)
      <3>1. p \in 1..(size + 1) /\ p + 1 \in 1..(size + 1)
        BY <1>1, <2>1
      <3>2. Formed(TeX[p]) /\ Formed(TeX[p + 1])
        BY <3>1, TeXRuns DEF Clean
      <3>3. QED BY <3>1, <3>2 DEF Formed, Reading
    <2>4. CASE TeX[p].in = "inside"
      <3>1. ~(src[p] = "rbrace" /\ TeX[p].depth = 1)
        BY <1>1, <1>6, <2>1, <2>4
      <3>2. /\ TeX[p + 1].command = TeX[p].command /\ TeX[p + 1].mode = TeX[p].mode /\ TeX[p + 1].envs = TeX[p].envs
            /\ TeX[p].command = "cite" =>
                 /\ TeX[p + 1].in \in {"inside", "escape"}
                 /\ TeX[p + 1].depth = CASE src[p] = "lbrace" -> TeX[p].depth + 1
                                        [] src[p] = "rbrace" -> TeX[p].depth - 1
                                        [] OTHER -> TeX[p].depth
        BY <2>1, <2>4, <3>1, InsideAt
      <3>3. TeX[p].command = "cite" /\ SameMode(TeX[a], TeX[p])
        BY <2>1 DEF SameMode
      <3>4. TeX[p + 1].depth = Net(b, p)
        BY <2>1, <2>2, <3>2, <3>3
      <3>5. TeX[p + 1].depth > 0
        BY <2>3, <3>2, <3>3 DEF Formed
      <3>6. In(p + 1)
        <4>1. p + 1 - 1 = p
          BY <2>1
        <4>2. QED BY <3>2, <3>3, <3>4, <3>5, <4>1 DEF SameMode
      <3>7. QED BY <2>1, <3>6
    <2>5. CASE TeX[p].in = "escape"
      <3>1. /\ src[p] \notin {"lbrace", "rbrace", "nl"} /\ TeX[p + 1].in = "inside" /\ TeX[p + 1].command = TeX[p].command
            /\ TeX[p + 1].depth = TeX[p].depth /\ TeX[p + 1].mode = TeX[p].mode /\ TeX[p + 1].envs = TeX[p].envs
        BY <2>1, <2>5, EscapeAt
      <3>2. SameMode(TeX[a], TeX[p + 1])
        BY <2>1, <3>1 DEF SameMode
      <3>3. TeX[p + 1].depth = Net(b, p) /\ TeX[p + 1].depth > 0
        BY <2>1, <2>2, <3>1
      <3>4. In(p + 1)
        <4>1. p + 1 - 1 = p
          BY <2>1
        <4>2. QED BY <3>1, <3>2, <3>3, <4>1
      <3>5. QED BY <2>1, <3>4
    <2>6. QED BY <2>1, <2>4, <2>5
  <1>7. \A p \in a..e : p \in S
    <2>1. e \in Int /\ a \in Int
      BY <1>1, <1>5
    <2>2. ASSUME NEW p \in a..e, p \in S, p # e PROVE p + 1 \in S
      <3>1. p \in a..(e - 1)
        BY <2>1, <2>2
      <3>2. QED BY <1>6, <2>2, <3>1
    <2> HIDE DEF S, a
    <2>3. QED BY <1>1, <1>4, <2>1, <2>2, Spreads
  <1>8. D # {}
    <2> SUFFICES ASSUME D = {} PROVE FALSE
      OBVIOUS
    <2>1. e = size + 1 /\ e \in a..e
      BY <1>1, <1>5 DEF e
    <2>2. TeX[size + 1].in \in {"inside", "escape"}
      BY <1>7, <2>1
    <2>3. QED BY <2>2, CleanRuns
  <1>9. e \in a..size /\ src[e] = "rbrace" /\ TeX[e].in = "inside" /\ TeX[e].depth = 1 /\ e \in a..e
    BY <1>1, <1>5, <1>8
  <1>10. \A p \in a..e : In(p)
    BY <1>7
  <1>11. Net(b, e) = 0
    <2>1. Net(b, e - 1) = 1 /\ e - 1 \in Nat /\ b <= e - 1 /\ e - 1 + 1 = e
      BY <1>1, <1>9, <1>10
    <2>2. Net(b, e - 1 + 1) = Net(b, e - 1) - 1
      BY <1>2, <1>9, <2>1
    <2>3. QED BY <2>1, <2>2
  <1>12. ASSUME NEW q \in b..(e - 1) PROVE Net(b, q) # 0
    <2>1. q + 1 \in a..e /\ q + 1 - 1 = q
      BY <1>1, <1>9
    <2>2. TeX[q + 1].depth = Net(b, q) /\ TeX[q + 1].depth > 0
      BY <1>10, <2>1
    <2>3. QED BY <2>2
  <1> HIDE DEF D, S
  <1>13. QED BY <1>9, <1>10, <1>11, <1>12

-----------------------------------------------------------------------------
(* Where the scanner stands, TeX is in copy, at the end of a comment, or   *)
(* before an optional argument; it has counted the lines so far, and without oddities it knows the mode *)
(* and has reported what is wrong so far.                                  *)

SpecialAt(p) ==
  /\ p \in 1..size /\ src[p] = "underscore" /\ TeX[p].in = "copy"
  /\ InTextMode(TeX[p]) \/ TeX[p].option = "text"
BacktickAt(p) ==
  p \in 1..(size - 1) /\ src[p] = "tick" /\ src[p + 1] \in Words /\ TeX[p].in = "copy" /\ ~TeX[p].tick

Wrong(j) == {[at |-> p, what |-> "special"] : p \in {q \in 1..(j - 1) : SpecialAt(q)}}
            \cup {[at |-> p, what |-> "backtick"] : p \in {q \in 1..(j - 1) : BacktickAt(q)}}

Silent(a, b) == \A p \in a..b : ~SpecialAt(p) /\ ~BacktickAt(p)

\* A scan that ends in an escape stands behind the end.
Place(j) == IF j <= size + 1 THEN j ELSE size + 1

Stands(j, l) ==
  /\ j \in 1..(size + 2)
  /\ j <= size => /\ \/ TeX[j].in = "copy"
                     \/ TeX[j].in = "comment" /\ src[j] = "nl"
                     \/ TeX[j].in = "before" /\ TeX[j].option = "may" /\ src[j] = "lbracket"
                  /\ TeX[j].tick => src[j] # "tick"
  /\ l = 1 + Times("nl", 1, Place(j) - 1)

Knows(j, m, e) == m = (IF TeX[Place(j)].mode = "text" THEN 0 ELSE 1) /\ e = TeX[Place(j)].envs

LEMMA WrongAdds ==
  ASSUME NEW j \in Nat, j >= 1, NEW k \in Nat, j < k, Silent(j + 1, k - 1)
  PROVE  Wrong(k) = Wrong(j) \cup (IF SpecialAt(j) THEN {[at |-> j, what |-> "special"]} ELSE {})
                             \cup (IF BacktickAt(j) THEN {[at |-> j, what |-> "backtick"]} ELSE {})
  <1> DEFINE S(m) == {q \in 1..(m - 1) : SpecialAt(q)}
             B(m) == {q \in 1..(m - 1) : BacktickAt(q)}
  <1>1. \A q \in 1..(k - 1) : q \in 1..(j - 1) \/ q = j \/ q \in (j + 1)..(k - 1)
    OBVIOUS
  <1>2. \A q \in 1..(j - 1) : q \in 1..(k - 1)
    OBVIOUS
  <1>3. j \in 1..(k - 1)
    OBVIOUS
  <1>4. S(k) = S(j) \cup (IF SpecialAt(j) THEN {j} ELSE {})
    BY <1>1, <1>2, <1>3 DEF Silent
  <1>5. B(k) = B(j) \cup (IF BacktickAt(j) THEN {j} ELSE {})
    BY <1>1, <1>2, <1>3 DEF Silent
  <1>6. Wrong(k) = {[at |-> p, what |-> "special"] : p \in S(k)} \cup {[at |-> p, what |-> "backtick"] : p \in B(k)}
    BY DEF Wrong
  <1>7. Wrong(j) = {[at |-> p, what |-> "special"] : p \in S(j)} \cup {[at |-> p, what |-> "backtick"] : p \in B(j)}
    BY DEF Wrong
  <1> HIDE DEF S, B
  <1>8. {[at |-> p, what |-> "special"] : p \in S(k)} =
          {[at |-> p, what |-> "special"] : p \in S(j)} \cup (IF SpecialAt(j) THEN {[at |-> j, what |-> "special"]} ELSE {})
    BY <1>4
  <1>9. {[at |-> p, what |-> "backtick"] : p \in B(k)} =
          {[at |-> p, what |-> "backtick"] : p \in B(j)} \cup (IF BacktickAt(j) THEN {[at |-> j, what |-> "backtick"]} ELSE {})
    BY <1>5
  <1>10. QED BY <1>6, <1>7, <1>8, <1>9

LEMMA StandsIn ==
  ASSUME Clean, Stands(i, line), i <= size
  PROVE  i \in 1..size /\ i \in Nat /\ size \in Nat /\ line \in Nat /\ Place(i) = i
  <1>1. i \in 1..size /\ i \in Nat /\ size \in Nat /\ Place(i) = i
    BY TeXRuns DEF Clean, Stands, Place
  <1>2. Times("nl", 1, i - 1) \in Nat
    <2>1. 1 \in Nat /\ i - 1 \in Int
      BY <1>1
    <2>2. QED BY <2>1, TimesAre, Zenon
  <1>3. QED BY <1>1, <1>2 DEF Stands

LEMMA LinesAdd ==
  ASSUME Clean, Stands(i, line), i <= size, NEW k \in i..(size + 2)
  PROVE  1 + Times("nl", 1, Place(k) - 1) = line + Times("nl", i, Place(k) - 1)
  <1>1. i \in Nat /\ i >= 1 /\ size \in Nat /\ Place(i) = i
    BY StandsIn
  <1>2. PICK a, b \in Int : a = i - 1 /\ b = Place(k) - 1 /\ a + 1 = i /\ a <= b
    BY <1>1 DEF Place
  <1>3. Times("nl", 1, b) = Times("nl", 1, a) + Times("nl", a + 1, b)
    <2>1. 1 \in Nat /\ 1 <= a + 1
      BY <1>1, <1>2
    <2>2. QED BY <1>2, <2>1, TimesAdd, Zenon
  <1>4. Times("nl", 1, a) \in Nat /\ Times("nl", i, b) \in Nat
    BY <1>1, <1>2, TimesAre
  <1>5. line = 1 + Times("nl", 1, a)
    BY <1>1, <1>2 DEF Stands
  <1>6. QED BY <1>2, <1>3, <1>4, <1>5

\* No line break up to k.
LEMMA SameLine ==
  ASSUME Clean, Stands(i, line), i <= size, NEW k \in i..(size + 2), \A p \in i..(Place(k) - 1) : src[p] # "nl"
  PROVE  line = 1 + Times("nl", 1, Place(k) - 1)
  <1>1. Times("nl", i, Place(k) - 1) = 0
    BY TimesNone
  <1>2. line \in Nat
    BY StandsIn
  <1>3. QED BY <1>1, <1>2, LinesAdd

LEMMA NewlineMoves ==
  ASSUME Clean, Stands(i, line), Facing("nl")
  PROVE  /\ Stands(i + 1, line + 1) /\ ~SpecialAt(i) /\ ~BacktickAt(i)
         /\ Oddities = {} /\ Knows(i, math, envs) => Knows(i + 1, math, envs)
  <1>1. i \in 1..size /\ i \in Nat /\ size \in Nat /\ line \in Nat /\ Place(i) = i /\ src[i] = "nl"
    BY StandsIn DEF Facing
  <1>2. Place(i + 1) = i + 1 /\ i + 1 - 1 = i /\ i + 1 \in i..(size + 2)
    BY <1>1 DEF Place
  <1>3. TeX[i].in = "copy" \/ TeX[i].in = "comment"
    BY <1>1 DEF Stands
  <1>4. /\ TeX[i + 1].in = "copy" /\ ~TeX[i + 1].tick /\ TeX[i + 1].envs = TeX[i].envs
        /\ Oddities = {} => (TeX[i + 1].mode = "text" <=> TeX[i].mode = "text")
    <2>1. CASE TeX[i].in = "copy"
      BY <1>1, <2>1, CopyAt
    <2>2. CASE TeX[i].in = "comment"
      BY <1>1, <2>2, CommentAt
    <2>3. QED BY <1>3, <2>1, <2>2
  <1>5. line + 1 = 1 + Times("nl", 1, Place(i + 1) - 1)
    BY <1>1, <1>2, LinesAdd, TimesOne
  <1>6. Stands(i + 1, line + 1)
    BY <1>1, <1>2, <1>4, <1>5 DEF Stands
  <1>7. QED BY <1>1, <1>2, <1>4, <1>6 DEF Knows, SpecialAt, BacktickAt

LEMMA PlainMoves ==
  ASSUME Clean, Stands(i, line), i <= size, src[i] \notin {"nl", "percent", "backslash", "dollar", "tick"}
  PROVE  /\ Stands(i + 1, line) /\ ~BacktickAt(i)
         /\ Oddities = {} /\ Knows(i, math, envs) => Knows(i + 1, math, envs)
  <1>1. i \in 1..size /\ i \in Nat /\ size \in Nat /\ line \in Nat /\ Place(i) = i
        /\ (TeX[i].in = "copy" \/ (TeX[i].in = "before" /\ src[i] = "lbracket"))
    BY StandsIn DEF Stands
  <1>2. Place(i + 1) = i + 1 /\ i + 1 - 1 = i /\ i + 1 \in i..(size + 2)
    BY <1>1 DEF Place
  <1>3. /\ TeX[i + 1].in = "copy" /\ ~TeX[i + 1].tick /\ TeX[i + 1].envs = TeX[i].envs
        /\ Oddities = {} => (TeX[i + 1].mode = "text" <=> TeX[i].mode = "text")
    <2>1. CASE TeX[i].in = "copy"
      BY <1>1, <2>1, CopyAt
    <2>2. CASE TeX[i].in = "before" /\ src[i] = "lbracket"
      BY <1>1, <2>2, BeforeAt DEF SameMode
    <2>3. QED BY <1>1, <2>1, <2>2
  <1>4. \A p \in i..(Place(i + 1) - 1) : src[p] # "nl"
    BY <1>1, <1>2
  <1>5. Stands(i + 1, line)
    BY <1>1, <1>2, <1>3, <1>4, SameLine DEF Stands
  <1>6. QED BY <1>1, <1>2, <1>3, <1>5 DEF Knows, BacktickAt

LEMMA DollarMoves ==
  ASSUME Clean, Stands(i, line), Facing("dollar")
  PROVE  /\ Stands(i + 1, line) /\ ~SpecialAt(i) /\ ~BacktickAt(i)
         /\ Oddities = {} /\ Knows(i, math, envs) => Knows(i + 1, 1 - math, envs)
  <1>1. i \in 1..size /\ i \in Nat /\ size \in Nat /\ line \in Nat /\ Place(i) = i /\ TeX[i].in = "copy" /\ src[i] = "dollar"
    BY StandsIn DEF Stands, Facing
  <1>2. Place(i + 1) = i + 1 /\ i + 1 - 1 = i /\ i + 1 \in i..(size + 2)
    BY <1>1 DEF Place
  <1>3. /\ TeX[i + 1].in = "copy" /\ ~TeX[i + 1].tick /\ TeX[i + 1].envs = TeX[i].envs
        /\ Oddities = {} => (TeX[i + 1].mode = "text" <=> TeX[i].mode # "text")
    BY <1>1, CopyAt
  <1>4. \A p \in i..(Place(i + 1) - 1) : src[p] # "nl"
    BY <1>1, <1>2
  <1>5. Stands(i + 1, line)
    BY <1>1, <1>2, <1>3, <1>4, SameLine DEF Stands
  <1>6. QED BY <1>1, <1>2, <1>3, <1>5 DEF Knows, SpecialAt, BacktickAt

LEMMA BacktickMoves ==
  ASSUME Clean, Stands(i, line), Facing("tick"),
         NEW k, k = IF i < size /\ src[i + 1] = "tick" THEN i + 2 ELSE i + 1
  PROVE  /\ Stands(k, line) /\ ~SpecialAt(i) /\ (BacktickAt(i) <=> i < size /\ src[i + 1] \in Words)
         /\ Silent(i + 1, k - 1)
         /\ Oddities = {} /\ Knows(i, math, envs) => Knows(k, math, envs)
  <1>1. /\ i \in 1..size /\ i \in Nat /\ size \in Nat /\ line \in Nat /\ Place(i) = i /\ TeX[i].in = "copy" /\ src[i] = "tick"
        /\ ~TeX[i].tick
    BY StandsIn DEF Stands, Facing
  <1>2. /\ TeX[i + 1].in = "copy" /\ TeX[i + 1].tick /\ TeX[i + 1].envs = TeX[i].envs
        /\ Oddities = {} => (TeX[i + 1].mode = "text" <=> TeX[i].mode = "text")
    <2>1. Formed(TeX[i + 1])
      BY <1>1, TeXRuns DEF Clean
    <2>2. QED BY <1>1, <2>1, CopyAt DEF Formed, Reading
  <1>3. CASE i < size /\ src[i + 1] = "tick"
    <2>1. k = i + 2 /\ i + 1 \in 1..size /\ i + 1 + 1 = k /\ Place(k) = k /\ k \in i..(size + 2) /\ k \in 1..(size + 1)
      BY <1>1, <1>3 DEF Place
    <2>2. /\ TeX[k].in = "copy" /\ ~TeX[k].tick /\ TeX[k].envs = TeX[i + 1].envs
          /\ Oddities = {} => (TeX[k].mode = "text" <=> TeX[i + 1].mode = "text")
      <3>1. PICK q \in 1..size : q = i + 1 /\ q + 1 = k
        BY <2>1
      <3>2. TeX[q].in = "copy" /\ TeX[q].tick /\ src[q] = "tick"
        BY <1>2, <1>3, <3>1
      <3>3. /\ TeX[q + 1].in = "copy" /\ ~TeX[q + 1].tick /\ TeX[q + 1].envs = TeX[q].envs
            /\ Oddities = {} => (TeX[q + 1].mode = "text" <=> TeX[q].mode = "text")
        BY <3>2, CopyAt
      <3>4. QED BY <3>1, <3>3
    <2>3. \A p \in i..(Place(k) - 1) : p = i \/ p = i + 1
      BY <1>1, <2>1
    <2>4. line = 1 + Times("nl", 1, Place(k) - 1)
      BY <1>1, <1>3, <2>1, <2>3, SameLine
    <2>5. Stands(k, line)
      BY <1>1, <2>1, <2>2, <2>4 DEF Stands
    <2>6. \A p \in (i + 1)..(k - 1) : p = i + 1
      BY <1>1, <2>1
    <2>7. Silent(i + 1, k - 1)
      BY <1>2, <1>3, <2>6 DEF Silent, SpecialAt, BacktickAt
    <2>8. QED BY <1>1, <1>2, <1>3, <2>1, <2>2, <2>5, <2>7 DEF Knows, SpecialAt, BacktickAt
  <1>4. CASE ~(i < size /\ src[i + 1] = "tick")
    <2>1. k = i + 1 /\ Place(k) = k /\ k \in i..(size + 2) /\ k \in 1..(size + 1)
      BY <1>1, <1>4 DEF Place
    <2>2. \A p \in i..(Place(k) - 1) : src[p] # "nl"
      BY <1>1, <2>1
    <2>3. line = 1 + Times("nl", 1, Place(k) - 1)
      BY <1>1, <2>1, <2>2, SameLine
    <2>4. Stands(k, line)
      BY <1>1, <1>2, <1>4, <2>1, <2>3 DEF Stands
    <2>5. Silent(i + 1, k - 1)
      BY <1>1, <2>1 DEF Silent
    <2>6. QED BY <1>1, <1>2, <1>4, <2>1, <2>4, <2>5 DEF Knows, SpecialAt, BacktickAt
  <1>5. QED BY <1>3, <1>4

LEMMA PercentMoves ==
  ASSUME Clean, Stands(i, line), Facing("percent"),
         NEW k, k = IF FirstOf("nl", i) = 0 THEN size + 1 ELSE FirstOf("nl", i)
  PROVE  /\ k \in Nat /\ i < k /\ Stands(k, line) /\ Silent(i, k - 1)
         /\ Oddities = {} /\ Knows(i, math, envs) => Knows(k, math, envs)
  <1>1. i \in 1..size /\ i \in Nat /\ size \in Nat /\ Place(i) = i /\ TeX[i].in = "copy" /\ src[i] = "percent"
    BY StandsIn DEF Stands, Facing
  <1>2. /\ k \in (i + 1)..(size + 1) /\ (k <= size => src[k] = "nl") /\ \A p \in i..(k - 1) : src[p] # "nl"
    <2> DEFINE D == {p \in i..size : src[p] = "nl"}
    <2>1. FirstOf("nl", i) = IF D = {} THEN 0 ELSE Min(D)
      BY DEF FirstOf
    <2>2. CASE D = {}
      <3>1. k = size + 1
        BY <2>1, <2>2
      <3>2. \A p \in i..(k - 1) : p \in i..size
        BY <1>1, <3>1
      <3>3. QED BY <1>1, <2>2, <3>1, <3>2
    <2>3. CASE D # {}
      <3>1. D \in SUBSET Nat
        BY <1>1
      <3>2. Min(D) \in D /\ \A p \in D : Min(D) <= p
        BY <2>3, <3>1, MinIsFirst
      <3>3. k = Min(D)
        BY <1>1, <2>1, <2>3, <3>2
      <3>4. k \in D /\ \A p \in D : k <= p
        BY <3>2, <3>3
      <3>5. k # i
        BY <1>1, <3>4
      <3>6. QED BY <1>1, <3>4, <3>5
    <2>4. QED BY <2>2, <2>3
  <1>3. k \in Nat /\ i < k /\ Place(k) = k /\ k \in i..(size + 2)
    BY <1>1, <1>2 DEF Place
  <1>4. /\ TeX[i + 1].in = "comment" /\ ~TeX[i + 1].tick /\ TeX[i + 1].envs = TeX[i].envs
        /\ Oddities = {} => (TeX[i + 1].mode = "text" <=> TeX[i].mode = "text")
    BY <1>1, CopyAt
  <1>5. \A p \in (i + 1)..k : TeX[p] = TeX[i + 1]
    <2>1. CASE i + 1 \in 1..size
      <3>1. PICK a \in 1..size : a = i + 1
        BY <2>1
      <3>2. k \in a..(size + 1) /\ \A p \in a..(k - 1) : src[p] # "nl"
        BY <1>1, <1>2, <3>1
      <3>3. TeX[a].in = "comment"
        BY <1>4, <3>1
      <3>4. QED BY <3>1, <3>2, <3>3, CommentRuns
    <2>2. CASE i + 1 \notin 1..size
      <3>1. \A p \in (i + 1)..k : p = i + 1
        BY <1>1, <1>2, <2>2
      <3>2. QED BY <3>1
    <2>3. QED BY <2>1, <2>2
  <1>6. TeX[k] = TeX[i + 1]
    BY <1>2, <1>3, <1>5
  <1>7. line = 1 + Times("nl", 1, Place(k) - 1)
    BY <1>1, <1>2, <1>3, SameLine
  <1>8. Stands(k, line)
    BY <1>2, <1>3, <1>4, <1>6, <1>7 DEF Stands
  <1>9. Silent(i, k - 1)
    <2>1. \A p \in i..(k - 1) : p = i \/ TeX[p].in = "comment"
      BY <1>1, <1>2, <1>4, <1>5
    <2>2. QED BY <1>1, <2>1 DEF Silent, SpecialAt, BacktickAt
  <1>10. QED BY <1>1, <1>3, <1>4, <1>6, <1>8, <1>9 DEF Knows

LEMMA SlashStands ==
  ASSUME Clean, Stands(i, line), Facing("backslash")
  PROVE  /\ i \in 1..size /\ i \in Nat /\ size \in Nat /\ line \in Nat /\ Place(i) = i /\ src[i] = "backslash"
         /\ TeX[i].in = "copy" /\ TeX[i + 1].in = "slash" /\ ~TeX[i + 1].tick /\ TeX[i + 1].envs = TeX[i].envs
         /\ Oddities = {} => (TeX[i + 1].mode = "text" <=> TeX[i].mode = "text")
         /\ ~SpecialAt(i) /\ ~BacktickAt(i) /\ ~SpecialAt(i + 1) /\ ~BacktickAt(i + 1)
         /\ i < size => i + 1 \in 1..size
  <1>1. i \in 1..size /\ i \in Nat /\ size \in Nat /\ line \in Nat /\ Place(i) = i /\ TeX[i].in = "copy" /\ src[i] = "backslash"
    BY StandsIn DEF Stands, Facing
  <1>2. /\ TeX[i + 1].in = "slash" /\ ~TeX[i + 1].tick /\ TeX[i + 1].envs = TeX[i].envs
        /\ Oddities = {} => (TeX[i + 1].mode = "text" <=> TeX[i].mode = "text")
    BY <1>1, CopyAt
  <1>3. QED BY <1>1, <1>2 DEF SpecialAt, BacktickAt

LEMMA WordIs ==
  ASSUME Clean, Stands(i, line), Facing("backslash")
  PROVE  /\ word # "none" => i < size /\ word = src[i + 1] /\ word \in Words
         /\ word = "none" /\ i < size => src[i + 1] \notin Words
  BY DEF word, Words

LEMMA EscapeMoves ==
  ASSUME Clean, Stands(i, line), Facing("backslash"), word = "none" \/ word \in {"text", "equation", "word"}
  PROVE  /\ Stands(i + 2, line) /\ Silent(i, i + 1)
         /\ Oddities = {} /\ Knows(i, math, envs) =>
              Knows(i + 2, CASE i < size /\ src[i + 1] = "lbracket" -> 1
                             [] i < size /\ src[i + 1] = "rbracket" -> 0
                             [] OTHER -> math, envs)
  <1>1. /\ i \in 1..size /\ i \in Nat /\ size \in Nat /\ line \in Nat /\ Place(i) = i /\ src[i] = "backslash"
        /\ TeX[i].in = "copy" /\ TeX[i + 1].in = "slash" /\ ~TeX[i + 1].tick /\ TeX[i + 1].envs = TeX[i].envs
        /\ Oddities = {} => (TeX[i + 1].mode = "text" <=> TeX[i].mode = "text")
        /\ ~SpecialAt(i) /\ ~BacktickAt(i) /\ ~SpecialAt(i + 1) /\ ~BacktickAt(i + 1)
    BY SlashStands
  <1>2. \A p \in i..(i + 1) : p = i \/ p = i + 1
    BY <1>1
  <1>3. Silent(i, i + 1)
    BY <1>1, <1>2 DEF Silent
  <1>4. i + 2 \in i..(size + 2) /\ i + 2 \in 1..(size + 2)
    BY <1>1
  <1>5. CASE i = size
    <2>1. Place(i + 2) = i + 1
      BY <1>1, <1>5 DEF Place
    <2>2. \A p \in i..(Place(i + 2) - 1) : src[p] # "nl"
      BY <1>1, <2>1
    <2>3. line = 1 + Times("nl", 1, Place(i + 2) - 1)
      BY <1>1, <1>4, <2>2, SameLine
    <2>4. Stands(i + 2, line)
      BY <1>1, <1>4, <1>5, <2>3 DEF Stands
    <2>5. QED BY <1>1, <1>3, <1>5, <2>1, <2>4 DEF Knows
  <1>6. CASE i # size
    <2>1. PICK q \in 1..size : q = i + 1 /\ q + 1 = i + 2 /\ i < size
      BY <1>1, <1>6
    <2>2. src[q] \notin {"begin", "end", "cite"}
      BY <2>1, WordIs DEF Words
    <2>3. TeX[q].in = "slash"
      BY <1>1, <2>1
    <2>4. /\ TeX[q + 1].envs = TeX[q].envs /\ ~TeX[q + 1].tick /\ src[q] # "nl" /\ TeX[q + 1].in = "copy"
          /\ Oddities = {} => TeX[q + 1].mode = CASE src[q] = "lbracket" -> "bracket"
                                                 [] src[q] = "rbracket" -> "text" [] OTHER -> TeX[q].mode
      BY <2>2, <2>3, SlashAt
    <2>5. Place(i + 2) = i + 2 /\ \A p \in i..(Place(i + 2) - 1) : p = i \/ p = q
      BY <1>1, <2>1 DEF Place
    <2>6. line = 1 + Times("nl", 1, Place(i + 2) - 1)
      <3>1. \A p \in i..(Place(i + 2) - 1) : src[p] # "nl"
        BY <1>1, <2>4, <2>5
      <3>2. QED BY <1>1, <1>4, <3>1, SameLine
    <2>7. Stands(i + 2, line)
      BY <1>1, <1>4, <2>1, <2>4, <2>6 DEF Stands
    <2>8. QED BY <1>1, <1>3, <2>1, <2>4, <2>5, <2>7 DEF Knows
  <1>7. QED BY <1>1, <1>5, <1>6

LEMMA MinIs ==
  ASSUME NEW S \in SUBSET Nat, NEW b \in S, \A p \in S : b <= p
  PROVE  Min(S) = b
  <1>1. Min(S) \in S /\ Min(S) <= b
    BY MinIsFirst
  <1>2. Min(S) \in Nat /\ b \in Nat /\ b <= Min(S)
    BY <1>1
  <1>3. QED BY <1>1, <1>2

LEMMA FirstOfIs ==
  ASSUME size \in Nat, NEW c, NEW a \in Nat, NEW b \in a..size, src[b] = c, \A p \in a..(b - 1) : src[p] # c
  PROVE  FirstOf(c, a) = b
  <1> DEFINE D == {p \in a..size : src[p] = c}
  <1>1. b \in D /\ D \in SUBSET Nat
    OBVIOUS
  <1>2. ASSUME NEW p \in D PROVE b <= p
    <2>1. p \in a..size /\ src[p] = c
      OBVIOUS
    <2>2. p \notin a..(b - 1)
      BY <2>1
    <2>3. QED BY <2>1, <2>2
  <1>3. FirstOf(c, a) = IF D = {} THEN 0 ELSE Min(D)
    BY DEF FirstOf
  <1> HIDE DEF D
  <1>4. Min(D) = b
    BY <1>1, <1>2, MinIs
  <1>5. QED BY <1>1, <1>3, <1>4

\* A control word with an argument: the blanks up to its brace.
LEMMA ArgumentBegins ==
  ASSUME Clean, Stands(i, line), Facing("backslash"), word \in {"begin", "end", "cite"},
         word = "cite" => ~(i + 2 <= size /\ src[i + 2] = "lbracket")
  PROVE  \E b \in (i + 2)..size :
           /\ src[b] = "lbrace" /\ \A p \in (i + 2)..b : TeX[p].in = "before"
           /\ \A p \in (i + 2)..(b - 1) : src[p] = "space" \/ (src[p] = "nl" /\ word = "cite")
           /\ b + 1 \in 1..(size + 1) /\ TeX[b + 1].in = "inside" /\ TeX[b + 1].depth = 1 /\ TeX[b + 1].arg = <<>>
           /\ TeX[b + 1].command = word /\ TeX[b + 1].envs = TeX[i].envs
           /\ Oddities = {} => (TeX[b + 1].mode = "text" <=> TeX[i].mode = "text")
  <1>1. /\ i \in 1..size /\ i \in Nat /\ size \in Nat
        /\ TeX[i + 1].in = "slash" /\ TeX[i + 1].envs = TeX[i].envs
        /\ Oddities = {} => (TeX[i + 1].mode = "text" <=> TeX[i].mode = "text")
    BY SlashStands
  <1>2. i < size /\ src[i + 1] = word
    BY WordIs
  <1>3. PICK q \in 1..size : q = i + 1 /\ q + 1 = i + 2
    BY <1>1, <1>2
  <1>4. TeX[q].in = "slash" /\ src[q] \in {"begin", "end", "cite"}
    BY <1>1, <1>2, <1>3
  <1>5. /\ TeX[q + 1].envs = TeX[q].envs /\ TeX[q + 1].in = "before" /\ TeX[q + 1].command = src[q]
        /\ TeX[q + 1].option = (IF src[q] = "cite" THEN "may" ELSE "none")
        /\ Oddities = {} => TeX[q + 1].mode = TeX[q].mode
    BY <1>4, SlashAt
  <1>6. PICK a \in 1..(size + 1) : a = i + 2
    BY <1>1, <1>2
  <1>7. /\ TeX[a].in = "before" /\ TeX[a].command = word /\ TeX[a].envs = TeX[i].envs
        /\ TeX[a].option = "may" => ~(a <= size /\ src[a] = "lbracket")
        /\ Oddities = {} => (TeX[a].mode = "text" <=> TeX[i].mode = "text")
    BY <1>1, <1>2, <1>3, <1>5, <1>6
  <1>8. PICK b \in a..size : /\ src[b] = "lbrace" /\ \A p \in a..b : TeX[p].in = "before" /\ SameMode(TeX[a], TeX[p])
                             /\ \A p \in a..(b - 1) : src[p] = "space" \/ (src[p] = "nl" /\ TeX[a].command = "cite")
    BY <1>7, BlanksRun
  <1>9. b \in 1..size /\ b \in a..b /\ b + 1 \in 1..(size + 1)
    BY <1>1, <1>6
  <1>10. TeX[b].in = "before" /\ SameMode(TeX[a], TeX[b])
    BY <1>8, <1>9
  <1>11. /\ TeX[b + 1].in = "inside" /\ TeX[b + 1].depth = 1 /\ TeX[b + 1].arg = <<>>
         /\ TeX[b + 1].command = TeX[b].command /\ TeX[b + 1].mode = TeX[b].mode /\ TeX[b + 1].envs = TeX[b].envs
    BY <1>8, <1>9, <1>10, BeforeAt DEF SameMode
  <1>12. /\ TeX[b + 1].command = word /\ TeX[b + 1].envs = TeX[i].envs
         /\ Oddities = {} => (TeX[b + 1].mode = "text" <=> TeX[i].mode = "text")
    BY <1>7, <1>10, <1>11 DEF SameMode
  <1>13. \A p \in (i + 2)..b : TeX[p].in = "before"
    BY <1>6, <1>8
  <1>14. \A p \in (i + 2)..(b - 1) : src[p] = "space" \/ (src[p] = "nl" /\ word = "cite")
    BY <1>6, <1>7, <1>8
  <1>15. b \in (i + 2)..size /\ src[b] = "lbrace" /\ b + 1 \in 1..(size + 1)
    BY <1>6, <1>8, <1>9
  <1>16. QED BY <1>11, <1>12, <1>13, <1>14, <1>15

LEMMA NotInCopy ==
  ASSUME NEW a \in Int, NEW b \in Int, \A p \in a..b : TeX[p].in # "copy"
  PROVE  Silent(a, b)
  BY DEF Silent, SpecialAt, BacktickAt

LEMMA EnvironmentMoves ==
  ASSUME Clean, Stands(i, line), Facing("backslash"), word \in {"begin", "end"},
         NEW k, k = FirstOf("lbrace", i + 2), NEW e, e = FirstOf("rbrace", k)
  PROVE  /\ IsEnvironment /\ e \in i..size /\ Stands(e + 1, line) /\ Silent(i, e)
         /\ Oddities = {} /\ Knows(i, math, envs) =>
              Knows(e + 1, math, IF SubSeq(src, k + 1, e - 1) \notin MATH_ENVS THEN envs
                                 ELSE IF word = "begin" THEN envs + 1
                                 ELSE IF envs > 0 THEN envs - 1 ELSE 0)
  <1>1. /\ i \in 1..size /\ i \in Nat /\ size \in Nat /\ line \in Nat /\ Place(i) = i /\ src[i] = "backslash"
        /\ TeX[i].in = "copy" /\ TeX[i + 1].in = "slash"
        /\ ~SpecialAt(i) /\ ~BacktickAt(i) /\ ~SpecialAt(i + 1) /\ ~BacktickAt(i + 1)
    BY SlashStands
  <1>2. i < size /\ src[i + 1] = word
    BY WordIs
  <1>3. PICK b \in (i + 2)..size :
           /\ src[b] = "lbrace" /\ \A p \in (i + 2)..b : TeX[p].in = "before"
           /\ \A p \in (i + 2)..(b - 1) : src[p] = "space" \/ (src[p] = "nl" /\ word = "cite")
           /\ b + 1 \in 1..(size + 1) /\ TeX[b + 1].in = "inside" /\ TeX[b + 1].depth = 1 /\ TeX[b + 1].arg = <<>>
           /\ TeX[b + 1].command = word /\ TeX[b + 1].envs = TeX[i].envs
           /\ Oddities = {} => (TeX[b + 1].mode = "text" <=> TeX[i].mode = "text")
    BY ArgumentBegins
  <1>4. b \in Nat /\ b \in 1..size
    BY <1>1, <1>3
  <1>5. k = b
    <2>1. PICK a \in Nat : a = i + 2
      BY <1>1
    <2>2. b \in a..size /\ \A p \in a..(b - 1) : src[p] # "lbrace"
      BY <1>3, <2>1
    <2>3. FirstOf("lbrace", a) = b
      BY <1>1, <1>3, <2>2, FirstOfIs
    <2>4. QED BY <2>1, <2>3
  <1>6. PICK d \in (b + 1)..size :
           /\ src[d] = "rbrace" /\ \A p \in (b + 1)..(d - 1) : src[p] \notin {"rbrace", "nl"}
           /\ \A p \in (b + 1)..d : TeX[p].in = "inside" /\ TeX[p].depth = 1
           /\ TeX[d].arg = SubSeq(src, b + 1, d - 1) /\ SameMode(TeX[b + 1], TeX[d])
    BY <1>3, <1>4, NameOfEnvironment
  <1>7. d \in 1..size /\ d \in b..size /\ d \in i..size /\ d \in Nat /\ d \in (b + 1)..d
    BY <1>1, <1>3, <1>4
  <1>8. e = d
    <2>1. \A p \in b..(d - 1) : p = b \/ p \in (b + 1)..(d - 1)
      BY <1>4, <1>7
    <2>2. \A p \in b..(d - 1) : src[p] # "rbrace"
      BY <1>3, <1>6, <2>1
    <2>3. FirstOf("rbrace", b) = d
      BY <1>1, <1>4, <1>6, <1>7, <2>2, FirstOfIs
    <2>4. QED BY <1>5, <2>3
  <1>9. IsEnvironment
    BY <1>1, <1>4, <1>5 DEF IsEnvironment
  <1>10. TeX[d].in = "inside" /\ TeX[d].depth = 1
    BY <1>6, <1>7
  <1>11. /\ TeX[d + 1].in = "copy" /\ ~TeX[d + 1].tick /\ TeX[d + 1].mode = TeX[d].mode
         /\ Oddities = {} => TeX[d + 1].envs = Opened(TeX[d])
    BY <1>6, <1>7, <1>10, InsideAt
  <1>12. \A p \in i..d : p = i \/ p = i + 1 \/ p \in (i + 2)..(b - 1) \/ p = b \/ p \in (b + 1)..(d - 1) \/ p = d
    BY <1>1, <1>3, <1>4, <1>7
  <1>13. Silent(i, d)
    <2>1. \A p \in (i + 2)..d : TeX[p].in # "copy"
      <3>1. \A p \in (i + 2)..d : p \in (i + 2)..b \/ p \in (b + 1)..d
        BY <1>1, <1>4, <1>7
      <3>2. QED BY <1>3, <1>6, <3>1
    <2>2. \A p \in i..d : p = i \/ p = i + 1 \/ p \in (i + 2)..d
      BY <1>1, <1>7
    <2>3. QED BY <1>1, <2>1, <2>2 DEF Silent, SpecialAt, BacktickAt
  <1>14. d + 1 \in i..(size + 2) /\ d + 1 \in 1..(size + 2) /\ Place(d + 1) = d + 1 /\ d + 1 - 1 = d
    BY <1>1, <1>7 DEF Place
  <1>15. line = 1 + Times("nl", 1, Place(d + 1) - 1)
    <2>1. word # "nl" /\ word # "cite"
      OBVIOUS
    <2>2. \A p \in i..d : src[p] # "nl"
      BY <1>1, <1>2, <1>3, <1>6, <1>12, <2>1
    <2>3. \A p \in i..(Place(d + 1) - 1) : src[p] # "nl"
      BY <1>14, <2>2
    <2>4. QED BY <1>1, <1>14, <2>3, SameLine
  <1>16. Stands(d + 1, line)
    BY <1>11, <1>14, <1>15 DEF Stands
  <1>17. ASSUME Oddities = {}, Knows(i, math, envs)
         PROVE  Knows(d + 1, math, IF SubSeq(src, b + 1, d - 1) \notin MATH_ENVS THEN envs
                                   ELSE IF word = "begin" THEN envs + 1
                                   ELSE IF envs > 0 THEN envs - 1 ELSE 0)
    <2>1. math = (IF TeX[i].mode = "text" THEN 0 ELSE 1) /\ envs = TeX[i].envs
      BY <1>1, <1>17 DEF Knows
    <2>2. TeX[d].envs = envs /\ TeX[d].command = word /\ TeX[d].mode = TeX[b + 1].mode
      BY <1>3, <1>6, <2>1 DEF SameMode
    <2>3. TeX[d + 1].mode = "text" <=> TeX[i].mode = "text"
      BY <1>3, <1>11, <1>17, <2>2
    <2>4. TeX[d + 1].envs \in Nat /\ envs \in Nat
      <3>1. d + 1 \in 1..(size + 1) /\ d \in 1..(size + 1)
        BY <1>1, <1>7
      <3>2. Formed(TeX[d + 1]) /\ Formed(TeX[d])
        BY <3>1, TeXRuns DEF Clean
      <3>3. QED BY <2>2, <3>2 DEF Formed, Reading
    <2>5. TeX[d + 1].envs = Opened(TeX[d])
      BY <1>11, <1>17
    <2>6. TeX[d + 1].envs = IF SubSeq(src, b + 1, d - 1) \notin MATH_ENVS THEN envs
                            ELSE IF word = "begin" THEN envs + 1
                            ELSE IF envs > 0 THEN envs - 1 ELSE 0
      BY <1>6, <2>2, <2>4, <2>5 DEF Opened
    <2>7. QED BY <1>14, <2>1, <2>3, <2>6 DEF Knows
  <1>18. QED BY <1>5, <1>7, <1>8, <1>9, <1>13, <1>16, <1>17

LEMMA NameMoves ==
  ASSUME Clean, Stands(i, line), Facing("backslash"), word = "cite", ~(i + 2 <= size /\ src[i + 2] = "lbracket")
  PROVE  /\ TakesName /\ ArgumentEnd \in i..size /\ Stands(ArgumentEnd + 1, line + NameLines) /\ Silent(i, ArgumentEnd)
         /\ Oddities = {} /\ Knows(i, math, envs) => Knows(ArgumentEnd + 1, math, envs)
  <1>1. /\ i \in 1..size /\ i \in Nat /\ size \in Nat /\ line \in Nat /\ Place(i) = i /\ src[i] = "backslash"
        /\ TeX[i].in = "copy" /\ TeX[i + 1].in = "slash"
        /\ ~SpecialAt(i) /\ ~BacktickAt(i) /\ ~SpecialAt(i + 1) /\ ~BacktickAt(i + 1)
    BY SlashStands
  <1>2. i < size /\ src[i + 1] = word
    BY WordIs
  <1>3. PICK b \in (i + 2)..size :
           /\ src[b] = "lbrace" /\ \A p \in (i + 2)..b : TeX[p].in = "before"
           /\ \A p \in (i + 2)..(b - 1) : src[p] = "space" \/ (src[p] = "nl" /\ word = "cite")
           /\ b + 1 \in 1..(size + 1) /\ TeX[b + 1].in = "inside" /\ TeX[b + 1].depth = 1 /\ TeX[b + 1].arg = <<>>
           /\ TeX[b + 1].command = word /\ TeX[b + 1].envs = TeX[i].envs
           /\ Oddities = {} => (TeX[b + 1].mode = "text" <=> TeX[i].mode = "text")
    BY ArgumentBegins
  <1>4. b \in Nat /\ b \in 1..size
    BY <1>1, <1>3
  <1>5. Brace = b
    <2> DEFINE ink == {p \in (i + 2)..size : src[p] \notin {"space", "nl"}}
    <2>1. b \in ink /\ ink \in SUBSET Nat
      BY <1>1, <1>3
    <2>2. ASSUME NEW p \in ink PROVE b <= p
      <3>1. p \in (i + 2)..size /\ src[p] \notin {"space", "nl"}
        OBVIOUS
      <3>2. p \notin (i + 2)..(b - 1)
        BY <1>3, <3>1
      <3>3. QED BY <1>1, <1>4, <3>1, <3>2
    <2>3. Brace = IF ink = {} THEN size + 1 ELSE Min(ink)
      BY DEF Brace
    <2> HIDE DEF ink
    <2>4. Min(ink) = b
      BY <2>1, <2>2, MinIs
    <2>5. QED BY <2>1, <2>3, <2>4
  <1>6. TakesName
    BY <1>1, <1>3, <1>4, <1>5 DEF TakesName, NAME_ARG_CMDS
  <1>7. PICK d \in (b + 1)..size :
           /\ Net(b, d) = 0 /\ \A q \in b..(d - 1) : Net(b, q) # 0
           /\ \A p \in (b + 1)..d : TeX[p].in \in {"inside", "escape"}
           /\ TeX[d].in = "inside" /\ src[d] = "rbrace" /\ TeX[d].depth = 1 /\ SameMode(TeX[b + 1], TeX[d])
    BY <1>3, <1>4, Keys
  <1>8. d \in 1..size /\ d \in b..size /\ d \in i..size /\ d \in Nat
    BY <1>1, <1>3, <1>4
  <1>9. ArgumentEnd = d
    <2> DEFINE closed == {q \in b..size : DepthTo(q) = 0}
    <2>1. \A q : DepthTo(q) = Net(b, q)
      BY <1>5 DEF DepthTo, Net, Times
    <2>2. d \in closed /\ closed \in SUBSET Nat
      BY <1>4, <1>7, <1>8, <2>1
    <2>3. ASSUME NEW q \in closed PROVE d <= q
      <3>1. q \in b..size /\ Net(b, q) = 0
        BY <2>1
      <3>2. q \notin b..(d - 1)
        BY <1>7, <3>1
      <3>3. QED BY <1>4, <1>8, <3>1, <3>2
    <2>4. ArgumentEnd = IF closed = {} THEN size ELSE Min(closed)
      BY <1>5 DEF ArgumentEnd
    <2> HIDE DEF closed
    <2>5. Min(closed) = d
      BY <2>2, <2>3, MinIs
    <2>6. QED BY <2>2, <2>4, <2>5
  <1>10. /\ TeX[d + 1].in = "copy" /\ ~TeX[d + 1].tick /\ TeX[d + 1].mode = TeX[d].mode
         /\ Oddities = {} => TeX[d + 1].envs = Opened(TeX[d])
    BY <1>7, <1>8, InsideAt
  <1>11. Silent(i, d)
    <2>1. \A p \in (i + 2)..d : TeX[p].in # "copy"
      <3>1. \A p \in (i + 2)..d : p \in (i + 2)..b \/ p \in (b + 1)..d
        BY <1>1, <1>4, <1>8
      <3>2. QED BY <1>3, <1>7, <3>1
    <2>2. \A p \in i..d : p = i \/ p = i + 1 \/ p \in (i + 2)..d
      BY <1>1, <1>8
    <2>3. QED BY <1>1, <2>1, <2>2 DEF Silent, SpecialAt, BacktickAt
  <1>12. d + 1 \in i..(size + 2) /\ d + 1 \in 1..(size + 2) /\ Place(d + 1) = d + 1 /\ d + 1 - 1 = d
    BY <1>1, <1>8 DEF Place
  <1>13. NameLines = Times("nl", i, d)
    <2>1. PICK a \in Nat : a = i + 1 /\ a + 1 = i + 2
      BY <1>1
    <2>2. Times("nl", i, a) = 0
      <3>1. \A p \in i..a : p = i \/ p = i + 1
        BY <1>1, <2>1
      <3>2. \A p \in i..a : src[p] # "nl"
        BY <1>1, <1>2, <3>1
      <3>3. QED BY <3>2, TimesNone
    <2>3. Times("nl", i, d) = Times("nl", i, a) + Times("nl", a + 1, d)
      <3>1. i \in Nat /\ a \in Int /\ d \in Int /\ i <= a + 1 /\ a <= d
        BY <1>1, <1>3, <1>4, <1>8, <2>1
      <3>2. QED BY <3>1, TimesAdd, Zenon
    <2>4. Times("nl", a + 1, d) \in Nat
      <3>1. a + 1 \in Nat /\ d \in Int
        BY <1>8, <2>1
      <3>2. QED BY <3>1, TimesAre, Zenon
    <2>5. NameLines = Times("nl", a + 1, d)
      BY <1>9, <2>1 DEF NameLines, Newlines, Times
    <2>6. QED BY <2>2, <2>3, <2>4, <2>5
  <1>14. line + NameLines = 1 + Times("nl", 1, Place(d + 1) - 1)
    <2>1. 1 + Times("nl", 1, Place(d + 1) - 1) = line + Times("nl", i, Place(d + 1) - 1)
      BY <1>1, <1>12, LinesAdd
    <2>2. QED BY <1>12, <1>13, <2>1
  <1>15. Stands(d + 1, line + NameLines)
    BY <1>10, <1>12, <1>14 DEF Stands
  <1>16. ASSUME Oddities = {}, Knows(i, math, envs) PROVE Knows(d + 1, math, envs)
    <2>1. math = (IF TeX[i].mode = "text" THEN 0 ELSE 1) /\ envs = TeX[i].envs
      BY <1>1, <1>16 DEF Knows
    <2>2. TeX[d].envs = envs /\ TeX[d].command = "cite" /\ TeX[d].mode = TeX[b + 1].mode
      BY <1>3, <1>7, <2>1 DEF SameMode
    <2>3. TeX[d + 1].mode = "text" <=> TeX[i].mode = "text"
      BY <1>3, <1>10, <1>16, <2>2
    <2>4. TeX[d + 1].envs = envs
      BY <1>10, <1>16, <2>2 DEF Opened
    <2>5. QED BY <1>12, <2>1, <2>3, <2>4 DEF Knows
  <1>17. QED BY <1>6, <1>8, <1>9, <1>11, <1>15, <1>16

\* A control word with an optional argument, which both read as copy.
LEMMA OptionBegins ==
  ASSUME Clean, Stands(i, line), Facing("backslash"), word = "cite", i + 2 <= size, src[i + 2] = "lbracket"
  PROVE  /\ ~TakesName /\ Newlines(i + 2, Brace - 1) = 0 /\ Stands(i + 2, line) /\ Silent(i, i + 1)
         /\ Oddities = {} /\ Knows(i, math, envs) => Knows(i + 2, math, envs)
  <1>1. /\ i \in 1..size /\ i \in Nat /\ size \in Nat /\ line \in Nat /\ Place(i) = i /\ src[i] = "backslash"
        /\ TeX[i + 1].in = "slash" /\ TeX[i + 1].envs = TeX[i].envs
        /\ Oddities = {} => (TeX[i + 1].mode = "text" <=> TeX[i].mode = "text")
        /\ ~SpecialAt(i) /\ ~BacktickAt(i) /\ ~SpecialAt(i + 1) /\ ~BacktickAt(i + 1)
    BY SlashStands
  <1>2. i < size /\ src[i + 1] = "cite"
    BY WordIs
  <1>3. PICK q \in 1..size : q = i + 1 /\ q + 1 = i + 2
    BY <1>1, <1>2
  <1>4. TeX[q].in = "slash" /\ src[q] = "cite"
    BY <1>1, <1>2, <1>3
  <1>5. /\ TeX[q + 1].envs = TeX[q].envs /\ ~TeX[q + 1].tick /\ TeX[q + 1].in = "before" /\ TeX[q + 1].option = "may"
        /\ Oddities = {} => TeX[q + 1].mode = TeX[q].mode
    BY <1>4, SlashAt
  <1>6. PICK a \in 1..size : a = i + 2 /\ a \in Nat /\ a \in 1..(size + 2)
    BY <1>1
  <1>7. Place(a) = a
    BY <1>1, <1>6 DEF Place
  <1>8. Brace = a
    <2> DEFINE ink == {p \in a..size : src[p] \notin {"space", "nl"}}
    <2>1. a \in ink /\ ink \in SUBSET Nat /\ \A p \in ink : a <= p
      BY <1>1, <1>6
    <2>2. Brace = IF ink = {} THEN size + 1 ELSE Min(ink)
      BY <1>6 DEF Brace
    <2> HIDE DEF ink
    <2>3. Min(ink) = a
      BY <2>1, MinIs
    <2>4. QED BY <2>1, <2>2, <2>3
  <1>9. ~TakesName
    BY <1>6, <1>8 DEF TakesName
  <1>10. Newlines(i + 2, Brace - 1) = 0
    <2>1. Times("nl", a, a - 1) = 0
      <3>1. \A p \in a..(a - 1) : src[p] # "nl"
        BY <1>6
      <3>2. QED BY <3>1, TimesNone
    <2>2. Newlines(a, a - 1) = 0
      BY <2>1, NewlinesAre
    <2>3. QED BY <1>6, <1>8, <2>2
  <1>11. line = 1 + Times("nl", 1, Place(a) - 1)
    <2>1. a \in i..(size + 2) /\ \A p \in i..(Place(a) - 1) : p = i \/ p = q
      BY <1>1, <1>3, <1>6, <1>7
    <2>2. \A p \in i..(Place(a) - 1) : src[p] # "nl"
      BY <1>1, <1>4, <2>1
    <2>3. QED BY <1>1, <2>1, <2>2, SameLine
  <1>12. Stands(a, line)
    BY <1>3, <1>5, <1>6, <1>11 DEF Stands
  <1>13. Silent(i, i + 1)
    <2>1. \A p \in i..(i + 1) : p = i \/ p = i + 1
      BY <1>1
    <2>2. QED BY <1>1, <2>1 DEF Silent
  <1>14. ASSUME Oddities = {}, Knows(i, math, envs) PROVE Knows(a, math, envs)
    <2>1. TeX[a].envs = TeX[i].envs /\ (TeX[a].mode = "text" <=> TeX[i].mode = "text")
      BY <1>1, <1>3, <1>5, <1>6, <1>14
    <2>2. QED BY <1>1, <1>7, <1>14, <2>1 DEF Knows
  <1>15. QED BY <1>6, <1>9, <1>10, <1>12, <1>13, <1>14

-----------------------------------------------------------------------------
ScanTypes == src \in Seq(STRING) /\ scanned \in BOOLEAN

ScanStands == ~scanned /\ Oddities \subseteq Harmless => Stands(i, line)

LinesRight ==
  Oddities \subseteq Harmless => \A p \in problems : p.line > 0 => p.line = 1 + Newlines(1, p.at - 1)

Reported ==
  Oddities = {} => IF scanned THEN Places(problems) = Expected
                              ELSE Knows(i, math, envs) /\ Places(problems) = Wrong(i)

ScanInv == ScanTypes /\ ScanStands /\ LinesRight /\ Reported

LEMMA ScanBegins == ScanInit => ScanInv
  <1> SUFFICES ASSUME ScanInit PROVE ScanInv
    OBVIOUS
  <1>1. src \in Seq(STRING)
    BY TokensAssumption DEF ScanInit
  <1>2. ScanTypes
    BY <1>1 DEF ScanInit, ScanBegin, ScanTypes
  <1>3. size \in Nat /\ TeX[1] = Start
    BY <1>1, TeXRuns
  <1>4. Place(1) = 1
    BY <1>3 DEF Place
  <1>5. Stands(1, 1)
    <2>1. Times("nl", 1, 0) = 0
      <3>1. \A p \in 1..0 : src[p] # "nl"
        OBVIOUS
      <3>2. QED BY <3>1, TimesNone
    <2>2. QED BY <1>3, <1>4, <2>1 DEF Stands, Start
  <1>6. Knows(1, 0, 0)
    BY <1>3, <1>4 DEF Knows, Start
  <1>7. Places({}) = {} /\ Wrong(1) = {}
    BY DEF Places, Wrong
  <1>8. QED BY <1>2, <1>5, <1>6, <1>7 DEF ScanInit, ScanBegin, ScanInv, ScanStands, LinesRight, Reported

LEMMA SameText ==
  ASSUME src' = src
  PROVE  size' = size /\ TeX' = TeX /\ Oddities' = Oddities /\ Expected' = Expected
  <1>1. size' = size
    BY DEF size
  <1>2. TeX' = TeX
    BY <1>1 DEF TeX
  <1>3. QED BY <1>1, <1>2 DEF Oddities, Expected

LEMMA StandsOn ==
  ASSUME src' = src, Stands(i', line')
  PROVE  Stands(i, line)'
  <1>1. size' = size /\ TeX' = TeX
    BY SameText
  <1>2. Place(i)' = Place(i')
    BY <1>1 DEF Place
  <1>3. Times("nl", 1, Place(i) - 1)' = Times("nl", 1, Place(i') - 1)
    BY <1>2 DEF Times
  <1>4. QED BY <1>1, <1>3 DEF Stands

LEMMA KnowsOn ==
  ASSUME src' = src, Knows(i', math', envs')
  PROVE  Knows(i, math, envs)'
  <1>1. size' = size /\ TeX' = TeX
    BY SameText
  <1>2. Place(i)' = Place(i')
    BY <1>1 DEF Place
  <1>3. QED BY <1>1, <1>2 DEF Knows

LEMMA WrongOn ==
  ASSUME src' = src
  PROVE  Wrong(i)' = Wrong(i')
  <1>1. size' = size /\ TeX' = TeX
    BY SameText
  <1>2. QED BY <1>1 DEF Wrong, SpecialAt, BacktickAt

LEMMA PlacesAdd ==
  ASSUME NEW S, NEW R
  PROVE  Places(S \cup R) = Places(S) \cup Places(R)
  BY DEF Places

LEMMA PlacesOne ==
  ASSUME NEW a, NEW l, NEW w
  PROVE  Places({[at |-> a, line |-> l, what |-> w]}) = {[at |-> a, what |-> w]} /\ Places({}) = {}
  BY DEF Places

\* A step of the scanner, with what it reports.
LEMMA Advances ==
  ASSUME ScanInv, src' = src, ~scanned, scanned' = scanned, NEW R, problems' = problems \cup R,
         Clean => /\ Stands(i', line')
                  /\ \A r \in R : i <= size /\ r.line = line /\ r.at = i
                  /\ Oddities = {} /\ Knows(i, math, envs) =>
                       Knows(i', math', envs') /\ Wrong(i') = Wrong(i) \cup Places(R)
  PROVE  ScanInv'
  <1>1. /\ Oddities' = Oddities /\ src \in Seq(STRING)
        /\ Oddities \subseteq Harmless => Clean
        /\ Oddities = {} => Oddities \subseteq Harmless
    BY SameText DEF ScanInv, ScanTypes, Clean
  <1>2. ScanTypes'
    BY DEF ScanInv, ScanTypes
  <1>3. ScanStands'
    <2> SUFFICES ASSUME Oddities' \subseteq Harmless PROVE Stands(i, line)'
      BY DEF ScanStands, Harmless
    <2>1. Stands(i', line')
      BY <1>1
    <2>2. QED BY <2>1, StandsOn
  <1>4. LinesRight'
    <2> SUFFICES ASSUME Oddities' \subseteq Harmless, NEW p \in problems', p.line > 0
                 PROVE  p.line = 1 + Newlines(1, p.at - 1)'
      BY DEF LinesRight, Harmless
    <2>1. Newlines(1, p.at - 1)' = Newlines(1, p.at - 1)
      BY DEF Newlines
    <2>2. CASE p \in problems
      BY <1>1, <2>1, <2>2 DEF ScanInv, LinesRight
    <2>3. CASE p \in R
      <3>1. Clean /\ i <= size /\ p.line = line /\ p.at = i
        BY <1>1, <2>3
      <3>2. Stands(i, line)
        BY <1>1 DEF ScanInv, ScanStands
      <3>3. line = 1 + Times("nl", 1, i - 1)
        BY <3>1, <3>2, StandsIn DEF Stands
      <3>4. QED BY <2>1, <3>1, <3>3, NewlinesAre
    <2>4. QED BY <2>2, <2>3
  <1>5. Reported'
    <2> SUFFICES ASSUME Oddities' = {} PROVE (Knows(i, math, envs) /\ Places(problems) = Wrong(i))'
      BY DEF Reported
    <2>1. Clean /\ Oddities = {} /\ Knows(i, math, envs) /\ Places(problems) = Wrong(i)
      BY <1>1 DEF ScanInv, Reported
    <2>2. Knows(i', math', envs') /\ Wrong(i') = Wrong(i) \cup Places(R)
      BY <2>1
    <2>3. Places(problems)' = Places(problems) \cup Places(R)
      BY PlacesAdd DEF Places
    <2>4. Wrong(i)' = Wrong(i')
      BY WrongOn
    <2>5. Knows(i, math, envs)'
      BY <2>2, KnowsOn
    <2>6. QED BY <2>1, <2>2, <2>3, <2>4, <2>5
  <1>6. QED BY <1>2, <1>3, <1>4, <1>5 DEF ScanInv

\* A step that reports nothing.
LEMMA AdvancesSilently ==
  ASSUME ScanInv, src' = src, ~scanned, scanned' = scanned, problems' = problems,
         Clean => /\ Stands(i', line') /\ i \in Nat /\ i >= 1 /\ i' \in Nat /\ i < i' /\ Silent(i, i' - 1)
                  /\ Oddities = {} /\ Knows(i, math, envs) => Knows(i', math', envs')
  PROVE  ScanInv'
  <1>1. problems' = problems \cup {} /\ Places({}) = {}
    BY DEF Places
  <1>2. ASSUME Clean PROVE Wrong(i') = Wrong(i)
    <2>1. PICK k \in Nat : k = i' /\ i \in Nat /\ i >= 1 /\ i < k /\ Silent(i, k - 1)
      BY <1>2
    <2>2. i \in i..(k - 1) /\ \A p \in (i + 1)..(k - 1) : p \in i..(k - 1)
      <3>1. i \in Nat /\ k \in Nat /\ i < k
        BY <2>1
      <3>2. QED BY <3>1
    <2>3. ~SpecialAt(i) /\ ~BacktickAt(i) /\ Silent(i + 1, k - 1)
      BY <2>1, <2>2 DEF Silent
    <2>4. QED BY <2>1, <2>3, WrongAdds
  <1>3. QED BY <1>1, <1>2, Advances

LEMMA ScanStutters ==
  ASSUME ScanInv, UNCHANGED scanning
  PROVE  ScanInv'
  <1>1. /\ src' = src /\ i' = i /\ line' = line /\ math' = math /\ envs' = envs
        /\ problems' = problems /\ scanned' = scanned
    BY DEF scanning
  <1>2. /\ size' = size /\ TeX' = TeX /\ Oddities' = Oddities /\ Expected' = Expected
    BY <1>1, SameText
  <1>3. ScanTypes' /\ (ScanStands <=> ScanStands')
    <2>1. Stands(i, line) <=> Stands(i, line)'
      BY <1>1, <1>2 DEF Stands, Place, Times
    <2>2. QED BY <1>1, <1>2, <2>1 DEF ScanInv, ScanTypes, ScanStands
  <1>4. LinesRight'
    BY <1>1, <1>2 DEF ScanInv, LinesRight, Newlines
  <1>5. Reported'
    <2>1. Knows(i, math, envs)' <=> Knows(i, math, envs)
      BY <1>1, <1>2 DEF Knows, Place
    <2>2. Wrong(i)' = Wrong(i) /\ Places(problems)' = Places(problems)
      BY <1>1, WrongOn DEF Places
    <2>3. QED BY <1>1, <1>2, <2>1, <2>2 DEF ScanInv, Reported
  <1>6. QED BY <1>3, <1>4, <1>5 DEF ScanInv

\* At the end of the file the whole of it has been told.
LEMMA WrongAtTheEnd ==
  ASSUME size \in Nat, NEW j \in Nat, j > size
  PROVE  Expected = Wrong(j) \cup (IF InTextMode(TeX[size + 1]) THEN {}
                                   ELSE {[at |-> size + 1, what |-> "unbalanced"]})
  <1> DEFINE Specials == {q \in 1..size : src[q] = "underscore" /\ StopsAt(TeX[q])}
             Ticks == {q \in 1..(size - 1) : /\ src[q] = "tick" /\ src[q + 1] \in Words
                                             /\ TeX[q].in = "copy" /\ ~TeX[q].tick}
  <1>1. \A q \in 1..size : q \in 1..(j - 1)
    OBVIOUS
  <1>2. \A q \in 1..(size - 1) : q \in 1..(j - 1)
    OBVIOUS
  <1>3. Specials = {q \in 1..(j - 1) : SpecialAt(q)}
    BY <1>1 DEF SpecialAt, StopsAt
  <1>4. Ticks = {q \in 1..(j - 1) : BacktickAt(q)}
    BY <1>2 DEF BacktickAt
  <1> HIDE DEF Specials, Ticks
  <1>5. Wrong(j) = {[at |-> p, what |-> "special"] : p \in Specials} \cup {[at |-> p, what |-> "backtick"] : p \in Ticks}
    BY <1>3, <1>4 DEF Wrong
  <1>6. QED BY <1>5 DEF Expected, Specials, Ticks

LEMMA TextEndsWell ==
  ASSUME ScanInv, src' = src, ~scanned, scanned' = TRUE, i > size,
         problems' = problems \cup (IF math = 1 \/ envs > 0
                                    THEN {[at |-> size + 1, line |-> 0, what |-> "unbalanced"]} ELSE {})
  PROVE  ScanInv'
  <1>1. /\ Oddities' = Oddities /\ Expected' = Expected /\ src \in Seq(STRING)
        /\ Oddities \subseteq Harmless => Clean
        /\ Oddities = {} => Oddities \subseteq Harmless
    BY SameText DEF ScanInv, ScanTypes, Clean
  <1>2. ScanTypes' /\ ScanStands'
    BY DEF ScanInv, ScanTypes, ScanStands
  <1>3. LinesRight'
    <2> SUFFICES ASSUME Oddities' \subseteq Harmless, NEW p \in problems', p.line > 0
                 PROVE  p.line = 1 + Newlines(1, p.at - 1)'
      BY DEF LinesRight, Harmless
    <2>1. Newlines(1, p.at - 1)' = Newlines(1, p.at - 1)
      BY DEF Newlines
    <2>2. p \in problems
      OBVIOUS
    <2>3. QED BY <1>1, <2>1, <2>2 DEF ScanInv, LinesRight
  <1>4. Reported'
    <2> SUFFICES ASSUME Oddities = {} PROVE Places(problems') = Expected
      BY <1>1 DEF Reported, Places
    <2>1. Clean /\ Knows(i, math, envs) /\ Places(problems) = Wrong(i)
      BY <1>1 DEF ScanInv, Reported
    <2>2. size \in Nat /\ i \in Nat
      <3>1. i \in 1..(size + 2)
        BY <1>1 DEF ScanInv, ScanStands, Stands
      <3>2. size \in Nat
        BY <1>1, TeXRuns
      <3>3. QED BY <3>1, <3>2
    <2>3. Place(i) = size + 1
      <3>1. i = size + 1 \/ ~(i <= size + 1)
        BY <2>2
      <3>2. QED BY <3>1 DEF Place
    <2>4. math = 1 \/ envs > 0 <=> ~InTextMode(TeX[size + 1])
      <3>1. TeX[size + 1].envs \in Nat
        <4>1. size + 1 \in 1..(size + 1)
          BY <2>2
        <4>2. Formed(TeX[size + 1])
          BY <1>1, <4>1, TeXRuns
        <4>3. QED BY <4>2, ReadingFields DEF Formed
      <3>2. math = (IF TeX[size + 1].mode = "text" THEN 0 ELSE 1) /\ envs = TeX[size + 1].envs
        BY <2>1, <2>3 DEF Knows
      <3>3. QED BY <3>1, <3>2 DEF InTextMode
    <2>5. Places(problems') = Places(problems) \cup (IF math = 1 \/ envs > 0
                                                     THEN {[at |-> size + 1, what |-> "unbalanced"]} ELSE {})
      <3> DEFINE R == IF math = 1 \/ envs > 0
                      THEN {[at |-> size + 1, line |-> 0, what |-> "unbalanced"]} ELSE {}
      <3>1. Places(problems \cup R) = Places(problems) \cup Places(R)
        BY PlacesAdd
      <3>2. Places(R) = IF math = 1 \/ envs > 0 THEN {[at |-> size + 1, what |-> "unbalanced"]} ELSE {}
        BY PlacesOne
      <3>3. problems' = problems \cup R
        OBVIOUS
      <3> HIDE DEF R
      <3>4. QED BY <3>1, <3>2, <3>3
    <2>6. Expected = Wrong(i) \cup (IF InTextMode(TeX[size + 1]) THEN {}
                                    ELSE {[at |-> size + 1, what |-> "unbalanced"]})
      BY <2>2, WrongAtTheEnd
    <2>7. QED BY <2>1, <2>4, <2>5, <2>6
  <1>5. QED BY <1>2, <1>3, <1>4 DEF ScanInv

LEMMA ScanSteps == ScanInv /\ [ScanNext]_scanning => ScanInv'
  <1> SUFFICES ASSUME ScanInv, [ScanNext]_scanning PROVE ScanInv'
    OBVIOUS
  <1>1. src' = src
    BY DEF ScanNext, scanning, Newline, Percent, Escape, Environment, Name, Command, Dollar, Special, Backtick, Other, TextEnds
  <1>2. ASSUME Clean, ~scanned PROVE Stands(i, line)
    BY <1>2 DEF ScanInv, ScanStands, Clean
  <1>3. ASSUME Clean, ~scanned, i <= size
        PROVE  /\ i \in 1..size /\ i \in Nat /\ i >= 1 /\ size \in Nat /\ Place(i) = i
               /\ i \in i..(i + 1 - 1) /\ \A p \in i..(i + 1 - 1) : p = i
    <2>1. i \in 1..size /\ i \in Nat /\ size \in Nat /\ Place(i) = i
      BY <1>2, <1>3, StandsIn
    <2>2. QED BY <2>1
  <1>4. CASE Newline
    <2>1. Facing("nl") /\ ~scanned /\ i <= size /\ i' = i + 1 /\ line' = line + 1
          /\ math' = math /\ envs' = envs /\ problems' = problems /\ scanned' = scanned
      BY <1>4 DEF Newline, Facing, Count
    <2>2. ASSUME Clean
          PROVE  /\ Stands(i', line') /\ i \in Nat /\ i >= 1 /\ i' \in Nat /\ i < i' /\ Silent(i, i' - 1)
                 /\ Oddities = {} /\ Knows(i, math, envs) => Knows(i', math', envs')
      <3>1. /\ Stands(i + 1, line + 1) /\ ~SpecialAt(i) /\ ~BacktickAt(i)
            /\ Oddities = {} /\ Knows(i, math, envs) => Knows(i + 1, math, envs)
        BY <1>2, <2>1, <2>2, NewlineMoves
      <3>2. Silent(i, i + 1 - 1)
        BY <1>3, <2>1, <2>2, <3>1 DEF Silent
      <3>3. QED BY <1>3, <2>1, <2>2, <3>1, <3>2
    <2>3. QED BY <1>1, <2>1, <2>2, AdvancesSilently
  <1>5. CASE Percent
    <2> DEFINE k == IF FirstOf("nl", i) = 0 THEN size + 1 ELSE FirstOf("nl", i)
    <2>1. Facing("percent") /\ ~scanned /\ i <= size /\ i' = k /\ line' = line
          /\ math' = math /\ envs' = envs /\ problems' = problems /\ scanned' = scanned
      BY <1>5 DEF Percent, Facing
    <2>2. ASSUME Clean
          PROVE  /\ Stands(i', line') /\ i \in Nat /\ i >= 1 /\ i' \in Nat /\ i < i' /\ Silent(i, i' - 1)
                 /\ Oddities = {} /\ Knows(i, math, envs) => Knows(i', math', envs')
      <3>1. /\ k \in Nat /\ i < k /\ Stands(k, line) /\ Silent(i, k - 1)
            /\ Oddities = {} /\ Knows(i, math, envs) => Knows(k, math, envs)
        BY <1>2, <2>1, <2>2, PercentMoves
      <3> HIDE DEF k
      <3>2. QED BY <1>3, <2>1, <2>2, <3>1
    <2>3. QED BY <1>1, <2>1, <2>2, AdvancesSilently
  <1>6. CASE Escape
    <2> DEFINE m == CASE i < size /\ src[i + 1] = "lbracket" -> 1
                      [] i < size /\ src[i + 1] = "rbracket" -> 0
                      [] OTHER -> math
    <2>1. Facing("backslash") /\ word = "none" /\ ~scanned /\ i <= size /\ i' = i + 2 /\ line' = line
          /\ math' = m /\ envs' = envs /\ problems' = problems /\ scanned' = scanned
      BY <1>6 DEF Escape, Facing
    <2>2. ASSUME Clean
          PROVE  /\ Stands(i', line') /\ i \in Nat /\ i >= 1 /\ i' \in Nat /\ i < i' /\ Silent(i, i' - 1)
                 /\ Oddities = {} /\ Knows(i, math, envs) => Knows(i', math', envs')
      <3>1. /\ Stands(i + 2, line) /\ Silent(i, i + 1)
            /\ Oddities = {} /\ Knows(i, math, envs) => Knows(i + 2, m, envs)
        BY <1>2, <2>1, <2>2, EscapeMoves
      <3> HIDE DEF m
      <3>2. i + 2 - 1 = i + 1 /\ i + 2 \in Nat /\ i < i + 2 /\ i \in Nat /\ i >= 1
        BY <1>3, <2>1, <2>2
      <3>3. QED BY <2>1, <2>2, <3>1, <3>2
    <2>3. QED BY <1>1, <2>1, <2>2, AdvancesSilently
  <1>7. CASE Environment
    <2> DEFINE k == FirstOf("lbrace", i + 2)
               e == FirstOf("rbrace", k)
               env == SubSeq(src, k + 1, (IF e = 0 THEN size ELSE e) - 1)
               open == IF env \notin MATH_ENVS THEN envs
                       ELSE IF word = "begin" THEN envs + 1
                       ELSE IF envs > 0 THEN envs - 1 ELSE 0
    <2>1. Facing("backslash") /\ word \in {"begin", "end"} /\ ~scanned /\ i <= size /\ i' = e + 1 /\ line' = line
          /\ math' = math /\ envs' = open /\ problems' = problems /\ scanned' = scanned
      BY <1>7 DEF Environment, Facing, IsEnvironment
    <2>2. ASSUME Clean
          PROVE  /\ Stands(i', line') /\ i \in Nat /\ i >= 1 /\ i' \in Nat /\ i < i' /\ Silent(i, i' - 1)
                 /\ Oddities = {} /\ Knows(i, math, envs) => Knows(i', math', envs')
      <3>1. /\ e \in i..size /\ Stands(e + 1, line) /\ Silent(i, e)
            /\ Oddities = {} /\ Knows(i, math, envs) =>
                 Knows(e + 1, math, IF SubSeq(src, k + 1, e - 1) \notin MATH_ENVS THEN envs
                                    ELSE IF word = "begin" THEN envs + 1
                                    ELSE IF envs > 0 THEN envs - 1 ELSE 0)
        BY <1>2, <2>1, <2>2, EnvironmentMoves
      <3> HIDE DEF e, k
      <3>2. e \in Nat /\ e # 0 /\ e + 1 - 1 = e /\ e + 1 \in Nat /\ i < e + 1 /\ i \in Nat /\ i >= 1
        BY <1>3, <2>1, <2>2, <3>1
      <3>3. QED BY <2>1, <2>2, <3>1, <3>2
    <2>3. QED BY <1>1, <2>1, <2>2, AdvancesSilently
  <1>8. CASE Name
    <2>1. Facing("backslash") /\ word = "cite" /\ TakesName /\ ~scanned /\ i <= size /\ i' = ArgumentEnd + 1 /\ line' = line + NameLines
          /\ math' = math /\ envs' = envs /\ problems' = problems /\ scanned' = scanned
      BY <1>8 DEF Name, Facing, TakesName, NAME_ARG_CMDS, Count
    <2>2. ASSUME Clean
          PROVE  /\ Stands(i', line') /\ i \in Nat /\ i >= 1 /\ i' \in Nat /\ i < i' /\ Silent(i, i' - 1)
                 /\ Oddities = {} /\ Knows(i, math, envs) => Knows(i', math', envs')
      <3>1. /\ ArgumentEnd \in i..size /\ Stands(ArgumentEnd + 1, line + NameLines) /\ Silent(i, ArgumentEnd)
            /\ Oddities = {} /\ Knows(i, math, envs) => Knows(ArgumentEnd + 1, math, envs)
        <4>1. ~(i + 2 <= size /\ src[i + 2] = "lbracket")
          BY <1>2, <2>1, <2>2, OptionBegins
        <4>2. QED BY <1>2, <2>1, <2>2, <4>1, NameMoves
      <3>2. /\ ArgumentEnd + 1 - 1 = ArgumentEnd /\ ArgumentEnd + 1 \in Nat /\ i < ArgumentEnd + 1
            /\ i \in Nat /\ i >= 1
        BY <1>3, <2>1, <2>2, <3>1
      <3>3. QED BY <2>1, <2>2, <3>1, <3>2
    <2>3. QED BY <1>1, <2>1, <2>2, AdvancesSilently
  <1>9. CASE Command
    <2>1. Facing("backslash") /\ word # "none" /\ ~IsEnvironment /\ ~TakesName /\ ~scanned /\ i <= size /\ i' = i + 2
          /\ math' = math /\ envs' = envs /\ problems' = problems /\ scanned' = scanned
          /\ line' = line + (IF word \in NAME_ARG_CMDS THEN Newlines(i + 2, Brace - 1) ELSE 0)
      BY <1>9 DEF Command, Facing, Count
    <2>2. ASSUME Clean
          PROVE  /\ Stands(i', line') /\ i \in Nat /\ i >= 1 /\ i' \in Nat /\ i < i' /\ Silent(i, i' - 1)
                 /\ Oddities = {} /\ Knows(i, math, envs) => Knows(i', math', envs')
      <3>1. word \in {"text", "equation", "word", "cite"} /\ i < size /\ src[i + 1] = word /\ line \in Nat
        <4>1. word \in Words /\ i < size /\ src[i + 1] = word
          BY <1>2, <2>1, <2>2, WordIs
        <4>2. word \notin {"begin", "end"}
          BY <1>2, <2>1, <2>2, EnvironmentMoves
        <4>3. line \in Nat
          BY <1>2, <2>1, <2>2, StandsIn
        <4>4. QED BY <4>1, <4>2, <4>3 DEF Words
      <3>2. /\ line' = line /\ Stands(i + 2, line) /\ Silent(i, i + 1)
            /\ Oddities = {} /\ Knows(i, math, envs) => Knows(i + 2, math, envs)
        <4>1. CASE word = "cite"
          <5>1. i + 2 <= size /\ src[i + 2] = "lbracket"
            BY <1>2, <2>1, <2>2, <4>1, NameMoves
          <5>2. /\ Newlines(i + 2, Brace - 1) = 0 /\ Stands(i + 2, line) /\ Silent(i, i + 1)
                /\ Oddities = {} /\ Knows(i, math, envs) => Knows(i + 2, math, envs)
            BY <1>2, <2>1, <2>2, <4>1, <5>1, OptionBegins
          <5>3. QED BY <2>1, <3>1, <5>2
        <4>2. CASE word \in {"text", "equation", "word"}
          <5>1. word \notin NAME_ARG_CMDS /\ line' = line
            <6>1. word \notin NAME_ARG_CMDS
              BY <4>2 DEF NAME_ARG_CMDS
            <6>2. QED BY <2>1, <3>1, <6>1
          <5>2. math = CASE i < size /\ src[i + 1] = "lbracket" -> 1
                         [] i < size /\ src[i + 1] = "rbracket" -> 0
                         [] OTHER -> math
            BY <3>1, <4>2
          <5>3. /\ Stands(i + 2, line) /\ Silent(i, i + 1)
                /\ Oddities = {} /\ Knows(i, math, envs) => Knows(i + 2, math, envs)
            BY <1>2, <2>1, <2>2, <4>2, <5>2, EscapeMoves
          <5>4. QED BY <5>1, <5>3
        <4>3. QED BY <3>1, <4>1, <4>2
      <3>5. i + 2 - 1 = i + 1 /\ i + 2 \in Nat /\ i < i + 2 /\ i \in Nat /\ i >= 1
        BY <1>3, <2>1, <2>2
      <3>6. QED BY <2>1, <2>2, <3>2, <3>5
    <2>3. QED BY <1>1, <2>1, <2>2, AdvancesSilently
  <1>10. CASE Dollar
    <2>1. Facing("dollar") /\ ~scanned /\ i <= size /\ i' = i + 1 /\ line' = line
          /\ math' = 1 - math /\ envs' = envs /\ problems' = problems /\ scanned' = scanned
      BY <1>10 DEF Dollar, Facing
    <2>2. ASSUME Clean
          PROVE  /\ Stands(i', line') /\ i \in Nat /\ i >= 1 /\ i' \in Nat /\ i < i' /\ Silent(i, i' - 1)
                 /\ Oddities = {} /\ Knows(i, math, envs) => Knows(i', math', envs')
      <3>1. /\ Stands(i + 1, line) /\ ~SpecialAt(i) /\ ~BacktickAt(i)
            /\ Oddities = {} /\ Knows(i, math, envs) => Knows(i + 1, 1 - math, envs)
        BY <1>2, <2>1, <2>2, DollarMoves
      <3>2. Silent(i, i + 1 - 1)
        BY <1>3, <2>1, <2>2, <3>1 DEF Silent
      <3>3. QED BY <1>3, <2>1, <2>2, <3>1, <3>2
    <2>3. QED BY <1>1, <2>1, <2>2, AdvancesSilently
  <1>11. CASE Other
    <2>1. src[i] \in Words \cup {"lbrace", "rbrace", "lbracket", "rbracket", "space"} /\ ~scanned /\ i <= size
          /\ i' = i + 1 /\ line' = line /\ math' = math /\ envs' = envs /\ problems' = problems /\ scanned' = scanned
      BY <1>11 DEF Other, Facing
    <2>2. src[i] \notin {"nl", "percent", "backslash", "dollar", "tick"} /\ src[i] # "underscore"
      BY <2>1 DEF Words
    <2>3. ASSUME Clean
          PROVE  /\ Stands(i', line') /\ i \in Nat /\ i >= 1 /\ i' \in Nat /\ i < i' /\ Silent(i, i' - 1)
                 /\ Oddities = {} /\ Knows(i, math, envs) => Knows(i', math', envs')
      <3>1. /\ Stands(i + 1, line) /\ ~SpecialAt(i) /\ ~BacktickAt(i)
            /\ Oddities = {} /\ Knows(i, math, envs) => Knows(i + 1, math, envs)
        BY <1>2, <2>1, <2>2, <2>3, PlainMoves DEF SpecialAt
      <3>2. Silent(i, i + 1 - 1)
        BY <1>3, <2>1, <2>3, <3>1 DEF Silent
      <3>3. QED BY <1>3, <2>1, <2>3, <3>1, <3>2
    <2>4. QED BY <1>1, <2>1, <2>3, AdvancesSilently
  <1>12. CASE Special
    <2> DEFINE R == IF math = 0 /\ envs = 0 THEN {[at |-> i, line |-> line, what |-> "special"]} ELSE {}
    <2>1. src[i] = "underscore" /\ ~scanned /\ i <= size
          /\ i' = i + 1 /\ line' = line /\ math' = math /\ envs' = envs /\ problems' = problems \cup R /\ scanned' = scanned
      BY <1>12 DEF Special, Facing, Report
    <2>2. \A r \in R : i <= size /\ r.line = line /\ r.at = i
      BY <2>1
    <2>3. Places(R) = IF math = 0 /\ envs = 0 THEN {[at |-> i, what |-> "special"]} ELSE {}
      BY PlacesOne
    <2> HIDE DEF R
    <2>4. ASSUME Clean
          PROVE  /\ Stands(i', line')
                 /\ Oddities = {} /\ Knows(i, math, envs) =>
                      Knows(i', math', envs') /\ Wrong(i') = Wrong(i) \cup Places(R)
      <3>1. /\ Stands(i + 1, line) /\ ~BacktickAt(i)
            /\ Oddities = {} /\ Knows(i, math, envs) => Knows(i + 1, math, envs)
        BY <1>2, <2>1, <2>4, PlainMoves
      <3>2. ASSUME Oddities = {}, Knows(i, math, envs) PROVE SpecialAt(i) <=> math = 0 /\ envs = 0
        <4>1. i \in 1..size /\ Place(i) = i /\ TeX[i].in = "copy"
          BY <1>2, <1>3, <2>1, <2>4 DEF Stands
        <4>2. TeX[i].option # "text"
          BY <2>1, <2>4, <3>2, <4>1, CopyAt
        <4>3. QED BY <2>1, <3>2, <4>1, <4>2 DEF Knows, SpecialAt, InTextMode
      <3>3. Wrong(i + 1) = Wrong(i) \cup (IF SpecialAt(i) THEN {[at |-> i, what |-> "special"]} ELSE {})
                                    \cup (IF BacktickAt(i) THEN {[at |-> i, what |-> "backtick"]} ELSE {})
        <4>1. i \in Nat /\ i >= 1 /\ i + 1 \in Nat /\ i < i + 1
          BY <1>3, <2>1, <2>4
        <4>2. Silent(i + 1, i + 1 - 1)
          BY <4>1 DEF Silent
        <4>3. QED BY <4>1, <4>2, WrongAdds
      <3>4. QED BY <2>1, <2>3, <3>1, <3>2, <3>3
    <2>5. QED BY <1>1, <2>1, <2>2, <2>4, Advances
  <1>13. CASE Backtick
    <2> DEFINE R == IF i < size /\ src[i + 1] \in Words THEN {[at |-> i, line |-> line, what |-> "backtick"]} ELSE {}
               k == IF i < size /\ src[i + 1] = "tick" THEN i + 2 ELSE i + 1
    <2>1. Facing("tick") /\ ~scanned /\ i <= size
          /\ i' = k /\ line' = line /\ math' = math /\ envs' = envs /\ problems' = problems \cup R /\ scanned' = scanned
      BY <1>13 DEF Backtick, Facing, Report
    <2>2. \A r \in R : i <= size /\ r.line = line /\ r.at = i
      BY <2>1
    <2>3. Places(R) = IF i < size /\ src[i + 1] \in Words THEN {[at |-> i, what |-> "backtick"]} ELSE {}
      BY PlacesOne
    <2> HIDE DEF R
    <2>4. ASSUME Clean
          PROVE  /\ Stands(i', line')
                 /\ Oddities = {} /\ Knows(i, math, envs) =>
                      Knows(i', math', envs') /\ Wrong(i') = Wrong(i) \cup Places(R)
      <3>1. /\ Stands(k, line) /\ ~SpecialAt(i) /\ (BacktickAt(i) <=> i < size /\ src[i + 1] \in Words)
            /\ Silent(i + 1, k - 1)
            /\ Oddities = {} /\ Knows(i, math, envs) => Knows(k, math, envs)
        BY <1>2, <2>1, <2>4, BacktickMoves
      <3>2. Wrong(k) = Wrong(i) \cup (IF SpecialAt(i) THEN {[at |-> i, what |-> "special"]} ELSE {})
                                \cup (IF BacktickAt(i) THEN {[at |-> i, what |-> "backtick"]} ELSE {})
        <4>1. i \in Nat /\ i >= 1 /\ k \in Nat /\ i < k
          BY <1>3, <2>1, <2>4
        <4> HIDE DEF k
        <4>2. QED BY <3>1, <4>1, WrongAdds
      <3> HIDE DEF k
      <3>3. QED BY <2>1, <2>3, <3>1, <3>2
    <2>5. QED BY <1>1, <2>1, <2>2, <2>4, Advances
  <1>14. CASE TextEnds
    <2>1. /\ ~scanned /\ i > size /\ scanned' = TRUE
          /\ problems' = problems \cup (IF math = 1 \/ envs > 0
                                        THEN {[at |-> size + 1, line |-> 0, what |-> "unbalanced"]} ELSE {})
      BY <1>14 DEF TextEnds
    <2>2. QED BY <1>1, <2>1, TextEndsWell
  <1>15. CASE UNCHANGED scanning
    <2>1. QED BY <1>15, ScanStutters
  <1>16. QED BY <1>4, <1>5, <1>6, <1>7, <1>8, <1>9, <1>10, <1>11, <1>12, <1>13, <1>14, <1>15 DEF ScanNext

LEMMA ScanInvariance == ScanSpec => []ScanInv
  BY ScanBegins, ScanSteps, PTL DEF ScanSpec

\* text_mode_specials reports, of a file without the oddities above, exactly what TeX stops at:
\* every "_" and "^" outside mathematics and every single backtick before a word, and
\* an equation that the file leaves open. For files of any length; a "_" in the text of a
\* formula, where TeX stops and the scanner says nothing, is one of the oddities.
THEOREM SpecialsHold == ScanSpec => []SpecialsAreReported
  <1>1. ScanInv => SpecialsAreReported
    BY DEF ScanInv, Reported, SpecialsAreReported
  <1>2. QED BY <1>1, ScanInvariance, PTL

\* A problem's line is the line it is on, whatever the scanner jumped over to get there.
THEOREM LinesHold == ScanSpec => []LineIsRight
  <1>1. ScanInv => LineIsRight
    BY DEF ScanInv, LinesRight, LineIsRight, Harmless
  <1>2. QED BY <1>1, ScanInvariance, PTL

\* What lean-coverage.py says of the TeX, of any blueprint and of files of any length:
\* SpecialsHold, LinesHold and ReferencesHold together, under the premises each of them names.
THEOREM TexProblemsHold == ScanSpec /\ ReferencesSpec => []TexProblemsAreRight
  BY SpecialsHold, LinesHold, ReferencesHold, PTL DEF TexProblemsAreRight
=============================================================================
