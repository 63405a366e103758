--------------------------- MODULE MCBlueprintEdges ---------------------------
(***************************************************************************)
(* TLC instance of BlueprintGraph: the audit, the walk its edges come from *)
(* and the search for cycles.  Either the script audits and rewrites three     *)
(* nodes with a constant each, for families of uses in Lean and in the     *)
(* blueprint; or it walks for node A, where B and C share a constant and b *)
(* belongs to nobody, through graphs of uses with every cycle; or it looks *)
(* for the cycles of any graph of three nodes.                             *)
(***************************************************************************)
EXTENDS BlueprintGraph, TLC

CONSTANTS A, B, C, a, b, c

VARIABLE looked

walk == <<theorems, owner, alias, label, starts, stmtOnly, found, seen, toVisit>>

\* The same, if c is a constant of Mathlib's, which the dump does not have.
Mathlib == INSTANCE BlueprintEdges WITH Dumped <- Decls \ {c}

OneEach == A :> {a} @@ B :> {b} @@ C :> {c}
Itself == [d \in Decls |-> d]

-----------------------------------------------------------------------------
Graphs ==
  /\ types \in {[[d \in Decls |-> {}] EXCEPT ![a] = t] : t \in {{}, {b}}}
  /\ values \in {a :> v @@ b :> w @@ c :> u :
                   v \in SUBSET {b, c}, w \in {{}, {c}, {a}}, u \in {{}, {b}}}
  /\ types[a] = {} \/ values[c] = {}

Citations ==
  /\ stmtUses \in {A :> u @@ B :> v @@ C :> w :
                     u \in {{}, {B}, {C}}, v \in {{}, {C}}, w \in {{}, {B}}}
  /\ proofUses \in {A :> u @@ B :> {} @@ C :> {} : u \in {{}, {B}}}

\* C is a definition; B is proved, or has an unfinished proof, or none.
AuditInit ==
  /\ Graphs /\ Citations
  /\ stated \in {Nodes, Nodes \ {C}}
  /\ \E p \in {<<{A, B}, {A, B}>>, <<{A, B}, {A}>>, <<{A}, {A}>>} :
       hasProof = p[1] /\ proofOk = p[2]
  /\ Begin /\ cur = A

\* The scripts' parts that are not looked at.
WalkIdle ==
  /\ theorems = Theorems /\ owner = Owner /\ alias = Alias /\ label = A /\ starts = {} /\ stmtOnly = TRUE
  /\ W!Begin
SearchIdle == edges = [l \in Nodes |-> {}] /\ SearchBegin
AuditIdle ==
  /\ stmtUses = [l \in Nodes |-> {}] /\ proofUses = stmtUses
  /\ stated = {} /\ hasProof = {} /\ proofOk = {}
  /\ Begin /\ cur = A

WalkInit ==
  /\ types \in [Decls -> {{}, {b}}]
  /\ values \in [Decls -> {{}, {c}, {b}, {a, b}}]
  /\ theorems = Theorems /\ owner = (a :> {A} @@ b :> {} @@ c :> {B, C})
  /\ alias \in {Itself, [Itself EXCEPT ![b] = c]}
  /\ label = A /\ starts \in {{a}, {a, b}} /\ stmtOnly \in BOOLEAN
  /\ W!Begin

MCInit ==
  \/ looked = "audit" /\ AuditInit /\ WalkIdle /\ SearchIdle
  \/ looked = "walk" /\ WalkInit /\ AuditIdle /\ SearchIdle
  \/ looked = "cycles" /\ SearchInit /\ AuditIdle /\ WalkIdle /\ types = [d \in Decls |-> {}] /\ values = types

AuditNext ==
  /\ looked = "audit" /\ UNCHANGED <<looked, walk, search>>
  /\ \/ Next
     \/ types[c] = {} /\ values[c] = {} /\ Mathlib!KeyError
WalkNext ==
  looked = "walk" /\ W!Next
    /\ UNCHANGED <<looked, search, marks, stmtUses, proofUses, pc, work, groups, fromTypes>>
CyclesNext == looked = "cycles" /\ SearchNext /\ UNCHANGED <<looked, walk, vars>>

MCNext == AuditNext \/ WalkNext \/ CyclesNext

MCSpec == MCInit /\ [][MCNext]_<<looked, vars, walk, search>>

=============================================================================
