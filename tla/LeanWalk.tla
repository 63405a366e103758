------------------------------- MODULE LeanWalk -------------------------------
(***************************************************************************)
(* The walk of scripts/blueprint-edges.py through Lean's constants: the    *)
(* inner function reach of lean_edges.  It starts from some constants, and *)
(* stops at a constant that another node of the blueprint lists.  closure, *)
(* its companion on the nodes, is the same walk where nothing stops it.    *)
(*                                                                         *)
(* The stack is a set here: popping in any order subsumes popping the last *)
(* entry, and an entry that is there twice is skipped the second time.     *)
(***************************************************************************)
EXTENDS Integers, FiniteSets

CONSTANTS
  Decls,    \* Lean's constants, those of the dump and those only mentioned
  Nodes     \* labels of the blueprint's graph

VARIABLES
  types,      \* "t" of the dump: the constants in a constant's statement
  values,     \* "v": those in its body or proof
  theorems,   \* the constants of kind "thm"
  owner,      \* owner[c]: the nodes that list c in \lean
  alias,      \* alias[c]: the constant that c stands for
  label,      \* the node whose uses are wanted
  starts,     \* where the walk starts
  stmtOnly,   \* statement_only
  found,      \* the groups of nodes met so far
  seen,       \* the constants visited so far
  stack       \* the constants still to visit

input == <<types, values, theorems, owner, alias, label, starts, stmtOnly>>
vars == <<input, found, seen, stack>>

Canonical(S) == {alias[c] : c \in S}

Foreign(c) == owner[c] # {} /\ label \notin owner[c]

NextOf(c) == types[c] \cup IF stmtOnly /\ c \in theorems THEN {} ELSE values[c]

Seen(s) ==
  /\ alias[s] \in seen
  /\ stack' = stack \ {s}
  /\ UNCHANGED <<input, found, seen>>

Stop(s) ==
  /\ alias[s] \notin seen /\ Foreign(alias[s])
  /\ found' = found \cup {owner[alias[s]]}
  /\ seen' = seen \cup {alias[s]}
  /\ stack' = stack \ {s}
  /\ UNCHANGED input

ExpandAll(s) ==   \* mutant: statement_only is ignored
  /\ alias[s] \notin seen /\ ~Foreign(alias[s])
  /\ seen' = seen \cup {alias[s]}
  /\ stack' = (stack \ {s}) \cup types[alias[s]] \cup values[alias[s]]
  /\ UNCHANGED <<input, found>>

Expand(s) ==
  /\ alias[s] \notin seen /\ ~Foreign(alias[s])
  /\ seen' = seen \cup {alias[s]}
  /\ stack' = (stack \ {s}) \cup NextOf(alias[s])
  /\ UNCHANGED <<input, found>>

-----------------------------------------------------------------------------
Begin == found = {} /\ seen = {} /\ stack = starts

Init ==
  /\ types \in [Decls -> SUBSET Decls]
  /\ values \in [Decls -> SUBSET Decls]
  /\ theorems \subseteq Decls
  /\ owner \in [Decls -> SUBSET Nodes]
  /\ alias \in [Decls -> Decls]
  /\ label \in Nodes
  /\ starts \subseteq Decls
  /\ stmtOnly \in BOOLEAN
  /\ Begin

Next == \E s \in stack : Seen(s) \/ Stop(s) \/ Expand(s)

Spec == Init /\ [][Next]_vars

-----------------------------------------------------------------------------
InputOK ==
  /\ types \in [Decls -> SUBSET Decls]
  /\ values \in [Decls -> SUBSET Decls]
  /\ theorems \subseteq Decls
  /\ owner \in [Decls -> SUBSET Nodes]
  /\ alias \in [Decls -> Decls]
  /\ label \in Nodes
  /\ starts \subseteq Decls
  /\ stmtOnly \in BOOLEAN

\* Every variable has its type, and the groups found are those of the visited
\* constants that belong to other nodes, each group whole.
TypeOK ==
  /\ InputOK
  /\ seen \subseteq Decls
  /\ stack \subseteq Decls
  /\ found = {owner[c] : c \in {d \in seen : Foreign(d)}}

\* S holds the starting points, and what its members use unless another node
\* owns them.
Closed(S) ==
  /\ Canonical(starts) \subseteq S
  /\ \A c \in S : ~Foreign(c) => Canonical(NextOf(c)) \subseteq S

\* "Node A uses node B in Lean when a declaration of A reaches a declaration
\* of B through constants that belong to no third node": when the stack is
\* empty the walk has seen exactly the least closed set, whatever cycles the
\* constants form and in whatever order they were popped.
WalkIsExact ==
  /\ stack = {} => Closed(seen)
  /\ \A S \in SUBSET Decls : Closed(S) => seen \subseteq S
=============================================================================
