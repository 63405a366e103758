------------------------------- MODULE LeanDead -------------------------------
(***************************************************************************)
(* scripts/lean-dead.py: which declarations can be deleted, from the       *)
(* usages Lean recorded in its .ilean files.  The script's inputs do not   *)
(* change while it runs; what moves is the loop that grows the dead set    *)
(* pass by pass until a pass adds nothing.                                 *)
(*                                                                         *)
(* A name is the sequence of its components.  Names written in the scanned *)
(* files, their kinds, attributes, tags and guards are reduced to who is   *)
(* exempt; parsing is left out.                                            *)
(***************************************************************************)
EXTENDS Integers, Sequences, FiniteSets

CONSTANTS
  Component,   \* what names are made of
  Order,       \* the scanned declarations' names, in the order of the files
  None         \* a usage outside every declaration

Names == {Order[i] : i \in 1..Len(Order)}

ASSUME DeadAssumption == Order \in Seq(Seq(Component) \ {<<>>})

VARIABLES
  exempt,    \* names of instances, attributed, tagged, guarded or repeated
             \* declarations, of other kinds, or missing from the index
  macros,    \* the identifiers in the bodies of macro-like commands
  unscanned, \* the declarations that the script does not see: without a name, like most
             \* instances, indented, vendored, or outside the given path prefixes
  usages,    \* usages[n]: the declarations enclosing the usages of n
  dead,      \* the set that is growing
  changed,   \* this pass has added something
  i,         \* the position of the pass
  pc         \* "pass" or "done"

input == <<exempt, macros, unscanned, usages>>
vars == <<input, dead, changed, i, pc>>

(***************************************************************************)
(* A usage inside an auxiliary declaration, such as foo.eq_1, belongs to   *)
(* the declared name it extends, the longest one that was scanned.         *)
(***************************************************************************)
PrefixLengths(enc, S) == {j \in 1..Len(enc) : SubSeq(enc, 1, j) \in S}

Longest(enc, S) ==
  IF enc = None \/ PrefixLengths(enc, S) = {} THEN enc
  ELSE SubSeq(enc, 1, CHOOSE j \in PrefixLengths(enc, S) : \A k \in PrefixLengths(enc, S) : k <= j)

Parent(enc) == Longest(enc, Names)

Users(n) == {Parent(enc) : enc \in usages[n]}

(***************************************************************************)
(* A macro names a declaration by any dotted suffix of an identifier in    *)
(* its body.  The script compares these with the suffixes of the           *)
(* declaration's name, its first component always left out.                *)
(***************************************************************************)
DottedSuffixes(t, from) == {SubSeq(t, k, Len(t)) : k \in from..Len(t)}
IdentifiersOnly == macros   \* mutant: no suffixes
MacroNames == UNION {DottedSuffixes(t, 1) : t \in macros}

InMacrosInFull(n) == n \in MacroNames   \* mutant: whole names only
InMacros(n) == DottedSuffixes(n, 2) \cap MacroNames # {}

Candidates == {n \in Names : n \notin exempt /\ ~InMacros(n)}

(***************************************************************************)
(* The loop.                                                               *)
(***************************************************************************)
UsedByCandidates(n) ==   \* mutant: a candidate counts as dead
  Users(n) \subseteq Candidates \cup {n}
UsedByDead(n) == Users(n) \subseteq dead   \* mutant: recursion keeps a name alive
Unused(n) == Users(n) \subseteq dead \cup {n}

Mark ==
  /\ pc = "pass" /\ i <= Len(Order)
  /\ Order[i] \in Candidates \ dead /\ Unused(Order[i])
  /\ dead' = dead \cup {Order[i]}
  /\ changed' = TRUE
  /\ i' = i + 1
  /\ UNCHANGED <<input, pc>>

Skip ==
  /\ pc = "pass" /\ i <= Len(Order)
  /\ ~(Order[i] \in Candidates \ dead /\ Unused(Order[i]))
  /\ i' = i + 1
  /\ UNCHANGED <<input, dead, changed, pc>>

NextPassUnreset ==   \* mutant: changed is not reset
  /\ pc = "pass" /\ i > Len(Order) /\ changed
  /\ i' = 1
  /\ UNCHANGED <<input, dead, changed, pc>>

NextPass ==
  /\ pc = "pass" /\ i > Len(Order) /\ changed
  /\ i' = 1 /\ changed' = FALSE
  /\ UNCHANGED <<input, dead, pc>>

Finish ==
  /\ pc = "pass" /\ i > Len(Order) /\ ~changed
  /\ pc' = "done"
  /\ UNCHANGED <<input, dead, changed, i>>

-----------------------------------------------------------------------------
Loop == dead = {} /\ changed = FALSE /\ i = 1 /\ pc = "pass"

\* Any input: nothing is assumed of the usages.
Init ==
  /\ exempt \subseteq Names
  /\ macros \subseteq Seq(Component)
  /\ unscanned \subseteq Seq(Component) \ Names
  /\ usages \in [Names -> SUBSET ({None} \cup Seq(Component))]
  /\ Loop

Next == Mark \/ Skip \/ NextPass \/ Finish

Spec == Init /\ [][Next]_vars

-----------------------------------------------------------------------------
\* Every variable has its type, and only candidates are reported.
TypeOK ==
  /\ exempt \subseteq Names
  /\ macros \subseteq Seq(Component)
  /\ unscanned \subseteq Seq(Component) \ Names
  /\ usages \in [Names -> SUBSET ({None} \cup Seq(Component))]
  /\ dead \subseteq Candidates
  /\ changed \in BOOLEAN
  /\ i \in 1..(Len(Order) + 1)
  /\ pc \in {"pass", "done"}

\* The declaration a usage is really in.
Owner(enc) == Longest(enc, Names \cup unscanned)

\* "every recorded usage lies inside its own body or inside a declaration already found
\* dead".
UsagesAreDead == \A n \in dead : \A enc \in usages[n] : Owner(enc) \in dead \cup {n}

\* An unscanned declaration in the namespace of a candidate passes for a part of it.
Apart == \A u \in unscanned : PrefixLengths(u, Candidates) = {}

\* What Lean may make of an identifier: any of its namespaces may be open, or it is a
\* field of something, after a dot, or written from the root.
MayName(t, n) ==
  \/ t \in DottedSuffixes(n, 1)
  \/ DottedSuffixes(t, 2) \cap DottedSuffixes(n, 1) # {}

\* A declaration with a namespace that a macro may name is never reported.
QualifiedMacroUsesKept == \A n \in dead : Len(n) > 1 => \A t \in macros : ~MayName(t, n)

\* Deleting what has been found dead leaves no reference to it, at any moment: in Lean's
\* index, unless the script took the declaration it is in for a part of another (Apart),
\* or in a macro's body, which that index does not record, if it has a namespace, whatever
\* part of its name the macro writes.
NothingDangles == (Apart => UsagesAreDead) /\ QualifiedMacroUsesKept

\* The names the rule adds to a set S of dead ones.
Rule(S) == {n \in Candidates : Users(n) \subseteq S \cup {n}}

\* "Iterated to a fixpoint, so a definition whose only users were dead lemmas
\* is dead too": when the script stops the rule adds nothing more, and what
\* it found is forced, the least such set.  The order of the files and of the
\* passes does not matter.
LeastFixpoint ==
  /\ pc = "done" => Rule(dead) \subseteq dead
  /\ \A S \in SUBSET Names : Rule(S) \subseteq S => dead \subseteq S

\* The passes come to an end.
Terminates == <>(pc = "done")
=============================================================================
