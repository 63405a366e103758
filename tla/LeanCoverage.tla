------------------------------ MODULE LeanCoverage ------------------------------
(***************************************************************************)
(* The rest of scripts/lean-coverage.py: the Lean names that the blueprint *)
(* cites, the proofs that it claims against the axiom guards, and the      *)
(* snapshot that --check compares with and --refresh rewrites, while       *)
(* people work on the blueprint, the Lean files and the guards.            *)
(***************************************************************************)
EXTENDS Naturals, FiniteSets, FiniteSetsExt

CONSTANTS
  Names, Modules, None,
  VENDORED,     \* modules of vendored trees
  Statements    \* how many statements the chapter has

ASSUME StatementsAssumption == Statements \in Nat

VARIABLES
  chapter,   \* chapter[i]: statement i, its \lean tag and whether its proof is \leanok
  place,     \* place[n]: the module that declares n, or None
  guards,    \* the names in the axiom-guard files
  snapshot,  \* planning/lean-coverage.json, or None
  exit,      \* of the last run, "none" once somebody edited what it read
  passed     \* the names that the last passing --check accounted for (history)

covering == <<chapter, place, guards, snapshot, exit, passed>>

-----------------------------------------------------------------------------
(* What a run reads.                                                       *)

blueprint_names == UNION {chapter[i].lean : i \in 1..Statements}

index == {n \in Names : place[n] # None}

\* Of vendored trees no declaration counts.
per_module == [m \in Modules \ VENDORED |-> {n \in Names : place[n] = m}]

Marked == {i \in 1..Statements : chapter[i].leanok}

\* The names of the last \lean tag before the proof, whatever statement it belongs to.
FirstTag(i) ==   \* mutant
  LET tagged == {j \in 1..i : chapter[j].lean # {}}
  IN  IF tagged = {} THEN {} ELSE chapter[Min(tagged)].lean
LastTag(i) ==
  LET tagged == {j \in 1..i : chapter[j].lean # {}}
  IN  IF tagged = {} THEN {} ELSE chapter[Max(tagged)].lean

proof_level_leanok == UNION {LastTag(i) : i \in Marked}

\* In either direction.
leanok_guard_problems == (proof_level_leanok \ guards) \cup (guards \ proof_level_leanok)

covered_modules ==
  [m \in {m \in DOMAIN per_module : per_module[m] \cap blueprint_names # {}} |->
     per_module[m] \cap blueprint_names]

build ==
  [cited |-> blueprint_names,
   unresolved |-> blueprint_names \ index,
   problems |-> leanok_guard_problems,
   covered |-> covered_modules]

lost_mod(state, old) == DOMAIN old.covered \ DOMAIN state.covered

GoneAnywhere(state, old) ==   \* mutant
  {m \in DOMAIN old.covered \cap DOMAIN state.covered : old.covered[m] \cap state.cited = {}}
gone(state, old) ==
  {m \in DOMAIN old.covered \cap DOMAIN state.covered : ~(old.covered[m] \subseteq state.covered[m])}

check(state, old) ==
  /\ state.problems = {} /\ state.unresolved = {}
  /\ old.cited \subseteq state.cited
  /\ lost_mod(state, old) = {} /\ gone(state, old) = {}

-----------------------------------------------------------------------------
(* The runs.                                                               *)

\* "do this deliberately": it returns 0, whatever was lost.
Refresh ==
  /\ snapshot' = [cited |-> build.cited, covered |-> build.covered]
  /\ exit' = "refreshed" /\ UNCHANGED <<chapter, place, guards, passed>>

Check ==
  /\ IF snapshot # None /\ check(build, snapshot)
     THEN exit' = "passed" /\ passed' = build.cited
     ELSE exit' = "failed" /\ UNCHANGED passed
  /\ UNCHANGED <<chapter, place, guards, snapshot>>

report ==
  /\ exit' = (IF build.unresolved # {} \/ build.problems # {} THEN "failed" ELSE "reported")
  /\ UNCHANGED <<chapter, place, guards, snapshot, passed>>

-----------------------------------------------------------------------------
(* The work between them.                                                  *)

Retag ==
  /\ \E i \in 1..Statements, S \in SUBSET Names : chapter' = [chapter EXCEPT ![i].lean = S]
  /\ UNCHANGED <<place, guards>>

Mark ==
  /\ \E i \in 1..Statements : chapter' = [chapter EXCEPT ![i].leanok = ~@]
  /\ UNCHANGED <<place, guards>>

\* A declaration is written, moved, removed or renamed.
Move ==
  /\ \E n \in Names, m \in Modules \cup {None} : place' = [place EXCEPT ![n] = m]
  /\ UNCHANGED <<chapter, guards>>

Guard ==
  /\ \E n \in Names : guards' = (guards \ {n}) \cup ({n} \ guards)
  /\ UNCHANGED <<chapter, place>>

Edit == exit' = "none" /\ UNCHANGED <<snapshot, passed>> /\ (Retag \/ Mark \/ Move \/ Guard)

CoverageInit ==
  /\ chapter = [i \in 1..Statements |-> [lean |-> {}, leanok |-> FALSE]]
  /\ place = [n \in Names |-> None] /\ guards = {} /\ snapshot = None
  /\ exit = "none" /\ passed = {}

CoverageNext == Refresh \/ Check \/ report \/ Edit

CoverageSpec == CoverageInit /\ [][CoverageNext]_covering

-----------------------------------------------------------------------------
\* When --check passes, every declaration of a statement whose proof is marked \leanok
\* is guarded, and exists; and nothing is guarded that the blueprint does not cite at or
\* before a proof that it marks.
ClaimsAreGuarded ==
  exit = "passed" =>
    /\ \A i \in Marked : chapter[i].lean \subseteq guards \cap index
    /\ \A n \in guards : \E i \in 1..Statements, j \in Marked : i <= j /\ n \in chapter[i].lean

\* The only names that a passing --check may have accounted for, and the next one not
\* any more, are those that the snapshot did not hold: named since the last --refresh,
\* or let go by it.  The others still exist, in the module that had them.
LossesAreSeen ==
  [][exit' = "passed" /\ exit' # exit =>
       /\ \A n \in passed : n \notin blueprint_names => n \notin snapshot.cited
       /\ \A m \in DOMAIN snapshot.covered : \A n \in snapshot.covered[m] :
            place[n] = m /\ n \in blueprint_names]_covering

\* "Declarations whose *proof* the blueprint marks \leanok" (l. 357): the code attributes
\* a marked proof of a statement that has no \lean tag to the statement before it.
ClaimsAreMarked ==
  \A n \in proof_level_leanok : \E i \in Marked : n \in chapter[i].lean
=============================================================================
