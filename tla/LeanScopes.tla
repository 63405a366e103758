------------------------------- MODULE LeanScopes -------------------------------
(***************************************************************************)
(* How the scripts name the declarations of a Lean file: each reads it     *)
(* line by line with a stack of open scopes of its own.                    *)
(*                                                                         *)
(*   coverage  lean_declarations of scripts/lean-coverage.py               *)
(*   dead      declarations of scripts/lean-dead.py                        *)
(*   pairing   declarations of scripts/port-pairing.py                     *)
(*   clashes   private_def_names of scripts/modularize.py                  *)
(*                                                                         *)
(* Lean reads the same lines: it opens a scope for every component of the  *)
(* name of a namespace or a section, and `end A.B` closes two of them.     *)
(***************************************************************************)
EXTENDS Naturals, FiniteSets, SequencesExt

CONSTANTS
  Paths,      \* names of namespaces and sections: sequences of components
  Length      \* bound of the model: lines of a file

ASSUME PathsAssumption == \A path \in Paths : path \in Seq(STRING \ {""}) /\ path # <<>>

Readers == {"coverage", "dead", "pairing", "clashes"}

Sections == {"section", "noncomputable section", "public section"}

Decl == <<"x">>

VARIABLES
  scopes,    \* Lean's open scopes, the innermost last
  declared,  \* full names of the declarations Lean has read
  stack,     \* each reader's stack
  index,     \* each reader's full names
  seen,      \* what the file holds that some reader does not expect
  length

reading == <<scopes, declared, stack, index, seen, length>>

-----------------------------------------------------------------------------
(* Lean.                                                                   *)

Width(path) == IF path = <<>> THEN 1 ELSE Len(path)

Opened(kind, path) ==
  [k \in 1..Width(path) |->
     [kind |-> kind, name |-> IF path = <<>> THEN "" ELSE path[k], first |-> k = 1]]

Innermost(n) == SubSeq(scopes, Len(scopes) - n + 1, Len(scopes))

InMutual == scopes # <<>> /\ Last(scopes).kind = "mutual"

MayEnd(path) ==
  /\ Len(scopes) >= Width(path)
  /\ [k \in 1..Width(path) |-> Innermost(Width(path))[k].name]
       = (IF path = <<>> THEN <<"">> ELSE path)

InNamespace == \E k \in 1..Len(scopes) : scopes[k].kind = "namespace"

Namespaces(open) ==
  FlattenSeq([k \in 1..Len(open) |-> IF open[k].kind = "namespace" THEN <<open[k].name>> ELSE <<>>])

-----------------------------------------------------------------------------
(* The readers.                                                            *)

CoveragePushes == {"namespace"}
DeadPushes == {"namespace", "section"}
PairingPushesPlain == {"namespace", "section"}  \* mutant: no modifiers of a section
PairingPushes == {"namespace"} \cup Sections
ClashPushes == {"namespace", "section", "noncomputable section"}

Pushes(r) == CASE r = "coverage" -> CoveragePushes [] r = "dead" -> DeadPushes
               [] r = "pairing" -> PairingPushes [] r = "clashes" -> ClashPushes

Push(r, st, kind, path) ==
  IF kind \in Pushes(r) THEN Append(st, [kind |-> kind, path |-> path]) ELSE st

\* Only lean-coverage.py compares the name of an end.
CoverageEnds(st, path) == st # <<>> /\ path # <<>> /\ Last(st).path = path

Pop(r, st, path) ==
  IF IF r = "coverage" THEN CoverageEnds(st, path) ELSE st # <<>> THEN Front(st) ELSE st

Prefix(st) == FlattenSeq([k \in 1..Len(st) |-> IF st[k].kind = "namespace" THEN st[k].path ELSE <<>>])

FullName(r, st, rooted) ==
  IF ~rooted THEN Prefix(st) \o Decl
  ELSE IF r \in {"dead", "pairing"} THEN Decl ELSE Prefix(st) \o <<"_root_">> \o Decl

-----------------------------------------------------------------------------
(* The lines of a file.                                                    *)

More == length < Length /\ length' = length + 1

See(things) == seen' = seen \cup things

Open(kind, path) ==
  /\ More /\ ~InMutual
  /\ scopes' = scopes \o Opened(kind, path)
  /\ stack' = [r \in Readers |-> Push(r, stack[r], kind, path)]
  /\ See((IF kind \in Sections \ {"section"} /\ InNamespace THEN {kind} ELSE {})
         \cup (IF kind # "namespace" /\ path # <<>>
                   /\ \E k \in 1..Len(scopes) : scopes[k].name = Last(path)
               THEN {"echo"} ELSE {}))
  /\ UNCHANGED <<declared, index>>

Namespace == \E path \in Paths : Open("namespace", path)
\* A section with a modifier has no name in this repository.
Section ==
  \/ \E path \in Paths \cup {<<>>} : Open("section", path)
  \/ \E kind \in Sections \ {"section"} : Open(kind, <<>>)

Mutual ==
  /\ More /\ ~InMutual
  /\ scopes' = scopes \o Opened("mutual", <<>>)
  /\ See(IF InNamespace THEN {"mutual"} ELSE {})
  /\ UNCHANGED <<declared, stack, index>>

End(path) ==
  /\ More /\ MayEnd(path)
  /\ scopes' = SubSeq(scopes, 1, Len(scopes) - Width(path))
  /\ stack' = [r \in Readers |-> Pop(r, stack[r], path)]
  /\ See(IF [k \in 1..Width(path) |-> Innermost(Width(path))[k].first]
              = [k \in 1..Width(path) |-> k = 1]
         THEN {} ELSE {"partial"})
  /\ UNCHANGED <<declared, index>>

Close == \E path \in Paths \cup {<<>>} : End(path)

Declare(rooted) ==
  /\ More
  /\ declared' = declared \cup {IF rooted THEN Decl ELSE Namespaces(scopes) \o Decl}
  /\ index' = [r \in Readers |-> index[r] \cup {FullName(r, stack[r], rooted)}]
  /\ See(IF rooted THEN {"rooted"} ELSE {})
  /\ UNCHANGED <<scopes, stack>>

\* A line of a block comment that reads like a declaration or a namespace: a
\* sentence that is wrapped there. lean-dead.py skips documentation comments.
Reads(r, comment) == r \in {"coverage", "clashes"} \/ (r = "dead" /\ comment = "plain")

Prose(comment, path) ==
  /\ More
  /\ stack' = [r \in Readers |->
       IF Reads(r, comment) /\ path # <<>> THEN Push(r, stack[r], "namespace", path) ELSE stack[r]]
  /\ index' = [r \in Readers |->
       IF Reads(r, comment) /\ path = <<>> THEN index[r] \cup {FullName(r, stack[r], FALSE)}
       ELSE index[r]]
  /\ See({comment})
  /\ UNCHANGED <<scopes, declared>>

Comment == \E comment \in {"doc", "plain"} : \E path \in Paths \cup {<<>>} : Prose(comment, path)

ScopesInit ==
  /\ scopes = <<>> /\ declared = {} /\ seen = {} /\ length = 0
  /\ stack = [r \in Readers |-> <<>>] /\ index = [r \in Readers |-> {}]

ScopesNext == Namespace \/ Section \/ Mutual \/ Close \/ Comment \/ \E rooted \in BOOLEAN : Declare(rooted)

ScopesSpec == ScopesInit /\ [][ScopesNext]_reading

-----------------------------------------------------------------------------
\* A reader's stack holds lines that open a scope; lean-coverage.py's no sections.
ScopesTypeOK ==
  /\ \A r \in Readers : \A k \in 1..Len(stack[r]) :
       /\ stack[r][k].kind \in {"namespace"} \cup Sections
       /\ stack[r][k].path \in Paths \cup {<<>>}
  /\ \A k \in 1..Len(stack["coverage"]) : stack["coverage"][k].kind = "namespace"
  /\ \A n \in declared \cup UNION {index[r] : r \in Readers} : Last(n) = "x"

\* Each reader's index is the declarations of the file under their full names, if
\* the file holds nothing it does not expect. For lean-coverage.py that is a section
\* with the name of a scope around it, an end that closes part of a namespace line
\* or several, a `_root_` name, and prose.
CoverageNames ==
  seen \cap {"echo", "partial", "rooted", "doc", "plain"} = {} => index["coverage"] = declared

\* For lean-dead.py: a section with a modifier or a mutual block in a namespace, a
\* partial end, and prose in a comment that documents nothing.
DeadNames ==
  seen \cap {"noncomputable section", "public section", "mutual", "partial", "plain"} = {}
    => index["dead"] = declared

\* For port-pairing.py: only a mutual block in a namespace and a partial end.
PairingNames == seen \cap {"mutual", "partial"} = {} => index["pairing"] = declared

\* For modularize.py --clashes: a public section or a mutual block in a namespace, a
\* partial end, a `_root_` name, and prose.
ClashNames ==
  seen \cap {"public section", "mutual", "partial", "rooted", "doc", "plain"} = {}
    => index["clashes"] = declared

\* "(full name, line, kind, attributed, private)": so are those of lean-dead.py.
DeadNamesAreFull == seen \subseteq {"noncomputable section"} => index["dead"] = declared
=============================================================================
