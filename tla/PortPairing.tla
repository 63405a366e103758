------------------------------ MODULE PortPairing ------------------------------
(***************************************************************************)
(* main of scripts/port-pairing.py for one ported file: each declaration   *)
(* of its vendored counterpart is ported, ported elsewhere, listed as not  *)
(* ported, loosely paired or missing, in three loops over the vendored     *)
(* declarations.                                                           *)
(*                                                                         *)
(* A name is the sequence of its components, relative to the prefix of     *)
(* its tree.                                                               *)
(***************************************************************************)
EXTENDS Naturals, FiniteSets, SequencesExt

CONSTANTS
  Vendored,   \* vendored files: sequences of [name, private, field]
  Ported,     \* ported files: sequences of [name, private]
  Bullets,    \* names under "Not ported"
  Elsewhere,  \* normalized names that other ported files declare
  MODEL_NS

\* Lean takes a name once in a file, and a field is listed after its structure.
ASSUME FilesAssumption ==
  /\ \A s \in Vendored :
       /\ s \in Seq([name : Seq(STRING) \ {<<>>}, private : BOOLEAN, field : BOOLEAN])
       /\ \A j, k \in 1..Len(s) : s[j].name = s[k].name => j = k
       /\ \A k \in 1..Len(s) : s[k].field => \E j \in 1..(k - 1) : s[j].name = Front(s[k].name)
  /\ \A s \in Ported : s \in Seq([name : Seq(STRING) \ {<<>>}, private : BOOLEAN])

VARIABLES
  vdecls, pfull, bullets,
  port_index,    \* of the other ported files
  status,        \* name of a vendored declaration -> [is, other]
  used_ported,
  at,            \* the vendored declaration that the loop is at
  pc             \* "match", "fields", "loose" or "done"

vars == <<vdecls, pfull, bullets, port_index, status, used_ported, at, pc>>

-----------------------------------------------------------------------------
normalize(rel) ==
  LET kept == SelectSeq(rel, LAMBDA c : c \notin MODEL_NS) IN IF kept = <<>> THEN rel ELSE kept

bullet_covers(bullet, rel) ==
  bullet = rel \/ normalize(bullet) = normalize(rel) \/ (bullet # rel /\ IsSuffix(bullet, rel))

\* Declarations of the ported file are their positions.
pdecls == {k \in 1..Len(pfull) : ~pfull[k].private}
pprivate == {k \in 1..Len(pfull) : pfull[k].private}
NamesOf(K) == {pfull[k].name : k \in K}
Names == {vdecls[k].name : k \in 1..Len(vdecls)}
vnorm == {normalize(r) : r \in Names}

\* pnorm[n] and pnorm_private[n] are the last of these.
Having(K, n) == {k \in K : normalize(pfull[k].name) = n}

Known(r) == r \in DOMAIN status
Set(r, is, other) ==
  status' = [x \in DOMAIN status \cup {r} |-> IF x = r THEN [is |-> is, other |-> other] ELSE status[x]]

Step(here, next) ==
  IF at < Len(vdecls) THEN at' = at + 1 /\ pc' = here ELSE at' = 1 /\ pc' = next

\* The counterparts a declaration may pair with by its name.
SameNameAny(d) == Having(pdecls \cup pprivate, normalize(d.name))   \* mutant: private ones too
SameName(d) ==
  LET public == Having(pdecls, normalize(d.name))
  IN  IF public = {} /\ d.private THEN Having(pprivate, normalize(d.name)) ELSE public

Pair(r, is, other) == Set(r, is, other) /\ used_ported' = used_ported \cup {other}

Match ==
  /\ pc = "match"
  /\ LET d == vdecls[at]
         same == SameName(d)
         listed == \E b \in bullets : bullet_covers(b, d.name)
         elsewhere == normalize(d.name) \in port_index
     IN  IF same # {}
         THEN Pair(d.name, "ported", pfull[Max(same)].name)
         ELSE /\ UNCHANGED used_ported
              /\ CASE elsewhere -> Set(d.name, "elsewhere", <<>>)
                   [] ~elsewhere /\ listed -> Set(d.name, "listed", <<>>)
                   [] OTHER -> UNCHANGED status
  /\ Step("match", "fields")
  /\ UNCHANGED <<vdecls, pfull, bullets, port_index>>

\* A field of a structure that is not ported is not ported either.
WithStructure(d) == d.field /\ Known(Front(d.name)) /\ status[Front(d.name)].is = "listed"

Fields ==
  /\ pc = "fields"
  /\ LET d == vdecls[at]
     IN  IF ~Known(d.name) /\ WithStructure(d) THEN Set(d.name, "listed", <<>>) ELSE UNCHANGED status
  /\ Step("fields", "loose")
  /\ UNCHANGED <<vdecls, pfull, bullets, port_index, used_ported>>

\* free_by_last, whose sets are not used up: those that pairing by name has left.
Free == {k \in pdecls : normalize(pfull[k].name) \notin vnorm}
Candidates(r) == {k \in Free : Last(pfull[k].name) = Last(r)}

Loose ==
  /\ pc = "loose"
  /\ LET r == vdecls[at].name
     IN  IF Known(r) THEN UNCHANGED <<status, used_ported>>
         ELSE IF Candidates(r) # {}
         THEN Pair(r, "loose", pfull[Min(Candidates(r))].name)
         ELSE Set(r, "missing", <<>>) /\ UNCHANGED used_ported
  /\ Step("loose", "done")
  /\ UNCHANGED <<vdecls, pfull, bullets, port_index>>

Begin ==
  /\ vdecls # <<>> /\ at = 1 /\ pc = "match"
  /\ status = <<>> /\ used_ported = {}

Init ==
  /\ vdecls \in Vendored /\ pfull \in Ported
  /\ bullets \in SUBSET Bullets /\ port_index \in SUBSET Elsewhere
  /\ Begin

Next == Match \/ Fields \/ Loose

Spec == Init /\ [][Next]_vars

-----------------------------------------------------------------------------
(* The report.                                                             *)

Done == pc = "done"
Is(r, is) == Known(r) /\ status[r].is = is
new == {r \in NamesOf(pdecls) : r \notin used_ported}
check == \E r \in Names : Is(r, "missing")   \* exit 1

TypeOK ==
  /\ DOMAIN status \subseteq Names
  /\ used_ported \subseteq NamesOf(1..Len(pfull))
  /\ used_ported = {status[r].other : r \in {x \in DOMAIN status : status[x].is \in {"ported", "loose"}}}
  /\ Done => DOMAIN status = Names

\* "A private declaration of the ported file cannot be used by an importer": when
\* --check passes, whoever uses a public vendored name finds a public one of the same
\* normalized name in the port, or is told that it is not ported, or to look.
PublicIsUsable ==
  Done /\ ~check => \A k \in 1..Len(vdecls) : ~vdecls[k].private =>
    \/ normalize(vdecls[k].name) \in {normalize(p) : p \in NamesOf(pdecls)} \cup port_index
    \/ \E b \in bullets : \E r \in Names : bullet_covers(b, r) /\ IsPrefix(r, vdecls[k].name)
    \/ \E p \in NamesOf(pdecls) : Last(p) = Last(vdecls[k].name) /\ Is(vdecls[k].name, "loose")

\* "a field of a structure that is listed is listed with it": unless it is ported.
FieldsFollow ==
  Done => \A k \in 1..Len(vdecls) :
    vdecls[k].field /\ Is(Front(vdecls[k].name), "listed") =>
      status[vdecls[k].name].is \in {"ported", "elsewhere", "listed"}

\* Two public names of the port that differ in a namespace of the state only.
Alike == \E j, k \in pdecls : j # k /\ normalize(pfull[j].name) = normalize(pfull[k].name)

\* "A declaration of the ported file that pairs with no vendored declaration of the
\* counterpart is new": no vendored one has its name, if no two ported ones are alike.
NewIsUnpaired == Done /\ ~Alike => \A r \in new : normalize(r) \notin vnorm

\* When --check of port-pairing.py passes, whoever uses a public vendored name finds
\* a public one of the same normalized name in the port, or is told about it; fields
\* are listed with their structure; and a new name is that of no vendored declaration.
PairingIsSound == TypeOK /\ PublicIsUsable /\ FieldsFollow /\ NewIsUnpaired
=============================================================================
