---------------------------- MODULE LeanFilesProofs ----------------------------
(***************************************************************************)
(* The pairing of port-pairing.py, for every vendored and ported file,     *)
(* every list under "Not ported" and every other ported file; the parts    *)
(* that split_module makes, for a body of any length; what strip_comments  *)
(* leaves, of any text; and the names that the four readers find, in a     *)
(* file of any length and nesting.                                         *)
(***************************************************************************)
EXTENDS PortPairing, SplitModule, LeanNames, FiniteSetTheorems, SequenceTheorems, WellFoundedInduction, TLAPS

Positions == 1..Len(vdecls)
Name(k) == vdecls[k].name
Same(k) == SameName(vdecls[k])

\* Which declarations a loop has been past.
Matched(k) == pc # "match" \/ k < at
Fielded(k) == pc \in {"loose", "done"} \/ (pc = "fields" /\ k < at)
Loosened(k) == pc = "done" \/ (pc = "loose" /\ k < at)

Covered(r) == \E b \in bullets : \E x \in Names : bullet_covers(b, x) /\ IsPrefix(x, r)

Input ==
  /\ vdecls \in Vendored /\ pfull \in Ported
  /\ pc \in {"match", "fields", "loose", "done"} /\ at \in Positions

\* The table holds what the loops found, and no name before its turn.
Entries ==
  /\ DOMAIN status \subseteq Names
  /\ used_ported \subseteq NamesOf(1..Len(pfull))
  /\ used_ported = {status[r].other : r \in {x \in DOMAIN status : status[x].is \in {"ported", "loose"}}}
  /\ \A k \in Positions : ~Matched(k) => ~Known(Name(k))
  /\ \A k \in Positions : Loosened(k) => Known(Name(k))

\* Each entry has its reason.
Reasons ==
  \A k \in Positions : Known(Name(k)) =>
    /\ status[Name(k)].is \in {"ported", "elsewhere", "listed", "loose", "missing"}
    /\ status[Name(k)].is = "ported" => Same(k) # {}
    /\ status[Name(k)].is = "elsewhere" => normalize(Name(k)) \in port_index
    /\ status[Name(k)].is = "listed" => Covered(Name(k))
    /\ status[Name(k)].is = "loose" => \E p \in NamesOf(pdecls) : Last(p) = Last(Name(k))
    /\ pc \in {"match", "fields"} => status[Name(k)].is \notin {"loose", "missing"}

\* The counterpart of a name is used.
Taken == \A k \in Positions : Matched(k) /\ Same(k) # {} => pfull[Max(Same(k))].name \in used_ported

\* A structure comes before its fields, so that they follow it.
Following ==
  \A k \in Positions : Fielded(k) /\ WithStructure(vdecls[k]) =>
    Known(Name(k)) /\ status[Name(k)].is \notin {"loose", "missing"}

Inv == Input /\ Entries /\ Reasons /\ Taken /\ Following

-----------------------------------------------------------------------------
LEMMA LeastExists ==
  ASSUME NEW S \in SUBSET Nat, S # {}
  PROVE  \E x \in S : \A y \in S : x <= y
  <1>1. PICK x \in S : \A y \in S : ~(<<y, x>> \in OpToRel(<, Nat))
    BY NatLessThanWellFounded, WFMin
  <1>2. ASSUME NEW y \in S PROVE x <= y
    <2>1. x \in Nat /\ y \in Nat
      OBVIOUS
    <2>2. ~(y < x)
      BY <1>1, <2>1 DEF OpToRel
    <2>3. QED BY <2>1, <2>2
  <1>3. QED BY <1>2

LEMMA BoundsExist ==
  ASSUME NEW n \in Nat, NEW S \in SUBSET (1..n), S # {}
  PROVE  Min(S) \in S /\ Max(S) \in S
  <1>1. \E x \in S : \A y \in S : x <= y
    BY LeastExists
  <1>2. \E x \in S : \A y \in S : x >= y
    <2> DEFINE T == {n - x : x \in S}
    <2>1. T \in SUBSET Nat /\ T # {}
      <3>1. \A x \in S : x \in 1..n
        OBVIOUS
      <3>2. \A x \in S : n - x \in Nat
        BY <3>1
      <3>3. QED BY <3>2
    <2>2. PICK t \in T : \A u \in T : t <= u
      BY <2>1, LeastExists
    <2>3. PICK x \in S : t = n - x
      BY <2>2
    <2>4. \A y \in S : n - x <= n - y
      BY <2>2, <2>3
    <2>5. QED BY <2>4
  <1>3. QED BY <1>1, <1>2 DEF Min, Max

LEMMA PrefixOfItself == ASSUME NEW r \in Seq(STRING) PROVE IsPrefix(r, r)
  <1>1. Len(r) \in Nat
    OBVIOUS
  <1>2. Len(r) <= Len(r)
    BY <1>1
  <1>3. QED BY <1>2, Zenon DEF IsPrefix

LEMMA PrefixOfFront ==
  ASSUME NEW T, NEW r \in Seq(T), NEW x \in Seq(T), r # <<>>, IsPrefix(x, Front(r))
  PROVE  IsPrefix(x, r)
  <1>1. Len(r) \in Nat /\ Len(r) > 0 /\ Len(x) \in Nat /\ Front(r) = SubSeq(r, 1, Len(r) - 1)
    BY DEF Front
  <1>2. /\ Front(r) \in Seq(T) /\ Len(Front(r)) = Len(r) - 1
        /\ \A i \in 1..(Len(r) - 1) : Front(r)[i] = r[i]
    <2> DEFINE m == Len(r) - 1
    <2>1. m \in Int /\ \A i \in 1..m : r[i] \in T
      BY <1>1
    <2>2. /\ SubSeq(r, 1, m) \in Seq(T) /\ Len(SubSeq(r, 1, m)) = IF 1 <= m THEN m - 1 + 1 ELSE 0
          /\ \A i \in 1..(m - 1 + 1) : SubSeq(r, 1, m)[i] = r[1 + i - 1]
      BY <2>1, SubSeqProperties
    <2>3. m \in Nat
      BY <1>1
    <2> HIDE DEF m
    <2>4. /\ SubSeq(r, 1, m) \in Seq(T) /\ Len(SubSeq(r, 1, m)) = m
          /\ \A i \in 1..m : SubSeq(r, 1, m)[i] = r[i]
      BY <2>2, <2>3
    <2>5. QED BY <1>1, <2>4 DEF m
  <1>3. Len(x) <= Len(Front(r)) /\ SubSeq(x, 1, Len(x)) = SubSeq(Front(r), 1, Len(x))
    BY DEF IsPrefix
  <1>4. SubSeq(Front(r), 1, Len(x)) = SubSeq(r, 1, Len(x))
    BY <1>1, <1>2, <1>3
  <1>5. QED BY <1>1, <1>2, <1>3, <1>4 DEF IsPrefix

\* What the two files are, and that the loops do not touch them.
LEMMA Declarations ==
  ASSUME Input
  PROVE  /\ Len(vdecls) \in Nat /\ Len(pfull) \in Nat
         /\ \A k \in Positions : Name(k) \in Seq(STRING) /\ Name(k) # <<>> /\ Name(k) \in Names
         /\ \A j, k \in Positions : Name(j) = Name(k) => j = k
         /\ \A k \in Positions : vdecls[k].field => \E j \in Positions : j < k /\ Name(j) = Front(Name(k))
         /\ \A k \in Positions : Same(k) \subseteq 1..Len(pfull)
  <1> DEFINE V == [name : Seq(STRING) \ {<<>>}, private : BOOLEAN, field : BOOLEAN]
             P == [name : Seq(STRING) \ {<<>>}, private : BOOLEAN]
  <1>1. vdecls \in Seq(V) /\ pfull \in Seq(P)
    BY FilesAssumption DEF Input
  <1>2. \A d \in V : d.name \in Seq(STRING) /\ d.name # <<>>
    OBVIOUS
  <1> HIDE DEF V, P
  <1>3. Len(vdecls) \in Nat /\ Len(pfull) \in Nat /\ \A k \in 1..Len(vdecls) : vdecls[k] \in V
    BY <1>1
  <1>4. \A k \in Positions : Name(k) \in Seq(STRING) /\ Name(k) # <<>> /\ Name(k) \in Names
    BY <1>2, <1>3 DEF Name, Positions, Names
  <1>5. /\ \A j, k \in 1..Len(vdecls) : vdecls[j].name = vdecls[k].name => j = k
        /\ \A k \in 1..Len(vdecls) : vdecls[k].field => \E j \in 1..(k - 1) : vdecls[j].name = Front(vdecls[k].name)
    BY FilesAssumption DEF Input
  <1>6. ASSUME NEW k \in Positions, vdecls[k].field PROVE \E j \in Positions : j < k /\ Name(j) = Front(Name(k))
    <2>1. PICK j \in 1..(k - 1) : vdecls[j].name = Front(vdecls[k].name)
      BY <1>5, <1>6 DEF Positions
    <2>2. j \in Positions /\ j < k
      BY <1>3 DEF Positions
    <2>3. QED BY <2>1, <2>2 DEF Name
  <1>7. \A k \in Positions : Same(k) \subseteq 1..Len(pfull)
    BY DEF Same, SameName, Having, pdecls, pprivate
  <1>8. QED BY <1>3, <1>4, <1>5, <1>6, <1>7 DEF Positions, Name

LEMMA FilesStay ==
  ASSUME UNCHANGED <<vdecls, pfull, bullets, port_index>>
  PROVE  /\ Positions' = Positions /\ Names' = Names /\ pdecls' = pdecls /\ vnorm' = vnorm
         /\ \A k : Name(k)' = Name(k) /\ Same(k)' = Same(k) /\ Covered(Name(k))' = Covered(Name(k))
         /\ NamesOf(1..Len(pfull))' = NamesOf(1..Len(pfull)) /\ NamesOf(pdecls)' = NamesOf(pdecls)
  BY DEF Positions, Names, pdecls, pprivate, vnorm, Name, Same, SameName, Having, Covered, NamesOf

\* A name that has no entry gets one.
LEMMA EntryIs ==
  ASSUME Input, Entries, NEW a \in Positions, ~Known(Name(a)), NEW is, NEW other, Set(Name(a), is, other),
         used_ported' = (IF is \in {"ported", "loose"} THEN used_ported \cup {other} ELSE used_ported)
  PROVE  /\ DOMAIN status' = DOMAIN status \cup {Name(a)}
         /\ status'[Name(a)].is = is
         /\ \A k \in Positions : k # a =>
              (Name(k) \in DOMAIN status' <=> Known(Name(k))) /\ (Known(Name(k)) => status'[Name(k)] = status[Name(k)])
         /\ \A x \in DOMAIN status : status'[x] = status[x]
         /\ used_ported' = {status'[r].other : r \in {x \in DOMAIN status' : status'[x].is \in {"ported", "loose"}}}
  <1> DEFINE r == Name(a)
  <1>1. status' = [x \in DOMAIN status \cup {r} |-> IF x = r THEN [is |-> is, other |-> other] ELSE status[x]]
    BY DEF Set
  <1>2. r \notin DOMAIN status
    BY DEF Known
  <1>3. \A k \in Positions : k # a => Name(k) # r
    BY Declarations
  <1> HIDE DEF r
  <1>4. /\ DOMAIN status' = DOMAIN status \cup {r} /\ status'[r] = [is |-> is, other |-> other]
        /\ \A x \in DOMAIN status : status'[x] = status[x]
    BY <1>1, <1>2
  <1>5. status'[r].is = is /\ status'[r].other = other
    BY <1>4
  <1>6. used_ported' = {status'[x].other : x \in {y \in DOMAIN status' : status'[y].is \in {"ported", "loose"}}}
    <2>1. used_ported = {status[x].other : x \in {y \in DOMAIN status : status[y].is \in {"ported", "loose"}}}
      BY DEF Entries
    <2>2. CASE is \in {"ported", "loose"}
      <3>1. {y \in DOMAIN status' : status'[y].is \in {"ported", "loose"}}
              = {y \in DOMAIN status : status[y].is \in {"ported", "loose"}} \cup {r}
        BY <1>4, <1>5, <2>2
      <3>2. used_ported' = used_ported \cup {other}
        BY <2>2
      <3>3. QED BY <1>4, <1>5, <2>1, <3>1, <3>2
    <2>3. CASE is \notin {"ported", "loose"}
      <3>1. {y \in DOMAIN status' : status'[y].is \in {"ported", "loose"}}
              = {y \in DOMAIN status : status[y].is \in {"ported", "loose"}}
        BY <1>4, <1>5, <2>3
      <3>2. used_ported' = used_ported
        BY <2>3
      <3>3. QED BY <1>4, <2>1, <3>1, <3>2
    <2>4. QED BY <2>2, <2>3
  <1>7. QED BY <1>3, <1>4, <1>5, <1>6 DEF Known, r

\* The loop goes to the next declaration, or the next loop begins.
LEMMA StepIs ==
  ASSUME Input, NEW here, NEW next, Step(here, next), Positions' = Positions, pc = here,
         <<here, next>> \in {<<"match", "fields">>, <<"fields", "loose">>, <<"loose", "done">>}
  PROVE  /\ at' \in Positions /\ pc' \in {here, next}
         /\ \A k \in Positions : Matched(k)' => Matched(k) \/ k = at
         /\ \A k \in Positions : Fielded(k)' => Fielded(k) \/ (here = "fields" /\ k = at)
         /\ \A k \in Positions : Loosened(k)' => Loosened(k) \/ (here = "loose" /\ k = at)
         /\ \A k \in Positions : Matched(k) => Matched(k)'
  <1>1. Len(vdecls) \in Nat /\ at \in 1..Len(vdecls) /\ Positions = 1..Len(vdecls)
    BY Declarations DEF Input, Positions
  <1>2. CASE at < Len(vdecls)
    BY <1>1, <1>2 DEF Step, Matched, Fielded, Loosened
  <1>3. CASE ~(at < Len(vdecls))
    BY <1>1, <1>3 DEF Step, Matched, Fielded, Loosened
  <1>4. QED BY <1>2, <1>3

LEMMA MatchKeeps == ASSUME Inv, Match PROVE Inv'
  <1>0. PICK a \in Positions : a = at
    BY DEF Inv, Input
  <1> DEFINE d == vdecls[a]
             same == SameName(d)
             other == pfull[Max(same)].name
  <1>1. /\ Input /\ Entries /\ pc = "match" /\ a \in Nat
        /\ UNCHANGED <<vdecls, pfull, bullets, port_index>> /\ Step("match", "fields")
    BY <1>0, Declarations DEF Inv, Input, Match, Positions
  <1>2. /\ Positions' = Positions /\ Names' = Names /\ pdecls' = pdecls /\ vnorm' = vnorm
        /\ \A k : Name(k)' = Name(k) /\ Same(k)' = Same(k) /\ Covered(Name(k))' = Covered(Name(k))
        /\ NamesOf(1..Len(pfull))' = NamesOf(1..Len(pfull)) /\ NamesOf(pdecls)' = NamesOf(pdecls)
    BY <1>1, FilesStay
  <1>3. /\ at' \in Positions /\ pc' \in {"match", "fields"}
        /\ \A k \in Positions : Matched(k)' => Matched(k) \/ k = at
        /\ \A k \in Positions : Fielded(k)' => Fielded(k)
        /\ \A k \in Positions : Loosened(k)' => Loosened(k)
        /\ \A k \in Positions : Matched(k) => Matched(k)'
    BY <1>1, <1>2, StepIs
  <1>4. /\ Len(vdecls) \in Nat /\ Len(pfull) \in Nat
        /\ \A k \in Positions : Name(k) \in Seq(STRING) /\ Name(k) # <<>> /\ Name(k) \in Names
        /\ \A j, k \in Positions : Name(j) = Name(k) => j = k
        /\ \A k \in Positions : Same(k) \subseteq 1..Len(pfull)
    BY <1>1, Declarations
  <1>5. ~Matched(a) /\ ~Known(Name(a)) /\ \A k \in Positions : ~Fielded(k) /\ ~Loosened(k)
    <2>1. ~Matched(a) /\ \A k \in Positions : ~Fielded(k) /\ ~Loosened(k)
      BY <1>0, <1>1 DEF Matched, Fielded, Loosened
    <2>2. QED BY <1>1, <2>1 DEF Entries
  <1>6. same = Same(a) /\ d.name = Name(a) /\ (same # {} => Max(same) \in same /\ other \in NamesOf(1..Len(pfull)))
    <2>1. same = Same(a) /\ d.name = Name(a)
      BY DEF Same, Name
    <2>2. ASSUME same # {} PROVE Max(same) \in same
      BY <1>1, <1>4, <2>1, <2>2, BoundsExist
    <2>3. QED BY <1>1, <1>4, <2>1, <2>2 DEF NamesOf
  <1>7. Input'
    BY <1>1, <1>2, <1>3 DEF Input
  \* What the entry is, if there is one.
  <1>8. \/ /\ same # {} /\ Set(Name(a), "ported", other) /\ used_ported' = used_ported \cup {other}
        \/ /\ same = {} /\ normalize(Name(a)) \in port_index /\ Set(Name(a), "elsewhere", <<>>)
           /\ used_ported' = used_ported
        \/ /\ same = {} /\ (\E b \in bullets : bullet_covers(b, Name(a))) /\ Set(Name(a), "listed", <<>>)
           /\ used_ported' = used_ported
        \/ same = {} /\ status' = status /\ used_ported' = used_ported
    BY <1>0, <1>6, Zenon DEF Match, Pair
  <1> HIDE DEF d, same, other
  <1>9. ASSUME NEW is, is \in {"ported", "elsewhere", "listed"}, NEW o, Set(Name(a), is, o),
               used_ported' = (IF is \in {"ported", "loose"} THEN used_ported \cup {o} ELSE used_ported),
               is = "ported" => same # {} /\ o = other,
               same # {} => is = "ported",
               is = "elsewhere" => normalize(Name(a)) \in port_index,
               is = "listed" => \E b \in bullets : bullet_covers(b, Name(a))
        PROVE  Inv'
    <2>1. /\ DOMAIN status' = DOMAIN status \cup {Name(a)}
          /\ status'[Name(a)].is = is
          /\ \A k \in Positions : k # a =>
               (Name(k) \in DOMAIN status' <=> Known(Name(k))) /\ (Known(Name(k)) => status'[Name(k)] = status[Name(k)])
          /\ \A x \in DOMAIN status : status'[x] = status[x]
          /\ used_ported' = {status'[r].other : r \in {x \in DOMAIN status' : status'[x].is \in {"ported", "loose"}}}
      BY <1>1, <1>5, <1>9, EntryIs
    <2>2. \A k \in Positions : k # a => Known(Name(k))' = Known(Name(k))
      BY <1>2, <2>1 DEF Known
    <2>3. Entries'
      <3>1. DOMAIN status' \subseteq Names' /\ used_ported' \subseteq NamesOf(1..Len(pfull))'
        BY <1>1, <1>2, <1>4, <1>6, <1>9, <2>1 DEF Entries
      <3>2. ASSUME NEW k \in Positions, ~Matched(k)' PROVE ~Known(Name(k))'
        <4>1. ~Matched(k) /\ k # a
          <5>1. Matched(a)'
            BY <1>0, <1>1 DEF Step, Matched
          <5>2. QED BY <1>0, <1>3, <3>2, <5>1
        <4>2. QED BY <1>1, <2>2, <4>1 DEF Entries
      <3>3. \A k \in Positions : ~Loosened(k)'
        BY <1>3, <1>5
      <3>4. QED BY <1>2, <2>1, <3>1, <3>2, <3>3 DEF Entries
    <2>4. Reasons'
      <3>1. ASSUME NEW k \in Positions, k # a, Known(Name(k))'
            PROVE  Known(Name(k)) /\ status'[Name(k)'] = status[Name(k)]
        BY <1>2, <2>1, <2>2, <3>1
      <3>2. Covered(Name(a)) \/ is # "listed"
        <4>1. Name(a) \in Names /\ IsPrefix(Name(a), Name(a))
          BY <1>1, <1>4, PrefixOfItself
        <4>2. QED BY <1>9, <4>1 DEF Covered
      <3>3. \A k \in Positions : Known(Name(k)) => status[Name(k)].is \notin {"loose", "missing"}
        BY <1>1 DEF Inv, Reasons
      <3>4. ASSUME NEW k \in Positions, Known(Name(k))'
            PROVE  /\ status'[Name(k)'].is \in {"ported", "elsewhere", "listed", "loose", "missing"}
                   /\ status'[Name(k)'].is = "ported" => Same(k)' # {}
                   /\ status'[Name(k)'].is = "elsewhere" => normalize(Name(k)') \in port_index'
                   /\ status'[Name(k)'].is = "listed" => Covered(Name(k))'
                   /\ status'[Name(k)'].is \notin {"loose", "missing"}
        <4>1. CASE k = a
          BY <1>1, <1>2, <1>6, <1>9, <2>1, <3>2, <4>1
        <4>2. CASE k # a
          BY <1>1, <1>2, <3>1, <3>3, <3>4, <4>2 DEF Inv, Reasons
        <4>3. QED BY <4>1, <4>2
      <3>5. QED BY <1>2, <3>4 DEF Reasons
    <2>5. Taken'
      <3>1. ASSUME NEW k \in Positions, Matched(k)', Same(k) # {} PROVE pfull[Max(Same(k))].name \in used_ported'
        <4>1. CASE k = a
          BY <1>6, <1>9, <3>1, <4>1 DEF other
        <4>2. CASE k # a
          BY <1>0, <1>3, <1>9, <3>1, <4>2 DEF Inv, Taken
        <4>3. QED BY <4>1, <4>2
      <3>2. QED BY <1>1, <1>2, <3>1 DEF Taken
    <2>6. Following'
      BY <1>2, <1>3, <1>5 DEF Following
    <2>7. QED BY <1>7, <2>3, <2>4, <2>5, <2>6 DEF Inv
  <1>10. ASSUME same = {}, status' = status, used_ported' = used_ported PROVE Inv'
    <2>1. \A k : Known(Name(k))' = Known(Name(k))
      BY <1>2, <1>10 DEF Known
    <2>2. Entries'
      <3>1. \A k \in Positions : ~Matched(k)' => ~Matched(k)
        BY <1>3
      <3>2. \A k \in Positions : ~Loosened(k)'
        BY <1>3, <1>5
      <3>3. QED BY <1>1, <1>2, <1>10, <2>1, <3>1, <3>2 DEF Entries
    <2>3. Reasons'
      BY <1>1, <1>2, <1>3, <1>10, <2>1 DEF Inv, Reasons
    <2>4. Taken'
      <3>1. ASSUME NEW k \in Positions, Matched(k)', Same(k) # {} PROVE pfull[Max(Same(k))].name \in used_ported'
        BY <1>0, <1>3, <1>6, <1>10, <3>1 DEF Inv, Taken
      <3>2. QED BY <1>1, <1>2, <3>1 DEF Taken
    <2>5. Following'
      BY <1>2, <1>3, <1>5 DEF Following
    <2>6. QED BY <1>7, <2>2, <2>3, <2>4, <2>5 DEF Inv
  <1>11. CASE same # {} /\ Set(Name(a), "ported", other) /\ used_ported' = used_ported \cup {other}
    BY <1>9, <1>11
  <1>12. CASE /\ same = {} /\ normalize(Name(a)) \in port_index /\ Set(Name(a), "elsewhere", <<>>)
              /\ used_ported' = used_ported
    BY <1>9, <1>12
  <1>13. CASE /\ same = {} /\ (\E b \in bullets : bullet_covers(b, Name(a))) /\ Set(Name(a), "listed", <<>>)
              /\ used_ported' = used_ported
    BY <1>9, <1>13
  <1>14. QED BY <1>8, <1>10, <1>11, <1>12, <1>13

\* What the later two loops share.
LEMMA LaterIs ==
  ASSUME Inv, NEW here, NEW next, <<here, next>> \in {<<"fields", "loose">>, <<"loose", "done">>},
         pc = here, Step(here, next), UNCHANGED <<vdecls, pfull, bullets, port_index>>
  PROVE  /\ Input /\ Entries /\ Input'
         /\ Positions' = Positions /\ Names' = Names /\ pdecls' = pdecls
         /\ \A k : Name(k)' = Name(k) /\ Same(k)' = Same(k) /\ Covered(Name(k))' = Covered(Name(k))
         /\ NamesOf(1..Len(pfull))' = NamesOf(1..Len(pfull)) /\ NamesOf(pdecls)' = NamesOf(pdecls)
         /\ \A k \in Positions : Matched(k) /\ Matched(k)'
         /\ \A k \in Positions : Fielded(k)' => Fielded(k) \/ (here = "fields" /\ k = at)
         /\ \A k \in Positions : Loosened(k)' => Loosened(k) \/ (here = "loose" /\ k = at)
         /\ \A k \in Positions : here = "fields" /\ Fielded(k) => k < at
         /\ \A k \in Positions : here = "loose" => Fielded(k)
  <1>1. Input /\ Entries
    BY DEF Inv
  <1>2. /\ Positions' = Positions /\ Names' = Names /\ pdecls' = pdecls
        /\ \A k : Name(k)' = Name(k) /\ Same(k)' = Same(k) /\ Covered(Name(k))' = Covered(Name(k))
        /\ NamesOf(1..Len(pfull))' = NamesOf(1..Len(pfull)) /\ NamesOf(pdecls)' = NamesOf(pdecls)
    BY FilesStay
  <1>3. /\ at' \in Positions /\ pc' \in {here, next}
        /\ \A k \in Positions : Fielded(k)' => Fielded(k) \/ (here = "fields" /\ k = at)
        /\ \A k \in Positions : Loosened(k)' => Loosened(k) \/ (here = "loose" /\ k = at)
        /\ \A k \in Positions : Matched(k) => Matched(k)'
    BY <1>1, <1>2, StepIs
  <1>4. Input'
    BY <1>1, <1>2, <1>3 DEF Input
  <1>5. /\ \A k \in Positions : Matched(k)
        /\ \A k \in Positions : here = "fields" /\ Fielded(k) => k < at
        /\ \A k \in Positions : here = "loose" => Fielded(k)
    BY DEF Matched, Fielded
  <1>6. QED BY <1>1, <1>2, <1>3, <1>4, <1>5

LEMMA NothingKeeps ==
  ASSUME Inv, NEW a \in Positions, a = at,
         NEW here, NEW next, <<here, next>> \in {<<"fields", "loose">>, <<"loose", "done">>},
         pc = here, Step(here, next), UNCHANGED <<vdecls, pfull, bullets, port_index, status, used_ported>>,
         Known(Name(a)) \/ (here = "fields" /\ ~WithStructure(vdecls[a]))
  PROVE  Inv'
  <1>1. /\ Input /\ Entries /\ Input'
        /\ Positions' = Positions /\ Names' = Names /\ pdecls' = pdecls
        /\ \A k : Name(k)' = Name(k) /\ Same(k)' = Same(k) /\ Covered(Name(k))' = Covered(Name(k))
        /\ NamesOf(1..Len(pfull))' = NamesOf(1..Len(pfull)) /\ NamesOf(pdecls)' = NamesOf(pdecls)
        /\ \A k \in Positions : Matched(k) /\ Matched(k)'
        /\ \A k \in Positions : Fielded(k)' => Fielded(k) \/ (here = "fields" /\ k = at)
        /\ \A k \in Positions : Loosened(k)' => Loosened(k) \/ (here = "loose" /\ k = at)
    BY LaterIs
  <1>2. /\ \A k : Known(Name(k))' = Known(Name(k))
        /\ \A k : WithStructure(vdecls[k])' = WithStructure(vdecls[k])
    BY <1>1 DEF Known, WithStructure
  <1>3. Entries'
    BY <1>1, <1>2 DEF Entries
  <1>4. pc' \in {"match", "fields"} => pc \in {"match", "fields"}
    BY DEF Step
  <1>5. Reasons'
    BY <1>1, <1>2, <1>4 DEF Inv, Reasons
  <1>6. Taken'
    BY <1>1 DEF Inv, Taken
  <1>7. Following'
    <2>1. ASSUME NEW k \in Positions, Fielded(k)', WithStructure(vdecls[k])
          PROVE  Known(Name(k)) /\ status[Name(k)].is \notin {"loose", "missing"}
      <3>1. CASE Fielded(k)
        BY <2>1, <3>1 DEF Inv, Following
      <3>2. CASE ~Fielded(k)
        <4>1. here = "fields" /\ k = a
          BY <1>1, <2>1, <3>2
        <4>2. QED BY <2>1, <4>1 DEF Inv, Reasons
      <3>3. QED BY <3>1, <3>2
    <2>2. QED BY <1>1, <1>2, <2>1 DEF Following
  <1>8. QED BY <1>1, <1>3, <1>5, <1>6, <1>7 DEF Inv

LEMMA EntryKeeps ==
  ASSUME Inv, NEW a \in Positions, a = at,
         NEW here, NEW next, <<here, next>> \in {<<"fields", "loose">>, <<"loose", "done">>},
         pc = here, Step(here, next), UNCHANGED <<vdecls, pfull, bullets, port_index>>,
         ~Known(Name(a)), NEW is, NEW o, Set(Name(a), is, o),
         used_ported' = (IF is \in {"ported", "loose"} THEN used_ported \cup {o} ELSE used_ported),
         \/ here = "fields" /\ is = "listed" /\ Covered(Name(a))
         \/ here = "loose" /\ is = "missing"
         \/ /\ here = "loose" /\ is = "loose" /\ o \in NamesOf(1..Len(pfull))
            /\ \E p \in NamesOf(pdecls) : Last(p) = Last(Name(a))
  PROVE  Inv'
  <1>1. /\ Input /\ Entries /\ Input'
        /\ Positions' = Positions /\ Names' = Names /\ pdecls' = pdecls
        /\ \A k : Name(k)' = Name(k) /\ Same(k)' = Same(k) /\ Covered(Name(k))' = Covered(Name(k))
        /\ NamesOf(1..Len(pfull))' = NamesOf(1..Len(pfull)) /\ NamesOf(pdecls)' = NamesOf(pdecls)
        /\ \A k \in Positions : Matched(k) /\ Matched(k)'
        /\ \A k \in Positions : Fielded(k)' => Fielded(k) \/ (here = "fields" /\ k = at)
        /\ \A k \in Positions : Loosened(k)' => Loosened(k) \/ (here = "loose" /\ k = at)
        /\ \A k \in Positions : here = "fields" /\ Fielded(k) => k < at
        /\ \A k \in Positions : here = "loose" => Fielded(k)
    BY LaterIs
  <1>2. /\ DOMAIN status' = DOMAIN status \cup {Name(a)}
        /\ status'[Name(a)].is = is
        /\ \A k \in Positions : k # a =>
             (Name(k) \in DOMAIN status' <=> Known(Name(k))) /\ (Known(Name(k)) => status'[Name(k)] = status[Name(k)])
        /\ used_ported' = {status'[r].other : r \in {x \in DOMAIN status' : status'[x].is \in {"ported", "loose"}}}
    BY <1>1, EntryIs
  <1>3. /\ \A k \in Positions : k # a => Known(Name(k))' = Known(Name(k))
        /\ Known(Name(a))'
    BY <1>1, <1>2 DEF Known
  <1>4. /\ \A k \in Positions : Name(k) \in Names
        /\ \A k \in Positions : vdecls[k].field => \E j \in Positions : j < k /\ Name(j) = Front(Name(k))
        /\ \A k \in Positions : k \in Nat
    BY <1>1, Declarations DEF Positions
  <1>5. Entries'
    <2>1. DOMAIN status' \subseteq Names' /\ used_ported' \subseteq NamesOf(1..Len(pfull))'
      BY <1>1, <1>2, <1>4 DEF Entries
    <2>2. ASSUME NEW k \in Positions, Loosened(k)' PROVE Known(Name(k))'
      BY <1>1, <1>3, <2>2 DEF Entries
    <2>3. QED BY <1>1, <1>2, <2>1, <2>2 DEF Entries
  <1>6. Reasons'
    <2>1. ASSUME NEW k \in Positions, Known(Name(k))'
          PROVE  /\ status'[Name(k)'].is \in {"ported", "elsewhere", "listed", "loose", "missing"}
                 /\ status'[Name(k)'].is = "ported" => Same(k)' # {}
                 /\ status'[Name(k)'].is = "elsewhere" => normalize(Name(k)') \in port_index'
                 /\ status'[Name(k)'].is = "listed" => Covered(Name(k))'
                 /\ status'[Name(k)'].is = "loose" => \E p \in NamesOf(pdecls)' : Last(p) = Last(Name(k)')
                 /\ pc' \in {"match", "fields"} => status'[Name(k)'].is \notin {"loose", "missing"}
      <3>1. pc' \in {"match", "fields"} => pc = "fields" /\ here = "fields"
        BY DEF Step
      <3>2. CASE k = a
        BY <1>1, <1>2, <3>1, <3>2
      <3>3. CASE k # a
        BY <1>1, <1>2, <1>3, <2>1, <3>1, <3>3 DEF Inv, Reasons
      <3>4. QED BY <3>2, <3>3
    <2>2. QED BY <1>1, <2>1 DEF Reasons
  <1>7. Taken'
    <2>1. used_ported \subseteq used_ported'
      OBVIOUS
    <2>2. QED BY <1>1, <2>1 DEF Inv, Taken
  <1>8. Following'
    <2>1. ASSUME NEW k \in Positions, Fielded(k)', WithStructure(vdecls[k])'
          PROVE  Known(Name(k))' /\ status'[Name(k)'].is \notin {"loose", "missing"}
      <3>1. vdecls[k].field /\ Front(Name(k)) \in DOMAIN status' /\ status'[Front(Name(k))].is = "listed"
        BY <2>1 DEF WithStructure, Known, Name
      <3>2. PICK j \in Positions : j < k /\ Name(j) = Front(Name(k))
        BY <1>4, <3>1
      <3>3. j # a
        <4>1. CASE here = "loose"
          BY <1>2, <3>1, <3>2, <4>1
        <4>2. CASE here = "fields"
          BY <1>1, <1>4, <2>1, <3>2, <4>2
        <4>3. QED BY <4>1, <4>2
      <3>4. WithStructure(vdecls[k])
        BY <1>2, <3>1, <3>2, <3>3 DEF WithStructure, Known, Name
      <3>5. CASE Fielded(k)
        <4>1. Known(Name(k)) /\ status[Name(k)].is \notin {"loose", "missing"}
          BY <3>4, <3>5 DEF Inv, Following
        <4>2. k # a
          BY <4>1
        <4>3. QED BY <1>1, <1>2, <1>3, <4>1, <4>2
      <3>6. CASE ~Fielded(k)
        BY <1>1, <1>2, <1>3, <2>1, <3>6
      <3>7. QED BY <3>5, <3>6
    <2>2. QED BY <1>1, <2>1 DEF Following
  <1>9. QED BY <1>1, <1>5, <1>6, <1>7, <1>8 DEF Inv

LEMMA FieldsKeeps == ASSUME Inv, Fields PROVE Inv'
  <1>1. PICK a \in Positions : a = at
    BY DEF Inv, Input
  <1> DEFINE d == vdecls[a]
  <1>2. /\ pc = "fields" /\ Step("fields", "loose") /\ used_ported' = used_ported
        /\ UNCHANGED <<vdecls, pfull, bullets, port_index>> /\ d.name = Name(a)
    BY DEF Fields, Name
  <1>3. CASE ~Known(d.name) /\ WithStructure(d)
    <2>1. Set(Name(a), "listed", <<>>)
      BY <1>1, <1>2, <1>3 DEF Fields
    \* What covers the structure covers its fields.
    <2>2. Covered(Name(a))
      <3>1. d.field /\ Known(Front(Name(a))) /\ status[Front(Name(a))].is = "listed"
        BY <1>2, <1>3 DEF WithStructure
      <3>2. Name(a) \in Seq(STRING) /\ Name(a) # <<>> /\ \A k \in Positions : Name(k) \in Seq(STRING)
        BY Declarations DEF Inv
      <3>3. PICK j \in Positions : Name(j) = Front(Name(a))
        BY <3>1, Declarations DEF Inv
      <3>4. Covered(Name(j))
        BY <3>1, <3>3 DEF Inv, Reasons
      <3>5. PICK b \in bullets, x \in Names : bullet_covers(b, x) /\ IsPrefix(x, Name(j))
        BY <3>4 DEF Covered
      <3>6. x \in Seq(STRING)
        BY <3>2 DEF Names, Positions, Name
      <3>7. IsPrefix(x, Name(a))
        BY <3>2, <3>3, <3>5, <3>6, PrefixOfFront
      <3>8. QED BY <3>5, <3>7 DEF Covered
    <2>3. ~Known(Name(a))
      BY <1>2, <1>3
    <2>4. used_ported' = (IF "listed" \in {"ported", "loose"} THEN used_ported \cup {<<>>} ELSE used_ported)
      BY <1>2
    <2> HIDE DEF d
    <2>5. QED BY <1>1, <1>2, <2>1, <2>2, <2>3, <2>4, EntryKeeps
  <1>4. CASE ~(~Known(d.name) /\ WithStructure(d))
    <2>1. status' = status
      BY <1>1, <1>4 DEF Fields
    <2>2. Known(Name(a)) \/ ~WithStructure(vdecls[a])
      BY <1>2, <1>4
    <2> HIDE DEF d
    <2>3. UNCHANGED <<vdecls, pfull, bullets, port_index, status, used_ported>>
      BY <1>2, <2>1
    <2>4. QED BY <1>1, <1>2, <2>2, <2>3, NothingKeeps
  <1>5. QED BY <1>3, <1>4

LEMMA LooseKeeps == ASSUME Inv, Loose PROVE Inv'
  <1>1. PICK a \in Positions : a = at
    BY DEF Inv, Input
  <1> DEFINE found == Candidates(Name(a))
             o == pfull[Min(found)].name
  <1>2. /\ pc = "loose" /\ Step("loose", "done") /\ UNCHANGED <<vdecls, pfull, bullets, port_index>>
        /\ IF Known(Name(a)) THEN UNCHANGED <<status, used_ported>>
           ELSE IF found # {} THEN Pair(Name(a), "loose", o)
           ELSE Set(Name(a), "missing", <<>>) /\ UNCHANGED used_ported
    BY <1>1, Zenon DEF Loose, Name
  <1>3. CASE Known(Name(a))
    <2>1. UNCHANGED <<vdecls, pfull, bullets, port_index, status, used_ported>>
      BY <1>2, <1>3
    <2>2. QED BY <1>1, <1>2, <1>3, <2>1, NothingKeeps
  <1>4. CASE ~Known(Name(a)) /\ found # {}
    <2>1. found \subseteq pdecls /\ found \subseteq 1..Len(pfull) /\ \A k \in found : Last(pfull[k].name) = Last(Name(a))
      BY DEF Candidates, Free, pdecls
    <2>2. Len(pfull) \in Nat
      BY Declarations DEF Inv
    <2>3. Min(found) \in found
      BY <1>4, <2>1, <2>2, BoundsExist
    <2>4. o \in NamesOf(1..Len(pfull)) /\ o \in NamesOf(pdecls) /\ Last(o) = Last(Name(a))
      BY <2>1, <2>3 DEF NamesOf
    <2>5. Set(Name(a), "loose", o) /\ used_ported' = used_ported \cup {o}
      BY <1>2, <1>4 DEF Pair
    <2> HIDE DEF found, o
    <2>6. used_ported' = (IF "loose" \in {"ported", "loose"} THEN used_ported \cup {o} ELSE used_ported)
      BY <2>5
    <2>7. \E p \in NamesOf(pdecls) : Last(p) = Last(Name(a))
      BY <2>4
    <2>8. QED BY <1>1, <1>2, <1>4, <2>4, <2>5, <2>6, <2>7, EntryKeeps
  <1>5. CASE ~Known(Name(a)) /\ found = {}
    <2>1. Set(Name(a), "missing", <<>>) /\ used_ported' = used_ported
      BY <1>2, <1>5
    <2> HIDE DEF found, o
    <2>2. used_ported' = (IF "missing" \in {"ported", "loose"} THEN used_ported \cup {<<>>} ELSE used_ported)
      BY <2>1
    <2>3. QED BY <1>1, <1>2, <1>5, <2>1, <2>2, EntryKeeps
  <1>6. QED BY <1>3, <1>4, <1>5

LEMMA InvInit == Init => Inv
  <1> SUFFICES ASSUME Init PROVE Inv
    OBVIOUS
  <1>1. vdecls \in Vendored /\ pfull \in Ported /\ vdecls # <<>> /\ at = 1 /\ pc = "match" /\ status = <<>> /\ used_ported = {}
    BY DEF Init, Begin
  <1>2. at \in Positions
    <2> DEFINE V == [name : Seq(STRING) \ {<<>>}, private : BOOLEAN, field : BOOLEAN]
    <2>1. vdecls \in Seq(V)
      BY <1>1, FilesAssumption
    <2> HIDE DEF V
    <2>2. Len(vdecls) \in Nat /\ Len(vdecls) # 0
      BY <1>1, <2>1
    <2>3. QED BY <1>1, <2>2 DEF Positions
  <1>3. Input
    BY <1>1, <1>2 DEF Input
  <1>4. Len(vdecls) \in Nat
    BY <1>3, Declarations
  <1>5. DOMAIN status = {}
    BY <1>1
  <1>6. \A k \in Positions : ~Matched(k) /\ ~Fielded(k) /\ ~Loosened(k) /\ ~Known(Name(k))
    BY <1>1, <1>4, <1>5 DEF Positions, Matched, Fielded, Loosened, Known
  <1>7. Entries
    BY <1>1, <1>5, <1>6 DEF Entries
  <1>8. QED BY <1>3, <1>6, <1>7 DEF Inv, Reasons, Taken, Following

LEMMA InvNext == ASSUME Inv, [Next]_vars PROVE Inv'
  <1>1. CASE Match
    BY <1>1, MatchKeeps
  <1>2. CASE Fields
    BY <1>2, FieldsKeeps
  <1>3. CASE Loose
    BY <1>3, LooseKeeps
  <1>4. CASE UNCHANGED vars
    <2>1. UNCHANGED <<vdecls, pfull, bullets, port_index>> /\ UNCHANGED <<status, used_ported, at, pc>>
      BY <1>4 DEF vars
    <2>2. /\ Positions' = Positions /\ Names' = Names /\ pdecls' = pdecls
          /\ \A k : Name(k)' = Name(k) /\ Same(k)' = Same(k) /\ Covered(Name(k))' = Covered(Name(k))
          /\ NamesOf(1..Len(pfull))' = NamesOf(1..Len(pfull)) /\ NamesOf(pdecls)' = NamesOf(pdecls)
      BY <2>1, FilesStay
    <2>3. \A k : /\ Known(Name(k))' = Known(Name(k)) /\ WithStructure(vdecls[k])' = WithStructure(vdecls[k])
               /\ Matched(k)' = Matched(k) /\ Fielded(k)' = Fielded(k) /\ Loosened(k)' = Loosened(k)
      BY <2>1, <2>2 DEF Known, WithStructure, Matched, Fielded, Loosened
    <2>4. Input'
      BY <2>1, <2>2 DEF Inv, Input
    <2>5. Entries'
      BY <2>1, <2>2, <2>3 DEF Inv, Entries
    <2>6. Reasons'
      BY <2>1, <2>2, <2>3 DEF Inv, Reasons
    <2>7. Taken' /\ Following'
      BY <2>1, <2>2, <2>3 DEF Inv, Taken, Following
    <2>8. QED BY <2>4, <2>5, <2>6, <2>7 DEF Inv
  <1>5. QED BY <1>1, <1>2, <1>3, <1>4 DEF Next

LEMMA InvHolds == Spec => []Inv
  <1>1. Init => Inv
    BY InvInit
  <1>2. Inv /\ [Next]_vars => Inv'
    BY InvNext
  <1>3. QED BY <1>1, <1>2, PTL DEF Spec

-----------------------------------------------------------------------------
\* The table holds every vendored name, whenever --check answers.
LEMMA TypesHold == ASSUME Inv PROVE TypeOK
  <1>1. ASSUME Done PROVE DOMAIN status = Names
    <2>1. \A k \in Positions : Loosened(k)
      BY <1>1 DEF Done, Loosened
    <2>2. \A k \in Positions : Known(Name(k))
      BY <2>1 DEF Inv, Entries
    <2>3. QED BY <2>2 DEF Inv, Entries, Names, Positions, Name, Known
  <1>2. QED BY <1>1 DEF Inv, Entries, TypeOK

\* Whoever uses a public vendored name finds it, or is told.
LEMMA UsersAreServed == ASSUME Inv PROVE PublicIsUsable
  <1> SUFFICES ASSUME Done, ~check, NEW k \in 1..Len(vdecls), ~vdecls[k].private
               PROVE  \/ normalize(vdecls[k].name) \in {normalize(p) : p \in NamesOf(pdecls)} \cup port_index
                      \/ \E b \in bullets : \E r \in Names : bullet_covers(b, r) /\ IsPrefix(r, vdecls[k].name)
                      \/ \E p \in NamesOf(pdecls) : Last(p) = Last(vdecls[k].name) /\ Is(vdecls[k].name, "loose")
    BY DEF PublicIsUsable
  <1>1. k \in Positions /\ vdecls[k].name = Name(k) /\ Name(k) \in Names
    BY DEF Positions, Name, Names
  <1>2. Known(Name(k))
    BY <1>1 DEF Inv, Entries, Loosened, Done
  <1>3. status[Name(k)].is # "missing"
    BY <1>1, <1>2 DEF check, Is
  <1>4. CASE status[Name(k)].is = "ported"
    <2>1. Same(k) # {}
      BY <1>1, <1>2, <1>4 DEF Inv, Reasons
    <2>2. Same(k) = Having(pdecls, normalize(Name(k)))
      BY <1>1 DEF Same, SameName
    <2>3. PICK j \in pdecls : normalize(pfull[j].name) = normalize(Name(k))
      BY <2>1, <2>2 DEF Having
    <2>4. pfull[j].name \in NamesOf(pdecls)
      BY DEF NamesOf
    <2>5. QED BY <1>1, <2>3, <2>4
  <1>5. CASE status[Name(k)].is = "elsewhere"
    BY <1>1, <1>2, <1>5 DEF Inv, Reasons
  <1>6. CASE status[Name(k)].is = "listed"
    BY <1>1, <1>2, <1>6 DEF Inv, Reasons, Covered
  <1>7. CASE status[Name(k)].is = "loose"
    BY <1>1, <1>2, <1>7 DEF Inv, Reasons, Is
  <1>8. QED BY <1>1, <1>2, <1>3, <1>4, <1>5, <1>6, <1>7 DEF Inv, Reasons

\* A field whose structure is listed has had its turn in the second loop.
LEMMA FieldsAreListed == ASSUME Inv PROVE FieldsFollow
  <1> SUFFICES ASSUME Done, NEW k \in 1..Len(vdecls), vdecls[k].field, Is(Front(vdecls[k].name), "listed")
               PROVE  status[vdecls[k].name].is \in {"ported", "elsewhere", "listed"}
    BY DEF FieldsFollow
  <1>1. k \in Positions /\ vdecls[k].name = Name(k) /\ Fielded(k) /\ WithStructure(vdecls[k])
    BY DEF Positions, Name, Fielded, Done, WithStructure, Is
  <1>2. Known(Name(k)) /\ status[Name(k)].is \notin {"loose", "missing"}
    BY <1>1 DEF Inv, Following
  <1>3. QED BY <1>1, <1>2 DEF Inv, Reasons

\* A public counterpart is used, and without two alike there is no other of its name.
LEMMA NewHasNoCounterpart == ASSUME Inv PROVE NewIsUnpaired
  <1> SUFFICES ASSUME Done, ~Alike, NEW r \in new, normalize(r) \in vnorm PROVE FALSE
    BY DEF NewIsUnpaired
  <1>1. PICK j \in pdecls : r = pfull[j].name
    BY DEF new, NamesOf
  <1>2. PICK k \in Positions : normalize(Name(k)) = normalize(r)
    BY DEF vnorm, Names, Positions, Name
  <1>3. j \in Having(pdecls, normalize(Name(k)))
    BY <1>1, <1>2 DEF Having
  <1>4. Same(k) = Having(pdecls, normalize(Name(k)))
    BY <1>3 DEF Same, SameName, Name
  <1>5. Len(pfull) \in Nat /\ Same(k) \subseteq 1..Len(pfull)
    BY Declarations DEF Inv
  <1>6. Max(Same(k)) \in Same(k)
    BY <1>3, <1>4, <1>5, BoundsExist
  <1>7. Max(Same(k)) = j
    BY <1>3, <1>4, <1>6 DEF Having, Alike
  <1>8. pfull[j].name \in used_ported
    BY <1>3, <1>4, <1>7 DEF Inv, Taken, Matched, Done
  <1>9. QED BY <1>1, <1>8 DEF new

\* For every vendored and ported file, every list under "Not ported" and every other
\* ported file: port-pairing.py leaves no name without a word, and none that an
\* importer needs without a counterpart, or --check exits with 1.
THEOREM PairingHolds == Spec => []PairingIsSound
  <1>1. Inv => PairingIsSound
    BY TypesHold, UsersAreServed, FieldsAreListed, NewHasNoCounterpart DEF PairingIsSound
  <1>2. QED BY <1>1, InvHolds, PTL

-----------------------------------------------------------------------------
(***************************************************************************)
(* The parts that split_module makes, for a body of any length.            *)
(***************************************************************************)
Triple == Nat \X Nat \X BOOLEAN

\* A unit is a whole block, or one line.
IsUnit(u) ==
  /\ 1 <= u[1] /\ u[1] <= u[2]
  /\ Depth(u[1] - 1) = 0 /\ Depth(u[2]) = 0
  /\ ~u[3] => u[1] = u[2]

\* Units of the first m lines, one after the other.
UnitsTo(us, m) ==
  /\ us \in Seq(Triple)
  /\ \A k \in 1..Len(us) : IsUnit(us[k]) /\ us[k][2] <= m
  /\ \A j, k \in 1..Len(us) : j < k => us[j][2] < us[k][1]

InUnit(us, i) == \E k \in 1..Len(us) : us[k][1] <= i /\ i <= us[k][2]
IsLine(us, i) == \E k \in 1..Len(us) : us[k][1] = i /\ us[k][2] = i /\ ~us[k][3]

\* The lines that a later part begins with: those of the context up to m, once and in order.
Carries(c, m) ==
  /\ c \in Seq(1..m)
  /\ \A j, k \in 1..Len(c) : j < k => c[j] < c[k]
  /\ \A i \in Context : i <= m => \E k \in 1..Len(c) : c[k] = i

Part == [carried : Seq(Nat), lines : Seq(Nat)]

\* A part that takes over the lines after a, up to b.
Piece(q, a, b) ==
  /\ q \in Part /\ Carries(q.carried, a)
  /\ a \in Nat /\ b \in Nat /\ a < b /\ Depth(a) = 0 /\ Depth(b) = 0
  /\ q.lines = [k \in 1..(b - a) |-> a + k]

\* What is still to place.
Ahead ==
  /\ CommentsInBlocks => \A i \in 1..Len(body) : prevStop < i /\ body[i] # "blank" => InUnit(units, i)
  /\ \A i \in Context : prevStop < i => IsLine(units, i)

Formed ==
  /\ body \in Seq(Kinds) /\ WellFormed /\ placing \in {"scan", "place", "done", "error"}
  /\ parts \in Seq(Part) /\ current \in Part
  /\ prevStop \in Nat /\ Depth(prevStop) = 0

\* What is placed stands in the parts, and in the one under construction.
Standing ==
  /\ Carries(carried, prevStop)
  /\ \A p \in Parts : Piece(parts[p], Stop(p - 1), Stop(p))
  /\ current = NoPart => Stop(Len(parts)) = prevStop
  /\ current # NoPart => Piece(current, Stop(Len(parts)), prevStop)

StillToPlace ==
  /\ UnitsTo(units, Len(body))
  /\ units # <<>> => prevStop < units[1][1]
  /\ placing \in {"place", "done"} => Ahead

Phases ==
  /\ placing = "scan" => SplitBegin
  /\ placing \in {"done", "error"} => units = <<>> /\ current = NoPart

SplitInv == Formed /\ Standing /\ StillToPlace /\ Phases

-----------------------------------------------------------------------------
(* The first loop.                                                         *)

LEMMA ScansExist ==
  ASSUME Len(body) \in Nat
  PROVE  ScannedTo = [i \in 0..Len(body) |-> IF i = 0 THEN Unread ELSE Line(ScannedTo[i - 1], i)]
  <1> DEFINE Ok(n, f) == f = [i \in 0..n |-> IF i = 0 THEN Unread ELSE Line(f[i - 1], i)]
             S == {n \in Nat : \A f : ~Ok(n, f)}
  <1>1. \E f : Ok(0, f)
    <2>1. Ok(0, [i \in 0..0 |-> Unread])
      OBVIOUS
    <2>2. QED BY <2>1
  <1>2. ASSUME NEW n \in Nat, NEW f, Ok(n, f) PROVE \E g : Ok(n + 1, g)
    <2> DEFINE g == [i \in 0..(n + 1) |-> IF i = n + 1 THEN Line(f[n], n + 1) ELSE f[i]]
    <2>1. \A i \in 0..(n + 1) : g[i] = IF i = 0 THEN Unread ELSE Line(g[i - 1], i)
      BY <1>2
    <2>2. Ok(n + 1, g)
      BY <2>1
    <2> HIDE DEF Ok
    <2>3. QED BY <2>2
  <1>3. \E f : Ok(Len(body), f)
    <2> HIDE DEF Ok
    <2>1. S = {}
      <3> SUFFICES ASSUME S # {} PROVE FALSE
        OBVIOUS
      <3>1. PICK x \in S : \A y \in S : x <= y
        BY LeastExists
      <3>2. x # 0
        BY <1>1, <3>1
      <3>3. x - 1 \in Nat /\ x - 1 \notin S
        BY <3>1, <3>2
      <3>4. PICK f : Ok(x - 1, f)
        BY <3>3
      <3>5. \E g : Ok(x - 1 + 1, g)
        BY <1>2, <3>3, <3>4
      <3>6. QED BY <3>1, <3>5
    <2>2. QED BY <2>1
  <1>4. QED BY <1>3 DEF ScannedTo

LEMMA Depths ==
  ASSUME body \in Seq(Kinds)
  PROVE  /\ Depth(0) = 0
         /\ \A n \in 1..Len(body) : Depth(n - 1) \in Int /\ Depth(n) =
              IF Commented(n) THEN Depth(n - 1)
              ELSE IF body[n] = "section" THEN Depth(n - 1) + 1
              ELSE IF body[n] = "end" THEN Depth(n - 1) - 1
              ELSE Depth(n - 1)
  <1> DEFINE D(K, n) == {k \in 1..n : body[k] = K /\ ~Commented(k)}
  <1>1. \A n : Depth(n) = Cardinality(D("section", n)) - Cardinality(D("end", n))
    BY DEF Depth
  <1>2. \A K : Cardinality(D(K, 0)) = 0
    <2>1. \A K : D(K, 0) = {}
      OBVIOUS
    <2>2. QED BY <2>1, FS_EmptySet
  <1>3. ASSUME NEW n \in 1..Len(body), NEW K
        PROVE  /\ Cardinality(D(K, n - 1)) \in Nat
               /\ Cardinality(D(K, n)) =
                    Cardinality(D(K, n - 1)) + (IF body[n] = K /\ ~Commented(n) THEN 1 ELSE 0)
    <2>1. n \in Nat /\ n - 1 \in Nat /\ n \notin D(K, n - 1)
      OBVIOUS
    <2>2. IsFiniteSet(D(K, n - 1))
      <3>1. IsFiniteSet(1..(n - 1))
        BY <2>1, FS_Interval
      <3>2. D(K, n - 1) \in SUBSET (1..(n - 1))
        OBVIOUS
      <3> HIDE DEF D
      <3>3. QED BY <3>1, <3>2, FS_Subset
    <2>3. D(K, n) = IF body[n] = K /\ ~Commented(n) THEN D(K, n - 1) \cup {n} ELSE D(K, n - 1)
      BY <2>1
    <2> HIDE DEF D
    <2>4. /\ Cardinality(D(K, n - 1)) \in Nat
          /\ Cardinality(D(K, n - 1) \cup {n}) = Cardinality(D(K, n - 1)) + 1
      BY <2>1, <2>2, FS_AddElement, FS_CardinalityType
    <2>5. QED BY <2>3, <2>4
  <1> HIDE DEF D
  <1>4. Depth(0) = 0
    BY <1>1, <1>2
  <1>5. ASSUME NEW n \in 1..Len(body)
        PROVE  Depth(n - 1) \in Int /\ Depth(n) =
                 IF Commented(n) THEN Depth(n - 1)
                 ELSE IF body[n] = "section" THEN Depth(n - 1) + 1
                 ELSE IF body[n] = "end" THEN Depth(n - 1) - 1
                 ELSE Depth(n - 1)
    <2> DEFINE s == Cardinality(D("section", n - 1))
               e == Cardinality(D("end", n - 1))
    <2>1. Depth(n - 1) = s - e /\ s \in Nat /\ e \in Nat
      BY <1>1, <1>3
    <2>2. Depth(n) = (s + (IF body[n] = "section" /\ ~Commented(n) THEN 1 ELSE 0))
                     - (e + (IF body[n] = "end" /\ ~Commented(n) THEN 1 ELSE 0))
      BY <1>1, <1>3
    <2> HIDE DEF s, e
    <2>3. QED BY <2>1, <2>2
  <1>6. QED BY <1>4, <1>5

LEMMA Comments ==
  ASSUME body \in Seq(Kinds), WellFormed
  PROVE  /\ ~Commented(1)
         /\ \A n \in 1..Len(body) : Commented(n + 1) <=>
              IF Commented(n) THEN body[n] # "close" ELSE body[n] = "open"
  <1>1. ~Commented(1)
    BY DEF Commented
  <1>2. ASSUME NEW n \in 1..Len(body)
        PROVE  Commented(n + 1) <=> IF Commented(n) THEN body[n] # "close" ELSE body[n] = "open"
    <2>1. CASE body[n] = "open"
      BY <2>1 DEF Commented, WellFormed
    <2>2. CASE body[n] # "open"
      BY <2>2 DEF Commented
    <2>3. QED BY <2>1, <2>2
  <1>3. QED BY <1>1, <1>2

LEMMA AddUnit ==
  ASSUME NEW us, NEW m \in Nat, NEW n \in Nat, UnitsTo(us, m),
         NEW u \in Triple, IsUnit(u), m < u[1], u[2] <= n
  PROVE  /\ UnitsTo(Append(us, u), n)
         /\ \A i : InUnit(Append(us, u), i) <=> InUnit(us, i) \/ (u[1] <= i /\ i <= u[2])
         /\ \A i : IsLine(us, i) => IsLine(Append(us, u), i)
         /\ u[2] = u[1] /\ ~u[3] => IsLine(Append(us, u), u[1])
  <1> DEFINE vs == Append(us, u)
  <1>1. /\ us \in Seq(Triple) /\ vs \in Seq(Triple) /\ Len(us) \in Nat
        /\ Len(vs) = Len(us) + 1 /\ vs[Len(us) + 1] = u
        /\ \A k \in 1..Len(us) : vs[k] = us[k] /\ us[k] \in Triple
    BY DEF UnitsTo
  <1>2. u[1] \in Nat /\ u[2] \in Nat
    BY DEF Triple
  <1>3. \A k \in 1..Len(us) : IsUnit(us[k]) /\ us[k][2] <= m /\ us[k][2] \in Nat
    BY <1>1 DEF UnitsTo, Triple
  <1>4. \A j, k \in 1..Len(us) : j < k => us[j][2] < us[k][1]
    BY DEF UnitsTo
  <1> HIDE DEF vs
  <1>5. \A k \in 1..Len(vs) : IsUnit(vs[k]) /\ vs[k][2] <= n
    <2> SUFFICES ASSUME NEW k \in 1..Len(vs) PROVE IsUnit(vs[k]) /\ vs[k][2] <= n
      OBVIOUS
    <2>1. CASE k = Len(us) + 1
      BY <1>1, <2>1
    <2>2. CASE k \in 1..Len(us)
      <3>1. us[k][2] <= m /\ us[k][2] \in Nat /\ IsUnit(us[k]) /\ vs[k] = us[k]
        BY <1>1, <1>3, <2>2
      <3>2. m <= n
        BY <1>2, IsUnit(u) DEF IsUnit
      <3>3. QED BY <3>1, <3>2
    <2>3. QED BY <1>1, <2>1, <2>2
  <1>6. ASSUME NEW j \in 1..Len(vs), NEW k \in 1..Len(vs), j < k PROVE vs[j][2] < vs[k][1]
    <2>1. j \in 1..Len(us) /\ vs[j] = us[j] /\ us[j][2] <= m /\ us[j][2] \in Nat
      BY <1>1, <1>3, <1>6
    <2>2. CASE k = Len(us) + 1
      BY <1>1, <1>2, <2>1, <2>2
    <2>3. CASE k \in 1..Len(us)
      BY <1>1, <1>4, <1>6, <2>1, <2>3
    <2>4. QED BY <1>1, <2>2, <2>3
  <1>7. UnitsTo(vs, n)
    BY <1>1, <1>5, <1>6 DEF UnitsTo
  <1>8. \A i : InUnit(vs, i) <=> InUnit(us, i) \/ (u[1] <= i /\ i <= u[2])
    BY <1>1 DEF InUnit
  <1>9. ASSUME NEW i, IsLine(us, i) PROVE IsLine(vs, i)
    BY <1>1, <1>9 DEF IsLine
  <1>10. ASSUME u[2] = u[1], ~u[3] PROVE IsLine(vs, u[1])
    BY <1>1, <1>10 DEF IsLine
  <1>11. QED BY <1>7, <1>8, <1>9, <1>10 DEF vs

LEMMA MoreLines == ASSUME NEW us, NEW m \in Nat, NEW n \in Nat, UnitsTo(us, m), m <= n PROVE UnitsTo(us, n)
  <1>1. us \in Seq(Triple) /\ \A k \in 1..Len(us) : us[k] \in Triple
    BY DEF UnitsTo
  <1>2. \A k \in 1..Len(us) : us[k][2] \in Nat
    BY <1>1 DEF Triple
  <1>3. QED BY <1>2 DEF UnitsTo

Reading == [depth : Nat, comment : BOOLEAN, start : Nat, units : Seq(Triple), failed : BOOLEAN]

\* Whether the first n lines are in units, but for the block that is open.
InUnits(r, n) ==
  /\ \A i \in Context : i <= n => IsLine(r.units, i)
  /\ CommentsInBlocks =>
       /\ r.comment => r.depth > 0
       /\ \A i \in 1..n : body[i] # "blank" => InUnit(r.units, i) \/ (r.depth > 0 /\ r.start <= i)

\* What the loop knows after n lines, unless it has met an end too many.
Knows(r, n) ==
  /\ r.depth = Depth(n) /\ (r.comment <=> Commented(n + 1))
  /\ r.depth > 0 => 1 <= r.start /\ r.start <= n /\ Depth(r.start - 1) = 0
  /\ UnitsTo(r.units, IF r.depth = 0 THEN n ELSE r.start - 1)
  /\ InUnits(r, n)

\* What a line that changes nothing else makes of a reading.
IsReading(q, d, c, b, us) ==
  q \in Reading /\ q.depth = d /\ (q.comment <=> c) /\ q.start = b /\ q.units = us /\ ~q.failed

LEMMA LineIs ==
  ASSUME NEW r \in Reading, ~r.failed, NEW n \in Nat
  PROVE  /\ r.comment => IsReading(Line(r, n), r.depth, body[n] # "close", r.start, r.units)
         /\ ~r.comment =>
              /\ body[n] \in {"open", "note", "code"} =>
                   IsReading(Line(r, n), r.depth, body[n] = "open", r.start,
                             IF r.depth = 0 THEN Append(r.units, <<n, n, FALSE>>) ELSE r.units)
              /\ body[n] = "blank" => IsReading(Line(r, n), r.depth, FALSE, r.start, r.units)
              /\ body[n] = "section" =>
                   IsReading(Line(r, n), r.depth + 1, FALSE, IF r.depth = 0 THEN n ELSE r.start, r.units)
              /\ body[n] = "end" /\ r.depth = 0 => Line(r, n) \in Reading /\ Line(r, n).failed
              /\ body[n] = "end" /\ r.depth = 1 =>
                   IsReading(Line(r, n), 0, FALSE, r.start, Append(r.units, <<r.start, n, TRUE>>))
              /\ body[n] = "end" /\ r.depth > 1 =>
                   IsReading(Line(r, n), r.depth - 1, FALSE, r.start, r.units)
  <1>1. /\ r.depth \in Nat /\ r.start \in Nat /\ r.units \in Seq(Triple)
        /\ Append(r.units, <<n, n, FALSE>>) \in Seq(Triple)
        /\ Append(r.units, <<r.start, n, TRUE>>) \in Seq(Triple)
    <2>1. r.depth \in Nat /\ r.start \in Nat /\ r.units \in Seq(Triple)
      BY DEF Reading
    <2>2. <<n, n, FALSE>> \in Triple /\ <<r.start, n, TRUE>> \in Triple
      BY <2>1 DEF Triple
    <2>3. QED BY <2>1, <2>2
  <1>2. CASE r.comment
    <2>1. Line(r, n) = [r EXCEPT !.comment = body[n] # "close"]
      BY <1>2 DEF Line
    <2>2. QED BY <1>2, <2>1 DEF Reading, IsReading
  <1>3. CASE ~r.comment /\ body[n] = "open"
    <2>1. Line(r, n) = LineUnit([r EXCEPT !.comment = TRUE], n)
      BY <1>3 DEF Line
    <2>2. QED BY <1>1, <1>3, <2>1 DEF Reading, IsReading, LineUnit, Unit
  <1>4. CASE ~r.comment /\ body[n] \in {"note", "code"}
    <2>1. Line(r, n) = LineUnit(r, n)
      BY <1>4 DEF Line, Code
    <2>2. QED BY <1>1, <1>4, <2>1 DEF Reading, IsReading, LineUnit, Unit
  <1>5. CASE ~r.comment /\ body[n] = "blank"
    <2>1. Line(r, n) = r
      BY <1>5 DEF Line
    <2>2. QED BY <1>5, <2>1 DEF IsReading
  <1>6. CASE ~r.comment /\ body[n] = "section"
    <2>1. PICK b \in Nat : b = IF r.depth = 0 THEN n ELSE r.start
      BY <1>1
    <2>2. Line(r, n) = [r EXCEPT !.start = b, !.depth = r.depth + 1]
      BY <1>6, <2>1 DEF Line
    <2> DEFINE d == r.depth + 1
               q == [r EXCEPT !.start = b, !.depth = d]
    <2>3. d \in Nat /\ Line(r, n) = q
      BY <1>1, <2>2
    <2> HIDE DEF d
    <2>4. q \in Reading /\ q.depth = d /\ q.comment = r.comment /\ q.start = b
          /\ q.units = r.units /\ q.failed = r.failed
      BY <2>3 DEF Reading
    <2> HIDE DEF q
    <2>5. IsReading(Line(r, n), r.depth + 1, FALSE, b, r.units)
      BY <1>6, <2>3, <2>4 DEF IsReading, d
    <2>6. QED BY <1>6, <2>1, <2>5
  <1>7. ASSUME ~r.comment, body[n] = "end"
        PROVE  /\ r.depth = 0 => Line(r, n) \in Reading /\ Line(r, n).failed
               /\ r.depth = 1 =>
                    IsReading(Line(r, n), 0, FALSE, r.start, Append(r.units, <<r.start, n, TRUE>>))
               /\ r.depth > 1 => IsReading(Line(r, n), r.depth - 1, FALSE, r.start, r.units)
    <2>1. Line(r, n) = BlockEnd(r, n)
      BY <1>7 DEF Line
    <2>2. ASSUME r.depth = 0 PROVE Line(r, n) \in Reading /\ Line(r, n).failed
      <3>1. Line(r, n) = [r EXCEPT !.failed = TRUE]
        BY <2>1, <2>2 DEF BlockEnd
      <3>2. QED BY <3>1 DEF Reading
    <2>3. ASSUME r.depth = 1
          PROVE  IsReading(Line(r, n), 0, FALSE, r.start, Append(r.units, <<r.start, n, TRUE>>))
      <3>1. Line(r, n) = Unit([r EXCEPT !.depth = r.depth - 1], r.start, n, TRUE)
        BY <2>1, <2>3 DEF BlockEnd
      <3>2. Line(r, n) = [[r EXCEPT !.depth = 0] EXCEPT !.units = Append(r.units, <<r.start, n, TRUE>>)]
        BY <1>1, <2>3, <3>1 DEF Reading, Unit
      <3> DEFINE us == Append(r.units, <<r.start, n, TRUE>>)
      <3>3. us \in Seq(Triple) /\ Line(r, n) = [[r EXCEPT !.depth = 0] EXCEPT !.units = us]
        BY <1>1, <3>2
      <3> DEFINE q == [[r EXCEPT !.depth = 0] EXCEPT !.units = us]
      <3> HIDE DEF us
      <3>4. q \in Reading /\ q.depth = 0 /\ q.comment = r.comment /\ q.start = r.start
            /\ q.units = us /\ q.failed = r.failed
        BY <3>3 DEF Reading
      <3> HIDE DEF q
      <3>5. Line(r, n) = q
        BY <3>3 DEF q
      <3>6. IsReading(Line(r, n), 0, FALSE, r.start, us)
        BY <1>7, <3>4, <3>5 DEF IsReading
      <3>7. QED BY <3>6 DEF us
    <2>4. ASSUME r.depth > 1 PROVE IsReading(Line(r, n), r.depth - 1, FALSE, r.start, r.units)
      <3>1. Line(r, n) = [r EXCEPT !.depth = r.depth - 1]
        <4>1. r.depth # 0 /\ r.depth # 1
          BY <1>1, <2>4
        <4>2. QED BY <2>1, <4>1 DEF BlockEnd
      <3>2. r.depth - 1 \in Nat
        BY <1>1, <2>4
      <3>3. QED BY <1>1, <1>7, <3>1, <3>2 DEF Reading, IsReading
    <2>5. QED BY <2>2, <2>3, <2>4
  <1>8. QED BY <1>2, <1>3, <1>4, <1>5, <1>6, <1>7

LEMMA LineKeeps ==
  ASSUME body \in Seq(Kinds), WellFormed, NEW n \in 1..Len(body),
         NEW r \in Reading, ~r.failed => Knows(r, n - 1)
  PROVE  Line(r, n) \in Reading /\ (~Line(r, n).failed => Knows(Line(r, n), n))
  <1>0. CASE r.failed
    BY <1>0 DEF Line
  <1> SUFFICES ASSUME ~r.failed
               PROVE  Line(r, n) \in Reading /\ (~Line(r, n).failed => Knows(Line(r, n), n))
    BY <1>0
  <1>1. /\ r.depth \in Nat /\ r.start \in Nat /\ r.units \in Seq(Triple)
        /\ n \in Nat /\ n - 1 \in Nat /\ n - 1 + 1 = n /\ Len(body) \in Nat
        /\ body[n] \in Kinds
    BY DEF Reading
  <1>2. /\ r.depth = Depth(n - 1) /\ (r.comment <=> Commented(n))
        /\ r.depth > 0 => 1 <= r.start /\ r.start <= n - 1 /\ Depth(r.start - 1) = 0
        /\ UnitsTo(r.units, IF r.depth = 0 THEN n - 1 ELSE r.start - 1)
        /\ InUnits(r, n - 1)
    BY <1>1 DEF Knows
  <1>3. Depth(n) = IF Commented(n) THEN r.depth
                   ELSE IF body[n] = "section" THEN r.depth + 1
                   ELSE IF body[n] = "end" THEN r.depth - 1
                   ELSE r.depth
    BY <1>2, Depths
  <1>4. Commented(n + 1) <=> IF Commented(n) THEN body[n] # "close" ELSE body[n] = "open"
    BY Comments
  <1>5. \A i \in Context : i \in 1..Len(body) /\ Depth(i) = 0 /\ ~Commented(i) /\ body[i] \in {"code", "note"}
    BY DEF Context
  <1>6. \A i \in 1..n : i = n \/ i \in 1..(n - 1)
    BY <1>1
  <1>7. PICK q : q = Line(r, n)
    OBVIOUS
  \* A line that opens and closes nothing, and is no unit.
  <1>8. ASSUME IsReading(q, r.depth, Commented(n + 1), r.start, r.units), Depth(n) = r.depth,
               n \notin Context,
               CommentsInBlocks => (Commented(n + 1) => r.depth > 0)
                                   /\ (body[n] # "blank" => r.depth > 0)
        PROVE  q \in Reading /\ Knows(q, n)
    <2>1. /\ q \in Reading /\ q.depth = r.depth /\ (q.comment <=> Commented(n + 1))
          /\ q.start = r.start /\ q.units = r.units
      BY <1>8 DEF IsReading
    <2>2. UnitsTo(q.units, IF q.depth = 0 THEN n ELSE q.start - 1)
      BY <1>1, <1>2, <2>1, MoreLines
    <2>3. \A i \in Context : i <= n => IsLine(q.units, i)
      BY <1>1, <1>2, <1>5, <1>6, <1>8, <2>1 DEF InUnits
    <2>4. ASSUME CommentsInBlocks, NEW i \in 1..n, body[i] # "blank"
          PROVE  InUnit(q.units, i) \/ (q.depth > 0 /\ q.start <= i)
      <3>1. CASE i = n
        BY <1>1, <1>2, <1>8, <2>1, <2>4, <3>1
      <3>2. CASE i \in 1..(n - 1)
        BY <1>2, <2>1, <2>4, <3>2 DEF InUnits
      <3>3. QED BY <1>6, <3>1, <3>2
    <2>5. CommentsInBlocks => (q.comment => q.depth > 0)
      BY <1>8, <2>1
    <2>6. InUnits(q, n)
      BY <2>3, <2>4, <2>5 DEF InUnits
    <2>7. q.depth > 0 => 1 <= q.start /\ q.start <= n /\ Depth(q.start - 1) = 0
      BY <1>1, <1>2, <2>1
    <2>8. QED BY <1>8, <2>1, <2>2, <2>6, <2>7 DEF Knows
  \* A unit of one line.
  <1>9. ASSUME IsReading(q, 0, Commented(n + 1), r.start, Append(r.units, <<n, n, FALSE>>)),
               Depth(n) = 0, r.depth = 0,
               CommentsInBlocks => ~Commented(n + 1)
        PROVE  q \in Reading /\ Knows(q, n)
    <2> DEFINE u == <<n, n, FALSE>>
    <2>1. /\ u \in Triple /\ u[1] = n /\ u[2] = n /\ ~u[3]
      BY <1>1 DEF Triple
    <2>2. IsUnit(u)
      BY <1>1, <1>2, <1>9, <2>1 DEF IsUnit
    <2>3. /\ q \in Reading /\ q.depth = 0 /\ (q.comment <=> Commented(n + 1))
          /\ q.start = r.start /\ q.units = Append(r.units, u)
      BY <1>9 DEF IsReading
    <2> HIDE DEF u
    <2>4. UnitsTo(r.units, n - 1)
      BY <1>2, <1>9
    <2>5. /\ UnitsTo(q.units, n)
          /\ \A i : InUnit(q.units, i) <=> InUnit(r.units, i) \/ (n <= i /\ i <= n)
          /\ \A i : IsLine(r.units, i) => IsLine(q.units, i)
          /\ IsLine(q.units, n)
      BY <1>1, <2>1, <2>2, <2>3, <2>4, AddUnit
    <2>6. \A i \in Context : i <= n => IsLine(q.units, i)
      BY <1>1, <1>2, <1>5, <1>6, <2>5 DEF InUnits
    <2>7. ASSUME CommentsInBlocks, NEW i \in 1..n, body[i] # "blank"
          PROVE  InUnit(q.units, i)
      <3>1. CASE i = n
        BY <1>1, <2>5, <3>1
      <3>2. CASE i \in 1..(n - 1)
        BY <1>2, <1>9, <2>5, <2>7, <3>2 DEF InUnits
      <3>3. QED BY <1>6, <3>1, <3>2
    <2>8. InUnits(q, n)
      BY <1>9, <2>3, <2>6, <2>7 DEF InUnits
    <2>9. QED BY <1>9, <2>3, <2>5, <2>8 DEF Knows
  <1>10. CASE r.comment
    <2>1. IsReading(q, r.depth, Commented(n + 1), r.start, r.units)
      BY <1>1, <1>2, <1>4, <1>7, <1>10, LineIs DEF IsReading
    <2>2. CommentsInBlocks => r.depth > 0
      BY <1>2, <1>10 DEF InUnits
    <2>3. n \notin Context /\ Depth(n) = r.depth
      BY <1>2, <1>3, <1>5, <1>10
    <2>4. QED BY <1>7, <1>8, <2>1, <2>2, <2>3
  <1>11. CASE ~r.comment /\ body[n] \in {"open", "note", "code"}
    <2>0. Depth(n) = r.depth
      BY <1>2, <1>3, <1>11
    <2>1. CASE r.depth = 0
      <3>1. IsReading(q, 0, Commented(n + 1), r.start, Append(r.units, <<n, n, FALSE>>))
        BY <1>1, <1>2, <1>4, <1>7, <1>11, <2>1, LineIs DEF IsReading
      <3>2. CommentsInBlocks => ~Commented(n + 1)
        BY <1>2, <1>4, <1>11, <2>0, <2>1 DEF CommentsInBlocks
      <3>3. QED BY <1>7, <1>9, <2>0, <2>1, <3>1, <3>2
    <2>2. CASE r.depth # 0
      <3>1. IsReading(q, r.depth, Commented(n + 1), r.start, r.units)
        BY <1>1, <1>2, <1>4, <1>7, <1>11, <2>2, LineIs DEF IsReading
      <3>2. r.depth > 0
        BY <1>1, <2>2
      <3>3. QED BY <1>5, <1>7, <1>8, <2>0, <2>2, <3>1, <3>2
    <2>3. QED BY <2>1, <2>2
  <1>12. CASE ~r.comment /\ body[n] = "blank"
    <2>1. IsReading(q, r.depth, Commented(n + 1), r.start, r.units)
      BY <1>1, <1>2, <1>4, <1>7, <1>12, LineIs DEF IsReading
    <2>2. ~Commented(n + 1) /\ Depth(n) = r.depth
      BY <1>2, <1>3, <1>4, <1>12
    <2>3. QED BY <1>5, <1>7, <1>8, <1>12, <2>1, <2>2
  <1>13. CASE ~r.comment /\ body[n] = "close"
    BY <1>2, <1>13 DEF WellFormed
  <1>14. CASE ~r.comment /\ body[n] = "section"
    <2>1. /\ q \in Reading /\ q.depth = r.depth + 1 /\ ~q.comment
          /\ q.start = (IF r.depth = 0 THEN n ELSE r.start) /\ q.units = r.units
      BY <1>1, <1>7, <1>14, LineIs DEF IsReading
    <2>2. q.depth = Depth(n) /\ ~Commented(n + 1) /\ q.depth > 0
      BY <1>1, <1>2, <1>3, <1>4, <1>14, <2>1
    <2>3. 1 <= q.start /\ q.start <= n /\ Depth(q.start - 1) = 0
      BY <1>1, <1>2, <2>1
    <2>4. UnitsTo(q.units, q.start - 1)
      BY <1>1, <1>2, <2>1
    <2>5. \A i \in Context : i <= n => IsLine(q.units, i)
      BY <1>1, <1>2, <1>5, <1>6, <1>14, <2>1 DEF InUnits
    <2>6. ASSUME CommentsInBlocks, NEW i \in 1..n, body[i] # "blank"
          PROVE  InUnit(q.units, i) \/ q.start <= i
      <3>1. CASE i = n
        BY <1>1, <2>3, <3>1
      <3>2. CASE i \in 1..(n - 1)
        BY <1>1, <1>2, <2>1, <2>6, <3>2 DEF InUnits
      <3>3. QED BY <1>6, <3>1, <3>2
    <2>7. InUnits(q, n)
      BY <2>1, <2>2, <2>5, <2>6 DEF InUnits
    <2>8. UnitsTo(q.units, IF q.depth = 0 THEN n ELSE q.start - 1)
      BY <2>2, <2>4
    <2>9. Knows(q, n)
      BY <2>1, <2>2, <2>3, <2>7, <2>8 DEF Knows
    <2>10. QED BY <1>7, <2>1, <2>9
  <1>15. CASE ~r.comment /\ body[n] = "end"
    <2>0. Depth(n) = r.depth - 1 /\ ~Commented(n + 1)
      BY <1>1, <1>2, <1>3, <1>4, <1>15
    <2>1. CASE r.depth = 0
      BY <1>1, <1>15, <2>1, LineIs
    <2>2. CASE r.depth = 1
      <3> DEFINE u == <<r.start, n, TRUE>>
      <3>1. u \in Triple /\ u[1] = r.start /\ u[2] = n /\ u[3]
        BY <1>1 DEF Triple
      <3>2. IsUnit(u)
        BY <1>1, <1>2, <2>0, <2>2, <3>1 DEF IsUnit
      <3>3. /\ q \in Reading /\ q.depth = 0 /\ ~q.comment
            /\ q.start = r.start /\ q.units = Append(r.units, u)
        <4>1. IsReading(q, 0, FALSE, r.start, Append(r.units, u))
          BY <1>1, <1>7, <1>15, <2>2, LineIs DEF u
        <4>2. QED BY <4>1 DEF IsReading
      <3> HIDE DEF u
      <3>4. UnitsTo(r.units, r.start - 1) /\ r.start - 1 \in Nat /\ r.start - 1 < r.start
        BY <1>1, <1>2, <2>2
      <3>5. /\ UnitsTo(q.units, n)
            /\ \A i : InUnit(q.units, i) <=> InUnit(r.units, i) \/ (r.start <= i /\ i <= n)
            /\ \A i : IsLine(r.units, i) => IsLine(q.units, i)
        BY <1>1, <3>1, <3>2, <3>3, <3>4, AddUnit
      <3>6. \A i \in Context : i <= n => IsLine(q.units, i)
        BY <1>1, <1>2, <1>5, <1>6, <1>15, <3>5 DEF InUnits
      <3>7. ASSUME CommentsInBlocks, NEW i \in 1..n, body[i] # "blank"
            PROVE  InUnit(q.units, i)
        <4>1. CASE i = n
          BY <1>1, <1>2, <2>2, <3>5, <4>1
        <4>2. CASE i \in 1..(n - 1)
          <5>1. InUnit(r.units, i) \/ r.start <= i
            BY <1>2, <3>7, <4>2 DEF InUnits
          <5>2. i <= n
            BY <1>1
          <5>3. QED BY <3>5, <5>1, <5>2
        <4>3. QED BY <1>6, <4>1, <4>2
      <3>8. InUnits(q, n)
        BY <3>3, <3>6, <3>7 DEF InUnits
      <3>9. Knows(q, n)
        BY <1>1, <2>0, <2>2, <3>3, <3>5, <3>8 DEF Knows
      <3>10. QED BY <1>7, <3>3, <3>9
    <2>3. CASE r.depth > 1
      <3>1. /\ q \in Reading /\ q.depth = r.depth - 1 /\ q.depth > 0 /\ ~q.comment
            /\ q.start = r.start /\ q.units = r.units
        <4>1. IsReading(q, r.depth - 1, FALSE, r.start, r.units)
          BY <1>1, <1>7, <1>15, <2>3, LineIs
        <4>2. QED BY <1>1, <2>3, <4>1 DEF IsReading
      <3>2. \A i \in Context : i <= n => IsLine(q.units, i)
        BY <1>1, <1>2, <1>5, <1>6, <1>15, <3>1 DEF InUnits
      <3>3. ASSUME CommentsInBlocks, NEW i \in 1..n, body[i] # "blank"
            PROVE  InUnit(q.units, i) \/ q.start <= i
        <4>1. CASE i = n
          BY <1>1, <1>2, <2>3, <3>1, <4>1
        <4>2. CASE i \in 1..(n - 1)
          BY <1>2, <3>1, <3>3, <4>2 DEF InUnits
        <4>3. QED BY <1>6, <4>1, <4>2
      <3>4. InUnits(q, n)
        BY <3>1, <3>2, <3>3 DEF InUnits
      <3>5. UnitsTo(q.units, IF q.depth = 0 THEN n ELSE q.start - 1)
        BY <1>1, <1>2, <2>3, <3>1
      <3>6. 1 <= q.start /\ q.start <= n /\ Depth(q.start - 1) = 0
        BY <1>1, <1>2, <2>3, <3>1
      <3>7. Knows(q, n)
        BY <2>0, <3>1, <3>4, <3>5, <3>6 DEF Knows
      <3>8. QED BY <1>7, <3>1, <3>7
    <2>4. QED BY <1>1, <2>1, <2>2, <2>3
  <1>16. QED BY <1>1, <1>10, <1>11, <1>12, <1>13, <1>14, <1>15 DEF Kinds

\* The units that the loop has made at the end.
LEMMA ScannedUnits ==
  ASSUME body \in Seq(Kinds), WellFormed, Balanced
  PROVE  /\ UnitsTo(Scanned.units, Len(body))
         /\ \A i \in Context : IsLine(Scanned.units, i)
         /\ CommentsInBlocks => \A i \in 1..Len(body) : body[i] # "blank" => InUnit(Scanned.units, i)
  <1> DEFINE Ok(n) == ScannedTo[n] \in Reading /\ (~ScannedTo[n].failed => Knows(ScannedTo[n], n))
             S == {n \in Nat : n <= Len(body) /\ ~Ok(n)}
  <1>1. /\ Len(body) \in Nat /\ ScannedTo[0] = Unread
        /\ \A n \in 1..Len(body) : ScannedTo[n] = Line(ScannedTo[n - 1], n)
    BY ScansExist
  <1>2. Ok(0)
    <2>1. /\ Unread \in Reading /\ Unread.depth = 0 /\ ~Unread.comment /\ Unread.units = <<>>
      BY DEF Unread, Reading
    <2>2. UnitsTo(<<>>, 0)
      BY DEF UnitsTo
    <2>3. InUnits(Unread, 0)
      <3>1. \A i \in Context : ~(i <= 0)
        BY <1>1 DEF Context
      <3>2. QED BY <2>1, <3>1 DEF InUnits
    <2>4. Depth(0) = 0 /\ ~Commented(0 + 1)
      BY Depths, Comments
    <2>5. Knows(Unread, 0)
      BY <2>1, <2>2, <2>3, <2>4 DEF Knows
    <2>6. QED BY <1>1, <2>1, <2>5
  <1>3. \A n \in 1..Len(body) : Ok(n - 1) => Ok(n)
    BY <1>1, LineKeeps
  <1> HIDE DEF Ok
  <1>4. S = {}
    <2> SUFFICES ASSUME S # {} PROVE FALSE
      OBVIOUS
    <2>1. PICK x \in S : \A y \in S : x <= y
      BY LeastExists
    <2>2. x # 0
      BY <1>2, <2>1
    <2>3. x \in 1..Len(body) /\ x - 1 \in Nat /\ x - 1 <= Len(body) /\ x - 1 \notin S
      BY <1>1, <2>1, <2>2
    <2>4. QED BY <1>3, <2>1, <2>3
  <1>5. Ok(Len(body))
    BY <1>1, <1>4
  <1>6. Scanned \in Reading /\ Knows(Scanned, Len(body)) /\ Scanned.depth = 0
    BY <1>5 DEF Ok, Scanned, Balanced
  <1>7. QED BY <1>1, <1>6 DEF Knows, InUnits, Context

-----------------------------------------------------------------------------
(* The second loop.                                                        *)

LEMMA SameBody ==
  ASSUME body' = body
  PROVE  /\ \A i : Depth(i)' = Depth(i)
         /\ Context' = Context /\ (WellFormed' <=> WellFormed)
         /\ CommentsInBlocks' <=> CommentsInBlocks
         /\ \A us, m : UnitsTo(us, m)' <=> UnitsTo(us, m)
         /\ \A c, m : Carries(c, m)' <=> Carries(c, m)
         /\ \A q, a, b : Piece(q, a, b)' <=> Piece(q, a, b)
  <1>1. \A i : (Commented(i)' <=> Commented(i))
    BY DEF Commented
  <1>2. \A i : Depth(i)' = Depth(i)
    BY DEF Depth, Commented
  <1>3. Context' = Context
    BY <1>1, <1>2 DEF Context
  <1>4. WellFormed' <=> WellFormed
    BY <1>1 DEF WellFormed
  <1>5. CommentsInBlocks' <=> CommentsInBlocks
    BY <1>2 DEF CommentsInBlocks
  <1>6. \A u : IsUnit(u)' <=> IsUnit(u)
    BY <1>2 DEF IsUnit
  <1>7. \A us, m : UnitsTo(us, m)' <=> UnitsTo(us, m)
    BY <1>6 DEF UnitsTo
  <1>8. \A c, m : Carries(c, m)' <=> Carries(c, m)
    BY <1>3 DEF Carries
  <1>9. \A q, a, b : Piece(q, a, b)' <=> Piece(q, a, b)
    BY <1>2, <1>8 DEF Piece
  <1>10. QED BY <1>2, <1>3, <1>4, <1>5, <1>7, <1>8, <1>9

LEMMA NoPartIs == NoPart \in Part /\ NoPart.carried = <<>> /\ NoPart.lines = <<>>
  BY DEF NoPart, Part

\* The last line of a part.
LEMMA PieceStops ==
  ASSUME NEW q, NEW a, NEW b, Piece(q, a, b)
  PROVE  /\ Len(q.lines) = b - a /\ q.lines # <<>> /\ Last(q.lines) = b /\ q # NoPart
         /\ \A k \in 1..(b - a) : q.lines[k] = a + k
  <1>1. a \in Nat /\ b \in Nat /\ a < b /\ q.lines = [k \in 1..(b - a) |-> a + k] /\ q.lines \in Seq(Nat)
    BY DEF Piece, Part
  <1>2. Len(q.lines) = b - a
    BY <1>1
  <1>3. q.lines # <<>> /\ q.lines[b - a] = b
    BY <1>1, <1>2
  <1>4. Last(q.lines) = b
    BY <1>2, <1>3 DEF Last
  <1>5. QED BY <1>1, <1>2, <1>3, <1>4, NoPartIs

LEMMA InvBegins == ASSUME SplitInit PROVE SplitInv
  <1>1. body \in Seq(Kinds)
    BY DEF SplitInit
  <1>2. units = <<>> /\ carried = <<>> /\ current = NoPart /\ parts = <<>> /\ prevStop = 0 /\ placing = "scan"
    BY DEF SplitInit, SplitBegin
  <1>3. Carries(<<>>, 0)
    <2>1. \A i \in Context : ~(i <= 0)
      BY <1>1 DEF Context
    <2>2. QED BY <2>1 DEF Carries
  <1>4. UnitsTo(<<>>, Len(body))
    BY <1>1 DEF UnitsTo
  <1>5. Formed
    BY <1>1, <1>2, Depths, NoPartIs DEF Formed, SplitInit
  <1>6. Standing
    BY <1>2, <1>3 DEF Standing, Parts, Stop
  <1>7. StillToPlace /\ Phases
    BY <1>2, <1>4 DEF StillToPlace, Phases, SplitInit
  <1>8. QED BY <1>5, <1>6, <1>7 DEF SplitInv

\* Standing, when the parts and what is placed stay.
LEMMA StandingStays ==
  ASSUME Standing, UNCHANGED <<body, carried, current, parts, prevStop>>
  PROVE  Standing'
  BY SameBody DEF Standing, Parts, Stop

LEMMA ScanKeeps == ASSUME SplitInv, Scan PROVE SplitInv'
  <1>1. /\ Balanced /\ placing' = "place" /\ units' = Scanned.units
        /\ UNCHANGED <<body, carried, current, parts, prevStop>> /\ placing = "scan"
    BY DEF Scan
  <1>2. prevStop = 0
    BY <1>1 DEF SplitInv, Phases, SplitBegin
  <1>3. /\ body \in Seq(Kinds) /\ WellFormed
    BY DEF SplitInv, Formed
  <1>4. /\ UnitsTo(units', Len(body))
        /\ \A i \in Context : IsLine(units', i)
        /\ CommentsInBlocks => \A i \in 1..Len(body) : body[i] # "blank" => InUnit(units', i)
    BY <1>1, <1>3, ScannedUnits
  <1>5. units' # <<>> => 0 < units'[1][1]
    <2>1. units' # <<>> => 1 \in 1..Len(units')
      BY <1>4 DEF UnitsTo
    <2>2. units' # <<>> => 1 <= units'[1][1] /\ units'[1] \in Triple
      BY <1>4, <2>1 DEF UnitsTo, IsUnit
    <2>3. QED BY <2>2 DEF Triple
  <1>6. Ahead'
    <2>1. CommentsInBlocks' => \A i \in 1..Len(body') : body'[i] # "blank" => InUnit(units', i)
      BY <1>1, <1>4, SameBody
    <2>2. \A i \in Context' : IsLine(units', i)
      BY <1>1, <1>4, SameBody
    <2>3. QED BY <2>1, <2>2 DEF Ahead, InUnit, IsLine
  <1>7. StillToPlace'
    BY <1>1, <1>2, <1>4, <1>5, <1>6, SameBody DEF StillToPlace
  <1>8. Formed'
    BY <1>1, SameBody DEF SplitInv, Formed
  <1>9. Phases'
    BY <1>1 DEF Phases
  <1>10. QED BY <1>1, <1>7, <1>8, <1>9, StandingStays DEF SplitInv

LEMMA RejectKeeps == ASSUME SplitInv, Reject PROVE SplitInv'
  <1>1. /\ placing' = "error" /\ UNCHANGED <<body, units, carried, current, parts, prevStop>> /\ placing = "scan"
    BY DEF Reject
  <1>2. Formed' /\ StillToPlace'
    BY <1>1, SameBody DEF SplitInv, Formed, StillToPlace
  <1>3. Phases'
    BY <1>1 DEF SplitInv, Phases, SplitBegin
  <1>4. QED BY <1>1, <1>2, <1>3, StandingStays DEF SplitInv

LEMMA NothingSplits == ASSUME SplitInv, UNCHANGED splitting PROVE SplitInv'
  <1>1. UNCHANGED <<body, units, carried, current, parts, prevStop, placing>>
    BY DEF splitting
  <1>2. Formed'
    BY <1>1, SameBody DEF SplitInv, Formed
  <1>3. StillToPlace'
    BY <1>1, SameBody DEF SplitInv, StillToPlace, Ahead, InUnit, IsLine
  <1>4. Phases'
    BY <1>1 DEF SplitInv, Phases, SplitBegin
  <1>5. QED BY <1>1, <1>2, <1>3, <1>4, StandingStays DEF SplitInv

\* A part that is closed stands after the others.
LEMMA OneMore ==
  ASSUME NEW q, body \in Seq(Kinds), parts \in Seq(Part), NEW a \in Nat,
         \A p \in Parts : Piece(parts[p], Stop(p - 1), Stop(p)),
         Piece(q, Stop(Len(parts)), a), parts' = Append(parts, q), body' = body
  PROVE  /\ parts' \in Seq(Part) /\ Stop(Len(parts))' = a
         /\ \A p \in Parts' : Piece(parts'[p], Stop(p - 1)', Stop(p)')
  <1>1. q \in Part /\ Last(q.lines) = a
    BY PieceStops DEF Piece
  <1>2. /\ parts' \in Seq(Part) /\ Len(parts') = Len(parts) + 1 /\ Len(parts) \in Nat
        /\ parts'[Len(parts) + 1] = q /\ \A p \in 1..Len(parts) : parts'[p] = parts[p]
    BY <1>1
  <1>n. PICK n \in Nat : n = Len(parts)
    BY <1>2
  <1>3. \A p \in 0..n : Stop(p)' = Stop(p)
    BY <1>2, <1>n DEF Stop
  <1>4. Stop(n + 1)' = a
    BY <1>1, <1>2, <1>n DEF Stop
  <1>5. ASSUME NEW p \in 1..n PROVE Piece(parts'[p], Stop(p - 1)', Stop(p)')
    <2>1. p - 1 \in 0..n /\ p \in 0..n /\ Stop(p - 1)' = Stop(p - 1) /\ Stop(p)' = Stop(p)
      BY <1>3
    <2>2. parts'[p] = parts[p] /\ Piece(parts[p], Stop(p - 1), Stop(p))
      <3>1. p \in Parts
        BY <1>n DEF Parts
      <3>2. QED BY <1>2, <1>n, <3>1
    <2>3. QED BY <2>1, <2>2
  <1>6. Piece(parts'[n + 1], Stop(n)', Stop(n + 1)')
    <2>1. Stop(n)' = Stop(n)
      BY <1>3
    <2>2. QED BY <1>2, <1>4, <1>n, <2>1
  <1>7. ASSUME NEW p \in Parts' PROVE Piece(parts'[p], Stop(p - 1)', Stop(p)')
    <2>1. p \in 1..n \/ (p = n + 1 /\ p - 1 = n)
      BY <1>2, <1>n DEF Parts
    <2>2. QED BY <1>5, <1>6, <2>1
  <1>8. Stop(Len(parts))' = a
    BY <1>2, <1>4, <1>n
  <1>9. QED BY <1>2, <1>7, <1>8

LEMMA FinishKeeps == ASSUME SplitInv, Finish PROVE SplitInv'
  <1>1. /\ placing' = "done" /\ current' = NoPart /\ placing = "place" /\ units = <<>>
        /\ UNCHANGED <<body, units, carried, prevStop>>
    BY DEF Finish
  <1>2. /\ body \in Seq(Kinds) /\ parts \in Seq(Part) /\ prevStop \in Nat
        /\ \A p \in Parts : Piece(parts[p], Stop(p - 1), Stop(p))
    BY DEF SplitInv, Formed, Standing
  <1>3. /\ parts' \in Seq(Part) /\ Stop(Len(parts))' = prevStop
        /\ \A p \in Parts' : Piece(parts'[p], Stop(p - 1)', Stop(p)')
    <2>1. CASE current = NoPart
      <3>1. parts' = parts /\ Stop(Len(parts)) = prevStop
        BY <2>1 DEF Finish, SplitInv, Standing
      <3>2. QED BY <1>2, <3>1 DEF Stop, Parts
    <2>2. CASE current # NoPart
      BY <1>1, <1>2, <2>2, OneMore DEF Finish, SplitInv, Standing
    <2>3. QED BY <2>1, <2>2
  <1>4. Standing'
    BY <1>1, <1>3, SameBody DEF SplitInv, Standing
  <1>5. Formed'
    BY <1>1, <1>3, NoPartIs, SameBody DEF SplitInv, Formed
  <1>6. StillToPlace'
    BY <1>1, SameBody DEF SplitInv, StillToPlace, Ahead, InUnit, IsLine
  <1>7. Phases'
    BY <1>1 DEF Phases
  <1>8. QED BY <1>4, <1>5, <1>6, <1>7 DEF SplitInv

\* The lines from one unit to the end of the next, after those of a part.
LEMMA Longer ==
  ASSUME NEW q \in Part, NEW ch \in Seq(Nat), NEW a \in Nat, NEW b \in Nat, NEW c \in Nat, a <= b, b < c,
         Carries(q.carried, a), Depth(a) = 0, Depth(c) = 0,
         Len(q.lines) = b - a, \A k \in 1..(b - a) : q.lines[k] = a + k,
         Len(ch) = c - b, \A k \in 1..(c - b) : ch[k] = b + k
  PROVE  Piece([q EXCEPT !.lines = q.lines \o ch], a, c)
  <1> DEFINE ls == q.lines \o ch
             r == [q EXCEPT !.lines = ls]
  <1>1. q.carried \in Seq(Nat) /\ q.lines \in Seq(Nat)
    BY DEF Part
  <1>2. /\ ls \in Seq(Nat) /\ Len(ls) = (b - a) + (c - b)
        /\ \A k \in 1..(b - a) : ls[k] = q.lines[k]
        /\ \A k \in 1..(c - b) : ls[(b - a) + k] = ch[k]
    <2>1. /\ ls \in Seq(Nat) /\ Len(ls) = Len(q.lines) + Len(ch)
          /\ \A k \in 1..(Len(q.lines) + Len(ch)) :
               ls[k] = IF k <= Len(q.lines) THEN q.lines[k] ELSE ch[k - Len(q.lines)]
      BY <1>1, ConcatProperties
    <2>2. \A k \in 1..(b - a) : k \in 1..(Len(q.lines) + Len(ch)) /\ k <= Len(q.lines)
      OBVIOUS
    <2>3. ASSUME NEW k \in 1..(c - b) PROVE ls[(b - a) + k] = ch[k]
      <3>1. PICK i \in Int : i = (b - a) + k
        OBVIOUS
      <3>2. i \in 1..(Len(q.lines) + Len(ch)) /\ ~(i <= Len(q.lines)) /\ i - Len(q.lines) = k
        BY <3>1
      <3>3. QED BY <2>1, <3>1, <3>2
    <2> HIDE DEF ls
    <2>4. QED BY <2>1, <2>2, <2>3
  <1>3. \A k \in 1..(c - a) : ls[k] = a + k
    <2> SUFFICES ASSUME NEW k \in 1..(c - a) PROVE ls[k] = a + k
      OBVIOUS
    <2>1. CASE k <= b - a
      BY <1>1, <1>2, <2>1
    <2>2. CASE k > b - a
      <3>1. k - (b - a) \in 1..(c - b) /\ (b - a) + (k - (b - a)) = k
        BY <2>2
      <3>2. ls[k] = ch[k - (b - a)] /\ ch[k - (b - a)] = b + (k - (b - a))
        BY <1>2, <3>1
      <3>3. b + (k - (b - a)) = a + k
        OBVIOUS
      <3>4. QED BY <3>2, <3>3
    <2>3. k <= b - a \/ k > b - a
      OBVIOUS
    <2>4. QED BY <2>1, <2>2, <2>3
  <1>4. ls = [k \in 1..(c - a) |-> a + k]
    <2>1. Len(ls) = c - a
      <3>1. (b - a) + (c - b) = c - a
        OBVIOUS
      <3>2. QED BY <1>2, <3>1
    <2>2. ls \in [1..Len(ls) -> Nat]
      BY <1>2, LenProperties
    <2>3. QED BY <1>3, <2>1, <2>2
  <1> HIDE DEF ls
  <1>5. r \in Part /\ r.carried = q.carried /\ r.lines = ls
    BY <1>2 DEF Part
  <1> HIDE DEF r
  <1>6. Piece(r, a, c)
    BY <1>4, <1>5 DEF Piece
  <1>7. QED BY <1>6 DEF r, ls

LEMMA PlaceKeeps == ASSUME SplitInv, Place PROVE SplitInv'
  <1>1. /\ body \in Seq(Kinds) /\ parts \in Seq(Part) /\ prevStop \in Nat /\ Depth(prevStop) = 0
        /\ current \in Part /\ Carries(carried, prevStop)
        /\ \A p \in Parts : Piece(parts[p], Stop(p - 1), Stop(p))
        /\ UnitsTo(units, Len(body)) /\ Ahead
    BY DEF SplitInv, Formed, Standing, StillToPlace, Place
  <1>2. PICK u \in Triple : u = Head(units) /\ u = units[1]
    BY <1>1 DEF UnitsTo, Place
  <1>3. /\ u[1] \in Nat /\ u[2] \in Nat /\ u[3] \in BOOLEAN
        /\ prevStop < u[1] /\ IsUnit(u) /\ u[2] <= Len(body)
    <2>1. units # <<>> /\ 1 \in 1..Len(units)
      BY <1>1 DEF Place, UnitsTo
    <2>2. u[1] \in Nat /\ u[2] \in Nat /\ u[3] \in BOOLEAN
      BY DEF Triple
    <2>3. IsUnit(units[1]) /\ units[1][2] <= Len(body)
      BY <1>1, <2>1 DEF UnitsTo
    <2>4. prevStop < units[1][1]
      BY <2>1 DEF SplitInv, StillToPlace
    <2>5. QED BY <1>2, <2>2, <2>3, <2>4
  <1>4. /\ prevStop < u[2] /\ u[1] <= u[2] /\ Depth(u[2]) = 0
        /\ ~u[3] => u[1] = u[2]
    BY <1>1, <1>3 DEF IsUnit
  <1>5. /\ parts' = Cut(u)
        /\ carried' = IF u[3] THEN carried ELSE carried \o <<u[1]>>
        /\ prevStop' = u[2] /\ units' = Tail(units) /\ units # <<>> /\ placing = "place"
        /\ UNCHANGED <<body, placing>>
    BY <1>2 DEF Place
  \* The units after this one.
  <1>7. /\ Len(units) \in Nat /\ Len(units) > 0 /\ units' \in Seq(Triple) /\ Len(units') = Len(units) - 1
        /\ \A k \in 1..Len(units') : k + 1 \in 1..Len(units) /\ units'[k] = units[k + 1]
    BY <1>1, <1>5 DEF UnitsTo
  <1>8. \A k \in 1..Len(units) : k = 1 \/ (k - 1 \in 1..Len(units') /\ u[2] < units[k][1] /\ units'[k - 1] = units[k])
    <2> SUFFICES ASSUME NEW k \in 1..Len(units), k # 1
        PROVE k - 1 \in 1..Len(units') /\ u[2] < units[k][1] /\ units'[k - 1] = units[k]
      OBVIOUS
    <2>1. k - 1 \in 1..Len(units') /\ (k - 1) + 1 = k /\ 1 \in 1..Len(units) /\ 1 < k
      BY <1>7
    <2>2. units[1][2] < units[k][1]
      BY <1>1, <2>1 DEF UnitsTo
    <2>3. units'[k - 1] = units[k]
      BY <1>7, <2>1
    <2>4. QED BY <1>2, <2>1, <2>2, <2>3
  <1>9. UnitsTo(units', Len(body))
    <2>1. \A k \in 1..Len(units') : IsUnit(units'[k]) /\ units'[k][2] <= Len(body)
      BY <1>1, <1>7 DEF UnitsTo
    <2>2. ASSUME NEW j \in 1..Len(units'), NEW k \in 1..Len(units'), j < k
          PROVE  units'[j][2] < units'[k][1]
      <3>1. j + 1 \in 1..Len(units) /\ k + 1 \in 1..Len(units) /\ j + 1 < k + 1
        BY <1>7, <2>2
      <3>2. units[j + 1][2] < units[k + 1][1]
        BY <1>1, <3>1 DEF UnitsTo
      <3>3. QED BY <1>7, <3>2
    <2>3. QED BY <1>7, <2>1, <2>2 DEF UnitsTo
  <1>10. units' # <<>> => u[2] < units'[1][1]
    BY <1>7, <1>8
  <1>11. \A i \in Int : u[2] < i /\ InUnit(units, i) => InUnit(units', i)
    <2> SUFFICES ASSUME NEW i \in Int, u[2] < i, InUnit(units, i) PROVE InUnit(units', i)
      OBVIOUS
    <2>1. PICK k \in 1..Len(units) : units[k][1] <= i /\ i <= units[k][2]
      BY DEF InUnit
    <2>2. k # 1
      BY <1>2, <1>3, <2>1
    <2>3. k - 1 \in 1..Len(units') /\ units'[k - 1] = units[k]
      BY <1>8, <2>2
    <2>4. QED BY <2>1, <2>3 DEF InUnit
  <1>12. \A i \in Int : u[2] < i /\ IsLine(units, i) => IsLine(units', i)
    <2> SUFFICES ASSUME NEW i \in Int, u[2] < i, IsLine(units, i) PROVE IsLine(units', i)
      OBVIOUS
    <2>1. PICK k \in 1..Len(units) : units[k][1] = i /\ units[k][2] = i /\ ~units[k][3]
      BY DEF IsLine
    <2>2. k # 1
      BY <1>2, <1>3, <2>1
    <2>3. k - 1 \in 1..Len(units') /\ units'[k - 1] = units[k]
      BY <1>8, <2>2
    <2>4. QED BY <2>1, <2>3 DEF IsLine
  <1>13. \A i \in Context : i \in Int /\ (u[2] < i => IsLine(units', i))
    BY <1>1, <1>3, <1>4, <1>12 DEF Ahead, Context
  <1>14. Ahead'
    <2>1. \A i \in Context' : prevStop' < i => IsLine(units', i)
      BY <1>5, <1>13, SameBody
    <2>2. ASSUME CommentsInBlocks', NEW i \in 1..Len(body'), prevStop' < i, body'[i] # "blank"
          PROVE  InUnit(units', i)
      <3>1. CommentsInBlocks /\ i \in 1..Len(body) /\ u[2] < i /\ body[i] # "blank"
        BY <1>5, <2>2, SameBody
      <3>2. i \in Int /\ prevStop < i
        BY <1>1, <1>3, <1>4, <3>1
      <3>3. QED BY <1>1, <1>11, <3>1, <3>2 DEF Ahead
    <2>3. QED BY <2>1, <2>2 DEF Ahead, InUnit, IsLine
  <1>15. StillToPlace'
    BY <1>5, <1>9, <1>10, <1>14, SameBody DEF StillToPlace
  \* The lines to repeat.
  <1>16. \A i \in Context : i <= u[2] => i <= prevStop \/ (i = u[1] /\ ~u[3])
    <2> SUFFICES ASSUME NEW i \in Context, i <= u[2], prevStop < i PROVE i = u[1] /\ ~u[3]
      BY <1>1 DEF Context
    <2>1. PICK k \in 1..Len(units) : units[k][1] = i /\ units[k][2] = i /\ ~units[k][3]
      BY <1>1 DEF Ahead, IsLine
    <2>2. k = 1
      BY <1>3, <1>8, <2>1 DEF Context
    <2>3. QED BY <1>2, <2>1, <2>2
  <1>17. Carries(carried', u[2])
    <2>1. carried \in Seq(1..prevStop) /\ carried \in Seq(1..u[2])
      <3>1. carried \in Seq(1..prevStop) /\ 1..prevStop \subseteq 1..u[2]
        BY <1>1, <1>3, <1>4 DEF Carries
      <3>2. QED BY <3>1, SeqMonotonic
    <2>2. CASE u[3]
      BY <1>1, <1>5, <1>16, <2>1, <2>2 DEF Carries
    <2>3. CASE ~u[3]
      <3>1. u[1] \in 1..u[2] /\ u[1] = u[2]
        BY <1>3, <1>4, <2>3 DEF IsUnit
      <3>2. /\ carried' \in Seq(1..u[2]) /\ Len(carried') = Len(carried) + 1 /\ Len(carried) \in Nat
            /\ carried'[Len(carried) + 1] = u[1]
            /\ \A k \in 1..Len(carried) : carried'[k] = carried[k] /\ carried[k] \in 1..prevStop
        <4>1. carried' = carried \o <<u[1]>>
          BY <1>5, <2>3
        <4>2. <<u[1]>> \in Seq(1..u[2]) /\ Len(<<u[1]>>) = 1 /\ <<u[1]>>[1] = u[1]
          BY <3>1
        <4>3. carried' \in Seq(1..u[2]) /\ Len(carried') = Len(carried) + 1 /\ Len(carried) \in Nat
          BY <2>1, <4>1, <4>2
        <4>4. carried'[Len(carried) + 1] = u[1] /\ \A k \in 1..Len(carried) : carried'[k] = carried[k]
          BY <2>1, <4>1, <4>2
        <4>5. \A k \in 1..Len(carried) : carried[k] \in 1..prevStop
          BY <2>1, ElementOfSeq
        <4>6. QED BY <4>3, <4>4, <4>5
      <3>3. ASSUME NEW j \in 1..Len(carried'), NEW k \in 1..Len(carried'), j < k
            PROVE  carried'[j] < carried'[k]
        <4>1. j \in 1..Len(carried) /\ (k \in 1..Len(carried) \/ k = Len(carried) + 1)
          BY <3>2, <3>3
        <4>2. CASE k \in 1..Len(carried)
          BY <1>1, <3>2, <3>3, <4>1, <4>2 DEF Carries
        <4>3. CASE k = Len(carried) + 1
          <5>1. carried'[j] \in 1..prevStop /\ carried'[k] = u[1]
            BY <3>2, <4>1, <4>3
          <5>2. QED BY <1>1, <1>3, <5>1
        <4>4. QED BY <4>1, <4>2, <4>3
      <3>4. ASSUME NEW i \in Context, i <= u[2] PROVE \E k \in 1..Len(carried') : carried'[k] = i
        <4>1. CASE i <= prevStop
          <5>1. PICK k \in 1..Len(carried) : carried[k] = i
            BY <1>1, <4>1 DEF Carries
          <5>2. QED BY <3>2, <5>1
        <4>2. CASE i = u[1]
          BY <3>2, <4>2
        <4>3. QED BY <1>16, <3>4, <4>1, <4>2
      <3>5. QED BY <3>2, <3>3, <3>4 DEF Carries
    <2>4. QED BY <1>3, <2>2, <2>3
  \* The parts.
  <1>18. PICK ch \in Seq(Nat) : /\ ch = Chunk(u) /\ Len(ch) = u[2] - prevStop
                               /\ \A k \in 1..(u[2] - prevStop) : ch[k] = prevStop + k
    <2>1. /\ [k \in 1..(u[2] - prevStop) |-> prevStop + k] \in Seq(Nat)
          /\ Len([k \in 1..(u[2] - prevStop) |-> prevStop + k]) = u[2] - prevStop
      <3>1. PICK n \in Nat : n = u[2] - prevStop
        BY <1>1, <1>3, <1>4
      <3>2. [k \in 1..n |-> prevStop + k] \in Seq(Nat) /\ Len([k \in 1..n |-> prevStop + k]) = n
        BY <1>1
      <3>3. QED BY <3>1, <3>2
    <2>2. QED BY <2>1 DEF Chunk
  <1>19. Overflows(u) => current # NoPart
    BY DEF Overflows
  <1>20. CASE Overflows(u) \/ current = NoPart
    <2>1. current' = [NewPart EXCEPT !.lines = NewPart.lines \o Chunk(u)]
      BY <1>2, <1>20 DEF Place
    <2>2. NewPart \in Part /\ NewPart.carried = carried /\ NewPart.lines = <<>>
      BY <1>1 DEF NewPart, Part, Carries
    <2>3. current' = [NewPart EXCEPT !.lines = NewPart.lines \o ch]
      BY <1>18, <2>1
    <2>4. Piece(current', prevStop, u[2])
      <3>1. PICK q \in Part : q = NewPart
        BY <2>2
      <3>2. /\ Carries(q.carried, prevStop) /\ prevStop <= prevStop /\ Len(q.lines) = prevStop - prevStop
            /\ \A k \in 1..(prevStop - prevStop) : q.lines[k] = prevStop + k
        BY <1>1, <2>2, <3>1
      <3>3. Piece([q EXCEPT !.lines = q.lines \o ch], prevStop, u[2])
        BY <1>1, <1>3, <1>4, <1>18, <3>2, Longer
      <3>4. QED BY <2>3, <3>1, <3>3
    <2>5. /\ parts' \in Seq(Part) /\ Stop(Len(parts))' = prevStop
          /\ \A p \in Parts' : Piece(parts'[p], Stop(p - 1)', Stop(p)')
      <3>1. CASE Overflows(u)
        <4>1. parts' = Append(parts, current) /\ Piece(current, Stop(Len(parts)), prevStop)
          BY <1>5, <1>19, <3>1 DEF Cut, SplitInv, Standing
        <4>2. QED BY <1>1, <1>5, <4>1, OneMore
      <3>2. CASE ~Overflows(u)
        <4>1. parts' = parts /\ Stop(Len(parts)) = prevStop
          BY <1>5, <1>20, <3>2 DEF Cut, SplitInv, Standing
        <4>2. QED BY <1>1, <4>1 DEF Stop, Parts
      <3>3. QED BY <3>1, <3>2
    <2>6. current' # NoPart /\ current' \in Part
      BY <2>4, PieceStops DEF Piece
    <2>7. Piece(current', Stop(Len(parts))', prevStop')
      BY <1>5, <2>4, <2>5
    <2>8. Standing'
      BY <1>5, <1>17, <2>5, <2>6, <2>7, NoPartIs, SameBody DEF Standing, NoPart
    <2>9. Formed'
      BY <1>3, <1>4, <1>5, <2>5, <2>6, SameBody DEF SplitInv, Formed
    <2>10. QED BY <1>5, <1>15, <2>8, <2>9 DEF SplitInv, Phases
  <1>21. CASE ~Overflows(u) /\ current # NoPart
    <2>1. current' = [current EXCEPT !.lines = current.lines \o Chunk(u)] /\ parts' = parts
      BY <1>2, <1>5, <1>21 DEF Place, Cut
    <2>2. PICK a \in Nat : a = Stop(Len(parts)) /\ Piece(current, a, prevStop)
      BY <1>21 DEF SplitInv, Standing, Piece
    <2>3. Piece(current', a, u[2])
      <3>1. /\ a <= prevStop /\ current \in Part /\ Carries(current.carried, a) /\ Depth(a) = 0
        BY <1>1, <2>2 DEF Piece
      <3>2. Len(current.lines) = prevStop - a /\ \A k \in 1..(prevStop - a) : current.lines[k] = a + k
        BY <2>2, PieceStops
      <3>3. Piece([current EXCEPT !.lines = current.lines \o ch], a, u[2])
        BY <1>1, <1>3, <1>4, <1>18, <3>1, <3>2, Longer
      <3>4. QED BY <1>18, <2>1, <3>3
    <2>4. current' # NoPart /\ current' \in Part
      BY <2>3, PieceStops DEF Piece
    <2>5. Stop(Len(parts))' = a /\ \A p \in Parts' : Piece(parts'[p], Stop(p - 1)', Stop(p)')
      BY <1>1, <2>1, <2>2 DEF Stop, Parts
    <2>6. Piece(current', Stop(Len(parts))', prevStop')
      BY <1>5, <2>3, <2>5
    <2>7. Standing'
      BY <1>5, <1>17, <2>4, <2>5, <2>6, SameBody DEF Standing, NoPart
    <2>8. Formed'
      BY <1>1, <1>3, <1>4, <1>5, <2>1, <2>4, SameBody DEF SplitInv, Formed
    <2>9. QED BY <1>5, <1>15, <2>7, <2>8 DEF SplitInv, Phases
  <1>22. QED BY <1>20, <1>21

LEMMA SplitInvHolds == SplitSpec => []SplitInv
  <1>1. ASSUME SplitInv, [SplitNext]_splitting PROVE SplitInv'
    BY <1>1, ScanKeeps, RejectKeeps, PlaceKeeps, FinishKeeps, NothingSplits DEF SplitNext
  <1>2. QED BY <1>1, InvBegins, PTL DEF SplitSpec

-----------------------------------------------------------------------------
LEMMA UnitsInOrder == ASSUME SplitInv PROVE UnitsFollow
  <1>1. UnitsTo(units, Len(body)) /\ Len(units) \in Nat /\ (units # <<>> => prevStop < units[1][1])
        /\ Carries(carried, prevStop)
    BY DEF SplitInv, StillToPlace, Standing, UnitsTo
  <1>2. \A k \in 1..Len(units) : units[k][1] <= units[k][2]
    BY <1>1 DEF UnitsTo, IsUnit
  <1>3. \A k \in 1..Len(units) - 1 : units[k][2] < units[k + 1][1]
    <2> SUFFICES ASSUME NEW k \in 1..Len(units) - 1 PROVE units[k][2] < units[k + 1][1]
      OBVIOUS
    <2>1. k \in 1..Len(units) /\ k + 1 \in 1..Len(units) /\ k < k + 1
      BY <1>1
    <2>2. QED BY <1>1, <2>1 DEF UnitsTo
  <1>4. ToSet(carried) \subseteq 1..prevStop
    <2>1. carried \in Seq(1..prevStop) /\ DOMAIN carried = 1..Len(carried)
      BY <1>1, LenProperties DEF Carries
    <2>2. QED BY <2>1, ElementOfSeq DEF ToSet
  <1>5. QED BY <1>1, <1>2, <1>3, <1>4 DEF UnitsFollow

LEMMA PartsInOrder == ASSUME SplitInv PROVE PartsFollow /\ PartsBalance
  BY DEF SplitInv, Standing, Piece, PartsFollow, PartsBalance

LEMMA NoLineIsLost == ASSUME SplitInv PROVE LinesSurvive
  <1> SUFFICES ASSUME Placed, CommentsInBlocks, NEW i \in (Stop(Len(parts)) + 1)..Len(body)
               PROVE  body[i] = "blank"
    BY DEF LinesSurvive
  <1>1. units = <<>> /\ current = NoPart /\ Ahead
    BY DEF SplitInv, Phases, StillToPlace, Placed
  <1>2. Stop(Len(parts)) = prevStop /\ prevStop \in Nat /\ body \in Seq(Kinds)
    BY <1>1 DEF SplitInv, Standing, Formed
  <1>3. ~InUnit(units, i)
    BY <1>1 DEF InUnit
  <1>4. i \in 1..Len(body) /\ prevStop < i
    BY <1>2
  <1>5. QED BY <1>1, <1>3, <1>4 DEF Ahead

LEMMA ContextStands == ASSUME SplitInv PROVE ContextKept
  <1> SUFFICES ASSUME NEW p \in Parts
               PROVE  /\ \A j, k \in DOMAIN All(p) : j < k => All(p)[j] < All(p)[k]
                      /\ \A i \in ToSet(parts[p].lines) : {j \in Context : j < i} \subseteq ToSet(All(p))
    BY DEF ContextKept
  <1>1. PICK a \in Nat, b \in Nat : Piece(parts[p], a, b)
    BY DEF SplitInv, Standing, Piece
  <1> DEFINE c == parts[p].carried
             l == parts[p].lines
             n == Len(c)
             all == All(p)
  <1>2. /\ c \in Seq(1..a) /\ n \in Nat /\ c \in Seq(Nat) /\ l \in Seq(Nat) /\ Len(l) = b - a /\ a < b
        /\ \A k \in 1..(b - a) : l[k] = a + k
        /\ \A k \in 1..n : c[k] \in 1..a
        /\ \A j, k \in 1..n : j < k => c[j] < c[k]
        /\ \A i \in Context : i <= a => \E k \in 1..n : c[k] = i
    <2>1. c \in Seq(1..a) /\ c \in Seq(Nat) /\ l \in Seq(Nat) /\ a < b
      BY <1>1 DEF Piece, Carries, Part
    <2>2. Len(l) = b - a /\ \A k \in 1..(b - a) : l[k] = a + k
      BY <1>1, PieceStops
    <2>3. /\ \A j, k \in 1..n : j < k => c[j] < c[k]
          /\ \A i \in Context : i <= a => \E k \in 1..n : c[k] = i
      BY <1>1 DEF Piece, Carries
    <2>4. \A k \in 1..n : c[k] \in 1..a
      BY <2>1, ElementOfSeq
    <2> HIDE DEF c, l
    <2>5. QED BY <2>1, <2>2, <2>3, <2>4
  <1>3. all = c \o l
    BY DEF All
  <1> HIDE DEF c, l, all
  <1>4. /\ DOMAIN all = 1..(n + (b - a))
        /\ \A k \in 1..(n + (b - a)) : all[k] = IF k <= n THEN c[k] ELSE l[k - n]
    <2>1. all \in Seq(Nat) /\ Len(all) = n + Len(l)
          /\ \A k \in 1..(n + Len(l)) : all[k] = IF k <= n THEN c[k] ELSE l[k - n]
      BY <1>2, <1>3, ConcatProperties
    <2>2. DOMAIN all = 1..Len(all)
      BY <2>1, LenProperties
    <2>3. QED BY <1>2, <2>1, <2>2
  <1> HIDE DEF n
  <1>5. ASSUME NEW k \in 1..(n + (b - a)), k > n PROVE all[k] = a + (k - n)
    <2>1. k - n \in 1..(b - a)
      BY <1>2, <1>5
    <2>2. QED BY <1>2, <1>4, <1>5, <2>1
  <1>6. ASSUME NEW j \in 1..(n + (b - a)), NEW k \in 1..(n + (b - a)), j < k PROVE all[j] < all[k]
    <2>1. CASE k <= n
      <3>1. j \in 1..n /\ k \in 1..n
        BY <1>2, <1>6, <2>1
      <3>2. all[j] = c[j] /\ all[k] = c[k]
        BY <1>2, <1>4, <3>1
      <3>3. QED BY <1>2, <1>6, <3>1, <3>2
    <2>2. CASE j <= n /\ k > n
      <3>1. j \in 1..n /\ all[j] = c[j]
        BY <1>2, <1>4, <2>2
      <3>0. all[j] \in 1..a
        BY <1>2, <3>1
      <3>2. all[k] = a + (k - n) /\ k - n > 0
        BY <1>2, <1>5, <2>2
      <3>3. QED BY <1>2, <3>0, <3>2
    <2>3. CASE j > n
      <3>1. all[j] = a + (j - n) /\ all[k] = a + (k - n)
        BY <1>2, <1>5, <1>6, <2>3
      <3>2. QED BY <1>2, <1>6, <3>1
    <2>4. QED BY <1>2, <2>1, <2>2, <2>3
  <1>7. ASSUME NEW i \in ToSet(l), NEW j \in Context, j < i PROVE j \in ToSet(all)
    <2>1. PICK m \in 1..(b - a) : i = a + m
      <3>1. DOMAIN l = 1..Len(l)
        BY <1>2, LenProperties
      <3>2. QED BY <1>2, <3>1 DEF ToSet
    <2>2. j \in Nat
      BY DEF Context
    <2>3. CASE j <= a
      <3>1. PICK k \in 1..n : c[k] = j
        BY <1>2, <2>3
      <3>2. k \in 1..(n + (b - a)) /\ all[k] = j
        BY <1>2, <1>4, <3>1
      <3>3. QED BY <1>4, <3>2 DEF ToSet
    <2>4. CASE j > a
      <3>1. n + (j - a) \in 1..(n + (b - a)) /\ n + (j - a) > n
        BY <1>2, <1>7, <2>1, <2>2, <2>4
      <3>2. all[n + (j - a)] = a + (n + (j - a) - n)
        <4>1. PICK k \in 1..(n + (b - a)) : k = n + (j - a)
          BY <3>1
        <4>2. k > n
          BY <3>1, <4>1
        <4>3. all[k] = a + (k - n)
          BY <1>5, <4>2
        <4>4. all[n + (j - a)] = all[k]
          BY <4>1
        <4>5. a + (k - n) = a + (n + (j - a) - n)
          BY <1>2, <2>2, <4>1
        <4>6. QED BY <4>3, <4>4, <4>5
      <3>3. a + (n + (j - a) - n) = j
        BY <1>2, <2>2
      <3>4. QED BY <1>4, <3>1, <3>2, <3>3 DEF ToSet
    <2>5. QED BY <2>2, <2>3, <2>4
  <1>8. QED BY <1>4, <1>6, <1>7 DEF all, l

\* The parts that split_module makes of a body have each of its lines once and in
\* place, begin with whatever stood before them at namespace level, and open and close
\* their own blocks: for a body of any length, with any nesting, and any max_lines.
THEOREM PartsHold == SplitSpec => []PartsAreWhole
  <1>1. SplitInv => PartsAreWhole
    BY UnitsInOrder, PartsInOrder, NoLineIsLost, ContextStands DEF PartsAreWhole
  <1>2. QED BY <1>1, SplitInvHolds, PTL

-----------------------------------------------------------------------------
(* strip_comments, and Lean on the same text.                              *)

\* What a text, or what is left of one, is made of.
Characters == STRING \cup {"/", "-", "newline", "string", "literal"}

Modes == {"code", "comment", "line", "string", "escape", "literal"}

Holding == {<<>>, <<"/">>, <<"-">>}

LeanReading ==
  [in : Modes, held : Holding, depth : Nat, skip : Int, name : BOOLEAN, left : Seq(Characters),
   odd : SUBSET {"name", "escaped", "gap"}]

\* What Lean has read before the script's next character.
Before == LeanTo[IF point <= Len(text) + 1 THEN point - 1 ELSE Len(text)]

StripFormed ==
  /\ text \in Texts /\ out \in Seq(Characters) /\ point \in Nat \ {0} /\ depth \in Nat
  /\ loop \in {"text", "line", "string", "done"}
  /\ loop \in {"line", "string"} => depth = 0
  /\ loop = "line" => point <= Len(text) + 1
  /\ loop = "done" => point > Len(text)

\* In the outer loop: what is left is what Lean has read, and it holds no character
\* that makes a token of the next one. Lean may have to read the end of a line.
InText ==
  LET st == Before
  IN IF depth > 0
     THEN /\ st.in = "comment" /\ st.depth = depth /\ out = st.left
          /\ st.held = <<"/">> => Char # "-"
          /\ st.held = <<"-">> => Char # "/"
     ELSE \/ /\ st.in = "code" /\ out = st.left \o st.held
             /\ st.held # <<>> => Char # "-"
          \/ /\ st.in = "line" /\ out = st.left /\ (point <= Len(text) => Char = Newline)
          \/ st.in # "code" /\ out = st.left /\ point > Len(text)

\* The dashes that begin a line comment are still to be read, or one of them.
InALine ==
  LET st == Before
  IN /\ out = st.left
     /\ \/ st.in = "line"
        \/ /\ st.in = "code" /\ point <= Len(text) /\ Char = "-"
           /\ \/ st.held = <<>> /\ point < Len(text) /\ text[point + 1] = "-"
              \/ st.held = <<"-">>

InAString ==
  LET st == Before
  IN out = st.left /\ st.held = <<>> /\ (IF point <= Len(text) + 1 THEN st.in = "string" ELSE st.in # "code")

ReadAlike ==
  Before.odd = {} =>
    /\ loop = "text" => InText
    /\ loop = "line" => InALine
    /\ loop = "string" => InAString
    /\ loop = "done" => point > Len(text) /\ out = Before.left \o (IF Before.in = "code" THEN Before.held ELSE <<>>)

StripInv == StripFormed /\ ReadAlike

-----------------------------------------------------------------------------
LEMMA LeanExists ==
  ASSUME Len(text) \in Nat
  PROVE  LeanTo = [k \in 0..Len(text) |-> IF k = 0 THEN Start ELSE ReadLean(LeanTo[k - 1], k)]
  <1> DEFINE Ok(n, f) == f = [k \in 0..n |-> IF k = 0 THEN Start ELSE ReadLean(f[k - 1], k)]
             S == {n \in Nat : \A f : ~Ok(n, f)}
  <1>1. \E f : Ok(0, f)
    <2>1. Ok(0, [k \in 0..0 |-> Start])
      OBVIOUS
    <2>2. QED BY <2>1
  <1>2. ASSUME NEW n \in Nat, NEW f, Ok(n, f) PROVE \E g : Ok(n + 1, g)
    <2> DEFINE g == [k \in 0..(n + 1) |-> IF k = n + 1 THEN ReadLean(f[n], n + 1) ELSE f[k]]
    <2>1. \A k \in 0..(n + 1) : g[k] = IF k = 0 THEN Start ELSE ReadLean(g[k - 1], k)
      BY <1>2
    <2>2. Ok(n + 1, g)
      BY <2>1
    <2> HIDE DEF Ok
    <2>3. QED BY <2>2
  <1>3. \E f : Ok(Len(text), f)
    <2> HIDE DEF Ok
    <2>1. S = {}
      <3> SUFFICES ASSUME S # {} PROVE FALSE
        OBVIOUS
      <3>1. PICK x \in S : \A y \in S : x <= y
        BY LeastExists
      <3>2. x # 0
        BY <1>1, <3>1
      <3>3. x - 1 \in Nat /\ x - 1 \notin S
        BY <3>1, <3>2
      <3>4. PICK f : Ok(x - 1, f)
        BY <3>3
      <3>5. \E g : Ok(x - 1 + 1, g)
        BY <1>2, <3>3, <3>4
      <3>6. QED BY <3>1, <3>5
    <2>2. QED BY <2>1
  <1>4. QED BY <1>3 DEF LeanTo

LEMMA ReadingFields ==
  ASSUME NEW st \in LeanReading
  PROVE  /\ st.in \in Modes /\ st.held \in Holding /\ st.depth \in Nat /\ st.skip \in Int
         /\ st.name \in BOOLEAN /\ st.left \in Seq(Characters) /\ st.odd \in SUBSET {"name", "escaped", "gap"}
         /\ st.held \in Seq(Characters)
  <1>1. /\ st.in \in Modes /\ st.held \in Holding /\ st.depth \in Nat /\ st.skip \in Int
        /\ st.name \in BOOLEAN /\ st.left \in Seq(Characters) /\ st.odd \in SUBSET {"name", "escaped", "gap"}
    BY DEF LeanReading
  <1>2. st.held \in Seq(Characters)
    <2>1. "/" \in Characters /\ "-" \in Characters
      BY DEF Characters
    <2>2. <<>> \in Seq(Characters) /\ <<"/">> \in Seq(Characters) /\ <<"-">> \in Seq(Characters)
      BY <2>1
    <2>3. QED BY <1>1, <2>2 DEF Holding
  <1>3. QED BY <1>1, <1>2

\* A reading that differs in what its name says.
IsRead(q, mode, held, d, left) == q.in = mode /\ q.held = held /\ q.depth = d /\ q.left = left

LEMMA LeavesIs ==
  ASSUME NEW st \in LeanReading, NEW mode \in Modes, NEW s \in Seq(Characters)
  PROVE  /\ Leaves(st, mode, s) \in LeanReading
         /\ IsRead(Leaves(st, mode, s), mode, <<>>, st.depth, st.left \o st.held \o s)
         /\ Leaves(st, mode, s).odd = st.odd /\ Leaves(st, mode, s).skip = st.skip
  <1> DEFINE left == st.left \o st.held \o s
             q == Leaves(st, mode, s)
  <1>1. left \in Seq(Characters)
    BY ReadingFields, ConcatProperties
  <1>2. q = [st EXCEPT !.in = mode, !.held = <<>>, !.left = left, !.name = FALSE]
    BY DEF Leaves
  <1> HIDE DEF left
  <1>3. /\ q \in LeanReading /\ q.in = mode /\ q.held = <<>> /\ q.depth = st.depth /\ q.left = left
        /\ q.odd = st.odd /\ q.skip = st.skip
    BY <1>1, <1>2 DEF LeanReading, Holding
  <1>4. QED BY <1>3 DEF IsRead, left

LEMMA DropsIs ==
  ASSUME NEW st \in LeanReading, NEW mode \in Modes, NEW d \in Nat
  PROVE  /\ Drops(st, mode, d) \in LeanReading
         /\ IsRead(Drops(st, mode, d), mode, <<>>, d, st.left)
         /\ Drops(st, mode, d).odd = st.odd
  BY DEF Drops, LeanReading, Holding, IsRead

LEMMA OddIs ==
  ASSUME NEW st \in LeanReading, NEW things \in SUBSET {"name", "escaped", "gap"}
  PROVE  /\ Odd(st, things) \in LeanReading
         /\ IsRead(Odd(st, things), st.in, st.held, st.depth, st.left)
         /\ Odd(st, things).odd = st.odd \cup things /\ Odd(st, things).skip = st.skip
  BY DEF Odd, LeanReading, IsRead

\* Nothing is held in a literal.
Quiet(q) == q.in \notin {"code", "comment"} => q.held = <<>>

LEMMA CharactersRead ==
  ASSUME text \in Seq(Characters), NEW k \in 1..Len(text)
  PROVE  /\ text[k] \in Characters /\ At(text, k) = text[k] /\ <<text[k]>> \in Seq(Characters)
         /\ Lines(text[k]) \in Seq(Characters)
  <1>1. text[k] \in Characters /\ At(text, k) = text[k]
    BY DEF At
  <1>2. <<text[k]>> \in Seq(Characters)
    BY <1>1
  <1>3. Lines(text[k]) \in Seq(Characters)
    <2>1. Newline \in Characters
      BY DEF Newline, Characters
    <2>2. QED BY <2>1 DEF Lines
  <1>4. QED BY <1>1, <1>2, <1>3

LEMMA CodeIs ==
  ASSUME text \in Seq(Characters), NEW k \in 1..Len(text), NEW st \in LeanReading, st.in = "code"
  PROVE  LET q == ReadCode(st, k)
             c == text[k]
         IN /\ q \in LeanReading /\ Quiet(q) /\ (q.odd = {} => st.odd = {})
            /\ q.in = "comment" => q.depth > 0
            /\ st.held = <<"/">> /\ c = "-" => IsRead(q, "comment", <<>>, 1, st.left)
            /\ st.held = <<"-">> /\ c = "-" => IsRead(q, "line", <<>>, 0, st.left)
            /\ c \in {"/", "-"} /\ (c = "-" => st.held = <<>>) =>
                 IsRead(q, "code", <<c>>, st.depth, st.left \o st.held)
            /\ c = Quote => IsRead(q, "string", <<>>, st.depth, st.left \o st.held \o <<"string">>)
            /\ Literal(text, k) /\ q.odd = {} =>
                 IsRead(q, "literal", <<>>, st.depth, st.left \o st.held \o <<"literal">>) /\ q.skip = 2
            /\ c \notin {"/", "-", Quote} /\ ~Literal(text, k) /\ q.odd = {} =>
                 IsRead(q, "code", <<>>, st.depth, st.left \o st.held \o <<c>>)
  <1> DEFINE q == ReadCode(st, k)
             c == text[k]
             escaped == At(text, k + 1) = Escape /\ At(text, k + 3) = Prime
  <1>1. /\ c \in Characters /\ <<c>> \in Seq(Characters) /\ At(text, k) = c
        /\ st.held \in Holding /\ st.held \in Seq(Characters) /\ st.left \in Seq(Characters)
        /\ <<"string">> \in Seq(Characters) /\ <<"literal">> \in Seq(Characters)
    <2>1. "string" \in Characters /\ "literal" \in Characters
      BY DEF Characters
    <2>2. QED BY <2>1, CharactersRead, ReadingFields
  <1>2. Literal(text, k) => c = Prime /\ ~escaped
    BY <1>1 DEF Literal
  <1>3. /\ <<"/">> # <<"-">> /\ <<>> # <<"/">> /\ <<>> # <<"-">>
        /\ "-" \notin {Quote, Prime, "/"} /\ "/" \notin {Quote, Prime} /\ Quote # Prime
    BY DEF Quote, Prime
  <1>4. CASE st.held = <<"/">> /\ c = "-"
    <2>1. q = Drops(st, "comment", 1)
      BY <1>3, <1>4 DEF ReadCode
    <2>2. q \in LeanReading /\ IsRead(q, "comment", <<>>, 1, st.left) /\ q.odd = st.odd
      BY <2>1, DropsIs DEF Modes
    <2>3. QED BY <1>2, <1>3, <1>4, <2>2 DEF Quiet, IsRead
  <1>5. CASE st.held = <<"-">> /\ c = "-"
    <2>1. q = Drops(st, "line", 0)
      BY <1>5, <1>3 DEF ReadCode
    <2>2. q \in LeanReading /\ IsRead(q, "line", <<>>, 0, st.left) /\ q.odd = st.odd
      BY <2>1, DropsIs DEF Modes
    <2>3. QED BY <1>2, <1>3, <1>5, <2>2 DEF Quiet, IsRead
  <1>6. CASE c \in {"/", "-"} /\ (c = "-" => st.held = <<>>)
    <2> DEFINE p == Leaves(st, "code", <<>>)
    <2>1. q = [p EXCEPT !.held = <<c>>]
      BY <1>6, <1>3 DEF ReadCode
    <2>2. /\ p \in LeanReading /\ p.odd = st.odd
          /\ IsRead(p, "code", <<>>, st.depth, st.left \o st.held \o <<>>)
      <3>1. "code" \in Modes /\ <<>> \in Seq(Characters)
        BY DEF Modes
      <3>2. QED BY <3>1, LeavesIs
    <2>3. st.left \o st.held \o <<>> = st.left \o st.held
      BY <1>1, ConcatProperties
    <2> HIDE DEF p
    <2>4. <<c>> \in Holding
      BY <1>6 DEF Holding
    <2>5. q \in LeanReading /\ q.odd = st.odd /\ IsRead(q, "code", <<c>>, st.depth, st.left \o st.held)
      BY <2>1, <2>2, <2>3, <2>4 DEF LeanReading, IsRead
    <2>6. QED BY <1>2, <1>3, <1>6, <2>5 DEF Quiet, IsRead
  <1>7. CASE c = Quote
    <2>1. q = Leaves(st, "string", <<"string">>)
      BY <1>7, <1>3 DEF ReadCode
    <2>2. /\ q \in LeanReading /\ q.odd = st.odd
          /\ IsRead(q, "string", <<>>, st.depth, st.left \o st.held \o <<"string">>)
      <3>1. "string" \in Modes
        BY DEF Modes
      <3> HIDE DEF q, c
      <3>2. QED BY <1>1, <2>1, <3>1, LeavesIs
    <2>3. QED BY <1>2, <1>3, <1>7, <2>2 DEF Quiet, IsRead
  <1>8. CASE c = Prime /\ st.name
    <2> DEFINE p == Leaves(st, "code", <<c>>)
               r == [p EXCEPT !.name = TRUE]
               things == IF Literal(text, k) THEN {"name"} ELSE {}
    <2>1. q = Odd(r, things)
      BY <1>8, <1>3 DEF ReadCode
    <2>2. /\ p \in LeanReading /\ p.odd = st.odd
          /\ IsRead(p, "code", <<>>, st.depth, st.left \o st.held \o <<c>>)
      BY <1>1, LeavesIs DEF Modes
    <2> HIDE DEF p
    <2>3. /\ r \in LeanReading /\ r.odd = st.odd
          /\ IsRead(r, "code", <<>>, st.depth, st.left \o st.held \o <<c>>)
      BY <2>2 DEF LeanReading, IsRead
    <2>4. things \in SUBSET {"name", "escaped", "gap"} /\ (Literal(text, k) => things # {})
      OBVIOUS
    <2> HIDE DEF r, things
    <2>5. /\ q \in LeanReading /\ q.odd = st.odd \cup things
          /\ IsRead(q, "code", <<>>, st.depth, st.left \o st.held \o <<c>>)
      <3> HIDE DEF q, c
      <3>1. /\ q \in LeanReading /\ q.odd = r.odd \cup things /\ q.skip = r.skip
            /\ IsRead(q, r.in, r.held, r.depth, r.left)
        BY <2>1, <2>3, <2>4, OddIs
      <3>2. QED BY <2>3, <2>4, <3>1 DEF IsRead
    <2>6. Literal(text, k) => q.odd # {}
      BY <2>4, <2>5
    <2>7. QED BY <1>2, <1>3, <1>8, <2>5, <2>6 DEF Quiet, IsRead
  <1>9. CASE c = Prime /\ ~st.name /\ (escaped \/ Literal(text, k))
    <2> DEFINE p == Leaves(st, "literal", <<"literal">>)
               n == IF escaped THEN 3 ELSE 2
               r == [p EXCEPT !.skip = n]
               things == IF escaped THEN {"escaped"} ELSE {}
    <2>1. q = Odd(r, things)
      BY <1>9, <1>3 DEF ReadCode
    <2>2. /\ p \in LeanReading /\ p.odd = st.odd
          /\ IsRead(p, "literal", <<>>, st.depth, st.left \o st.held \o <<"literal">>)
      BY <1>1, LeavesIs DEF Modes
    <2>3. n \in Int /\ things \in SUBSET {"name", "escaped", "gap"} /\ (escaped => things # {})
      OBVIOUS
    <2> HIDE DEF p, n, things
    <2>4. /\ r \in LeanReading /\ r.odd = st.odd /\ r.skip = n
          /\ IsRead(r, "literal", <<>>, st.depth, st.left \o st.held \o <<"literal">>)
      BY <2>2, <2>3 DEF LeanReading, IsRead
    <2> HIDE DEF r
    <2>5. /\ q \in LeanReading /\ q.odd = st.odd \cup things /\ q.skip = n
          /\ IsRead(q, "literal", <<>>, st.depth, st.left \o st.held \o <<"literal">>)
      <3> HIDE DEF q, c
      <3>1. /\ q \in LeanReading /\ q.odd = r.odd \cup things /\ q.skip = r.skip
            /\ IsRead(q, r.in, r.held, r.depth, r.left)
        BY <2>1, <2>3, <2>4, OddIs
      <3>2. QED BY <2>3, <2>4, <3>1 DEF IsRead
    <2>6. /\ escaped => q.odd # {}
          /\ ~escaped => Literal(text, k) /\ n = 2
      BY <1>9, <2>3, <2>5 DEF n
    <2>7. QED BY <1>2, <1>3, <1>9, <2>5, <2>6 DEF Quiet, IsRead
  <1>10. CASE c \notin {"/", "-", Quote} /\ ~(c = Prime /\ (st.name \/ escaped \/ Literal(text, k)))
    <2> DEFINE p == Leaves(st, "code", <<c>>)
    <2>1. q = [p EXCEPT !.name = (c = Letter)]
      BY <1>10, <1>3 DEF ReadCode
    <2>2. /\ p \in LeanReading /\ p.odd = st.odd
          /\ IsRead(p, "code", <<>>, st.depth, st.left \o st.held \o <<c>>)
      BY <1>1, LeavesIs DEF Modes
    <2> HIDE DEF p
    <2>3. /\ q \in LeanReading /\ q.odd = st.odd
          /\ IsRead(q, "code", <<>>, st.depth, st.left \o st.held \o <<c>>)
      BY <2>1, <2>2 DEF LeanReading, IsRead
    <2>4. QED BY <1>2, <1>3, <1>10, <2>3 DEF Quiet, IsRead
  <1>11. c \in {"/", "-"} => \/ st.held = <<"/">> /\ c = "-"
                             \/ st.held = <<"-">> /\ c = "-"
                             \/ c = "-" => st.held = <<>>
    BY <1>1 DEF Holding
  <1>12. QED
    <2> HIDE DEF q, c, escaped
    <2>1. \/ st.held = <<"/">> /\ c = "-"
          \/ st.held = <<"-">> /\ c = "-"
          \/ c \in {"/", "-"} /\ (c = "-" => st.held = <<>>)
          \/ c = Quote
          \/ c = Prime /\ st.name
          \/ c = Prime /\ ~st.name /\ (escaped \/ Literal(text, k))
          \/ c \notin {"/", "-", Quote} /\ ~(c = Prime /\ (st.name \/ escaped \/ Literal(text, k)))
      BY <1>11
    <2>2. QED BY <2>1, <1>4, <1>5, <1>6, <1>7, <1>8, <1>9, <1>10

LEMMA CommentIs ==
  ASSUME text \in Seq(Characters), NEW k \in 1..Len(text), NEW st \in LeanReading,
         st.in = "comment", st.depth > 0
  PROVE  LET q == ReadComment(st, text[k])
             c == text[k]
         IN /\ q \in LeanReading /\ Quiet(q) /\ q.odd = st.odd
            /\ q.in = "comment" => q.depth > 0
            /\ st.held = <<"/">> /\ c = "-" => IsRead(q, "comment", <<>>, st.depth + 1, st.left)
            /\ st.held = <<"-">> /\ c = "/" =>
                 IsRead(q, IF st.depth = 1 THEN "code" ELSE "comment", <<>>, st.depth - 1, st.left)
            /\ ~(st.held = <<"/">> /\ c = "-") /\ ~(st.held = <<"-">> /\ c = "/") =>
                 IsRead(q, "comment", IF c \in {"/", "-"} THEN <<c>> ELSE <<>>, st.depth, st.left \o Lines(c))
  <1> DEFINE q == ReadComment(st, text[k])
             c == text[k]
  <1>1. /\ c \in Characters /\ <<c>> \in Seq(Characters) /\ Lines(c) \in Seq(Characters)
        /\ st.held \in Holding /\ st.left \in Seq(Characters) /\ st.depth \in Nat
    BY CharactersRead, ReadingFields
  <1>2. <<"/">> # <<"-">> /\ "-" # "/"
    OBVIOUS
  <1>3. CASE st.held = <<"/">> /\ c = "-"
    <2>1. q = Drops(st, "comment", st.depth + 1)
      BY <1>3 DEF ReadComment
    <2>2. q \in LeanReading /\ IsRead(q, "comment", <<>>, st.depth + 1, st.left) /\ q.odd = st.odd
      <3>1. st.depth + 1 \in Nat /\ "comment" \in Modes
        BY <1>1 DEF Modes
      <3> HIDE DEF q, c
      <3>2. QED BY <2>1, <3>1, DropsIs
    <2>3. QED BY <1>1, <1>2, <1>3, <2>2 DEF Quiet, IsRead
  <1>4. CASE st.held = <<"-">> /\ c = "/"
    <2> DEFINE mode == IF st.depth = 1 THEN "code" ELSE "comment"
    <2>1. q = Drops(st, mode, st.depth - 1) /\ mode \in Modes /\ st.depth - 1 \in Nat
      BY <1>1, <1>2, <1>4 DEF ReadComment, Modes
    <2>2. mode = "comment" => st.depth - 1 > 0
      BY <1>1
    <2> HIDE DEF mode
    <2>3. q \in LeanReading /\ IsRead(q, mode, <<>>, st.depth - 1, st.left) /\ q.odd = st.odd
      BY <2>1, DropsIs
    <2>4. Quiet(q) /\ (q.in = "comment" => q.depth > 0)
      BY <2>2, <2>3 DEF Quiet, IsRead
    <2>5. QED BY <1>2, <1>4, <2>3, <2>4 DEF mode
  <1>5. CASE ~(st.held = <<"/">> /\ c = "-") /\ ~(st.held = <<"-">> /\ c = "/")
    <2> DEFINE held == IF c \in {"/", "-"} THEN <<c>> ELSE <<>>
               left == st.left \o Lines(c)
    <2>1. q = [st EXCEPT !.held = held, !.left = left]
      BY <1>5 DEF ReadComment
    <2>2. held \in Holding /\ left \in Seq(Characters)
      BY <1>1, ConcatProperties DEF Holding
    <2> HIDE DEF held, left
    <2>3. q \in LeanReading /\ IsRead(q, "comment", held, st.depth, left) /\ q.odd = st.odd
      BY <2>1, <2>2 DEF LeanReading, IsRead
    <2>4. Quiet(q) /\ (q.in = "comment" => q.depth > 0)
      BY <2>3 DEF Quiet, IsRead
    <2>5. QED BY <1>5, <2>3, <2>4 DEF held, left
  <1>6. QED BY <1>3, <1>4, <1>5

LEMMA EndOfLineIs ==
  ASSUME text \in Seq(Characters), NEW k \in 1..Len(text), NEW st \in LeanReading, Quiet(st), st.in = "line"
  PROVE  LET q == ReadLean(st, k)
         IN /\ q \in LeanReading /\ Quiet(q) /\ q.odd = st.odd /\ q.in # "comment"
            /\ text[k] = Newline => IsRead(q, "code", <<>>, st.depth, st.left \o <<Newline>>)
            /\ text[k] # Newline => q = st
  <1> DEFINE q == ReadLean(st, k)
             c == text[k]
  <1>1. /\ <<c>> \in Seq(Characters) /\ st.left \in Seq(Characters) /\ st.held = <<>>
    BY CharactersRead, ReadingFields DEF Quiet
  <1>2. CASE c = Newline
    <2>1. q = Leaves(st, "code", <<c>>)
      BY <1>2 DEF ReadLean
    <2>2. "code" \in Modes
      BY DEF Modes
    <2> HIDE DEF q, c
    <2>3. q \in LeanReading /\ IsRead(q, "code", <<>>, st.depth, st.left \o st.held \o <<c>>) /\ q.odd = st.odd
      BY <1>1, <2>1, <2>2, LeavesIs
    <2>4. st.left \o st.held = st.left
      BY <1>1, ConcatProperties
    <2>5. QED BY <1>2, <2>3, <2>4 DEF Quiet, IsRead, q, c
  <1>3. CASE c # Newline
    <2>1. q = st
      BY <1>3 DEF ReadLean
    <2>2. QED BY <1>3, <2>1
  <1>4. QED BY <1>2, <1>3

LEMMA StringIs ==
  ASSUME text \in Seq(Characters), NEW k \in 1..Len(text), NEW st \in LeanReading, Quiet(st),
         st.in \in {"string", "escape"}
  PROVE  LET q == ReadLean(st, k)
             c == text[k]
         IN /\ q \in LeanReading /\ Quiet(q) /\ (q.odd = {} => st.odd = {}) /\ q.in # "comment"
            /\ st.in = "string" =>
                 IsRead(q, IF c = Quote THEN "code" ELSE IF c = Escape THEN "escape" ELSE "string",
                        <<>>, st.depth, st.left \o Lines(c))
            /\ st.in = "escape" /\ q.odd = {} => IsRead(q, "string", <<>>, st.depth, st.left)
  <1> DEFINE q == ReadLean(st, k)
             c == text[k]
  <1>1. /\ Lines(c) \in Seq(Characters) /\ st.left \in Seq(Characters) /\ st.held = <<>>
        /\ st.left \o <<>> = st.left
    <2>1. /\ Lines(c) \in Seq(Characters) /\ st.left \in Seq(Characters) /\ st.held = <<>>
      BY CharactersRead, ReadingFields DEF Quiet
    <2>2. QED BY <2>1, ConcatProperties
  <1>2. CASE st.in = "string"
    <2> DEFINE mode == IF c = Quote THEN "code" ELSE IF c = Escape THEN "escape" ELSE "string"
    <2>1. q = Leaves(st, mode, Lines(c)) /\ mode \in Modes \ {"comment"}
      BY <1>2 DEF ReadLean, Modes, Quote, Escape
    <2> HIDE DEF mode, q, c
    <2>2. q \in LeanReading /\ IsRead(q, mode, <<>>, st.depth, st.left \o st.held \o Lines(c)) /\ q.odd = st.odd
      BY <1>1, <2>1, LeavesIs
    <2>3. IsRead(q, mode, <<>>, st.depth, st.left \o Lines(c)) /\ Quiet(q) /\ q.in # "comment"
      BY <1>1, <2>1, <2>2 DEF IsRead, Quiet
    <2>4. QED BY <1>2, <2>2, <2>3 DEF mode, q, c
  <1>3. CASE st.in = "escape"
    <2> DEFINE p == Leaves(st, "string", Lines(c))
               things == IF c = Newline THEN {"gap"} ELSE {}
    <2>1. q = Odd(p, things)
      BY <1>3 DEF ReadLean
    <2>2. "string" \in Modes
      BY DEF Modes
    <2>3. things \in SUBSET {"name", "escaped", "gap"} /\ (things = {} => Lines(c) = <<>>)
      BY DEF Lines
    <2> HIDE DEF q, c, p, things
    <2>4. p \in LeanReading /\ IsRead(p, "string", <<>>, st.depth, st.left \o st.held \o Lines(c)) /\ p.odd = st.odd
      BY <1>1, <2>2, LeavesIs DEF p
    <2>5. q \in LeanReading /\ IsRead(q, p.in, p.held, p.depth, p.left) /\ q.odd = p.odd \cup things
      BY <2>1, <2>3, <2>4, OddIs
    <2>6. /\ Quiet(q) /\ (q.odd = {} => st.odd = {}) /\ q.in # "comment"
          /\ q.odd = {} => IsRead(q, "string", <<>>, st.depth, st.left)
      BY <1>1, <2>3, <2>4, <2>5 DEF IsRead, Quiet
    <2>7. QED BY <1>3, <2>5, <2>6 DEF q, c
  <1>4. QED BY <1>2, <1>3

LEMMA LiteralIs ==
  ASSUME text \in Seq(Characters), NEW k \in 1..Len(text), NEW st \in LeanReading, Quiet(st), st.in = "literal"
  PROVE  LET q == ReadLean(st, k)
         IN /\ q \in LeanReading /\ Quiet(q) /\ q.odd = st.odd /\ q.in # "comment"
            /\ IsRead(q, IF st.skip = 1 THEN "code" ELSE "literal", <<>>, st.depth, st.left)
            /\ q.skip = st.skip - 1
  <1> DEFINE q == ReadLean(st, k)
             mode == IF st.skip = 1 THEN "code" ELSE "literal"
             n == st.skip - 1
  <1>1. st.held = <<>> /\ st.skip \in Int /\ n \in Int /\ mode \in Modes \ {"comment"}
    BY ReadingFields DEF Quiet, Modes
  <1>2. q = [st EXCEPT !.skip = n, !.in = mode]
    BY DEF ReadLean
  <1> HIDE DEF mode, n
  <1>3. q \in LeanReading /\ IsRead(q, mode, <<>>, st.depth, st.left) /\ q.skip = n /\ q.odd = st.odd
    BY <1>1, <1>2 DEF LeanReading, IsRead
  <1> HIDE DEF q
  <1>4. Quiet(q) /\ q.in # "comment"
    BY <1>1, <1>3 DEF Quiet, IsRead
  <1>5. QED BY <1>3, <1>4 DEF q, mode, n

\* Every reading is one, holds characters in code and in comments only, and is as odd
\* as what was read before.
ReadsOn(k) ==
  /\ LeanTo[k] \in LeanReading /\ Quiet(LeanTo[k])
  /\ LeanTo[k].in = "comment" => LeanTo[k].depth > 0

LEMMA LeanGoesOn ==
  ASSUME text \in Seq(Characters), NEW k \in 1..Len(text), ReadsOn(k - 1)
  PROVE  ReadsOn(k) /\ LeanTo[k] = ReadLean(LeanTo[k - 1], k) /\ (LeanTo[k].odd = {} => LeanTo[k - 1].odd = {})
  <1> DEFINE st == LeanTo[k - 1]
             q == ReadLean(st, k)
  <1>1. LeanTo[k] = q
    <2>1. Len(text) \in Nat /\ k \in 0..Len(text) /\ k # 0
      OBVIOUS
    <2>2. QED BY <2>1, LeanExists
  <1>2. st \in LeanReading /\ Quiet(st) /\ (st.in = "comment" => st.depth > 0) /\ st.in \in Modes
    BY ReadingFields DEF ReadsOn
  <1> HIDE DEF st
  <1>3. q \in LeanReading /\ Quiet(q) /\ (q.odd = {} => st.odd = {}) /\ (q.in = "comment" => q.depth > 0)
    <2>1. CASE st.in = "code"
      <3>1. q = ReadCode(st, k)
        BY <2>1 DEF ReadLean
      <3> HIDE DEF q
      <3>2. /\ q \in LeanReading /\ Quiet(q) /\ (q.odd = {} => st.odd = {})
            /\ q.in = "comment" => q.depth > 0
        BY <1>2, <2>1, <3>1, CodeIs
      <3>3. QED BY <3>2
    <2>2. CASE st.in = "comment"
      <3>1. q = ReadComment(st, text[k])
        BY <2>2 DEF ReadLean
      <3> HIDE DEF q
      <3>2. QED BY <1>2, <2>2, <3>1, CommentIs
    <2>3. CASE st.in = "line"
      <3> HIDE DEF q
      <3>1. QED BY <1>2, <2>3, EndOfLineIs DEF q
    <2>4. CASE st.in \in {"string", "escape"}
      <3> HIDE DEF q
      <3>1. QED BY <1>2, <2>4, StringIs DEF q
    <2>5. CASE st.in = "literal"
      <3> HIDE DEF q
      <3>1. QED BY <1>2, <2>5, LiteralIs DEF q
    <2>6. QED BY <1>2, <2>1, <2>2, <2>3, <2>4, <2>5 DEF Modes
  <1>4. QED BY <1>1, <1>3 DEF ReadsOn, st

LEMMA LeanReads ==
  ASSUME text \in Seq(Characters)
  PROVE  /\ \A k \in 0..Len(text) : ReadsOn(k)
         /\ \A k \in 1..Len(text) : /\ LeanTo[k] = ReadLean(LeanTo[k - 1], k)
                                    /\ LeanTo[k].odd = {} => LeanTo[k - 1].odd = {}
  <1>1. ReadsOn(0) /\ Len(text) \in Nat
    <2>1. LeanTo[0] = Start /\ Len(text) \in Nat
      BY LeanExists
    <2>2. Start \in LeanReading /\ Start.in = "code"
      BY DEF Start, LeanReading, Modes, Holding
    <2>3. QED BY <2>1, <2>2 DEF ReadsOn, Quiet
  <1> DEFINE S == {k \in 0..Len(text) : ~ReadsOn(k)}
  <1>2. S = {}
    <2> SUFFICES ASSUME S # {} PROVE FALSE
      OBVIOUS
    <2>1. PICK x \in S : \A y \in S : x <= y
      <3>1. S \in SUBSET Nat
        BY <1>1
      <3> HIDE DEF S
      <3>2. QED BY <3>1, LeastExists
    <2>2. x \in 1..Len(text) /\ ~ReadsOn(x)
      BY <1>1
    <2>3. x - 1 \in 0..Len(text) /\ x - 1 \notin S
      BY <1>1, <2>1, <2>2
    <2>4. QED BY <2>2, <2>3, LeanGoesOn
  <1>3. \A k \in 0..Len(text) : ReadsOn(k)
    BY <1>2
  <1>4. ASSUME NEW k \in 1..Len(text)
        PROVE  LeanTo[k] = ReadLean(LeanTo[k - 1], k) /\ (LeanTo[k].odd = {} => LeanTo[k - 1].odd = {})
    <2>1. k - 1 \in 0..Len(text)
      BY <1>1
    <2>2. QED BY <1>3, <2>1, LeanGoesOn
  <1>5. QED BY <1>3, <1>4

LEMMA SameText ==
  ASSUME text' = text
  PROVE  LeanTo' = LeanTo /\ \A k : At(text', k) = At(text, k)
  BY DEF LeanTo, ReadLean, ReadCode, ReadComment

LEMMA ReadFacts ==
  ASSUME StripFormed
  PROVE  /\ text \in Seq(Characters) /\ Len(text) \in Nat /\ DOMAIN text = 1..Len(text)
         /\ \A k \in 1..Len(text) : At(text, k) = text[k]
         /\ \A k : At(text, k) # "end" => k \in 1..Len(text)
         /\ ReadsOn(IF point <= Len(text) + 1 THEN point - 1 ELSE Len(text))
         /\ out \o <<>> = out /\ Before.left \o <<>> = Before.left
  <1>1. text \in Seq(STRING)
    BY TextsAssumption DEF StripFormed
  <1>2. text \in Seq(Characters) /\ Len(text) \in Nat /\ DOMAIN text = 1..Len(text)
    <2>1. STRING \subseteq Characters
      BY DEF Characters
    <2>2. text \in Seq(Characters)
      BY <1>1, <2>1, SeqMonotonic
    <2>3. QED BY <2>2
  <1>3. /\ \A k \in 1..Len(text) : At(text, k) = text[k]
        /\ \A k : At(text, k) # "end" => k \in 1..Len(text)
    BY <1>2 DEF At
  <1> DEFINE b == IF point <= Len(text) + 1 THEN point - 1 ELSE Len(text)
  <1>4. b \in 0..Len(text)
    BY <1>2 DEF StripFormed
  <1>5. ReadsOn(b)
    BY <1>2, <1>4, LeanReads
  <1>6. Before = LeanTo[b]
    BY DEF Before
  <1> HIDE DEF b
  <1>7. Before.left \in Seq(Characters)
    BY <1>5, <1>6, ReadingFields DEF ReadsOn
  <1>8. out \o <<>> = out /\ Before.left \o <<>> = Before.left
    BY <1>7, ConcatProperties DEF StripFormed
  <1>9. QED BY <1>2, <1>3, <1>5, <1>8 DEF b

\* One, two or three characters further on.
LEMMA Further ==
  ASSUME StripFormed, text' = text, point <= Len(text)
  PROVE  /\ Char = text[point] /\ point \in 1..Len(text)
         /\ Before = LeanTo[point - 1] /\ ReadsOn(point - 1)
         /\ LeanTo[point] = ReadLean(Before, point) /\ ReadsOn(point)
         /\ LeanTo[point].odd = {} => Before.odd = {}
         /\ point' = point => Before' = Before /\ Char' = Char
         /\ point' = point + 1 => Before' = LeanTo[point] /\ Char' = At(text, point + 1)
         /\ point < Len(text) =>
              /\ LeanTo[point + 1] = ReadLean(LeanTo[point], point + 1) /\ ReadsOn(point + 1)
              /\ LeanTo[point + 1].odd = {} => LeanTo[point].odd = {}
              /\ point' = point + 2 => Before' = LeanTo[point + 1] /\ Char' = At(text, point + 2)
         /\ point + 2 <= Len(text) =>
              /\ LeanTo[point + 2] = ReadLean(LeanTo[point + 1], point + 2)
              /\ LeanTo[point + 2].odd = {} => LeanTo[point + 1].odd = {}
              /\ point' = point + 3 => Before' = LeanTo[point + 2] /\ Char' = At(text, point + 3)
  <1>1. /\ text \in Seq(Characters) /\ Len(text) \in Nat /\ point \in 1..Len(text)
        /\ At(text, point) = text[point]
    BY ReadFacts DEF StripFormed
  <1>2. /\ \A k \in 0..Len(text) : ReadsOn(k)
        /\ \A k \in 1..Len(text) : /\ LeanTo[k] = ReadLean(LeanTo[k - 1], k)
                                   /\ LeanTo[k].odd = {} => LeanTo[k - 1].odd = {}
    BY <1>1, LeanReads
  <1>3. /\ LeanTo' = LeanTo /\ Len(text') = Len(text)
        /\ \A k : At(text', k) = At(text, k)
    BY SameText
  <1>4. Before = LeanTo[point - 1] /\ point - 1 \in 0..Len(text)
    BY <1>1 DEF Before
  <1>5. \A n \in 0..(Len(text) + 1) : point' = n => Before' = LeanTo[n - 1]
    BY <1>3 DEF Before
  <1>6. Char = At(text, point) /\ Char' = At(text, point')
    BY <1>3 DEF Char
  <1>7. /\ point' = point => Before' = Before
        /\ point' = point + 1 => Before' = LeanTo[point]
        /\ point < Len(text) /\ point' = point + 2 => Before' = LeanTo[point + 1]
        /\ point + 2 <= Len(text) /\ point' = point + 3 => Before' = LeanTo[point + 2]
    <2>1. /\ point + 1 \in 0..(Len(text) + 1) /\ point + 1 - 1 = point /\ point \in 0..(Len(text) + 1)
          /\ point < Len(text) => point + 2 \in 0..(Len(text) + 1) /\ point + 2 - 1 = point + 1
          /\ point + 2 <= Len(text) => point + 3 \in 0..(Len(text) + 1) /\ point + 3 - 1 = point + 2
      BY <1>1
    <2>2. QED BY <1>4, <1>5, <2>1
  <1>8. /\ LeanTo[point] = ReadLean(Before, point) /\ ReadsOn(point) /\ ReadsOn(point - 1)
        /\ LeanTo[point].odd = {} => Before.odd = {}
    BY <1>1, <1>2, <1>4
  <1>9. ASSUME point < Len(text)
        PROVE  /\ LeanTo[point + 1] = ReadLean(LeanTo[point], point + 1) /\ ReadsOn(point + 1)
               /\ LeanTo[point + 1].odd = {} => LeanTo[point].odd = {}
    <2> DEFINE m == point + 1
    <2>1. m \in 1..Len(text) /\ m \in 0..Len(text) /\ m - 1 = point
      BY <1>1, <1>9
    <2> HIDE DEF m
    <2>2. LeanTo[m] = ReadLean(LeanTo[m - 1], m) /\ (LeanTo[m].odd = {} => LeanTo[m - 1].odd = {}) /\ ReadsOn(m)
      BY <1>2, <2>1
    <2>3. QED BY <2>1, <2>2 DEF m
  <1>10. ASSUME point + 2 <= Len(text)
         PROVE  /\ LeanTo[point + 2] = ReadLean(LeanTo[point + 1], point + 2)
                /\ LeanTo[point + 2].odd = {} => LeanTo[point + 1].odd = {}
    <2> DEFINE m == point + 2
    <2>1. m \in 1..Len(text) /\ m \in 0..Len(text) /\ m - 1 = point + 1
      BY <1>1, <1>10
    <2> HIDE DEF m
    <2>2. LeanTo[m] = ReadLean(LeanTo[m - 1], m) /\ (LeanTo[m].odd = {} => LeanTo[m - 1].odd = {}) /\ ReadsOn(m)
      BY <1>2, <2>1
    <2>3. QED BY <2>1, <2>2 DEF m
  <1>11. QED BY <1>1, <1>4, <1>6, <1>7, <1>8, <1>9, <1>10

LEMMA StaysFormed ==
  ASSUME StripFormed, StripNext
  PROVE  StripFormed'
  <1>1. /\ text \in Seq(Characters) /\ Len(text) \in Nat
        /\ \A k \in 1..Len(text) : At(text, k) \in Characters
    BY ReadFacts
  <1>2. ASSUME NEW s \in Seq(Characters), out' = out \o s PROVE out' \in Seq(Characters)
    BY <1>2, ConcatProperties DEF StripFormed
  <1>3. /\ <<>> \in Seq(Characters) /\ <<"string">> \in Seq(Characters) /\ <<"literal">> \in Seq(Characters)
        /\ \A c : Lines(c) \in Seq(Characters)
        /\ \A c \in Characters : <<c>> \in Seq(Characters)
    <2>1. "string" \in Characters /\ "literal" \in Characters /\ Newline \in Characters
      BY DEF Characters, Newline
    <2>2. QED BY <2>1 DEF Lines
  <1>4. out' \in Seq(Characters)
    <2>1. CASE OpenComment \/ CloseComment
      BY <2>1 DEF OpenComment, CloseComment, StripFormed
    <2>2. CASE InComment \/ LineComment \/ InLine \/ LineEnds \/ String \/ InString \/ StringEnds
               \/ CharLiteral \/ Stripped
      BY <1>2, <1>3, <2>2
      DEF InComment, LineComment, InLine, LineEnds, String, InString, StringEnds, CharLiteral, Stripped, Leave
    <2>3. CASE Copy
      <3>1. Char \in Characters
        BY <1>1, <2>3 DEF Copy, ReadsCode, Going, Char, StripFormed
      <3>2. QED BY <1>2, <1>3, <2>3, <3>1 DEF Copy, Leave
    <2>4. QED BY <2>1, <2>2, <2>3 DEF StripNext
  <1>5. QED
    <2>1. text' \in Texts /\ point' \in Nat \ {0} /\ depth' \in Nat /\ loop' \in {"text", "line", "string", "done"}
      BY <1>1 DEF StripNext, OpenComment, CloseComment, InComment, LineComment, InLine, LineEnds, String,
                  InString, StringEnds, CharLiteral, Copy, Stripped, Leave, StripFormed, Nested
    <2>2. /\ loop' \in {"line", "string"} => depth' = 0
          /\ loop' = "line" => point' <= Len(text') + 1
          /\ loop' = "done" => point' > Len(text')
      BY <1>1 DEF StripNext, OpenComment, CloseComment, InComment, LineComment, InLine, LineEnds, String,
                  InString, StringEnds, CharLiteral, Copy, Stripped, Leave, StripFormed, Going, ReadsCode
    <2>3. QED BY <1>4, <2>1, <2>2 DEF StripFormed

LEMMA OpeningReadAlike ==
  ASSUME StripInv, OpenComment
  PROVE  ReadAlike'
  <1>1. StripFormed /\ ReadAlike
    BY DEF StripInv
  <1>2. /\ text' = text /\ loop = "text" /\ loop' = "text" /\ point' = point + 2 /\ out' = out
        /\ depth' = depth + 1 /\ depth \in Nat /\ Char = "/" /\ At(text, point + 1) = "-" /\ point <= Len(text)
    BY <1>1 DEF OpenComment, Going, Two, Opens, Nested, StripFormed
  <1>3. /\ text \in Seq(Characters) /\ Len(text) \in Nat /\ point \in Nat
        /\ point + 1 \in 1..Len(text) /\ text[point + 1] = "-" /\ "-" # "end"
    BY <1>1, <1>2, ReadFacts DEF StripFormed
  <1> DEFINE st == Before
             q1 == LeanTo[point]
             q2 == LeanTo[point + 1]
  <1>4. /\ point \in 1..Len(text) /\ text[point] = "/" /\ ReadsOn(point - 1) /\ ReadsOn(point)
        /\ st = LeanTo[point - 1] /\ q1 = ReadLean(st, point) /\ q2 = ReadLean(q1, point + 1) /\ Before' = q2
        /\ q2.odd = {} => q1.odd = {} /\ st.odd = {}
    <2>1. point < Len(text)
      BY <1>3
    <2>2. QED BY <1>1, <1>2, <2>1, Further
  <1> HIDE DEF st, q1, q2
  <1>5. /\ st \in LeanReading /\ q1 \in LeanReading /\ (st.in = "comment" => st.depth > 0)
        /\ st.left \in Seq(Characters) /\ st.left \o <<>> = st.left
        /\ (q1.in = "comment" => q1.depth > 0)
    <2>1. st \in LeanReading /\ (st.in = "comment" => st.depth > 0) /\ q1 \in LeanReading /\ (q1.in = "comment" => q1.depth > 0)
      BY <1>4 DEF ReadsOn, q1
    <2>2. QED BY <2>1, ReadingFields, ConcatProperties
  <1>6. ASSUME q2.odd = {}
        PROVE  q2.in = "comment" /\ q2.depth = depth + 1 /\ q2.left = out /\ q2.held = <<>>
    <2>1. InText /\ q1.odd = {} /\ st.odd = {}
      BY <1>1, <1>2, <1>4, <1>6 DEF ReadAlike, st
    <2>2. CASE depth > 0
      <3>1. st.in = "comment" /\ st.depth = depth /\ out = st.left /\ st.held # <<"-">>
        BY <1>2, <2>1, <2>2 DEF InText, st
      <3>2. q1 = ReadComment(st, text[point])
        BY <1>4, <3>1 DEF ReadLean
      <3>3. Lines("/") = <<>>
        BY DEF Lines, Newline
      <3>4. IsRead(q1, "comment", <<"/">>, depth, st.left)
        <4>1. IsRead(q1, "comment", <<"/">>, st.depth, st.left \o Lines("/"))
          BY <1>3, <1>4, <1>5, <2>2, <3>1, <3>2, CommentIs
        <4>2. QED BY <1>5, <3>1, <3>3, <4>1
      <3>5. q2 = ReadComment(q1, text[point + 1])
        BY <1>4, <3>4 DEF ReadLean, IsRead
      <3>6. IsRead(q2, "comment", <<>>, depth + 1, st.left)
        <4>1. q1.in = "comment" /\ q1.held = <<"/">> /\ q1.depth = depth /\ q1.left = st.left
          BY <3>4 DEF IsRead
        <4>2. IsRead(q2, "comment", <<>>, q1.depth + 1, q1.left)
          BY <1>3, <1>5, <2>2, <3>5, <4>1, CommentIs
        <4>3. QED BY <4>1, <4>2
      <3>7. QED BY <3>1, <3>6 DEF IsRead
    <2>3. CASE depth = 0
      <3>1. st.in = "code" /\ out = st.left \o st.held
        <4>1. ~(depth > 0) /\ ~(point > Len(text)) /\ Char # Newline
          BY <1>2, <1>3, <2>3 DEF Newline
        <4>2. QED BY <1>2, <2>1, <4>1, Zenon DEF InText, st
      <3>2. q1 = ReadCode(st, point)
        BY <1>4, <3>1 DEF ReadLean
      <3>3. IsRead(q1, "code", <<"/">>, st.depth, st.left \o st.held)
        BY <1>3, <1>4, <1>5, <3>1, <3>2, CodeIs
      <3>4. q1.in = "code" /\ q1.held = <<"/">> /\ q1.left = out
        BY <3>1, <3>3 DEF IsRead
      <3>5. q2 = ReadCode(q1, point + 1)
        BY <1>4, <3>4 DEF ReadLean
      <3>6. IsRead(q2, "comment", <<>>, 1, q1.left)
        BY <1>3, <1>5, <3>4, <3>5, CodeIs
      <3>7. QED BY <2>3, <3>4, <3>6 DEF IsRead
    <2>4. QED BY <1>2, <2>2, <2>3
  <1>7. Before' = q2 /\ (q2.odd = {} => InText')
    <2>1. depth' > 0 /\ <<>> # <<"/">> /\ <<>> # <<"-">>
      BY <1>2
    <2>2. QED BY <1>2, <1>4, <1>6, <2>1 DEF InText
  <1>8. QED BY <1>2, <1>7 DEF ReadAlike

\* Where Lean is when the script reads a character.
LEMMA LeanAlike ==
  ASSUME StripInv, point <= Len(text), Before.odd = {}
  PROVE  /\ loop = "text" /\ depth > 0 =>
              /\ Before.in = "comment" /\ Before.depth = depth /\ out = Before.left
              /\ Before.held = <<"/">> => Char # "-"
              /\ Before.held = <<"-">> => Char # "/"
         /\ loop = "text" /\ depth = 0 =>
              \/ /\ Before.in = "code" /\ out = Before.left \o Before.held
                 /\ Before.held # <<>> => Char # "-"
              \/ Before.in = "line" /\ out = Before.left /\ Char = Newline
         /\ loop = "line" /\ Char # "-" => Before.in = "line" /\ out = Before.left
         /\ loop = "string" => Before.in = "string" /\ out = Before.left /\ Before.held = <<>>
  <1>1. Len(text) \in Nat /\ point \in Nat /\ StripFormed /\ depth \in Nat
    BY ReadFacts DEF StripInv, StripFormed
  <1>2. ~(point > Len(text)) /\ point <= Len(text) + 1
    BY <1>1
  <1>3. /\ loop = "text" => InText
        /\ loop = "line" => InALine
        /\ loop = "string" => InAString
    BY DEF StripInv, ReadAlike
  <1>4. ASSUME loop = "text", depth > 0
        PROVE  /\ Before.in = "comment" /\ Before.depth = depth /\ out = Before.left
               /\ Before.held = <<"/">> => Char # "-"
               /\ Before.held = <<"-">> => Char # "/"
    BY <1>3, <1>4 DEF InText
  <1>5. ASSUME loop = "text", depth = 0
        PROVE  \/ /\ Before.in = "code" /\ out = Before.left \o Before.held
                  /\ Before.held # <<>> => Char # "-"
               \/ Before.in = "line" /\ out = Before.left /\ Char = Newline
    <2>1. ~(depth > 0)
      BY <1>5
    <2>2. QED BY <1>2, <1>3, <1>5, <2>1, Zenon DEF InText
  <1>6. ASSUME loop = "line", Char # "-" PROVE Before.in = "line" /\ out = Before.left
    BY <1>3, <1>6, Zenon DEF InALine
  <1>7. ASSUME loop = "string" PROVE Before.in = "string" /\ out = Before.left /\ Before.held = <<>>
    BY <1>2, <1>3, <1>7, Zenon DEF InAString
  <1>8. QED BY <1>4, <1>5, <1>6, <1>7

LEMMA ClosingReadAlike ==
  ASSUME StripInv, CloseComment
  PROVE  ReadAlike'
  <1>1. StripFormed /\ ReadAlike
    BY DEF StripInv
  <1>2. /\ text' = text /\ loop = "text" /\ loop' = "text" /\ point' = point + 2 /\ out' = out
        /\ depth > 0 /\ depth' = depth - 1 /\ depth \in Nat
        /\ Char = "-" /\ At(text, point + 1) = "/" /\ point <= Len(text)
    BY <1>1 DEF CloseComment, Going, Two, Closes, StripFormed
  <1>3. /\ text \in Seq(Characters) /\ Len(text) \in Nat /\ point \in Nat
        /\ point + 1 \in 1..Len(text) /\ text[point + 1] = "/" /\ "-" # "end"
    BY <1>1, <1>2, ReadFacts DEF StripFormed
  <1> DEFINE st == Before
             q1 == LeanTo[point]
             q2 == LeanTo[point + 1]
  <1>4. /\ point \in 1..Len(text) /\ text[point] = "-" /\ ReadsOn(point - 1) /\ ReadsOn(point)
        /\ st = LeanTo[point - 1] /\ q1 = ReadLean(st, point) /\ q2 = ReadLean(q1, point + 1) /\ Before' = q2
        /\ q2.odd = {} => q1.odd = {} /\ st.odd = {}
    <2>1. point < Len(text)
      BY <1>3
    <2>2. QED BY <1>1, <1>2, <2>1, Further
  <1>5. ASSUME q2.odd = {}
        PROVE  /\ q2.in = IF depth = 1 THEN "code" ELSE "comment"
               /\ q2.depth = depth - 1 /\ q2.left = out /\ q2.held = <<>>
    <2>1. st.in = "comment" /\ st.depth = depth /\ out = st.left /\ st.held # <<"/">>
      BY <1>2, <1>4, <1>5, LeanAlike
    <2> HIDE DEF st, q1, q2
    <2>2. /\ st \in LeanReading /\ q1 \in LeanReading /\ st.left \in Seq(Characters) /\ st.left \o <<>> = st.left
      <3>1. st \in LeanReading /\ q1 \in LeanReading
        BY <1>4 DEF ReadsOn, q1
      <3>2. QED BY <3>1, ReadingFields, ConcatProperties
    <2>3. q1 = ReadComment(st, text[point])
      BY <1>4, <2>1 DEF ReadLean
    <2>4. Lines("-") = <<>>
      BY DEF Lines, Newline
    <2>5. IsRead(q1, "comment", <<"-">>, st.depth, st.left \o Lines("-"))
      BY <1>2, <1>3, <1>4, <2>1, <2>2, <2>3, CommentIs
    <2>6. q1.in = "comment" /\ q1.held = <<"-">> /\ q1.depth = depth /\ q1.left = out
      BY <2>1, <2>2, <2>4, <2>5 DEF IsRead
    <2>7. q2 = ReadComment(q1, text[point + 1])
      BY <1>4, <2>6 DEF ReadLean
    <2>8. IsRead(q2, IF q1.depth = 1 THEN "code" ELSE "comment", <<>>, q1.depth - 1, q1.left)
      BY <1>2, <1>3, <2>2, <2>6, <2>7, CommentIs
    <2>9. QED BY <2>6, <2>8 DEF IsRead
  <1> HIDE DEF st, q1, q2
  <1>6. Before' = q2 /\ (q2.odd = {} => InText')
    <2> SUFFICES ASSUME q2.odd = {} PROVE InText'
      BY <1>4
    <2>1. <<>> # <<"/">> /\ <<>> # <<"-">> /\ out \o <<>> = out
      BY <1>1, ReadFacts
    <2>2. CASE depth = 1
      <3>1. depth' = 0 /\ ~(depth' > 0)
        BY <1>2, <2>2
      <3>2. Before'.in = "code" /\ Before'.held = <<>> /\ out' = Before'.left \o Before'.held
        BY <1>2, <1>4, <1>5, <2>1, <2>2
      <3>3. QED BY <3>1, <3>2, Zenon DEF InText
    <2>3. CASE depth # 1
      <3>1. depth' > 0
        BY <1>2, <2>3
      <3>2. Before'.in = "comment" /\ Before'.held = <<>> /\ out' = Before'.left /\ Before'.depth = depth'
        BY <1>2, <1>4, <1>5, <2>1, <2>3
      <3>3. QED BY <2>1, <3>1, <3>2 DEF InText
    <2>4. QED BY <2>2, <2>3
  <1>7. QED BY <1>2, <1>6 DEF ReadAlike

LEMMA CommentReadAlike ==
  ASSUME StripInv, InComment
  PROVE  ReadAlike'
  <1>1. StripFormed /\ ReadAlike
    BY DEF StripInv
  <1>2. /\ text' = text /\ loop = "text" /\ loop' = "text" /\ point' = point + 1 /\ out' = out \o Lines(Char)
        /\ depth > 0 /\ depth' = depth /\ depth \in Nat /\ point <= Len(text)
        /\ ~(Char = "/" /\ At(text, point + 1) = "-") /\ ~(Char = "-" /\ At(text, point + 1) = "/")
    BY <1>1 DEF InComment, Going, Two, Opens, Closes, StripFormed, Leave
  <1> DEFINE st == Before
             q == LeanTo[point]
  <1>3. /\ point \in 1..Len(text) /\ text[point] = Char /\ ReadsOn(point - 1) /\ ReadsOn(point)
        /\ st = LeanTo[point - 1] /\ q = ReadLean(st, point) /\ Before' = q /\ Char' = At(text, point + 1)
        /\ q.odd = {} => st.odd = {}
        /\ text \in Seq(Characters)
    BY <1>1, <1>2, Further, ReadFacts
  <1>4. ASSUME q.odd = {}
        PROVE  InText'
    <2>1. /\ st.in = "comment" /\ st.depth = depth /\ out = st.left
          /\ st.held = <<"/">> => Char # "-"
          /\ st.held = <<"-">> => Char # "/"
      BY <1>2, <1>3, <1>4, LeanAlike
    <2> HIDE DEF st, q
    <2>2. st \in LeanReading
      BY <1>3 DEF ReadsOn
    <2>3. q = ReadComment(st, text[point])
      BY <1>3, <2>1 DEF ReadLean
    <2>4. IsRead(q, "comment", IF Char \in {"/", "-"} THEN <<Char>> ELSE <<>>, st.depth, st.left \o Lines(Char))
      BY <1>2, <1>3, <2>1, <2>2, <2>3, CommentIs
    <2>5. /\ q.in = "comment" /\ q.depth = depth' /\ out' = q.left
          /\ q.held = IF Char \in {"/", "-"} THEN <<Char>> ELSE <<>>
      BY <1>2, <2>1, <2>4 DEF IsRead
    <2>6. /\ q.held = <<"/">> => Char = "/"
          /\ q.held = <<"-">> => Char = "-"
      BY <2>5
    <2>7. /\ q.held = <<"/">> => Char' # "-"
          /\ q.held = <<"-">> => Char' # "/"
      BY <1>2, <1>3, <2>6
    <2>8. QED BY <1>2, <1>3, <2>5, <2>7 DEF InText
  <1>5. QED BY <1>2, <1>3, <1>4 DEF ReadAlike

LEMMA DashesReadAlike ==
  ASSUME StripInv, LineComment
  PROVE  ReadAlike'
  <1>1. StripFormed /\ ReadAlike
    BY DEF StripInv
  <1>2. /\ text' = text /\ loop = "text" /\ loop' = "line" /\ point' = point /\ out' = out \o <<>>
        /\ depth = 0 /\ Char = "-" /\ At(text, point + 1) = "-" /\ point <= Len(text)
    BY <1>1 DEF LineComment, ReadsCode, Going, Two, Dashes, StripFormed, Leave
  <1>3. /\ point < Len(text) /\ text[point + 1] = "-" /\ out' = out /\ point' <= Len(text') /\ point' < Len(text')
    <2>1. point + 1 \in 1..Len(text) /\ Len(text) \in Nat /\ point \in Nat /\ out' = out
      BY <1>1, <1>2, ReadFacts DEF StripFormed
    <2>2. QED BY <1>1, <1>2, <2>1, ReadFacts
  <1>4. Before' = Before /\ Char' = Char /\ text'[point' + 1] = "-"
    BY <1>1, <1>2, <1>3, Further
  <1>5. ASSUME Before.odd = {} PROVE InALine'
    <2>1. Before.in = "code" /\ out = Before.left \o Before.held /\ Before.held = <<>>
      BY <1>2, <1>5, LeanAlike DEF Newline
    <2>2. Before.left \o <<>> = Before.left
      BY <1>1, ReadFacts
    <2>3. Before'.in = "code" /\ Before'.held = <<>> /\ out' = Before'.left
      BY <1>3, <1>4, <2>1, <2>2
    <2>4. QED BY <1>2, <1>3, <1>4, <2>3 DEF InALine
  <1>6. QED BY <1>2, <1>4, <1>5 DEF ReadAlike

LEMMA LineReadAlike ==
  ASSUME StripInv, InLine
  PROVE  ReadAlike'
  <1>1. StripFormed /\ ReadAlike
    BY DEF StripInv
  <1>2. /\ text' = text /\ loop = "line" /\ loop' = "line" /\ point' = point + 1 /\ out' = out \o <<>>
        /\ Char # Newline /\ point <= Len(text)
    BY <1>1 DEF InLine, Going, StripFormed, Leave
  <1> DEFINE st == Before
             q == LeanTo[point]
  <1>3. /\ point \in 1..Len(text) /\ text[point] = Char /\ ReadsOn(point - 1)
        /\ st = LeanTo[point - 1] /\ q = ReadLean(st, point) /\ Before' = q /\ Char' = At(text, point + 1)
        /\ q.odd = {} => st.odd = {}
        /\ text \in Seq(Characters) /\ out' = out /\ Len(text) \in Nat
    BY <1>1, <1>2, Further, ReadFacts
  <1>4. ASSUME q.odd = {} PROVE InALine'
    <2>1. InALine /\ st.odd = {}
      BY <1>1, <1>2, <1>3, <1>4 DEF ReadAlike
    <2>2. st \in LeanReading /\ Quiet(st)
      BY <1>3 DEF ReadsOn
    <2>3. st.left \in Seq(Characters) /\ st.left \o <<>> = st.left
      BY <2>2, ReadingFields, ConcatProperties
    <2>4. out = st.left
      BY <2>1 DEF InALine
    <2>5. CASE st.in = "line"
      <3> HIDE DEF q, st
      <3>1. q = st
        BY <1>2, <1>3, <2>2, <2>5, EndOfLineIs
      <3>2. Before'.in = "line" /\ out' = Before'.left
        BY <1>3, <2>4, <2>5, <3>1
      <3>3. QED BY <3>2 DEF InALine
    <2>6. CASE st.in = "code" /\ Char = "-" /\ st.held = <<>> /\ point < Len(text) /\ text[point + 1] = "-"
      <3> HIDE DEF q, st
      <3>1. q = ReadCode(st, point)
        BY <1>3, <2>6 DEF ReadLean
      <3>2. IsRead(q, "code", <<"-">>, st.depth, st.left \o st.held)
        <4>1. text[point] = "-" /\ text[point] \in {"/", "-"}
          BY <1>3, <2>6
        <4>2. IsRead(q, "code", <<text[point]>>, st.depth, st.left \o st.held)
          BY <1>3, <2>2, <2>6, <3>1, <4>1, CodeIs
        <4>3. QED BY <4>1, <4>2
      <3>3. Before'.in = "code" /\ Before'.held = <<"-">> /\ out' = Before'.left
        BY <1>3, <2>3, <2>4, <2>6, <3>2 DEF IsRead
      <3>4. point' <= Len(text') /\ Char' = "-"
        BY <1>1, <1>2, <1>3, <2>6, ReadFacts
      <3>5. QED BY <3>3, <3>4 DEF InALine
    <2>7. CASE st.in = "code" /\ Char = "-" /\ st.held = <<"-">>
      <3> HIDE DEF q, st
      <3>1. q = ReadCode(st, point)
        BY <1>3, <2>7 DEF ReadLean
      <3>2. IsRead(q, "line", <<>>, 0, st.left)
        BY <1>3, <2>2, <2>7, <3>1, CodeIs
      <3>3. Before'.in = "line" /\ out' = Before'.left
        BY <1>3, <2>4, <3>2 DEF IsRead
      <3>4. QED BY <3>3 DEF InALine
    <2>8. QED BY <2>1, <2>5, <2>6, <2>7 DEF InALine
  <1>5. QED BY <1>2, <1>3, <1>4 DEF ReadAlike

LEMMA EndReadAlike ==
  ASSUME StripInv, LineEnds
  PROVE  ReadAlike'
  <1>1. StripFormed /\ ReadAlike
    BY DEF StripInv
  <1>2. /\ text' = text /\ loop = "line" /\ loop' = "text" /\ point' = point /\ out' = out \o <<>>
        /\ depth' = 0 /\ (point <= Len(text) => Char = Newline)
    BY <1>1 DEF LineEnds, StripFormed, Leave
  <1>3. Before' = Before /\ Char' = Char /\ Len(text') = Len(text) /\ out' = out
    BY <1>1, <1>2, SameText, ReadFacts DEF Before, Char
  <1>4. ASSUME Before.odd = {} PROVE InText'
    <2>1. /\ out = Before.left
          /\ \/ Before.in = "line"
             \/ Before.in = "code" /\ point <= Len(text) /\ Char = "-"
      BY <1>1, <1>2, <1>4 DEF ReadAlike, InALine
    <2>2. Before.in = "line"
      BY <1>2, <2>1 DEF Newline
    <2>3. ~(depth' > 0)
      BY <1>2
    <2>4. Before'.in = "line" /\ out' = Before'.left /\ (point' <= Len(text') => Char' = Newline)
      BY <1>2, <1>3, <2>1, <2>2
    <2>5. QED BY <2>3, <2>4, Zenon DEF InText
  <1>5. QED BY <1>2, <1>3, <1>4 DEF ReadAlike

LEMMA QuoteReadAlike ==
  ASSUME StripInv, String
  PROVE  ReadAlike'
  <1>1. StripFormed /\ ReadAlike
    BY DEF StripInv
  <1>2. /\ text' = text /\ loop = "text" /\ loop' = "string" /\ point' = point + 1 /\ out' = out \o <<"string">>
        /\ depth = 0 /\ Char = Quote /\ point <= Len(text)
    BY <1>1 DEF String, ReadsCode, Going, StripFormed, Leave
  <1> DEFINE st == Before
             q == LeanTo[point]
  <1>3. /\ point \in 1..Len(text) /\ text[point] = Char /\ ReadsOn(point - 1)
        /\ st = LeanTo[point - 1] /\ q = ReadLean(st, point) /\ Before' = q
        /\ q.odd = {} => st.odd = {}
        /\ text \in Seq(Characters) /\ Len(text) \in Nat
    BY <1>1, <1>2, Further, ReadFacts
  <1>4. ASSUME q.odd = {} PROVE InAString'
    <2>1. st.in = "code" /\ out = st.left \o st.held
      BY <1>2, <1>3, <1>4, LeanAlike DEF Newline, Quote
    <2> HIDE DEF st, q
    <2>2. st \in LeanReading
      BY <1>3 DEF ReadsOn
    <2>3. q = ReadCode(st, point)
      BY <1>3, <2>1 DEF ReadLean
    <2>4. IsRead(q, "string", <<>>, st.depth, st.left \o st.held \o <<"string">>)
      <3>1. text[point] = Quote
        BY <1>2, <1>3
      <3>2. /\ point \in 1..Len(text) /\ text \in Seq(Characters) /\ st.in = "code"
        BY <1>3, <2>1
      <3>3. IsRead(ReadCode(st, point), "string", <<>>, st.depth, st.left \o st.held \o <<"string">>)
        BY <2>2, <3>1, <3>2, CodeIs
      <3>4. QED BY <2>3, <3>3
    <2>5. Before'.in = "string" /\ Before'.held = <<>> /\ out' = Before'.left
      BY <1>2, <1>3, <2>1, <2>4 DEF IsRead
    <2>6. point' <= Len(text') + 1
      BY <1>2, <1>3
    <2>7. QED BY <2>5, <2>6 DEF InAString
  <1>5. QED BY <1>2, <1>3, <1>4 DEF ReadAlike

LEMMA StringReadAlike ==
  ASSUME StripInv, InString
  PROVE  ReadAlike'
  <1>1. StripFormed /\ ReadAlike
    BY DEF StripInv
  <1>2. /\ text' = text /\ loop = "string" /\ loop' = "string" /\ Char # Quote /\ point <= Len(text)
        /\ Char = Escape => point' = point + 2 /\ out' = out \o <<>>
        /\ Char # Escape => point' = point + 1 /\ out' = out \o Lines(Char)
    BY <1>1 DEF InString, Going, StripFormed, Leave
  <1> DEFINE st == Before
             q == LeanTo[point]
  <1>3. /\ point \in 1..Len(text) /\ text[point] = Char /\ ReadsOn(point - 1) /\ ReadsOn(point)
        /\ st = LeanTo[point - 1] /\ q = ReadLean(st, point)
        /\ point' = point + 1 => Before' = q
        /\ q.odd = {} => st.odd = {}
        /\ text \in Seq(Characters) /\ Len(text) \in Nat /\ out \o <<>> = out
    BY <1>1, <1>2, Further, ReadFacts
  <1>4. ASSUME q.odd = {}
        PROVE  IsRead(q, IF Char = Escape THEN "escape" ELSE "string", <<>>, st.depth, out \o Lines(Char))
    <2>1. st.in = "string" /\ out = st.left
      BY <1>2, <1>3, <1>4, LeanAlike
    <2> HIDE DEF st, q
    <2>2. st \in LeanReading /\ Quiet(st)
      BY <1>3 DEF ReadsOn
    <2>3. QED BY <1>2, <1>3, <2>1, <2>2, StringIs
  <1>5. CASE Char # Escape
    <2>1. Before' = q /\ point' <= Len(text') + 1
      BY <1>2, <1>3, <1>5
    <2>2. ASSUME q.odd = {} PROVE InAString'
      <3>1. Before'.in = "string" /\ Before'.held = <<>> /\ out' = Before'.left
        BY <1>2, <1>4, <1>5, <2>1, <2>2 DEF IsRead
      <3>2. QED BY <2>1, <3>1 DEF InAString
    <2>3. QED BY <1>2, <2>1, <2>2 DEF ReadAlike
  <1>6. CASE Char = Escape /\ point = Len(text)
    <2>1. Before' = q /\ ~(point' <= Len(text') + 1)
      <3>1. point' = Len(text) + 2 /\ LeanTo' = LeanTo /\ text' = text
        BY <1>2, <1>6, SameText
      <3>2. QED BY <1>3, <1>6, <3>1 DEF Before
    <2>2. Lines(Escape) = <<>>
      BY DEF Lines, Escape, Newline
    <2>3. ASSUME q.odd = {} PROVE InAString'
      <3>1. Before'.in # "code" /\ Before'.held = <<>> /\ out' = Before'.left
        BY <1>2, <1>3, <1>4, <1>6, <2>1, <2>2, <2>3 DEF IsRead
      <3>2. QED BY <2>1, <3>1 DEF InAString
    <2>4. QED BY <1>2, <2>1, <2>3 DEF ReadAlike
  <1>7. CASE Char = Escape /\ point < Len(text)
    <2> DEFINE p == LeanTo[point + 1]
    <2>1. /\ p = ReadLean(q, point + 1) /\ Before' = p /\ (p.odd = {} => q.odd = {})
          /\ point' <= Len(text') + 1 /\ point + 1 \in 1..Len(text)
      BY <1>1, <1>2, <1>3, <1>7, Further
    <2>2. Lines(Escape) = <<>>
      BY DEF Lines, Escape, Newline
    <2>3. ASSUME p.odd = {} PROVE InAString'
      <3>1. q.in = "escape" /\ q.left = out /\ q.odd = {}
        BY <1>3, <1>4, <1>7, <2>1, <2>2, <2>3 DEF IsRead
      <3>2. q \in LeanReading /\ Quiet(q)
        BY <1>3 DEF ReadsOn
      <3> HIDE DEF p, q
      <3>3. IsRead(p, "string", <<>>, q.depth, q.left)
        BY <1>3, <2>1, <2>3, <3>1, <3>2, StringIs
      <3>4. Before'.in = "string" /\ Before'.held = <<>> /\ out' = Before'.left
        BY <1>2, <1>3, <1>7, <2>1, <3>1, <3>3 DEF IsRead
      <3>5. QED BY <2>1, <3>4 DEF InAString
    <2>4. QED BY <1>2, <2>1, <2>3 DEF ReadAlike
  <1>8. QED BY <1>2, <1>3, <1>5, <1>6, <1>7

LEMMA StringEndReadAlike ==
  ASSUME StripInv, StringEnds
  PROVE  ReadAlike'
  <1>1. StripFormed /\ ReadAlike
    BY DEF StripInv
  <1>2. /\ text' = text /\ loop = "string" /\ loop' = "text" /\ point' = point + 1 /\ out' = out \o <<>>
        /\ (point <= Len(text) => Char = Quote) /\ depth = 0 /\ depth' = 0
    BY <1>1 DEF StringEnds, StripFormed, Leave
  <1>3. out' = out /\ Len(text) \in Nat /\ point \in Nat /\ text \in Seq(Characters) /\ ~(depth' > 0)
    BY <1>1, <1>2, ReadFacts DEF StripFormed
  <1>4. CASE point <= Len(text)
    <2> DEFINE st == Before
               q == LeanTo[point]
    <2>1. /\ point \in 1..Len(text) /\ text[point] = Char /\ ReadsOn(point - 1) /\ ReadsOn(point)
          /\ st = LeanTo[point - 1] /\ q = ReadLean(st, point) /\ Before' = q
          /\ q.odd = {} => st.odd = {}
      BY <1>1, <1>2, <1>4, Further
    <2>2. ASSUME q.odd = {} PROVE InText'
      <3>1. st.in = "string" /\ out = st.left
        BY <1>2, <1>4, <2>1, <2>2, LeanAlike
      <3> HIDE DEF st, q
      <3>2. st \in LeanReading /\ Quiet(st) /\ q \in LeanReading
        BY <2>1 DEF ReadsOn, q
      <3>3. text[point] = Quote /\ Lines(Quote) = <<>>
        BY <1>2, <1>4, <2>1 DEF Lines, Quote, Newline
      <3>4. IsRead(q, "code", <<>>, st.depth, st.left \o Lines(Quote))
        BY <1>3, <2>1, <3>1, <3>2, <3>3, StringIs
      <3>5. st.left \o <<>> = st.left
        BY <3>2, ReadingFields, ConcatProperties
      <3>6. q.in = "code" /\ q.left = out /\ q.held = <<>>
        BY <3>1, <3>3, <3>4, <3>5 DEF IsRead
      <3>7. Before'.in = "code" /\ out' = Before'.left \o Before'.held /\ Before'.held = <<>>
        BY <1>3, <2>1, <3>1, <3>5, <3>6
      <3>8. QED BY <1>3, <3>7, Zenon DEF InText
    <2>3. QED BY <1>2, <2>1, <2>2 DEF ReadAlike
  <1>5. CASE ~(point <= Len(text))
    <2>1. Before' = Before
      <3>1. point' = point + 1 /\ LeanTo' = LeanTo /\ text' = text
        BY <1>2, SameText
      <3>2. point = Len(text) + 1 => point - 1 = Len(text)
        BY <1>3
      <3>3. QED BY <1>3, <1>5, <3>1, <3>2 DEF Before
    <2>2. ASSUME Before.odd = {} PROVE InText'
      <3>1. InAString
        BY <1>1, <1>2, <2>2 DEF ReadAlike
      <3>2. Before.in # "code" /\ out = Before.left
        BY <3>1 DEF InAString
      <3>3. point' > Len(text') /\ Before'.in # "code" /\ out' = Before'.left
        BY <1>2, <1>3, <1>5, <2>1, <3>2
      <3>4. QED BY <1>3, <3>3, Zenon DEF InText
    <2>3. QED BY <1>2, <2>1, <2>2 DEF ReadAlike
  <1>6. QED BY <1>4, <1>5

LEMMA LiteralReadAlike ==
  ASSUME StripInv, CharLiteral
  PROVE  ReadAlike'
  <1>1. StripFormed /\ ReadAlike
    BY DEF StripInv
  <1>2. /\ text' = text /\ loop = "text" /\ loop' = "text" /\ point' = point + 3 /\ out' = out \o <<"literal">>
        /\ depth = 0 /\ depth' = 0 /\ Literal(text, point) /\ point <= Len(text)
        /\ Char = Prime /\ At(text, point + 2) = Prime
    BY <1>1 DEF CharLiteral, ReadsCode, Going, StripFormed, Leave, Literal, Char
  <1>3. /\ text \in Seq(Characters) /\ Len(text) \in Nat /\ point \in Nat
        /\ point + 2 \in 1..Len(text) /\ point < Len(text) /\ point + 2 <= Len(text) /\ point + 1 \in 1..Len(text)
        /\ ~(depth' > 0)
    <2>1. Prime # "end"
      BY DEF Prime
    <2>2. point + 2 \in 1..Len(text) /\ Len(text) \in Nat /\ point \in Nat /\ text \in Seq(Characters)
      BY <1>1, <1>2, <2>1, ReadFacts DEF StripFormed
    <2>3. QED BY <1>1, <1>2, <2>2 DEF StripFormed
  <1> DEFINE st == Before
             q1 == LeanTo[point]
             q2 == LeanTo[point + 1]
             q3 == LeanTo[point + 2]
  <1>4. /\ point \in 1..Len(text) /\ text[point] = Char
        /\ ReadsOn(point - 1) /\ ReadsOn(point) /\ ReadsOn(point + 1)
        /\ st = LeanTo[point - 1] /\ q1 = ReadLean(st, point) /\ q2 = ReadLean(q1, point + 1)
        /\ q3 = ReadLean(q2, point + 2) /\ Before' = q3
        /\ q3.odd = {} => q2.odd = {} /\ q1.odd = {} /\ st.odd = {}
    BY <1>1, <1>2, <1>3, Further
  <1>5. ASSUME q3.odd = {} PROVE InText'
    <2>1. st.in = "code" /\ out = st.left \o st.held /\ q1.odd = {}
      BY <1>2, <1>4, <1>5, LeanAlike DEF Newline, Prime
    <2> HIDE DEF st, q1, q2, q3
    <2>2. /\ st \in LeanReading /\ q1 \in LeanReading /\ Quiet(q1)
          /\ q2 \in LeanReading /\ Quiet(q2)
      BY <1>4 DEF ReadsOn, q1, q2
    <2>3. q1 = ReadCode(st, point)
      BY <1>4, <2>1 DEF ReadLean
    <2>4. IsRead(q1, "literal", <<>>, st.depth, st.left \o st.held \o <<"literal">>) /\ q1.skip = 2
      BY <1>2, <1>3, <1>4, <2>1, <2>2, <2>3, CodeIs
    <2>5. q1.in = "literal" /\ q1.left = out' /\ q1.skip # 1
      BY <1>2, <2>1, <2>4 DEF IsRead
    <2>6. IsRead(q2, "literal", <<>>, q1.depth, q1.left) /\ q2.skip = 1
      BY <1>3, <1>4, <2>2, <2>4, <2>5, LiteralIs
    <2>7. q2.in = "literal" /\ q2.left = out'
      BY <2>5, <2>6 DEF IsRead
    <2>8. IsRead(q3, "code", <<>>, q2.depth, q2.left)
      BY <1>3, <1>4, <2>2, <2>6, <2>7, LiteralIs
    <2>9. q2.left \o <<>> = q2.left
      BY <2>2, ReadingFields, ConcatProperties
    <2>10. Before'.in = "code" /\ Before'.held = <<>> /\ out' = Before'.left \o Before'.held
      BY <1>4, <2>7, <2>8, <2>9 DEF IsRead
    <2>11. QED BY <1>3, <2>10, Zenon DEF InText
  <1>6. QED BY <1>2, <1>4, <1>5 DEF ReadAlike

LEMMA CopyReadAlike ==
  ASSUME StripInv, Copy
  PROVE  ReadAlike'
  <1>1. StripFormed /\ ReadAlike
    BY DEF StripInv
  <1>2. /\ text' = text /\ loop = "text" /\ loop' = "text" /\ point' = point + 1 /\ out' = out \o <<Char>>
        /\ depth = 0 /\ depth' = 0 /\ ~Literal(text, point) /\ point <= Len(text) /\ Char # Quote
        /\ ~(Char = "/" /\ At(text, point + 1) = "-") /\ ~(Char = "-" /\ At(text, point + 1) = "-")
        /\ ~(depth' > 0)
    BY <1>1 DEF Copy, ReadsCode, Going, StripFormed, Leave, Two, Opens, Dashes
  <1> DEFINE st == Before
             q == LeanTo[point]
  <1>3. /\ point \in 1..Len(text) /\ text[point] = Char /\ ReadsOn(point - 1) /\ ReadsOn(point)
        /\ st = LeanTo[point - 1] /\ q = ReadLean(st, point) /\ Before' = q /\ Char' = At(text, point + 1)
        /\ q.odd = {} => st.odd = {}
        /\ text \in Seq(Characters) /\ Len(text) \in Nat
    BY <1>1, <1>2, Further, ReadFacts
  <1>4. ASSUME q.odd = {}
        PROVE  q.in = "code" /\ out' = q.left \o q.held /\ (q.held # <<>> => Char' # "-")
    <2>1. \/ st.in = "code" /\ out = st.left \o st.held /\ (st.held # <<>> => Char # "-")
          \/ st.in = "line" /\ out = st.left /\ Char = Newline
      BY <1>2, <1>3, <1>4, LeanAlike
    <2> HIDE DEF st, q
    <2>2. /\ st \in LeanReading /\ Quiet(st) /\ q \in LeanReading /\ q.left \o <<>> = q.left
      <3>1. st \in LeanReading /\ Quiet(st) /\ q \in LeanReading
        BY <1>3 DEF ReadsOn, q
      <3>2. QED BY <3>1, ReadingFields, ConcatProperties
    <2>3. CASE st.in = "code" /\ out = st.left \o st.held /\ (st.held # <<>> => Char # "-")
      <3>1. q = ReadCode(st, point)
        BY <1>3, <2>3 DEF ReadLean
      <3>2. CASE Char \in {"/", "-"}
        <4>1. text[point] \in {"/", "-"} /\ (text[point] = "-" => st.held = <<>>)
          BY <1>3, <2>3, <3>2
        <4>2. IsRead(q, "code", <<text[point]>>, st.depth, st.left \o st.held)
          BY <1>3, <2>2, <2>3, <3>1, <4>1, CodeIs
        <4>3. QED BY <1>2, <1>3, <2>3, <3>2, <4>2 DEF IsRead
      <3>3. CASE Char \notin {"/", "-"}
        <4>1. text[point] \notin {"/", "-", Quote}
          BY <1>2, <1>3, <3>3
        <4>2. IsRead(q, "code", <<>>, st.depth, st.left \o st.held \o <<text[point]>>)
          BY <1>2, <1>3, <1>4, <2>2, <2>3, <3>1, <4>1, CodeIs
        <4>3. q.in = "code" /\ q.held = <<>> /\ q.left = out'
          BY <1>2, <1>3, <2>3, <4>2 DEF IsRead
        <4>4. QED BY <2>2, <4>3
      <3>4. QED BY <3>2, <3>3
    <2>4. CASE st.in = "line" /\ out = st.left /\ Char = Newline
      <3>1. text[point] = Newline
        BY <1>3, <2>4
      <3>2. IsRead(q, "code", <<>>, st.depth, st.left \o <<Newline>>)
        BY <1>3, <2>2, <2>4, <3>1, EndOfLineIs
      <3>3. q.in = "code" /\ q.held = <<>> /\ q.left = out'
        BY <1>2, <2>4, <3>2 DEF IsRead
      <3>4. QED BY <2>2, <3>3
    <2>5. QED BY <2>1, <2>3, <2>4
  <1>5. ASSUME q.odd = {} PROVE InText'
    <2>1. Before'.in = "code" /\ out' = Before'.left \o Before'.held /\ (Before'.held # <<>> => Char' # "-")
      BY <1>3, <1>4, <1>5
    <2>2. QED BY <1>2, <2>1, Zenon DEF InText
  <1>6. QED BY <1>2, <1>3, <1>5 DEF ReadAlike

LEMMA EndsReadAlike ==
  ASSUME StripInv, Stripped
  PROVE  ReadAlike'
  <1>1. StripFormed /\ ReadAlike
    BY DEF StripInv
  <1>2. /\ text' = text /\ loop = "text" /\ loop' = "done" /\ point' = point + 0 /\ out' = out \o <<>>
        /\ point > Len(text)
    BY <1>1 DEF Stripped, Leave
  <1>3. /\ point' = point /\ Before' = Before /\ out' = out /\ Before.left \o <<>> = Before.left
        /\ Len(text) \in Nat /\ point \in Nat
    <2>1. point' = point /\ out' = out /\ Before.left \o <<>> = Before.left /\ Len(text) \in Nat /\ point \in Nat
      BY <1>1, <1>2, ReadFacts DEF StripFormed
    <2>2. QED BY <1>2, <2>1, SameText DEF Before
  <1>4. ASSUME Before.odd = {}
        PROVE  out = Before.left \o (IF Before.in = "code" THEN Before.held ELSE <<>>)
    <2>1. InText
      BY <1>1, <1>2, <1>4 DEF ReadAlike
    <2>2. \/ Before.in # "code" /\ out = Before.left
          \/ Before.in = "code" /\ out = Before.left \o Before.held
      BY <2>1 DEF InText
    <2>3. QED BY <1>3, <2>2
  <1>5. QED BY <1>2, <1>3, <1>4 DEF ReadAlike

LEMMA StripStarts ==
  ASSUME StripInit
  PROVE  StripInv
  <1>1. StripFormed
    <2>1. <<>> \in Seq(Characters)
      OBVIOUS
    <2>2. QED BY <2>1 DEF StripInit, StripBegin, StripFormed
  <1>2. Before = LeanTo[0] /\ LeanTo[0] = Start
    <2>1. Len(text) \in Nat /\ point = 1
      BY <1>1, ReadFacts DEF StripInit, StripBegin
    <2>2. LeanTo[0] = Start
      BY <2>1, LeanExists
    <2>3. QED BY <2>1, <2>2 DEF Before
  <1>3. Before.in = "code" /\ out = Before.left \o Before.held /\ Before.held = <<>>
    BY <1>2 DEF Start, StripInit, StripBegin
  <1>4. InText
    <2>1. ~(depth > 0)
      BY DEF StripInit, StripBegin
    <2>2. QED BY <1>3, <2>1, Zenon DEF InText
  <1>5. QED BY <1>1, <1>4 DEF StripInv, ReadAlike, StripInit, StripBegin

LEMMA StripSteps ==
  ASSUME StripInv, [StripNext]_stripping
  PROVE  StripInv'
  <1>1. CASE StripNext
    <2>1. StripFormed'
      BY <1>1, StaysFormed DEF StripInv
    <2>2. ReadAlike'
      BY <1>1, OpeningReadAlike, ClosingReadAlike, CommentReadAlike, DashesReadAlike, LineReadAlike,
         EndReadAlike, QuoteReadAlike, StringReadAlike, StringEndReadAlike, LiteralReadAlike,
         CopyReadAlike, EndsReadAlike DEF StripNext
    <2>3. QED BY <2>1, <2>2 DEF StripInv
  <1>2. CASE UNCHANGED stripping
    <2>1. text' = text /\ out' = out /\ point' = point /\ depth' = depth /\ loop' = loop
      BY <1>2 DEF stripping
    <2>2. Before' = Before /\ Char' = Char
      BY <2>1, SameText DEF Before, Char
    <2>3. QED BY <2>1, <2>2 DEF StripInv, StripFormed, ReadAlike, InText, InALine, InAString
  <1>3. QED BY <1>1, <1>2

LEMMA StrippedAsLean ==
  ASSUME StripInv
  PROVE  StripsAsLean
  <1> SUFFICES ASSUME loop = "done", Lean.odd = {}
               PROVE  out = Lean.left \o (IF Lean.in = "code" THEN Lean.held ELSE <<>>)
    BY DEF StripsAsLean
  <1>1. point > Len(text) /\ Len(text) \in Nat /\ point \in Nat
    BY ReadFacts DEF StripInv, StripFormed
  <1>2. Before = Lean
    BY <1>1 DEF Before, Lean
  <1>3. QED BY <1>2 DEF StripInv, ReadAlike

\* When the script is done with a text it has left the characters that Lean reads as
\* code, each on its line, if the text has none of the three things that it does not
\* expect: for a text of any length, and comments of any depth.
THEOREM StrippingHolds == StripSpec => []StripsAsLean
  <1>1. StripInit => StripInv
    BY StripStarts
  <1>2. StripInv /\ [StripNext]_stripping => StripInv'
    BY StripSteps
  <1>3. StripInv => StripsAsLean
    BY StrippedAsLean
  <1>4. QED BY <1>1, <1>2, <1>3, PTL DEF StripSpec

-----------------------------------------------------------------------------
(* Sequences of sequences, put together.                                    *)

\* What FlattenSeq computes on the first n of some sequences.
IsFlat(f, ss, n) == f = [i \in 1..n |-> IF i = 1 THEN ss[i] ELSE f[i - 1] \o ss[i]]

LEMMA FlatExists ==
  ASSUME NEW ss, NEW n \in Nat
  PROVE  \E f : IsFlat(f, ss, n)
  <1> DEFINE S == {m \in Nat : ~\E f : IsFlat(f, ss, m)}
  <1>1. \E f : IsFlat(f, ss, 0)
    <2>1. IsFlat([i \in 1..0 |-> ss[i]], ss, 0)
      BY DEF IsFlat
    <2>2. QED BY <2>1
  <1>2. ASSUME NEW m \in Nat, NEW f, IsFlat(f, ss, m) PROVE \E g : IsFlat(g, ss, m + 1)
    <2> DEFINE g == [i \in 1..(m + 1) |-> IF i = 1 THEN ss[i] ELSE IF i = m + 1 THEN f[m] \o ss[i] ELSE f[i]]
    <2>1. \A i \in 1..m : f[i] = IF i = 1 THEN ss[i] ELSE f[i - 1] \o ss[i]
      BY <1>2 DEF IsFlat
    <2>2. ASSUME NEW i \in 1..(m + 1) PROVE g[i] = IF i = 1 THEN ss[i] ELSE g[i - 1] \o ss[i]
      <3>1. CASE i = 1
        BY <3>1
      <3>2. CASE i # 1 /\ i = m + 1
        <4>1. m \in 1..(m + 1) /\ m # m + 1 /\ i - 1 = m /\ m \in 1..m
          BY <3>2
        <4>2. g[m] = f[m]
          BY <2>1, <4>1
        <4>3. QED BY <3>2, <4>1, <4>2
      <3>3. CASE i # 1 /\ i # m + 1
        <4>1. i \in 1..m /\ i - 1 \in 1..m /\ i - 1 \in 1..(m + 1) /\ i - 1 # m + 1
          BY <3>3
        <4>2. g[i - 1] = f[i - 1] /\ g[i] = f[i]
          BY <2>1, <3>3, <4>1
        <4>3. QED BY <2>1, <3>3, <4>1, <4>2
      <3>4. QED BY <3>1, <3>2, <3>3
    <2>3. g = [i \in 1..(m + 1) |-> g[i]]
      OBVIOUS
    <2> HIDE DEF g
    <2>4. g = [i \in 1..(m + 1) |-> IF i = 1 THEN ss[i] ELSE g[i - 1] \o ss[i]]
      BY <2>2, <2>3
    <2>5. QED BY <2>4 DEF IsFlat
  <1>3. S = {}
    <2> SUFFICES ASSUME S # {} PROVE FALSE
      OBVIOUS
    <2>1. PICK x \in S : \A y \in S : x <= y
      BY LeastExists
    <2>2. x # 0
      BY <1>1, <2>1
    <2>3. x - 1 \in Nat /\ x - 1 \notin S
      BY <2>1, <2>2
    <2>4. \E f : IsFlat(f, ss, x - 1 + 1)
      BY <1>2, <2>3
    <2>5. x - 1 + 1 = x
      BY <2>1
    <2>6. QED BY <2>1, <2>4, <2>5
  <1>4. QED BY <1>3

LEMMA FlattenIs ==
  ASSUME NEW ss, Len(ss) \in Nat, Len(ss) > 0
  PROVE  \E f : IsFlat(f, ss, Len(ss)) /\ FlattenSeq(ss) = f[Len(ss)]
  <1> DEFINE f == CHOOSE f : IsFlat(f, ss, Len(ss))
  <1>1. IsFlat(f, ss, Len(ss))
    BY FlatExists
  <1>2. FlattenSeq(ss) = f[Len(ss)]
    BY DEF FlattenSeq, IsFlat
  <1>3. QED BY <1>1, <1>2

LEMMA FlattenNothing == FlattenSeq(<<>>) = <<>>
  BY DEF FlattenSeq

LEMMA FlattenType ==
  ASSUME NEW S, NEW ss \in Seq(Seq(S))
  PROVE  FlattenSeq(ss) \in Seq(S)
  <1>1. Len(ss) \in Nat /\ \A i \in 1..Len(ss) : ss[i] \in Seq(S)
    OBVIOUS
  <1>2. CASE ss = <<>>
    BY <1>2, FlattenNothing, EmptySeq
  <1>3. CASE ss # <<>>
    <2>1. Len(ss) > 0
      BY <1>3
    <2>2. PICK f : IsFlat(f, ss, Len(ss)) /\ FlattenSeq(ss) = f[Len(ss)]
      BY <1>1, <2>1, FlattenIs
    <2>3. \A i \in 1..Len(ss) : f[i] = IF i = 1 THEN ss[i] ELSE f[i - 1] \o ss[i]
      BY <2>2 DEF IsFlat
    <2> DEFINE Bad == {i \in 1..Len(ss) : f[i] \notin Seq(S)}
    <2>4. Bad = {}
      <3> SUFFICES ASSUME Bad # {} PROVE FALSE
        OBVIOUS
      <3>1. PICK x \in Bad : \A y \in Bad : x <= y
        <4>1. Bad \in SUBSET Nat
          OBVIOUS
        <4> HIDE DEF Bad
        <4>2. QED BY <4>1, LeastExists
      <3>2. x \in 1..Len(ss) /\ f[x] \notin Seq(S)
        OBVIOUS
      <3>3. x # 1
        BY <1>1, <2>3, <3>2
      <3>4. x - 1 \in 1..Len(ss) /\ x - 1 \notin Bad
        BY <3>1, <3>2, <3>3
      <3>5. f[x - 1] \in Seq(S) /\ ss[x] \in Seq(S) /\ f[x] = f[x - 1] \o ss[x]
        BY <1>1, <2>3, <3>2, <3>3, <3>4
      <3>6. QED BY <3>2, <3>5, ConcatProperties
    <2>5. QED BY <1>1, <2>1, <2>2, <2>4
  <1>4. QED BY <1>2, <1>3

LEMMA FlattenMore ==
  ASSUME NEW S, NEW ss \in Seq(Seq(S)), NEW e \in Seq(S)
  PROVE  FlattenSeq(Append(ss, e)) = FlattenSeq(ss) \o e
  <1> DEFINE tt == Append(ss, e)
             n == Len(ss)
  <1>1. /\ n \in Nat /\ Len(tt) = n + 1 /\ tt[n + 1] = e
        /\ \A i \in 1..n : tt[i] = ss[i]
    OBVIOUS
  <1> HIDE DEF tt
  <1>2. PICK g : IsFlat(g, tt, n + 1) /\ FlattenSeq(tt) = g[n + 1]
    BY <1>1, FlattenIs
  <1>3. \A i \in 1..(n + 1) : g[i] = IF i = 1 THEN tt[i] ELSE g[i - 1] \o tt[i]
    BY <1>2 DEF IsFlat
  <1>4. CASE n = 0
    <2>1. g[1] = e
      BY <1>1, <1>3, <1>4
    <2>2. FlattenSeq(ss) = <<>>
      <3>1. ss = <<>>
        BY <1>4
      <3>2. QED BY <3>1, FlattenNothing
    <2>3. <<>> \o e = e
      BY ConcatEmptySeq
    <2>4. QED BY <1>2, <1>4, <2>1, <2>2, <2>3 DEF tt
  <1>5. CASE n # 0
    <2>1. PICK f : IsFlat(f, ss, n) /\ FlattenSeq(ss) = f[n]
      <3>1. n > 0
        BY <1>1, <1>5
      <3>2. QED BY <1>1, <3>1, FlattenIs
    <2>2. \A i \in 1..n : f[i] = IF i = 1 THEN ss[i] ELSE f[i - 1] \o ss[i]
      BY <2>1 DEF IsFlat
    <2> DEFINE Bad == {i \in 1..n : f[i] # g[i]}
    <2>3. Bad = {}
      <3> SUFFICES ASSUME Bad # {} PROVE FALSE
        OBVIOUS
      <3>1. PICK x \in Bad : \A y \in Bad : x <= y
        <4>1. Bad \in SUBSET Nat
          OBVIOUS
        <4> HIDE DEF Bad
        <4>2. QED BY <4>1, LeastExists
      <3>2. x \in 1..n /\ x \in 1..(n + 1) /\ f[x] # g[x]
        BY <1>1
      <3>3. x # 1
        BY <1>1, <1>3, <2>2, <3>2
      <3>4. x - 1 \in 1..n /\ x - 1 \notin Bad
        BY <1>1, <3>1, <3>2, <3>3
      <3>5. f[x - 1] = g[x - 1]
        BY <3>4
      <3>6. f[x] = f[x - 1] \o ss[x] /\ g[x] = g[x - 1] \o ss[x]
        BY <1>1, <1>3, <2>2, <3>2, <3>3
      <3>7. QED BY <3>2, <3>5, <3>6
    <2>4. f[n] = g[n]
      <3>1. n \in 1..n
        BY <1>1, <1>5
      <3>2. n \notin Bad
        BY <2>3
      <3>3. QED BY <3>1, <3>2
    <2>5. g[n + 1] = g[n] \o e
      <3> DEFINE m == n + 1
      <3>1. m \in 1..(n + 1) /\ m # 1 /\ m - 1 = n
        BY <1>1, <1>5
      <3>2. tt[m] = e
        BY <1>1
      <3> HIDE DEF m
      <3>3. g[m] = g[m - 1] \o e
        BY <1>3, <3>1, <3>2
      <3>4. QED BY <3>1, <3>3 DEF m
    <2>6. QED BY <1>2, <2>1, <2>4, <2>5 DEF tt
  <1>6. QED BY <1>4, <1>5

LEMMA IsAppended ==
  ASSUME NEW T, NEW a \in Seq(T), NEW b \in Seq(T), NEW e \in T,
         Len(b) = Len(a) + 1, \A k \in 1..Len(a) : b[k] = a[k], b[Len(a) + 1] = e
  PROVE  b = Append(a, e)
  <1>1. /\ Append(a, e) \in Seq(T) /\ Len(Append(a, e)) = Len(a) + 1
        /\ \A k \in 1..Len(a) : Append(a, e)[k] = a[k]
        /\ Append(a, e)[Len(a) + 1] = e
    BY AppendProperties
  <1>2. \A k \in 1..Len(b) : b[k] = Append(a, e)[k]
    <2>1. \A k \in 1..Len(b) : k \in 1..Len(a) \/ k = Len(a) + 1
      <3>1. Len(a) \in Nat
        OBVIOUS
      <3>2. QED BY <3>1
    <2>2. QED BY <1>1, <2>1
  <1>3. QED BY <1>1, <1>2, SeqEqual

-----------------------------------------------------------------------------
(* The lines that are open.                                                *)

Word == STRING \cup {"", "x", "_root_"}

LineKinds == {"namespace", "mutual"} \cup Sections

OpenLine == {l \in [kind : LineKinds, path : Paths \cup {<<>>}] : l.kind = "namespace" => l.path # <<>>}

Scope == [kind : LineKinds, name : Word, first : BOOLEAN]

\* Lean's scopes for some lines, and the lines that lean-coverage.py keeps of them.
ScopesOf(lines) == FlattenSeq([k \in 1..Len(lines) |-> Opened(lines[k].kind, lines[k].path)])
NamespaceLines(lines) ==
  FlattenSeq([k \in 1..Len(lines) |-> IF lines[k].kind = "namespace" THEN <<lines[k]>> ELSE <<>>])

NameOf(s) == IF s.kind = "namespace" THEN <<s.name>> ELSE <<>>
PathOf(l) == IF l.kind = "namespace" THEN l.path ELSE <<>>
IfNamespace(l) == IF l.kind = "namespace" THEN <<l>> ELSE <<>>

LEMMA LineIsOpen ==
  ASSUME NEW l \in OpenLine
  PROVE  /\ l.kind \in LineKinds /\ l.path \in Seq(Word) /\ Width(l.path) \in Nat \ {0}
         /\ \A k \in 1..Len(l.path) : l.path[k] # ""
         /\ l.path # <<>> => Width(l.path) = Len(l.path)
         /\ l.kind = "namespace" => l.path # <<>>
         /\ PathOf(l) \in Seq(Word) /\ IfNamespace(l) \in Seq(OpenLine)
  <1>1. l.kind \in LineKinds /\ l.path \in Paths \cup {<<>>} /\ (l.kind = "namespace" => l.path # <<>>)
    BY DEF OpenLine
  <1>2. l.path # <<>> => l.path \in Seq(STRING \ {""})
    BY <1>1, PathsAssumption
  <1>3. l.path \in Seq(Word)
    <2>1. STRING \ {""} \subseteq Word
      BY DEF Word
    <2>2. QED BY <1>2, <2>1, SeqMonotonic, EmptySeq
  <1>4. \A k \in 1..Len(l.path) : l.path[k] # ""
    <2>1. CASE l.path = <<>>
      <3>1. Len(l.path) = 0
        BY <2>1, EmptySeq
      <3>2. 1..Len(l.path) = {}
        BY <3>1
      <3>3. QED BY <3>2
    <2>2. CASE l.path # <<>>
      <3>1. \A k \in 1..Len(l.path) : l.path[k] \in STRING \ {""}
        BY <1>2, <2>2, ElementOfSeq
      <3>2. QED BY <3>1
    <2>3. QED BY <2>1, <2>2
  <1>5. Width(l.path) \in Nat \ {0} /\ (l.path # <<>> => Width(l.path) = Len(l.path))
    BY <1>3, EmptySeq DEF Width
  <1>6. PathOf(l) \in Seq(Word)
    BY <1>3, EmptySeq DEF PathOf
  <1>7. IfNamespace(l) \in Seq(OpenLine)
    BY EmptySeq DEF IfNamespace
  <1>8. QED BY <1>1, <1>3, <1>4, <1>5, <1>6, <1>7

LEMMA PrefixMore ==
  ASSUME NEW st \in Seq(OpenLine), NEW l \in OpenLine
  PROVE  Prefix(Append(st, l)) = Prefix(st) \o PathOf(l) /\ Prefix(st) \in Seq(Word)
  <1> DEFINE more == Append(st, l)
             a == [k \in 1..Len(st) |-> PathOf(st[k])]
             b == [k \in 1..Len(more) |-> PathOf(more[k])]
  <1>1. /\ more \in Seq(OpenLine) /\ Len(more) = Len(st) + 1 /\ Len(st) \in Nat
        /\ \A k \in 1..Len(st) : more[k] = st[k] /\ st[k] \in OpenLine
        /\ more[Len(st) + 1] = l
    BY AppendProperties, ElementOfSeq
  <1>2. \A k \in 1..Len(more) : more[k] \in OpenLine
    BY <1>1, ElementOfSeq
  <1>9. \A x \in OpenLine : PathOf(x) \in Seq(Word)
    BY LineIsOpen
  <1> HIDE DEF more
  <1>3. a \in Seq(Seq(Word)) /\ b \in Seq(Seq(Word)) /\ Len(a) = Len(st) /\ Len(b) = Len(st) + 1
    BY <1>1, <1>2, <1>9
  <1>4. \A k \in 1..Len(a) : b[k] = a[k]
    BY <1>1, <1>3
  <1>5. b[Len(a) + 1] = PathOf(l)
    BY <1>1, <1>3
  <1>6. Prefix(st) = FlattenSeq(a) /\ Prefix(more) = FlattenSeq(b)
    BY DEF Prefix, PathOf
  <1> HIDE DEF a, b
  <1>7. b = Append(a, PathOf(l)) /\ PathOf(l) \in Seq(Word)
    BY <1>3, <1>4, <1>5, <1>9, IsAppended
  <1>8. QED BY <1>3, <1>6, <1>7, FlattenMore, FlattenType DEF more

LEMMA NamespaceLinesMore ==
  ASSUME NEW st \in Seq(OpenLine), NEW l \in OpenLine
  PROVE  NamespaceLines(Append(st, l)) = NamespaceLines(st) \o IfNamespace(l) /\ NamespaceLines(st) \in Seq(OpenLine)
  <1> DEFINE more == Append(st, l)
             a == [k \in 1..Len(st) |-> IfNamespace(st[k])]
             b == [k \in 1..Len(more) |-> IfNamespace(more[k])]
  <1>1. /\ more \in Seq(OpenLine) /\ Len(more) = Len(st) + 1 /\ Len(st) \in Nat
        /\ \A k \in 1..Len(st) : more[k] = st[k] /\ st[k] \in OpenLine
        /\ more[Len(st) + 1] = l
    BY AppendProperties, ElementOfSeq
  <1>2. \A k \in 1..Len(more) : more[k] \in OpenLine
    BY <1>1, ElementOfSeq
  <1>9. \A x \in OpenLine : IfNamespace(x) \in Seq(OpenLine)
    BY LineIsOpen
  <1> HIDE DEF more
  <1>3. a \in Seq(Seq(OpenLine)) /\ b \in Seq(Seq(OpenLine)) /\ Len(a) = Len(st) /\ Len(b) = Len(st) + 1
    BY <1>1, <1>2, <1>9
  <1>4. \A k \in 1..Len(a) : b[k] = a[k]
    BY <1>1, <1>3
  <1>5. b[Len(a) + 1] = IfNamespace(l)
    BY <1>1, <1>3
  <1>6. NamespaceLines(st) = FlattenSeq(a) /\ NamespaceLines(more) = FlattenSeq(b)
    BY DEF NamespaceLines, IfNamespace
  <1> HIDE DEF a, b
  <1>7. b = Append(a, IfNamespace(l)) /\ IfNamespace(l) \in Seq(OpenLine)
    BY <1>3, <1>4, <1>5, <1>9, IsAppended
  <1>8. QED BY <1>3, <1>6, <1>7, FlattenMore, FlattenType DEF more

LEMMA OpenedIs ==
  ASSUME NEW l \in OpenLine
  PROVE  /\ Opened(l.kind, l.path) \in Seq(Scope) /\ Len(Opened(l.kind, l.path)) = Width(l.path)
         /\ \A k \in 1..Width(l.path) :
              /\ Opened(l.kind, l.path)[k] \in Scope
              /\ Opened(l.kind, l.path)[k].kind = l.kind
              /\ Opened(l.kind, l.path)[k].name = (IF l.path = <<>> THEN "" ELSE l.path[k])
              /\ Opened(l.kind, l.path)[k].first <=> k = 1
  <1> DEFINE o == Opened(l.kind, l.path)
             w == Width(l.path)
  <1>1. w \in Nat \ {0} /\ l.kind \in LineKinds /\ (l.path # <<>> => w = Len(l.path)) /\ l.path \in Seq(Word)
    BY LineIsOpen
  <1>2. o = [k \in 1..w |-> [kind |-> l.kind, name |-> IF l.path = <<>> THEN "" ELSE l.path[k], first |-> k = 1]]
    BY DEF Opened
  <1>3. ASSUME NEW k \in 1..w PROVE (IF l.path = <<>> THEN "" ELSE l.path[k]) \in Word
    <2>1. "" \in Word
      BY DEF Word
    <2>2. ASSUME l.path # <<>> PROVE l.path[k] \in Word
      <3>1. k \in 1..Len(l.path)
        BY <1>1, <2>2
      <3>2. QED BY <1>1, <3>1, ElementOfSeq
    <2>3. QED BY <2>1, <2>2
  <1> HIDE DEF w, o
  <1>4. ASSUME NEW k \in 1..w
        PROVE  /\ o[k] \in Scope /\ o[k].kind = l.kind
               /\ o[k].name = (IF l.path = <<>> THEN "" ELSE l.path[k])
               /\ o[k].first <=> k = 1
    <2>1. PICK n \in Word : n = IF l.path = <<>> THEN "" ELSE l.path[k]
      BY <1>3
    <2>2. PICK b \in BOOLEAN : b <=> k = 1
      BY Zenon
    <2>3. o[k] = [kind |-> l.kind, name |-> n, first |-> b]
      BY <1>2, <2>1, <2>2
    <2>4. o[k].kind = l.kind /\ o[k].name = n /\ o[k].first = b
      BY <2>3
    <2>5. o[k] \in Scope
      BY <1>1, <2>3 DEF Scope
    <2>6. QED BY <2>1, <2>2, <2>4, <2>5
  <1>5. \A k \in 1..w : o[k] \in Scope
    BY <1>4
  <1>6. o \in Seq(Scope) /\ Len(o) = w
    <2> DEFINE e(k) == [kind |-> l.kind, name |-> IF l.path = <<>> THEN "" ELSE l.path[k], first |-> k = 1]
    <2>1. o = [k \in 1..w |-> e(k)] /\ w \in Nat
      BY <1>1, <1>2
    <2> HIDE DEF e
    <2>2. QED BY <1>5, <2>1
  <1>7. \A k \in 1..w : /\ o[k].kind = l.kind
                        /\ o[k].name = (IF l.path = <<>> THEN "" ELSE l.path[k])
                        /\ o[k].first <=> k = 1
    BY <1>4
  <1>8. QED BY <1>5, <1>6, <1>7 DEF o, w

LEMMA ScopesOfMore ==
  ASSUME NEW st \in Seq(OpenLine), NEW l \in OpenLine
  PROVE  ScopesOf(Append(st, l)) = ScopesOf(st) \o Opened(l.kind, l.path) /\ ScopesOf(st) \in Seq(Scope)
  <1> DEFINE more == Append(st, l)
             O(x) == Opened(x.kind, x.path)
             a == [k \in 1..Len(st) |-> O(st[k])]
             b == [k \in 1..Len(more) |-> O(more[k])]
  <1>1. /\ more \in Seq(OpenLine) /\ Len(more) = Len(st) + 1 /\ Len(st) \in Nat
        /\ \A k \in 1..Len(st) : more[k] = st[k] /\ st[k] \in OpenLine
        /\ more[Len(st) + 1] = l
    BY AppendProperties, ElementOfSeq
  <1>2. \A k \in 1..Len(more) : more[k] \in OpenLine
    BY <1>1, ElementOfSeq
  <1>3. \A x \in OpenLine : O(x) \in Seq(Scope)
    BY OpenedIs
  <1>4. ScopesOf(st) = FlattenSeq(a) /\ ScopesOf(more) = FlattenSeq(b)
    BY DEF ScopesOf
  <1> HIDE DEF more, O
  <1>5. a \in Seq(Seq(Scope)) /\ b \in Seq(Seq(Scope)) /\ Len(a) = Len(st) /\ Len(b) = Len(st) + 1
    BY <1>1, <1>2, <1>3
  <1>6. \A k \in 1..Len(a) : b[k] = a[k]
    BY <1>1, <1>5
  <1>7. b[Len(a) + 1] = O(l)
    BY <1>1, <1>5
  <1> HIDE DEF a, b
  <1>8. b = Append(a, O(l)) /\ O(l) \in Seq(Scope)
    BY <1>3, <1>5, <1>6, <1>7, IsAppended
  <1>9. QED BY <1>4, <1>5, <1>8, FlattenMore, FlattenType DEF more, O

LEMMA InitialMore ==
  ASSUME NEW S, NEW s \in Seq(S), NEW m \in Nat, m < Len(s)
  PROVE  SubSeq(s, 1, m + 1) = Append(SubSeq(s, 1, m), s[m + 1]) /\ SubSeq(s, 1, m) \in Seq(S) /\ s[m + 1] \in S
  <1>1. m + 1 \in 1..Len(s) /\ Len(s) \in Nat
    OBVIOUS
  <1>2. SubSeq(s, 1, m) \in Seq(S) /\ Len(SubSeq(s, 1, m)) = m /\ s[m + 1] \in S
        /\ \A k \in 1..m : SubSeq(s, 1, m)[k] = s[k]
    BY <1>1
  <1>3. SubSeq(s, 1, m + 1) \in Seq(S) /\ Len(SubSeq(s, 1, m + 1)) = m + 1
        /\ \A k \in 1..(m + 1) : SubSeq(s, 1, m + 1)[k] = s[k]
    BY <1>1
  <1> DEFINE a == SubSeq(s, 1, m)
             b == SubSeq(s, 1, m + 1)
  <1>4. /\ a \in Seq(S) /\ b \in Seq(S) /\ Len(b) = Len(a) + 1 /\ \A k \in 1..Len(a) : b[k] = a[k]
        /\ b[Len(a) + 1] = s[m + 1]
    BY <1>1, <1>2, <1>3
  <1> HIDE DEF a, b
  <1>5. b = Append(a, s[m + 1])
    BY <1>2, <1>4, IsAppended
  <1>6. QED BY <1>2, <1>5 DEF a, b

LEMMA ConcatAppend ==
  ASSUME NEW S, NEW s \in Seq(S), NEW t \in Seq(S), NEW x \in S
  PROVE  s \o Append(t, x) = Append(s \o t, x)
  <1>1. /\ Append(t, x) = t \o <<x>> /\ s \o t \in Seq(S) /\ <<x>> \in Seq(S)
        /\ Append(s \o t, x) = (s \o t) \o <<x>>
    BY AppendIsConcat, ConcatProperties
  <1>2. QED BY <1>1, ConcatAssociative

LEMMA NamespacesMore ==
  ASSUME NEW s \in Seq(Scope), NEW x \in Scope
  PROVE  /\ Namespaces(Append(s, x)) = Namespaces(s) \o NameOf(x)
         /\ Namespaces(s) \in Seq(Word) /\ NameOf(x) \in Seq(Word)
  <1> DEFINE more == Append(s, x)
             a == [k \in 1..Len(s) |-> NameOf(s[k])]
             b == [k \in 1..Len(more) |-> NameOf(more[k])]
  <1>1. /\ more \in Seq(Scope) /\ Len(more) = Len(s) + 1 /\ Len(s) \in Nat
        /\ \A k \in 1..Len(s) : more[k] = s[k] /\ s[k] \in Scope
        /\ more[Len(s) + 1] = x
    BY AppendProperties, ElementOfSeq
  <1>2. \A k \in 1..Len(more) : more[k] \in Scope
    BY <1>1, ElementOfSeq
  <1>3. ASSUME NEW y \in Scope PROVE NameOf(y) \in Seq(Word)
    <2>1. y.name \in Word
      BY DEF Scope
    <2>2. <<y.name>> \in Seq(Word) /\ <<>> \in Seq(Word)
      BY <2>1, EmptySeq
    <2>3. QED BY <2>2 DEF NameOf
  <1> HIDE DEF more
  <1>4. a \in Seq(Seq(Word)) /\ b \in Seq(Seq(Word)) /\ Len(a) = Len(s) /\ Len(b) = Len(s) + 1
    BY <1>1, <1>2, <1>3
  <1>5. \A k \in 1..Len(a) : b[k] = a[k]
    BY <1>1, <1>4
  <1>6. b[Len(a) + 1] = NameOf(x)
    BY <1>1, <1>4
  <1>7. Namespaces(s) = FlattenSeq(a) /\ Namespaces(more) = FlattenSeq(b)
    BY DEF Namespaces, NameOf
  <1> HIDE DEF a, b
  <1>8. b = Append(a, NameOf(x))
    BY <1>3, <1>4, <1>5, <1>6, IsAppended
  <1>9. QED BY <1>3, <1>4, <1>7, <1>8, FlattenMore, FlattenType DEF more

LEMMA NamespacesOpened ==
  ASSUME NEW s \in Seq(Scope), NEW l \in OpenLine
  PROVE  Namespaces(s \o Opened(l.kind, l.path)) = Namespaces(s) \o PathOf(l)
  <1> DEFINE o == Opened(l.kind, l.path)
             p == PathOf(l)
             w == Width(l.path)
             Named(m) == IF l.kind = "namespace" THEN SubSeq(p, 1, m) ELSE <<>>
             Ok(m) == Namespaces(s \o SubSeq(o, 1, m)) = Namespaces(s) \o Named(m)
             Bad == {m \in 0..w : ~Ok(m)}
  <1>1. /\ o \in Seq(Scope) /\ Len(o) = w /\ w \in Nat \ {0} /\ p \in Seq(Word)
        /\ \A k \in 1..w : o[k] \in Scope /\ o[k].kind = l.kind
        /\ l.kind = "namespace" => Len(p) = w /\ \A k \in 1..w : o[k].name = p[k]
        /\ l.kind # "namespace" => p = <<>>
    <2>1. /\ o \in Seq(Scope) /\ Len(o) = w /\ w \in Nat \ {0} /\ p \in Seq(Word)
          /\ l.path # <<>> => w = Len(l.path)
          /\ l.kind = "namespace" => l.path # <<>>
      BY LineIsOpen, OpenedIs
    <2>2. \A k \in 1..w : /\ o[k] \in Scope /\ o[k].kind = l.kind
                          /\ o[k].name = (IF l.path = <<>> THEN "" ELSE l.path[k])
      BY OpenedIs
    <2>3. /\ l.kind = "namespace" => p = l.path
          /\ l.kind # "namespace" => p = <<>>
      BY DEF PathOf
    <2> HIDE DEF o, p, w
    <2>4. QED BY <2>1, <2>2, <2>3
  <1>2. Namespaces(s) \in Seq(Word)
    <2>1. o[1] \in Scope
      BY <1>1
    <2> HIDE DEF o
    <2>2. QED BY <2>1, NamespacesMore
  <1> HIDE DEF o, p, w
  <1>3. Ok(0)
    <2>1. SubSeq(o, 1, 0) = <<>> /\ Named(0) = <<>>
      BY <1>1
    <2>2. s \o <<>> = s /\ Namespaces(s) \o <<>> = Namespaces(s)
      BY <1>2, ConcatEmptySeq
    <2>3. QED BY <2>1, <2>2
  <1>4. ASSUME NEW m \in Nat, m < w, Ok(m) PROVE Ok(m + 1)
    <2> DEFINE t == SubSeq(o, 1, m)
               x == o[m + 1]
    <2>1. SubSeq(o, 1, m + 1) = Append(t, x) /\ t \in Seq(Scope) /\ x \in Scope
      BY <1>1, <1>4, InitialMore
    <2>2. x.kind = l.kind /\ (l.kind = "namespace" => x.name = p[m + 1])
      <3>1. m + 1 \in 1..w
        BY <1>1, <1>4
      <3>2. QED BY <1>1, <3>1
    <2>3. Namespaces(s) \o Named(m) = Namespaces(s \o t)
      BY <1>4
    <2> HIDE DEF t, x
    <2>4. s \o t \in Seq(Scope) /\ s \o Append(t, x) = Append(s \o t, x)
      BY <2>1, ConcatProperties, ConcatAppend
    <2>5. Namespaces(Append(s \o t, x)) = Namespaces(s \o t) \o NameOf(x)
      BY <2>1, <2>4, NamespacesMore
    <2>6. CASE l.kind = "namespace"
      <3>1. SubSeq(p, 1, m + 1) = Append(SubSeq(p, 1, m), p[m + 1]) /\ SubSeq(p, 1, m) \in Seq(Word) /\ p[m + 1] \in Word
        BY <1>1, <1>4, <2>6, InitialMore
      <3>2. NameOf(x) = <<p[m + 1]>>
        BY <2>2, <2>6 DEF NameOf
      <3>3. Append(SubSeq(p, 1, m), p[m + 1]) = SubSeq(p, 1, m) \o <<p[m + 1]>> /\ <<p[m + 1]>> \in Seq(Word)
        BY <3>1, AppendIsConcat
      <3>4. Namespaces(s) \o (SubSeq(p, 1, m) \o <<p[m + 1]>>) = (Namespaces(s) \o SubSeq(p, 1, m)) \o <<p[m + 1]>>
        BY <1>2, <3>1, <3>3, ConcatAssociative
      <3>5. Named(m) = SubSeq(p, 1, m) /\ Named(m + 1) = SubSeq(p, 1, m + 1)
        BY <2>6
      <3> HIDE DEF Named
      <3>6. QED BY <2>1, <2>3, <2>4, <2>5, <3>1, <3>2, <3>3, <3>4, <3>5
    <2>7. CASE l.kind # "namespace"
      <3>1. NameOf(x) = <<>> /\ Named(m) = <<>> /\ Named(m + 1) = <<>>
        BY <2>2, <2>7 DEF NameOf
      <3> HIDE DEF Named
      <3>2. (Namespaces(s) \o <<>>) \o <<>> = Namespaces(s) \o <<>>
        BY <1>2, ConcatEmptySeq
      <3>3. QED BY <2>1, <2>3, <2>4, <2>5, <3>1, <3>2
    <2>8. QED BY <2>6, <2>7
  <1>5. Bad = {}
    <2> HIDE DEF Ok
    <2> SUFFICES ASSUME Bad # {} PROVE FALSE
      OBVIOUS
    <2>1. PICK x \in Bad : \A y \in Bad : x <= y
      <3>1. Bad \in SUBSET Nat
        BY <1>1
      <3> HIDE DEF Bad
      <3>2. QED BY <3>1, LeastExists
    <2>2. x # 0 /\ x \in 0..w /\ ~Ok(x)
      BY <1>3
    <2>3. x - 1 \in Nat /\ x - 1 < w /\ x - 1 \notin Bad /\ x - 1 + 1 = x /\ x - 1 \in 0..w
      BY <1>1, <2>1, <2>2
    <2>4. Ok(x - 1)
      BY <2>3
    <2>5. Ok(x - 1 + 1)
      BY <1>4, <2>3, <2>4
    <2>6. QED BY <2>2, <2>3, <2>5
  <1>6. Ok(w)
    <2> HIDE DEF Ok
    <2>1. w \in 0..w /\ w \notin Bad
      BY <1>1, <1>5
    <2>2. QED BY <2>1
  <1>7. SubSeq(o, 1, w) = o /\ Named(w) = p
    <2>1. SubSeq(o, 1, w) = o
      BY <1>1, SubSeqFull
    <2>2. l.kind = "namespace" => SubSeq(p, 1, w) = p
      BY <1>1, SubSeqFull
    <2>3. QED BY <1>1, <2>1, <2>2
  <1>8. QED BY <1>6, <1>7 DEF o, p

Plain(s) == \A k \in 1..Len(s) : s[k].kind # "namespace"

\* What is true of any lines that are open.
LinesAgree(lines) ==
  /\ Namespaces(ScopesOf(lines)) = Prefix(lines)
  /\ Prefix(NamespaceLines(lines)) = Prefix(lines)
  /\ \A j \in 1..Len(lines) : lines[j].path # <<>> =>
       \E k \in 1..Len(ScopesOf(lines)) : ScopesOf(lines)[k].name = Last(lines[j].path)
  /\ \A j \in 1..Len(lines) : lines[j].kind = "namespace" =>
       \E k \in 1..Len(ScopesOf(lines)) : ScopesOf(lines)[k].kind = "namespace"
  /\ NamespaceLines(lines) # <<>> =>
       \E j \in 1..Len(lines) : Last(NamespaceLines(lines)) = lines[j] /\ lines[j].kind = "namespace"
  /\ Plain(lines) => Prefix(lines) = <<>>

LEMMA NoLines == LinesAgree(<<>>) /\ Prefix(<<>>) = <<>> /\ ScopesOf(<<>>) = <<>> /\ NamespaceLines(<<>>) = <<>>
  <1>1. Len(<<>>) = 0 /\ 1..0 = {}
    OBVIOUS
  <1>2. [k \in 1..0 |-> k] = <<>>
    OBVIOUS
  <1>3. Prefix(<<>>) = <<>>
    BY <1>1, FlattenNothing DEF Prefix
  <1>4. ScopesOf(<<>>) = <<>>
    BY <1>1, FlattenNothing DEF ScopesOf
  <1>5. NamespaceLines(<<>>) = <<>>
    BY <1>1, FlattenNothing DEF NamespaceLines
  <1>6. Namespaces(<<>>) = <<>>
    BY <1>1, FlattenNothing DEF Namespaces
  <1>7. QED BY <1>1, <1>3, <1>4, <1>5, <1>6 DEF LinesAgree, Plain

LEMMA AnotherLine ==
  ASSUME NEW lines \in Seq(OpenLine), NEW l \in OpenLine, LinesAgree(lines)
  PROVE  LinesAgree(Append(lines, l))
  <1> DEFINE more == Append(lines, l)
             o == Opened(l.kind, l.path)
             old == ScopesOf(lines)
             grown == ScopesOf(more)
             n == Len(lines)
  <1>1. /\ more \in Seq(OpenLine) /\ Len(more) = n + 1 /\ n \in Nat
        /\ \A k \in 1..n : more[k] = lines[k]
        /\ more[n + 1] = l
    BY AppendProperties
  <1>2. /\ Prefix(more) = Prefix(lines) \o PathOf(l) /\ Prefix(lines) \in Seq(Word) /\ PathOf(l) \in Seq(Word)
        /\ NamespaceLines(more) = NamespaceLines(lines) \o IfNamespace(l)
        /\ NamespaceLines(lines) \in Seq(OpenLine) /\ IfNamespace(l) \in Seq(OpenLine)
        /\ grown = old \o o /\ old \in Seq(Scope)
    BY PrefixMore, NamespaceLinesMore, ScopesOfMore, LineIsOpen
  <1>3. /\ o \in Seq(Scope) /\ Len(o) = Width(l.path) /\ Width(l.path) \in Nat \ {0}
        /\ \A k \in 1..Width(l.path) : /\ o[k].kind = l.kind
                                       /\ o[k].name = (IF l.path = <<>> THEN "" ELSE l.path[k])
        /\ l.path # <<>> => Width(l.path) = Len(l.path)
    BY OpenedIs, LineIsOpen
  <1> HIDE DEF more, o, old, grown, n
  <1>41. Len(o) \in Nat \ {0} /\ Len(old) \in Nat
    <2>1. Len(o) \in Nat \ {0}
      BY ONLY <1>3, Zenon
    <2>2. Len(old) \in Nat
      BY <1>2
    <2>3. QED BY <2>1, <2>2
  <1>42. /\ grown \in Seq(Scope) /\ Len(grown) = Len(old) + Len(o)
         /\ \A i \in 1..(Len(old) + Len(o)) :
              grown[i] = IF i <= Len(old) THEN old[i] ELSE o[i - Len(old)]
    BY <1>2, <1>3, ConcatProperties
  <1>4. \A k \in 1..Len(old) : k \in 1..Len(grown) /\ grown[k] = old[k]
    <2> SUFFICES ASSUME NEW k \in 1..Len(old) PROVE k \in 1..Len(grown) /\ grown[k] = old[k]
      OBVIOUS
    <2>1. k \in 1..(Len(old) + Len(o)) /\ k <= Len(old)
      BY <1>41
    <2>2. QED BY <1>42, <2>1
  <1>43. \A k \in 1..Len(o) : \E i \in 1..Len(grown) : grown[i] = o[k]
    <2> SUFFICES ASSUME NEW k \in 1..Len(o) PROVE \E i \in 1..Len(grown) : grown[i] = o[k]
      OBVIOUS
    <2> DEFINE i == Len(old) + k
    <2>1. i \in 1..(Len(old) + Len(o)) /\ ~(i <= Len(old)) /\ i - Len(old) = k
      BY <1>41
    <2> HIDE DEF i
    <2>2. grown[i] = o[k]
      BY <1>42, <2>1
    <2>3. QED BY <1>42, <2>1, <2>2
  <1>5. Namespaces(grown) = Prefix(more)
    BY <1>2, NamespacesOpened DEF LinesAgree, o, old
  <1>6. Prefix(NamespaceLines(more)) = Prefix(more)
    <2>1. CASE l.kind = "namespace"
      <3>1. NamespaceLines(more) = Append(NamespaceLines(lines), l)
        BY <1>2, <2>1, AppendIsConcat DEF IfNamespace
      <3>2. Prefix(Append(NamespaceLines(lines), l)) = Prefix(NamespaceLines(lines)) \o PathOf(l)
        BY <1>2, PrefixMore
      <3>3. QED BY <1>2, <3>1, <3>2 DEF LinesAgree
    <2>2. CASE l.kind # "namespace"
      <3>1. NamespaceLines(more) = NamespaceLines(lines)
        BY <1>2, <2>2, ConcatEmptySeq DEF IfNamespace
      <3>2. Prefix(more) = Prefix(lines)
        BY <1>2, <2>2, ConcatEmptySeq DEF PathOf
      <3>3. QED BY <3>1, <3>2 DEF LinesAgree
    <2>3. QED BY <2>1, <2>2
  <1>7. ASSUME NEW j \in 1..Len(more), more[j].path # <<>>
        PROVE  \E k \in 1..Len(grown) : grown[k].name = Last(more[j].path)
    <2>1. CASE j = n + 1
      <3>1. l.path # <<>> /\ more[j] = l
        BY <1>1, <1>7, <2>1
      <3>2. Len(o) = Len(l.path) /\ Len(o) \in 1..Width(l.path) /\ Len(o) \in 1..Len(o)
        BY <1>3, <1>41, <3>1
      <3>3. o[Len(o)].name = l.path[Len(l.path)]
        BY <1>3, <3>1, <3>2
      <3>4. PICK i \in 1..Len(grown) : grown[i] = o[Len(o)]
        BY <1>43, <3>2
      <3>5. QED BY <3>1, <3>3, <3>4 DEF Last
    <2>2. CASE j # n + 1
      <3>1. j \in 1..n /\ more[j] = lines[j]
        BY <1>1, <2>2
      <3>2. PICK k \in 1..Len(old) : old[k].name = Last(lines[j].path)
        BY <1>7, <3>1 DEF LinesAgree, old, n
      <3>3. k \in 1..Len(grown) /\ grown[k] = old[k]
        BY <1>4
      <3>4. QED BY <3>1, <3>2, <3>3
    <2>3. QED BY <2>1, <2>2
  <1>8. ASSUME NEW j \in 1..Len(more), more[j].kind = "namespace"
        PROVE  \E k \in 1..Len(grown) : grown[k].kind = "namespace"
    <2>1. CASE j = n + 1
      <3>1. 1 \in 1..Len(o) /\ more[j] = l
        BY <1>1, <1>41, <2>1
      <3>5. 1 \in 1..Width(l.path)
        <4>1. Width(l.path) = Len(o)
          BY <1>3
        <4>2. QED BY <3>1, <4>1
      <3>2. o[1].kind = "namespace"
        BY <1>3, <1>8, <3>1, <3>5
      <3>3. PICK i \in 1..Len(grown) : grown[i] = o[1]
        BY <1>43, <3>1
      <3>4. QED BY <3>2, <3>3
    <2>2. CASE j # n + 1
      <3>1. j \in 1..n /\ more[j] = lines[j]
        BY <1>1, <2>2
      <3>2. PICK k \in 1..Len(old) : old[k].kind = "namespace"
        BY <1>8, <3>1 DEF LinesAgree, old, n
      <3>3. k \in 1..Len(grown) /\ grown[k] = old[k]
        BY <1>4
      <3>4. QED BY <3>2, <3>3
    <2>3. QED BY <2>1, <2>2
  <1>9. ASSUME NamespaceLines(more) # <<>>
        PROVE  \E j \in 1..Len(more) : Last(NamespaceLines(more)) = more[j] /\ more[j].kind = "namespace"
    <2>1. CASE l.kind = "namespace"
      <3>1. NamespaceLines(more) = Append(NamespaceLines(lines), l)
        BY <1>2, <2>1, AppendIsConcat DEF IfNamespace
      <3>2. Last(NamespaceLines(more)) = l
        BY <1>2, <3>1, AppendProperties DEF Last
      <3>3. n + 1 \in 1..Len(more)
        BY <1>1
      <3>4. QED BY <1>1, <2>1, <3>2, <3>3
    <2>2. CASE l.kind # "namespace"
      <3>1. NamespaceLines(more) = NamespaceLines(lines)
        BY <1>2, <2>2, ConcatEmptySeq DEF IfNamespace
      <3>2. PICK j \in 1..n : Last(NamespaceLines(lines)) = lines[j] /\ lines[j].kind = "namespace"
        BY <1>9, <3>1 DEF LinesAgree, n
      <3>3. j \in 1..Len(more) /\ more[j] = lines[j]
        BY <1>1
      <3>4. QED BY <3>1, <3>2, <3>3
    <2>3. QED BY <2>1, <2>2
  <1>10. ASSUME Plain(more) PROVE Prefix(more) = <<>>
    <2>1. \A k \in 1..n : k \in 1..Len(more) /\ more[k] = lines[k]
      BY <1>1
    <2>2. n + 1 \in 1..Len(more)
      BY <1>1
    <2>3. Plain(lines) /\ l.kind # "namespace"
      BY <1>1, <1>10, <2>1, <2>2 DEF Plain, n
    <2>4. PathOf(l) = <<>> /\ Prefix(lines) = <<>>
      BY <2>3 DEF PathOf, LinesAgree
    <2>5. QED BY <1>2, <2>4, ConcatEmptySeq
  <1>11. QED BY <1>5, <1>6, <1>7, <1>8, <1>9, <1>10 DEF LinesAgree, more, grown

LEMMA LinesDo ==
  ASSUME NEW lines \in Seq(OpenLine)
  PROVE  LinesAgree(lines)
  <1> DEFINE Bad == {n \in Nat : \E s \in Seq(OpenLine) : Len(s) = n /\ ~LinesAgree(s)}
  <1>1. Bad = {}
    <2> SUFFICES ASSUME Bad # {} PROVE FALSE
      OBVIOUS
    <2>1. PICK x \in Bad : \A y \in Bad : x <= y
      BY LeastExists
    <2>2. PICK s \in Seq(OpenLine) : Len(s) = x /\ ~LinesAgree(s)
      BY <2>1
    <2>3. s # <<>>
      BY <2>2, NoLines
    <2>4. PICK t \in Seq(OpenLine), l \in OpenLine : s = Append(t, l)
      BY <2>3, SequenceEmptyOrAppend
    <2>5. Len(s) = Len(t) + 1 /\ Len(t) \in Nat
      BY <2>4, AppendProperties
    <2>6. LinesAgree(t)
      <3>1. ~(x <= Len(t)) /\ Len(t) \in Nat
        BY <2>2, <2>5
      <3>2. Len(t) \notin Bad
        BY <2>1, <3>1
      <3>3. QED BY <3>1, <3>2
    <2>7. QED BY <2>2, <2>4, <2>6, AnotherLine
  <1>2. Len(lines) \in Nat
    OBVIOUS
  <1>3. QED BY <1>1, <1>2

\* Lines below the lowest namespace say nothing of a name.
LEMMA PrefixOfTop ==
  ASSUME NEW low \in Seq(OpenLine), NEW top \in Seq(OpenLine), Plain(low)
  PROVE  Prefix(low \o top) = Prefix(top)
  <1> DEFINE Bad == {n \in Nat : \E s \in Seq(OpenLine) : Len(s) = n /\ Prefix(low \o s) # Prefix(s)}
  <1>1. Bad = {}
    <2> SUFFICES ASSUME Bad # {} PROVE FALSE
      OBVIOUS
    <2>1. PICK x \in Bad : \A y \in Bad : x <= y
      BY LeastExists
    <2>2. PICK s \in Seq(OpenLine) : Len(s) = x /\ Prefix(low \o s) # Prefix(s)
      BY <2>1
    <2>3. s # <<>>
      <3>1. low \o <<>> = low /\ Prefix(low) = <<>> /\ Prefix(<<>>) = <<>>
        BY LinesDo, NoLines, ConcatEmptySeq DEF LinesAgree
      <3>2. QED BY <2>2, <3>1
    <2>4. PICK t \in Seq(OpenLine), l \in OpenLine : s = Append(t, l)
      BY <2>3, SequenceEmptyOrAppend
    <2>5. Len(s) = Len(t) + 1 /\ Len(t) \in Nat
      BY <2>4, AppendProperties
    <2>6. Prefix(low \o t) = Prefix(t)
      <3>1. ~(x <= Len(t)) /\ Len(t) \in Nat
        BY <2>2, <2>5
      <3>2. Len(t) \notin Bad
        BY <2>1, <3>1
      <3>3. QED BY <3>1, <3>2
    <2>7. low \o s = Append(low \o t, l) /\ low \o t \in Seq(OpenLine)
      BY <2>4, ConcatAppend, ConcatProperties
    <2>8. Prefix(s) = Prefix(t) \o PathOf(l)
      BY <2>4, PrefixMore
    <2>9. Prefix(low \o s) = Prefix(low \o t) \o PathOf(l)
      BY <2>7, PrefixMore
    <2>10. QED BY <2>2, <2>6, <2>8, <2>9
  <1>2. Len(top) \in Nat
    OBVIOUS
  <1>3. QED BY <1>1, <1>2

LEMMA LastAppended ==
  ASSUME NEW T, NEW s \in Seq(T), NEW x \in T
  PROVE  Front(Append(s, x)) = s /\ Last(Append(s, x)) = x
  <1> DEFINE t == Append(s, x)
             n == Len(s)
  <1>1. /\ t \in Seq(T) /\ Len(t) = n + 1 /\ n \in Nat /\ \A i \in 1..n : t[i] = s[i]
        /\ t[n + 1] = x
    BY AppendProperties
  <1> HIDE DEF t
  <1>2. SubSeq(t, 1, n) \in Seq(T) /\ Len(SubSeq(t, 1, n)) = n /\ \A i \in 1..n : SubSeq(t, 1, n)[i] = t[i]
    BY <1>1
  <1>3. SubSeq(t, 1, n) = s
    BY <1>1, <1>2, SeqEqual
  <1>4. Len(t) - 1 = n
    BY <1>1
  <1>5. QED BY <1>1, <1>3, <1>4 DEF Front, Last, t

-----------------------------------------------------------------------------
(* What each reader knows of the lines that are open.                      *)

Unexpected(r) ==
  CASE r = "coverage" -> {"echo", "partial", "rooted", "doc", "plain"}
    [] r = "dead" -> {"noncomputable section", "public section", "mutual", "partial", "plain"}
    [] r = "pairing" -> {"mutual", "partial"}
    [] r = "clashes" -> {"public section", "mutual", "partial", "rooted", "doc", "plain"}

\* The readers that do not look at the name of an end.
Trusting == {"dead", "pairing", "clashes"}

LEMMA WhoExpects ==
  ASSUME NEW r \in Readers
  PROVE  /\ r = "coverage" \/ r \in Trusting
         /\ "partial" \in Unexpected(r)
         /\ r \in Trusting => "mutual" \in Unexpected(r)
         /\ r \in Trusting => \A kind \in Sections \ {"section"} : kind \in Pushes(r) \/ kind \in Unexpected(r)
         /\ r \in Trusting => {"namespace", "section"} \subseteq Pushes(r) /\ "mutual" \notin Pushes(r)
         /\ r \notin {"dead", "pairing"} => "rooted" \in Unexpected(r)
         /\ \A comment \in {"doc", "plain"} : Reads(r, comment) => comment \in Unexpected(r)
         /\ Pushes("coverage") = {"namespace"} /\ Pushes(r) \subseteq {"namespace"} \cup Sections
         /\ "echo" \in Unexpected("coverage")
  <1>1. CASE r = "coverage"
    BY <1>1 DEF Unexpected, Reads, Pushes, CoveragePushes, Readers, Trusting
  <1>2. CASE r = "dead"
    BY <1>2 DEF Unexpected, Reads, Pushes, CoveragePushes, DeadPushes, Readers, Trusting, Sections
  <1>3. CASE r = "pairing"
    BY <1>3 DEF Unexpected, Reads, Pushes, CoveragePushes, PairingPushes, Readers, Trusting, Sections
  <1>4. CASE r = "clashes"
    BY <1>4 DEF Unexpected, Reads, Pushes, CoveragePushes, ClashPushes, Readers, Trusting, Sections
  <1>5. QED BY <1>1, <1>2, <1>3, <1>4 DEF Readers

\* The stack of a reader that pops at every end: what it has from the outermost
\* namespace on is what is open.
Follows(st, lines) ==
  \E low, base, top \in Seq(OpenLine) :
    /\ st = low \o top /\ lines = base \o top
    /\ Plain(low) /\ Plain(base)
    /\ top = <<>> \/ top[1].kind = "namespace"

\* No section has the name of a namespace around it.
EchoFree(lines) ==
  \A i \in 1..Len(lines) : \A j \in 1..(i - 1) :
    lines[i].kind # "namespace" /\ lines[i].path # <<>> /\ lines[j].kind = "namespace"
      => Last(lines[j].path) # Last(lines[i].path)

LEMMA PlainMore ==
  ASSUME NEW s \in Seq(OpenLine), NEW l \in OpenLine
  PROVE  Plain(Append(s, l)) <=> Plain(s) /\ l.kind # "namespace"
  <1> DEFINE t == Append(s, l)
             n == Len(s)
  <1>1. /\ Len(t) = n + 1 /\ n \in Nat /\ \A i \in 1..n : t[i] = s[i]
        /\ t[n + 1] = l
    BY AppendProperties
  <1> HIDE DEF t, n
  <1>2. \A k \in 1..Len(t) : k \in 1..n \/ k = n + 1
    BY <1>1
  <1>3. n + 1 \in 1..Len(t) /\ \A k \in 1..n : k \in 1..Len(t)
    BY <1>1
  <1>4. ASSUME Plain(t) PROVE Plain(s) /\ l.kind # "namespace"
    BY <1>1, <1>3, <1>4 DEF Plain, n
  <1>5. ASSUME Plain(s), l.kind # "namespace" PROVE Plain(t)
    BY <1>1, <1>2, <1>5 DEF Plain, n
  <1>6. QED BY <1>4, <1>5 DEF t

LEMMA PlainTop ==
  ASSUME NEW base \in Seq(OpenLine), NEW top \in Seq(OpenLine),
         top = <<>> \/ top[1].kind = "namespace", Plain(base \o top)
  PROVE  top = <<>>
  <1> SUFFICES ASSUME top # <<>> PROVE FALSE
    OBVIOUS
  <1> DEFINE i == Len(base) + 1
             all == base \o top
  <1>1. Len(base) \in Nat /\ Len(top) \in Nat \ {0}
    BY EmptySeq
  <1>2. i \in 1..(Len(base) + Len(top)) /\ ~(i <= Len(base)) /\ i - Len(base) = 1
    BY <1>1
  <1> HIDE DEF i
  <1>3. Len(all) = Len(base) + Len(top) /\ all[i] = top[1]
    BY <1>2, ConcatProperties
  <1>4. QED BY <1>2, <1>3 DEF Plain

LEMMA FollowsPushed ==
  ASSUME NEW st, NEW lines, NEW l \in OpenLine, Follows(st, lines)
  PROVE  Follows(Append(st, l), Append(lines, l))
  <1>1. PICK low \in Seq(OpenLine), base \in Seq(OpenLine), top \in Seq(OpenLine) :
           /\ st = low \o top /\ lines = base \o top
           /\ Plain(low) /\ Plain(base)
           /\ top = <<>> \/ top[1].kind = "namespace"
    BY DEF Follows
  <1>2. CASE top = <<>> /\ l.kind # "namespace"
    <2>1. st = low /\ lines = base
      BY <1>1, <1>2, ConcatEmptySeq
    <2> DEFINE low2 == Append(low, l)
               base2 == Append(base, l)
    <2>2. Plain(low2) /\ Plain(base2)
      BY <1>1, <1>2, PlainMore
    <2>3. low2 \in Seq(OpenLine) /\ base2 \in Seq(OpenLine)
      BY AppendProperties
    <2> HIDE DEF low2, base2
    <2>4. low2 = low2 \o <<>> /\ base2 = base2 \o <<>> /\ <<>> \in Seq(OpenLine)
      BY <2>3, ConcatEmptySeq, EmptySeq
    <2>5. Append(st, l) = low2 /\ Append(lines, l) = base2
      BY <2>1 DEF low2, base2
    <2>6. QED BY <2>2, <2>3, <2>4, <2>5 DEF Follows
  <1>3. CASE top # <<>> \/ l.kind = "namespace"
    <2> DEFINE more == Append(top, l)
    <2>1. more \in Seq(OpenLine) /\ Len(top) \in Nat /\ \A i \in 1..Len(top) : more[i] = top[i]
      BY AppendProperties
    <2>2. more[1].kind = "namespace"
      <3>1. CASE top = <<>>
        <4>1. more = <<l>>
          BY <3>1
        <4>2. more[1] = l
          BY <4>1
        <4>3. QED BY <1>3, <3>1, <4>2
      <3>2. CASE top # <<>>
        <4>1. 1 \in 1..Len(top)
          BY <2>1, <3>2, EmptySeq
        <4>2. QED BY <1>1, <2>1, <3>2, <4>1
      <3>3. QED BY <3>1, <3>2
    <2>6. low \o more = Append(low \o top, l)
      BY ConcatAppend
    <2>7. base \o more = Append(base \o top, l)
      BY ConcatAppend
    <2> HIDE DEF more
    <2>3. Append(st, l) = low \o more
      BY <1>1, <2>6, Zenon
    <2>5. Append(lines, l) = base \o more
      BY <1>1, <2>7, Zenon
    <2>4. QED BY <1>1, <2>1, <2>2, <2>3, <2>5 DEF Follows
  <1>4. QED BY <1>2, <1>3

LEMMA FollowsPassed ==
  ASSUME NEW st, NEW lines \in Seq(OpenLine), NEW l \in OpenLine, Follows(st, lines), Plain(Append(lines, l))
  PROVE  Follows(st, Append(lines, l))
  <1>1. PICK low \in Seq(OpenLine), base \in Seq(OpenLine), top \in Seq(OpenLine) :
           /\ st = low \o top /\ lines = base \o top
           /\ Plain(low) /\ Plain(base)
           /\ top = <<>> \/ top[1].kind = "namespace"
    BY DEF Follows
  <1>2. Plain(lines) /\ l.kind # "namespace"
    BY PlainMore
  <1>3. top = <<>>
    BY <1>1, <1>2, PlainTop
  <1>4. st = low /\ lines = base
    BY <1>1, <1>3, ConcatEmptySeq
  <1> DEFINE base2 == Append(base, l)
  <1>5. base2 \in Seq(OpenLine) /\ Plain(base2)
    BY <1>1, <1>2, PlainMore, AppendProperties
  <1> HIDE DEF base2
  <1>6. low = low \o <<>> /\ base2 = base2 \o <<>> /\ <<>> \in Seq(OpenLine)
    BY <1>5, ConcatEmptySeq, EmptySeq
  <1>7. Append(lines, l) = base2
    BY <1>4 DEF base2
  <1>8. QED BY <1>1, <1>4, <1>5, <1>6, <1>7 DEF Follows

LEMMA PlainFront ==
  ASSUME NEW s \in Seq(OpenLine), s # <<>>, Plain(s)
  PROVE  Front(s) \in Seq(OpenLine) /\ Plain(Front(s))
  <1>1. PICK t \in Seq(OpenLine), l \in OpenLine : s = Append(t, l)
    BY SequenceEmptyOrAppend
  <1>2. QED BY <1>1, LastAppended, PlainMore

LEMMA FollowsEnded ==
  ASSUME NEW st \in Seq(OpenLine), NEW front \in Seq(OpenLine), NEW l \in OpenLine, Follows(st, Append(front, l))
  PROVE  Follows(IF st # <<>> THEN Front(st) ELSE st, front)
  <1>1. PICK low \in Seq(OpenLine), base \in Seq(OpenLine), top \in Seq(OpenLine) :
           /\ st = low \o top /\ Append(front, l) = base \o top
           /\ Plain(low) /\ Plain(base)
           /\ top = <<>> \/ top[1].kind = "namespace"
    BY DEF Follows
  <1>2. <<>> \in Seq(OpenLine) /\ front \o <<>> = front
    BY EmptySeq, ConcatEmptySeq
  <1>3. CASE top = <<>>
    <2>1. st = low /\ Append(front, l) = base
      BY <1>1, <1>3, ConcatEmptySeq
    <2>2. Plain(front)
      BY <1>1, <2>1, PlainMore
    <2> DEFINE left == IF st # <<>> THEN Front(st) ELSE st
    <2>3. left \in Seq(OpenLine) /\ Plain(left)
      BY <1>1, <2>1, PlainFront
    <2> HIDE DEF left
    <2>4. left \o <<>> = left
      BY <2>3, ConcatEmptySeq
    <2>5. Follows(left, front)
      BY <1>2, <2>2, <2>3, <2>4 DEF Follows
    <2>6. QED BY <2>5 DEF left
  <1>4. CASE top # <<>>
    <2>1. PICK t \in Seq(OpenLine), m \in OpenLine : top = Append(t, m)
      BY <1>4, SequenceEmptyOrAppend
    <2>2. PICK lower \in Seq(OpenLine) : lower = low \o t
      BY ConcatProperties
    <2>8. PICK rest \in Seq(OpenLine) : rest = base \o t
      BY ConcatProperties
    <2>9. st = Append(lower, m)
      BY <1>1, <2>1, <2>2, ConcatAppend
    <2>10. Append(front, l) = Append(rest, m)
      <3>1. base \o Append(t, m) = Append(base \o t, m)
        BY ConcatAppend
      <3>2. QED BY <1>1, <2>1, <2>8, <3>1, Zenon
    <2>3. front = rest
      BY <2>10, AppendInjective
    <2>4. st # <<>> /\ Front(st) = lower
      BY <2>9, LastAppended, AppendProperties
    <2>5. t = <<>> \/ t[1].kind = "namespace"
      <3> SUFFICES ASSUME t # <<>> PROVE t[1].kind = "namespace"
        OBVIOUS
      <3>1. 1 \in 1..Len(t)
        BY EmptySeq
      <3>2. top[1] = t[1]
        BY <2>1, <3>1, AppendProperties
      <3>3. QED BY <1>1, <1>4, <3>2
    <2>6. Follows(lower, front)
      BY <1>1, <2>2, <2>3, <2>5, <2>8 DEF Follows
    <2>7. QED BY <2>4, <2>6
  <1>5. QED BY <1>3, <1>4

\* A reader that follows the lines gives a declaration the prefix that Lean gives it.
LEMMA FollowersAgree ==
  ASSUME NEW st, NEW lines \in Seq(OpenLine), Follows(st, lines)
  PROVE  Prefix(st) = Prefix(lines)
  <1>1. PICK low \in Seq(OpenLine), base \in Seq(OpenLine), top \in Seq(OpenLine) :
           /\ st = low \o top /\ lines = base \o top
           /\ Plain(low) /\ Plain(base)
    BY DEF Follows
  <1>2. Prefix(low \o top) = Prefix(top) /\ Prefix(base \o top) = Prefix(top)
    BY <1>1, PrefixOfTop
  <1>3. QED BY <1>1, <1>2

LEMMA PushIs ==
  ASSUME NEW r \in Readers, NEW st, NEW l \in OpenLine
  PROVE  Push(r, st, l.kind, l.path) = IF l.kind \in Pushes(r) THEN Append(st, l) ELSE st
  <1>1. [kind |-> l.kind, path |-> l.path] = l
    BY DEF OpenLine
  <1>2. QED BY <1>1 DEF Push

\* lean-coverage.py keeps the namespace lines.
LEMMA CoverageOpened ==
  ASSUME NEW lines \in Seq(OpenLine), NEW l \in OpenLine, EchoFree(lines),
         \/ l.kind = "namespace"
         \/ l.path = <<>>
         \/ ~\E k \in 1..Len(ScopesOf(lines)) : ScopesOf(lines)[k].name = Last(l.path)
  PROVE  /\ Push("coverage", NamespaceLines(lines), l.kind, l.path) = NamespaceLines(Append(lines, l))
         /\ EchoFree(Append(lines, l))
  <1> DEFINE more == Append(lines, l)
             n == Len(lines)
  <1>1. /\ Len(more) = n + 1 /\ n \in Nat /\ \A i \in 1..n : more[i] = lines[i]
        /\ more[n + 1] = l
    BY AppendProperties
  <1>2. Push("coverage", NamespaceLines(lines), l.kind, l.path) = NamespaceLines(more)
    <2>1. NamespaceLines(more) = NamespaceLines(lines) \o IfNamespace(l) /\ NamespaceLines(lines) \in Seq(OpenLine)
      BY NamespaceLinesMore
    <2>2. "coverage" \in Readers /\ Pushes("coverage") = {"namespace"}
      BY WhoExpects DEF Readers
    <2>3. Push("coverage", NamespaceLines(lines), l.kind, l.path)
            = IF l.kind \in Pushes("coverage") THEN Append(NamespaceLines(lines), l) ELSE NamespaceLines(lines)
      BY <2>2, PushIs
    <2> HIDE DEF more
    <2>4. CASE l.kind = "namespace"
      <3>1. Append(NamespaceLines(lines), l) = NamespaceLines(lines) \o <<l>>
        BY <2>1, AppendIsConcat
      <3>2. IfNamespace(l) = <<l>>
        BY <2>4 DEF IfNamespace
      <3>3. QED BY <2>1, <2>2, <2>3, <2>4, <3>1, <3>2, Zenon
    <2>5. CASE l.kind # "namespace"
      <3>1. NamespaceLines(lines) \o <<>> = NamespaceLines(lines)
        BY <2>1, ConcatEmptySeq
      <3>2. IfNamespace(l) = <<>>
        BY <2>5 DEF IfNamespace
      <3>3. QED BY <2>1, <2>2, <2>3, <2>5, <3>1, <3>2
    <2>6. QED BY <2>4, <2>5
  <1> HIDE DEF more, n
  <1>3. ASSUME NEW i \in 1..Len(more), NEW j \in 1..(i - 1),
               more[i].kind # "namespace", more[i].path # <<>>, more[j].kind = "namespace"
        PROVE  Last(more[j].path) # Last(more[i].path)
    <2>1. j \in 1..n /\ more[j] = lines[j]
      BY <1>1
    <2>2. CASE i \in 1..n
      <3>1. more[i] = lines[i]
        BY <1>1, <2>2
      <3>2. QED BY <1>3, <2>1, <2>2, <3>1 DEF EchoFree, n
    <2>3. CASE i \notin 1..n
      <3>1. more[i] = l
        <4>1. i = n + 1
          BY <1>1, <2>3
        <4>2. QED BY <1>1, <4>1
      <3>2. lines[j] \in OpenLine
        BY <2>1, ElementOfSeq DEF n
      <3>3. lines[j].path # <<>>
        BY <1>3, <2>1, <3>2, LineIsOpen
      <3>4. PICK k \in 1..Len(ScopesOf(lines)) : ScopesOf(lines)[k].name = Last(lines[j].path)
        BY <2>1, <3>3, LinesDo DEF LinesAgree, n
      <3>5. QED BY <1>3, <2>1, <3>1, <3>4
    <2>4. QED BY <2>2, <2>3
  <1>4. EchoFree(more)
    BY <1>3 DEF EchoFree
  <1>5. QED BY <1>2, <1>4 DEF more

LEMMA CoverageEnded ==
  ASSUME NEW front \in Seq(OpenLine), NEW l \in OpenLine, EchoFree(Append(front, l))
  PROVE  /\ Pop("coverage", NamespaceLines(Append(front, l)), l.path) = NamespaceLines(front)
         /\ EchoFree(front)
  <1> DEFINE lines == Append(front, l)
             n == Len(front)
             was == NamespaceLines(front)
             st == NamespaceLines(lines)
  <1>1. /\ Len(lines) = n + 1 /\ n \in Nat /\ \A i \in 1..n : lines[i] = front[i]
        /\ lines[n + 1] = l
    BY AppendProperties
  <1>2. st = was \o IfNamespace(l) /\ was \in Seq(OpenLine)
    BY NamespaceLinesMore
  <1>3. Pop("coverage", st, l.path) = IF st # <<>> /\ l.path # <<>> /\ Last(st).path = l.path THEN Front(st) ELSE st
    BY DEF Pop, CoverageEnds
  <1>4. was # <<>> => \E j \in 1..n : Last(was) = front[j] /\ front[j].kind = "namespace"
    BY LinesDo DEF LinesAgree
  <1>5. EchoFree(front)
    <2> HIDE DEF lines, n
    <2>1. ASSUME NEW i \in 1..n, NEW j \in 1..(i - 1)
          PROVE  i \in 1..Len(lines) /\ lines[i] = front[i] /\ lines[j] = front[j]
      BY <1>1
    <2>2. EchoFree(lines)
      BY DEF lines
    <2>3. QED BY <2>1, <2>2 DEF EchoFree, n
  <1>6. EchoFree(lines)
    OBVIOUS
  <1>7. l.kind = "namespace" => l.path # <<>>
    BY LineIsOpen
  <1> HIDE DEF lines, n, was, st
  <1>8. CASE l.kind = "namespace"
    <2>1. st = Append(was, l)
      <3>1. IfNamespace(l) = <<l>>
        BY <1>8 DEF IfNamespace
      <3>2. Append(was, l) = was \o <<l>>
        BY <1>2, AppendIsConcat
      <3>3. QED BY <1>2, <3>1, <3>2, Zenon
    <2>2. st # <<>> /\ Last(st) = l /\ Front(st) = was
      BY <1>2, <2>1, LastAppended, AppendProperties
    <2>3. QED BY <1>3, <1>5, <1>7, <1>8, <2>2 DEF lines, st, was
  <1>9. CASE l.kind # "namespace"
    <2>1. st = was
      <3>1. IfNamespace(l) = <<>>
        BY <1>9 DEF IfNamespace
      <3>2. QED BY <1>2, <3>1, ConcatEmptySeq
    <2>2. ~(st # <<>> /\ l.path # <<>> /\ Last(st).path = l.path)
      <3> SUFFICES ASSUME st # <<>>, l.path # <<>>, Last(st).path = l.path PROVE FALSE
        OBVIOUS
      <3>1. PICK j \in 1..n : Last(was) = front[j] /\ front[j].kind = "namespace"
        BY <1>4, <2>1
      <3>2. n + 1 \in 1..Len(lines) /\ j \in 1..(n + 1 - 1) /\ lines[j] = front[j]
        BY <1>1
      <3>3. Last(lines[j].path) # Last(lines[n + 1].path)
        <4> DEFINE i == n + 1
        <4>1. i \in 1..Len(lines) /\ j \in 1..(i - 1) /\ lines[i] = l
          BY <1>1, <3>2
        <4> HIDE DEF i
        <4>2. Last(lines[j].path) # Last(lines[i].path)
          BY <1>6, <1>9, <3>1, <3>2, <4>1 DEF EchoFree
        <4>3. QED BY <4>2 DEF i
      <3>4. QED BY <1>1, <2>1, <3>1, <3>2, <3>3
    <2>3. QED BY <1>3, <1>5, <2>1, <2>2 DEF lines, st, was
  <1>10. QED BY <1>8, <1>9

\* An end that closes a scope Lean opened for the first component of a name, and
\* otherwise none such, closes the innermost line.
LEMMA EndedLine ==
  ASSUME NEW lines \in Seq(OpenLine), scopes = ScopesOf(lines), NEW path \in Paths \cup {<<>>}, MayEnd(path),
         [k \in 1..Width(path) |-> Innermost(Width(path))[k].first] = [k \in 1..Width(path) |-> k = 1]
  PROVE  \E front \in Seq(OpenLine), l \in OpenLine :
           /\ lines = Append(front, l) /\ l.path = path
           /\ SubSeq(scopes, 1, Len(scopes) - Width(path)) = ScopesOf(front)
  <1> DEFINE w == Width(path)
             inner == Innermost(w)
             N == Len(scopes)
  <1>1. /\ w \in Nat \ {0} /\ (path # <<>> => w = Len(path)) /\ path \in Seq(Word)
        /\ \A k \in 1..Len(path) : path[k] # ""
    <2> DEFINE p == [kind |-> "section", path |-> path]
    <2>1. p \in OpenLine /\ p.path = path
      BY DEF OpenLine, LineKinds, Sections
    <2> HIDE DEF p
    <2>2. QED BY <2>1, LineIsOpen
  <1>2. N >= w /\ scopes \in Seq(Scope) /\ N \in Nat
    <2>1. scopes \in Seq(Scope)
      <3>1. lines = <<>> \/ \E s \in Seq(OpenLine), l \in OpenLine : lines = Append(s, l)
        BY SequenceEmptyOrAppend
      <3>2. \A s \in Seq(OpenLine), l \in OpenLine :
              ScopesOf(Append(s, l)) = ScopesOf(s) \o Opened(l.kind, l.path) /\ ScopesOf(s) \in Seq(Scope)
              /\ Opened(l.kind, l.path) \in Seq(Scope)
        <4> SUFFICES ASSUME NEW s \in Seq(OpenLine), NEW l \in OpenLine
                     PROVE  /\ ScopesOf(Append(s, l)) = ScopesOf(s) \o Opened(l.kind, l.path)
                            /\ ScopesOf(s) \in Seq(Scope) /\ Opened(l.kind, l.path) \in Seq(Scope)
          OBVIOUS
        <4>1. Opened(l.kind, l.path) \in Seq(Scope)
          BY OpenedIs
        <4>2. QED BY <4>1, ScopesOfMore
      <3>3. CASE lines = <<>>
        BY <3>3, NoLines, EmptySeq
      <3>4. CASE lines # <<>>
        <4>1. PICK s \in Seq(OpenLine), l \in OpenLine : lines = Append(s, l)
          BY <3>1, <3>4
        <4>2. QED BY <3>2, <4>1, ConcatProperties
      <3>5. QED BY <3>3, <3>4
    <2>2. N >= w
      BY DEF MayEnd
    <2> HIDE DEF w
    <2>3. QED BY <2>1, <2>2
  <1>3. lines # <<>>
    <2>1. N # 0
      <3>1. w \in Nat \ {0} /\ N >= w /\ N \in Nat
        BY ONLY <1>1, <1>2, Zenon
      <3> HIDE DEF w, N
      <3>2. QED BY <3>1
    <2>3. scopes # <<>>
      BY <2>1
    <2>2. QED BY <2>3, NoLines
  <1>4. PICK front \in Seq(OpenLine), l \in OpenLine : lines = Append(front, l)
    BY <1>3, SequenceEmptyOrAppend
  <1> DEFINE o == Opened(l.kind, l.path)
             v == Width(l.path)
             old == ScopesOf(front)
             M == Len(old)
  <1>5. /\ o \in Seq(Scope) /\ Len(o) = v /\ v \in Nat \ {0}
        /\ \A k \in 1..v : /\ o[k].name = (IF l.path = <<>> THEN "" ELSE l.path[k])
                           /\ o[k].first <=> k = 1
        /\ (l.path # <<>> => v = Len(l.path)) /\ l.path \in Seq(Word)
        /\ \A k \in 1..Len(l.path) : l.path[k] # ""
    BY OpenedIs, LineIsOpen
  <1>6. scopes = old \o o /\ old \in Seq(Scope) /\ M \in Nat
    BY <1>4, ScopesOfMore
  <1>7. \A k \in 1..w : inner[k].first <=> k = 1
    <2> DEFINE f == [k \in 1..w |-> inner[k].first]
               g == [k \in 1..w |-> k = 1]
    <2>1. f = g
      OBVIOUS
    <2>2. \A k \in 1..w : f[k] = inner[k].first /\ g[k] = (k = 1)
      BY Zenon
    <2> HIDE DEF f, g
    <2>3. ASSUME NEW k \in 1..w PROVE inner[k].first <=> k = 1
      <3>1. inner[k].first = (k = 1)
        BY <2>1, <2>2
      <3>2. QED BY <3>1
    <2>4. QED BY <2>3
  <1>8. \A k \in 1..w : inner[k].name = (IF path = <<>> THEN <<"">> ELSE path)[k]
    <2> DEFINE f == [k \in 1..w |-> inner[k].name]
    <2>1. f = (IF path = <<>> THEN <<"">> ELSE path)
      BY DEF MayEnd
    <2>2. \A k \in 1..w : f[k] = inner[k].name
      BY Zenon
    <2> HIDE DEF f, inner
    <2>3. QED BY <2>1, <2>2
  <1>9. \A k \in 1..w : inner[k] = scopes[N - w + k]
    <2> HIDE DEF w
    <2>7. w \in Nat \ {0} /\ N >= w /\ N \in Nat
      BY ONLY <1>1, <1>2, Zenon
    <2>8. \A i \in 1..N : scopes[i] \in Scope
      BY <1>2, ElementOfSeq
    <2> HIDE DEF N
    <2>1. \A i \in (N - w + 1)..N : scopes[i] \in Scope
      BY <2>7, <2>8
    <2>2. N - w + 1 \in Int /\ N \in Int /\ N - (N - w + 1) + 1 = w
      BY <2>7
    <2> DEFINE a == N - w + 1
    <2>3. inner = SubSeq(scopes, a, N)
      BY DEF Innermost, N
    <2> HIDE DEF inner
    <2>4. \A i \in 1..(N - a + 1) : SubSeq(scopes, a, N)[i] = scopes[a + i - 1]
      BY <2>1, <2>2, SubSeqProperties
    <2>5. \A k \in 1..w : k \in 1..(N - a + 1) /\ a + k - 1 = N - w + k
      BY <2>7
    <2> HIDE DEF a
    <2>6. QED BY <2>3, <2>4, <2>5
  <1>17. w \in Nat \ {0} /\ N >= w /\ N \in Nat /\ v \in Nat \ {0} /\ M \in Nat
    BY ONLY <1>1, <1>2, <1>5, <1>6, Zenon
  <1> HIDE DEF w, inner, N, o, v, old, M
  <1>10. /\ N = M + v
         /\ \A i \in 1..(M + v) : scopes[i] = IF i <= M THEN old[i] ELSE o[i - M]
    <2>1. /\ Len(old \o o) = Len(old) + Len(o)
          /\ \A i \in 1..(Len(old) + Len(o)) : (old \o o)[i] = IF i <= Len(old) THEN old[i] ELSE o[i - Len(old)]
      <3>1. o \in Seq(Scope) /\ old \in Seq(Scope)
        BY ONLY <1>5, <1>6, Zenon
      <3>2. QED BY ONLY <3>1, ConcatProperties
    <2>2. Len(o) = v /\ Len(old) = M /\ scopes = old \o o
      BY <1>5, <1>6 DEF M
    <2>3. QED BY ONLY <2>1, <2>2, Zenon DEF N
  <1>18. N = M + v
    BY <1>10
  <1>11. \A k \in 1..v : scopes[M + k] = o[k]
    <2> SUFFICES ASSUME NEW k \in 1..v PROVE scopes[M + k] = o[k]
      OBVIOUS
    <2> DEFINE i == M + k
    <2>1. i \in 1..(M + v) /\ ~(i <= M) /\ i - M = k
      BY <1>17
    <2> HIDE DEF i
    <2>2. scopes[i] = o[k]
      BY <1>10, <2>1
    <2>3. QED BY <2>2 DEF i
  <1>12. w = v
    <2>1. CASE w < v
      <3> DEFINE j == v - w + 1
      <3>1. j \in 1..v /\ j # 1 /\ M + j = N - w + 1 /\ 1 \in 1..w
        BY <1>17, <1>18, <2>1
      <3> HIDE DEF j
      <3>2. inner[1] = scopes[N - w + 1] /\ scopes[M + j] = o[j]
        BY <1>9, <1>11, <3>1
      <3>3. inner[1].first /\ ~o[j].first
        BY <1>5, <1>7, <3>1
      <3>4. QED BY <3>1, <3>2, <3>3
    <2>2. CASE v < w
      <3> DEFINE j == w - v + 1
      <3>1. j \in 1..w /\ j # 1 /\ M + 1 = N - w + j /\ 1 \in 1..v
        BY <1>17, <1>18, <2>2
      <3> HIDE DEF j
      <3>2. inner[j] = scopes[N - w + j] /\ scopes[M + 1] = o[1]
        BY <1>9, <1>11, <3>1
      <3>3. ~inner[j].first /\ o[1].first
        BY <1>5, <1>7, <3>1
      <3>4. QED BY <3>1, <3>2, <3>3
    <2>3. QED BY <1>17, <2>1, <2>2
  <1>13. \A k \in 1..v : inner[k] = o[k]
    <2>1. N - w = M
      BY <1>17, <1>18, <1>12
    <2>2. QED BY <1>9, <1>11, <1>12, <2>1
  <1>14. l.path = path
    <2>1. \A k \in 1..v : (IF l.path = <<>> THEN "" ELSE l.path[k]) = (IF path = <<>> THEN <<"">> ELSE path)[k]
      <3> SUFFICES ASSUME NEW k \in 1..v
                   PROVE  (IF l.path = <<>> THEN "" ELSE l.path[k]) = (IF path = <<>> THEN <<"">> ELSE path)[k]
        OBVIOUS
      <3>1. o[k].name = (IF l.path = <<>> THEN "" ELSE l.path[k])
        BY <1>5
      <3>2. inner[k].name = (IF path = <<>> THEN <<"">> ELSE path)[k]
        BY <1>8, <1>12
      <3>3. inner[k] = o[k]
        BY <1>13
      <3>4. QED BY <3>1, <3>2, <3>3
    <2>2. 1 \in 1..v
      BY <1>17
    <2>3. CASE path = <<>>
      <3>1. <<"">>[1] = ""
        OBVIOUS
      <3>2. (IF l.path = <<>> THEN "" ELSE l.path[1]) = ""
        BY <2>1, <2>2, <2>3, <3>1
      <3>3. l.path # <<>> => 1 \in 1..Len(l.path)
        BY <1>5, <2>2
      <3>4. l.path = <<>>
        BY <1>5, <3>2, <3>3
      <3>5. QED BY <2>3, <3>4
    <2>4. CASE path # <<>>
      <3>1. Len(path) = v /\ 1 \in 1..Len(path)
        BY <1>1, <1>12, <2>2, <2>4
      <3>2. l.path # <<>>
        <4> SUFFICES ASSUME l.path = <<>> PROVE FALSE
          OBVIOUS
        <4>1. path[1] = ""
          BY <2>1, <2>2, <2>4
        <4>2. QED BY <1>1, <3>1, <4>1
      <3>3. Len(l.path) = Len(path)
        BY <1>5, <3>1, <3>2
      <3>4. \A k \in 1..Len(path) : l.path[k] = path[k]
        BY <2>1, <2>4, <3>1, <3>2
      <3>5. QED BY <1>1, <1>5, <3>3, <3>4, SeqEqual
    <2>5. QED BY <2>3, <2>4
  <1>15. SubSeq(scopes, 1, N - w) = old
    <2>1. N - w = M /\ M <= N
      BY <1>17, <1>18, <1>12
    <2>2. \A i \in 1..M : scopes[i] = old[i] /\ old[i] \in Scope
      <3>1. \A i \in 1..M : i \in 1..(M + v) /\ i <= M
        BY <1>17
      <3>2. \A i \in 1..M : old[i] \in Scope
        BY <1>6, ElementOfSeq DEF M
      <3>3. QED BY <1>10, <3>1, <3>2
    <2>3. /\ SubSeq(scopes, 1, M) \in Seq(Scope)
          /\ Len(SubSeq(scopes, 1, M)) = M
          /\ \A i \in 1..M : SubSeq(scopes, 1, M)[i] = scopes[i]
      <3>1. M - 1 + 1 = M /\ 1 \in Int /\ M \in Int /\ (M = 0 \/ 1 <= M)
        BY <1>17
      <3>2. \A i \in 1..M : scopes[i] \in Scope
        BY <2>2
      <3>3. /\ SubSeq(scopes, 1, M) \in Seq(Scope)
            /\ Len(SubSeq(scopes, 1, M)) = IF 1 <= M THEN M - 1 + 1 ELSE 0
            /\ \A i \in 1..(M - 1 + 1) : SubSeq(scopes, 1, M)[i] = scopes[1 + i - 1]
        BY <3>1, <3>2, SubSeqProperties
      <3>4. \A i \in 1..M : 1 + i - 1 = i
        BY <1>6
      <3>5. QED BY <1>6, <3>1, <3>3, <3>4
    <2>4. SubSeq(scopes, 1, M) = old
      BY <1>6, <2>2, <2>3, SeqEqual DEF M
    <2>5. QED BY <2>1, <2>4
  <1>16. QED BY <1>4, <1>14, <1>15 DEF N, w, old

-----------------------------------------------------------------------------
(* The invariant of the readers.                                           *)

Expected(r) == seen \cap Unexpected(r) = {}

\* The lines that opened Lean's scopes, and what the readers know of them.
Behind(lines) ==
  /\ scopes = ScopesOf(lines)
  /\ \A r \in Trusting : Expected(r) => Follows(stack[r], lines)
  /\ Expected("coverage") => stack["coverage"] = NamespaceLines(lines) /\ EchoFree(lines)

Full == {n \in Seq(Word) : n # <<>> /\ Last(n) = "x"}

Kept(r) == {l \in OpenLine : l.kind \in Pushes(r)}

ScopesShape ==
  /\ scopes \in Seq(Scope)
  /\ stack \in [Readers -> Seq(OpenLine)]
  /\ \A r \in Readers : stack[r] \in Seq(Kept(r))
  /\ declared \subseteq Full
  /\ index \in [Readers -> SUBSET Full]

IndexesAgree == \A r \in Readers : Expected(r) => index[r] = declared

ScopesInv ==
  /\ ScopesShape
  /\ "partial" \notin seen => \E lines \in Seq(OpenLine) : Behind(lines)
  /\ IndexesAgree

LEMMA FullEnds ==
  ASSUME NEW s \in Seq(Word)
  PROVE  s \o Decl \in Full
  <1> DEFINE t == Append(s, "x")
  <1>1. "x" \in Word
    BY DEF Word
  <1>2. s \o <<"x">> = t /\ t \in Seq(Word) /\ t # <<>> /\ Last(t) = "x"
    BY <1>1, AppendIsConcat, AppendProperties, LastAppended
  <1> HIDE DEF t
  <1>3. QED BY <1>2 DEF Decl, Full

LEMMA PrefixType ==
  ASSUME NEW st \in Seq(OpenLine)
  PROVE  Prefix(st) \in Seq(Word)
  <1> DEFINE l == [kind |-> "section", path |-> <<>>]
  <1>1. l \in OpenLine
    BY DEF OpenLine, LineKinds, Sections
  <1>2. QED BY <1>1, PrefixMore

LEMMA NamespacesType ==
  ASSUME NEW s \in Seq(Scope)
  PROVE  Namespaces(s) \in Seq(Word)
  <1> DEFINE x == [kind |-> "mutual", name |-> "", first |-> TRUE]
  <1>1. x \in Scope
    BY DEF Scope, LineKinds, Word
  <1>2. QED BY <1>1, NamespacesMore

LEMMA FullNames ==
  ASSUME NEW r \in Readers, NEW st \in Seq(OpenLine), NEW rooted \in BOOLEAN
  PROVE  FullName(r, st, rooted) \in Full
  <1>1. Prefix(st) \in Seq(Word) /\ <<>> \in Seq(Word)
    BY PrefixType, EmptySeq
  <1>2. Prefix(st) \o Decl \in Full
    BY <1>1, FullEnds
  <1>3. Decl \in Full
    <2>1. <<>> \o Decl = Decl
      <3>1. Decl \in Seq(Word)
        BY DEF Decl, Word
      <3>2. QED BY <3>1, ConcatEmptySeq
    <2>2. QED BY <1>1, <2>1, FullEnds
  <1>4. Prefix(st) \o <<"_root_">> \o Decl \in Full
    <2>1. "_root_" \in Word
      BY DEF Word
    <2>2. Append(Prefix(st), "_root_") \in Seq(Word) /\ Append(Prefix(st), "_root_") = Prefix(st) \o <<"_root_">>
      BY <1>1, <2>1, AppendProperties, AppendIsConcat
    <2>3. Prefix(st) \o <<"_root_">> \in Seq(Word)
      BY <2>2
    <2>4. QED BY <2>3, FullEnds
  <1>5. QED BY <1>2, <1>3, <1>4 DEF FullName

LEMMA StillExpected ==
  ASSUME NEW r, NEW things, See(things), Expected(r)'
  PROVE  Expected(r) /\ things \cap Unexpected(r) = {}
  BY DEF See, Expected

LEMMA PushKeeps ==
  ASSUME NEW r \in Readers, NEW l \in OpenLine, stack[r] \in Seq(OpenLine), stack[r] \in Seq(Kept(r))
  PROVE  /\ Push(r, stack[r], l.kind, l.path) \in Seq(OpenLine)
         /\ Push(r, stack[r], l.kind, l.path) \in Seq(Kept(r))
  <1>1. CASE l.kind \in Pushes(r)
    <2>1. l \in Kept(r)
      BY <1>1 DEF Kept
    <2>2. Append(stack[r], l) \in Seq(OpenLine) /\ Append(stack[r], l) \in Seq(Kept(r))
      BY <2>1, AppendProperties
    <2>3. QED BY <1>1, <2>2, PushIs
  <1>2. CASE l.kind \notin Pushes(r)
    BY <1>2, PushIs
  <1>3. QED BY <1>1, <1>2

\* A line that opens a scope for Lean and, if it pushes its kind, for a reader.
LEMMA LineOpened ==
  ASSUME ScopesShape, NEW l \in OpenLine, NEW things, See(things),
         scopes' = scopes \o Opened(l.kind, l.path),
         stack' = [r \in Readers |-> Push(r, stack[r], l.kind, l.path)],
         UNCHANGED <<declared, index>>, IndexesAgree,
         "partial" \notin seen => \E lines \in Seq(OpenLine) : Behind(lines),
         \A r \in Trusting : l.kind \in Pushes(r) \/ ~InNamespace \/ things \cap Unexpected(r) # {},
         \/ l.kind = "namespace" \/ l.path = <<>> \/ "echo" \in things
         \/ ~\E k \in 1..Len(scopes) : scopes[k].name = Last(l.path)
  PROVE  ScopesInv'
  <1>1. \A r \in Readers : stack'[r] = Push(r, stack[r], l.kind, l.path)
    OBVIOUS
  <1>2. ScopesShape'
    <2>1. Opened(l.kind, l.path) \in Seq(Scope)
      BY OpenedIs
    <2>2. scopes' \in Seq(Scope)
      BY <2>1, ConcatProperties DEF ScopesShape
    <2>3. ASSUME NEW r \in Readers PROVE stack'[r] \in Seq(OpenLine) /\ stack'[r] \in Seq(Kept(r))
      <3>1. stack[r] \in Seq(OpenLine) /\ stack[r] \in Seq(Kept(r))
        BY DEF ScopesShape
      <3>2. QED BY <1>1, <3>1, PushKeeps
    <2>4. stack' \in [Readers -> Seq(OpenLine)]
      BY <2>3
    <2>5. QED BY <2>2, <2>3, <2>4 DEF ScopesShape
  <1>3. IndexesAgree'
    BY StillExpected DEF IndexesAgree
  <1>4. ASSUME "partial" \notin seen' PROVE \E lines \in Seq(OpenLine) : Behind(lines)'
    <2>1. "partial" \notin seen
      BY <1>4 DEF See
    <2>2. PICK lines \in Seq(OpenLine) : Behind(lines)
      BY <2>1
    <2> DEFINE more == Append(lines, l)
    <2>3. scopes' = ScopesOf(more)
      BY <2>2, ScopesOfMore DEF Behind
    <2>4. ASSUME NEW r \in Trusting, Expected(r)' PROVE Follows(stack'[r], more)
      <3>1. r \in Readers
        BY DEF Trusting, Readers
      <3>2. Expected(r) /\ things \cap Unexpected(r) = {}
        BY <2>4, StillExpected
      <3>3. Follows(stack[r], lines)
        BY <2>2, <3>2 DEF Behind
      <3>4. CASE l.kind \in Pushes(r)
        <4>1. Push(r, stack[r], l.kind, l.path) = Append(stack[r], l)
          BY <3>1, <3>4, PushIs
        <4>2. Follows(Append(stack[r], l), more)
          BY <3>3, FollowsPushed
        <4>3. QED BY <1>1, <3>1, <4>1, <4>2
      <3>5. CASE l.kind \notin Pushes(r)
        <4>1. ~InNamespace
          BY <3>2, <3>5
        <4>2. Plain(lines)
          <5>1. ASSUME NEW j \in 1..Len(lines), lines[j].kind = "namespace" PROVE FALSE
            <6>1. PICK k \in 1..Len(scopes) : scopes[k].kind = "namespace"
              BY <2>2, <5>1, LinesDo DEF LinesAgree, Behind
            <6>2. QED BY <4>1, <6>1 DEF InNamespace
          <5>2. QED BY <5>1 DEF Plain
        <4>3. l.kind # "namespace"
          BY <3>1, <3>5, WhoExpects
        <4>4. Plain(more)
          BY <4>2, <4>3, PlainMore
        <4>5. QED BY <1>1, <3>1, <3>3, <3>5, <4>4, FollowsPassed, PushIs
      <3>6. QED BY <3>4, <3>5
    <2>5. ASSUME Expected("coverage")' PROVE stack'["coverage"] = NamespaceLines(more) /\ EchoFree(more)
      <3>1. "coverage" \in Readers /\ "echo" \in Unexpected("coverage")
        BY WhoExpects DEF Readers
      <3>2. Expected("coverage") /\ "echo" \notin things
        BY <2>5, <3>1, StillExpected
      <3>3. stack["coverage"] = NamespaceLines(lines) /\ EchoFree(lines) /\ scopes = ScopesOf(lines)
        BY <2>2, <3>2 DEF Behind
      <3>4. /\ Push("coverage", NamespaceLines(lines), l.kind, l.path) = NamespaceLines(more)
            /\ EchoFree(more)
        BY <3>2, <3>3, CoverageOpened
      <3>5. QED BY <1>1, <3>1, <3>3, <3>4
    <2>6. more \in Seq(OpenLine)
      BY AppendProperties
    <2> HIDE DEF more
    <2>7. Behind(more)'
      BY <2>3, <2>4, <2>5 DEF Behind
    <2>8. QED BY <2>6, <2>7
  <1>5. QED BY <1>2, <1>3, <1>4 DEF ScopesInv

LEMMA OpenSteps ==
  ASSUME ScopesInv, NEW l \in OpenLine, l.kind \in {"namespace"} \cup Sections, Open(l.kind, l.path)
  PROVE  ScopesInv'
  <1> DEFINE modified == IF l.kind \in Sections \ {"section"} /\ InNamespace THEN {l.kind} ELSE {}
             echo == IF l.kind # "namespace" /\ l.path # <<>>
                          /\ \E k \in 1..Len(scopes) : scopes[k].name = Last(l.path)
                     THEN {"echo"} ELSE {}
             things == modified \cup echo
  <1>1. /\ See(things) /\ scopes' = scopes \o Opened(l.kind, l.path)
        /\ stack' = [r \in Readers |-> Push(r, stack[r], l.kind, l.path)]
        /\ UNCHANGED <<declared, index>>
    BY DEF Open
  <1>2. \A r \in Trusting : l.kind \in Pushes(r) \/ ~InNamespace \/ things \cap Unexpected(r) # {}
    <2> SUFFICES ASSUME NEW r \in Trusting, l.kind \notin Pushes(r), InNamespace
                 PROVE  things \cap Unexpected(r) # {}
      OBVIOUS
    <2>1. r \in Readers
      BY DEF Trusting, Readers
    <2>2. l.kind \in Sections \ {"section"} /\ l.kind \in Unexpected(r)
      BY <2>1, WhoExpects DEF Sections
    <2>3. l.kind \in things
      BY <2>2
    <2>4. QED BY <2>2, <2>3
  <1>3. \/ l.kind = "namespace" \/ l.path = <<>> \/ "echo" \in things
        \/ ~\E k \in 1..Len(scopes) : scopes[k].name = Last(l.path)
    OBVIOUS
  <1> HIDE DEF things
  <1>4. QED BY <1>1, <1>2, <1>3, LineOpened DEF ScopesInv

LEMMA MutualSteps ==
  ASSUME ScopesInv, Mutual
  PROVE  ScopesInv'
  <1> DEFINE l == [kind |-> "mutual", path |-> <<>>]
             things == IF InNamespace THEN {"mutual"} ELSE {}
  <1>1. l \in OpenLine /\ l.kind = "mutual" /\ l.path = <<>>
    BY DEF OpenLine, LineKinds
  <1>2. /\ See(things) /\ scopes' = scopes \o Opened("mutual", <<>>)
        /\ UNCHANGED <<declared, stack, index>>
    BY DEF Mutual
  <1>3. \A r \in Trusting : l.kind \in Pushes(r) \/ ~InNamespace \/ things \cap Unexpected(r) # {}
    <2>1. \A r \in Trusting : "mutual" \in Unexpected(r)
      BY WhoExpects DEF Trusting, Readers
    <2>2. QED BY <2>1
  <1> HIDE DEF things, l
  <1>4. stack' = [r \in Readers |-> Push(r, stack[r], l.kind, l.path)]
    <2>1. ASSUME NEW r \in Readers PROVE Push(r, stack[r], l.kind, l.path) = stack[r]
      <3>1. l.kind \notin Pushes(r)
        BY <1>1, WhoExpects DEF Sections
      <3>2. QED BY <1>1, <3>1, PushIs
    <2>2. stack = [r \in Readers |-> stack[r]]
      BY DEF ScopesInv, ScopesShape
    <2>3. QED BY <1>2, <2>1, <2>2
  <1>5. QED BY <1>1, <1>2, <1>3, <1>4, LineOpened DEF ScopesInv

LEMMA PopKeeps ==
  ASSUME NEW r \in Readers, NEW S, NEW st \in Seq(S), NEW path
  PROVE  Pop(r, st, path) \in Seq(S)
  <1>1. st # <<>> => Front(st) \in Seq(S)
    <2> SUFFICES ASSUME st # <<>> PROVE Front(st) \in Seq(S)
      OBVIOUS
    <2>1. PICK t \in Seq(S), x \in S : st = Append(t, x)
      BY SequenceEmptyOrAppend
    <2>2. QED BY <2>1, LastAppended
  <1>2. QED BY <1>1 DEF Pop, CoverageEnds

LEMMA EndSteps ==
  ASSUME ScopesInv, NEW path \in Paths \cup {<<>>}, End(path)
  PROVE  ScopesInv'
  <1> DEFINE w == Width(path)
             whole == [k \in 1..w |-> Innermost(w)[k].first] = [k \in 1..w |-> k = 1]
             things == IF whole THEN {} ELSE {"partial"}
  <1>1. /\ MayEnd(path) /\ See(things)
        /\ scopes' = SubSeq(scopes, 1, Len(scopes) - w)
        /\ stack' = [r \in Readers |-> Pop(r, stack[r], path)]
        /\ UNCHANGED <<declared, index>>
    BY DEF End
  <1>2. \A r \in Readers : stack'[r] = Pop(r, stack[r], path)
    BY <1>1
  <1>3. ScopesShape'
    <2>1. scopes' \in Seq(Scope)
      <3>1. scopes \in Seq(Scope) /\ Len(scopes) >= w /\ Len(scopes) \in Nat /\ w \in Nat
        <4>1. w \in Nat
          <5> DEFINE p == [kind |-> "section", path |-> path]
          <5>1. p \in OpenLine /\ p.path = path
            BY DEF OpenLine, LineKinds, Sections
          <5> HIDE DEF p
          <5>2. QED BY <5>1, LineIsOpen
        <4> HIDE DEF w
        <4>2. Len(scopes) >= w
          BY <1>1 DEF MayEnd, w
        <4>3. QED BY <4>1, <4>2 DEF ScopesInv, ScopesShape
      <3> HIDE DEF w, things
      <3>2. \A i \in 1..(Len(scopes) - w) : scopes[i] \in Scope
        BY <3>1, ElementOfSeq
      <3>3. SubSeq(scopes, 1, Len(scopes) - w) \in Seq(Scope)
        BY <3>1, <3>2, SubSeqProperties
      <3>4. QED BY <1>1, <3>3
    <2>2. ASSUME NEW r \in Readers PROVE stack'[r] \in Seq(OpenLine) /\ stack'[r] \in Seq(Kept(r))
      <3>1. stack[r] \in Seq(OpenLine) /\ stack[r] \in Seq(Kept(r))
        BY DEF ScopesInv, ScopesShape
      <3>2. QED BY <1>2, <3>1, PopKeeps
    <2> HIDE DEF things, w
    <2>3. stack' \in [Readers -> Seq(OpenLine)]
      BY <1>1, <2>2
    <2>4. QED BY <1>1, <2>1, <2>2, <2>3 DEF ScopesInv, ScopesShape
  <1> HIDE DEF things
  <1>4. IndexesAgree'
    BY <1>1, StillExpected DEF ScopesInv, IndexesAgree
  <1>5. ASSUME "partial" \notin seen' PROVE \E lines \in Seq(OpenLine) : Behind(lines)'
    <2>1. "partial" \notin seen /\ whole
      BY <1>1, <1>5 DEF See, things
    <2>2. PICK lines \in Seq(OpenLine) : Behind(lines)
      BY <2>1 DEF ScopesInv
    <2>3. PICK front \in Seq(OpenLine), l \in OpenLine :
             /\ lines = Append(front, l) /\ l.path = path
             /\ SubSeq(scopes, 1, Len(scopes) - w) = ScopesOf(front)
      BY <1>1, <2>1, <2>2, EndedLine DEF Behind
    <2> HIDE DEF whole, w
    <2>4. scopes' = ScopesOf(front)
      BY <1>1, <2>3
    <2>5. ASSUME NEW r \in Trusting, Expected(r)' PROVE Follows(stack'[r], front)
      <3>1. r \in Readers /\ r # "coverage"
        BY DEF Trusting, Readers
      <3>2. Expected(r)
        BY <1>1, <2>5, StillExpected
      <3>3. Follows(stack[r], lines) /\ stack[r] \in Seq(OpenLine)
        BY <2>2, <3>1, <3>2 DEF Behind, ScopesInv, ScopesShape
      <3>4. stack'[r] = IF stack[r] # <<>> THEN Front(stack[r]) ELSE stack[r]
        BY <1>2, <3>1 DEF Pop
      <3>5. Follows(IF stack[r] # <<>> THEN Front(stack[r]) ELSE stack[r], front)
        BY <2>3, <3>3, FollowsEnded
      <3>6. QED BY <3>4, <3>5
    <2>6. ASSUME Expected("coverage")' PROVE stack'["coverage"] = NamespaceLines(front) /\ EchoFree(front)
      <3>1. "coverage" \in Readers
        BY DEF Readers
      <3>2. Expected("coverage")
        BY <1>1, <2>6, StillExpected
      <3>3. stack["coverage"] = NamespaceLines(lines) /\ EchoFree(lines)
        BY <2>2, <3>2 DEF Behind
      <3>4. Pop("coverage", NamespaceLines(lines), path) = NamespaceLines(front) /\ EchoFree(front)
        BY <2>3, <3>3, CoverageEnded
      <3>5. QED BY <1>2, <3>1, <3>3, <3>4
    <2>7. Behind(front)'
      BY <2>4, <2>5, <2>6 DEF Behind
    <2>8. QED BY <2>7
  <1>6. QED BY <1>3, <1>4, <1>5 DEF ScopesInv

LEMMA DeclareSteps ==
  ASSUME ScopesInv, NEW rooted \in BOOLEAN, Declare(rooted)
  PROVE  ScopesInv'
  <1> DEFINE things == IF rooted THEN {"rooted"} ELSE {}
             n == IF rooted THEN Decl ELSE Namespaces(scopes) \o Decl
  <1>1. /\ See(things) /\ UNCHANGED <<scopes, stack>>
        /\ declared' = declared \cup {n}
        /\ index' = [r \in Readers |-> index[r] \cup {FullName(r, stack[r], rooted)}]
    BY DEF Declare
  <1>2. \A r \in Readers : index'[r] = index[r] \cup {FullName(r, stack[r], rooted)}
    BY <1>1
  <1>3. n \in Full
    <2>1. Namespaces(scopes) \o Decl \in Full
      BY NamespacesType, FullEnds DEF ScopesInv, ScopesShape
    <2>2. Decl = FullName("dead", <<>>, TRUE)
      BY DEF FullName
    <2>3. Decl \in Full
      BY <2>2, FullNames, EmptySeq DEF Readers
    <2>4. QED BY <2>1, <2>3
  <1> HIDE DEF n, things
  <1>4. ScopesShape'
    <2>1. \A r \in Readers : index'[r] \in SUBSET Full
      BY <1>2, FullNames DEF ScopesInv, ScopesShape
    <2>2. index' \in [Readers -> SUBSET Full]
      BY <1>1, <2>1
    <2>3. QED BY <1>1, <1>3, <2>2 DEF ScopesInv, ScopesShape
  <1>5. ASSUME "partial" \notin seen' PROVE \E lines \in Seq(OpenLine) : Behind(lines)'
    <2>1. "partial" \notin seen
      BY <1>1, <1>5 DEF See
    <2>2. PICK lines \in Seq(OpenLine) : Behind(lines)
      BY <2>1 DEF ScopesInv
    <2>3. Behind(lines)'
      BY <1>1, <2>2, StillExpected DEF Behind
    <2>4. QED BY <2>3
  <1>6. ASSUME NEW r \in Readers, Expected(r)' PROVE index'[r] = declared'
    <2>1. Expected(r) /\ things \cap Unexpected(r) = {}
      BY <1>1, <1>6, StillExpected
    <2>2. index[r] = declared
      BY <2>1 DEF ScopesInv, IndexesAgree
    <2>3. "partial" \notin seen
      BY <2>1, WhoExpects DEF Expected
    <2>4. PICK lines \in Seq(OpenLine) : Behind(lines)
      BY <2>3 DEF ScopesInv
    <2>5. Namespaces(scopes) = Prefix(lines) /\ Prefix(NamespaceLines(lines)) = Prefix(lines)
      BY <2>4, LinesDo DEF Behind, LinesAgree
    <2>6. Prefix(stack[r]) = Prefix(lines)
      <3>1. CASE r = "coverage"
        BY <2>1, <2>4, <2>5, <3>1 DEF Behind
      <3>2. CASE r \in Trusting
        BY <2>1, <2>4, <3>2, FollowersAgree DEF Behind
      <3>3. QED BY <3>1, <3>2, WhoExpects
    <2>7. FullName(r, stack[r], rooted) = n
      <3>1. CASE ~rooted
        BY <2>5, <2>6, <3>1 DEF FullName, n
      <3>2. CASE rooted
        <4>1. r \in {"dead", "pairing"}
          BY <2>1, <3>2, WhoExpects DEF things
        <4>2. QED BY <3>2, <4>1 DEF FullName, n
      <3>3. QED BY <3>1, <3>2
    <2>8. QED BY <1>1, <1>2, <2>2, <2>7
  <1>7. QED BY <1>4, <1>5, <1>6 DEF ScopesInv, IndexesAgree

LEMMA ProseSteps ==
  ASSUME ScopesInv, NEW comment \in {"doc", "plain"}, NEW path \in Paths \cup {<<>>}, Prose(comment, path)
  PROVE  ScopesInv'
  <1> DEFINE things == {comment}
             l == [kind |-> "namespace", path |-> path]
             Pushed(r) == IF Reads(r, comment) /\ path # <<>> THEN Push(r, stack[r], "namespace", path) ELSE stack[r]
             Named(r) == IF Reads(r, comment) /\ path = <<>> THEN index[r] \cup {FullName(r, stack[r], FALSE)}
                         ELSE index[r]
  <1>1. /\ See(things) /\ UNCHANGED <<scopes, declared>>
        /\ stack' = [r \in Readers |-> Pushed(r)]
        /\ index' = [r \in Readers |-> Named(r)]
    BY DEF Prose
  <1>2. \A r \in Readers : stack'[r] = Pushed(r) /\ index'[r] = Named(r)
    BY <1>1
  <1>3. path # <<>> => l \in OpenLine /\ l.kind = "namespace" /\ l.path = path
    BY DEF OpenLine, LineKinds
  <1>4. \A r \in Readers : Expected(r)' => Expected(r) /\ stack'[r] = stack[r] /\ index'[r] = index[r]
    <2> SUFFICES ASSUME NEW r \in Readers, Expected(r)'
                 PROVE  Expected(r) /\ stack'[r] = stack[r] /\ index'[r] = index[r]
      OBVIOUS
    <2>1. Expected(r) /\ things \cap Unexpected(r) = {}
      BY <1>1, StillExpected
    <2>2. ~Reads(r, comment)
      BY <2>1, WhoExpects
    <2>3. QED BY <1>2, <2>1, <2>2
  <1>5. ScopesShape'
    <2>1. ASSUME NEW r \in Readers
          PROVE  stack'[r] \in Seq(OpenLine) /\ stack'[r] \in Seq(Kept(r)) /\ index'[r] \in SUBSET Full
      <3>1. stack[r] \in Seq(OpenLine) /\ stack[r] \in Seq(Kept(r)) /\ index[r] \in SUBSET Full
        BY DEF ScopesInv, ScopesShape
      <3> HIDE DEF l
      <3>2. path # <<>> =>
              /\ Push(r, stack[r], "namespace", path) \in Seq(OpenLine)
              /\ Push(r, stack[r], "namespace", path) \in Seq(Kept(r))
        <4> SUFFICES ASSUME path # <<>>
                     PROVE  /\ Push(r, stack[r], "namespace", path) \in Seq(OpenLine)
                            /\ Push(r, stack[r], "namespace", path) \in Seq(Kept(r))
          OBVIOUS
        <4>1. /\ Push(r, stack[r], l.kind, l.path) \in Seq(OpenLine)
              /\ Push(r, stack[r], l.kind, l.path) \in Seq(Kept(r))
          BY <1>3, <3>1, PushKeeps
        <4>2. QED BY <1>3, <4>1
      <3>3. FullName(r, stack[r], FALSE) \in Full
        BY <3>1, FullNames
      <3>4. QED BY <1>2, <3>1, <3>2, <3>3
    <2> HIDE DEF Pushed, Named
    <2>2. stack' \in [Readers -> Seq(OpenLine)] /\ index' \in [Readers -> SUBSET Full]
      BY <1>1, <2>1
    <2>3. QED BY <1>1, <2>1, <2>2 DEF ScopesInv, ScopesShape
  <1> HIDE DEF things, Pushed, Named
  <1>6. IndexesAgree'
    BY <1>1, <1>4 DEF ScopesInv, IndexesAgree
  <1>7. ASSUME "partial" \notin seen' PROVE \E lines \in Seq(OpenLine) : Behind(lines)'
    <2>1. "partial" \notin seen
      BY <1>1, <1>7 DEF See
    <2>2. PICK lines \in Seq(OpenLine) : Behind(lines)
      BY <2>1 DEF ScopesInv
    <2>3. Trusting \subseteq Readers /\ "coverage" \in Readers
      BY DEF Trusting, Readers
    <2>4. Behind(lines)'
      BY <1>1, <1>4, <2>2, <2>3 DEF Behind
    <2>5. QED BY <2>4
  <1>8. QED BY <1>5, <1>6, <1>7 DEF ScopesInv

LEMMA ScopesBegin ==
  ASSUME ScopesInit
  PROVE  ScopesInv
  <1>1. scopes = <<>> /\ declared = {} /\ seen = {}
        /\ stack = [r \in Readers |-> <<>>] /\ index = [r \in Readers |-> {}]
    BY DEF ScopesInit
  <1>2. ScopesShape
    <2>1. \A r \in Readers : <<>> \in Seq(OpenLine) /\ <<>> \in Seq(Kept(r))
      BY EmptySeq
    <2>2. <<>> \in Seq(Scope)
      BY EmptySeq
    <2>3. QED BY <1>1, <2>1, <2>2 DEF ScopesShape
  <1>3. Behind(<<>>) /\ <<>> \in Seq(OpenLine)
    <2>1. Plain(<<>>) /\ EchoFree(<<>>) /\ <<>> \in Seq(OpenLine)
      BY EmptySeq DEF Plain, EchoFree
    <2>2. <<>> = <<>> \o <<>>
      BY <2>1, ConcatEmptySeq
    <2>3. Follows(<<>>, <<>>)
      BY <2>1, <2>2 DEF Follows
    <2>4. \A r \in Trusting : stack[r] = <<>>
      BY <1>1 DEF Trusting, Readers
    <2>5. stack["coverage"] = <<>>
      BY <1>1 DEF Readers
    <2>6. ScopesOf(<<>>) = <<>> /\ NamespaceLines(<<>>) = <<>>
      BY NoLines
    <2>7. QED BY <1>1, <2>1, <2>3, <2>4, <2>5, <2>6 DEF Behind
  <1>4. IndexesAgree
    BY <1>1 DEF IndexesAgree
  <1>5. QED BY <1>2, <1>3, <1>4 DEF ScopesInv

LEMMA ScopesSteps ==
  ASSUME ScopesInv, [ScopesNext]_reading
  PROVE  ScopesInv'
  <1>1. ASSUME Namespace PROVE ScopesInv'
    <2>1. PICK path \in Paths : Open("namespace", path)
      BY <1>1 DEF Namespace
    <2> DEFINE l == [kind |-> "namespace", path |-> path]
    <2>2. l \in OpenLine /\ l.kind = "namespace" /\ l.path = path
      BY PathsAssumption DEF OpenLine, LineKinds
    <2> HIDE DEF l
    <2>3. QED BY <2>1, <2>2, OpenSteps
  <1>2. ASSUME Section PROVE ScopesInv'
    <2>1. PICK kind \in Sections, path \in Paths \cup {<<>>} : Open(kind, path)
      BY <1>2 DEF Section, Sections
    <2> DEFINE l == [kind |-> kind, path |-> path]
    <2>2. l \in OpenLine /\ l.kind = kind /\ l.path = path
      BY DEF OpenLine, LineKinds, Sections
    <2> HIDE DEF l
    <2>3. QED BY <2>1, <2>2, OpenSteps
  <1>3. ASSUME Close PROVE ScopesInv'
    BY <1>3, EndSteps DEF Close
  <1>4. ASSUME Comment PROVE ScopesInv'
    BY <1>4, ProseSteps DEF Comment
  <1>5. ASSUME UNCHANGED reading PROVE ScopesInv'
    <2>1. UNCHANGED <<scopes, declared, stack, index, seen>>
      BY <1>5 DEF reading
    <2>2. ScopesShape' /\ IndexesAgree'
      BY <2>1 DEF ScopesInv, ScopesShape, IndexesAgree, Expected
    <2>3. ASSUME "partial" \notin seen' PROVE \E lines \in Seq(OpenLine) : Behind(lines)'
      BY <2>1, <2>3 DEF ScopesInv, Behind, Expected
    <2>4. QED BY <2>2, <2>3 DEF ScopesInv
  <1>6. QED BY <1>1, <1>2, <1>3, <1>4, <1>5, MutualSteps, DeclareSteps DEF ScopesNext

LEMMA ScopesImply ==
  ASSUME ScopesInv
  PROVE  ScopesTypeOK /\ CoverageNames /\ DeadNames /\ PairingNames /\ ClashNames
  <1>1. ScopesTypeOK
    <2>1. ASSUME NEW r \in Readers, NEW k \in 1..Len(stack[r])
          PROVE  /\ stack[r][k].kind \in Pushes(r)
                 /\ stack[r][k].path \in Paths \cup {<<>>}
      <3>1. stack[r] \in Seq(Kept(r))
        BY DEF ScopesInv, ScopesShape
      <3>2. stack[r][k] \in Kept(r)
        BY <3>1, ElementOfSeq
      <3>3. QED BY <3>2 DEF Kept, OpenLine
    <2>2. \A r \in Readers : Pushes(r) \subseteq {"namespace"} \cup Sections
      BY WhoExpects
    <2>3. \A k \in 1..Len(stack["coverage"]) : stack["coverage"][k].kind = "namespace"
      BY <2>1, WhoExpects DEF Readers
    <2>4. \A n \in declared \cup UNION {index[r] : r \in Readers} : Last(n) = "x"
      BY DEF ScopesInv, ScopesShape, Full
    <2>5. QED BY <2>1, <2>2, <2>3, <2>4 DEF ScopesTypeOK
  <1>2. \A r \in Readers : seen \cap Unexpected(r) = {} => index[r] = declared
    BY DEF ScopesInv, IndexesAgree, Expected
  <1>3. CoverageNames
    BY <1>2 DEF CoverageNames, Unexpected, Readers
  <1>4. DeadNames
    BY <1>2 DEF DeadNames, Unexpected, Readers
  <1>5. PairingNames
    BY <1>2 DEF PairingNames, Unexpected, Readers
  <1>6. ClashNames
    BY <1>2 DEF ClashNames, Unexpected, Readers
  <1>8. QED BY <1>1, <1>3, <1>4, <1>5, <1>6

\* Each of the four readers gives the declarations of a file the names that Lean gives
\* them, for any names, any nesting and any length of the file, if the file holds
\* nothing that this reader does not expect.
THEOREM ReadersHold == ScopesSpec => [](ScopesTypeOK /\ CoverageNames /\ DeadNames /\ PairingNames /\ ClashNames)
  <1>1. ScopesInit => ScopesInv
    BY ScopesBegin
  <1>2. ScopesInv /\ [ScopesNext]_reading => ScopesInv'
    BY ScopesSteps
  <1>3. ScopesInv => ScopesTypeOK /\ CoverageNames /\ DeadNames /\ PairingNames /\ ClashNames
    BY ScopesImply
  <1>4. QED BY <1>1, <1>2, <1>3, PTL DEF ScopesSpec

\* Both halves of NamesAreFull: what the readers take the names from, and the names.
THEOREM NamesHold == ScopesSpec /\ StripSpec => []NamesAreFull
  <1>1. ScopesTypeOK /\ CoverageNames /\ DeadNames /\ PairingNames /\ ClashNames /\ StripsAsLean => NamesAreFull
    BY DEF NamesAreFull
  <1>2. QED BY <1>1, ReadersHold, StrippingHolds, PTL
=============================================================================
