---------------------------- MODULE RewritesProofs ----------------------------
(***************************************************************************)
(* The scripts that rewrite files.  The dead set of lean-dead.py, for every*)
(* library: any number of declarations in any order, with any usages.      *)
(* Anchored patches, for every list of edits.  The vendoring scripts, for  *)
(* any pieces of text, commits and fixes, over any runs, kills and errors. *)
(* The conversion to modules, for files of any length, with any work       *)
(* between the runs.                                                       *)
(***************************************************************************)
EXTENDS LeanDead, AnchoredPatch, VendorTree, Modularize, SequenceTheorems,
  FiniteSetTheorems, WellFoundedInduction, TLAPS

LEMMA LeastExists ==
  ASSUME NEW S \in SUBSET Nat, S # {}
  PROVE  \E x \in S : \A y \in S : x <= y
  <1>1. PICK x \in S : \A y \in S : ~(<<y, x>> \in OpToRel(<, Nat))
    BY NatLessThanWellFounded, WFMin
  <1>2. ASSUME NEW y \in S PROVE x <= y
    <2>1. x \in Nat /\ y \in Nat
      OBVIOUS
    <2>2. ~(y < x)
      BY <1>1, <2>1 DEF OpToRel
    <2>3. QED BY <2>1, <2>2
  <1>3. QED BY <1>2

LEMMA GreatestExists ==
  ASSUME NEW n \in Nat, NEW I \in SUBSET (1..n), I # {}
  PROVE  \E k \in I : \A j \in I : j <= k
  <1> DEFINE J == {n - j : j \in I}
  <1>0. \A j \in I : j \in Nat /\ n - j \in Nat
    OBVIOUS
  <1>1. J \in SUBSET Nat /\ J # {}
    BY <1>0
  <1>2. PICK x \in J : \A y \in J : x <= y
    BY <1>1, LeastExists
  <1>3. PICK z \in I : x = n - z
    OBVIOUS
  <1>4. ASSUME NEW j \in I PROVE j <= z
    <2>1. n - j \in J
      OBVIOUS
    <2>2. n - z <= n - j
      BY <1>2, <1>3, <2>1
    <2>3. j \in Nat /\ z \in Nat
      OBVIOUS
    <2>4. QED BY <2>2, <2>3
  <1>5. QED BY <1>4

-----------------------------------------------------------------------------
(***************************************************************************)
(* lean-dead.py's dead set.                                                *)
(***************************************************************************)
Least == \A S \in SUBSET Names : Rule(S) \subseteq S => dead \subseteq S

\* A pass that has added nothing so far has found nothing to add so far, and
\* the loop stops only at the end of such a pass.
Gone ==
  /\ ~changed => \A j \in 1..(i - 1) : Order[j] \in Rule(dead) => Order[j] \in dead
  /\ pc = "done" => ~changed /\ i = Len(Order) + 1

\* Whatever uses a dead name, as the script attributes usages, is dead or the name itself.
UsersDie == \A n \in dead : Users(n) \subseteq dead \cup {n}

Inv == TypeOK /\ UsersDie /\ Least /\ Gone

LEMMA OrderLength == Len(Order) \in Nat
  BY DeadAssumption

LEMMA InvInit == Init => Inv
  <1> SUFFICES ASSUME Init PROVE Inv
    OBVIOUS
  <1>1. TypeOK
    <2>1. i \in 1..(Len(Order) + 1)
      BY OrderLength DEF Init, Loop
    <2>2. /\ exempt \subseteq Names /\ macros \subseteq Seq(Component)
          /\ unscanned \subseteq Seq(Component) \ Names
          /\ usages \in [Names -> SUBSET ({None} \cup Seq(Component))]
      BY DEF Init
    <2>3. dead \subseteq Candidates /\ pc \in {"pass", "done"} /\ changed \in BOOLEAN
      BY DEF Init, Loop
    <2>4. QED BY <2>1, <2>2, <2>3 DEF TypeOK
  <1>2. UsersDie /\ Least
    BY DEF Init, Loop, UsersDie, Least
  <1>3. Gone
    BY DEF Init, Loop, Gone
  <1>4. QED BY <1>1, <1>2, <1>3 DEF Inv

\* The input decides who is a candidate and who uses whom.
LEMMA InputFixed ==
  ASSUME UNCHANGED input
  PROVE  /\ Candidates' = Candidates
         /\ \A n : Users(n)' = Users(n)
         /\ \A S : Rule(S)' = {n \in Candidates : Users(n) \subseteq S \cup {n}}
  BY DEF input, Candidates, InMacros, MacroNames, Users, Rule

LEMMA InvNext == Inv /\ [Next]_vars => Inv'
  <1> SUFFICES ASSUME Inv, [Next]_vars PROVE Inv'
    OBVIOUS
  <1>1. UNCHANGED input
    BY DEF Next, Mark, Skip, NextPass, Finish, vars
  <1>2. /\ Candidates' = Candidates
        /\ \A n : Users(n)' = Users(n)
        /\ \A S : Rule(S)' = Rule(S)
    BY <1>1, InputFixed DEF Rule
  <1>3. CASE Mark
    <2> DEFINE m == Order[i]
    <2>1. /\ m \in Candidates /\ Users(m) \subseteq dead \cup {m}
          /\ dead' = dead \cup {m} /\ changed' = TRUE /\ i' = i + 1 /\ pc' = "pass"
          /\ i \in 1..Len(Order)
      BY <1>3 DEF Mark, Unused, Inv, TypeOK
    <2> HIDE DEF m
    <2>2. TypeOK'
      BY <1>1, <1>2, <2>1, OrderLength DEF Inv, TypeOK, input
    <2>3. UsersDie'
      BY <1>2, <2>1 DEF Inv, UsersDie
    <2>4. ASSUME NEW S \in SUBSET Names, Rule(S) \subseteq S PROVE dead' \subseteq S
      <3>1. dead \subseteq S
        BY <2>4 DEF Inv, Least
      <3>2. m \in Rule(S)
        BY <2>1, <3>1 DEF Rule
      <3>3. QED BY <2>1, <2>4, <3>1, <3>2
    <2>5. Least'
      BY <1>2, <2>4 DEF Least
    <2>6. Gone'
      BY <2>1 DEF Gone
    <2>7. QED BY <2>2, <2>3, <2>5, <2>6 DEF Inv
  <1>4. CASE Skip
    <2>1. /\ ~(Order[i] \in Candidates \ dead /\ Unused(Order[i]))
          /\ UNCHANGED <<dead, changed, pc>> /\ i' = i + 1
          /\ i \in 1..Len(Order) /\ pc = "pass"
      BY <1>4 DEF Skip, Inv, TypeOK
    <2>2. Order[i] \in Rule(dead) => Order[i] \in dead
      BY <2>1 DEF Rule, Unused
    <2>3. \A j \in 1..(i' - 1) : j \in 1..(i - 1) \/ j = i
      BY <2>1
    <2>4. Gone'
      BY <1>2, <2>1, <2>2, <2>3 DEF Inv, Gone
    <2>5. TypeOK'
      BY <1>1, <1>2, <2>1, OrderLength DEF Inv, TypeOK, input
    <2>6. UsersDie' /\ Least'
      BY <1>2, <2>1 DEF Inv, UsersDie, Least
    <2>7. QED BY <2>4, <2>5, <2>6 DEF Inv
  <1>5. CASE NextPass \/ Finish \/ UNCHANGED vars
    <2>1. dead' = dead
      BY <1>5 DEF NextPass, Finish, vars
    <2>2. TypeOK'
      <3>1. changed' \in BOOLEAN
        BY <1>5 DEF NextPass, Finish, vars, Inv, TypeOK
      <3>2. i' \in 1..(Len(Order) + 1)
        BY <1>5, OrderLength DEF NextPass, Finish, vars, Inv, TypeOK
      <3>3. pc' \in {"pass", "done"}
        BY <1>5 DEF NextPass, Finish, vars, Inv, TypeOK
      <3>4. QED BY <1>1, <1>2, <2>1, <3>1, <3>2, <3>3 DEF Inv, TypeOK, input
    <2>3. UsersDie' /\ Least'
      BY <1>2, <2>1 DEF Inv, UsersDie, Least
    <2>4. Rule(dead)' = Rule(dead)
      BY <1>2, <2>1 DEF Rule
    <2>5. Gone'
      <3>1. CASE NextPass
        BY <3>1 DEF NextPass, Gone, Inv, TypeOK
      <3>2. CASE Finish
        BY <2>1, <2>4, <3>2, OrderLength DEF Finish, Gone, Inv, TypeOK
      <3>3. CASE UNCHANGED vars
        BY <2>1, <2>4, <3>3 DEF vars, Gone, Inv
      <3>4. QED BY <1>5, <3>1, <3>2, <3>3
    <2>6. QED BY <2>2, <2>3, <2>5 DEF Inv
  <1>6. QED BY <1>3, <1>4, <1>5 DEF Next

LEMMA Invariant == Spec => []Inv
  BY InvInit, InvNext, PTL DEF Spec

\* Only candidates are ever marked, wherever the loop stands.
THEOREM OnlyCandidates == Spec => []TypeOK
  <1>1. Inv => TypeOK
    BY DEF Inv
  <1>2. QED BY Invariant, <1>1, PTL

\* What is reported is the least fixpoint of the rule, and so depends neither
\* on the order of the files nor on the number of passes.
THEOREM ReportsLeastFixpoint == Spec => []LeastFixpoint
  <1>1. Inv => LeastFixpoint
    <2> SUFFICES ASSUME Inv PROVE LeastFixpoint
      OBVIOUS
    <2>1. ASSUME pc = "done", NEW n \in Rule(dead) PROVE n \in dead
      <3>1. PICK j \in 1..Len(Order) : n = Order[j]
        BY <2>1 DEF Rule, Candidates, Names
      <3>2. j \in 1..(i - 1) /\ ~changed
        BY <2>1, <3>1, OrderLength DEF Inv, Gone
      <3>3. QED BY <2>1, <3>1, <3>2 DEF Inv, Gone
    <2>2. QED BY <2>1 DEF Inv, Least, LeastFixpoint
  <1>2. QED BY Invariant, <1>1, PTL

\* A declaration of a namespace whose last component ends an identifier of a macro is no
\* candidate.
LEMMA LastComponentCounts ==
  ASSUME Inv, NEW n \in Candidates, Len(n) > 1, NEW t \in macros, Len(t) > 0
  PROVE  t[Len(t)] # n[Len(n)]
  <1> SUFFICES ASSUME t[Len(t)] = n[Len(n)] PROVE FALSE
    OBVIOUS
  <1>1. n \in Seq(Component) /\ t \in Seq(Component)
    BY DeadAssumption, ElementOfSeq DEF Candidates, Names, Inv, TypeOK
  <1>2. SubSeq(n, Len(n), Len(n)) = SubSeq(t, Len(t), Len(t))
    <2> DEFINE u == SubSeq(n, Len(n), Len(n))
               w == SubSeq(t, Len(t), Len(t))
    <2>1. u \in Seq(Component) /\ Len(u) = 1 /\ u[1] = n[Len(n)]
      BY <1>1
    <2>2. w \in Seq(Component) /\ Len(w) = 1 /\ w[1] = t[Len(t)]
      BY <1>1
    <2> HIDE DEF u, w
    <2>3. QED BY <2>1, <2>2, SeqEqual
  <1>3. SubSeq(n, Len(n), Len(n)) \in DottedSuffixes(n, 2)
    BY <1>1 DEF DottedSuffixes
  <1>4. SubSeq(t, Len(t), Len(t)) \in MacroNames
    BY <1>1 DEF DottedSuffixes, MacroNames
  <1>5. InMacros(n)
    BY <1>2, <1>3, <1>4 DEF InMacros
  <1>6. QED BY <1>5 DEF Candidates

\* A suffix that is not empty ends as the whole does.
LEMMA SuffixesEndAlike ==
  ASSUME NEW t \in Seq(Component), NEW m \in Nat \ {0}, NEW u \in DottedSuffixes(t, m)
  PROVE  Len(u) > 0 /\ Len(t) > 0 /\ u[Len(u)] = t[Len(t)]
  <1>1. PICK k \in m..Len(t) : u = SubSeq(t, k, Len(t))
    BY DEF DottedSuffixes
  <1>2. Len(u) = Len(t) - k + 1 /\ Len(u) > 0 /\ \A j \in 1..Len(u) : u[j] = t[k + j - 1]
    BY <1>1
  <1>3. Len(u) \in 1..Len(u) /\ k + Len(u) - 1 = Len(t)
    BY <1>1, <1>2
  <1>4. QED BY <1>1, <1>2, <1>3

\* A declaration of a namespace that a macro may name is not reported.
LEMMA QualifiedNamesAreSafe == Spec => []QualifiedMacroUsesKept
  <1>1. Inv => QualifiedMacroUsesKept
    <2> SUFFICES ASSUME Inv, NEW n \in dead, Len(n) > 1, NEW t \in macros, MayName(t, n)
                 PROVE  FALSE
      BY DEF QualifiedMacroUsesKept
    <2>1. n \in Candidates
      BY DEF Inv, TypeOK
    <2>2. n \in Seq(Component) /\ t \in Seq(Component)
      BY <2>1, DeadAssumption, ElementOfSeq DEF Candidates, Names, Inv, TypeOK
    <2>3. CASE t \in DottedSuffixes(n, 1)
      <3>1. Len(t) > 0 /\ t[Len(t)] = n[Len(n)]
        BY <2>2, <2>3, SuffixesEndAlike
      <3>2. QED BY <2>1, <3>1, LastComponentCounts
    <2>4. CASE DottedSuffixes(t, 2) \cap DottedSuffixes(n, 1) # {}
      <3>1. PICK u : u \in DottedSuffixes(t, 2) /\ u \in DottedSuffixes(n, 1)
        BY <2>4
      <3>2. Len(t) > 0 /\ u[Len(u)] = t[Len(t)]
        BY <2>2, <3>1, SuffixesEndAlike
      <3>3. u[Len(u)] = n[Len(n)]
        BY <2>2, <3>1, SuffixesEndAlike
      <3>4. QED BY <2>1, <3>2, <3>3, LastComponentCounts
    <2>5. QED BY <2>3, <2>4 DEF MayName
  <1>2. QED BY Invariant, <1>1, PTL

LEMMA LongestIs ==
  ASSUME NEW enc \in Seq(Component), enc # None, NEW S, PrefixLengths(enc, S) # {}
  PROVE  \E j \in PrefixLengths(enc, S) :
            /\ Longest(enc, S) = SubSeq(enc, 1, j)
            /\ \A k \in PrefixLengths(enc, S) : k <= j
  <1>1. PrefixLengths(enc, S) \in SUBSET (1..Len(enc)) /\ Len(enc) \in Nat
    BY DEF PrefixLengths
  <1>2. \E j \in PrefixLengths(enc, S) : \A k \in PrefixLengths(enc, S) : k <= j
    BY <1>1, GreatestExists
  <1>3. QED BY <1>2 DEF Longest

\* A usage that the script attributes to a candidate is in that candidate, if no unscanned
\* declaration is in the namespace of one.
LEMMA OwnersAre ==
  ASSUME Inv, Apart, NEW enc \in {None} \cup Seq(Component), Parent(enc) \in Candidates
  PROVE  Owner(enc) = Parent(enc)
  <1>1. CASE enc = None
    BY <1>1 DEF Owner, Parent, Longest
  <1>2. CASE enc # None
    <2>0. enc \in Seq(Component)
      BY <1>2
    <2>1. PrefixLengths(enc, Names) # {}
      <3> SUFFICES ASSUME PrefixLengths(enc, Names) = {} PROVE FALSE
        OBVIOUS
      <3>1. enc \in Names
        BY DEF Parent, Longest, Candidates
      <3>2. Len(enc) \in 1..Len(enc) /\ SubSeq(enc, 1, Len(enc)) = enc
        BY <2>0, <3>1, DeadAssumption, ElementOfSeq DEF Names
      <3>3. QED BY <3>1, <3>2 DEF PrefixLengths
    <2>2. PICK j \in PrefixLengths(enc, Names) :
             /\ Parent(enc) = SubSeq(enc, 1, j)
             /\ \A k \in PrefixLengths(enc, Names) : k <= j
      BY <1>2, <2>0, <2>1, LongestIs DEF Parent
    <2>3. PrefixLengths(enc, Names \cup unscanned) # {} /\ j \in PrefixLengths(enc, Names \cup unscanned)
      BY <2>2 DEF PrefixLengths
    <2>4. PICK m \in PrefixLengths(enc, Names \cup unscanned) :
             /\ Owner(enc) = SubSeq(enc, 1, m)
             /\ \A k \in PrefixLengths(enc, Names \cup unscanned) : k <= m
      BY <1>2, <2>0, <2>3, LongestIs DEF Owner
    <2>5. j \in 1..Len(enc) /\ m \in 1..Len(enc) /\ j <= m /\ Len(enc) \in Nat
      BY <2>0, <2>2, <2>3, <2>4 DEF PrefixLengths
    <2>6. CASE SubSeq(enc, 1, m) \in Names
      <3>1. m \in PrefixLengths(enc, Names)
        BY <2>5, <2>6 DEF PrefixLengths
      <3>2. m = j
        BY <2>2, <2>5, <3>1
      <3>3. QED BY <2>2, <2>4, <3>2
    <2>7. CASE SubSeq(enc, 1, m) \notin Names
      <3> DEFINE u == SubSeq(enc, 1, m)
      <3>1. u \in unscanned
        BY <2>4, <2>7 DEF PrefixLengths
      <3>2. Len(u) = m /\ SubSeq(u, 1, j) = SubSeq(enc, 1, j)
        BY <2>0, <2>5
      <3>3. SubSeq(u, 1, j) \in Candidates
        BY <2>2, <3>2
      <3>4. j \in 1..Len(u)
        BY <2>5, <3>2
      <3> HIDE DEF u
      <3>5. j \in PrefixLengths(u, Candidates)
        BY <3>3, <3>4 DEF PrefixLengths
      <3>6. QED BY <3>1, <3>5 DEF Apart
    <2>8. QED BY <2>6, <2>7
  <1>3. QED BY <1>1, <1>2

\* Deleting the reported declarations leaves no recorded usage of them behind, unless one is
\* in an unscanned declaration of a candidate's namespace, and none in a macro's body.
THEOREM SafeToDelete == Spec => []NothingDangles
  <1>1. Inv /\ Apart => UsagesAreDead
    <2> SUFFICES ASSUME Inv, Apart, NEW n \in dead, NEW enc \in usages[n]
                 PROVE  Owner(enc) \in dead \cup {n}
      BY DEF UsagesAreDead
    <2>1. n \in Names /\ dead \subseteq Candidates
      BY DEF Inv, TypeOK, Candidates
    <2>2. enc \in {None} \cup Seq(Component)
      BY <2>1 DEF Inv, TypeOK
    <2>3. Parent(enc) \in dead \cup {n}
      BY DEF Inv, UsersDie, Users
    <2>4. Owner(enc) = Parent(enc)
      BY <2>1, <2>2, <2>3, OwnersAre
    <2>5. QED BY <2>3, <2>4
  <1>2. Inv => (Apart => UsagesAreDead)
    BY <1>1
  <1>3. QED BY Invariant, QualifiedNamesAreSafe, <1>2, PTL DEF NothingDangles

-----------------------------------------------------------------------------
(***************************************************************************)
(* The patch scripts, for any number of edits to any files.                *)
(***************************************************************************)
Piece == [anchor : Counts \cup {0, 1}, marker : {0, 1}]

PatchTypes ==
  /\ disk \in [edit -> Piece]
  /\ next \in 1..(Len(EDITS) + 1) /\ problems \in BOOLEAN /\ check \in BOOLEAN
  /\ seen \in Seq({EDITS[k].fname : k \in edit})
  /\ Running => DOMAIN text = edit
  /\ ~Running => seen = <<>> /\ next = 1 /\ ~problems

Apply(k) == Applies(disk[k])

\* A run that has found no problem holds the replaced text of the edits it went through,
\* and those of them that the disk lacks are in a file still to write.
Progress ==
  Running =>
    /\ \A k \in edit : next <= k => text[k] = disk[k]
    /\ ~problems => \A k \in 1..(next - 1) :
         /\ text[k] = Patched(k)
         /\ EDITS[k].fname \in Range(seen) \/ disk[k] = Patched(k)
         /\ check \/ next <= Len(EDITS) => Apply(k)

\* Until a run writes, the disk is as it found it; and it has a reason for what it reports.
Untouched ==
  Running /\ (next <= Len(EDITS) \/ problems \/ check) =>
    disk = before /\ (problems => \E k \in edit : ~Apply(k))

PatchInv ==
  /\ PatchTypes /\ Progress /\ Untouched
  /\ promised => \A k \in edit : Apply(k)

LEMMA EditNumbers == Len(EDITS) \in Nat /\ edit = 1..Len(EDITS)
  BY EditsAssumption DEF edit

LEMMA PatchTry == ASSUME PatchInv, Try PROVE PatchInv'
  <1>1. /\ Running /\ Running' /\ next \in edit /\ next' = next + 1
        /\ UNCHANGED <<disk, check, before, promised>>
        /\ DOMAIN text = edit /\ text[next] = disk[next] /\ disk \in [edit -> Piece]
        /\ Len(EDITS) \in Nat /\ edit = 1..Len(EDITS) /\ next <= Len(EDITS)
        /\ seen \in Seq({EDITS[k].fname : k \in edit})
    BY EditNumbers DEF Try, Running, PatchInv, PatchTypes, Progress
  <1>2. CASE Applies(text[next])
    <2>1. /\ text' = [text EXCEPT ![next] = Replace(next, text[next])] /\ problems' = problems
          /\ seen' = IF EDITS[next].fname \in Range(seen) THEN seen ELSE Append(seen, EDITS[next].fname)
      <3> HIDE DEF Range
      <3>1. QED BY <1>2 DEF Try
    <2>2. /\ seen' \in Seq({EDITS[k].fname : k \in edit})
          /\ Range(seen') = Range(seen) \cup {EDITS[next].fname}
      <3> DEFINE F == {EDITS[k].fname : k \in edit}
                 f == EDITS[next].fname
      <3>1. f \in F
        BY <1>1
      <3> HIDE DEF F, f
      <3>2. seen \in Seq(F)
        BY <1>1 DEF F
      <3>3. /\ Append(seen, f) \in Seq(F)
            /\ {Append(seen, f)[k] : k \in DOMAIN Append(seen, f)} = {seen[k] : k \in DOMAIN seen} \cup {f}
        <4>1. /\ Append(seen, f) \in Seq(F) /\ Len(seen) \in Nat /\ DOMAIN seen = 1..Len(seen)
              /\ DOMAIN Append(seen, f) = 1..(Len(seen) + 1)
              /\ Append(seen, f)[Len(seen) + 1] = f
              /\ \A k \in 1..Len(seen) : Append(seen, f)[k] = seen[k]
          BY <3>1, <3>2
        <4>2. 1..(Len(seen) + 1) = 1..Len(seen) \cup {Len(seen) + 1}
          BY <4>1
        <4>3. QED BY <4>1, <4>2
      <3>4. QED BY <2>1, <3>2, <3>3 DEF Range, F, f
    <2>3. text'[next] = Patched(next) /\ \A k \in edit : k # next => text'[k] = text[k]
      BY <1>1, <1>2, <2>1 DEF Applies, Replace, Patched
    <2>4. PatchTypes'
      BY <1>1, <2>1, <2>2 DEF PatchInv, PatchTypes, Running, edit
    <2>5. Progress'
      <3>1. \A k \in edit : next + 1 <= k => text'[k] = disk[k]
        BY <1>1, <2>3 DEF PatchInv, Progress
      <3>2. Apply(next)
        BY <1>1, <1>2 DEF Apply
      <3>3. ~problems => \A k \in 1..next :
              /\ text'[k] = Patched(k) /\ EDITS[k].fname \in Range(seen') /\ Apply(k)
        <4>1. ASSUME NEW k \in 1..(next - 1), ~problems
              PROVE  text[k] = Patched(k) /\ Apply(k) /\ (EDITS[k].fname \in Range(seen) \/ disk[k] = Patched(k))
          BY <1>1, <4>1 DEF PatchInv, Progress
        <4>2. ASSUME NEW k \in 1..(next - 1), ~problems PROVE disk[k] # Patched(k)
          BY <4>1, <4>2 DEF Apply, Applies, Patched
        <4>3. \A k \in 1..next : k = next \/ k \in 1..(next - 1)
          BY <1>1
        <4>4. ASSUME NEW k \in 1..(next - 1), ~problems
              PROVE  text'[k] = Patched(k) /\ EDITS[k].fname \in Range(seen') /\ Apply(k)
          <5>1. k \in edit /\ k # next
            BY <1>1
          <5>2. text[k] = Patched(k) /\ Apply(k) /\ EDITS[k].fname \in Range(seen)
            BY <4>1, <4>2, <4>4
          <5>3. QED BY <2>2, <2>3, <5>1, <5>2
        <4>5. EDITS[next].fname \in Range(seen')
          BY <2>2
        <4>6. QED BY <2>3, <3>2, <4>3, <4>4, <4>5
      <3>4. (\A k : Apply(k)' = Apply(k)) /\ \A k : Patched(k)' = Patched(k)
        <4>1. disk' = disk
          BY <1>1
        <4>2. QED BY <4>1 DEF Apply, Applies, Patched
      <3>5. next' - 1 = next
        BY <1>1
      <3>6. QED BY <1>1, <2>1, <3>1, <3>3, <3>4, <3>5 DEF Progress, edit
    <2>6. Untouched' /\ (promised' => \A k \in edit : Apply(k))
      BY <1>1, <2>1 DEF PatchInv, Untouched, Apply, Applies, Running, edit
    <2>7. QED BY <1>1, <2>4, <2>5, <2>6 DEF PatchInv, Apply, Applies, edit
  <1>3. CASE ~Applies(text[next])
    <2>1. problems' = TRUE /\ text' = text /\ seen' = seen
      BY <1>3 DEF Try
    <2>2. PatchTypes'
      BY <1>1, <2>1 DEF PatchInv, PatchTypes, Running, edit
    <2>3. Progress'
      BY <1>1, <2>1 DEF PatchInv, Progress, edit
    <2>4. Untouched'
      BY <1>1, <1>3, <2>1 DEF PatchInv, Untouched, Apply, edit, Running, Applies
    <2>5. QED BY <1>1, <2>2, <2>3, <2>4 DEF PatchInv, Apply, Applies, edit
  <1>4. QED BY <1>2, <1>3

LEMMA PatchWrite == ASSUME PatchInv, Write PROVE PatchInv'
  <1> DEFINE F == {EDITS[k].fname : k \in edit}
  <1>1. /\ Running /\ Running' /\ next = Len(EDITS) + 1 /\ ~problems /\ ~check /\ seen # <<>>
        /\ disk' = [k \in edit |-> IF EDITS[k].fname = Head(seen) THEN text[k] ELSE disk[k]]
        /\ seen' = Tail(seen) /\ promised' = FALSE
        /\ UNCHANGED <<text, next, problems, check, before>>
        /\ DOMAIN text = edit /\ disk \in [edit -> Piece] /\ seen \in Seq(F)
        /\ Len(EDITS) \in Nat /\ edit = 1..Len(EDITS)
    BY EditNumbers DEF Write, Judged, Running, PatchInv, PatchTypes, F
  <1>2. \A k \in edit : text[k] = Patched(k)
                          /\ (EDITS[k].fname \in Range(seen) \/ disk[k] = Patched(k))
    BY <1>1 DEF PatchInv, Progress
  <1>3. /\ seen' \in Seq(F) /\ Range(seen) = {Head(seen)} \cup Range(seen')
    <2> HIDE DEF F
    <2>1. /\ Tail(seen) \in Seq(F) /\ Len(seen) \in Nat /\ Len(seen) > 0 /\ DOMAIN seen = 1..Len(seen)
          /\ DOMAIN Tail(seen) = 1..(Len(seen) - 1) /\ Head(seen) = seen[1]
          /\ \A k \in 1..(Len(seen) - 1) : Tail(seen)[k] = seen[k + 1]
      BY <1>1
    <2>2. ASSUME NEW x \in {seen[k] : k \in DOMAIN seen}
          PROVE  x = Head(seen) \/ x \in {Tail(seen)[k] : k \in DOMAIN Tail(seen)}
      <3>1. PICK k \in 1..Len(seen) : x = seen[k]
        BY <2>1
      <3>2. CASE k # 1
        <4>1. k - 1 \in DOMAIN Tail(seen) /\ Tail(seen)[k - 1] = seen[k]
          BY <2>1, <3>2
        <4>2. QED BY <3>1, <4>1
      <3>3. QED BY <2>1, <3>1, <3>2
    <2>3. ASSUME NEW x \in {Tail(seen)[k] : k \in DOMAIN Tail(seen)}
          PROVE  x \in {seen[k] : k \in DOMAIN seen}
      BY <2>1
    <2>4. Head(seen) \in {seen[k] : k \in DOMAIN seen}
      BY <2>1
    <2>5. QED BY <1>1, <2>1, <2>2, <2>3, <2>4 DEF Range
  <1>4. ASSUME NEW k \in edit
        PROVE  Patched(k) \in Piece
    BY DEF Patched, Piece
  <1>5. disk' \in [edit -> Piece]
    BY <1>1, <1>2, <1>4
  <1>6. \A k \in edit : EDITS[k].fname \in Range(seen') \/ disk'[k] = Patched(k)
    BY <1>1, <1>2, <1>3
  <1>7. \A k : Patched(k)' = Patched(k)
    BY DEF Patched
  <1>8. PatchTypes'
    BY <1>1, <1>3, <1>5 DEF PatchInv, PatchTypes, Running, edit, F
  <1>9. Progress'
    BY <1>1, <1>2, <1>6, <1>7 DEF Progress, edit
  <1>10. QED BY <1>1, <1>8, <1>9 DEF PatchInv, Untouched, Apply, edit

\* A run begins, or ends without a write.
LEMMA PatchTurns ==
  ASSUME PatchInv, Begin \/ Refuse \/ Passed \/ Return \/ Kill
  PROVE  PatchInv'
  <1>1. disk' = disk /\ disk \in [edit -> Piece] /\ Len(EDITS) \in Nat /\ edit = 1..Len(EDITS)
    BY EditNumbers DEF Begin, Refuse, Passed, Return, Kill, PatchInv, PatchTypes
  <1>2. \A k : Apply(k)' = Apply(k)
    BY <1>1 DEF Apply, Applies
  <1>3. CASE Begin
    BY <1>1, <1>2, <1>3 DEF Begin, PatchInv, PatchTypes, Progress, Untouched, Running, edit
  <1>4. CASE ~Begin
    <2>1. /\ ~Running' /\ seen' = <<>> /\ next' = 1 /\ problems' = FALSE /\ check' = FALSE
      BY <1>4 DEF Refuse, Passed, Return, Kill, End, Running
    <2>2. promised' => \A k \in edit : Apply(k)
      <3>1. CASE Passed
        BY <1>1, <3>1 DEF Passed, Judged, PatchInv, PatchTypes, Progress
      <3>2. CASE ~Passed
        BY <1>4, <3>2 DEF Refuse, Return, Kill, PatchInv
      <3>3. QED BY <3>1, <3>2
    <2>3. <<>> \in Seq({EDITS[k].fname : k \in edit})
      OBVIOUS
    <2> DEFINE F == {EDITS[k].fname : k \in edit}
    <2>4. PatchTypes'
      <3>1. F' = F
        BY DEF edit
      <3>2. seen' \in Seq(F') /\ next' \in 1..(Len(EDITS) + 1)
        <4> HIDE DEF F
        <4>1. QED BY <1>1, <2>1, <3>1
      <3>3. QED BY <1>1, <2>1, <3>2 DEF PatchTypes, edit
    <2>5. Progress' /\ Untouched'
      BY <2>1 DEF Progress, Untouched
    <2>6. QED BY <1>1, <1>2, <2>2, <2>4, <2>5 DEF PatchInv, edit
  <1>5. QED BY <1>3, <1>4

LEMMA PatchPeople == ASSUME PatchInv, People PROVE PatchInv'
  <1>1. /\ ~Running /\ ~Running' /\ promised' = FALSE
        /\ UNCHANGED <<text, seen, next, problems, check>> /\ disk \in [edit -> Piece]
    BY DEF People, Running, PatchInv, PatchTypes
  <1>2. disk' \in [edit -> Piece]
    <2>1. ASSUME NEW k \in edit, NEW n \in Counts, disk' = [disk EXCEPT ![k].anchor = n]
          PROVE  disk' \in [edit -> Piece]
      BY <1>1, <2>1 DEF Piece
    <2>2. Unpatched \in Piece
      BY DEF Unpatched, Piece
    <2>3. QED BY <1>1, <2>1, <2>2 DEF People
  <1>3. QED BY <1>1, <1>2 DEF PatchInv, PatchTypes, Progress, Untouched, edit

\* However often a patch script is run, checked and killed, and whatever people edit in
\* between, no edit is made twice, a run that returns made all of them, and one that
\* fails made none.
THEOREM PatchesAreWhole == PatchSpec => []PatchIsWhole
  <1>1. PatchInit => PatchInv
    <2> SUFFICES ASSUME PatchInit PROVE PatchInv
      OBVIOUS
    <2>1. Unpatched \in Piece
      BY DEF Unpatched, Piece
    <2>2. ~Running
      BY DEF PatchInit, Running
    <2>3. disk \in [edit -> Piece] /\ next = 1 /\ seen = <<>> /\ ~problems /\ ~check /\ ~promised
      BY <2>1 DEF PatchInit
    <2>4. PatchTypes
      <3> DEFINE F == {EDITS[k].fname : k \in edit}
      <3>1. seen \in Seq(F) /\ next \in 1..(Len(EDITS) + 1)
        <4> HIDE DEF F
        <4>1. QED BY <2>3, EditNumbers
      <3>2. problems \in BOOLEAN /\ check \in BOOLEAN
        BY DEF PatchInit
      <3>3. QED BY <2>2, <2>3, <3>1, <3>2 DEF PatchTypes
    <2>5. QED BY <2>2, <2>3, <2>4 DEF PatchInv, Progress, Untouched
  <1>2. PatchInv /\ [PatchNext]_patching => PatchInv'
    <2> SUFFICES ASSUME PatchInv, [PatchNext]_patching PROVE PatchInv'
      OBVIOUS
    <2>1. CASE UNCHANGED patching
      BY <2>1 DEF patching, PatchInv, PatchTypes, Progress, Untouched, Apply, Running, edit,
                  Applies, Patched
    <2>2. QED BY <2>1, PatchTry, PatchWrite, PatchTurns, PatchPeople DEF PatchNext
  <1>3. PatchInv => PatchIsWhole
    <2> SUFFICES ASSUME PatchInv PROVE PatchIsWhole
      OBVIOUS
    <2>1. \A k \in edit : disk[k].marker <= 1
      BY DEF PatchInv, PatchTypes, Piece
    <2>2. Written => \A k \in edit : disk[k] = Patched(k)
      <3>1. Range(<<>>) = {}
        BY DEF Range
      <3>2. QED BY <3>1, EditNumbers
              DEF Written, Judged, PatchInv, PatchTypes, Progress
    <2>3. Judged /\ (problems \/ check) => disk = before
      BY DEF Judged, PatchInv, Untouched
    <2>4. Judged /\ problems => ~promised
      BY DEF Judged, PatchInv, Untouched
    <2>5. QED BY <2>1, <2>2, <2>3, <2>4 DEF PatchIsWhole
  <1>4. QED BY <1>1, <1>2, <1>3, PTL DEF PatchSpec

-----------------------------------------------------------------------------
(* Vendoring.                                                              *)

\* Texts and files as they may be found after kills and errors: the text of the one
\* file is whole, or it is a root; and a part has nothing that the whole text lacks.
PieceState == Commits \X {"old", "absent", "twice", "new"}
Content(D) == [text : [D -> PieceState], rewrites : SUBSET {"pattern", "module"}]

Full(t) == main \in DOMAIN t /\ t[main].text # Empty
Parts(s, t) == {k \in Pieces[s] : Part(k) \in DOMAIN t}
LiveOf(s, t) == IF Full(t) THEN t[main].text ELSE [p \in Parts(s, t) |-> t[Part(p)].text[p]]

FileNames(s) == IF s \in Split THEN {main} \cup {Part(k) : k \in Pieces[s]} ELSE {main, other}

Formed(s, t) ==
  /\ t = [f \in DOMAIN t |-> t[f]] /\ DOMAIN t \subseteq FileNames(s)
  /\ main \in DOMAIN t => t[main] \in Content(Pieces[s]) \/ (s \in Split /\ t[main] \in Content({}))
  /\ other \in DOMAIN t => t[other] \in Content({})
  /\ \A k \in Parts(s, t) :
       /\ t[Part(k)] \in Content({k})
       /\ Full(t) /\ t[main].text[k][2] = "absent" => t[Part(k)].text[k][2] = "absent"

\* What a run that vendors s from commit c has made of the directory when it is at a
\* stage: R are the recorded fixes, X those of this loop.
Bare(s, c, X) ==
  [f \in Files(s, c) |-> [text |-> IF f = main THEN Text(s, c, X) ELSE Empty, rewrites |-> {}]]

\* One piece of a text.
Only(x, k) == [j \in {k} |-> x[j]]

Halved(s, c, R, t) ==
  /\ main \in DOMAIN t /\ DOMAIN t \subseteq FileNames(s)
  /\ t[main] = Bare(s, c, R)[main]
  /\ \A k \in Parts(s, t) : t[Part(k)] = [text |-> Only(Text(s, c, R), k), rewrites |-> {}]

Made(s, st, t, c, R, X) ==
  /\ st = "keep" => DOMAIN t = {}
  /\ st = "copy" => DOMAIN t \subseteq Files(s, c) /\ \A f \in DOMAIN t : t[f] = Fresh(s, f, c)
  /\ st \in {"fixOnce", "fix"} => X \subseteq R /\ t = Bare(s, c, X)
  /\ st = "pattern" =>
       /\ DOMAIN t = Files(s, c)
       /\ \A f \in DOMAIN t : /\ t[f].text = Bare(s, c, R)[f].text
                              /\ t[f].rewrites \subseteq Rewrites(s) \ {"module"}
  /\ st = "unpart" => t = Bare(s, c, R)
  /\ st = "part" => Halved(s, c, R, t)
  /\ st = "root" => Halved(s, c, R, t) /\ Parts(s, t) = Pieces[s]
  /\ st = "module" =>
       /\ DOMAIN t = DOMAIN Vendored(s, c, R)
       /\ \A f \in DOMAIN t : /\ t[f].text = Vendored(s, c, R)[f].text
                              /\ t[f].rewrites \subseteq Rewrites(s)
                              /\ Rewrites(s) \ {"module"} \subseteq t[f].rewrites
  /\ st = "readme" => t = Vendored(s, c, R)

-----------------------------------------------------------------------------
Stage == {"remove", "keep", "copy", "fixOnce", "fix", "pattern", "unpart", "part", "root", "module", "readme"}
Readme == [prose : {"local", "default"}, generated : Commits]

TypeInv ==
  /\ script \in Scripts /\ commit \in Commits
  /\ tree = [s \in Dirs |-> tree[s]]
  /\ readme \in [Dirs -> {Nil} \cup Readme] /\ memory \in {Nil} \cup Readme
  /\ recorded = [s \in Dirs |-> recorded[s]] /\ \A s \in Dirs : recorded[s] \subseteq Pieces[s]
  /\ sound \in [Dirs -> BOOLEAN]
  /\ mode \in {"vendor", "apply", "resplit"}
  /\ jobs \in Seq(Stage \X Mine) /\ (~Idle => result = "none")

\* Which stage follows in the run of each script.
After(st, s) ==
  CASE st = "remove" -> IF script = "lidt" THEN "copy" ELSE "keep"
    [] st = "keep" -> "copy"
    [] st = "copy" -> IF script = "repetition" THEN "fixOnce" ELSE "fix"
    [] st = "fixOnce" -> "pattern"
    [] st = "pattern" -> IF s \in Split THEN "unpart" ELSE "module"
    [] st = "unpart" -> "part"
    [] st = "part" -> "root"
    [] st \in {"root", "fix"} -> "module"
    [] OTHER -> "readme"

Fits(st, s) ==
  /\ st \in {"keep"} => script # "lidt"
  /\ st \in {"fix"} => script # "repetition"
  /\ st \in {"fixOnce", "pattern"} => script = "repetition"
  /\ st \in {"unpart", "part", "root"} => s \in Split

Queued ==
  \A n \in 1..Len(jobs) :
    /\ mode = "vendor" =>
         /\ jobs[n][2] = jobs[1][2] /\ Fits(jobs[n][1], jobs[n][2])
         /\ IF n = Len(jobs) THEN jobs[n][1] = "readme"
            ELSE jobs[n][1] # "readme" /\ jobs[n + 1][1] = After(jobs[n][1], jobs[n][2])
    /\ mode = "apply" => jobs[n][1] \in {"fix", "pattern", "module"}
    /\ mode = "resplit" =>
         /\ jobs[n][2] \in Split /\ jobs[n][1] \in {"unpart", "part", "root"}
         /\ IF n = Len(jobs) THEN jobs[n][1] = "root"
            ELSE jobs[n][1] # "root" /\ jobs[n + 1][1] = After(jobs[n][1], jobs[n][2])

Ahead(st, s) == \E n \in 1..Len(jobs) : jobs[n] = <<st, s>>

\* What a directory t is, whose last run is known to have returned (n is the README, R
\* the recorded fixes): as vendoring makes it, at least the fixes X in it.
IsWhole(s, t, X, ok, n, R) ==
  ok => n # Nil /\ \E Q \in SUBSET R : X \subseteq Q /\ t = Vendored(s, n.generated, Q)
IsFixed(s, t, X, ok, n, R) ==
  /\ \A p \in X : p \in R /\ p \in DOMAIN LiveOf(s, t) /\ LiveOf(s, t)[p][2] = "new"
  /\ IsWhole(s, t, X, ok, n, R)

Whole(s) == IsWhole(s, tree[s], {}, sound[s], readme[s], recorded[s])
FixedIn(s, X) == IsFixed(s, tree[s], X, sound[s], readme[s], recorded[s])

Copying(s) ==
  mode = "vendor" => \A st \in Stage : At(st, s) =>
    ~sound[s] /\ Made(s, st, tree[s], commit, recorded[s], fixed)

\* What a directory is that --resplit is at work on.
Cut(s, st, t) ==
  /\ Full(t)
  /\ st \in {"part", "root"} => \A k \in Parts(s, t) : t[Part(k)].text[k] = t[main].text[k]
  /\ st = "root" => Parts(s, t) = Pieces[s]

Splitting(s) == mode = "resplit" => \A st \in Stage : At(st, s) => ~sound[s] /\ Cut(s, st, tree[s])

AreModules(t) == \A f \in DOMAIN t : "module" \in t[f].rewrites

Repairing(s) ==
  mode = "apply" /\ result = "none" =>
    /\ At("fix", s) => FixedIn(s, fixed)
    /\ ~Ahead("fix", s) => FixedIn(s, recorded[s])
    /\ ~Ahead("module", s) => AreModules(tree[s])

\* Who has the text of the README.
Held(s) ==
  /\ mode = "vendor" => \A st \in Stage : At(st, s) =>
       IF st = "remove" THEN readme[s] \in {Nil, memory}
       ELSE IF st = "keep" \/ script = "lidt" THEN readme[s] = Nil
       ELSE readme[s] = memory
  /\ mode # "vendor" => memory = Nil

Sound(s) == Formed(s, tree[s]) /\ Whole(s) /\ Copying(s) /\ Splitting(s) /\ Repairing(s) /\ Held(s)

VInv == TypeInv /\ Queued /\ \A s \in Mine : Sound(s)

-----------------------------------------------------------------------------
LEMMA NamesDiffer ==
  /\ main # other
  /\ \A k : Part(k) # main /\ Part(k) # other /\ IsPart(Part(k))
  /\ \A j, k : Part(j) = Part(k) => j = k
  /\ ~IsPart(main) /\ ~IsPart(other)
  BY DEF main, other, Part, IsPart

LEMMA EmptyIs ==
  ASSUME NEW T
  PROVE  /\ Empty \in [{} -> T] /\ \A t \in [{} -> T] : t = Empty
         /\ DOMAIN Empty = {} /\ \A D : \A t \in [D -> T] : D # {} => t # Empty
  BY DEF Empty

\* What a file is.
LEMMA ContentIs ==
  ASSUME NEW D, NEW x \in Content(D)
  PROVE  /\ x.text \in [D -> PieceState] /\ DOMAIN x.text = D /\ x.rewrites \in SUBSET {"pattern", "module"}
         /\ x = [text |-> x.text, rewrites |-> x.rewrites]
  BY DEF Content

LEMMA FirstIs == ASSUME NEW S \in SUBSET Nat, S # {} PROVE First(S) \in S
  <1>1. \A T \in SUBSET Nat : T # {} => \E x \in T : \A y \in T : x <= y
    <2> SUFFICES ASSUME NEW T \in SUBSET Nat, T # {} PROVE \E x \in T : \A y \in T : x <= y
      OBVIOUS
    <2>1. PICK x \in T : \A y \in T : ~(<<y, x>> \in OpToRel(<, Nat))
      BY NatLessThanWellFounded, WFMin
    <2>2. ASSUME NEW y \in T PROVE x <= y
      <3>1. x \in Nat /\ y \in Nat
        OBVIOUS
      <3>2. ~(y < x)
        BY <2>1, <3>1 DEF OpToRel
      <3>3. QED BY <3>1, <3>2
    <2>3. QED BY <2>2
  <1>2. \E x \in S : \A y \in S : x <= y
    BY <1>1
  <1>3. QED BY <1>2 DEF First

\* A directory with a file more or changed, and with a file less.
With(t, f, x) == [g \in DOMAIN t \cup {f} |-> IF g = f THEN x ELSE t[g]]
Without(t, f) == [g \in DOMAIN t \ {f} |-> t[g]]

LEMMA WithIs ==
  ASSUME NEW t, NEW f, NEW x
  PROVE  /\ DOMAIN With(t, f, x) = DOMAIN t \cup {f} /\ With(t, f, x)[f] = x
         /\ \A g \in DOMAIN t : g # f => With(t, f, x)[g] = t[g]
         /\ With(t, f, x) = [g \in DOMAIN With(t, f, x) |-> With(t, f, x)[g]]
  BY DEF With

LEMMA WithoutIs ==
  ASSUME NEW t, NEW f
  PROVE  /\ DOMAIN Without(t, f) = DOMAIN t \ {f}
         /\ \A g \in DOMAIN Without(t, f) : Without(t, f)[g] = t[g]
         /\ Without(t, f) = [g \in DOMAIN Without(t, f) |-> Without(t, f)[g]]
  BY DEF Without

LEMMA PiecesAre ==
  ASSUME NEW s \in Dirs
  PROVE  /\ Pieces[s] \in SUBSET Nat
         /\ \A c \in Commits : \A R : /\ Text(s, c, R) \in [Pieces[s] -> PieceState]
                                     /\ \A p \in Pieces[s] : Text(s, c, R)[p] = <<c, IF p \in R THEN "new" ELSE Upstream[c][s][p]>>
  <1>1. Pieces[s] \in SUBSET Nat
    BY VendorAssumption
  <1>2. ASSUME NEW c \in Commits, NEW R, NEW p \in Pieces[s]
        PROVE  <<c, IF p \in R THEN "new" ELSE Upstream[c][s][p]>> \in PieceState
    <2>1. Upstream[c][s][p] \in {"old", "absent", "twice"}
      BY VendorAssumption
    <2>2. QED BY <2>1 DEF PieceState
  <1>3. QED BY <1>1, <1>2 DEF Text

\* Whether the whole text is there.
LEMMA FullIs ==
  ASSUME NEW s \in Dirs, NEW t, Formed(s, t)
  PROVE  /\ Full(t) <=> main \in DOMAIN t /\ t[main] \in Content(Pieces[s]) /\ Pieces[s] # {}
         /\ Full(t) => LiveOf(s, t) = t[main].text /\ DOMAIN LiveOf(s, t) = Pieces[s]
         /\ ~Full(t) => /\ DOMAIN LiveOf(s, t) = Parts(s, t)
                        /\ \A p \in Parts(s, t) : LiveOf(s, t)[p] = t[Part(p)].text[p]
  <1>1. ASSUME main \in DOMAIN t, t[main] \in Content({}) PROVE t[main].text = Empty
    BY <1>1, ContentIs, EmptyIs
  <1>2. ASSUME main \in DOMAIN t, t[main] \in Content(Pieces[s])
        PROVE  DOMAIN t[main].text = Pieces[s] /\ (t[main].text = Empty <=> Pieces[s] = {})
    BY <1>2, ContentIs, EmptyIs
  <1>3. Full(t) <=> main \in DOMAIN t /\ t[main] \in Content(Pieces[s]) /\ Pieces[s] # {}
    BY <1>1, <1>2 DEF Formed, Full
  <1>4. QED BY <1>2, <1>3 DEF LiveOf

\* Files are removed: what is left is formed as before.
LEMMA RemoveForms ==
  ASSUME NEW s \in Dirs, NEW t, NEW f, Formed(s, t)
  PROVE  Formed(s, Without(t, f))
  <1> DEFINE u == Without(t, f)
  <1>1. /\ DOMAIN u = DOMAIN t \ {f} /\ \A g \in DOMAIN u : u[g] = t[g]
        /\ u = [g \in DOMAIN u |-> u[g]]
    BY WithoutIs
  <1> HIDE DEF u
  <1>2. Parts(s, u) \subseteq Parts(s, t) /\ \A k \in Parts(s, u) : u[Part(k)] = t[Part(k)]
    BY <1>1 DEF Parts
  <1>3. Full(u) => Full(t) /\ u[main] = t[main]
    BY <1>1 DEF Full
  <1>4. Formed(s, u)
    BY <1>1, <1>2, <1>3 DEF Formed
  <1>5. QED BY <1>4 DEF u

\* A file is rewritten as a whole: no text changes.
Rewritten(y, stage) == [y EXCEPT !.rewrites = @ \cup {stage}]

IsRewritten(s, t, f, stage, u) ==
  /\ Formed(s, u) /\ LiveOf(s, u) = LiveOf(s, t) /\ DOMAIN u = DOMAIN t
  /\ (Full(u) <=> Full(t)) /\ Parts(s, u) = Parts(s, t)
  /\ \A g \in DOMAIN u : u[g].text = t[g].text
  /\ u[f].rewrites = t[f].rewrites \cup {stage} /\ \A g \in DOMAIN u : g # f => u[g] = t[g]

LEMMA RewriteForms ==
  ASSUME NEW s \in Dirs, NEW t, Formed(s, t), NEW f \in DOMAIN t, NEW stage \in {"pattern", "module"},
         NEW u, u = With(t, f, Rewritten(t[f], stage))
  PROVE  IsRewritten(s, t, f, stage, u)
  <1> DEFINE x == Rewritten(t[f], stage)
  <1>0. u = With(t, f, x)
    OBVIOUS
  <1>1. \A D : t[f] \in Content(D) => x \in Content(D) /\ x.text = t[f].text /\ x.rewrites = t[f].rewrites \cup {stage}
    <2> SUFFICES ASSUME NEW D, t[f] \in Content(D)
                 PROVE  x \in Content(D) /\ x.text = t[f].text /\ x.rewrites = t[f].rewrites \cup {stage}
      OBVIOUS
    <2>1. /\ t[f].text \in [D -> PieceState] /\ t[f].rewrites \in SUBSET {"pattern", "module"}
          /\ t[f] = [text |-> t[f].text, rewrites |-> t[f].rewrites]
      BY ContentIs
    <2>2. x = [text |-> t[f].text, rewrites |-> t[f].rewrites \cup {stage}]
      BY <2>1 DEF Rewritten
    <2>3. QED BY <2>1, <2>2 DEF Content
  <1>2. \E D : t[f] \in Content(D)
    <2>1. f = main \/ f = other \/ \E k \in Pieces[s] : f = Part(k)
      BY DEF Formed, FileNames
    <2>2. QED BY <2>1 DEF Formed, Parts
  <1> HIDE DEF x
  <1>3. /\ DOMAIN u = DOMAIN t /\ u[f] = x /\ \A g \in DOMAIN t : g # f => u[g] = t[g]
        /\ u = [g \in DOMAIN u |-> u[g]]
    BY <1>0 DEF With
  <1>4. \A g \in DOMAIN t : u[g].text = t[g].text
    BY <1>1, <1>2, <1>3
  <1>5. (Full(u) <=> Full(t)) /\ Parts(s, u) = Parts(s, t)
    BY <1>3, <1>4 DEF Full, Parts
  <1>6. LiveOf(s, u) = LiveOf(s, t)
    BY <1>3, <1>4, <1>5 DEF LiveOf, Full, Parts
  <1>7. Formed(s, u)
    <2>1. main \in DOMAIN u => u[main] \in Content(Pieces[s]) \/ (s \in Split /\ u[main] \in Content({}))
      BY <1>1, <1>3 DEF Formed
    <2>2. other \in DOMAIN u => u[other] \in Content({})
      BY <1>1, <1>3 DEF Formed
    <2>3. ASSUME NEW k \in Parts(s, u)
          PROVE  /\ u[Part(k)] \in Content({k})
                 /\ Full(u) /\ u[main].text[k][2] = "absent" => u[Part(k)].text[k][2] = "absent"
      <3>1. k \in Parts(s, t) /\ Part(k) \in DOMAIN t /\ u[Part(k)].text = t[Part(k)].text
        BY <1>3, <1>4, <1>5 DEF Parts
      <3>2. u[Part(k)] \in Content({k})
        BY <1>1, <1>3, <3>1 DEF Formed
      <3>3. Full(u) => u[main].text = t[main].text
        BY <1>3, <1>4 DEF Full
      <3>4. QED BY <1>5, <3>1, <3>2, <3>3 DEF Formed
    <2>4. QED BY <1>3, <2>1, <2>2, <2>3 DEF Formed
  <1>8. u[f].rewrites = t[f].rewrites \cup {stage}
    BY <1>1, <1>2, <1>3
  <1>9. QED BY <1>3, <1>4, <1>5, <1>6, <1>7, <1>8 DEF IsRewritten

-----------------------------------------------------------------------------
(* The recorded fixes.                                                     *)

HasIn(t, f, p) ==
  f \in DOMAIN t /\ p \in DOMAIN t[f].text /\ (Applied(t[f].text[p]) \/ Occurrences(p, t[f].text[p]) > 0)
TargetIn(s, t, p) ==
  LET having == {k \in Pieces[s] : HasIn(t, Part(k), p)}
  IN  IF HasIn(t, main, p) \/ main \notin DOMAIN t \/ having = {} THEN main ELSE Part(First(having))

\* A fix that does not end the run makes its piece the new text, from the old one.
LEMMA PieceIs ==
  ASSUME NEW p, NEW piece \in PieceState
  PROVE  /\ AsItIs(p, piece) # Nil =>
              /\ AsItIs(p, piece) \in PieceState /\ AsItIs(p, piece) = <<piece[1], "new">>
              /\ AsItIs(p, piece) = piece \/ piece[2] = "old"
         /\ Once(p, piece) # Nil /\ ~Applied(piece) =>
              Once(p, piece) = <<piece[1], "new">> /\ piece[2] = "old"
         /\ (Applied(piece) \/ Occurrences(p, piece) > 0) <=> piece[2] # "absent"
  <1>1. piece = <<piece[1], piece[2]>> /\ piece[1] \in Commits /\ piece[2] \in {"old", "absent", "twice", "new"}
    BY DEF PieceState
  <1>2. (Applied(piece) <=> piece[2] = "new") /\ (~Applied(piece) => (Occurrences(p, piece) = 1 <=> piece[2] = "old"))
    BY <1>1 DEF Applied, Occurrences
  <1>3. ~Applied(piece) => Replaced(piece) = <<piece[1], "new">>
    BY DEF Replaced
  <1>4. <<piece[1], "new">> \in PieceState
    BY <1>1 DEF PieceState
  <1>5. (Applied(piece) \/ Occurrences(p, piece) > 0) <=> piece[2] # "absent"
    BY <1>1, <1>2 DEF Occurrences
  <1>6. CASE Applied(piece)
    BY <1>1, <1>2, <1>4, <1>5, <1>6 DEF AsItIs
  <1>7. CASE ~Applied(piece)
    BY <1>1, <1>2, <1>3, <1>4, <1>5, <1>7 DEF AsItIs, Once
  <1>8. QED BY <1>6, <1>7

\* The file that a fix is brought to is the one that holds the text, or the part that does.
LEMMA TargetIs ==
  ASSUME NEW s \in Dirs, NEW t, Formed(s, t), NEW p \in Pieces[s],
         LET f == TargetIn(s, t, p) IN f \in DOMAIN t /\ p \in DOMAIN t[f].text
  PROVE  \/ Full(t) /\ TargetIn(s, t, p) = main /\ t[main].text[p] \in PieceState
         \/ ~Full(t) /\ TargetIn(s, t, p) = Part(p) /\ p \in Parts(s, t) /\ t[Part(p)].text[p] \in PieceState
  <1> DEFINE having == {k \in Pieces[s] : HasIn(t, Part(k), p)}
             f == TargetIn(s, t, p)
  <1>1. having # {} => First(having) \in having
    <2>1. Pieces[s] \in SUBSET Nat
      BY PiecesAre
    <2>2. QED BY <2>1, FirstIs
  <1>2. f \in DOMAIN t /\ p \in DOMAIN t[f].text
    OBVIOUS
  <1>3. CASE f = main
    <2>1. t[main] \in Content(Pieces[s]) /\ Full(t)
      BY <1>2, <1>3, FullIs, ContentIs DEF Formed
    <2>2. QED BY <1>3, <2>1, ContentIs
  <1>4. CASE f # main
    <2>1. f = Part(First(having)) /\ having # {} /\ ~HasIn(t, main, p) /\ main \in DOMAIN t
      BY <1>4 DEF TargetIn
    <2> DEFINE k == First(having)
    <2>2. k \in Pieces[s] /\ HasIn(t, Part(k), p)
      BY <1>1, <2>1
    <2> HIDE DEF k
    <2>3. k \in Parts(s, t) /\ t[Part(k)] \in Content({k}) /\ p \in DOMAIN t[Part(k)].text
      BY <2>2 DEF Parts, Formed, HasIn
    <2>4. k = p /\ t[Part(p)].text[p] \in PieceState
      BY <2>3, ContentIs
    <2>5. t[Part(p)].text[p][2] # "absent"
      BY <2>2, <2>4, PieceIs DEF HasIn
    <2>6. ASSUME Full(t) PROVE FALSE
      <3>1. t[main] \in Content(Pieces[s])
        BY <2>6, FullIs
      <3>2. p \in DOMAIN t[main].text /\ t[main].text[p] \in PieceState
        BY <3>1, ContentIs
      <3>3. t[main].text[p][2] = "absent"
        BY <2>1, <3>2, PieceIs DEF HasIn
      <3>4. QED BY <2>3, <2>4, <2>5, <2>6, <3>3 DEF Formed
    <2>7. QED BY <2>1, <2>3, <2>4, <2>6 DEF k
  <1>5. QED BY <1>3, <1>4

\* The new text of a piece in a file.
FixedFile(y, p, piece) == [y EXCEPT !.text[p] = piece]

LEMMA FixedFileIs ==
  ASSUME NEW D, NEW y \in Content(D), NEW p \in D, NEW piece \in PieceState
  PROVE  LET x == FixedFile(y, p, piece)
         IN  /\ x \in Content(D) /\ x.rewrites = y.rewrites /\ x.text[p] = piece
             /\ x = [text |-> [y.text EXCEPT ![p] = piece], rewrites |-> y.rewrites]
             /\ \A q \in D : q # p => x.text[q] = y.text[q]
  <1>1. /\ y.text \in [D -> PieceState] /\ y.rewrites \in SUBSET {"pattern", "module"}
        /\ y = [text |-> y.text, rewrites |-> y.rewrites]
    BY ContentIs
  <1> DEFINE x == FixedFile(y, p, piece)
             r == [y.text EXCEPT ![p] = piece]
  <1>2. r \in [D -> PieceState] /\ r[p] = piece /\ \A q \in D : q # p => r[q] = y.text[q]
    BY <1>1
  <1>3. x = [text |-> r, rewrites |-> y.rewrites]
    BY <1>1 DEF FixedFile
  <1> HIDE DEF r, x
  <1>4. x.text = r /\ x.rewrites = y.rewrites /\ x \in Content(D)
    BY <1>1, <1>2, <1>3 DEF Content
  <1>5. QED BY <1>2, <1>3, <1>4 DEF r, x

\* A fix keeps all text but its own piece.
IsRepaired(s, t, p, u) ==
  /\ Formed(s, u) /\ DOMAIN u = DOMAIN t /\ (Full(u) <=> Full(t))
  /\ \A g \in DOMAIN u : u[g].rewrites = t[g].rewrites
  /\ DOMAIN LiveOf(s, u) = DOMAIN LiveOf(s, t)
  /\ p \in DOMAIN LiveOf(s, u) /\ LiveOf(s, u)[p][2] = "new"
  /\ LiveOf(s, u)[p] # LiveOf(s, t)[p] => LiveOf(s, t)[p][2] = "old"
  /\ \A q \in DOMAIN LiveOf(s, t) : q # p => LiveOf(s, u)[q] = LiveOf(s, t)[q]

LEMMA FixForms ==
  ASSUME NEW s \in Dirs, NEW t, Formed(s, t), NEW p \in Pieces[s], NEW f \in DOMAIN t, f = TargetIn(s, t, p),
         p \in DOMAIN t[f].text, AsItIs(p, t[f].text[p]) # Nil
  PROVE  IsRepaired(s, t, p, With(t, f, FixedFile(t[f], p, AsItIs(p, t[f].text[p]))))
  <1> DEFINE old == t[f].text[p]
             new == AsItIs(p, old)
             x == FixedFile(t[f], p, new)
             u == With(t, f, x)
  <1>1. \/ Full(t) /\ f = main /\ t[main].text[p] \in PieceState
        \/ ~Full(t) /\ f = Part(p) /\ p \in Parts(s, t) /\ t[Part(p)].text[p] \in PieceState
    BY TargetIs
  <1>2. new \in PieceState /\ new[2] = "new" /\ (new # old => old[2] = "old")
    BY <1>1, PieceIs
  <1> HIDE DEF new, old
  <1>3. \A D : t[f] \in Content(D) /\ p \in D =>
          x \in Content(D) /\ x.rewrites = t[f].rewrites /\ x.text[p] = new /\ \A q \in D : q # p => x.text[q] = t[f].text[q]
    <2> SUFFICES ASSUME NEW D, t[f] \in Content(D), p \in D
                 PROVE  /\ x \in Content(D) /\ x.rewrites = t[f].rewrites /\ x.text[p] = new
                        /\ \A q \in D : q # p => x.text[q] = t[f].text[q]
      OBVIOUS
    <2>1. QED BY <1>2, FixedFileIs
  <1> HIDE DEF x
  <1>4. /\ DOMAIN u = DOMAIN t /\ u[f] = x /\ \A g \in DOMAIN t : g # f => u[g] = t[g]
        /\ u = [g \in DOMAIN u |-> u[g]]
    <2>1. /\ DOMAIN With(t, f, x) = DOMAIN t \cup {f} /\ With(t, f, x)[f] = x
          /\ \A g \in DOMAIN t : g # f => With(t, f, x)[g] = t[g]
          /\ With(t, f, x) = [g \in DOMAIN With(t, f, x) |-> With(t, f, x)[g]]
      BY DEF With
    <2>2. QED BY <2>1
  <1> HIDE DEF u
  <1>5. Parts(s, u) = Parts(s, t)
    BY <1>4 DEF Parts
  <1>6. CASE Full(t) /\ f = main
    <2>1. t[main] \in Content(Pieces[s]) /\ Pieces[s] # {}
      BY <1>6, FullIs
    <2>2. /\ u[main] \in Content(Pieces[s]) /\ u[main].rewrites = t[main].rewrites /\ u[main].text[p] = new
          /\ \A q \in Pieces[s] : q # p => u[main].text[q] = t[main].text[q]
      BY <1>3, <1>4, <1>6, <2>1
    <2>3. \A k \in Parts(s, u) : u[Part(k)] = t[Part(k)] /\ Part(k) \in DOMAIN t
      BY <1>4, <1>5, <1>6, NamesDiffer DEF Parts
    <2>4. other \in DOMAIN u => u[other] = t[other]
      BY <1>4, <1>6, NamesDiffer
    <2>5. \A k \in Parts(s, t) : t[main].text[k][2] = "absent" => t[Part(k)].text[k][2] = "absent"
      BY <1>6 DEF Formed
    <2>6. \A k \in Parts(s, u) : u[main].text[k][2] = "absent" => u[Part(k)].text[k][2] = "absent"
      BY <1>2, <1>5, <2>2, <2>3, <2>5 DEF Parts
    <2>7. Formed(s, u)
      BY <1>4, <1>5, <2>2, <2>3, <2>4, <2>6 DEF Formed
    <2>8. Full(u)
      BY <1>4, <1>6, <2>1, <2>2, <2>7, FullIs
    <2>9. LiveOf(s, u) = u[main].text /\ LiveOf(s, t) = t[main].text /\ DOMAIN LiveOf(s, u) = Pieces[s] /\ DOMAIN LiveOf(s, t) = Pieces[s]
      BY <1>6, <2>7, <2>8, FullIs
    <2>10. \A g \in DOMAIN u : u[g].rewrites = t[g].rewrites
      BY <1>4, <1>6, <2>2
    <2>11. old = t[main].text[p]
      BY <1>6 DEF old
    <2>12. IsRepaired(s, t, p, u)
      BY <1>2, <1>4, <1>6, <2>2, <2>7, <2>8, <2>9, <2>10, <2>11 DEF IsRepaired
    <2>13. QED BY <2>12 DEF u, x, new, old
  <1>7. CASE ~Full(t) /\ f = Part(p) /\ p \in Parts(s, t)
    <2>1. t[Part(p)] \in Content({p})
      BY <1>7 DEF Formed
    <2>2. u[Part(p)] \in Content({p}) /\ u[Part(p)].rewrites = t[Part(p)].rewrites /\ u[Part(p)].text[p] = new
      BY <1>3, <1>4, <1>7, <2>1
    <2>3. \A k \in Parts(s, u) : k # p => u[Part(k)] = t[Part(k)] /\ Part(k) \in DOMAIN t
      BY <1>4, <1>5, <1>7, NamesDiffer DEF Parts
    <2>4. \A g \in {main, other} : g \in DOMAIN u => u[g] = t[g]
      BY <1>4, <1>7, NamesDiffer
    <2>5. ~Full(u)
      BY <1>4, <1>7, <2>4 DEF Full
    <2>6. \A k \in Parts(s, u) : u[Part(k)] \in Content({k})
      BY <1>5, <2>2, <2>3 DEF Formed
    <2>7. Formed(s, u)
      BY <1>4, <2>4, <2>5, <2>6 DEF Formed
    <2>8. /\ DOMAIN LiveOf(s, u) = Parts(s, u) /\ DOMAIN LiveOf(s, t) = Parts(s, t)
          /\ \A q \in Parts(s, t) : LiveOf(s, u)[q] = u[Part(q)].text[q] /\ LiveOf(s, t)[q] = t[Part(q)].text[q]
      BY <1>5, <1>7, <2>5, <2>7, FullIs
    <2>9. \A g \in DOMAIN u : u[g].rewrites = t[g].rewrites
      BY <1>4, <1>7, <2>2
    <2>10. old = t[Part(p)].text[p]
      BY <1>7 DEF old
    <2>11. LiveOf(s, u)[p] = new /\ LiveOf(s, t)[p] = old
      BY <1>5, <1>7, <2>2, <2>8, <2>10
    <2>12. \A q \in DOMAIN LiveOf(s, t) : q # p => LiveOf(s, u)[q] = LiveOf(s, t)[q]
      BY <1>5, <2>3, <2>8
    <2>13. DOMAIN LiveOf(s, u) = DOMAIN LiveOf(s, t) /\ p \in DOMAIN LiveOf(s, u)
      BY <1>5, <1>7, <2>8
    <2>14. LiveOf(s, u)[p][2] = "new" /\ (LiveOf(s, u)[p] # LiveOf(s, t)[p] => LiveOf(s, t)[p][2] = "old")
      BY <1>2, <2>11
    <2>15. (Full(u) <=> Full(t))
      BY <1>7, <2>5
    <2>16. IsRepaired(s, t, p, u)
      BY <1>4, <2>7, <2>9, <2>12, <2>13, <2>14, <2>15 DEF IsRepaired
    <2>17. QED BY <2>16 DEF u, x, new, old
  <1>8. QED BY <1>1, <1>6, <1>7

-----------------------------------------------------------------------------
(* What a run that vendors a source makes, and what fixes do to it.        *)

LEMMA OnlyIs ==
  ASSUME NEW x, NEW k
  PROVE  /\ DOMAIN Only(x, k) = {k} /\ Only(x, k)[k] = x[k]
         /\ \A T : x[k] \in T => Only(x, k) \in [{k} -> T]
         /\ \A y : y[k] = x[k] => Only(y, k) = Only(x, k)
         /\ \A T : \A y \in [{k} -> T] : y[k] = x[k] => y = Only(x, k)
  BY DEF Only

LEMMA FilesAre ==
  ASSUME NEW s, NEW c
  PROVE  /\ main \in Files(s, c) /\ Files(s, c) \subseteq {main, other} /\ Files(s, c) \subseteq FileNames(s)
         /\ s \in Split => Files(s, c) = {main}
         /\ \A k : Part(k) \notin Files(s, c)
  BY NamesDiffer DEF Files, Closure, FileNames

LEMMA RewritesAre == ASSUME NEW s PROVE "module" \in Rewrites(s) /\ Rewrites(s) \in SUBSET {"pattern", "module"}
  BY DEF Rewrites

\* One more fix in the text.
LEMMA TextIs ==
  ASSUME NEW s \in Dirs, NEW c \in Commits, NEW R, NEW p \in Pieces[s], NEW S, S = R \cup {p}
  PROVE  /\ [Text(s, c, R) EXCEPT ![p] = <<c, "new">>] = Text(s, c, S)
         /\ \A q \in Pieces[s] : q # p => Text(s, c, R)[q] = Text(s, c, S)[q]
         /\ Text(s, c, S)[p] = <<c, "new">> /\ Text(s, c, R)[p][1] = c /\ Text(s, c, R)[p] \in PieceState
         /\ DOMAIN Text(s, c, R) = Pieces[s] /\ DOMAIN Text(s, c, S) = Pieces[s]
  <1>1. \A q \in Pieces[s] : q # p => (q \in R <=> q \in S)
    OBVIOUS
  <1>2. Text(s, c, R)[p] \in PieceState /\ Text(s, c, R)[p][1] = c
    BY PiecesAre
  <1>3. p \in S
    OBVIOUS
  <1>4. QED BY <1>1, <1>2, <1>3 DEF Text

IsBare(s, c, X, t) ==
  /\ Formed(s, t) /\ DOMAIN t = Files(s, c) /\ Parts(s, t) = {} /\ main \in DOMAIN t
  /\ t[main] = [text |-> Text(s, c, X), rewrites |-> {}]
  /\ \A f \in DOMAIN t : f # main => t[f] = [text |-> Empty, rewrites |-> {}]
  /\ t = [f \in DOMAIN t |-> t[f]]

LEMMA BareIs ==
  ASSUME NEW s \in Dirs, NEW c \in Commits, NEW X, NEW t, t = Bare(s, c, X)
  PROVE  IsBare(s, c, X, t)
  <1>1. /\ DOMAIN t = Files(s, c) /\ main \in DOMAIN t /\ t = [f \in DOMAIN t |-> t[f]]
        /\ t[main] = [text |-> Text(s, c, X), rewrites |-> {}]
        /\ \A f \in DOMAIN t : f # main => t[f] = [text |-> Empty, rewrites |-> {}]
    BY FilesAre DEF Bare
  <1>2. Parts(s, t) = {}
    BY <1>1, FilesAre DEF Parts
  <1>3. t[main] \in Content(Pieces[s])
    BY <1>1, PiecesAre DEF Content
  <1>4. other \in DOMAIN t => t[other] \in Content({})
    BY <1>1, NamesDiffer, EmptyIs DEF Content
  <1>5. Formed(s, t)
    BY <1>1, <1>2, <1>3, <1>4, FilesAre DEF Formed
  <1>6. QED BY <1>1, <1>2, <1>5 DEF IsBare

IsVendored(s, c, R, t) ==
  /\ Formed(s, t) /\ main \in DOMAIN t /\ t = [f \in DOMAIN t |-> t[f]]
  /\ \A f \in DOMAIN t : t[f] = [text |-> t[f].text, rewrites |-> Rewrites(s)]
  /\ s \in Split => /\ DOMAIN t = {main} \cup {Part(k) : k \in Pieces[s]}
                    /\ t[main].text = Empty /\ Parts(s, t) = Pieces[s]
                    /\ \A k \in Pieces[s] : t[Part(k)].text = Only(Text(s, c, R), k)
  /\ s \notin Split => /\ DOMAIN t = Files(s, c) /\ Parts(s, t) = {}
                       /\ t[main].text = Text(s, c, R)
                       /\ \A f \in DOMAIN t : f # main => t[f].text = Empty

LEMMA VendoredIs ==
  ASSUME NEW s \in Dirs, NEW c \in Commits, NEW R, NEW t, t = Vendored(s, c, R)
  PROVE  IsVendored(s, c, R, t)
  <1>1. Text(s, c, R) \in [Pieces[s] -> PieceState] /\ Rewrites(s) \in SUBSET {"pattern", "module"}
    BY PiecesAre, RewritesAre
  <1>2. CASE s \in Split
    <2> DEFINE x(f) == [text |-> [p \in {k \in Pieces[s] : Part(k) = f} |-> Text(s, c, R)[p]], rewrites |-> Rewrites(s)]
    <2>1. t = [f \in {main} \cup {Part(k) : k \in Pieces[s]} |-> x(f)]
      BY <1>2 DEF Vendored
    <2>2. x(main).text = Empty
      <3>1. {k \in Pieces[s] : Part(k) = main} = {}
        BY NamesDiffer
      <3>2. x(main).text \in [{} -> PieceState]
        BY <3>1
      <3>3. QED BY <3>2, EmptyIs
    <2>3. ASSUME NEW k \in Pieces[s] PROVE x(Part(k)).text = Only(Text(s, c, R), k)
      <3>1. {j \in Pieces[s] : Part(j) = Part(k)} = {k}
        BY NamesDiffer
      <3>2. QED BY <3>1 DEF Only
    <2>4. \A f : x(f).rewrites = Rewrites(s) /\ x(f) = [text |-> x(f).text, rewrites |-> Rewrites(s)]
      OBVIOUS
    <2> HIDE DEF x
    <2>5. DOMAIN t = {main} \cup {Part(k) : k \in Pieces[s]} /\ \A f \in DOMAIN t : t[f] = x(f)
      BY <2>1
    <2>6. /\ t[main].text = Empty /\ main \in DOMAIN t
          /\ \A f \in DOMAIN t : t[f] = [text |-> t[f].text, rewrites |-> Rewrites(s)]
          /\ \A k \in Pieces[s] : Part(k) \in DOMAIN t /\ t[Part(k)].text = Only(Text(s, c, R), k)
      BY <2>2, <2>3, <2>4, <2>5
    <2>7. t = [f \in DOMAIN t |-> t[f]]
      BY <2>1
    <2>8. Parts(s, t) = Pieces[s]
      BY <2>6 DEF Parts
    <2>9. t[main] \in Content({})
      BY <1>1, <2>6, EmptyIs DEF Content
    <2>10. ASSUME NEW k \in Pieces[s] PROVE t[Part(k)] \in Content({k})
      <3>1. Only(Text(s, c, R), k) \in [{k} -> PieceState]
        BY <1>1, OnlyIs
      <3>2. t[Part(k)].text \in [{k} -> PieceState]
        BY <2>6, <3>1
      <3>3. t[Part(k)] = [text |-> t[Part(k)].text, rewrites |-> Rewrites(s)]
        BY <2>6
      <3>4. QED BY <1>1, <3>2, <3>3 DEF Content
    <2>11. other \notin DOMAIN t
      BY <2>5, NamesDiffer
    <2>12. Formed(s, t)
      BY <1>2, <2>5, <2>6, <2>7, <2>8, <2>9, <2>10, <2>11 DEF Formed, FileNames, Full
    <2>13. QED BY <1>2, <2>5, <2>6, <2>7, <2>8, <2>12 DEF IsVendored
  <1>3. CASE s \notin Split
    <2>1. t = [f \in Files(s, c) |-> [text |-> IF f = main THEN Text(s, c, R) ELSE Empty, rewrites |-> Rewrites(s)]]
      BY <1>3 DEF Vendored
    <2>2. /\ DOMAIN t = Files(s, c) /\ main \in DOMAIN t /\ t = [f \in DOMAIN t |-> t[f]]
          /\ t[main].text = Text(s, c, R)
          /\ \A f \in DOMAIN t : t[f] = [text |-> t[f].text, rewrites |-> Rewrites(s)]
          /\ \A f \in DOMAIN t : f # main => t[f].text = Empty
      BY <2>1, FilesAre
    <2>3. Parts(s, t) = {}
      BY <2>2, FilesAre DEF Parts
    <2>4. t[main] \in Content(Pieces[s])
      BY <1>1, <2>2 DEF Content
    <2>5. other \in DOMAIN t => t[other] \in Content({})
      BY <1>1, <2>2, NamesDiffer, EmptyIs DEF Content
    <2>6. Formed(s, t)
      BY <2>2, <2>3, <2>4, <2>5, FilesAre DEF Formed
    <2>7. QED BY <1>3, <2>2, <2>3, <2>6 DEF IsVendored
  <1>4. QED BY <1>2, <1>3

\* A fix of the copy, by either loop, as the copy is made.
LEMMA FixBare ==
  ASSUME NEW s \in Dirs, NEW c \in Commits, NEW X, NEW p \in Pieces[s], NEW Y, Y = X \cup {p},
         NEW t, t = Bare(s, c, X), NEW piece, piece # Nil,
         (piece = Once(p, t[main].text[p]) /\ p \notin X) \/ piece = AsItIs(p, t[main].text[p])
  PROVE  With(t, main, FixedFile(t[main], p, piece)) = Bare(s, c, Y)
  <1>0. PICK v : v = Bare(s, c, Y)
    OBVIOUS
  <1> DEFINE x == FixedFile(t[main], p, piece)
             u == With(t, main, x)
  <1>1. /\ t[main] = [text |-> Text(s, c, X), rewrites |-> {}] /\ DOMAIN t = Files(s, c) /\ main \in DOMAIN t
        /\ \A f \in DOMAIN t : f # main => t[f] = [text |-> Empty, rewrites |-> {}]
    <2>1. IsBare(s, c, X, t)
      BY BareIs
    <2>2. QED BY <2>1 DEF IsBare
  <1>2. t[main].text[p] = Text(s, c, X)[p] /\ Text(s, c, X)[p] \in PieceState /\ Text(s, c, X)[p][1] = c
        /\ t[main] \in Content(Pieces[s])
    BY <1>1, TextIs, PiecesAre DEF Content
  <1>3. p \notin X => ~Applied(Text(s, c, X)[p])
    <2>1. p \notin X => Text(s, c, X)[p] = <<c, Upstream[c][s][p]>>
      BY PiecesAre
    <2>2. Upstream[c][s][p] \in {"old", "absent", "twice"}
      BY VendorAssumption
    <2>3. QED BY <2>1, <2>2 DEF Applied
  <1>4. piece = <<c, "new">> /\ piece \in PieceState
    <2>1. piece = <<c, "new">>
      BY <1>2, <1>3, PieceIs
    <2>2. QED BY <2>1 DEF PieceState
  <1>5. x = [text |-> Text(s, c, Y), rewrites |-> {}]
    <2>1. \A D : t[main] \in Content(D) /\ p \in D =>
            x = [text |-> [t[main].text EXCEPT ![p] = piece], rewrites |-> t[main].rewrites]
      BY <1>4, FixedFileIs
    <2>2. x = [text |-> [t[main].text EXCEPT ![p] = piece], rewrites |-> t[main].rewrites]
      BY <1>2, <2>1
    <2>3. [Text(s, c, X) EXCEPT ![p] = <<c, "new">>] = Text(s, c, Y)
      BY TextIs
    <2>4. t[main].text = Text(s, c, X) /\ t[main].rewrites = {}
      BY <1>1
    <2>5. QED BY <1>4, <2>2, <2>3, <2>4
  <1>6. /\ v[main] = [text |-> Text(s, c, Y), rewrites |-> {}] /\ DOMAIN v = Files(s, c)
        /\ \A f \in DOMAIN v : f # main => v[f] = [text |-> Empty, rewrites |-> {}]
        /\ v = [f \in DOMAIN v |-> v[f]]
    <2>1. IsBare(s, c, Y, v)
      BY <1>0, BareIs
    <2>2. QED BY <2>1 DEF IsBare
  <1> HIDE DEF x
  <1>7. u = v
    BY <1>1, <1>5, <1>6 DEF With
  <1>8. QED BY <1>0, <1>7 DEF x

\* --apply-fixes, on a directory as vendoring makes it.
LEMMA FixVendored ==
  ASSUME NEW s \in Dirs, NEW c \in Commits, NEW R, NEW p \in Pieces[s], NEW t, t = Vendored(s, c, R),
         NEW S, S = R \cup {p},
         NEW f \in DOMAIN t, f = TargetIn(s, t, p), p \in DOMAIN t[f].text, AsItIs(p, t[f].text[p]) # Nil
  PROVE  With(t, f, FixedFile(t[f], p, AsItIs(p, t[f].text[p]))) = Vendored(s, c, S)
  <1>0. PICK old, new, v, piece : old = Text(s, c, R) /\ new = Text(s, c, S) /\ v = Vendored(s, c, S) /\ piece = AsItIs(p, t[f].text[p])
    OBVIOUS
  <1>1. /\ [old EXCEPT ![p] = <<c, "new">>] = new /\ \A q \in Pieces[s] : q # p => old[q] = new[q]
        /\ new[p] = <<c, "new">> /\ old[p][1] = c /\ old[p] \in PieceState
    BY <1>0, TextIs
  <1>2. IsVendored(s, c, R, t) /\ IsVendored(s, c, S, v)
    BY <1>0, VendoredIs
  <1>3. /\ Formed(s, t) /\ main \in DOMAIN t
        /\ \A g \in DOMAIN t : t[g] = [text |-> t[g].text, rewrites |-> Rewrites(s)]
        /\ s \in Split => /\ DOMAIN t = {main} \cup {Part(k) : k \in Pieces[s]}
                          /\ t[main].text = Empty /\ Parts(s, t) = Pieces[s]
                          /\ \A k \in Pieces[s] : t[Part(k)].text = Only(old, k)
        /\ s \notin Split => /\ DOMAIN t = Files(s, c) /\ Parts(s, t) = {}
                             /\ t[main].text = old
                             /\ \A g \in DOMAIN t : g # main => t[g].text = Empty
    BY <1>0, <1>2 DEF IsVendored
  <1>4. /\ main \in DOMAIN v /\ v = [g \in DOMAIN v |-> v[g]]
        /\ \A g \in DOMAIN v : v[g] = [text |-> v[g].text, rewrites |-> Rewrites(s)]
        /\ s \in Split => /\ DOMAIN v = {main} \cup {Part(k) : k \in Pieces[s]}
                          /\ v[main].text = Empty
                          /\ \A k \in Pieces[s] : v[Part(k)].text = Only(new, k)
        /\ s \notin Split => /\ DOMAIN v = Files(s, c)
                             /\ v[main].text = new
                             /\ \A g \in DOMAIN v : g # main => v[g].text = Empty
    BY <1>0, <1>2 DEF IsVendored
  <1>5. \/ Full(t) /\ f = main /\ t[main].text[p] \in PieceState
        \/ ~Full(t) /\ f = Part(p) /\ p \in Parts(s, t) /\ t[Part(p)].text[p] \in PieceState
    BY <1>3, TargetIs
  <1>6. s \in Split <=> ~Full(t)
    <2>1. p \in DOMAIN old
      BY <1>0, TextIs
    <2>2. old # Empty
      BY <2>1, EmptyIs
    <2>3. QED BY <1>3, <2>2 DEF Full
  <1>7. t[f].text[p] = old[p]
    <2>1. CASE Full(t)
      BY <1>3, <1>5, <1>6, <2>1
    <2>2. CASE ~Full(t)
      <3>1. t[f].text = Only(old, p)
        BY <1>3, <1>5, <1>6, <2>2
      <3>2. QED BY <3>1, OnlyIs
    <2>3. QED BY <2>1, <2>2
  <1>8. piece = <<c, "new">> /\ piece \in PieceState
    <2>1. piece = <<c, "new">>
      BY <1>0, <1>1, <1>7, PieceIs
    <2>2. QED BY <2>1 DEF PieceState
  <1> DEFINE x == FixedFile(t[f], p, piece)
  <1>9. x = [text |-> [t[f].text EXCEPT ![p] = piece], rewrites |-> Rewrites(s)]
    <2>1. \E D : t[f] \in Content(D) /\ p \in D
      <3>1. f = main => t[main] \in Content(Pieces[s])
        BY <1>3, <1>5, FullIs, NamesDiffer
      <3>2. f = Part(p) => t[f] \in Content({p})
        BY <1>3, <1>5, NamesDiffer DEF Formed
      <3>3. QED BY <1>5, <3>1, <3>2
    <2>2. x = [text |-> [t[f].text EXCEPT ![p] = piece], rewrites |-> t[f].rewrites]
      BY <1>8, <2>1, FixedFileIs
    <2>3. t[f].rewrites = Rewrites(s)
      BY <1>3
    <2>4. QED BY <2>2, <2>3
  <1> HIDE DEF x
  <1> DEFINE u == With(t, f, x)
  <1>10. CASE s \notin Split
    <2>1. f = main
      BY <1>5, <1>6, <1>10
    <2>2. x = [text |-> new, rewrites |-> Rewrites(s)]
      BY <1>1, <1>3, <1>8, <1>9, <1>10, <2>1
    <2>3. DOMAIN u = DOMAIN v
      BY <1>3, <1>4, <1>10, <2>1 DEF With
    <2>4. \A g \in DOMAIN v : u[g] = v[g]
      <3>1. \A g \in DOMAIN v : g # main => t[g] = v[g]
        BY <1>3, <1>4, <1>10
      <3>2. v[main] = x
        BY <1>3, <1>4, <1>10, <2>2
      <3>3. QED BY <1>3, <1>4, <1>10, <2>1, <3>1, <3>2 DEF With
    <2>5. u = v
      BY <1>4, <2>3, <2>4 DEF With
    <2>6. QED BY <1>0, <2>5 DEF x
  <1>11. CASE s \in Split
    <2>1. f = Part(p)
      BY <1>5, <1>6, <1>11
    <2>2. x = [text |-> Only(new, p), rewrites |-> Rewrites(s)]
      <3>1. t[f].text = Only(old, p)
        BY <1>3, <1>11, <2>1
      <3>2. [t[f].text EXCEPT ![p] = piece] = Only(new, p)
        BY <1>1, <1>8, <3>1 DEF Only
      <3>3. QED BY <1>9, <3>2
    <2>3. DOMAIN u = DOMAIN v
      BY <1>3, <1>4, <1>11, <2>1 DEF With
    <2>4. \A g \in DOMAIN v : u[g] = v[g]
      <3>1. ASSUME NEW k \in Pieces[s], k # p PROVE t[Part(k)] = v[Part(k)] /\ Part(k) # f
        <4>1. Only(old, k) = Only(new, k)
          BY <1>1, <3>1 DEF Only
        <4>2. Part(k) \in DOMAIN t /\ Part(k) \in DOMAIN v
          BY <1>3, <1>4, <1>11, <3>1
        <4>3. t[Part(k)].text = Only(old, k) /\ v[Part(k)].text = Only(new, k)
          BY <1>3, <1>4, <1>11, <3>1
        <4>4. t[Part(k)].text = v[Part(k)].text
          BY <4>1, <4>3
        <4>5. t[Part(k)] = v[Part(k)]
          BY <1>3, <1>4, <4>2, <4>4
        <4>6. QED BY <2>1, <3>1, <4>5, NamesDiffer
      <3>2. t[main] = v[main] /\ main # f
        BY <1>3, <1>4, <1>11, <2>1, NamesDiffer
      <3>3. v[Part(p)] = x
        BY <1>3, <1>4, <1>11, <2>1, <2>2
      <3>4. QED BY <1>3, <1>4, <1>11, <2>1, <3>1, <3>2, <3>3 DEF With
    <2>5. u = v
      BY <1>4, <2>3, <2>4 DEF With
    <2>6. QED BY <1>0, <2>5 DEF x
  <1>12. QED BY <1>10, <1>11

-----------------------------------------------------------------------------
(* What a run still does.                                                  *)

LEMMA MineIs == ASSUME TypeInv PROVE Mine \in SUBSET Dirs
  BY DEF TypeInv, Mine, Dirs, Scripts

LEMMA TailIs ==
  ASSUME NEW T, NEW q \in Seq(T), q # <<>>
  PROVE  /\ Len(q) \in Nat /\ Len(q) >= 1 /\ Head(q) = q[1] /\ q[1] \in T
         /\ Tail(q) \in Seq(T) /\ Len(Tail(q)) = Len(q) - 1
         /\ \A n \in 1..(Len(q) - 1) : Tail(q)[n] = q[n + 1]
         /\ Tail(q) = <<>> <=> Len(q) = 1
  <1>1. /\ Len(q) \in Nat /\ Len(q) >= 1 /\ Head(q) = q[1] /\ q[1] \in T
    OBVIOUS
  <1>2. Tail(q) \in Seq(T) /\ Len(Tail(q)) = Len(q) - 1
    OBVIOUS
  <1>3. \A n \in 1..(Len(q) - 1) : Tail(q)[n] = q[n + 1]
    OBVIOUS
  <1>4. Tail(q) = <<>> <=> Len(q) = 1
    BY <1>1, <1>2, EmptySeq
  <1>5. QED BY <1>1, <1>2, <1>3, <1>4

LEMMA HeadIs ==
  ASSUME TypeInv, NEW st, NEW s, At(st, s)
  PROVE  /\ jobs \in Seq(Stage \X Mine) /\ jobs # <<>> /\ Len(jobs) \in Nat /\ Len(jobs) >= 1
         /\ jobs[1] = <<st, s>> /\ Head(jobs) = <<st, s>> /\ st \in Stage /\ s \in Mine /\ s \in Dirs
         /\ Ahead(st, s) /\ ~Idle /\ result = "none"
         /\ \A x, z : At(x, z) => x = st /\ z = s
  <1>1. jobs \in Seq(Stage \X Mine) /\ jobs # <<>> /\ Head(jobs) = <<st, s>>
    BY DEF TypeInv, At, Idle
  <1>2. Len(jobs) \in Nat /\ Len(jobs) >= 1 /\ jobs[1] = <<st, s>> /\ jobs[1] \in Stage \X Mine
    BY <1>1, TailIs
  <1>3. st \in Stage /\ s \in Mine
    BY <1>2
  <1>4. Ahead(st, s)
    BY <1>2 DEF Ahead
  <1>5. \A x, z : At(x, z) => x = st /\ z = s
    BY <1>1 DEF At
  <1>6. QED BY <1>1, <1>2, <1>3, <1>4, <1>5, MineIs DEF TypeInv, Idle

\* The queue, one job later.
LEMMA DoneIs ==
  ASSUME TypeInv, Queued, NEW st, NEW s, At(st, s), script' = script, mode' = mode, jobs' = Tail(jobs)
  PROVE  /\ jobs' \in Seq(Stage \X Mine) /\ Mine' = Mine /\ Queued'
         /\ \A x, z : Ahead(x, z)' => Ahead(x, z)
         /\ \A x, z : Ahead(x, z) => Ahead(x, z)' \/ (x = st /\ z = s)
         /\ \A x, z : At(x, z)' => Ahead(x, z)'
         /\ mode # "apply" => \A x, z : At(x, z)' => z = s /\ x = After(st, s)
         /\ mode = "vendor" => (Idle' <=> st = "readme") /\ Fits(st, s)
         /\ mode = "resplit" => (Idle' <=> st = "root") /\ s \in Split /\ st \in {"unpart", "part", "root"}
         /\ mode = "apply" => st \in {"fix", "pattern", "module"}
         /\ ~Idle' => Head(jobs') = jobs[2] /\ Len(jobs) > 1
  <1>1. /\ jobs \in Seq(Stage \X Mine) /\ jobs # <<>> /\ Len(jobs) \in Nat /\ Len(jobs) >= 1
        /\ jobs[1] = <<st, s>>
    BY HeadIs
  <1>2. /\ jobs' \in Seq(Stage \X Mine) /\ Len(jobs') = Len(jobs) - 1
        /\ \A n \in 1..Len(jobs') : jobs'[n] = jobs[n + 1] /\ n + 1 \in 1..Len(jobs)
        /\ jobs' = <<>> <=> Len(jobs) = 1
    BY <1>1, TailIs
  <1>3. Mine' = Mine /\ \A x, z : After(x, z)' = After(x, z) /\ (Fits(x, z)' <=> Fits(x, z))
    BY DEF Mine, After, Fits
  <1>4. ~Idle' => Head(jobs') = jobs'[1] /\ jobs'[1] = jobs[2] /\ 1 \in 1..Len(jobs') /\ Len(jobs) > 1 /\ 1 \in 1..Len(jobs)
    BY <1>1, <1>2, TailIs DEF Idle
  <1>5. \A n \in 1..Len(jobs) :
          /\ mode = "vendor" =>
               /\ jobs[n][2] = jobs[1][2] /\ Fits(jobs[n][1], jobs[n][2])
               /\ n = Len(jobs) => jobs[n][1] = "readme"
               /\ n # Len(jobs) => jobs[n][1] # "readme" /\ jobs[n + 1][1] = After(jobs[n][1], jobs[n][2])
          /\ mode = "apply" => jobs[n][1] \in {"fix", "pattern", "module"}
          /\ mode = "resplit" =>
               /\ jobs[n][2] \in Split /\ jobs[n][1] \in {"unpart", "part", "root"}
               /\ n = Len(jobs) => jobs[n][1] = "root"
               /\ n # Len(jobs) => jobs[n][1] # "root" /\ jobs[n + 1][1] = After(jobs[n][1], jobs[n][2])
    BY DEF Queued
  <1>6. Queued'
    <2> SUFFICES ASSUME NEW n \in 1..Len(jobs')
                 PROVE  /\ mode = "vendor" =>
                            /\ jobs'[n][2] = jobs'[1][2] /\ Fits(jobs'[n][1], jobs'[n][2])
                            /\ n = Len(jobs') => jobs'[n][1] = "readme"
                            /\ n # Len(jobs') => jobs'[n][1] # "readme" /\ jobs'[n + 1][1] = After(jobs'[n][1], jobs'[n][2])
                        /\ mode = "apply" => jobs'[n][1] \in {"fix", "pattern", "module"}
                        /\ mode = "resplit" =>
                             /\ jobs'[n][2] \in Split /\ jobs'[n][1] \in {"unpart", "part", "root"}
                             /\ n = Len(jobs') => jobs'[n][1] = "root"
                             /\ n # Len(jobs') => jobs'[n][1] # "root" /\ jobs'[n + 1][1] = After(jobs'[n][1], jobs'[n][2])
      BY <1>3 DEF Queued
    <2>1. PICK a, b \in Nat : a = Len(jobs) /\ b = Len(jobs') /\ b = a - 1 /\ n \in 1..b
      <3>1. PICK a \in Nat : a = Len(jobs) /\ a >= 1
        BY <1>1
      <3>2. Len(jobs') = a - 1
        BY <1>2, <3>1
      <3>3. a - 1 \in Nat
        BY <3>1
      <3>4. QED BY <3>1, <3>2, <3>3
    <2>2. /\ n + 1 \in 1..a /\ 1 \in 1..b /\ 1 + 1 \in 1..a /\ (n = b <=> n + 1 = a)
          /\ n # b => n + 1 \in 1..b
      BY <2>1
    <2>3. /\ jobs'[n] = jobs[n + 1] /\ jobs'[1] = jobs[1 + 1]
          /\ n # b => jobs'[n + 1] = jobs[(n + 1) + 1]
      BY <1>2, <2>1, <2>2
    <2>4. mode = "vendor" => jobs[n + 1][2] = jobs[1 + 1][2]
      BY <1>5, <2>1, <2>2
    <2>5. QED BY <1>5, <2>1, <2>2, <2>3, <2>4
  <1>7. \A x, z : Ahead(x, z)' => Ahead(x, z)
    BY <1>2 DEF Ahead
  <1>8. ASSUME NEW x, NEW z, Ahead(x, z) PROVE Ahead(x, z)' \/ (x = st /\ z = s)
    <2>1. PICK n \in 1..Len(jobs) : jobs[n] = <<x, z>>
      BY <1>8 DEF Ahead
    <2>2. CASE n = 1
      BY <1>1, <2>1, <2>2
    <2>3. CASE n # 1
      <3>1. n - 1 \in 1..Len(jobs') /\ jobs'[n - 1] = jobs[n]
        BY <1>1, <1>2, <2>3
      <3>2. QED BY <2>1, <3>1 DEF Ahead
    <2>4. QED BY <2>2, <2>3
  <1>9. \A x, z : At(x, z)' => jobs'[1] = <<x, z>> /\ ~Idle'
    BY <1>4 DEF At, Idle
  <1>10. \A x, z : At(x, z)' => Ahead(x, z)'
    BY <1>4, <1>9 DEF Ahead
  <1>11. /\ jobs[1][1] = st /\ jobs[1][2] = s /\ 1 \in 1..Len(jobs)
         /\ \A x, z : At(x, z)' => jobs[2][1] = x /\ jobs[2][2] = z /\ Len(jobs) > 1 /\ 2 \in 1..Len(jobs) /\ 1 + 1 = 2
    BY <1>1, <1>4, <1>9
  <1>12. mode \in {"vendor", "apply", "resplit"}
    BY DEF TypeInv
  <1>13. mode = "vendor" => (Idle' <=> st = "readme") /\ Fits(st, s)
    BY <1>1, <1>2, <1>5, <1>11 DEF Idle
  <1>14. mode = "resplit" => (Idle' <=> st = "root") /\ s \in Split /\ st \in {"unpart", "part", "root"}
    BY <1>1, <1>2, <1>5, <1>11 DEF Idle
  <1>15. mode = "apply" => st \in {"fix", "pattern", "module"}
    BY <1>5, <1>11
  <1>16. mode # "apply" => \A x, z : At(x, z)' => z = s /\ x = After(st, s)
    <2>1. ASSUME NEW x, NEW z, At(x, z)', mode # "apply" PROVE z = s /\ x = After(st, s)
      <3>1. 1 # Len(jobs) /\ 1 + 1 = 2 /\ jobs[2][1] = x /\ jobs[2][2] = z /\ 2 \in 1..Len(jobs)
        BY <1>1, <1>11, <2>1
      <3>2. x = After(st, s)
        BY <1>5, <1>11, <1>12, <2>1, <3>1
      <3>3. mode = "vendor" => z = s
        BY <1>5, <1>11, <3>1
      <3>4. mode = "resplit" => z = s
        BY <1>5, <1>11, <3>1 DEF Split
      <3>5. QED BY <1>12, <2>1, <3>2, <3>3, <3>4
    <2>2. QED BY <2>1
  <1>17. QED BY <1>2, <1>3, <1>4, <1>6, <1>7, <1>8, <1>10, <1>13, <1>14, <1>15, <1>16

-----------------------------------------------------------------------------
(* Steps of a run in one directory.                                        *)

LEMMA PutIs ==
  ASSUME TypeInv, NEW s \in Dirs, NEW f, NEW x, Put(s, f, x)
  PROVE  /\ tree' = [z \in Dirs |-> tree'[z]] /\ tree'[s] = With(tree[s], f, x)
         /\ \A z \in Dirs : z # s => tree'[z] = tree[z]
  BY DEF TypeInv, Put, With

LEMMA DeleteIs ==
  ASSUME TypeInv, NEW s \in Dirs, NEW f, Delete(s, f)
  PROVE  /\ tree' = [z \in Dirs |-> tree'[z]] /\ tree'[s] = Without(tree[s], f)
         /\ \A z \in Dirs : z # s => tree'[z] = tree[z]
  BY DEF TypeInv, Delete, Without

Kept == jobs' = jobs /\ memory' = memory /\ result' = result

Moves ==
  \/ Kept
  \/ Done
  \/ \E r \in {"error", "killed"} : EndRun(r)

\* A step at a stage of one directory, which leaves the others alone.
StepOf(st, s) ==
  /\ At(st, s) /\ Moves /\ UNCHANGED Known
  /\ tree' = [z \in Dirs |-> tree'[z]]
  /\ readme' \in [Dirs -> {Nil} \cup Readme] /\ sound' \in [Dirs -> BOOLEAN]
  /\ \A z \in Dirs : z # s => tree'[z] = tree[z] /\ readme'[z] = readme[z] /\ sound'[z] = sound[z]

LEMMA MovesIs ==
  ASSUME TypeInv, Queued, NEW st, NEW s, At(st, s), Moves, UNCHANGED Known
  PROVE  /\ Mine' = Mine /\ jobs' \in Seq(Stage \X Mine) /\ Queued' /\ (~Idle' => result' = "none")
         /\ memory' \in {Nil} \cup Readme /\ (memory = Nil => memory' = Nil)
         /\ \A x, z : At(x, z)' => At(x, z) \/ (Ahead(x, z) /\ fixed' = {})
         /\ mode # "apply" => \A x, z : At(x, z)' => z = s
         /\ result' = "none" => memory' = memory /\ \A x, z : Ahead(x, z) => Ahead(x, z)' \/ (x = st /\ z = s)
  <1>1. jobs \in Seq(Stage \X Mine) /\ memory \in {Nil} \cup Readme /\ result = "none" /\ ~Idle
        /\ \A x, z : At(x, z) => x = st /\ z = s
    BY HeadIs DEF TypeInv
  <1>2. script' = script /\ mode' = mode
    BY DEF Known
  <1>3. Mine' = Mine /\ \A x, z : After(x, z)' = After(x, z) /\ (Fits(x, z)' <=> Fits(x, z))
    BY <1>2 DEF Mine, After, Fits
  <1>4. CASE Kept
    <2>1. (Idle' <=> Idle) /\ \A x, z : (At(x, z)' <=> At(x, z)) /\ (Ahead(x, z)' <=> Ahead(x, z))
      BY <1>4 DEF Idle, At, Ahead, Kept
    <2>2. Queued'
      BY <1>2, <1>3, <1>4 DEF Queued, Kept
    <2>3. QED BY <1>1, <1>2, <1>3, <1>4, <2>1, <2>2 DEF Kept
  <1>5. CASE Done
    <2>1. jobs' = Tail(jobs) /\ fixed' = {} /\ memory' = memory /\ result' = result
      BY <1>5 DEF Done
    <2>2. /\ jobs' \in Seq(Stage \X Mine) /\ Queued'
          /\ \A x, z : Ahead(x, z)' => Ahead(x, z)
          /\ \A x, z : Ahead(x, z) => Ahead(x, z)' \/ (x = st /\ z = s)
          /\ \A x, z : At(x, z)' => Ahead(x, z)'
          /\ mode # "apply" => \A x, z : At(x, z)' => z = s /\ x = After(st, s)
      BY <1>2, <2>1, DoneIs
    <2>3. QED BY <1>1, <1>2, <1>3, <2>1, <2>2
  <1>6. CASE \E r \in {"error", "killed"} : EndRun(r)
    <2>1. jobs' = <<>> /\ memory' = Nil /\ result' # "none" /\ Idle'
      BY <1>6 DEF EndRun, Idle
    <2>2. \A x, z : ~At(x, z)'
      BY <2>1 DEF At
    <2>3. Queued' /\ jobs' \in Seq(Stage \X Mine)
      BY <2>1, EmptySeq DEF Queued
    <2>4. QED BY <1>2, <1>3, <2>1, <2>2, <2>3
  <1>7. QED BY <1>4, <1>5, <1>6 DEF Moves

LEMMA Aside ==
  ASSUME VInv, NEW st, NEW s, StepOf(st, s), NEW z \in Mine, z # s
  PROVE  Sound(z)'
  <1>1. /\ tree'[z] = tree[z] /\ readme'[z] = readme[z] /\ sound'[z] = sound[z]
        /\ script' = script /\ recorded' = recorded /\ mode' = mode /\ commit' = commit
    BY MineIs DEF StepOf, Known, VInv
  <1>2. /\ memory = Nil => memory' = Nil
        /\ \A x : At(x, z)' => Ahead(x, z) /\ fixed' = {}
        /\ mode # "apply" => \A x : ~At(x, z)'
        /\ result' = "none" => \A x : Ahead(x, z) => Ahead(x, z)'
        /\ result = "none"
    <2>1. TypeInv /\ Queued /\ At(st, s) /\ Moves /\ UNCHANGED Known
      BY DEF StepOf, VInv
    <2>2. \A x : ~At(x, z)
      BY <2>1, HeadIs
    <2>3. QED BY <2>1, <2>2, MovesIs, HeadIs
  <1>3. Sound(z)
    BY DEF VInv
  <1>4. (Formed(z, tree[z]))' /\ (Whole(z)' <=> Whole(z))
    BY <1>1, <1>3 DEF Sound, Whole
  <1>5. (FixedIn(z, fixed)' <=> IsFixed(z, tree[z], fixed', sound[z], readme[z], recorded[z]))
        /\ (FixedIn(z, recorded[z])' <=> FixedIn(z, recorded[z]))
    BY <1>1 DEF FixedIn
  <1>6. Copying(z)'
    BY <1>1, <1>2 DEF Copying
  <1>7. Splitting(z)'
    BY <1>1, <1>2 DEF Splitting
  <1>8. ASSUME mode = "apply", result' = "none"
        PROVE  /\ At("fix", z)' => FixedIn(z, fixed)'
               /\ ~Ahead("fix", z)' => FixedIn(z, recorded[z])'
               /\ ~Ahead("module", z)' => AreModules(tree'[z])
    <2>1. IsFixed(z, tree[z], {}, sound[z], readme[z], recorded[z])
      BY <1>3 DEF IsFixed, Sound, Whole
    <2>2. ~Ahead("fix", z)' => FixedIn(z, recorded[z])
      BY <1>2, <1>3, <1>8 DEF Sound, Repairing
    <2>3. ~Ahead("module", z)' => AreModules(tree[z])
      BY <1>2, <1>3, <1>8 DEF Sound, Repairing
    <2>4. At("fix", z)' => fixed' = {}
      BY <1>2
    <2>5. QED BY <1>1, <1>5, <2>1, <2>2, <2>3, <2>4
  <1>9. Repairing(z)'
    BY <1>1, <1>8 DEF Repairing
  <1>10. Held(z)'
    BY <1>1, <1>2, <1>3 DEF Held, Sound
  <1>11. QED BY <1>3, <1>4, <1>6, <1>7, <1>9, <1>10 DEF Sound

LEMMA StepKeeps ==
  ASSUME VInv, NEW st, NEW s, StepOf(st, s), Sound(s)'
  PROVE  VInv'
  <1>1. /\ Mine' = Mine /\ jobs' \in Seq(Stage \X Mine) /\ Queued' /\ (~Idle' => result' = "none")
        /\ memory' \in {Nil} \cup Readme
    <2>1. TypeInv /\ Queued /\ At(st, s) /\ Moves /\ UNCHANGED Known
      BY DEF StepOf, VInv
    <2>2. QED BY <2>1, MovesIs
  <1>2. TypeInv'
    BY <1>1 DEF TypeInv, VInv, StepOf, Known
  <1>3. \A z \in Mine : Sound(z)'
    BY Aside
  <1>4. QED BY <1>1, <1>2, <1>3 DEF VInv

\* What is known of the directory that a run is at.
LEMMA AtStage ==
  ASSUME VInv, NEW st, NEW s, At(st, s)
  PROVE  /\ s \in Mine /\ s \in Dirs /\ st \in Stage /\ TypeInv /\ Queued /\ Sound(s) /\ result = "none"
         /\ Formed(s, tree[s]) /\ IsWhole(s, tree[s], {}, sound[s], readme[s], recorded[s])
         /\ commit \in Commits /\ recorded[s] \in SUBSET Pieces[s] /\ tree[s] = [f \in DOMAIN tree[s] |-> tree[s][f]]
         /\ mode = "vendor" => /\ ~sound[s] /\ Fits(st, s)
                               /\ Made(s, st, tree[s], commit, recorded[s], fixed)
         /\ mode = "resplit" => /\ s \in Split /\ st \in {"unpart", "part", "root"}
                                /\ ~sound[s] /\ Cut(s, st, tree[s])
         /\ mode = "apply" => st \in {"fix", "pattern", "module"}
         /\ mode \in {"vendor", "resplit", "apply"}
  <1>1. TypeInv /\ Queued
    BY DEF VInv
  <1>2. /\ jobs # <<>> /\ Len(jobs) \in Nat /\ Len(jobs) >= 1 /\ jobs[1] = <<st, s>>
        /\ st \in Stage /\ s \in Mine /\ s \in Dirs /\ ~Idle /\ result = "none"
    BY <1>1, HeadIs
  <1>3. 1 \in 1..Len(jobs) /\ jobs[1][1] = st /\ jobs[1][2] = s
    BY <1>2
  <1>4. /\ mode = "vendor" => Fits(st, s)
        /\ mode = "resplit" => s \in Split /\ st \in {"unpart", "part", "root"}
        /\ mode = "apply" => st \in {"fix", "pattern", "module"}
    BY <1>1, <1>3 DEF Queued
  <1>5. Sound(s)
    BY <1>2 DEF VInv
  <1>6. IsWhole(s, tree[s], {}, sound[s], readme[s], recorded[s]) /\ Formed(s, tree[s])
    BY <1>5 DEF Sound, Whole
  <1>7. mode = "vendor" => ~sound[s] /\ Made(s, st, tree[s], commit, recorded[s], fixed)
    BY <1>2, <1>5 DEF Sound, Copying
  <1>8. mode = "resplit" => ~sound[s] /\ Cut(s, st, tree[s])
    BY <1>2, <1>5 DEF Sound, Splitting
  <1>9. QED BY <1>1, <1>2, <1>4, <1>5, <1>6, <1>7, <1>8 DEF TypeInv, Formed

LEMMA VendorStages ==
  ASSUME VInv, NEW st \in {"remove", "keep", "copy", "fixOnce", "readme"}, NEW s, At(st, s)
  PROVE  mode = "vendor"
  <1>1. mode = "resplit" => st \in {"unpart", "part", "root"}
    BY AtStage
  <1>2. mode = "apply" => st \in {"fix", "pattern", "module"}
    BY AtStage
  <1>3. mode \in {"vendor", "resplit", "apply"}
    BY AtStage
  <1>4. QED BY <1>1, <1>2, <1>3

LEMMA SplitStages ==
  ASSUME VInv, NEW st \in {"unpart", "part", "root"}, NEW s, At(st, s)
  PROVE  s \in Split /\ ~sound[s] /\ mode \in {"vendor", "resplit"}
  <1>1. mode = "resplit" => s \in Split /\ ~sound[s]
    BY AtStage
  <1>2. mode = "apply" => st \in {"fix", "pattern", "module"}
    BY AtStage
  <1>3. mode \in {"vendor", "resplit", "apply"}
    BY AtStage
  <1>4. mode = "vendor" => ~sound[s] /\ Fits(st, s)
    BY AtStage
  <1>5. QED BY <1>1, <1>2, <1>3, <1>4 DEF Fits

\* A step keeps the invariant if it keeps what concerns its own directory.
LEMMA StepIsSound ==
  ASSUME VInv, NEW st, NEW s, StepOf(st, s), Formed(s, tree'[s]), Held(s)',
         IsWhole(s, tree'[s], {}, sound'[s], readme'[s], recorded[s]),
         mode = "vendor" /\ Kept => ~sound'[s] /\ Made(s, st, tree'[s], commit, recorded[s], fixed'),
         mode = "vendor" /\ Done /\ st # "readme" =>
           ~sound'[s] /\ Made(s, After(st, s), tree'[s], commit, recorded[s], {}),
         mode = "resplit" => /\ ~sound'[s] /\ (Kept => Cut(s, st, tree'[s]))
                             /\ Done /\ st # "root" => Cut(s, After(st, s), tree'[s]),
         mode = "apply" /\ Kept /\ st = "fix" =>
           IsFixed(s, tree'[s], fixed', sound'[s], readme'[s], recorded[s]),
         mode = "apply" /\ Done /\ st = "fix" =>
           IsFixed(s, tree'[s], recorded[s], sound'[s], readme'[s], recorded[s]),
         mode = "apply" /\ st # "fix" /\ FixedIn(s, recorded[s]) =>
           IsFixed(s, tree'[s], recorded[s], sound'[s], readme'[s], recorded[s]),
         mode = "apply" /\ Done /\ st = "module" => AreModules(tree'[s]),
         mode = "apply" /\ st # "module" /\ AreModules(tree[s]) => AreModules(tree'[s])
  PROVE  VInv'
  <1>1. /\ At(st, s) /\ Moves /\ UNCHANGED Known
        /\ script' = script /\ recorded' = recorded /\ mode' = mode /\ commit' = commit
    BY DEF StepOf, Known
  <1>2. TypeInv /\ Queued /\ Sound(s) /\ result = "none"
    BY <1>1, AtStage
  <1>3. /\ Kept => \A x : (At(x, s)' => x = st) /\ (Ahead(x, s)' <=> Ahead(x, s))
        /\ Done => \A x : (At(x, s)' => x = After(st, s) \/ mode = "apply") /\ (Ahead(x, s) => Ahead(x, s)' \/ x = st)
        /\ Done => fixed' = {} /\ result' = result
        /\ mode = "vendor" /\ Done /\ st = "readme" => \A x : ~At(x, s)'
        /\ mode = "resplit" /\ Done /\ st = "root" => \A x : ~At(x, s)'
        /\ ~Kept /\ ~Done => result' # "none" /\ \A x : ~At(x, s)'
        /\ Ahead(st, s)
    <2>1. Ahead(st, s) /\ \A x : At(x, s) => x = st
      BY <1>1, <1>2, HeadIs
    <2>2. Kept => \A x : (At(x, s)' <=> At(x, s)) /\ (Ahead(x, s)' <=> Ahead(x, s))
      BY DEF Kept, At, Ahead, Idle
    <2>3. ASSUME Done
          PROVE  /\ \A x : Ahead(x, s) => Ahead(x, s)' \/ x = st
                 /\ mode # "apply" => \A x : At(x, s)' => x = After(st, s)
                 /\ mode = "vendor" => (Idle' <=> st = "readme")
                 /\ mode = "resplit" => (Idle' <=> st = "root")
      <3>1. jobs' = Tail(jobs)
        BY <2>3 DEF Done
      <3>2. QED BY <1>1, <1>2, <3>1, DoneIs
    <2>4. \A x : At(x, s)' => ~Idle'
      BY DEF At
    <2>5. Done => fixed' = {} /\ result' = result
      BY DEF Done
    <2>6. ~Kept /\ ~Done => result' # "none" /\ Idle'
      BY <1>1 DEF Moves, EndRun, Idle
    <2>7. mode = "vendor" \/ mode = "resplit" \/ mode = "apply"
      BY <1>2 DEF TypeInv
    <2>8. QED BY <2>1, <2>2, <2>3, <2>4, <2>5, <2>6, <2>7
  <1>4. Whole(s)'
    BY <1>1 DEF Whole
  <1>5. Copying(s)'
    BY <1>1, <1>3 DEF Copying
  <1>6. Splitting(s)'
    BY <1>1, <1>3 DEF Splitting
  <1>7. ASSUME mode = "apply", result' = "none"
        PROVE  /\ At("fix", s)' => FixedIn(s, fixed)'
               /\ ~Ahead("fix", s)' => FixedIn(s, recorded[s])'
               /\ ~Ahead("module", s)' => AreModules(tree'[s])
    <2>1. FixedIn(s, fixed)' <=> IsFixed(s, tree'[s], fixed', sound'[s], readme'[s], recorded[s])
      BY <1>1 DEF FixedIn
    <2>2. FixedIn(s, recorded[s])' <=> IsFixed(s, tree'[s], recorded[s], sound'[s], readme'[s], recorded[s])
      BY <1>1 DEF FixedIn
    <2>3. /\ ~Ahead("fix", s) => FixedIn(s, recorded[s])
          /\ ~Ahead("module", s) => AreModules(tree[s])
      BY <1>2, <1>7 DEF Sound, Repairing
    <2>4. Done => IsFixed(s, tree'[s], fixed', sound'[s], readme'[s], recorded[s])
      BY <1>3 DEF IsFixed
    <2>5. Kept \/ Done
      BY <1>3, <1>7
    <2>6. At("fix", s)' => FixedIn(s, fixed)'
      BY <1>3, <1>7, <2>1, <2>4, <2>5
    <2>7. ~Ahead("fix", s)' => FixedIn(s, recorded[s])'
      BY <1>3, <1>7, <2>2, <2>3, <2>5
    <2>8. ~Ahead("module", s)' => AreModules(tree'[s])
      BY <1>3, <1>7, <2>3, <2>5
    <2>9. QED BY <2>6, <2>7, <2>8
  <1>8. Repairing(s)'
    BY <1>1, <1>7 DEF Repairing
  <1>9. Sound(s)'
    BY <1>4, <1>5, <1>6, <1>8 DEF Sound
  <1>10. QED BY <1>9, StepKeeps

\* A step between the first stages and the last one leaves the README to its holder.
LEMMA HeldStays ==
  ASSUME VInv, NEW st, NEW s, StepOf(st, s), st \notin {"remove", "keep", "readme"}, readme'[s] = readme[s]
  PROVE  Held(s)'
  <1>1. /\ At(st, s) /\ Moves /\ UNCHANGED Known
        /\ script' = script /\ mode' = mode
    BY DEF StepOf, Known
  <1>2. TypeInv /\ Queued /\ Sound(s) /\ st \in Stage
    BY <1>1, AtStage
  <1>3. /\ mode = "vendor" => IF script = "lidt" THEN readme[s] = Nil ELSE readme[s] = memory
        /\ mode # "vendor" => memory = Nil
    BY <1>1, <1>2 DEF Sound, Held
  <1>4. mode = "vendor" => \A x : At(x, s)' => x \notin {"remove", "keep"} /\ memory' = memory
    <2>1. CASE Kept
      <3>1. \A x : (At(x, s)' <=> At(x, s))
        BY <2>1 DEF Kept, At, Idle
      <3>2. QED BY <1>1, <1>2, <2>1, <3>1, HeadIs DEF Kept
    <2>2. CASE Done
      <3>1. jobs' = Tail(jobs) /\ memory' = memory
        BY <2>2 DEF Done
      <3>2. mode = "vendor" => \A x : At(x, s)' => x = After(st, s)
        BY <1>1, <1>2, <3>1, DoneIs
      <3>3. After(st, s) \notin {"remove", "keep"}
        BY DEF After
      <3>4. QED BY <3>1, <3>2, <3>3
    <2>3. CASE ~Kept /\ ~Done
      BY <1>1, <2>3 DEF Moves, EndRun, At, Idle
    <2>4. QED BY <2>1, <2>2, <2>3
  <1>5. mode # "vendor" => memory' = Nil
    BY <1>1, <1>2, <1>3, MovesIs
  <1>6. QED BY <1>1, <1>3, <1>4, <1>5 DEF Held

-----------------------------------------------------------------------------
(* What each stage of a vendoring run hands to the next one.               *)

LEMMA FileIs ==
  ASSUME NEW s \in Dirs, NEW t, Formed(s, t), NEW f \in DOMAIN t
  PROVE  t[f] = [text |-> t[f].text, rewrites |-> t[f].rewrites] /\ t[f].rewrites \in SUBSET {"pattern", "module"}
  <1>1. f = main \/ f = other \/ \E k \in Pieces[s] : f = Part(k)
    BY DEF Formed, FileNames
  <1>2. \E D : t[f] \in Content(D)
    BY <1>1 DEF Formed, Parts
  <1>3. QED BY <1>2, ContentIs

LEMMA SameFiles ==
  ASSUME NEW s \in Dirs, NEW t, NEW v, Formed(s, t), v = [f \in DOMAIN v |-> v[f]], DOMAIN t = DOMAIN v,
         \A f \in DOMAIN v : t[f].text = v[f].text /\ v[f] = [text |-> v[f].text, rewrites |-> t[f].rewrites]
  PROVE  t = v
  <1>1. t = [f \in DOMAIN t |-> t[f]]
    BY DEF Formed
  <1>2. ASSUME NEW f \in DOMAIN v PROVE t[f] = v[f]
    BY FileIs
  <1>3. QED BY <1>1, <1>2

LEMMA CopyDone ==
  ASSUME NEW s \in Dirs, NEW c \in Commits, NEW R, NEW X, NEW t, Formed(s, t), Made(s, "copy", t, c, R, X),
         Files(s, c) \subseteq DOMAIN t
  PROVE  Made(s, "fixOnce", t, c, R, {}) /\ Made(s, "fix", t, c, R, {})
  <1>1. t = [f \in DOMAIN t |-> t[f]] /\ DOMAIN t = Files(s, c) /\ \A f \in DOMAIN t : t[f] = Fresh(s, f, c)
    BY DEF Formed, Made
  <1>2. t = Bare(s, c, {})
    BY <1>1 DEF Bare, Fresh
  <1>3. QED BY <1>2 DEF Made

LEMMA FixOnceDone ==
  ASSUME NEW s \in Dirs, NEW c \in Commits, NEW R, NEW t, Made(s, "fixOnce", t, c, R, R)
  PROVE  Made(s, "pattern", t, c, R, {})
  <1>1. t = Bare(s, c, R)
    BY DEF Made
  <1>2. \A f \in DOMAIN t : t[f].rewrites = {}
    BY <1>1 DEF Bare
  <1>3. DOMAIN t = Files(s, c)
    BY <1>1 DEF Bare
  <1>4. QED BY <1>1, <1>2, <1>3 DEF Made

LEMMA TextsOfModule ==
  ASSUME NEW s \in Dirs, s \notin Split, NEW c \in Commits, NEW R, NEW t, Formed(s, t),
         DOMAIN t = Files(s, c), \A f \in DOMAIN t : t[f].text = Bare(s, c, R)[f].text,
         \A f \in DOMAIN t : t[f].rewrites \subseteq Rewrites(s) /\ Rewrites(s) \ {"module"} \subseteq t[f].rewrites
  PROVE  Made(s, "module", t, c, R, {})
  <1>1. IsVendored(s, c, R, Vendored(s, c, R)) /\ IsBare(s, c, R, Bare(s, c, R))
    BY VendoredIs, BareIs
  <1>2. DOMAIN t = DOMAIN Vendored(s, c, R)
    BY <1>1 DEF IsVendored
  <1>3. \A f \in DOMAIN t : t[f].text = Vendored(s, c, R)[f].text
    <2>1. \A f \in DOMAIN t : Bare(s, c, R)[f].text = IF f = main THEN Text(s, c, R) ELSE Empty
      BY DEF Bare
    <2>2. \A f \in DOMAIN t : Vendored(s, c, R)[f].text = IF f = main THEN Text(s, c, R) ELSE Empty
      BY <1>1, <1>2 DEF IsVendored
    <2>3. QED BY <2>1, <2>2
  <1>4. QED BY <1>2, <1>3 DEF Made

LEMMA FixDone ==
  ASSUME NEW s \in Dirs, s \notin Split, s \notin Patterns, NEW c \in Commits, NEW R, NEW t, Formed(s, t),
         Made(s, "fix", t, c, R, R)
  PROVE  Made(s, "module", t, c, R, {})
  <1>1. t = Bare(s, c, R)
    BY DEF Made
  <1>2. \A f \in DOMAIN t : t[f].rewrites = {}
    BY <1>1 DEF Bare
  <1>3. DOMAIN t = Files(s, c) /\ Rewrites(s) = {"module"}
    BY <1>1 DEF Bare, Rewrites
  <1>4. QED BY <1>1, <1>2, <1>3, TextsOfModule

LEMMA PatternDone ==
  ASSUME NEW s \in Dirs, NEW c \in Commits, NEW R, NEW X, NEW t, Formed(s, t), Made(s, "pattern", t, c, R, X),
         s \notin Patterns \/ \A f \in DOMAIN t : "pattern" \in t[f].rewrites
  PROVE  /\ s \in Split => Made(s, "unpart", t, c, R, {})
         /\ s \notin Split => Made(s, "module", t, c, R, {})
  <1>1. /\ DOMAIN t = Files(s, c)
        /\ \A f \in DOMAIN t : t[f].text = Bare(s, c, R)[f].text /\ t[f].rewrites \subseteq Rewrites(s) \ {"module"}
    BY DEF Made
  <1>2. CASE s \in Split
    <2>1. Rewrites(s) = {"module"}
      BY <1>2 DEF Rewrites, Split, Patterns
    <2>2. \A f \in DOMAIN t : t[f].rewrites = {}
      BY <1>1, <2>1
    <2>3. PICK v : v = Bare(s, c, R)
      OBVIOUS
    <2>4. v = [f \in DOMAIN v |-> v[f]] /\ DOMAIN v = Files(s, c) /\ \A f \in DOMAIN v : v[f] = [text |-> v[f].text, rewrites |-> {}]
      BY <2>3 DEF Bare
    <2>5. \A f \in DOMAIN v : t[f].text = v[f].text /\ t[f].rewrites = {}
      BY <1>1, <2>2, <2>3, <2>4
    <2>6. \A f \in DOMAIN v : v[f] = [text |-> v[f].text, rewrites |-> t[f].rewrites]
      BY <2>4, <2>5
    <2>7. t = v
      BY <1>1, <2>4, <2>5, <2>6, SameFiles
    <2>8. QED BY <1>2, <2>3, <2>7 DEF Made
  <1>3. CASE s \notin Split
    <2>1. \A f \in DOMAIN t : t[f].rewrites \subseteq Rewrites(s) /\ Rewrites(s) \ {"module"} \subseteq t[f].rewrites
      BY <1>1 DEF Rewrites
    <2>2. QED BY <1>1, <1>3, <2>1, TextsOfModule
  <1>4. QED BY <1>2, <1>3

LEMMA UnpartDone ==
  ASSUME NEW s \in Dirs, NEW c \in Commits, NEW R, NEW X, NEW t, Made(s, "unpart", t, c, R, X)
  PROVE  Made(s, "part", t, c, R, {}) /\ \A f \in DOMAIN t : ~IsPart(f)
  <1>1. t = Bare(s, c, R) /\ IsBare(s, c, R, t)
    BY BareIs DEF Made
  <1>2. /\ DOMAIN t = Files(s, c) /\ Parts(s, t) = {} /\ main \in DOMAIN t
        /\ t[main] = Bare(s, c, R)[main]
    BY <1>1 DEF IsBare
  <1>3. Halved(s, c, R, t)
    BY <1>2, FilesAre DEF Halved
  <1>4. QED BY <1>2, <1>3, FilesAre, NamesDiffer DEF Made

LEMMA RootDone ==
  ASSUME NEW s \in Dirs, s \in Split, NEW c \in Commits, NEW R, NEW X, NEW t, Formed(s, t), Made(s, "root", t, c, R, X)
  PROVE  Made(s, "module", With(t, main, [text |-> Empty, rewrites |-> {}]), c, R, {})
  <1>1. PICK x, u, v : x = [text |-> Empty, rewrites |-> {}] /\ u = With(t, main, x) /\ v = Vendored(s, c, R)
    OBVIOUS
  <1>2. /\ main \in DOMAIN t /\ DOMAIN t \subseteq FileNames(s) /\ Parts(s, t) = Pieces[s]
        /\ \A k \in Parts(s, t) : t[Part(k)] = [text |-> Only(Text(s, c, R), k), rewrites |-> {}]
    BY DEF Made, Halved
  <1>3. IsVendored(s, c, R, v) /\ Rewrites(s) \ {"module"} = {}
    BY <1>1, VendoredIs DEF Rewrites, Split, Patterns
  <1>4. /\ DOMAIN v = {main} \cup {Part(k) : k \in Pieces[s]} /\ v[main].text = Empty
        /\ \A k \in Pieces[s] : v[Part(k)].text = Only(Text(s, c, R), k)
    BY <1>3 DEF IsVendored
  <1>5. DOMAIN u = DOMAIN t /\ u[main] = x /\ \A g \in DOMAIN t : g # main => u[g] = t[g]
    BY <1>1, <1>2 DEF With
  <1>6. DOMAIN t = {main} \cup {Part(k) : k \in Pieces[s]}
    BY <1>2 DEF FileNames, Parts
  <1> x.text = Empty /\ x.rewrites = {}
    BY <1>1
  <1>7. \A f \in DOMAIN u : u[f].text = v[f].text /\ u[f].rewrites = {}
    <2>1. u[main].text = v[main].text /\ u[main].rewrites = {}
      BY <1>4, <1>5
    <2>2. ASSUME NEW k \in Pieces[s] PROVE u[Part(k)].text = v[Part(k)].text /\ u[Part(k)].rewrites = {}
      <3>1. u[Part(k)] = t[Part(k)]
        BY <1>5, <1>6, NamesDiffer
      <3>2. k \in Parts(s, t)
        BY <1>2
      <3>3. t[Part(k)].text = Only(Text(s, c, R), k) /\ t[Part(k)].rewrites = {}
        <4>1. PICK y : y = Only(Text(s, c, R), k)
          OBVIOUS
        <4>2. t[Part(k)] = [text |-> y, rewrites |-> {}]
          BY <1>2, <3>2, <4>1
        <4>3. QED BY <4>1, <4>2
      <3>4. QED BY <1>4, <3>1, <3>3
    <2>3. QED BY <1>5, <1>6, <2>1, <2>2
  <1>8. Made(s, "module", u, c, R, {})
    BY <1>1, <1>3, <1>4, <1>5, <1>6, <1>7 DEF Made
  <1>9. QED BY <1>1, <1>8

LEMMA ModuleDone ==
  ASSUME NEW s \in Dirs, NEW c \in Commits, NEW R, NEW X, NEW t, Formed(s, t), Made(s, "module", t, c, R, X),
         AreModules(t)
  PROVE  Made(s, "readme", t, c, R, {})
  <1>1. PICK v : v = Vendored(s, c, R)
    OBVIOUS
  <1>2. /\ DOMAIN t = DOMAIN v
        /\ \A f \in DOMAIN t : /\ t[f].text = v[f].text /\ t[f].rewrites \subseteq Rewrites(s)
                               /\ Rewrites(s) \ {"module"} \subseteq t[f].rewrites
    BY <1>1 DEF Made
  <1>3. \A f \in DOMAIN t : t[f].rewrites = Rewrites(s)
    BY <1>2 DEF AreModules
  <1>4. IsVendored(s, c, R, v)
    BY <1>1, VendoredIs
  <1>5. v = [f \in DOMAIN v |-> v[f]] /\ \A f \in DOMAIN v : v[f] = [text |-> v[f].text, rewrites |-> Rewrites(s)]
    BY <1>4 DEF IsVendored
  <1>6. t = v
    BY <1>2, <1>3, <1>5, SameFiles
  <1>7. QED BY <1>1, <1>6 DEF Made

-----------------------------------------------------------------------------
(* The steps.                                                              *)

LEMMA MovesDiffer ==
  ASSUME TypeInv, NEW st, NEW s, At(st, s)
  PROVE  /\ ~(Kept /\ Done) /\ (Stay => Kept /\ fixed' = fixed) /\ (Done => fixed' = {})
         /\ (Kept \/ Done => result' = "none")
         /\ \A r \in {"error", "killed"} : EndRun(r) => result' = r /\ ~Kept /\ ~Done
  <1>1. jobs \in Seq(Stage \X Mine) /\ jobs # <<>> /\ result = "none"
    BY HeadIs
  <1>2. Len(Tail(jobs)) = Len(jobs) - 1 /\ Len(jobs) \in Nat
    BY <1>1, TailIs
  <1>3. ~(Kept /\ Done)
    <2>1. Kept /\ Done => jobs = Tail(jobs)
      BY DEF Kept, Done
    <2>2. jobs # Tail(jobs)
      BY <1>2
    <2>3. QED BY <2>1, <2>2
  <1>4. QED BY <1>1, <1>3 DEF Kept, Done, Stay, EndRun

LEMMA Frame ==
  ASSUME VInv, NEW st, NEW s, At(st, s), Moves, UNCHANGED Known, UNCHANGED <<readme, sound>>,
         UNCHANGED tree \/ (\E f, x : Put(s, f, x)) \/ (\E f : Delete(s, f))
  PROVE  /\ StepOf(st, s) /\ readme'[s] = readme[s] /\ sound'[s] = sound[s]
         /\ recorded' = recorded /\ commit' = commit /\ mode' = mode /\ script' = script
  <1>1. TypeInv /\ s \in Dirs
    BY AtStage
  <1>2. tree' = [z \in Dirs |-> tree'[z]] /\ \A z \in Dirs : z # s => tree'[z] = tree[z]
    <2>1. CASE UNCHANGED tree
      BY <1>1, <2>1 DEF TypeInv
    <2>2. CASE \E f, x : Put(s, f, x)
      BY <1>1, <2>2, PutIs
    <2>3. CASE \E f : Delete(s, f)
      BY <1>1, <2>3, DeleteIs
    <2>4. QED BY <2>1, <2>2, <2>3
  <1>3. readme \in [Dirs -> {Nil} \cup Readme] /\ sound \in [Dirs -> BOOLEAN]
    BY <1>1 DEF TypeInv
  <1>4. StepOf(st, s)
    BY <1>2, <1>3 DEF StepOf
  <1>5. QED BY <1>4 DEF Known

\* The run ends at this stage, or the directory is as the next one wants it.
LEMMA NothingMoves ==
  ASSUME VInv, NEW st, NEW s, At(st, s), UNCHANGED Known, UNCHANGED <<readme, sound, tree>>,
         st \notin {"remove", "keep", "readme"},
         \/ \E r \in {"error", "killed"} : EndRun(r)
         \/ /\ Done
            /\ mode = "vendor" => Made(s, After(st, s), tree[s], commit, recorded[s], {})
            /\ mode = "resplit" => st # "root" /\ Cut(s, After(st, s), tree[s])
            /\ mode = "apply" /\ st = "fix" => FixedIn(s, recorded[s])
            /\ mode = "apply" /\ st = "module" => AreModules(tree[s])
  PROVE  VInv'
  <1>1. Moves
    BY DEF Moves
  <1>2. /\ StepOf(st, s) /\ readme'[s] = readme[s] /\ sound'[s] = sound[s] /\ tree'[s] = tree[s]
        /\ recorded' = recorded /\ commit' = commit /\ mode' = mode
    BY <1>1, Frame
  <1>3. /\ TypeInv /\ Formed(s, tree[s]) /\ IsWhole(s, tree[s], {}, sound[s], readme[s], recorded[s])
        /\ mode = "vendor" => ~sound[s]
        /\ mode = "resplit" => ~sound[s]
    BY AtStage
  <1>4. Held(s)'
    BY <1>2, HeldStays
  <1>5. ~Kept
    BY <1>3, MovesDiffer
  <1>6. ~Done \/ ~\E r \in {"error", "killed"} : EndRun(r)
    BY <1>3, MovesDiffer
  <1>7. FixedIn(s, recorded[s]) => IsFixed(s, tree'[s], recorded[s], sound'[s], readme'[s], recorded[s])
    BY <1>2 DEF FixedIn
  <1>8. QED BY <1>2, <1>3, <1>4, <1>5, <1>6, <1>7, StepIsSound

LEMMA RewriteStep ==
  ASSUME VInv, NEW s \in Mine, NEW stage \in {"pattern", "module"}, Rewrite(s, stage)
  PROVE  VInv'
  <1> DEFINE t == tree[s]
             left == {f \in DOMAIN tree[s] : stage \notin tree[s][f].rewrites}
  <1>1. At(stage, s) /\ UNCHANGED Known /\ UNCHANGED <<readme, sound>>
    BY DEF Rewrite
  <1>2. /\ s \in Dirs /\ TypeInv /\ Formed(s, t) /\ commit \in Commits
        /\ IsWhole(s, t, {}, sound[s], readme[s], recorded[s])
        /\ mode = "vendor" => ~sound[s] /\ Fits(stage, s) /\ Made(s, stage, t, commit, recorded[s], fixed)
        /\ mode # "resplit" /\ mode \in {"vendor", "resplit", "apply"}
        /\ recorded[s] \in SUBSET Pieces[s]
    BY <1>1, AtStage
  <1>3. \/ /\ left = {} \/ (stage = "pattern" /\ s \notin Patterns)
           /\ Done /\ UNCHANGED tree
        \/ /\ left # {} /\ ~(stage = "pattern" /\ s \notin Patterns)
           /\ \E f \in left : Put(s, f, [t[f] EXCEPT !.rewrites = @ \cup {stage}]) /\ Stay
    BY DEF Rewrite
  <1>4. CASE (left = {} \/ (stage = "pattern" /\ s \notin Patterns)) /\ Done /\ UNCHANGED tree
    <2>1. stage = "module" => AreModules(t)
      BY <1>4 DEF AreModules
    <2>2. mode = "vendor" => Made(s, After(stage, s), t, commit, recorded[s], {})
      <3>1. stage = "module" /\ mode = "vendor" => Made(s, "readme", t, commit, recorded[s], {})
        BY <1>2, <2>1, ModuleDone
      <3>2. stage = "pattern" => s \notin Patterns \/ \A f \in DOMAIN t : "pattern" \in t[f].rewrites
        BY <1>4
      <3>3. stage = "pattern" /\ mode = "vendor" =>
              /\ s \in Split => Made(s, "unpart", t, commit, recorded[s], {})
              /\ s \notin Split => Made(s, "module", t, commit, recorded[s], {})
        BY <1>2, <3>2, PatternDone
      <3>4. QED BY <3>1, <3>3 DEF After
    <2>3. QED BY <1>1, <1>2, <1>4, <2>1, <2>2, NothingMoves
  <1>5. CASE /\ left # {} /\ ~(stage = "pattern" /\ s \notin Patterns)
             /\ \E f \in left : Put(s, f, [t[f] EXCEPT !.rewrites = @ \cup {stage}]) /\ Stay
    <2>1. PICK f \in DOMAIN t : /\ stage \notin t[f].rewrites /\ Stay
                                /\ Put(s, f, [t[f] EXCEPT !.rewrites = @ \cup {stage}])
      BY <1>5
    <2>2. Kept /\ Moves /\ fixed' = fixed /\ ~Done
      BY <1>1, <1>2, <2>1, MovesDiffer DEF Moves
    <2>3. PICK x, u : x = Rewritten(t[f], stage) /\ u = With(t, f, Rewritten(t[f], stage))
      OBVIOUS
    <2>4. Put(s, f, x) /\ tree'[s] = u
      BY <1>2, <2>1, <2>3, PutIs DEF Rewritten
    <2>5. /\ StepOf(stage, s) /\ readme'[s] = readme[s] /\ sound'[s] = sound[s]
          /\ recorded' = recorded /\ commit' = commit /\ mode' = mode
      BY <1>1, <2>2, <2>4, Frame
    <2>6. /\ Formed(s, u) /\ LiveOf(s, u) = LiveOf(s, t) /\ DOMAIN u = DOMAIN t
          /\ \A g \in DOMAIN u : u[g].text = t[g].text
          /\ u[f].rewrites = t[f].rewrites \cup {stage} /\ \A g \in DOMAIN u : g # f => u[g] = t[g]
      <3>1. IsRewritten(s, t, f, stage, u)
        BY <1>2, <2>3, RewriteForms
      <3>2. QED BY <3>1 DEF IsRewritten
    <2>7. ~sound[s]
      <3>1. SUFFICES ASSUME sound[s] PROVE FALSE
        OBVIOUS
      <3>2. PICK R : t = Vendored(s, readme[s].generated, R) /\ readme[s] # Nil
        BY <1>2, <3>1 DEF IsWhole
      <3>3. readme[s] \in Readme
        BY <1>2, <3>2 DEF TypeInv
      <3>4. readme[s].generated \in Commits
        BY <3>3 DEF Readme
      <3>5. IsVendored(s, readme[s].generated, R, t)
        BY <1>2, <3>2, <3>4, VendoredIs
      <3>6. t[f].rewrites = Rewrites(s)
        <4>1. t[f] = [text |-> t[f].text, rewrites |-> Rewrites(s)]
          BY <3>5 DEF IsVendored
        <4>2. QED BY <4>1
      <3>7. QED BY <1>5, <2>1, <3>6 DEF Rewrites
    <2>8. IsWhole(s, u, {}, sound'[s], readme'[s], recorded[s])
      BY <2>5, <2>7 DEF IsWhole
    <2>9. mode = "vendor" => Made(s, stage, u, commit, recorded[s], fixed')
      <3>1. stage = "pattern" /\ mode = "vendor" =>
              /\ DOMAIN t = Files(s, commit)
              /\ \A g \in DOMAIN t : /\ t[g].text = Bare(s, commit, recorded[s])[g].text
                                     /\ t[g].rewrites \subseteq Rewrites(s) \ {"module"}
        BY <1>2 DEF Made
      <3>2. stage = "module" /\ mode = "vendor" =>
              /\ DOMAIN t = DOMAIN Vendored(s, commit, recorded[s])
              /\ \A g \in DOMAIN t : /\ t[g].text = Vendored(s, commit, recorded[s])[g].text
                                     /\ t[g].rewrites \subseteq Rewrites(s)
                                     /\ Rewrites(s) \ {"module"} \subseteq t[g].rewrites
        BY <1>2 DEF Made
      <3>3. stage = "pattern" /\ mode = "vendor" => "pattern" \in Rewrites(s) \ {"module"}
        BY <1>5 DEF Rewrites
      <3>4. stage = "pattern" /\ mode = "vendor" => Made(s, stage, u, commit, recorded[s], fixed')
        BY <2>6, <3>1, <3>3 DEF Made
      <3>5. stage = "module" /\ mode = "vendor" => Made(s, stage, u, commit, recorded[s], fixed')
        BY <2>6, <3>2, RewritesAre DEF Made
      <3>6. QED BY <3>4, <3>5
    <2>10. FixedIn(s, recorded[s]) => IsFixed(s, u, recorded[s], sound'[s], readme'[s], recorded[s])
      BY <2>5, <2>6, <2>7 DEF FixedIn, IsFixed, IsWhole
    <2>11. AreModules(t) => AreModules(u)
      BY <2>6 DEF AreModules
    <2>12. Held(s)'
      BY <2>5, HeldStays
    <2>13. QED BY <1>2, <2>2, <2>4, <2>5, <2>6, <2>7, <2>8, <2>9, <2>10, <2>11, <2>12, StepIsSound
  <1>6. QED BY <1>3, <1>4, <1>5

\* A run that applies a fix, in any of the loops.
LEMMA FixChanges ==
  ASSUME VInv, NEW st \in {"fixOnce", "fix"}, NEW s \in Mine, At(st, s), UNCHANGED Known, UNCHANGED <<readme, sound>>,
         Kept, NEW p \in recorded[s], p \notin fixed, fixed' = fixed \cup {p}, NEW t, t = tree[s],
         NEW f \in DOMAIN t, p \in DOMAIN t[f].text, NEW piece, piece # Nil,
         \/ st = "fixOnce" /\ f = main /\ piece = Once(p, t[f].text[p])
         \/ st = "fix" /\ f = TargetIn(s, t, p) /\ piece = AsItIs(p, t[f].text[p]),
         Put(s, f, FixedFile(t[f], p, piece))
  PROVE  VInv'
  <1>1. /\ s \in Dirs /\ TypeInv /\ Formed(s, t) /\ commit \in Commits /\ Sound(s)
        /\ IsWhole(s, t, {}, sound[s], readme[s], recorded[s]) /\ result = "none"
        /\ mode = "vendor" => ~sound[s] /\ Made(s, st, t, commit, recorded[s], fixed)
        /\ mode = "apply" => st = "fix"
        /\ mode # "resplit" /\ mode \in {"vendor", "resplit", "apply"}
        /\ recorded[s] \in SUBSET Pieces[s]
    BY AtStage
  <1>2. Moves /\ ~Done /\ p \in Pieces[s]
    BY <1>1, MovesDiffer DEF Moves
  <1>3. PICK u : u = With(t, f, FixedFile(t[f], p, piece))
    OBVIOUS
  <1>4. tree'[s] = u
    BY <1>1, <1>3, PutIs
  <1>5. /\ StepOf(st, s) /\ readme'[s] = readme[s] /\ sound'[s] = sound[s]
        /\ recorded' = recorded /\ commit' = commit /\ mode' = mode
    BY <1>2, Frame
  <1>6. Held(s)'
    BY <1>5, HeldStays
  <1>7. CASE mode = "vendor"
    <2>1. t = Bare(s, commit, fixed) /\ fixed \subseteq recorded[s]
      BY <1>1, <1>7 DEF Made
    <2>2. f = main
      <3>1. IsBare(s, commit, fixed, t)
        BY <1>1, <2>1, BareIs
      <3>2. Parts(s, t) = {}
        BY <3>1 DEF IsBare
      <3>3. st = "fix" => f = main
        BY <1>1, <1>2, <3>2, TargetIs
      <3>4. QED BY <3>3
    <2>3. PICK Y : Y = fixed \cup {p}
      OBVIOUS
    <2>4. \/ piece = Once(p, t[main].text[p]) /\ p \notin fixed
          \/ piece = AsItIs(p, t[main].text[p])
      BY <2>2
    <2>5. With(t, main, FixedFile(t[main], p, piece)) = Bare(s, commit, Y)
      <3>1. PICK c, X : c = commit /\ c \in Commits /\ X = fixed
        BY <1>1
      <3>2. t = Bare(s, c, X) /\ Y = X \cup {p} /\ ((piece = Once(p, t[main].text[p]) /\ p \notin X) \/ piece = AsItIs(p, t[main].text[p]))
        BY <2>1, <2>3, <2>4, <3>1
      <3>3. With(t, main, FixedFile(t[main], p, piece)) = Bare(s, c, Y)
        BY <1>1, <1>2, <3>1, <3>2, FixBare, Z3
      <3>4. QED BY <3>1, <3>3
    <2>6. u = Bare(s, commit, Y)
      BY <1>3, <2>2, <2>5
    <2>7. IsBare(s, commit, Y, u)
      BY <1>1, <2>6, BareIs
    <2>8. Formed(s, u)
      BY <2>7 DEF IsBare
    <2>9. Made(s, st, u, commit, recorded[s], fixed')
      BY <2>1, <2>3, <2>6 DEF Made
    <2>10. IsWhole(s, u, {}, sound'[s], readme'[s], recorded[s])
      BY <1>1, <1>5, <1>7 DEF IsWhole
    <2>11. QED BY <1>1, <1>2, <1>4, <1>5, <1>6, <1>7, <2>8, <2>9, <2>10, StepIsSound
  <1>8. CASE mode = "apply"
    <2>1. st = "fix" /\ f = TargetIn(s, t, p) /\ piece = AsItIs(p, t[f].text[p])
      BY <1>1, <1>8
    <2>2. IsRepaired(s, t, p, With(t, f, FixedFile(t[f], p, AsItIs(p, t[f].text[p]))))
      BY <1>1, <1>2, <2>1, FixForms
    <2>3. IsRepaired(s, t, p, u)
      BY <1>3, <2>1, <2>2
    <2>4. IsFixed(s, t, fixed, sound[s], readme[s], recorded[s])
      BY <1>1, <1>8, <2>1 DEF Sound, Repairing, FixedIn
    <2>5. IsWhole(s, u, fixed', sound'[s], readme'[s], recorded[s])
      <3> SUFFICES ASSUME sound[s]
                   PROVE  readme[s] # Nil /\ \E Q \in SUBSET recorded[s] : fixed' \subseteq Q /\ u = Vendored(s, readme[s].generated, Q)
        BY <1>5 DEF IsWhole
      <3>1. readme[s] # Nil /\ \E R \in SUBSET recorded[s] : fixed \subseteq R /\ t = Vendored(s, readme[s].generated, R)
        BY <2>4 DEF IsFixed, IsWhole
      <3>2. PICK R \in SUBSET recorded[s] : fixed \subseteq R /\ t = Vendored(s, readme[s].generated, R)
        BY <3>1
      <3>3. readme[s] \in Readme
        BY <1>1, <3>1 DEF TypeInv
      <3>4. PICK c \in Commits : c = readme[s].generated
        BY <3>3 DEF Readme
      <3>5. PICK S : S = R \cup {p}
        OBVIOUS
      <3>6. With(t, f, FixedFile(t[f], p, AsItIs(p, t[f].text[p]))) = Vendored(s, c, S)
        BY <1>1, <1>2, <2>1, <3>2, <3>4, <3>5, FixVendored
      <3>7. u = Vendored(s, c, S)
        BY <1>3, <2>1, <3>6
      <3>8. S \in SUBSET recorded[s] /\ fixed' \subseteq S
        BY <3>2, <3>5
      <3>9. QED BY <3>1, <3>4, <3>7, <3>8
    <2>6. Formed(s, u) /\ (AreModules(t) => AreModules(u))
      BY <2>3 DEF IsRepaired, AreModules
    <2>7. \A q \in fixed' : q \in recorded[s] /\ q \in DOMAIN LiveOf(s, u) /\ LiveOf(s, u)[q][2] = "new"
      <3>1. \A q \in fixed : q \in recorded[s] /\ q \in DOMAIN LiveOf(s, t) /\ LiveOf(s, t)[q][2] = "new"
        BY <2>4 DEF IsFixed
      <3>2. QED BY <2>3, <3>1 DEF IsRepaired
    <2>8. IsFixed(s, u, fixed', sound'[s], readme'[s], recorded[s])
      BY <2>5, <2>7 DEF IsFixed
    <2>9. IsWhole(s, u, {}, sound'[s], readme'[s], recorded[s])
      BY <2>5 DEF IsWhole
    <2>10. QED BY <1>1, <1>2, <1>4, <1>5, <1>6, <1>8, <2>1, <2>6, <2>8, <2>9, StepIsSound
  <1>9. QED BY <1>1, <1>7, <1>8

LEMMA FixStep ==
  ASSUME VInv, NEW s \in Mine, Fix(s)
  PROVE  VInv'
  <1>1. PICK st \in {"fixOnce", "fix"} : At(st, s)
    BY DEF Fix
  <1>2. UNCHANGED Known /\ UNCHANGED <<readme, sound>>
    BY DEF Fix
  <1>3. PICK t : t = tree[s]
    OBVIOUS
  <1>4. /\ s \in Dirs /\ TypeInv /\ Formed(s, t) /\ commit \in Commits /\ Sound(s)
        /\ mode = "vendor" => Made(s, st, t, commit, recorded[s], fixed) /\ Fits(st, s)
        /\ mode = "apply" => st = "fix"
        /\ mode # "resplit" /\ mode \in {"vendor", "resplit", "apply"}
        /\ recorded[s] \in SUBSET Pieces[s]
    BY <1>1, <1>3, AtStage
  <1>5. /\ At("fixOnce", s) <=> st = "fixOnce"
        /\ st = "fix" <=> ~At("fixOnce", s)
    BY <1>1, <1>4, HeadIs
  <1>6. \A p : Target(s, p) = TargetIn(s, t, p)
    BY <1>3 DEF Target, TargetIn, Has, HasIn
  <1>7. PICK left, p, f : left = recorded[s] \ fixed /\ p = First(left) /\ f = Fixing(s, p)
    OBVIOUS
  <1>8. f = IF st = "fixOnce" THEN main ELSE TargetIn(s, t, p)
    BY <1>5, <1>6, <1>7 DEF Fixing
  <1>9. PICK piece : piece = IF ~(f \in DOMAIN t /\ p \in DOMAIN t[f].text) THEN Nil
                             ELSE IF st = "fixOnce" THEN Once(p, t[f].text[p]) ELSE AsItIs(p, t[f].text[p])
    OBVIOUS
  <1>10. \/ left = {} /\ Done /\ UNCHANGED tree
         \/ left # {} /\ piece = Nil /\ EndRun("error") /\ UNCHANGED tree
         \/ /\ left # {} /\ piece # Nil /\ Put(s, f, FixedFile(t[f], p, piece))
            /\ fixed' = fixed \cup {p} /\ UNCHANGED <<jobs, memory, result>>
    BY <1>3, <1>5, <1>7, <1>9 DEF Fix, FixedFile
  <1>11. CASE left = {} /\ Done /\ UNCHANGED tree
    <2>1. mode = "vendor" => Made(s, After(st, s), t, commit, recorded[s], {})
      <3> SUFFICES ASSUME mode = "vendor" PROVE Made(s, After(st, s), t, commit, recorded[s], {})
        OBVIOUS
      <3>1. fixed = recorded[s]
        BY <1>4, <1>7, <1>11 DEF Made
      <3>2. CASE st = "fixOnce"
        <4>1. Made(s, "fixOnce", t, commit, recorded[s], recorded[s])
          BY <1>4, <3>1, <3>2
        <4>2. Made(s, "pattern", t, commit, recorded[s], {})
          BY <1>4, <4>1, FixOnceDone
        <4>3. After(st, s) = "pattern"
          BY <3>2 DEF After
        <4>4. QED BY <4>2, <4>3
      <3>3. CASE st = "fix"
        <4>1. s \notin Split /\ s \notin Patterns
          BY <1>4, <3>3 DEF Fits, Mine, Scripts, TypeInv, Split, Patterns
        <4>2. Made(s, "fix", t, commit, recorded[s], recorded[s])
          BY <1>4, <3>1, <3>3
        <4>3. Made(s, "module", t, commit, recorded[s], {})
          BY <1>4, <4>1, <4>2, FixDone
        <4>4. After(st, s) = "module"
          BY <3>3 DEF After
        <4>5. QED BY <4>3, <4>4
      <3>4. QED BY <3>2, <3>3
    <2>2. mode = "apply" => FixedIn(s, recorded[s])
      <3>1. mode = "apply" => FixedIn(s, fixed)
        BY <1>1, <1>4, AtStage DEF Sound, Repairing
      <3>2. mode = "apply" => fixed = recorded[s]
        BY <1>7, <1>11, <3>1 DEF FixedIn, IsFixed
      <3>3. QED BY <3>1, <3>2
    <2>3. QED BY <1>1, <1>2, <1>3, <1>4, <1>11, <2>1, <2>2, NothingMoves
  <1>12. CASE EndRun("error") /\ UNCHANGED tree
    BY <1>1, <1>2, <1>12, NothingMoves
  <1>13. CASE /\ left # {} /\ piece # Nil /\ Put(s, f, FixedFile(t[f], p, piece))
              /\ fixed' = fixed \cup {p} /\ UNCHANGED <<jobs, memory, result>>
    <2>1. f \in DOMAIN t /\ p \in DOMAIN t[f].text
      BY <1>9, <1>13
    <2>2. p \in recorded[s] /\ p \notin fixed
      <3>1. left \in SUBSET Nat
        BY <1>4, <1>7, PiecesAre
      <3>2. QED BY <1>7, <1>13, <3>1, FirstIs
    <2>3. \/ st = "fixOnce" /\ f = main /\ piece = Once(p, t[f].text[p])
          \/ st = "fix" /\ f = TargetIn(s, t, p) /\ piece = AsItIs(p, t[f].text[p])
      BY <1>8, <1>9, <2>1
    <2>4. Kept
      BY <1>13 DEF Kept
    <2>5. QED BY <1>1, <1>2, <1>3, <1>13, <2>1, <2>2, <2>3, <2>4, FixChanges
  <1>14. QED BY <1>10, <1>11, <1>12, <1>13

LEMMA RemoveTreeStep ==
  ASSUME VInv, NEW s \in Mine, RemoveTree(s)
  PROVE  VInv'
  <1>1. At("remove", s) /\ UNCHANGED Known /\ UNCHANGED sound
    BY DEF RemoveTree
  <1>2. /\ s \in Dirs /\ TypeInv /\ Queued /\ Formed(s, tree[s]) /\ Sound(s)
        /\ mode = "vendor" /\ ~sound[s] /\ result = "none"
    <2>1. /\ s \in Dirs /\ TypeInv /\ Queued /\ Formed(s, tree[s]) /\ Sound(s) /\ result = "none"
          /\ mode = "vendor" => ~sound[s]
      BY <1>1, AtStage
    <2>2. mode = "vendor"
      BY <1>1, VendorStages
    <2>3. QED BY <2>1, <2>2
  <1>3. readme[s] \in {Nil, memory}
    BY <1>1, <1>2 DEF Sound, Held, Stage
  <1>4. \/ \E f \in DOMAIN tree[s] : Delete(s, f) /\ Stay /\ UNCHANGED readme
        \/ readme[s] # Nil /\ readme' = [readme EXCEPT ![s] = Nil] /\ Stay /\ UNCHANGED tree
        \/ DOMAIN tree[s] = {} /\ readme[s] = Nil /\ Done /\ UNCHANGED <<tree, readme>>
    BY DEF RemoveTree
  <1>5. readme \in [Dirs -> {Nil} \cup Readme] /\ sound \in [Dirs -> BOOLEAN] /\ tree = [z \in Dirs |-> tree[z]]
    BY <1>2 DEF TypeInv
  <1>6. /\ Moves
        /\ (Kept /\ ~Done) \/ (Done /\ ~Kept /\ DOMAIN tree[s] = {} /\ readme[s] = Nil /\ UNCHANGED <<tree, readme>>)
    BY <1>1, <1>2, <1>4, MovesDiffer DEF Moves
  <1>7. /\ tree' = [z \in Dirs |-> tree'[z]] /\ Formed(s, tree'[s])
        /\ \A z \in Dirs : z # s => tree'[z] = tree[z]
    <2>1. CASE \E f : Delete(s, f)
      <3>1. PICK f : Delete(s, f)
        BY <2>1
      <3>2. QED BY <1>2, <3>1, DeleteIs, RemoveForms
    <2>2. CASE UNCHANGED tree
      BY <1>2, <1>5, <2>2
    <2>3. QED BY <1>4, <2>1, <2>2
  <1>8. /\ readme' \in [Dirs -> {Nil} \cup Readme] /\ readme'[s] \in {Nil, memory}
        /\ \A z \in Dirs : z # s => readme'[z] = readme[z]
    BY <1>2, <1>3, <1>4, <1>5
  <1>9. StepOf("remove", s)
    BY <1>1, <1>5, <1>6, <1>7, <1>8 DEF StepOf
  <1>10. ~sound'[s] /\ mode' = mode /\ script' = script
    BY <1>1, <1>2 DEF Known
  <1>11. Done => Made(s, After("remove", s), tree'[s], commit, recorded[s], {}) /\ readme'[s] = Nil
    BY <1>6 DEF Made, After
  <1>12. Kept => Made(s, "remove", tree'[s], commit, recorded[s], fixed')
    BY DEF Made
  <1>13. Held(s)'
    <2>1. ASSUME Kept, NEW x, At(x, s)' PROVE x = "remove" /\ memory' = memory
      <3>1. At(x, s)
        BY <2>1 DEF Kept, At, Idle
      <3>2. QED BY <1>1, <1>2, <2>1, <3>1, HeadIs DEF Kept
    <2>2. ASSUME Done, NEW x, At(x, s)' PROVE (x = "keep" /\ script # "lidt") \/ (x = "copy" /\ script = "lidt")
      <3>1. jobs' = Tail(jobs)
        BY <2>2 DEF Done
      <3>2. x = After("remove", s)
        BY <1>1, <1>2, <1>10, <2>2, <3>1, DoneIs
      <3>3. QED BY <3>2 DEF After
    <2>3. QED BY <1>2, <1>6, <1>8, <1>10, <1>11, <2>1, <2>2 DEF Held
  <1>14. IsWhole(s, tree'[s], {}, sound'[s], readme'[s], recorded[s])
    BY <1>10 DEF IsWhole
  <1>15. QED BY <1>2, <1>7, <1>9, <1>10, <1>11, <1>12, <1>13, <1>14, StepIsSound

LEMMA KeepStep ==
  ASSUME VInv, NEW s \in Mine, Keep(s)
  PROVE  VInv'
  <1>1. /\ At("keep", s) /\ UNCHANGED Known /\ UNCHANGED <<tree, sound>> /\ Done
        /\ readme' = [readme EXCEPT ![s] = memory]
    BY DEF Keep
  <1>2. /\ s \in Dirs /\ TypeInv /\ Queued /\ Formed(s, tree[s])
        /\ mode = "vendor" /\ ~sound[s] /\ Fits("keep", s) /\ Made(s, "keep", tree[s], commit, recorded[s], fixed)
    BY <1>1, AtStage
  <1>3. /\ readme \in [Dirs -> {Nil} \cup Readme] /\ memory \in {Nil} \cup Readme
        /\ sound \in [Dirs -> BOOLEAN] /\ tree = [z \in Dirs |-> tree[z]]
    BY <1>2 DEF TypeInv
  <1>4. /\ readme' \in [Dirs -> {Nil} \cup Readme] /\ readme'[s] = memory
        /\ \A z \in Dirs : z # s => readme'[z] = readme[z]
    BY <1>1, <1>2, <1>3
  <1>5. ~Kept /\ Moves /\ jobs' = Tail(jobs) /\ memory' = memory
    BY <1>1, <1>2, MovesDiffer DEF Moves, Done
  <1>6. StepOf("keep", s)
    BY <1>1, <1>3, <1>4, <1>5 DEF StepOf
  <1>7. ~sound'[s] /\ mode' = mode /\ script' = script /\ tree'[s] = tree[s] /\ After("keep", s) = "copy"
    BY <1>1, <1>2 DEF Known, After
  <1>8. Made(s, "copy", tree'[s], commit, recorded[s], {})
    BY <1>2, <1>7 DEF Made
  <1>9. Held(s)'
    <2>1. \A x : At(x, s)' => x = "copy"
      BY <1>1, <1>2, <1>5, <1>7, DoneIs
    <2>2. script # "lidt"
      BY <1>2 DEF Fits
    <2>3. QED BY <1>2, <1>4, <1>5, <1>7, <2>1, <2>2 DEF Held
  <1>10. IsWhole(s, tree'[s], {}, sound'[s], readme'[s], recorded[s])
    BY <1>7 DEF IsWhole
  <1>11. QED BY <1>2, <1>5, <1>6, <1>7, <1>8, <1>9, <1>10, StepIsSound

LEMMA CopyStep ==
  ASSUME VInv, NEW s \in Mine, Copy(s)
  PROVE  VInv'
  <1>1. At("copy", s) /\ UNCHANGED Known /\ UNCHANGED <<readme, sound>>
    BY DEF Copy
  <1>2. PICK t, c : t = tree[s] /\ c = commit /\ c \in Commits
    BY <1>1, AtStage
  <1>3. /\ s \in Dirs /\ TypeInv /\ Formed(s, t) /\ mode = "vendor" /\ ~sound[s]
        /\ Made(s, "copy", t, c, recorded[s], fixed)
    <2>1. /\ s \in Dirs /\ TypeInv /\ Formed(s, tree[s])
          /\ mode = "vendor" => ~sound[s] /\ Made(s, "copy", tree[s], commit, recorded[s], fixed)
      BY <1>1, AtStage
    <2>2. mode = "vendor"
      BY <1>1, VendorStages
    <2>3. QED BY <1>2, <2>1, <2>2
  <1>4. DOMAIN t \subseteq Files(s, c) /\ \A f \in DOMAIN t : t[f] = Fresh(s, f, c)
    BY <1>3 DEF Made
  <1>5. \/ EndRun("error") /\ UNCHANGED tree
        \/ Files(s, c) \ DOMAIN t = {} /\ Done /\ UNCHANGED tree
        \/ \E f \in Files(s, c) \ DOMAIN t : Put(s, f, Fresh(s, f, c)) /\ Stay
    BY <1>2 DEF Copy
  <1>6. CASE EndRun("error") /\ UNCHANGED tree
    BY <1>1, <1>6, NothingMoves
  <1>7. CASE Files(s, c) \ DOMAIN t = {} /\ Done /\ UNCHANGED tree
    <2>1. Made(s, "fixOnce", t, c, recorded[s], {}) /\ Made(s, "fix", t, c, recorded[s], {})
      BY <1>2, <1>3, <1>7, CopyDone
    <2>2. Made(s, After("copy", s), t, c, recorded[s], {})
      BY <2>1 DEF After
    <2>3. QED BY <1>1, <1>2, <1>3, <1>7, <2>2, NothingMoves
  <1>8. CASE \E f \in Files(s, c) \ DOMAIN t : Put(s, f, Fresh(s, f, c)) /\ Stay
    <2>1. PICK f \in Files(s, c) \ DOMAIN t : Put(s, f, Fresh(s, f, c)) /\ Stay
      BY <1>8
    <2>2. PICK u : u = With(t, f, Fresh(s, f, c))
      OBVIOUS
    <2>3. tree'[s] = u
      BY <1>2, <1>3, <2>1, <2>2, PutIs
    <2>4. Kept /\ ~Done /\ Moves
      BY <1>1, <1>3, <2>1, MovesDiffer DEF Moves
    <2>5. StepOf("copy", s) /\ readme'[s] = readme[s] /\ sound'[s] = sound[s]
      BY <1>1, <2>1, <2>4, Frame
    <2>6. /\ DOMAIN u \subseteq Files(s, c) /\ u = [g \in DOMAIN u |-> u[g]]
          /\ \A g \in DOMAIN u : u[g] = Fresh(s, g, c)
      <3>1. /\ DOMAIN u = DOMAIN t \cup {f} /\ u[f] = Fresh(s, f, c) /\ \A g \in DOMAIN t : g # f => u[g] = t[g]
            /\ u = [g \in DOMAIN u |-> u[g]]
        BY <2>2 DEF With
      <3>2. QED BY <1>4, <2>1, <3>1
    <2>7. Formed(s, u)
      <3>1. main \in DOMAIN u => u[main] \in Content(Pieces[s])
        BY <1>2, <1>3, <2>6, PiecesAre DEF Fresh, Content
      <3>2. other \in DOMAIN u => u[other] \in Content({})
        <4>1. Fresh(s, other, c) = [text |-> Empty, rewrites |-> {}]
          BY NamesDiffer DEF Fresh
        <4>2. Fresh(s, other, c) \in Content({})
          BY <4>1, EmptyIs DEF Content
        <4>3. QED BY <2>6, <4>2
      <3>3. Parts(s, u) = {}
        BY <2>6, FilesAre DEF Parts
      <3>4. DOMAIN u \subseteq FileNames(s)
        BY <2>6, FilesAre
      <3>5. QED BY <2>6, <3>1, <3>2, <3>3, <3>4 DEF Formed
    <2>8. Made(s, "copy", u, c, recorded[s], fixed')
      BY <2>6 DEF Made
    <2>9. IsWhole(s, u, {}, sound'[s], readme'[s], recorded[s])
      BY <1>3, <2>5 DEF IsWhole
    <2>10. Held(s)'
      BY <2>5, HeldStays
    <2>11. QED BY <1>2, <1>3, <2>3, <2>4, <2>5, <2>7, <2>8, <2>9, <2>10, StepIsSound
  <1>9. QED BY <1>5, <1>6, <1>7, <1>8

-----------------------------------------------------------------------------
(* The split, and the README at the end.                                   *)

LEMMA UnpartStep ==
  ASSUME VInv, NEW s \in Mine, Unpart(s)
  PROVE  VInv'
  <1>1. At("unpart", s) /\ UNCHANGED Known /\ UNCHANGED <<readme, sound>>
    BY DEF Unpart
  <1>2. PICK t : t = tree[s]
    OBVIOUS
  <1>3. /\ s \in Dirs /\ TypeInv /\ Formed(s, t) /\ commit \in Commits
        /\ mode = "vendor" => ~sound[s] /\ Made(s, "unpart", t, commit, recorded[s], fixed)
        /\ mode = "resplit" => ~sound[s] /\ Cut(s, "unpart", t)
        /\ s \in Split /\ ~sound[s] /\ mode \in {"vendor", "resplit"}
    BY <1>1, <1>2, AtStage, SplitStages
  <1>4. \/ {f \in DOMAIN t : IsPart(f)} = {} /\ Done /\ UNCHANGED tree
        \/ \E f \in DOMAIN t : IsPart(f) /\ Delete(s, f) /\ Stay
    BY <1>2 DEF Unpart
  <1>5. CASE {f \in DOMAIN t : IsPart(f)} = {} /\ Done /\ UNCHANGED tree
    <2>1. mode = "vendor" => Made(s, "part", t, commit, recorded[s], {})
      BY <1>3, UnpartDone
    <2>2. mode = "resplit" => Cut(s, "part", t)
      <3>1. \A k : Part(k) \notin DOMAIN t
        BY <1>5, NamesDiffer
      <3>2. Parts(s, t) = {}
        BY <3>1 DEF Parts
      <3>3. QED BY <1>3, <3>2 DEF Cut
    <2>3. After("unpart", s) = "part"
      BY DEF After
    <2>4. QED BY <1>1, <1>2, <1>3, <1>5, <2>1, <2>2, <2>3, NothingMoves
  <1>6. CASE \E f \in DOMAIN t : IsPart(f) /\ Delete(s, f) /\ Stay
    <2>1. PICK f \in DOMAIN t : IsPart(f) /\ Delete(s, f) /\ Stay
      BY <1>6
    <2>2. PICK u : u = Without(t, f)
      OBVIOUS
    <2>3. tree'[s] = u
      BY <1>2, <1>3, <2>1, <2>2, DeleteIs
    <2>4. Kept /\ ~Done /\ Moves
      BY <1>1, <1>3, <2>1, MovesDiffer DEF Moves
    <2>5. StepOf("unpart", s) /\ readme'[s] = readme[s] /\ sound'[s] = sound[s]
      BY <1>1, <2>1, <2>4, Frame
    <2>6. mode # "vendor" /\ mode = "resplit"
      <3>1. mode = "vendor" => \A g \in DOMAIN t : ~IsPart(g)
        BY <1>3, UnpartDone
      <3>2. QED BY <1>1, <1>3, <2>1, <3>1, AtStage
    <2>7. Formed(s, u)
      BY <1>3, <2>2, RemoveForms
    <2>8. main \in DOMAIN t => main \in DOMAIN u /\ u[main] = t[main]
      BY <2>1, <2>2, NamesDiffer DEF Without
    <2>9. Cut(s, "unpart", u)
      BY <1>3, <2>6, <2>8 DEF Cut, Full
    <2>10. Held(s)'
      BY <2>5, HeldStays
    <2>11. IsWhole(s, u, {}, sound'[s], readme'[s], recorded[s])
      BY <1>3, <2>5, <2>6 DEF IsWhole
    <2>12. QED BY <1>3, <2>3, <2>4, <2>5, <2>6, <2>7, <2>9, <2>10, <2>11, StepIsSound
  <1>7. QED BY <1>4, <1>5, <1>6

PartOf(x, k) == [text |-> Only(x, k), rewrites |-> {}]

\* A directory with one part more.
IsParted(s, t, k, u) ==
  /\ Formed(s, u) /\ Full(u) /\ main \in DOMAIN u /\ u[main] = t[main]
  /\ Parts(s, u) = Parts(s, t) \cup {k} /\ u[Part(k)] = PartOf(t[main].text, k)
  /\ \A j \in Parts(s, t) : j # k => u[Part(j)] = t[Part(j)]

LEMMA PartForms ==
  ASSUME NEW s \in Dirs, s \in Split, NEW t, Formed(s, t), Full(t), NEW k \in Pieces[s],
         NEW u, u = With(t, Part(k), PartOf(t[main].text, k))
  PROVE  IsParted(s, t, k, u)
  <1>1. main \in DOMAIN t /\ t[main] \in Content(Pieces[s])
    BY FullIs
  <1>2. PICK x : x = t[main].text
    OBVIOUS
  <1>3. x \in [Pieces[s] -> PieceState]
    BY <1>1, <1>2, ContentIs
  <1>4. PICK y : y = PartOf(x, k)
    OBVIOUS
  <1>5. y \in Content({k}) /\ y.text[k] = x[k]
    <2>1. Only(x, k) \in [{k} -> PieceState] /\ Only(x, k)[k] = x[k]
      BY <1>3, OnlyIs
    <2>2. QED BY <1>4, <2>1 DEF PartOf, Content
  <1>6. /\ DOMAIN u = DOMAIN t \cup {Part(k)} /\ u[Part(k)] = y
        /\ \A g \in DOMAIN t : g # Part(k) => u[g] = t[g]
        /\ u = [g \in DOMAIN u |-> u[g]]
    BY <1>2, <1>4 DEF With
  <1>7. main \in DOMAIN u /\ u[main] = t[main] /\ Full(u)
    BY <1>1, <1>6, NamesDiffer DEF Full
  <1>8. Parts(s, u) = Parts(s, t) \cup {k} /\ \A j \in Parts(s, t) : j # k => u[Part(j)] = t[Part(j)]
    BY <1>6, NamesDiffer DEF Parts
  <1>9. Formed(s, u)
    <2>1. DOMAIN u \subseteq FileNames(s)
      BY <1>6 DEF Formed, FileNames
    <2>2. other \in DOMAIN u => u[other] \in Content({})
      BY <1>6, NamesDiffer DEF Formed
    <2>3. ASSUME NEW j \in Parts(s, u)
          PROVE  /\ u[Part(j)] \in Content({j})
                 /\ Full(u) /\ u[main].text[j][2] = "absent" => u[Part(j)].text[j][2] = "absent"
      <3>1. CASE j = k
        BY <1>2, <1>5, <1>6, <1>7, <3>1
      <3>2. CASE j # k
        BY <1>7, <1>8, <2>3, <3>2 DEF Formed
      <3>3. QED BY <3>1, <3>2
    <2>4. QED BY <1>1, <1>6, <1>7, <2>1, <2>2, <2>3 DEF Formed
  <1>10. QED BY <1>2, <1>4, <1>6, <1>7, <1>8, <1>9 DEF IsParted

LEMMA WritePartStep ==
  ASSUME VInv, NEW s \in Mine, WritePart(s)
  PROVE  VInv'
  <1>1. At("part", s) /\ UNCHANGED Known /\ UNCHANGED <<readme, sound>>
    BY DEF WritePart
  <1>2. PICK t, c, R : t = tree[s] /\ c = commit /\ R = recorded[s]
    OBVIOUS
  <1>3. /\ s \in Dirs /\ TypeInv /\ Formed(s, t) /\ c \in Commits
        /\ mode = "vendor" => Made(s, "part", t, c, R, fixed)
        /\ mode = "resplit" => Cut(s, "part", t)
    BY <1>1, <1>2, AtStage
  <1>4. s \in Split /\ ~sound[s] /\ mode \in {"vendor", "resplit"}
    BY <1>1, SplitStages
  <1>5. PICK left, k : left = {j \in Pieces[s] : Part(j) \notin DOMAIN t} /\ k = First(left)
    OBVIOUS
  <1>6. \/ left = {} /\ Done /\ UNCHANGED tree
        \/ left # {} /\ Put(s, Part(k), PartOf(t[main].text, k)) /\ (EndRun("error") \/ Stay)
    BY <1>2, <1>5 DEF WritePart, PartOf, Only
  <1>7. CASE left = {} /\ Done /\ UNCHANGED tree
    <2>1. Parts(s, t) = Pieces[s]
      BY <1>5, <1>7 DEF Parts
    <2>2. mode = "vendor" => Made(s, "root", t, c, R, {})
      BY <1>3, <2>1 DEF Made
    <2>3. mode = "resplit" => Cut(s, "root", t)
      BY <1>3, <2>1 DEF Cut
    <2>4. After("part", s) = "root"
      BY DEF After
    <2>5. QED BY <1>1, <1>2, <1>3, <1>7, <2>2, <2>3, <2>4, NothingMoves
  <1>8. CASE left # {} /\ Put(s, Part(k), PartOf(t[main].text, k)) /\ (EndRun("error") \/ Stay)
    <2>1. k \in Pieces[s] /\ Part(k) \notin DOMAIN t
      <3>1. left \in SUBSET Nat
        BY <1>3, <1>5, PiecesAre
      <3>2. QED BY <1>5, <1>8, <3>1, FirstIs
    <2>2. PICK u : u = With(t, Part(k), PartOf(t[main].text, k))
      OBVIOUS
    <2>3. tree'[s] = u
      BY <1>2, <1>3, <1>8, <2>2, PutIs
    <2>4. Moves /\ ~Done /\ (Kept => fixed' = fixed)
      BY <1>1, <1>3, <1>8, MovesDiffer DEF Moves
    <2>5. StepOf("part", s) /\ readme'[s] = readme[s] /\ sound'[s] = sound[s]
      BY <1>1, <1>8, <2>4, Frame
    <2>6. mode = "vendor" => /\ Halved(s, c, R, t) /\ main \in DOMAIN t
                             /\ t[main].text = Text(s, c, R)
      <3>1. ASSUME mode = "vendor" PROVE Halved(s, c, R, t)
        BY <1>3, <3>1 DEF Made
      <3>2. IsBare(s, c, R, Bare(s, c, R))
        BY <1>3, BareIs
      <3>3. QED BY <3>1, <3>2 DEF Halved, IsBare
    <2>7. Full(t)
      <3>1. mode = "vendor" => t[main].text # Empty
        <4>1. k \in DOMAIN Text(s, c, R)
          BY <1>3, <2>1, PiecesAre
        <4>2. QED BY <2>6, <4>1, EmptyIs
      <3>2. QED BY <1>3, <1>4, <2>6, <3>1 DEF Full, Cut
    <2>8. IsParted(s, t, k, u)
      BY <1>3, <1>4, <2>1, <2>2, <2>7, PartForms
    <2>9. mode = "vendor" => Made(s, "part", u, c, R, fixed')
      <3>1. mode = "vendor" => Halved(s, c, R, u)
        <4>1. ASSUME mode = "vendor", NEW j \in Parts(s, u)
              PROVE  u[Part(j)] = [text |-> Only(Text(s, c, R), j), rewrites |-> {}]
          <5>1. CASE j = k
            BY <2>6, <2>8, <4>1, <5>1 DEF IsParted, PartOf
          <5>2. CASE j # k
            BY <2>6, <2>8, <4>1, <5>2 DEF IsParted, Halved
          <5>3. QED BY <5>1, <5>2
        <4>2. QED BY <2>6, <2>8, <4>1 DEF IsParted, Halved, Formed
      <3>2. QED BY <3>1 DEF Made
    <2>10. mode = "resplit" => Cut(s, "part", u)
      <3>1. ASSUME mode = "resplit", NEW j \in Parts(s, u) PROVE u[Part(j)].text[j] = u[main].text[j]
        <4>1. CASE j = k
          <5>1. u[Part(k)] = PartOf(t[main].text, k) /\ u[main] = t[main]
            BY <2>8 DEF IsParted
          <5>2. PartOf(t[main].text, k).text[k] = t[main].text[k]
            BY OnlyIs DEF PartOf
          <5>3. QED BY <4>1, <5>1, <5>2
        <4>2. CASE j # k
          BY <1>3, <2>8, <3>1, <4>2 DEF IsParted, Cut
        <4>3. QED BY <4>1, <4>2
      <3>2. QED BY <2>8, <3>1 DEF IsParted, Cut
    <2>11. Held(s)'
      BY <2>5, HeldStays
    <2>12. IsWhole(s, u, {}, sound'[s], readme'[s], recorded[s])
      BY <1>4, <2>5 DEF IsWhole
    <2>13. Formed(s, u)
      BY <2>8 DEF IsParted
    <2>14. QED BY <1>2, <1>3, <1>4, <2>3, <2>4, <2>5, <2>9, <2>10, <2>11, <2>12, <2>13, StepIsSound
  <1>9. QED BY <1>6, <1>7, <1>8

IsRooted(s, t, u) ==
  Formed(s, u) /\ ~Full(u) /\ \A k \in Parts(s, t) : k \in Parts(s, u) /\ u[Part(k)] = t[Part(k)]

LEMMA RootForms ==
  ASSUME NEW s \in Dirs, s \in Split, NEW t, Formed(s, t), NEW u, u = With(t, main, [text |-> Empty, rewrites |-> {}])
  PROVE  IsRooted(s, t, u)
  <1>1. PICK x : x = [text |-> Empty, rewrites |-> {}]
    OBVIOUS
  <1>2. x \in Content({}) /\ x.text = Empty
    BY <1>1, EmptyIs DEF Content
  <1>3. /\ DOMAIN u = DOMAIN t \cup {main} /\ u[main] = x
        /\ \A g \in DOMAIN t : g # main => u[g] = t[g]
        /\ u = [g \in DOMAIN u |-> u[g]]
    BY <1>1 DEF With
  <1>4. ~Full(u)
    BY <1>2, <1>3 DEF Full
  <1>5. Parts(s, u) = Parts(s, t) /\ \A k \in Parts(s, t) : u[Part(k)] = t[Part(k)]
    BY <1>3, NamesDiffer DEF Parts
  <1>6. other \in DOMAIN u => other \in DOMAIN t /\ u[other] = t[other]
    BY <1>3, NamesDiffer
  <1>7. DOMAIN u \subseteq FileNames(s)
    BY <1>3 DEF Formed, FileNames
  <1>8. Formed(s, u)
    BY <1>2, <1>3, <1>4, <1>5, <1>6, <1>7 DEF Formed
  <1>9. QED BY <1>4, <1>5, <1>8 DEF IsRooted

LEMMA WriteRootStep ==
  ASSUME VInv, NEW s \in Mine, WriteRoot(s)
  PROVE  VInv'
  <1>1. /\ At("root", s) /\ UNCHANGED Known /\ UNCHANGED <<readme, sound>> /\ Done
        /\ Put(s, main, [text |-> Empty, rewrites |-> {}])
    BY DEF WriteRoot
  <1>2. PICK t, c, R, u : t = tree[s] /\ c = commit /\ R = recorded[s] /\ u = With(t, main, [text |-> Empty, rewrites |-> {}])
    OBVIOUS
  <1>3. /\ s \in Dirs /\ TypeInv /\ Formed(s, t) /\ c \in Commits
        /\ mode = "vendor" => Made(s, "root", t, c, R, fixed)
    BY <1>1, <1>2, AtStage
  <1>4. s \in Split /\ ~sound[s] /\ mode \in {"vendor", "resplit"}
    BY <1>1, SplitStages
  <1>5. tree'[s] = u
    BY <1>1, <1>2, <1>3, PutIs
  <1>6. ~Kept /\ Moves
    BY <1>1, <1>3, MovesDiffer DEF Moves
  <1>7. StepOf("root", s) /\ readme'[s] = readme[s] /\ sound'[s] = sound[s]
    BY <1>1, <1>6, Frame
  <1>8. mode = "vendor" => Made(s, "module", u, c, R, {})
    <2>1. ASSUME mode = "vendor" PROVE Made(s, "module", With(t, main, [text |-> Empty, rewrites |-> {}]), c, R, {})
      BY <1>3, <1>4, <2>1, RootDone
    <2>2. QED BY <1>2, <2>1
  <1>9. After("root", s) = "module"
    BY DEF After
  <1>10. Held(s)'
    BY <1>7, HeldStays
  <1>11. IsWhole(s, u, {}, sound'[s], readme'[s], recorded[s])
    BY <1>4, <1>7 DEF IsWhole
  <1>12. Formed(s, u)
    BY <1>2, <1>3, <1>4, RootForms DEF IsRooted
  <1>13. QED BY <1>2, <1>4, <1>5, <1>6, <1>7, <1>8, <1>9, <1>10, <1>11, <1>12, StepIsSound

LEMMA ReadmeIs ==
  /\ \A n \in Readme : n # Nil /\ n.generated \in Commits /\ n.prose \in {"local", "default"}
  /\ \A c \in Commits : [prose |-> "default", generated |-> c] \in Readme /\ [prose |-> "local", generated |-> c] \in Readme
  <1>1. [prose : {"local", "default"}, generated : Commits] = Readme
    BY DEF Readme
  <1>2. Nil \notin Readme
    BY <1>1, VendorAssumption
  <1>3. QED BY <1>2 DEF Readme

LEMMA RefreshStep ==
  ASSUME VInv, NEW s \in Mine, RefreshReadme(s)
  PROVE  VInv'
  <1>1. PICK had : had = IF script = "lidt" THEN memory ELSE readme[s]
    OBVIOUS
  <1>2. PICK n : n = [prose |-> IF had = Nil THEN "default" ELSE had.prose, generated |-> commit]
    OBVIOUS
  <1>3. /\ At("readme", s) /\ UNCHANGED Known /\ UNCHANGED tree /\ Done
        /\ readme' = [readme EXCEPT ![s] = n] /\ sound' = [sound EXCEPT ![s] = TRUE]
    BY <1>1, <1>2 DEF RefreshReadme
  <1>4. /\ s \in Dirs /\ TypeInv /\ Queued /\ Formed(s, tree[s]) /\ recorded[s] \in SUBSET Pieces[s]
        /\ mode = "vendor" => Made(s, "readme", tree[s], commit, recorded[s], fixed)
    BY <1>3, AtStage
  <1>5. mode = "vendor"
    BY <1>3, VendorStages
  <1>6. /\ readme \in [Dirs -> {Nil} \cup Readme] /\ memory \in {Nil} \cup Readme /\ commit \in Commits
        /\ sound \in [Dirs -> BOOLEAN] /\ tree = [z \in Dirs |-> tree[z]]
    BY <1>4 DEF TypeInv
  <1>7. n \in Readme /\ n.generated = commit /\ n # Nil
    <2>1. had \in {Nil} \cup Readme
      BY <1>1, <1>4, <1>6
    <2>2. had = Nil \/ had.prose \in {"local", "default"}
      BY <2>1, ReadmeIs
    <2>3. QED BY <1>2, <1>6, <2>2, ReadmeIs
  <1>8. /\ readme' \in [Dirs -> {Nil} \cup Readme] /\ readme'[s] = n
        /\ sound' \in [Dirs -> BOOLEAN] /\ sound'[s] = TRUE
        /\ \A z \in Dirs : z # s => readme'[z] = readme[z] /\ sound'[z] = sound[z]
    BY <1>3, <1>4, <1>6, <1>7
  <1>9. ~Kept /\ Moves /\ jobs' = Tail(jobs)
    BY <1>3, <1>4, MovesDiffer DEF Moves, Done
  <1>10. StepOf("readme", s) /\ script' = script /\ mode' = mode /\ tree'[s] = tree[s]
    BY <1>3, <1>6, <1>8, <1>9 DEF StepOf, Known
  <1>11. Held(s)'
    <2>1. Idle'
      BY <1>3, <1>4, <1>5, <1>9, <1>10, DoneIs
    <2>2. \A x : ~At(x, s)'
      BY <2>1 DEF At
    <2>3. QED BY <1>5, <1>10, <2>2 DEF Held
  <1>12. IsWhole(s, tree'[s], {}, sound'[s], readme'[s], recorded[s])
    <2>1. tree[s] = Vendored(s, commit, recorded[s])
      BY <1>4, <1>5 DEF Made
    <2>2. tree'[s] = Vendored(s, readme'[s].generated, recorded[s])
      BY <1>7, <1>8, <1>10, <2>1
    <2>3. QED BY <1>7, <1>8, <2>2 DEF IsWhole
  <1>13. QED BY <1>4, <1>5, <1>9, <1>10, <1>11, <1>12, StepIsSound

-----------------------------------------------------------------------------
(* Between the runs.                                                       *)

\* No run is at work: what concerns the directories is what they are.
LEMMA IdleIsSound ==
  ASSUME TypeInv', Idle', mode' # "vendor" => memory' = Nil,
         \A s \in Mine' : /\ Formed(s, tree'[s]) /\ IsWhole(s, tree'[s], {}, sound'[s], readme'[s], recorded'[s])
                          /\ mode' = "apply" /\ result' = "none" =>
                               IsFixed(s, tree'[s], recorded'[s], sound'[s], readme'[s], recorded'[s]) /\ AreModules(tree'[s])
  PROVE  VInv'
  <1>1. \A x, z : ~At(x, z)'
    BY DEF At
  <1>2. Queued'
    BY DEF Idle, Queued
  <1>3. ASSUME NEW s \in Mine' PROVE Sound(s)'
    <2>1. Whole(s)'
      BY DEF Whole
    <2>2. Copying(s)' /\ Splitting(s)' /\ Held(s)'
      BY <1>1 DEF Copying, Splitting, Held
    <2>3. FixedIn(s, recorded[s])' <=> IsFixed(s, tree'[s], recorded'[s], sound'[s], readme'[s], recorded'[s])
      BY DEF FixedIn
    <2>4. Repairing(s)'
      BY <1>1, <2>3 DEF Repairing
    <2>5. QED BY <2>1, <2>2, <2>4 DEF Sound
  <1>4. QED BY <1>2, <1>3 DEF VInv

LEMMA IdleIs ==
  ASSUME VInv, Idle, NEW s \in Mine
  PROVE  /\ Formed(s, tree[s]) /\ IsWhole(s, tree[s], {}, sound[s], readme[s], recorded[s])
         /\ mode = "apply" /\ result = "none" =>
              IsFixed(s, tree[s], recorded[s], sound[s], readme[s], recorded[s]) /\ AreModules(tree[s])
         /\ mode # "vendor" => memory = Nil
  <1>1. \A x, z : ~Ahead(x, z)
    BY DEF Idle, Ahead
  <1>2. Sound(s)
    BY DEF VInv
  <1>3. QED BY <1>1, <1>2 DEF Sound, Whole, Repairing, FixedIn, Held

LEMMA ReturnStep ==
  ASSUME VInv, RunReturns
  PROVE  VInv'
  <1>1. /\ Idle /\ result' = "ok" /\ memory' = Nil /\ jobs' = jobs /\ script' = script /\ tree' = tree /\ sound' = sound
        /\ recorded' = recorded /\ mode' = mode /\ commit' = commit /\ readme' = readme /\ fixed' = fixed
    BY DEF RunReturns, Known
  <1>2. Idle' /\ Mine' = Mine
    BY <1>1 DEF Idle, Mine
  <1>3. TypeInv'
    BY <1>1, <1>2 DEF VInv, TypeInv
  <1>4. QED BY <1>1, <1>2, <1>3, IdleIs, IdleIsSound

LEMMA KillStep ==
  ASSUME VInv, KillRun
  PROVE  VInv'
  <1>1. /\ result' = "killed" /\ memory' = Nil /\ jobs' = <<>> /\ script' = script /\ tree' = tree /\ sound' = sound
        /\ recorded' = recorded /\ mode' = mode /\ commit' = commit /\ readme' = readme
    BY DEF KillRun, EndRun, Known
  <1>2. Idle' /\ Mine' = Mine
    BY <1>1 DEF Idle, Mine
  <1>3. TypeInv'
    BY <1>1, <1>2, EmptySeq DEF VInv, TypeInv
  <1>4. \A s \in Mine : Formed(s, tree[s]) /\ IsWhole(s, tree[s], {}, sound[s], readme[s], recorded[s])
    BY DEF VInv, Sound, Whole
  <1>5. QED BY <1>1, <1>2, <1>3, <1>4, IdleIsSound

LEMMA RecordStep ==
  ASSUME VInv, Record
  PROVE  VInv'
  <1>1. /\ Idle /\ result # "none" /\ result' = result /\ memory' = memory /\ jobs' = jobs /\ script' = script
        /\ tree' = tree /\ sound' = sound
        /\ recorded' = Pieces /\ mode' = mode /\ commit' = commit /\ readme' = readme
    BY DEF Record
  <1>2. Idle' /\ Mine' = Mine /\ TypeInv
    BY <1>1 DEF Idle, Mine, VInv
  <1>3. recorded' = [s \in Dirs |-> recorded'[s]] /\ \A s \in Dirs : recorded'[s] \subseteq Pieces[s]
    BY <1>1, VendorAssumption
  <1>4. TypeInv'
    BY <1>1, <1>2, <1>3 DEF TypeInv
  <1>5. ASSUME NEW s \in Mine PROVE IsWhole(s, tree'[s], {}, sound'[s], readme'[s], recorded'[s])
    <2>1. recorded[s] \subseteq recorded'[s]
      BY <1>1, <1>2, MineIs DEF TypeInv
    <2>2. IsWhole(s, tree[s], {}, sound[s], readme[s], recorded[s])
      BY <1>1, IdleIs
    <2>3. QED BY <1>1, <2>1, <2>2 DEF IsWhole
  <1>6. mode # "vendor" => memory = Nil
    <2>1. \E s : s \in Mine
      BY DEF Mine
    <2>2. QED BY <1>1, <2>1, IdleIs
  <1>7. \A s \in Mine : Formed(s, tree[s])
    BY <1>1, IdleIs
  <1>8. QED BY <1>1, <1>2, <1>4, <1>5, <1>6, <1>7, IdleIsSound

\* The queues that a run begins with.
LEMMA JobsAre ==
  ASSUME NEW T, NEW q \in Seq(T), NEW s
  PROVE  /\ Jobs(q, s) \in Seq(T \X {s}) /\ Len(Jobs(q, s)) = Len(q)
         /\ \A k \in 1..Len(q) : Jobs(q, s)[k] = <<q[k], s>>
  <1>1. Len(q) \in Nat /\ \A k \in 1..Len(q) : q[k] \in T
    OBVIOUS
  <1>2. Jobs(q, s) \in [1..Len(q) -> T \X {s}] /\ \A k \in 1..Len(q) : Jobs(q, s)[k] = <<q[k], s>>
    BY <1>1 DEF Jobs
  <1>3. QED BY <1>1, <1>2, LenProperties

LEMMA SeqGrows ==
  ASSUME NEW S, NEW T, S \subseteq T, NEW q \in Seq(S)
  PROVE  q \in Seq(T)
  <1>1. Len(q) \in Nat /\ \A k \in 1..Len(q) : q[k] \in T
    OBVIOUS
  <1>2. q \in [1..Len(q) -> T]
    BY <1>1
  <1>3. QED BY <1>1, <1>2

LEMMA ConcatIs ==
  ASSUME NEW T, NEW a \in Seq(T), NEW b \in Seq(T)
  PROVE  /\ a \o b \in Seq(T) /\ Len(a) \in Nat /\ Len(b) \in Nat /\ Len(a \o b) = Len(a) + Len(b)
         /\ \A k \in 1..Len(a) : (a \o b)[k] = a[k]
         /\ \A k \in 1..Len(b) : (a \o b)[Len(a) + k] = b[k]
  OBVIOUS

LEMMA StagesFollow ==
  ASSUME script \in Scripts, NEW s \in Mine
  PROVE  LET q == Stages(s)
         IN  /\ q \in Seq(Stage) /\ Len(q) \in Nat /\ Len(q) >= 1 /\ q[1] = "remove"
             /\ \A n \in 1..Len(q) :
                  /\ Fits(q[n], s)
                  /\ n = Len(q) => q[n] = "readme"
                  /\ n # Len(q) => q[n] # "readme" /\ q[n + 1] = After(q[n], s)
  <1>1. CASE script = "lidt"
    <2>1. Stages(s) = <<"remove", "copy", "fix", "module", "readme">>
      BY <1>1 DEF Stages, lidt
    <2>2. s \notin Split /\ script # "repetition"
      BY <1>1 DEF Mine, Split
    <2>3. QED BY <1>1, <2>1, <2>2 DEF After, Fits, Stage
  <1>2. CASE script = "liehr"
    <2>1. Stages(s) = <<"remove", "keep", "copy", "fix", "module", "readme">>
      BY <1>2 DEF Stages, liehr
    <2>2. s \notin Split /\ script # "repetition" /\ script # "lidt"
      BY <1>2 DEF Mine, Split
    <2>3. QED BY <1>2, <2>1, <2>2 DEF After, Fits, Stage
  <1>3. CASE script = "repetition" /\ s \in Split
    <2> DEFINE a == <<"remove", "keep", "copy", "fixOnce", "pattern">>
               b == <<"unpart", "part", "root">>
               c == <<"module", "readme">>
               q == (a \o b) \o c
    <2>1. Stages(s) = q
      BY <1>3 DEF Stages, repetition, write_split
    <2>2. a \in Seq(Stage) /\ b \in Seq(Stage) /\ c \in Seq(Stage) /\ Len(a) = 5 /\ Len(b) = 3 /\ Len(c) = 2
      BY DEF Stage
    <2>3. /\ a \o b \in Seq(Stage) /\ Len(a \o b) = 8
          /\ \A k \in 1..5 : (a \o b)[k] = a[k]
          /\ \A k \in 1..3 : (a \o b)[5 + k] = b[k]
      BY <2>2, ConcatIs
    <2>4. /\ q \in Seq(Stage) /\ Len(q) = 10
          /\ \A k \in 1..8 : q[k] = (a \o b)[k]
          /\ \A k \in 1..2 : q[8 + k] = c[k]
      BY <2>2, <2>3, ConcatIs
    <2>5. /\ q[1] = "remove" /\ q[2] = "keep" /\ q[3] = "copy" /\ q[4] = "fixOnce" /\ q[5] = "pattern"
      BY <2>3, <2>4
    <2>6. /\ q[6] = "unpart" /\ q[7] = "part" /\ q[8] = "root"
      <3>1. 5 + 1 = 6 /\ 5 + 2 = 7 /\ 5 + 3 = 8
        OBVIOUS
      <3>2. QED BY <2>3, <2>4, <3>1
    <2>7. /\ q[9] = "module" /\ q[10] = "readme"
      <3>1. 8 + 1 = 9 /\ 8 + 2 = 10
        OBVIOUS
      <3>2. QED BY <2>4, <3>1
    <2> HIDE DEF q
    <2>8. QED BY <1>3, <2>1, <2>4, <2>5, <2>6, <2>7 DEF After, Fits
  <1>4. CASE script = "repetition" /\ s \notin Split
    <2> DEFINE a == <<"remove", "keep", "copy", "fixOnce", "pattern">>
               c == <<"module", "readme">>
               q == a \o c
    <2>1. Stages(s) = q
      BY <1>4 DEF Stages, repetition
    <2>2. a \in Seq(Stage) /\ c \in Seq(Stage) /\ Len(a) = 5 /\ Len(c) = 2
      BY DEF Stage
    <2>3. /\ q \in Seq(Stage) /\ Len(q) = 7
          /\ \A k \in 1..5 : q[k] = a[k]
          /\ \A k \in 1..2 : q[5 + k] = c[k]
      BY <2>2, ConcatIs
    <2>4. /\ q[1] = "remove" /\ q[2] = "keep" /\ q[3] = "copy" /\ q[4] = "fixOnce" /\ q[5] = "pattern"
      BY <2>3
    <2>5. /\ q[6] = "module" /\ q[7] = "readme"
      <3>1. 5 + 1 = 6 /\ 5 + 2 = 7
        OBVIOUS
      <3>2. QED BY <2>3, <3>1
    <2> HIDE DEF q
    <2>6. QED BY <1>4, <2>1, <2>3, <2>4, <2>5 DEF After, Fits
  <1>5. QED BY <1>1, <1>2, <1>3, <1>4 DEF Scripts

LEMMA BeginIs ==
  ASSUME NEW T, jobs' \in Seq(T), Len(jobs') >= 1
  PROVE  ~Idle' /\ \A x, z : At(x, z)' => jobs'[1] = <<x, z>>
  <1>1. jobs' # <<>>
    BY EmptySeq
  <1>2. Head(jobs') = jobs'[1]
    BY <1>1, TailIs
  <1>3. QED BY <1>1, <1>2 DEF Idle, At

LEMMA VendorStep ==
  ASSUME VInv, Idle, NEW s \in Mine, NEW c \in Commits, Vendor(s, c)
  PROVE  VInv'
  <1>1. /\ mode' = "vendor" /\ jobs' = Jobs(Stages(s), s) /\ fixed' = {} /\ commit' = c /\ memory' = readme[s]
        /\ result' = "none" /\ sound' = [sound EXCEPT ![s] = FALSE]
        /\ script' = script /\ tree' = tree /\ readme' = readme /\ recorded' = recorded
    BY DEF Vendor, BeginRun
  <1>2. TypeInv /\ s \in Dirs /\ Mine' = Mine
    BY <1>1, MineIs DEF VInv, Mine
  <1>3. PICK q : q = Stages(s)
    OBVIOUS
  <1>4. /\ q \in Seq(Stage) /\ Len(q) \in Nat /\ Len(q) >= 1 /\ q[1] = "remove"
        /\ \A n \in 1..Len(q) :
             /\ Fits(q[n], s)
             /\ n = Len(q) => q[n] = "readme"
             /\ n # Len(q) => q[n] # "readme" /\ q[n + 1] = After(q[n], s)
    BY <1>2, <1>3, StagesFollow DEF TypeInv
  <1>5. jobs' \in Seq(Stage \X {s}) /\ Len(jobs') = Len(q) /\ \A k \in 1..Len(q) : jobs'[k] = <<q[k], s>>
    BY <1>1, <1>3, <1>4, JobsAre
  <1>6. jobs' \in Seq(Stage \X Mine)
    BY <1>5
  <1>7. /\ ~Idle' /\ \A x, z : At(x, z)' => x = "remove" /\ z = s
    <2>1. jobs'[1] = <<"remove", s>>
      BY <1>4, <1>5
    <2>2. QED BY <1>4, <1>5, <2>1, BeginIs
  <1>8. Queued'
    <2>1. \A x, z : After(x, z)' = After(x, z) /\ (Fits(x, z)' <=> Fits(x, z))
      BY <1>1 DEF After, Fits
    <2> SUFFICES ASSUME NEW n \in 1..Len(jobs')
                 PROVE  /\ jobs'[n][2] = jobs'[1][2] /\ Fits(jobs'[n][1], jobs'[n][2])
                        /\ n = Len(jobs') => jobs'[n][1] = "readme"
                        /\ n # Len(jobs') => jobs'[n][1] # "readme" /\ jobs'[n + 1][1] = After(jobs'[n][1], jobs'[n][2])
      BY <1>1, <2>1 DEF Queued
    <2>2. /\ jobs'[n] = <<q[n], s>> /\ jobs'[1] = <<q[1], s>>
          /\ n # Len(jobs') => jobs'[n + 1] = <<q[n + 1], s>>
      BY <1>4, <1>5
    <2>3. QED BY <1>4, <1>5, <2>2
  <1>9. /\ sound' \in [Dirs -> BOOLEAN] /\ ~sound'[s] /\ \A z \in Dirs : sound'[z] => sound[z]
        /\ memory' \in {Nil} \cup Readme
    BY <1>1, <1>2 DEF TypeInv
  <1>10. TypeInv'
    BY <1>1, <1>2, <1>6, <1>7, <1>9 DEF TypeInv
  <1>11. ASSUME NEW z \in Mine PROVE Sound(z)'
    <2>1. Formed(z, tree'[z]) /\ IsWhole(z, tree[z], {}, sound[z], readme[z], recorded[z])
      BY <1>1, IdleIs
    <2>2. Whole(z)'
      BY <1>1, <1>2, <1>9, <2>1, MineIs DEF Whole, IsWhole
    <2>3. Copying(z)' /\ Splitting(z)' /\ Repairing(z)'
      BY <1>1, <1>7, <1>9 DEF Copying, Splitting, Repairing, Made
    <2>4. Held(z)'
      BY <1>1, <1>7 DEF Held
    <2>5. QED BY <2>1, <2>2, <2>3, <2>4 DEF Sound
  <1>12. QED BY <1>2, <1>8, <1>10, <1>11 DEF VInv

LEMMA ApplyingIs ==
  ASSUME NEW s
  PROVE  /\ Applying(s) \in Seq({"fix", "pattern", "module"} \X {s}) /\ Len(Applying(s)) = 3
         /\ Applying(s)[1] = <<"fix", s>> /\ Applying(s)[3] = <<"module", s>>
  <1>1. PICK q : q = <<"fix", "pattern", "module">>
    OBVIOUS
  <1>2. q \in Seq({"fix", "pattern", "module"}) /\ Len(q) = 3 /\ q[1] = "fix" /\ q[3] = "module"
    BY <1>1
  <1>3. Applying(s) = Jobs(q, s)
    BY <1>1 DEF Applying
  <1>4. PICK T : T = {"fix", "pattern", "module"}
    OBVIOUS
  <1>5. q \in Seq(T)
    BY <1>2, <1>4
  <1>6. /\ Jobs(q, s) \in Seq(T \X {s}) /\ Len(Jobs(q, s)) = Len(q)
        /\ \A k \in 1..Len(q) : Jobs(q, s)[k] = <<q[k], s>>
    BY <1>5, JobsAre
  <1>7. 1 \in 1..3 /\ 3 \in 1..3
    OBVIOUS
  <1>8. Jobs(q, s)[1] = <<"fix", s>> /\ Jobs(q, s)[3] = <<"module", s>>
    BY <1>2, <1>6, <1>7
  <1>9. QED BY <1>2, <1>3, <1>4, <1>6, <1>8

LEMMA ApplyStep ==
  ASSUME VInv, Idle, ApplyFixes
  PROVE  VInv'
  <1>1. /\ mode' = "apply" /\ fixed' = {} /\ memory' = Nil /\ result' = "none"
        /\ jobs' = IF script = "repetition" THEN (Applying("cr") \o Applying("tp")) \o Applying("or") ELSE Applying(script)
        /\ script' = script /\ tree' = tree /\ readme' = readme /\ recorded' = recorded /\ commit' = commit /\ sound' = sound
    BY DEF ApplyFixes, BeginRun
  <1>2. TypeInv /\ Mine' = Mine
    BY <1>1 DEF VInv, Mine
  <1>3. PICK T : T = {"fix", "pattern", "module"}
    OBVIOUS
  <1>4. /\ jobs' \in Seq(T \X Mine) /\ Len(jobs') \in Nat /\ Len(jobs') >= 1
        /\ \A s \in Mine : \E m, n \in 1..Len(jobs') : jobs'[m] = <<"fix", s>> /\ jobs'[n] = <<"module", s>>
    <2>1. CASE script = "repetition"
      <3>1. PICK a, b, c, ab : a = Applying("cr") /\ b = Applying("tp") /\ c = Applying("or") /\ ab = a \o b
        OBVIOUS
      <3>2. /\ a \in Seq(T \X {"cr"}) /\ Len(a) = 3 /\ a[1] = <<"fix", "cr">> /\ a[3] = <<"module", "cr">>
            /\ b \in Seq(T \X {"tp"}) /\ Len(b) = 3 /\ b[1] = <<"fix", "tp">> /\ b[3] = <<"module", "tp">>
            /\ c \in Seq(T \X {"or"}) /\ Len(c) = 3 /\ c[1] = <<"fix", "or">> /\ c[3] = <<"module", "or">>
        BY <1>3, <3>1, ApplyingIs
      <3>3. Mine = {"cr", "tp", "or"}
        BY <2>1 DEF Mine
      <3> PICK M : M = T \X Mine
        OBVIOUS
      <3>4. a \in Seq(M) /\ b \in Seq(M) /\ c \in Seq(M) /\ jobs' = ab \o c
        <4>1. (T \X {"cr"}) \subseteq M /\ (T \X {"tp"}) \subseteq M /\ (T \X {"or"}) \subseteq M
          BY <3>3
        <4>2. a \in Seq(M) /\ b \in Seq(M) /\ c \in Seq(M)
          BY <3>2, <4>1, SeqGrows
        <4>3. QED BY <1>1, <2>1, <3>1, <4>2
      <3>5. /\ ab \in Seq(M) /\ Len(ab) = 6
            /\ \A k \in 1..3 : ab[k] = a[k]
            /\ \A k \in 1..3 : ab[3 + k] = b[k]
        <4>1. /\ ab \in Seq(M) /\ Len(ab) = Len(a) + Len(b)
              /\ \A k \in 1..Len(a) : ab[k] = a[k]
              /\ \A k \in 1..Len(b) : ab[Len(a) + k] = b[k]
          BY <3>1, <3>4, ConcatIs
        <4>2. QED BY <3>2, <4>1
      <3>6. /\ jobs' \in Seq(M) /\ Len(jobs') = 9
            /\ \A k \in 1..6 : jobs'[k] = ab[k]
            /\ \A k \in 1..3 : jobs'[6 + k] = c[k]
        <4>0. ab \in Seq(M) /\ c \in Seq(M)
          BY <3>4, <3>5
        <4>1. PICK j : j = ab \o c
          OBVIOUS
        <4>2. /\ j \in Seq(M) /\ Len(j) = Len(ab) + Len(c)
              /\ \A k \in 1..Len(ab) : j[k] = ab[k]
              /\ \A k \in 1..Len(c) : j[Len(ab) + k] = c[k]
          BY <4>0, <4>1, ConcatIs
        <4>3. j \in Seq(M) /\ Len(j) = 9 /\ \A k \in 1..6 : j[k] = ab[k]
          BY <3>2, <3>5, <4>2
        <4>4. \A k \in 1..3 : j[6 + k] = c[k]
          BY <3>2, <3>5, <4>2
        <4>5. QED BY <3>4, <4>1, <4>3, <4>4
      <3>7. 3 + 1 = 4 /\ 3 + 3 = 6 /\ 6 + 1 = 7 /\ 6 + 3 = 9
        OBVIOUS
      <3>8. jobs'[1] = a[1] /\ jobs'[3] = a[3] /\ jobs'[4] = b[1] /\ jobs'[6] = b[3] /\ jobs'[7] = c[1] /\ jobs'[9] = c[3]
        BY <3>5, <3>6, <3>7
      <3>9. {1, 3, 4, 6, 7, 9} \subseteq 1..9
        OBVIOUS
      <3>10. QED BY <3>2, <3>3, <3>6, <3>8, <3>9
    <2>2. CASE script # "repetition"
      <3>1. Mine = {script} /\ jobs' = Applying(script)
        BY <1>1, <2>2 DEF Mine
      <3>2. jobs' \in Seq(T \X Mine) /\ Len(jobs') = 3 /\ jobs'[1] = <<"fix", script>> /\ jobs'[3] = <<"module", script>>
        BY <1>3, <3>1, ApplyingIs
      <3>3. 1 \in 1..3 /\ 3 \in 1..3
        OBVIOUS
      <3>4. QED BY <3>1, <3>2, <3>3
    <2>3. QED BY <2>1, <2>2
  <1>5. jobs' \in Seq(Stage \X Mine) /\ \A n \in 1..Len(jobs') : jobs'[n][1] \in T
    <2>1. (T \X Mine) \subseteq (Stage \X Mine)
      BY <1>3 DEF Stage
    <2>2. jobs' \in Seq(Stage \X Mine)
      BY <1>4, <2>1, SeqGrows
    <2>3. \A n \in 1..Len(jobs') : jobs'[n] \in T \X Mine
      BY <1>4
    <2>4. QED BY <2>2, <2>3
  <1>6. Queued'
    BY <1>1, <1>3, <1>5 DEF Queued
  <1>7. ~Idle' /\ \A s \in Mine : Ahead("fix", s)' /\ Ahead("module", s)'
    <2>1. ~Idle'
      BY <1>4, BeginIs
    <2>2. \A s \in Mine : Ahead("fix", s)' /\ Ahead("module", s)'
      BY <1>4 DEF Ahead
    <2>3. QED BY <2>1, <2>2
  <1>8. TypeInv'
    BY <1>1, <1>2, <1>5 DEF TypeInv
  <1>9. ASSUME NEW z \in Mine PROVE Sound(z)'
    <2>1. Formed(z, tree'[z]) /\ IsWhole(z, tree'[z], {}, sound'[z], readme'[z], recorded'[z])
      BY <1>1, IdleIs
    <2>2. Whole(z)'
      BY <2>1 DEF Whole
    <2>3. FixedIn(z, fixed)'
      <3>1. IsFixed(z, tree'[z], {}, sound'[z], readme'[z], recorded'[z])
        BY <2>1 DEF IsFixed
      <3>2. QED BY <1>1, <3>1 DEF FixedIn
    <2>4. Copying(z)' /\ Splitting(z)' /\ Repairing(z)' /\ Held(z)'
      BY <1>1, <1>7, <2>3 DEF Copying, Splitting, Repairing, Held
    <2>5. QED BY <2>1, <2>2, <2>4 DEF Sound
  <1>10. QED BY <1>2, <1>6, <1>8, <1>9 DEF VInv

LEMMA ResplitStep ==
  ASSUME VInv, NEW s \in Mine, Resplit(s)
  PROVE  VInv'
  <1>1. /\ Idle /\ s \in Split /\ memory' = Nil /\ mode' = "resplit"
        /\ script' = script /\ tree' = tree /\ readme' = readme /\ recorded' = recorded /\ commit' = commit /\ sound' = sound
        /\ \/ MaySplit(s) /\ jobs' = Jobs(write_split, s) /\ fixed' = {} /\ result' = "none"
           \/ result' = "error" /\ jobs' = jobs
    BY DEF Resplit, BeginRun
  <1>2. TypeInv /\ Mine' = Mine /\ s \in Dirs
    BY <1>1, MineIs DEF VInv, Mine
  <1>3. CASE result' = "error" /\ jobs' = jobs
    <2>1. Idle' /\ TypeInv'
      BY <1>1, <1>2, <1>3 DEF Idle, TypeInv
    <2>2. QED BY <1>1, <1>2, <1>3, <2>1, IdleIs, IdleIsSound
  <1>4. CASE MaySplit(s) /\ jobs' = Jobs(write_split, s) /\ fixed' = {} /\ result' = "none"
    <2>1. PICK q : q = write_split
      OBVIOUS
    <2>2. q \in Seq(Stage) /\ Len(q) = 3 /\ q[1] = "unpart" /\ q[2] = "part" /\ q[3] = "root"
      BY <2>1 DEF write_split, Stage
    <2>3. /\ jobs' \in Seq(Stage \X {s}) /\ Len(jobs') = 3
          /\ jobs'[1] = <<"unpart", s>> /\ jobs'[2] = <<"part", s>> /\ jobs'[3] = <<"root", s>>
      <3>1. /\ Jobs(q, s) \in Seq(Stage \X {s}) /\ Len(Jobs(q, s)) = Len(q)
            /\ \A k \in 1..Len(q) : Jobs(q, s)[k] = <<q[k], s>>
        BY <2>2, JobsAre
      <3>2. 1 \in 1..3 /\ 2 \in 1..3 /\ 3 \in 1..3
        OBVIOUS
      <3>3. QED BY <1>4, <2>1, <2>2, <3>1, <3>2
    <2>4. jobs' \in Seq(Stage \X Mine)
      BY <2>3
    <2>5. ~Idle' /\ \A x, z : At(x, z)' => x = "unpart" /\ z = s
      BY <2>3, BeginIs
    <2>6. Queued'
      <3>1. \A n \in 1..Len(jobs') : n = 1 \/ n = 2 \/ n = 3
        BY <2>3
      <3>2. 1 + 1 = 2 /\ 2 + 1 = 3
        OBVIOUS
      <3>3. QED BY <1>1, <2>3, <3>1, <3>2 DEF Queued, After
    <2>7. TypeInv'
      BY <1>1, <1>2, <1>4, <2>4 DEF TypeInv
    <2>8. Full(tree[s])
      BY <1>4 DEF MaySplit, Full
    <2>9. ~sound[s]
      <3>1. SUFFICES ASSUME sound[s] PROVE FALSE
        OBVIOUS
      <3>2. readme[s] # Nil /\ \E Q : tree[s] = Vendored(s, readme[s].generated, Q)
        BY <1>1, <3>1, IdleIs DEF IsWhole
      <3>3. PICK Q : tree[s] = Vendored(s, readme[s].generated, Q)
        BY <3>2
      <3>4. readme[s].generated \in Commits
        BY <1>2, <3>2, ReadmeIs DEF TypeInv
      <3>5. IsVendored(s, readme[s].generated, Q, tree[s])
        BY <1>2, <3>3, <3>4, VendoredIs
      <3>6. QED BY <1>1, <2>8, <3>5 DEF IsVendored, Full
    <2>10. ASSUME NEW z \in Mine PROVE Sound(z)'
      <3>1. Formed(z, tree'[z]) /\ IsWhole(z, tree'[z], {}, sound'[z], readme'[z], recorded'[z])
        BY <1>1, IdleIs
      <3>2. Whole(z)'
        BY <3>1 DEF Whole
      <3>3. Copying(z)' /\ Repairing(z)' /\ Held(z)'
        BY <1>1 DEF Copying, Repairing, Held
      <3>4. Cut(s, "unpart", tree'[s]) /\ ~sound'[s]
        BY <1>1, <2>8, <2>9 DEF Cut
      <3>5. Splitting(z)'
        BY <2>5, <3>4 DEF Splitting
      <3>6. QED BY <3>1, <3>2, <3>3, <3>5 DEF Sound
    <2>11. QED BY <1>2, <2>6, <2>7, <2>10 DEF VInv
  <1>5. QED BY <1>1, <1>3, <1>4

-----------------------------------------------------------------------------
(* The invariant.                                                          *)

LEMMA EmptyForms == ASSUME NEW s \in Dirs PROVE Formed(s, Empty)
  <1>1. DOMAIN Empty = {} /\ Empty = [f \in DOMAIN Empty |-> Empty[f]]
    BY DEF Empty
  <1>2. QED BY <1>1 DEF Formed, Parts

LEMMA VInvInit == VendorInit => VInv
  <1> SUFFICES ASSUME VendorInit PROVE VInv
    OBVIOUS
  <1>1. /\ script \in Scripts /\ recorded = [s \in Dirs |-> {}]
        /\ mode = "vendor" /\ jobs = <<>> /\ memory = Nil /\ result = "ok"
    BY DEF VendorInit
  <1>2. PICK c \in Commits, there \in BOOLEAN :
          /\ commit = c /\ tree = [s \in Dirs |-> IF there THEN Vendored(s, c, {}) ELSE Empty]
          /\ readme = [s \in Dirs |-> IF there THEN [prose |-> "local", generated |-> c] ELSE Nil]
          /\ sound = [s \in Dirs |-> there]
    BY DEF VendorInit
  <1>3. PICK n : n = [prose |-> "local", generated |-> c]
    OBVIOUS
  <1>4. n \in Readme /\ n # Nil /\ n.generated = c
    BY <1>3, ReadmeIs
  <1>5. \A s \in Dirs : readme[s] = IF there THEN n ELSE Nil
    BY <1>2, <1>3
  <1>6. jobs \in Seq(Stage \X Mine) /\ Idle
    BY <1>1, EmptySeq DEF Idle
  <1>7. TypeInv
    <2>1. tree = [s \in Dirs |-> tree[s]] /\ sound \in [Dirs -> BOOLEAN]
      BY <1>2
    <2>2. readme \in [Dirs -> {Nil} \cup Readme]
      BY <1>2, <1>3, <1>4
    <2>3. recorded = [s \in Dirs |-> recorded[s]] /\ \A s \in Dirs : recorded[s] \subseteq Pieces[s]
      BY <1>1
    <2>4. QED BY <1>1, <1>2, <1>6, <2>1, <2>2, <2>3 DEF TypeInv
  <1>8. ASSUME NEW s \in Dirs
        PROVE  Formed(s, tree[s]) /\ IsWhole(s, tree[s], {}, sound[s], readme[s], recorded[s])
    <2>1. CASE there
      <3>1. tree[s] = Vendored(s, c, {})
        BY <1>2, <2>1
      <3>2. PICK t : t = tree[s]
        OBVIOUS
      <3>3. IsVendored(s, c, {}, t)
        BY <3>1, <3>2, VendoredIs
      <3>4. {} \in SUBSET recorded[s] /\ {} \subseteq {}
        OBVIOUS
      <3>5. readme[s] # Nil /\ tree[s] = Vendored(s, readme[s].generated, {})
        BY <1>4, <1>5, <2>1, <3>1
      <3>6. QED BY <3>2, <3>3, <3>4, <3>5 DEF IsVendored, IsWhole
    <2>2. CASE ~there
      BY <1>2, <2>2, EmptyForms DEF IsWhole
    <2>3. QED BY <2>1, <2>2
  <1>9. Queued
    BY <1>6 DEF Idle, Queued
  <1>10. ASSUME NEW s \in Mine PROVE Sound(s)
    <2>1. s \in Dirs
      BY <1>7, MineIs
    <2>2. \A x, z : ~At(x, z)
      BY <1>6 DEF At
    <2>3. Whole(s)
      BY <1>8, <2>1 DEF Whole
    <2>4. Copying(s) /\ Splitting(s) /\ Repairing(s) /\ Held(s)
      BY <1>1, <2>2 DEF Copying, Splitting, Repairing, Held
    <2>5. QED BY <1>8, <2>1, <2>3, <2>4 DEF Sound
  <1>11. QED BY <1>7, <1>9, <1>10 DEF VInv

LEMMA VInvNext == VInv /\ [VendorNext]_vendoring => VInv'
  <1> SUFFICES ASSUME VInv, [VendorNext]_vendoring PROVE VInv'
    OBVIOUS
  <1>1. CASE RunReturns
    BY <1>1, ReturnStep
  <1>2. CASE KillRun
    BY <1>2, KillStep
  <1>3. CASE Record
    BY <1>3, RecordStep
  <1>4. CASE Idle /\ ApplyFixes
    BY <1>4, ApplyStep
  <1>5. ASSUME NEW s \in Mine, Resplit(s) PROVE VInv'
    BY <1>5, ResplitStep
  <1>6. ASSUME NEW s \in Mine, NEW c \in Commits, Idle, Vendor(s, c) PROVE VInv'
    BY <1>6, VendorStep
  <1>7. ASSUME NEW s \in Mine, Run(s) PROVE VInv'
    <2>1. CASE RemoveTree(s)
      BY <2>1, RemoveTreeStep
    <2>2. CASE Keep(s)
      BY <2>2, KeepStep
    <2>3. CASE Copy(s)
      BY <2>3, CopyStep
    <2>4. CASE Fix(s)
      BY <2>4, FixStep
    <2>5. CASE Rewrite(s, "pattern")
      BY <2>5, RewriteStep
    <2>6. CASE Rewrite(s, "module")
      BY <2>6, RewriteStep
    <2>7. CASE Unpart(s)
      BY <2>7, UnpartStep
    <2>8. CASE WritePart(s)
      BY <2>8, WritePartStep
    <2>9. CASE WriteRoot(s)
      BY <2>9, WriteRootStep
    <2>10. CASE RefreshReadme(s)
      BY <2>10, RefreshStep
    <2>11. QED BY <1>7, <2>1, <2>2, <2>3, <2>4, <2>5, <2>6, <2>7, <2>8, <2>9, <2>10 DEF Run
  <1>8. CASE UNCHANGED vendoring
    <2>1. /\ script' = script /\ tree' = tree /\ readme' = readme /\ recorded' = recorded /\ mode' = mode
          /\ commit' = commit /\ jobs' = jobs /\ fixed' = fixed /\ memory' = memory /\ result' = result /\ sound' = sound
      BY <1>8 DEF vendoring
    <2>2. /\ (Idle' <=> Idle) /\ Mine' = Mine
          /\ \A x, z : (At(x, z)' <=> At(x, z)) /\ (Ahead(x, z)' <=> Ahead(x, z))
          /\ \A x, z : After(x, z)' = After(x, z) /\ (Fits(x, z)' <=> Fits(x, z))
      BY <2>1 DEF Idle, Mine, At, Ahead, After, Fits
    <2>3. TypeInv' /\ Queued'
      BY <2>1, <2>2 DEF VInv, TypeInv, Queued
    <2>4. ASSUME NEW s \in Mine PROVE Sound(s)'
      <3>1. Sound(s)
        BY DEF VInv
      <3>2. \A X : FixedIn(s, X) <=> IsFixed(s, tree[s], X, sound[s], readme[s], recorded[s])
        BY DEF FixedIn
      <3>3. (FixedIn(s, fixed)' <=> FixedIn(s, fixed)) /\ (FixedIn(s, recorded[s])' <=> FixedIn(s, recorded[s]))
        BY <2>1 DEF FixedIn
      <3>4. Formed(s, tree'[s]) /\ Whole(s)'
        BY <2>1, <3>1 DEF Sound, Whole
      <3>5. Copying(s)' /\ Splitting(s)'
        BY <2>1, <2>2, <3>1 DEF Sound, Copying, Splitting
      <3>6. Repairing(s)'
        BY <2>1, <2>2, <3>1, <3>3 DEF Sound, Repairing
      <3>7. Held(s)'
        BY <2>1, <2>2, <3>1 DEF Sound, Held
      <3>8. QED BY <3>4, <3>5, <3>6, <3>7 DEF Sound
    <2>5. QED BY <2>2, <2>3, <2>4 DEF VInv
  <1>9. QED BY <1>1, <1>2, <1>3, <1>4, <1>5, <1>6, <1>7, <1>8 DEF VendorNext

\* The inductive invariant of the vendoring scripts.
THEOREM VInvHolds == VendorSpec => []VInv
  BY VInvInit, VInvNext, PTL DEF VendorSpec

-----------------------------------------------------------------------------
LEMMA LiveIs == ASSUME NEW s PROVE Live(s) = LiveOf(s, tree[s]) /\ Live(s)' = LiveOf(s, tree'[s])
  <1>1. /\ Full(tree[s]) <=> (IF main \in DOMAIN tree[s] THEN tree[s][main].text ELSE Empty) # Empty
        /\ Full(tree'[s]) <=> (IF main \in DOMAIN tree'[s] THEN tree'[s][main].text ELSE Empty) # Empty
    BY DEF Full
  <1>2. Live(s) = LiveOf(s, tree[s])
    BY <1>1 DEF Live, LiveOf, Full, Parts
  <1>3. Live(s)' = LiveOf(s, tree'[s])
    BY <1>1 DEF Live, LiveOf, Full, Parts
  <1>4. QED BY <1>2, <1>3

\* What a run that ends well leaves is upstream's text, repaired, whatever killed and
\* failed runs it started from; a directory that is so stays so, and --apply-fixes
\* leaves every recorded fix in the text that Lean builds, and modules.
THEOREM CopiesAreSound == VendorSpec => []CopyIsSound
  <1>1. VInv => CopyIsSound
    <2> SUFFICES ASSUME VInv, NEW s \in Mine
                 PROVE  /\ sound[s] => \E R \in SUBSET recorded[s] : tree[s] = Vendored(s, readme[s].generated, R)
                        /\ Finished("apply") =>
                             /\ sound[s] => tree[s] = Vendored(s, readme[s].generated, recorded[s])
                             /\ \A p \in recorded[s] : p \in DOMAIN Live(s) /\ Live(s)[p][2] = "new"
                             /\ \A f \in DOMAIN tree[s] : "module" \in tree[s][f].rewrites
      BY DEF CopyIsSound
    <2>1. IsWhole(s, tree[s], {}, sound[s], readme[s], recorded[s])
      BY DEF VInv, Sound, Whole
    <2>2. ASSUME Finished("apply")
          PROVE  IsFixed(s, tree[s], recorded[s], sound[s], readme[s], recorded[s]) /\ AreModules(tree[s])
      BY <2>2, IdleIs DEF Finished
    <2>3. ASSUME Finished("apply"), sound[s] PROVE tree[s] = Vendored(s, readme[s].generated, recorded[s])
      <3>1. PICK Q \in SUBSET recorded[s] : recorded[s] \subseteq Q /\ tree[s] = Vendored(s, readme[s].generated, Q)
        BY <2>2, <2>3 DEF IsFixed, IsWhole
      <3>2. Q = recorded[s]
        BY <3>1
      <3>3. QED BY <3>1, <3>2
    <2>4. QED BY <2>1, <2>2, <2>3, LiveIs DEF IsWhole, IsFixed, AreModules
  <1>2. QED BY <1>1, VInvHolds, PTL

-----------------------------------------------------------------------------
(* What happens to text.                                                   *)

Keeps(s, t, u) ==
  \A p \in DOMAIN LiveOf(s, t) :
    /\ p \in DOMAIN LiveOf(s, u)
    /\ LiveOf(s, u)[p] # LiveOf(s, t)[p] => LiveOf(s, t)[p][2] = "old" /\ LiveOf(s, u)[p][2] = "new"

Alone(s) == \A z \in Dirs : z # s => tree'[z] = tree[z]

LEMMA FixKeepsText ==
  ASSUME VInv, NEW s \in Mine, Fix(s), mode # "vendor"
  PROVE  Keeps(s, tree[s], tree'[s]) /\ Alone(s)
  <1>1. PICK t : t = tree[s]
    OBVIOUS
  <1>2. At("fix", s)
    BY VendorStages DEF Fix
  <1>3. s \in Dirs /\ TypeInv /\ Formed(s, t) /\ recorded[s] \in SUBSET Pieces[s] /\ ~At("fixOnce", s)
    BY <1>1, <1>2, AtStage, HeadIs
  <1>4. \A p : Target(s, p) = TargetIn(s, t, p)
    BY <1>1 DEF Target, TargetIn, Has, HasIn
  <1>5. PICK left, p, f : left = recorded[s] \ fixed /\ p = First(left) /\ f = Fixing(s, p)
    OBVIOUS
  <1>6. f = TargetIn(s, t, p)
    BY <1>3, <1>4, <1>5 DEF Fixing
  <1>7. PICK piece : piece = IF ~(f \in DOMAIN t /\ p \in DOMAIN t[f].text) THEN Nil ELSE AsItIs(p, t[f].text[p])
    OBVIOUS
  <1>8. UNCHANGED tree \/ (left # {} /\ piece # Nil /\ Put(s, f, FixedFile(t[f], p, piece)))
    BY <1>1, <1>3, <1>5, <1>7 DEF Fix, FixedFile
  <1>9. CASE UNCHANGED tree
    BY <1>9 DEF Keeps, Alone
  <1>10. CASE left # {} /\ piece # Nil /\ Put(s, f, FixedFile(t[f], p, piece))
    <2>1. f \in DOMAIN t /\ p \in DOMAIN t[f].text /\ piece = AsItIs(p, t[f].text[p])
      BY <1>7, <1>10
    <2>2. p \in Pieces[s]
      <3>1. left \in SUBSET Nat
        BY <1>3, <1>5, PiecesAre
      <3>2. QED BY <1>3, <1>5, <1>10, <3>1, FirstIs
    <2>3. PICK u : u = With(t, f, FixedFile(t[f], p, piece))
      OBVIOUS
    <2>4. tree'[s] = u /\ Alone(s)
      BY <1>1, <1>3, <1>10, <2>3, PutIs DEF Alone
    <2>5. IsRepaired(s, t, p, With(t, f, FixedFile(t[f], p, AsItIs(p, t[f].text[p]))))
      BY <1>3, <1>6, <1>10, <2>1, <2>2, FixForms
    <2>6. IsRepaired(s, t, p, u)
      BY <2>1, <2>3, <2>5
    <2>7. Keeps(s, t, u)
      BY <2>6 DEF IsRepaired, Keeps
    <2>8. QED BY <1>1, <2>4, <2>7
  <1>11. QED BY <1>8, <1>9, <1>10

LEMMA RewriteKeepsText ==
  ASSUME VInv, NEW s \in Mine, NEW stage \in {"pattern", "module"}, Rewrite(s, stage)
  PROVE  Keeps(s, tree[s], tree'[s]) /\ Alone(s)
  <1>1. PICK t : t = tree[s]
    OBVIOUS
  <1>2. At(stage, s)
    BY DEF Rewrite
  <1>3. s \in Dirs /\ TypeInv /\ Formed(s, t)
    BY <1>1, <1>2, AtStage
  <1>4. UNCHANGED tree \/ \E f \in DOMAIN t : Put(s, f, Rewritten(t[f], stage))
    BY <1>1 DEF Rewrite, Rewritten
  <1>5. CASE UNCHANGED tree
    BY <1>5 DEF Keeps, Alone
  <1>6. ASSUME NEW f \in DOMAIN t, Put(s, f, Rewritten(t[f], stage)) PROVE Keeps(s, t, tree'[s]) /\ Alone(s)
    <2>1. PICK u : u = With(t, f, Rewritten(t[f], stage))
      OBVIOUS
    <2>2. tree'[s] = u /\ Alone(s)
      BY <1>1, <1>3, <1>6, <2>1, PutIs DEF Alone
    <2>3. IsRewritten(s, t, f, stage, u)
      BY <1>3, <2>1, RewriteForms
    <2>4. QED BY <2>2, <2>3 DEF IsRewritten, Keeps
  <1>7. QED BY <1>1, <1>4, <1>5, <1>6

LEMMA UnpartKeepsText ==
  ASSUME VInv, NEW s \in Mine, Unpart(s), mode # "vendor"
  PROVE  Keeps(s, tree[s], tree'[s]) /\ Alone(s)
  <1>1. PICK t : t = tree[s]
    OBVIOUS
  <1>2. At("unpart", s)
    BY DEF Unpart
  <1>3. s \in Dirs /\ TypeInv /\ Formed(s, t) /\ Full(t)
    <2>1. mode \in {"vendor", "resplit"}
      BY <1>2, SplitStages
    <2>2. QED BY <1>1, <1>2, <2>1, AtStage DEF Cut
  <1>4. UNCHANGED tree \/ \E f \in DOMAIN t : IsPart(f) /\ Delete(s, f)
    BY <1>1 DEF Unpart
  <1>5. CASE UNCHANGED tree
    BY <1>5 DEF Keeps, Alone
  <1>6. ASSUME NEW f \in DOMAIN t, IsPart(f), Delete(s, f) PROVE Keeps(s, t, tree'[s]) /\ Alone(s)
    <2>1. PICK u : u = Without(t, f)
      OBVIOUS
    <2>2. tree'[s] = u /\ Alone(s)
      BY <1>1, <1>3, <1>6, <2>1, DeleteIs DEF Alone
    <2>3. main \in DOMAIN u /\ u[main] = t[main] /\ Full(u)
      BY <1>3, <1>6, <2>1, NamesDiffer DEF Without, Full
    <2>4. LiveOf(s, u) = LiveOf(s, t)
      BY <1>3, <2>3 DEF LiveOf
    <2>5. QED BY <2>2, <2>4 DEF Keeps
  <1>7. QED BY <1>1, <1>4, <1>5, <1>6

LEMMA WritePartKeepsText ==
  ASSUME VInv, NEW s \in Mine, WritePart(s), mode # "vendor"
  PROVE  Keeps(s, tree[s], tree'[s]) /\ Alone(s)
  <1>1. PICK t : t = tree[s]
    OBVIOUS
  <1>2. At("part", s)
    BY DEF WritePart
  <1>3. s \in Dirs /\ TypeInv /\ Formed(s, t) /\ Full(t)
    <2>1. mode \in {"vendor", "resplit"}
      BY <1>2, SplitStages
    <2>2. QED BY <1>1, <1>2, <2>1, AtStage DEF Cut
  <1>4. UNCHANGED tree \/ \E k : Put(s, Part(k), PartOf(t[main].text, k))
    BY <1>1 DEF WritePart, PartOf, Only
  <1>5. CASE UNCHANGED tree
    BY <1>5 DEF Keeps, Alone
  <1>6. ASSUME NEW k, Put(s, Part(k), PartOf(t[main].text, k)) PROVE Keeps(s, t, tree'[s]) /\ Alone(s)
    <2>1. PICK u : u = With(t, Part(k), PartOf(t[main].text, k))
      OBVIOUS
    <2>2. tree'[s] = u /\ Alone(s)
      BY <1>1, <1>3, <1>6, <2>1, PutIs DEF Alone
    <2>3. main \in DOMAIN u /\ u[main] = t[main] /\ Full(u)
      BY <1>3, <2>1, NamesDiffer DEF With, Full
    <2>4. LiveOf(s, u) = LiveOf(s, t)
      BY <1>3, <2>3 DEF LiveOf
    <2>5. QED BY <2>2, <2>4 DEF Keeps
  <1>7. QED BY <1>1, <1>4, <1>5, <1>6

\* The text is in the parts when the root is written over it.
LEMMA WriteRootKeepsText ==
  ASSUME VInv, NEW s \in Mine, WriteRoot(s), mode # "vendor"
  PROVE  Keeps(s, tree[s], tree'[s]) /\ Alone(s)
  <1>1. PICK t, u : t = tree[s] /\ u = With(t, main, [text |-> Empty, rewrites |-> {}])
    OBVIOUS
  <1>2. At("root", s) /\ Put(s, main, [text |-> Empty, rewrites |-> {}])
    BY DEF WriteRoot
  <1>3. s \in Dirs /\ TypeInv /\ Formed(s, t) /\ s \in Split /\ Cut(s, "root", t)
    BY <1>1, <1>2, AtStage, SplitStages
  <1>4. tree'[s] = u /\ Alone(s)
    BY <1>1, <1>2, <1>3, PutIs DEF Alone
  <1>5. Formed(s, u) /\ ~Full(u) /\ \A k \in Parts(s, t) : k \in Parts(s, u) /\ u[Part(k)] = t[Part(k)]
    <2>1. IsRooted(s, t, u)
      BY <1>1, <1>3, RootForms
    <2>2. QED BY <2>1 DEF IsRooted
  <1>6. Full(t) /\ Parts(s, t) = Pieces[s] /\ \A k \in Parts(s, t) : t[Part(k)].text[k] = t[main].text[k]
    BY <1>3 DEF Cut
  <1>7. /\ LiveOf(s, t) = t[main].text /\ DOMAIN LiveOf(s, t) = Pieces[s]
        /\ DOMAIN LiveOf(s, u) = Parts(s, u) /\ \A p \in Parts(s, u) : LiveOf(s, u)[p] = u[Part(p)].text[p]
    BY <1>3, <1>5, <1>6, FullIs
  <1>8. Keeps(s, t, u)
    BY <1>5, <1>6, <1>7 DEF Keeps
  <1>9. QED BY <1>1, <1>4, <1>8

\* No step of --apply-fixes or --resplit loses text, or changes it but by a fix.
THEOREM FixesKeepText == VendorSpec => TextIsKept
  <1>1. ASSUME VInv, VendorNext, mode' # "vendor", NEW s \in Mine PROVE Keeps(s, tree[s], tree'[s])
    <2>1. CASE RunReturns
      BY <2>1 DEF RunReturns, Keeps
    <2>2. CASE KillRun
      BY <2>2 DEF KillRun, Keeps
    <2>3. CASE Record
      BY <2>3 DEF Record, Keeps
    <2>4. CASE ApplyFixes
      BY <2>4 DEF ApplyFixes, Keeps
    <2>5. ASSUME NEW z, Resplit(z) PROVE Keeps(s, tree[s], tree'[s])
      BY <2>5 DEF Resplit, Keeps
    <2>6. ASSUME NEW z, NEW c, Vendor(z, c) PROVE FALSE
      BY <1>1, <2>6 DEF Vendor, BeginRun
    <2>7. ASSUME NEW z \in Mine, Run(z) PROVE Keeps(s, tree[s], tree'[s])
      <3>1. mode' = mode /\ mode # "vendor"
        BY <1>1, <2>7 DEF Run, RemoveTree, Keep, Copy, Fix, Rewrite, Unpart, WritePart, WriteRoot, RefreshReadme, Known
      <3>2. ~RemoveTree(z) /\ ~Keep(z) /\ ~Copy(z) /\ ~RefreshReadme(z)
        BY <1>1, <3>1, VendorStages DEF RemoveTree, Keep, Copy, RefreshReadme
      <3>3. Keeps(z, tree[z], tree'[z]) /\ Alone(z)
        <4>1. Fix(z) => Keeps(z, tree[z], tree'[z]) /\ Alone(z)
          BY <1>1, <3>1, FixKeepsText
        <4>2. Rewrite(z, "pattern") \/ Rewrite(z, "module") => Keeps(z, tree[z], tree'[z]) /\ Alone(z)
          BY <1>1, RewriteKeepsText
        <4>3. Unpart(z) => Keeps(z, tree[z], tree'[z]) /\ Alone(z)
          BY <1>1, <3>1, UnpartKeepsText
        <4>4. WritePart(z) => Keeps(z, tree[z], tree'[z]) /\ Alone(z)
          BY <1>1, <3>1, WritePartKeepsText
        <4>5. WriteRoot(z) => Keeps(z, tree[z], tree'[z]) /\ Alone(z)
          BY <1>1, <3>1, WriteRootKeepsText
        <4>6. QED BY <2>7, <3>2, <4>1, <4>2, <4>3, <4>4, <4>5 DEF Run
      <3>4. s \in Dirs
        BY <1>1, MineIs DEF VInv
      <3>5. CASE z # s
        BY <3>3, <3>4, <3>5 DEF Alone, Keeps
      <3>6. QED BY <3>3, <3>5
    <2>8. QED BY <1>1, <2>1, <2>2, <2>3, <2>4, <2>5, <2>6, <2>7 DEF VendorNext
  <1>2. VInv /\ [VendorNext]_vendoring =>
          [mode' # "vendor" => \A s \in Mine : \A p \in DOMAIN Live(s) :
             /\ p \in DOMAIN Live(s)'
             /\ Live(s)'[p] # Live(s)[p] => Live(s)[p][2] = "old" /\ Live(s)'[p][2] = "new"]_vendoring
    <2> SUFFICES ASSUME VInv, VendorNext, mode' # "vendor", NEW s \in Mine, NEW p \in DOMAIN Live(s)
                 PROVE  /\ p \in DOMAIN Live(s)'
                        /\ Live(s)'[p] # Live(s)[p] => Live(s)[p][2] = "old" /\ Live(s)'[p][2] = "new"
      OBVIOUS
    <2>1. Live(s) = LiveOf(s, tree[s])
      BY LiveIs
    <2>2. Live(s)' = LiveOf(s, tree'[s])
      BY LiveIs
    <2>3. Keeps(s, tree[s], tree'[s])
      BY <1>1
    <2>4. QED BY <2>1, <2>2, <2>3 DEF Keeps
  <1>3. QED BY <1>2, VInvHolds, PTL DEF VendorSpec, TextIsKept

-----------------------------------------------------------------------------
(* What happens to the text of a README.                                   *)

OnDisk(s) == readme[s] # Nil /\ readme[s].prose = "local"
InMemory == memory # Nil /\ memory.prose = "local"

LEMMA ProseIs ==
  ASSUME VInv, NEW st, NEW s, At(st, s), Prose(s), ~OnDisk(s)
  PROVE  mode = "vendor" /\ InMemory /\ readme[s] = Nil /\ (script = "lidt" \/ st \in {"remove", "keep"})
  <1>1. InMemory
    BY DEF Prose, OnDisk, InMemory
  <1>2. Held(s) /\ st \in Stage
    BY AtStage DEF Sound
  <1>3. mode = "vendor"
    BY <1>1, <1>2 DEF Held, InMemory
  <1>4. /\ st = "remove" => readme[s] \in {Nil, memory}
        /\ st # "remove" /\ (st = "keep" \/ script = "lidt") => readme[s] = Nil
        /\ st # "remove" /\ st # "keep" /\ script # "lidt" => readme[s] = memory
    BY <1>2, <1>3 DEF Held
  <1>5. readme[s] # memory
    BY <1>1 DEF OnDisk, InMemory
  <1>6. QED BY <1>1, <1>3, <1>4, <1>5

LEMMA MemoryStays ==
  ASSUME VInv, NEW st, NEW s, At(st, s), UNCHANGED Known, mode = "vendor", st # "readme", Kept \/ Done, InMemory
  PROVE  Prose(s)'
  <1>1. memory' = memory
    BY DEF Kept, Done
  <1>2. ~Idle' /\ Head(jobs')[2] = s
    <2>1. CASE Kept
      BY <2>1 DEF Kept, At, Idle
    <2>2. CASE Done
      <3>1. TypeInv /\ Queued /\ jobs' = Tail(jobs) /\ script' = script /\ mode' = mode
        BY <2>2 DEF VInv, Done, Known
      <3>2. /\ jobs' \in Seq(Stage \X Mine) /\ ~Idle'
            /\ \A x, z : At(x, z)' => z = s
        BY <3>1, DoneIs
      <3>3. Head(jobs') \in Stage \X Mine
        BY <3>2 DEF Idle
      <3>4. PICK x, z : Head(jobs') = <<x, z>>
        BY <3>3
      <3>5. At(x, z)'
        BY <3>2, <3>4 DEF At
      <3>6. z = s
        BY <3>2, <3>5
      <3>7. QED BY <3>2, <3>4, <3>6
    <2>3. QED BY <2>1, <2>2
  <1>3. QED BY <1>1, <1>2 DEF Prose, InMemory

\* Whether a step keeps the text, or loses it as it may.
Spares(s) ==
  Prose(s) => \/ Prose(s)'
              \/ readme[s] = Nil /\ result' \in IF script = "lidt" THEN {"killed", "error"} ELSE {"killed"}

LEMMA DiskIsRead ==
  ASSUME NEW s, readme'[s] = readme[s], OnDisk(s)
  PROVE  Spares(s)
  BY DEF Spares, Prose, OnDisk

LEMMA QuietStep ==
  ASSUME VInv, NEW st, NEW s, At(st, s), st \notin {"remove", "keep", "readme"}, UNCHANGED Known, UNCHANGED readme,
         Kept \/ Done \/ EndRun("error")
  PROVE  Spares(s)
  <1> SUFFICES ASSUME Prose(s), ~OnDisk(s) PROVE Spares(s)
    BY DiskIsRead DEF Spares
  <1>1. mode = "vendor" /\ InMemory /\ readme[s] = Nil /\ script = "lidt"
    BY ProseIs
  <1>2. Kept \/ Done => Prose(s)'
    BY <1>1, MemoryStays
  <1>3. EndRun("error") => result' = "error"
    BY DEF EndRun
  <1>4. QED BY <1>1, <1>2, <1>3 DEF Spares

LEMMA RunSpares ==
  ASSUME VInv, NEW s \in Mine, Run(s)
  PROVE  Spares(s)
  <1>0. Stay => Kept
    BY DEF Stay, Kept
  <1>1. CASE RemoveTree(s)
    <2> SUFFICES ASSUME Prose(s) PROVE Prose(s)'
      BY DEF Spares
    <2>1. /\ At("remove", s) /\ UNCHANGED Known
          /\ \/ UNCHANGED readme /\ (Kept \/ Done)
             \/ readme[s] # Nil /\ Kept
      BY <1>0, <1>1 DEF RemoveTree
    <2>2. mode = "vendor"
      BY <2>1, VendorStages
    <2>3. UNCHANGED readme /\ OnDisk(s) => Prose(s)'
      BY DEF OnDisk, Prose
    <2>4. readme[s] # Nil => InMemory
      <3>1. Held(s)
        BY <2>1, AtStage DEF Sound
      <3>2. readme[s] # Nil => readme[s] = memory
        BY <2>1, <2>2, <3>1 DEF Held, Stage
      <3>3. QED BY <3>2 DEF Prose, InMemory
    <2>5. ~OnDisk(s) => InMemory
      BY <2>1, ProseIs
    <2>6. InMemory /\ (Kept \/ Done) => Prose(s)'
      BY <2>1, <2>2, MemoryStays
    <2>7. QED BY <2>1, <2>3, <2>4, <2>5, <2>6
  <1>2. CASE Keep(s)
    <2> SUFFICES ASSUME Prose(s) PROVE Prose(s)'
      BY DEF Spares
    <2>1. At("keep", s) /\ readme' = [readme EXCEPT ![s] = memory]
      BY <1>2 DEF Keep
    <2>2. mode = "vendor" /\ Held(s) /\ s \in Dirs /\ TypeInv
      BY <2>1, VendorStages, AtStage DEF Sound
    <2>3. readme[s] = Nil
      BY <2>1, <2>2 DEF Held, Stage
    <2>4. InMemory
      BY <2>1, <2>3, ProseIs DEF OnDisk
    <2>5. readme'[s] = memory
      BY <2>1, <2>2 DEF TypeInv
    <2>6. QED BY <2>4, <2>5 DEF InMemory, Prose
  <1>3. CASE Copy(s)
    <2>1. At("copy", s) /\ UNCHANGED Known /\ UNCHANGED readme /\ (Kept \/ Done \/ EndRun("error"))
      BY <1>0, <1>3 DEF Copy
    <2>2. QED BY <2>1, QuietStep
  <1>4. CASE Fix(s)
    <2>1. PICK st \in {"fixOnce", "fix"} : At(st, s)
      BY <1>4 DEF Fix
    <2>2. UNCHANGED Known /\ UNCHANGED readme /\ (Kept \/ Done \/ EndRun("error"))
      BY <1>4 DEF Fix, Kept
    <2>3. QED BY <2>1, <2>2, QuietStep
  <1>5. ASSUME NEW stage \in {"pattern", "module"}, Rewrite(s, stage) PROVE Spares(s)
    <2>1. At(stage, s) /\ UNCHANGED Known /\ UNCHANGED readme /\ (Kept \/ Done)
      BY <1>0, <1>5 DEF Rewrite
    <2>2. QED BY <2>1, QuietStep
  <1>6. CASE Unpart(s)
    <2>1. At("unpart", s) /\ UNCHANGED Known /\ UNCHANGED readme /\ (Kept \/ Done)
      BY <1>0, <1>6 DEF Unpart
    <2>2. QED BY <2>1, QuietStep
  <1>7. CASE WritePart(s)
    <2>1. At("part", s) /\ UNCHANGED Known /\ UNCHANGED readme /\ (Kept \/ Done \/ EndRun("error"))
      BY <1>0, <1>7 DEF WritePart
    <2>2. QED BY <2>1, QuietStep
  <1>8. CASE WriteRoot(s)
    <2>1. At("root", s) /\ UNCHANGED Known /\ UNCHANGED readme /\ Done
      BY <1>8 DEF WriteRoot
    <2>2. QED BY <2>1, QuietStep
  <1>9. CASE RefreshReadme(s)
    <2> SUFFICES ASSUME Prose(s) PROVE Prose(s)'
      BY DEF Spares
    <2>1. PICK had : had = IF script = "lidt" THEN memory ELSE readme[s]
      OBVIOUS
    <2>2. PICK n : n = [prose |-> IF had = Nil THEN "default" ELSE had.prose, generated |-> commit]
      OBVIOUS
    <2>3. At("readme", s) /\ readme' = [readme EXCEPT ![s] = n]
      BY <1>9, <2>1, <2>2 DEF RefreshReadme
    <2>4. mode = "vendor" /\ Held(s) /\ s \in Dirs /\ TypeInv /\ commit \in Commits
      BY <2>3, VendorStages, AtStage DEF Sound
    <2>5. readme[s] = IF script = "lidt" THEN Nil ELSE memory
      BY <2>3, <2>4 DEF Held, Stage
    <2>6. had # Nil /\ had.prose = "local"
      <3>1. script = "lidt" => InMemory
        BY <2>3, <2>5, ProseIs DEF OnDisk
      <3>2. script # "lidt" => OnDisk(s)
        BY <2>3, ProseIs
      <3>3. QED BY <2>1, <3>1, <3>2 DEF InMemory, OnDisk
    <2>7. n = [prose |-> "local", generated |-> commit]
      BY <2>2, <2>6
    <2>8. n # Nil /\ n.prose = "local"
      <3>1. n \in Readme
        BY <2>4, <2>7, ReadmeIs
      <3>2. QED BY <2>7, <3>1, ReadmeIs
    <2>9. readme'[s] = n
      BY <2>3, <2>4 DEF TypeInv
    <2>10. QED BY <2>8, <2>9 DEF Prose
  <1>10. QED BY <1>1, <1>2, <1>3, <1>4, <1>5, <1>6, <1>7, <1>8, <1>9 DEF Run

\* A run at another directory.
LEMMA OthersSpare ==
  ASSUME VInv, NEW s \in Mine, NEW z \in Mine, z # s, Run(z)
  PROVE  Spares(s)
  <1>1. PICK st : At(st, z)
    BY DEF Run, RemoveTree, Keep, Copy, Fix, Rewrite, Unpart, WritePart, WriteRoot, RefreshReadme
  <1>2. Head(jobs) = <<st, z>>
    BY <1>1 DEF At
  <1>3. Prose(s) => OnDisk(s)
    BY <1>2 DEF Prose, OnDisk
  <1>4. UNCHANGED readme \/ \E n : readme' = [readme EXCEPT ![z] = n]
    BY DEF Run, RemoveTree, Keep, Copy, Fix, Rewrite, Unpart, WritePart, WriteRoot, RefreshReadme
  <1>5. readme'[s] = readme[s]
    BY <1>4, MineIs DEF VInv, TypeInv
  <1>6. QED BY <1>3, <1>5, DiskIsRead DEF Spares

LEMMA KillSpares ==
  ASSUME VInv, NEW s \in Mine, KillRun
  PROVE  Spares(s)
  <1>1. UNCHANGED readme /\ result' = "killed" /\ ~Idle
    BY DEF KillRun, EndRun
  <1>2. CASE OnDisk(s)
    BY <1>1, <1>2, DiskIsRead
  <1>3. CASE ~OnDisk(s) /\ Prose(s)
    <2>1. ~Idle /\ Head(jobs)[2] = s
      BY <1>3 DEF Prose, OnDisk
    <2>2. jobs \in Seq(Stage \X Mine) /\ jobs # <<>>
      BY <2>1 DEF VInv, TypeInv, Idle
    <2>3. Head(jobs) \in Stage \X Mine
      BY <2>2
    <2>4. PICK st : At(st, s)
      BY <2>1, <2>3 DEF At
    <2>5. readme[s] = Nil
      BY <1>3, <2>4, ProseIs
    <2>6. QED BY <1>1, <2>5 DEF Spares
  <1>4. QED BY <1>2, <1>3 DEF Spares

\* What people wrote in a README is lost by no run that ends by itself, but by
\* vendor-lidt.py where it stops with an error; only by one that is killed after it
\* removed the file.
THEOREM ReadmesAreSpared == VendorSpec => ProseIsKept
  <1>1. ASSUME VInv, VendorNext, NEW s \in Mine PROVE Spares(s)
    <2>1. CASE Idle /\ UNCHANGED readme
      <3>1. Prose(s) => OnDisk(s)
        BY <2>1 DEF Prose, OnDisk
      <3>2. QED BY <2>1, <3>1, DiskIsRead DEF Spares
    <2>2. CASE KillRun
      BY <1>1, <2>2, KillSpares
    <2>3. ASSUME NEW z \in Mine, Run(z) PROVE Spares(s)
      BY <1>1, <2>3, RunSpares, OthersSpare
    <2>4. RunReturns \/ Record => Idle /\ UNCHANGED readme
      BY DEF RunReturns, Record
    <2>5. ApplyFixes => UNCHANGED readme
      BY DEF ApplyFixes
    <2>6. \A z : Resplit(z) => UNCHANGED readme
      BY DEF Resplit
    <2>7. \A z, c : Vendor(z, c) => UNCHANGED readme
      BY DEF Vendor
    <2>8. QED BY <1>1, <2>1, <2>2, <2>3, <2>4, <2>5, <2>6, <2>7 DEF VendorNext
  <1>2. VInv /\ [VendorNext]_vendoring =>
          [\A s \in Mine : Prose(s) /\ ~Prose(s)' =>
             readme[s] = Nil /\ result' \in IF script = "lidt" THEN {"killed", "error"} ELSE {"killed"}]_vendoring
    BY <1>1 DEF Spares
  <1>3. QED BY <1>2, VInvHolds, PTL DEF VendorSpec, ProseIsKept

-----------------------------------------------------------------------------
(* modularize.py.  What a line may be, what a file is that is no module, and  *)
(* what a module is that the script leaves.                                  *)

RawKinds == Remarks \cup {"import", "code", "eval", "private", "option"}
MidKinds == {"public", "meta", "option", "blank"}
TailKinds == Remarks \cup {"code", "eval", "private", "option"}

Lines ==
  [kind : RawKinds \cup MidKinds \cup {"module", "expose", "end"},
   of : STRING \cup {"", "Bundle", "Own", "Part"}]
Of(K) == {l \in Lines : l.kind \in K}

\* The block of imports of a file that is no module, from f to before e.
Block(s, f, e) ==
  /\ f \in 1..Len(s) /\ e \in 1..(Len(s) + 1) /\ f < e
  /\ s[f].kind = "import"
  /\ \A k \in 1..(f - 1) : s[k].kind \in Remarks
  /\ \A k \in f..(e - 1) : s[k].kind \in {"import", "blank"}
  /\ \A k \in e..Len(s) : s[k].kind # "import"
  /\ e <= Len(s) => s[e].kind # "blank"

Raw(s) ==
  /\ s \in Seq(Of(RawKinds))
  /\ \A k \in 1..Len(s) : Commented(s, k) => s[k].kind \in Remarks
  /\ (\A k \in 1..Len(s) : s[k].kind # "import") \/ \E f, e : Block(s, f, e)

\* A module: remarks, "module" at m, the imports, the public section from e to the end.
Form(s, m, e) ==
  /\ s \in Seq(Lines) /\ m \in Nat /\ e \in Nat /\ 1 <= m /\ m < e /\ e < Len(s)
  /\ s[m].kind = "module" /\ s[e].kind = "expose" /\ s[Len(s)].kind = "end"
  /\ \A k \in 1..(m - 1) : s[k].kind \in Remarks
  /\ ~Commented(s, m)
  /\ \A k \in (m + 1)..(e - 1) : s[k].kind \in MidKinds
  /\ \A k \in (e + 1)..(Len(s) - 1) : s[k].kind \in TailKinds

IsForm(s) == \E m, e : Form(s, m, e)

\* The script has nothing left to do.
HasTwins(s) == RunsCode(s) => \A l \in ToSet(s) : ~Lacks(s, l)
Settled(s, ex) ==
  HasTwins(s) /\ (ex \/ ~NeedsBundle(s)) /\ \A k \in 1..Len(s) : s[k].kind # "private"

ModInv ==
  /\ spared \in BOOLEAN /\ written \in BOOLEAN
  /\ Raw(content) \/ IsForm(content)
  /\ written => IsForm(content) /\ Settled(content, spared)

-----------------------------------------------------------------------------
(* The least and the greatest of some line numbers; lines put together.     *)

LEMMA LowestIs ==
  ASSUME NEW I \in SUBSET Nat, I # {}
  PROVE  Lowest(I) \in I /\ \A j \in I : Lowest(I) <= j
  <1>1. PICK x \in I : \A j \in I : x <= j
    BY LeastExists
  <1>2. QED BY <1>1 DEF Lowest

LEMMA LowestEq ==
  ASSUME NEW I \in SUBSET Nat, NEW x \in I, \A j \in I : x <= j
  PROVE  Lowest(I) = x
  <1>1. Lowest(I) \in I /\ Lowest(I) <= x
    BY LowestIs
  <1>2. x <= Lowest(I) /\ x \in Nat /\ Lowest(I) \in Nat
    BY <1>1
  <1>3. QED BY <1>1, <1>2

LEMMA HighestIs ==
  ASSUME NEW n \in Nat, NEW I \in SUBSET (1..n), I # {}
  PROVE  Highest(I) \in I /\ \A j \in I : j <= Highest(I)
  BY GreatestExists DEF Highest

LEMMA HighestEq ==
  ASSUME NEW n \in Nat, NEW I \in SUBSET (1..n), NEW x \in I, \A j \in I : j <= x
  PROVE  Highest(I) = x
  <1>1. Highest(I) \in I /\ x <= Highest(I)
    BY HighestIs
  <1>2. Highest(I) <= x
    BY <1>1
  <1>3. x \in Int /\ Highest(I) \in Int
    <2>1. \A j \in I : j \in Int
      OBVIOUS
    <2>2. QED BY <1>1, <2>1, Zenon
  <1>4. QED BY <1>1, <1>2, <1>3

LEMMA ThreeParts ==
  ASSUME NEW S, NEW a \in Seq(S), NEW b \in Seq(S), NEW c \in Seq(S)
  PROVE  /\ a \o b \o c \in Seq(S)
         /\ Len(a \o b \o c) = Len(a) + Len(b) + Len(c)
         /\ \A k \in 1..Len(a) : (a \o b \o c)[k] = a[k]
         /\ \A k \in (Len(a) + 1)..(Len(a) + Len(b)) : (a \o b \o c)[k] = b[k - Len(a)]
         /\ \A k \in (Len(a) + Len(b) + 1)..(Len(a) + Len(b) + Len(c)) :
              (a \o b \o c)[k] = c[k - Len(a) - Len(b)]
  <1> DEFINE ab == a \o b
  <1>1. /\ ab \in Seq(S) /\ Len(ab) = Len(a) + Len(b)
        /\ \A k \in 1..Len(a) + Len(b) : ab[k] = IF k <= Len(a) THEN a[k] ELSE b[k - Len(a)]
    BY ConcatProperties, Zenon
  <1> HIDE DEF ab
  <1>b. ab \in Seq(S)
    BY <1>1
  <1>2. /\ ab \o c \in Seq(S) /\ Len(ab \o c) = Len(ab) + Len(c)
        /\ \A k \in 1..(Len(ab) + Len(c)) :
             (ab \o c)[k] = IF k <= Len(ab) THEN ab[k] ELSE c[k - Len(ab)]
    BY <1>b, ConcatProperties, Zenon
  <1>3. Len(a) \in Nat /\ Len(b) \in Nat /\ Len(c) \in Nat
    OBVIOUS
  <1>4. \A k \in 1..Len(a) : (ab \o c)[k] = a[k]
    BY <1>1, <1>2, <1>3
  <1>5. \A k \in (Len(a) + 1)..(Len(a) + Len(b)) : (ab \o c)[k] = b[k - Len(a)]
    BY <1>1, <1>2, <1>3
  <1>6. ASSUME NEW k \in (Len(a) + Len(b) + 1)..(Len(a) + Len(b) + Len(c))
        PROVE  (ab \o c)[k] = c[k - Len(a) - Len(b)]
    <2>1. k \in 1..(Len(ab) + Len(c)) /\ ~(k <= Len(ab)) /\ k - Len(ab) = k - Len(a) - Len(b)
      BY <1>1, <1>3
    <2>2. QED BY <1>2, <2>1
  <1>7. Len(ab \o c) = Len(a) + Len(b) + Len(c)
    BY <1>1, <1>2
  <1>8. QED BY <1>1, <1>2, <1>4, <1>5, <1>6, <1>7 DEF ab

LEMMA Between ==
  ASSUME NEW S, NEW s \in Seq(S), NEW p \in Nat, NEW q \in Nat, p <= q, q <= Len(s)
  PROVE  /\ SubSeq(s, p + 1, q) \in Seq(S) /\ Len(SubSeq(s, p + 1, q)) = q - p
         /\ \A k \in 1..(q - p) : SubSeq(s, p + 1, q)[k] = s[p + k]
  <1>1. \A k \in (p + 1)..q : s[k] \in S
    OBVIOUS
  <1>2. /\ SubSeq(s, p + 1, q) \in Seq(S)
        /\ Len(SubSeq(s, p + 1, q)) = IF p + 1 <= q THEN q - (p + 1) + 1 ELSE 0
        /\ \A k \in 1..(q - (p + 1) + 1) : SubSeq(s, p + 1, q)[k] = s[p + 1 + k - 1]
    BY <1>1, SubSeqProperties
  <1>3. q - (p + 1) + 1 = q - p /\ \A k \in 1..(q - p) : p + 1 + k - 1 = p + k
    OBVIOUS
  <1>4. QED BY <1>2, <1>3

LEMMA CutInThree ==
  ASSUME NEW S, NEW s \in Seq(S), NEW p \in Nat, NEW q \in Nat, p <= q, q <= Len(s)
  PROVE  s = SubSeq(s, 1, p) \o SubSeq(s, p + 1, q) \o SubSeq(s, q + 1, Len(s))
  <1> DEFINE a == SubSeq(s, 1, p)
             b == SubSeq(s, p + 1, q)
             c == SubSeq(s, q + 1, Len(s))
             n == Len(s)
  <1>0. n \in Nat /\ p <= n /\ q <= n /\ 0 + 1 = 1 /\ p - 0 = p
    OBVIOUS
  <1>1. a \in Seq(S) /\ Len(a) = p /\ \A k \in 1..p : a[k] = s[k]
    <2>1. /\ SubSeq(s, 0 + 1, p) \in Seq(S) /\ Len(SubSeq(s, 0 + 1, p)) = p - 0
          /\ \A k \in 1..(p - 0) : SubSeq(s, 0 + 1, p)[k] = s[0 + k]
      BY <1>0, Between
    <2>2. \A k \in 1..p : 0 + k = k
      OBVIOUS
    <2>3. QED BY <1>0, <2>1, <2>2
  <1>2. b \in Seq(S) /\ Len(b) = q - p /\ \A k \in 1..(q - p) : b[k] = s[p + k]
    BY Between
  <1>3. c \in Seq(S) /\ Len(c) = n - q /\ \A k \in 1..(n - q) : c[k] = s[q + k]
    BY <1>0, Between
  <1> HIDE DEF a, b, c
  <1>4. /\ a \o b \o c \in Seq(S)
        /\ Len(a \o b \o c) = Len(a) + Len(b) + Len(c)
        /\ \A k \in 1..Len(a) : (a \o b \o c)[k] = a[k]
        /\ \A k \in (Len(a) + 1)..(Len(a) + Len(b)) : (a \o b \o c)[k] = b[k - Len(a)]
        /\ \A k \in (Len(a) + Len(b) + 1)..(Len(a) + Len(b) + Len(c)) :
             (a \o b \o c)[k] = c[k - Len(a) - Len(b)]
    <2>1. a \in Seq(S) /\ b \in Seq(S) /\ c \in Seq(S)
      BY <1>1, <1>2, <1>3
    <2>2. QED BY <2>1, ThreeParts
  <1>5. Len(a \o b \o c) = n
    BY <1>0, <1>1, <1>2, <1>3, <1>4
  <1>6. ASSUME NEW k \in 1..n PROVE (a \o b \o c)[k] = s[k]
    <2>1. CASE k <= p
      BY <1>0, <1>1, <1>4, <2>1
    <2>2. CASE k > p /\ k <= q
      <3>1. k \in (Len(a) + 1)..(Len(a) + Len(b)) /\ k - p \in 1..(q - p) /\ p + (k - p) = k
        BY <1>0, <1>1, <1>2, <2>2
      <3>2. QED BY <1>1, <1>2, <1>4, <3>1
    <2>3. CASE k > q
      <3>1. /\ k \in (Len(a) + Len(b) + 1)..(Len(a) + Len(b) + Len(c))
            /\ k - Len(a) - Len(b) = k - q /\ k - q \in 1..(n - q) /\ q + (k - q) = k
        BY <1>0, <1>1, <1>2, <1>3, <2>3
      <3>2. QED BY <1>3, <1>4, <3>1
    <2>4. k \in Int
      OBVIOUS
    <2>5. k <= p \/ (k > p /\ k <= q) \/ k > q
      BY <1>0, <2>4
    <2>6. QED BY <2>1, <2>2, <2>3, <2>5
  <1>7. s = a \o b \o c
    BY <1>4, <1>5, <1>6, SeqEqual
  <1>8. QED BY <1>7 DEF a, b, c

LEMMA SameComments ==
  ASSUME NEW s, NEW t, NEW n \in Nat, \A k \in 1..(n - 1) : s[k].kind = t[k].kind
  PROVE  Commented(s, n) <=> Commented(t, n)
  <1>1. \A j \in 1..(n - 1) : \A k \in (j + 1)..(n - 1) : k \in 1..(n - 1)
    OBVIOUS
  <1>2. QED BY <1>1 DEF Commented

LEMMA Assemble ==
  ASSUME NEW a \in Seq(Lines), NEW b \in Seq(Of(MidKinds)), NEW c \in Seq(Lines),
         Len(a) >= 1, a[Len(a)].kind = "module", ~Commented(a, Len(a)),
         \A k \in 1..(Len(a) - 1) : a[k].kind \in Remarks,
         Len(c) >= 2, c[1].kind = "expose", c[Len(c)].kind = "end",
         \A k \in 2..(Len(c) - 1) : c[k].kind \in TailKinds
  PROVE  Form(a \o b \o c, Len(a), Len(a) + Len(b) + 1)
  <1> DEFINE s == a \o b \o c
             la == Len(a)
             lb == Len(b)
             lc == Len(c)
             e == la + lb + 1
  <1>0. la \in Nat /\ lb \in Nat /\ lc \in Nat /\ la >= 1 /\ lc >= 2
    OBVIOUS
  <1>1. b \in Seq(Lines) /\ \A k \in 1..lb : b[k].kind \in MidKinds
    <2>1. Of(MidKinds) \subseteq Lines /\ \A l \in Of(MidKinds) : l.kind \in MidKinds
      BY DEF Of
    <2> HIDE DEF s
    <2>2. \A k \in 1..lb : b[k] \in Of(MidKinds)
      BY ElementOfSeq
    <2>3. QED BY <2>1, <2>2
  <1>2. /\ s \in Seq(Lines)
        /\ Len(s) = la + lb + lc
        /\ \A k \in 1..la : s[k] = a[k]
        /\ \A k \in (la + 1)..(la + lb) : s[k] = b[k - la]
        /\ \A k \in (la + lb + 1)..(la + lb + lc) : s[k] = c[k - la - lb]
    <2>1. b \in Seq(Lines)
      BY <1>1
    <2>2. QED BY <2>1, ThreeParts DEF s
  <1> HIDE DEF s
  <1>3. s[la].kind = "module" /\ \A k \in 1..(la - 1) : s[k].kind \in Remarks
    <2>1. la \in 1..la /\ \A k \in 1..(la - 1) : k \in 1..la
      BY <1>0
    <2>2. QED BY <1>2, <2>1
  <1>4. ~Commented(s, la)
    <2>1. \A k \in 1..(la - 1) : k \in 1..la
      BY <1>0
    <2>2. \A k \in 1..(la - 1) : s[k].kind = a[k].kind
      BY <1>2, <2>1
    <2>3. QED BY <1>0, <2>2, SameComments
  <1>5. ASSUME NEW k \in (la + 1)..(e - 1) PROVE s[k].kind \in MidKinds
    <2>1. k \in (la + 1)..(la + lb) /\ k - la \in 1..lb
      BY <1>0
    <2>2. QED BY <1>1, <1>2, <2>1
  <1>6. s[e].kind = "expose" /\ s[Len(s)].kind = "end"
    <2>1. e \in (la + lb + 1)..(la + lb + lc) /\ e - la - lb = 1
      BY <1>0
    <2>2. Len(s) \in (la + lb + 1)..(la + lb + lc) /\ Len(s) - la - lb = lc
      BY <1>0, <1>2
    <2>3. QED BY <1>2, <2>1, <2>2
  <1>7. ASSUME NEW k \in (e + 1)..(Len(s) - 1) PROVE s[k].kind \in TailKinds
    <2>1. k \in (la + lb + 1)..(la + lb + lc) /\ k - la - lb \in 2..(lc - 1)
      BY <1>0, <1>2
    <2>2. QED BY <1>2, <2>1
  <1>8. e \in Nat /\ la < e /\ e < Len(s)
    BY <1>0, <1>2
  <1>9. QED BY <1>0, <1>2, <1>3, <1>4, <1>5, <1>6, <1>7, <1>8 DEF Form, s

-----------------------------------------------------------------------------
(* Sequences of sequences, put together.                                    *)

\* What FlattenSeq computes on the first n of some sequences.
IsFlat(f, ss, n) == f = [k \in 1..n |-> IF k = 1 THEN ss[k] ELSE f[k - 1] \o ss[k]]

LEMMA FlatExists ==
  ASSUME NEW ss, NEW n \in Nat
  PROVE  \E f : IsFlat(f, ss, n)
  <1> DEFINE S == {m \in Nat : ~\E f : IsFlat(f, ss, m)}
  <1>1. \E f : IsFlat(f, ss, 0)
    <2>1. IsFlat([k \in 1..0 |-> ss[k]], ss, 0)
      BY DEF IsFlat
    <2>2. QED BY <2>1
  <1>2. ASSUME NEW m \in Nat, NEW f, IsFlat(f, ss, m) PROVE \E g : IsFlat(g, ss, m + 1)
    <2> DEFINE g == [k \in 1..(m + 1) |-> IF k = 1 THEN ss[k] ELSE IF k = m + 1 THEN f[m] \o ss[k] ELSE f[k]]
    <2>1. \A k \in 1..m : f[k] = IF k = 1 THEN ss[k] ELSE f[k - 1] \o ss[k]
      BY <1>2 DEF IsFlat
    <2>2. ASSUME NEW k \in 1..(m + 1) PROVE g[k] = IF k = 1 THEN ss[k] ELSE g[k - 1] \o ss[k]
      <3>1. CASE k = 1
        BY <3>1
      <3>2. CASE k # 1 /\ k = m + 1
        <4>1. m \in 1..(m + 1) /\ m # m + 1 /\ k - 1 = m /\ m \in 1..m
          BY <3>2
        <4>2. g[m] = f[m]
          BY <2>1, <4>1
        <4>3. QED BY <3>2, <4>1, <4>2
      <3>3. CASE k # 1 /\ k # m + 1
        <4>1. k \in 1..m /\ k - 1 \in 1..m /\ k - 1 \in 1..(m + 1) /\ k - 1 # m + 1
          BY <3>3
        <4>2. g[k - 1] = f[k - 1] /\ g[k] = f[k]
          BY <2>1, <3>3, <4>1
        <4>3. QED BY <2>1, <3>3, <4>1, <4>2
      <3>4. QED BY <3>1, <3>2, <3>3
    <2>3. g = [k \in 1..(m + 1) |-> g[k]]
      OBVIOUS
    <2> HIDE DEF g
    <2>4. g = [k \in 1..(m + 1) |-> IF k = 1 THEN ss[k] ELSE g[k - 1] \o ss[k]]
      BY <2>2, <2>3
    <2>5. QED BY <2>4 DEF IsFlat
  <1>3. S = {}
    <2> SUFFICES ASSUME S # {} PROVE FALSE
      OBVIOUS
    <2>1. PICK x \in S : \A y \in S : x <= y
      BY LeastExists
    <2>2. x # 0
      BY <1>1, <2>1
    <2>3. x - 1 \in Nat /\ x - 1 \notin S
      BY <2>1, <2>2
    <2>4. \E f : IsFlat(f, ss, x - 1 + 1)
      BY <1>2, <2>3
    <2>5. x - 1 + 1 = x
      BY <2>1
    <2>6. QED BY <2>1, <2>4, <2>5
  <1>4. QED BY <1>3

LEMMA FlattenIs ==
  ASSUME NEW ss, Len(ss) \in Nat, Len(ss) > 0
  PROVE  \E f : IsFlat(f, ss, Len(ss)) /\ FlattenSeq(ss) = f[Len(ss)]
  <1> DEFINE f == CHOOSE f : IsFlat(f, ss, Len(ss))
  <1>1. IsFlat(f, ss, Len(ss))
    BY FlatExists
  <1>2. FlattenSeq(ss) = f[Len(ss)]
    BY DEF FlattenSeq, IsFlat
  <1>3. QED BY <1>1, <1>2

LEMMA FlattenNothing == FlattenSeq(<<>>) = <<>>
  BY DEF FlattenSeq

LEMMA FlattenType ==
  ASSUME NEW S, NEW ss \in Seq(Seq(S))
  PROVE  FlattenSeq(ss) \in Seq(S)
  <1>1. Len(ss) \in Nat /\ \A k \in 1..Len(ss) : ss[k] \in Seq(S)
    OBVIOUS
  <1>2. CASE ss = <<>>
    BY <1>2, FlattenNothing, EmptySeq
  <1>3. CASE ss # <<>>
    <2>1. Len(ss) > 0
      BY <1>3
    <2>2. PICK f : IsFlat(f, ss, Len(ss)) /\ FlattenSeq(ss) = f[Len(ss)]
      BY <1>1, <2>1, FlattenIs
    <2>3. \A k \in 1..Len(ss) : f[k] = IF k = 1 THEN ss[k] ELSE f[k - 1] \o ss[k]
      BY <2>2 DEF IsFlat
    <2> DEFINE Bad == {k \in 1..Len(ss) : f[k] \notin Seq(S)}
    <2>4. Bad = {}
      <3> SUFFICES ASSUME Bad # {} PROVE FALSE
        OBVIOUS
      <3>1. PICK x \in Bad : \A y \in Bad : x <= y
        <4>1. Bad \in SUBSET Nat
          OBVIOUS
        <4> HIDE DEF Bad
        <4>2. QED BY <4>1, LeastExists
      <3>2. x \in 1..Len(ss) /\ f[x] \notin Seq(S)
        OBVIOUS
      <3>3. x # 1
        BY <1>1, <2>3, <3>2
      <3>4. x - 1 \in 1..Len(ss) /\ x - 1 \notin Bad
        BY <3>1, <3>2, <3>3
      <3>5. f[x - 1] \in Seq(S) /\ ss[x] \in Seq(S) /\ f[x] = f[x - 1] \o ss[x]
        BY <1>1, <2>3, <3>2, <3>3, <3>4
      <3>6. QED BY <3>2, <3>5, ConcatProperties
    <2>5. QED BY <1>1, <2>1, <2>2, <2>4
  <1>4. QED BY <1>2, <1>3

LEMMA FlattenMore ==
  ASSUME NEW S, NEW ss \in Seq(Seq(S)), NEW e \in Seq(S)
  PROVE  FlattenSeq(Append(ss, e)) = FlattenSeq(ss) \o e
  <1> DEFINE tt == Append(ss, e)
             n == Len(ss)
  <1>1. /\ n \in Nat /\ Len(tt) = n + 1 /\ tt[n + 1] = e
        /\ \A k \in 1..n : tt[k] = ss[k]
    OBVIOUS
  <1> HIDE DEF tt
  <1>2. PICK g : IsFlat(g, tt, n + 1) /\ FlattenSeq(tt) = g[n + 1]
    BY <1>1, FlattenIs
  <1>3. \A k \in 1..(n + 1) : g[k] = IF k = 1 THEN tt[k] ELSE g[k - 1] \o tt[k]
    BY <1>2 DEF IsFlat
  <1>4. CASE n = 0
    <2>1. g[1] = e
      BY <1>1, <1>3, <1>4
    <2>2. FlattenSeq(ss) = <<>>
      <3>1. ss = <<>>
        BY <1>4
      <3>2. QED BY <3>1, FlattenNothing
    <2>3. <<>> \o e = e
      BY ConcatEmptySeq
    <2>4. QED BY <1>2, <1>4, <2>1, <2>2, <2>3 DEF tt
  <1>5. CASE n # 0
    <2>1. PICK f : IsFlat(f, ss, n) /\ FlattenSeq(ss) = f[n]
      <3>1. n > 0
        BY <1>1, <1>5
      <3>2. QED BY <1>1, <3>1, FlattenIs
    <2>2. \A k \in 1..n : f[k] = IF k = 1 THEN ss[k] ELSE f[k - 1] \o ss[k]
      BY <2>1 DEF IsFlat
    <2> DEFINE Bad == {k \in 1..n : f[k] # g[k]}
    <2>3. Bad = {}
      <3> SUFFICES ASSUME Bad # {} PROVE FALSE
        OBVIOUS
      <3>1. PICK x \in Bad : \A y \in Bad : x <= y
        <4>1. Bad \in SUBSET Nat
          OBVIOUS
        <4> HIDE DEF Bad
        <4>2. QED BY <4>1, LeastExists
      <3>2. x \in 1..n /\ x \in 1..(n + 1) /\ f[x] # g[x]
        BY <1>1
      <3>3. x # 1
        BY <1>1, <1>3, <2>2, <3>2
      <3>4. x - 1 \in 1..n /\ x - 1 \notin Bad
        BY <1>1, <3>1, <3>2, <3>3
      <3>5. f[x - 1] = g[x - 1]
        BY <3>4
      <3>6. f[x] = f[x - 1] \o ss[x] /\ g[x] = g[x - 1] \o ss[x]
        BY <1>1, <1>3, <2>2, <3>2, <3>3
      <3>7. QED BY <3>2, <3>5, <3>6
    <2>4. f[n] = g[n]
      <3>1. n \in 1..n
        BY <1>1, <1>5
      <3>2. n \notin Bad
        BY <2>3
      <3>3. QED BY <3>1, <3>2
    <2>5. g[n + 1] = g[n] \o e
      <3> DEFINE m == n + 1
      <3>1. m \in 1..(n + 1) /\ m # 1 /\ m - 1 = n
        BY <1>1, <1>5
      <3>2. tt[m] = e
        BY <1>1
      <3> HIDE DEF m
      <3>3. g[m] = g[m - 1] \o e
        BY <1>3, <3>1, <3>2
      <3>4. QED BY <3>1, <3>3 DEF m
    <2>6. QED BY <1>2, <2>1, <2>4, <2>5 DEF tt
  <1>6. QED BY <1>4, <1>5

LEMMA FlattenJoin ==
  ASSUME NEW S, NEW ss \in Seq(Seq(S)), NEW tt \in Seq(Seq(S))
  PROVE  FlattenSeq(ss \o tt) = FlattenSeq(ss) \o FlattenSeq(tt)
  <1> DEFINE Bad == {n \in Nat : \E uu \in Seq(Seq(S)) :
                       Len(uu) = n /\ FlattenSeq(ss \o uu) # FlattenSeq(ss) \o FlattenSeq(uu)}
  <1>1. Bad = {}
    <2> SUFFICES ASSUME Bad # {} PROVE FALSE
      OBVIOUS
    <2>1. PICK x \in Bad : \A y \in Bad : x <= y
      <3>1. Bad \in SUBSET Nat
        OBVIOUS
      <3> HIDE DEF Bad
      <3>2. QED BY <3>1, LeastExists
    <2>2. PICK uu \in Seq(Seq(S)) :
            Len(uu) = x /\ FlattenSeq(ss \o uu) # FlattenSeq(ss) \o FlattenSeq(uu)
      BY <2>1
    <2>3. FlattenSeq(ss) \in Seq(S)
      BY FlattenType
    <2>4. uu # <<>>
      <3> SUFFICES ASSUME uu = <<>> PROVE FALSE
        OBVIOUS
      <3>1. ss \o uu = ss
        BY ConcatEmptySeq
      <3>2. FlattenSeq(ss) \o <<>> = FlattenSeq(ss)
        BY <2>3, ConcatEmptySeq
      <3>3. QED BY <2>2, <3>1, <3>2, FlattenNothing
    <2>5. PICK vv \in Seq(Seq(S)), e \in Seq(S) : uu = Append(vv, e)
      BY <2>4, SequenceEmptyOrAppend
    <2>6. Len(vv) \in Nat /\ Len(uu) = Len(vv) + 1
      BY <2>5
    <2>7. FlattenSeq(ss \o vv) = FlattenSeq(ss) \o FlattenSeq(vv)
      <3>1. Len(vv) \notin Bad
        <4> HIDE DEF Bad
        <4>1. QED BY <2>1, <2>2, <2>6
      <3>2. QED BY <2>6, <3>1
    <2>8. ss \o uu = Append(ss \o vv, e) /\ ss \o vv \in Seq(Seq(S))
      <3> DEFINE T == Seq(S)
      <3>1. ss \in Seq(T) /\ vv \in Seq(T) /\ e \in T
        OBVIOUS
      <3> HIDE DEF T, Bad
      <3>2. <<e>> \in Seq(T)
        BY <3>1
      <3>3. uu = vv \o <<e>>
        BY <2>5, <3>1, AppendIsConcat
      <3>4. ss \o vv \in Seq(T)
        BY <3>1, ConcatProperties
      <3>5. ss \o (vv \o <<e>>) = (ss \o vv) \o <<e>>
        BY <3>1, <3>2, ConcatAssociative
      <3>6. (ss \o vv) \o <<e>> = Append(ss \o vv, e)
        BY <3>1, <3>4, AppendIsConcat
      <3>7. QED BY <3>3, <3>4, <3>5, <3>6 DEF T
    <2>9. FlattenSeq(ss \o uu) = (FlattenSeq(ss) \o FlattenSeq(vv)) \o e
      BY <2>7, <2>8, FlattenMore
    <2>10. FlattenSeq(uu) = FlattenSeq(vv) \o e /\ FlattenSeq(vv) \in Seq(S)
      BY <2>5, FlattenMore, FlattenType
    <2>11. (FlattenSeq(ss) \o FlattenSeq(vv)) \o e = FlattenSeq(ss) \o (FlattenSeq(vv) \o e)
      <3> DEFINE x1 == FlattenSeq(ss)
                 x2 == FlattenSeq(vv)
      <3>1. x1 \in Seq(S) /\ x2 \in Seq(S) /\ e \in Seq(S)
        BY <2>3, <2>10
      <3> HIDE DEF x1, x2, Bad
      <3>2. (x1 \o x2) \o e = x1 \o (x2 \o e)
        BY <3>1, ConcatAssociative, SMTT(30)
      <3>3. QED BY <3>2 DEF x1, x2
    <2>12. QED BY <2>2, <2>9, <2>10, <2>11
  <1>2. Len(tt) \in Nat /\ Len(tt) \notin Bad
    <2> HIDE DEF Bad
    <2>1. QED BY <1>1
  <1>3. QED BY <1>2

LEMMA SetOf ==
  ASSUME NEW S, NEW t \in Seq(S)
  PROVE  \A l : l \in ToSet(t) <=> \E k \in 1..Len(t) : l = t[k]
  <1>1. DOMAIN t = 1..Len(t)
    OBVIOUS
  <1>2. QED BY <1>1 DEF ToSet

LEMMA SetOfJoin ==
  ASSUME NEW S, NEW a \in Seq(S), NEW b \in Seq(S)
  PROVE  \A l : l \in ToSet(a \o b) <=> l \in ToSet(a) \/ l \in ToSet(b)
  <1>1. /\ Len(a) \in Nat /\ Len(b) \in Nat /\ Len(a \o b) = Len(a) + Len(b)
        /\ \A k \in 1..(Len(a) + Len(b)) :
             (a \o b)[k] = IF k <= Len(a) THEN a[k] ELSE b[k - Len(a)]
    OBVIOUS
  <1>2. \A t \in Seq(S) : \A l : l \in ToSet(t) <=> \E k \in 1..Len(t) : l = t[k]
    BY SetOf
  <1>3. a \o b \in Seq(S)
    BY ConcatProperties
  <1>4. ASSUME NEW l, l \in ToSet(a \o b) PROVE l \in ToSet(a) \/ l \in ToSet(b)
    <2>1. PICK k \in 1..(Len(a) + Len(b)) : l = (a \o b)[k]
      <3>1. \E k \in 1..Len(a \o b) : l = (a \o b)[k]
        BY <1>2, <1>3, <1>4
      <3>2. QED BY <1>1, <3>1, Zenon
    <2>2. CASE k <= Len(a)
      <3>1. k \in 1..Len(a) /\ l = a[k]
        BY <1>1, <2>1, <2>2
      <3>2. QED BY <1>2, <3>1
    <2>3. CASE ~(k <= Len(a))
      <3>1. k - Len(a) \in 1..Len(b) /\ l = b[k - Len(a)]
        BY <1>1, <2>1, <2>3
      <3>2. QED BY <1>2, <3>1
    <2>4. QED BY <2>2, <2>3
  <1>5. ASSUME NEW l, l \in ToSet(a) PROVE l \in ToSet(a \o b)
    <2>1. PICK k \in 1..Len(a) : l = a[k]
      BY <1>2, <1>5
    <2>2. k \in 1..Len(a \o b) /\ l = (a \o b)[k]
      BY <1>1, <2>1
    <2>3. QED BY <1>2, <1>3, <2>2
  <1>6. ASSUME NEW l, l \in ToSet(b) PROVE l \in ToSet(a \o b)
    <2>1. PICK k \in 1..Len(b) : l = b[k]
      BY <1>2, <1>6
    <2>2. Len(a) + k \in 1..(Len(a) + Len(b)) /\ ~(Len(a) + k <= Len(a)) /\ Len(a) + k - Len(a) = k
      BY <1>1
    <2>3. Len(a) + k \in 1..Len(a \o b) /\ l = (a \o b)[Len(a) + k]
      BY <1>1, <2>1, <2>2
    <2>4. QED BY <1>2, <1>3, <2>3
  <1>7. QED BY <1>4, <1>5, <1>6

LEMMA FlattenHas ==
  ASSUME NEW S, NEW ss \in Seq(Seq(S))
  PROVE  \A l : l \in ToSet(FlattenSeq(ss)) <=> \E k \in 1..Len(ss) : l \in ToSet(ss[k])
  <1> DEFINE Flattens(uu) ==
               \A l : l \in ToSet(FlattenSeq(uu)) <=> \E k \in 1..Len(uu) : l \in ToSet(uu[k])
             Bad == {n \in Nat : \E uu \in Seq(Seq(S)) : Len(uu) = n /\ ~Flattens(uu)}
  <1>1. Bad = {}
    <2> SUFFICES ASSUME Bad # {} PROVE FALSE
      OBVIOUS
    <2>1. PICK x \in Bad : \A y \in Bad : x <= y
      <3>1. Bad \in SUBSET Nat
        OBVIOUS
      <3> HIDE DEF Bad
      <3>2. QED BY <3>1, LeastExists
    <2> HIDE DEF Flattens
    <2>2. PICK uu \in Seq(Seq(S)) : Len(uu) = x /\ ~Flattens(uu)
      BY <2>1
    <2>3. uu # <<>>
      <3> SUFFICES ASSUME uu = <<>> PROVE FALSE
        OBVIOUS
      <3>1. FlattenSeq(uu) = <<>> /\ Len(uu) = 0
        BY FlattenNothing
      <3>2. ToSet(FlattenSeq(uu)) = {}
        BY <3>1 DEF ToSet
      <3>3. QED BY <2>2, <3>1, <3>2 DEF Flattens
    <2>4. PICK vv \in Seq(Seq(S)), e \in Seq(S) : uu = Append(vv, e)
      BY <2>3, SequenceEmptyOrAppend
    <2>5. /\ Len(vv) \in Nat /\ Len(uu) = Len(vv) + 1 /\ uu[Len(vv) + 1] = e
          /\ \A k \in 1..Len(vv) : uu[k] = vv[k]
      BY <2>4, AppendProperties
    <2>6. Flattens(vv)
      <3>1. Len(vv) \notin Bad
        <4> HIDE DEF Bad
        <4>1. QED BY <2>1, <2>2, <2>5
      <3>2. QED BY <2>5, <3>1
    <2>7. FlattenSeq(uu) = FlattenSeq(vv) \o e /\ FlattenSeq(vv) \in Seq(S)
      BY <2>4, FlattenMore, FlattenType
    <2>8. \A l : l \in ToSet(FlattenSeq(uu)) <=> l \in ToSet(FlattenSeq(vv)) \/ l \in ToSet(e)
      BY <2>7, SetOfJoin
    <2>9. \A l : (\E k \in 1..Len(uu) : l \in ToSet(uu[k]))
                  <=> (\E k \in 1..Len(vv) : l \in ToSet(vv[k])) \/ l \in ToSet(e)
      <3>1. \A k : k \in 1..Len(uu) <=> k \in 1..Len(vv) \/ k = Len(vv) + 1
        <4> DEFINE n == Len(vv)
        <4>1. n \in Nat /\ Len(uu) = n + 1
          BY <2>5
        <4> HIDE DEF n
        <4>2. \A k : k \in 1..(n + 1) <=> k \in 1..n \/ k = n + 1
          BY <4>1
        <4>3. QED BY <4>1, <4>2 DEF n
      <3>2. QED BY <2>5, <3>1, Zenon
    <2>10. Flattens(uu)
      BY <2>6, <2>8, <2>9, Zenon DEF Flattens
    <2>11. QED BY <2>2, <2>10
  <1>2. Len(ss) \in Nat /\ Len(ss) \notin Bad
    BY <1>1
  <1>3. QED BY <1>2

LEMMA FlattenOnes ==
  ASSUME NEW S, NEW s \in Seq(S)
  PROVE  FlattenSeq([k \in 1..Len(s) |-> <<s[k]>>]) = s
  <1> DEFINE Ones(t) == [k \in 1..Len(t) |-> <<t[k]>>]
             Bad == {n \in Nat : \E t \in Seq(S) : Len(t) = n /\ FlattenSeq(Ones(t)) # t}
  <1>0. ASSUME NEW t \in Seq(S) PROVE Ones(t) \in Seq(Seq(S)) /\ Len(Ones(t)) = Len(t)
    <2>1. Len(t) \in Nat /\ \A k \in 1..Len(t) : <<t[k]>> \in Seq(S)
      OBVIOUS
    <2>2. Ones(t) \in [1..Len(t) -> Seq(S)]
      BY <2>1
    <2>3. QED BY <2>1, <2>2
  <1>1. Bad = {}
    <2> SUFFICES ASSUME Bad # {} PROVE FALSE
      OBVIOUS
    <2>1. PICK x \in Bad : \A y \in Bad : x <= y
      <3>1. Bad \in SUBSET Nat
        OBVIOUS
      <3> HIDE DEF Bad
      <3>2. QED BY <3>1, LeastExists
    <2>2. PICK t \in Seq(S) : Len(t) = x /\ FlattenSeq(Ones(t)) # t
      BY <2>1
    <2>3. t # <<>>
      <3> SUFFICES ASSUME t = <<>> PROVE FALSE
        OBVIOUS
      <3>1. Ones(t) = <<>>
        OBVIOUS
      <3>2. QED BY <2>2, <3>1, FlattenNothing
    <2>4. PICK u \in Seq(S), l \in S : t = Append(u, l)
      BY <2>3, SequenceEmptyOrAppend
    <2>5. /\ Len(u) \in Nat /\ Len(t) = Len(u) + 1 /\ t[Len(u) + 1] = l
          /\ \A k \in 1..Len(u) : t[k] = u[k]
      BY <2>4, AppendProperties
    <2>6. FlattenSeq(Ones(u)) = u
      <3> HIDE DEF Ones
      <3>1. QED BY <2>1, <2>2, <2>5
    <2>7. Ones(t) = Append(Ones(u), <<l>>)
      <3>1. Ones(u) \in Seq(Seq(S)) /\ Len(Ones(u)) = Len(u) /\ <<l>> \in Seq(S)
        BY <1>0
      <3>2. Ones(t) \in Seq(Seq(S)) /\ Len(Ones(t)) = Len(u) + 1
        BY <1>0, <2>5
      <3>3. /\ Append(Ones(u), <<l>>) \in Seq(Seq(S))
            /\ Len(Append(Ones(u), <<l>>)) = Len(u) + 1
            /\ \A k \in 1..Len(u) : Append(Ones(u), <<l>>)[k] = Ones(u)[k]
            /\ Append(Ones(u), <<l>>)[Len(u) + 1] = <<l>>
        <4> HIDE DEF Ones
        <4>1. QED BY <3>1, AppendProperties
      <3>4. \A k \in 1..(Len(u) + 1) : Ones(t)[k] = <<t[k]>>
        BY <2>5
      <3>5. \A k \in 1..Len(u) : Ones(u)[k] = <<u[k]>>
        OBVIOUS
      <3> HIDE DEF Ones
      <3>6. ASSUME NEW k \in 1..(Len(u) + 1) PROVE Ones(t)[k] = Append(Ones(u), <<l>>)[k]
        <4>1. k \in 1..Len(u) \/ k = Len(u) + 1
          BY <2>5
        <4>2. QED BY <2>5, <3>3, <3>4, <3>5, <4>1
      <3>7. QED BY <3>2, <3>3, <3>6, SeqEqual
    <2>8. Ones(u) \in Seq(Seq(S)) /\ <<l>> \in Seq(S)
      BY <1>0
    <2> HIDE DEF Ones
    <2>9. FlattenSeq(Ones(t)) = u \o <<l>>
      BY <2>6, <2>7, <2>8, FlattenMore
    <2>10. u \o <<l>> = t
      BY <2>4, AppendIsConcat
    <2>11. QED BY <2>2, <2>9, <2>10
  <1>2. Len(s) \in Nat /\ Len(s) \notin Bad
    BY <1>1
  <1>3. QED BY <1>2

-----------------------------------------------------------------------------
(* A module of the script's: what is where.                                 *)

LEMMA FormCases ==
  ASSUME NEW s, NEW m, NEW e, Form(s, m, e), NEW k \in 1..Len(s)
  PROVE  \/ k < m /\ s[k].kind \in Remarks
         \/ k = m /\ s[k].kind = "module"
         \/ m < k /\ k < e /\ s[k].kind \in MidKinds
         \/ k = e /\ s[k].kind = "expose"
         \/ e < k /\ k < Len(s) /\ s[k].kind \in TailKinds
         \/ k = Len(s) /\ s[k].kind = "end"
  <1>1. /\ m \in Nat /\ e \in Nat /\ Len(s) \in Nat /\ 1 <= m /\ m < e /\ e < Len(s)
    BY DEF Form
  <1>2. \/ k \in 1..(m - 1) \/ k = m \/ k \in (m + 1)..(e - 1) \/ k = e
        \/ k \in (e + 1)..(Len(s) - 1) \/ k = Len(s)
    BY <1>1
  <1>3. CASE k \in 1..(m - 1)
    BY <1>1, <1>3 DEF Form
  <1>4. CASE k = m
    BY <1>4 DEF Form
  <1>5. CASE k \in (m + 1)..(e - 1)
    BY <1>1, <1>5 DEF Form
  <1>6. CASE k = e
    BY <1>6 DEF Form
  <1>7. CASE k \in (e + 1)..(Len(s) - 1)
    BY <1>1, <1>7 DEF Form
  <1>8. CASE k = Len(s)
    BY <1>8 DEF Form
  <1>9. QED BY <1>2, <1>3, <1>4, <1>5, <1>6, <1>7, <1>8

LEMMA FormKinds ==
  ASSUME NEW s, NEW m, NEW e, Form(s, m, e)
  PROVE  /\ Kinds(s, {"module"}) = {m} /\ Kinds(s, {"expose"}) = {e} /\ Kinds(s, {"end"}) = {Len(s)}
         /\ Kinds(s, {"import"}) = {}
         /\ \A k \in Kinds(s, Imports) : m < k /\ k < e
         /\ \A k \in Kinds(s, {"code", "eval", "private"}) : e < k /\ k < Len(s)
  <1> USE DEF Kinds, Imports, Remarks, Comments, MidKinds, TailKinds
  <1>0. m \in 1..Len(s) /\ e \in 1..Len(s) /\ Len(s) \in 1..Len(s)
    BY DEF Form
  <1>1. Kinds(s, {"module"}) = {m}
    BY <1>0, FormCases DEF Form
  <1>2. Kinds(s, {"expose"}) = {e}
    BY <1>0, FormCases DEF Form
  <1>3. Kinds(s, {"end"}) = {Len(s)}
    BY <1>0, FormCases DEF Form
  <1>4. Kinds(s, {"import"}) = {}
    BY FormCases
  <1>5. \A k \in Kinds(s, Imports) : m < k /\ k < e
    BY FormCases
  <1>6. \A k \in Kinds(s, {"code", "eval", "private"}) : e < k /\ k < Len(s)
    BY FormCases
  <1>7. QED BY <1>1, <1>2, <1>3, <1>4, <1>5, <1>6

LEMMA FormIsModule ==
  ASSUME NEW s, NEW m, NEW e, Form(s, m, e)
  PROVE  is_module(s)
  <1>1. m \in 1..Len(s) /\ s[m].kind = "module" /\ ~Commented(s, m) /\ m \in Nat
    BY DEF Form
  <1>2. m \in Contents(s)
    BY <1>1 DEF Contents, IsBlank, Comments
  <1>3. Contents(s) \in SUBSET Nat
    BY DEF Contents
  <1>4. ASSUME NEW k \in Contents(s), k < m PROVE FALSE
    <2>1. k \in 1..(m - 1) /\ s[k].kind \notin Comments /\ s[k].kind # "blank"
      BY <1>1, <1>4 DEF Contents, IsBlank
    <2>2. s[k].kind \in Remarks
      BY <2>1 DEF Form
    <2>3. QED BY <2>1, <2>2 DEF Remarks
  <1>5. \A k \in Contents(s) : m <= k
    BY <1>1, <1>3, <1>4
  <1>6. Lowest(Contents(s)) = m
    BY <1>2, <1>3, <1>5, LowestEq
  <1>7. QED BY <1>1, <1>2, <1>6 DEF is_module

\* The lines up to "module", those up to the public section, and the rest.
Sections(s, m, e, a, b, c) ==
  /\ a \in Seq(Lines) /\ b \in Seq(Of(MidKinds)) /\ c \in Seq(Lines)
  /\ s = a \o b \o c
  /\ Len(a) = m /\ Len(b) = e - 1 - m /\ Len(c) = Len(s) - (e - 1)
  /\ \A k \in 1..m : a[k] = s[k]
  /\ \A k \in 1..(Len(s) - (e - 1)) : c[k] = s[e - 1 + k]

LEMMA FormParts ==
  ASSUME NEW s, NEW m, NEW e, Form(s, m, e)
  PROVE  \E a, b, c : Sections(s, m, e, a, b, c)
  <1> DEFINE a == SubSeq(s, 1, m)
             b == SubSeq(s, m + 1, e - 1)
             c == SubSeq(s, e, Len(s))
             q == e - 1
  <1>1. /\ s \in Seq(Lines) /\ m \in Nat /\ e \in Nat /\ q \in Nat /\ m <= q /\ q <= Len(s)
        /\ Len(s) \in Nat /\ q + 1 = e /\ Len(s) <= Len(s) /\ m <= Len(s)
    BY DEF Form
  <1>2. s = SubSeq(s, 1, m) \o SubSeq(s, m + 1, q) \o SubSeq(s, q + 1, Len(s))
    BY <1>1, CutInThree
  <1>3. a \in Seq(Lines) /\ Len(a) = m /\ \A k \in 1..m : a[k] = s[k]
    <2>1. /\ SubSeq(s, 0 + 1, m) \in Seq(Lines) /\ Len(SubSeq(s, 0 + 1, m)) = m - 0
          /\ \A k \in 1..(m - 0) : SubSeq(s, 0 + 1, m)[k] = s[0 + k]
      BY <1>1, Between
    <2>2. 0 + 1 = 1 /\ m - 0 = m /\ \A k \in 1..m : 0 + k = k
      BY <1>1
    <2>3. QED BY <2>1, <2>2
  <1>4. /\ b \in Seq(Lines) /\ Len(b) = q - m
        /\ \A k \in 1..(q - m) : b[k] = s[m + k]
    BY <1>1, Between
  <1>5. c \in Seq(Lines) /\ Len(c) = Len(s) - q /\ \A k \in 1..(Len(s) - q) : c[k] = s[q + k]
    <2>1. /\ SubSeq(s, q + 1, Len(s)) \in Seq(Lines) /\ Len(SubSeq(s, q + 1, Len(s))) = Len(s) - q
          /\ \A k \in 1..(Len(s) - q) : SubSeq(s, q + 1, Len(s))[k] = s[q + k]
      BY <1>1, Between
    <2>2. QED BY <1>1, <2>1
  <1> HIDE DEF b
  <1>6. b \in Seq(Of(MidKinds))
    <2>1. ASSUME NEW k \in 1..Len(b) PROVE b[k] \in Of(MidKinds)
      <3>1. m + k \in (m + 1)..(e - 1) /\ b[k] = s[m + k] /\ b[k] \in Lines
        BY <1>1, <1>4
      <3>2. s[m + k].kind \in MidKinds
        BY <3>1 DEF Form
      <3>3. QED BY <3>1, <3>2 DEF Of
    <2>2. b \in [1..Len(b) -> Of(MidKinds)] /\ Len(b) \in Nat
      BY <1>1, <1>4, <2>1
    <2>3. QED BY <2>2
  <1> HIDE DEF a, c
  <1>7. s = a \o b \o c
    BY <1>1, <1>2 DEF a, b, c
  <1>8. Len(b) = e - 1 - m /\ Len(c) = Len(s) - (e - 1) /\ \A k \in 1..(Len(s) - (e - 1)) : c[k] = s[e - 1 + k]
    BY <1>4, <1>5
  <1>9. Sections(s, m, e, a, b, c)
    BY <1>3, <1>5, <1>6, <1>7, <1>8 DEF Sections
  <1>10. QED BY <1>9

-----------------------------------------------------------------------------
(* The twins of ensure_meta_twins, for the lines s of a file t.             *)

Pairs(t, s) == [k \in 1..Len(s) |-> IF Lacks(t, s[k]) THEN <<s[k], Twin(s[k])>> ELSE <<s[k]>>]
TwinsOf(t, s) == FlattenSeq(Pairs(t, s))

LEMMA TwinIs ==
  ASSUME NEW K, "meta" \in K, NEW l \in Of(K)
  PROVE  Twin(l) \in Of(K) /\ Twin(l).kind = "meta" /\ Twin(l).of = l.of
  <1>1. l \in Lines
    BY DEF Of
  <1>2. l.of \in STRING \cup {"", "Bundle", "Own", "Part"}
    BY <1>1 DEF Lines
  <1>3. Twin(l) = [kind |-> "meta", of |-> l.of]
    BY DEF Twin, Import
  <1>4. Twin(l) \in Lines
    <2>1. "meta" \in RawKinds \cup MidKinds \cup {"module", "expose", "end"}
      BY DEF MidKinds
    <2> DEFINE A == RawKinds \cup MidKinds \cup {"module", "expose", "end"}
               B == STRING \cup {"", "Bundle", "Own", "Part"}
    <2>2. Lines = [kind : A, of : B] /\ l.of \in B /\ "meta" \in A
      BY <1>2, <2>1 DEF Lines
    <2> HIDE DEF A, B
    <2>3. QED BY <1>3, <2>2
  <1>5. QED BY <1>3, <1>4 DEF Of

LEMMA PairsAre ==
  ASSUME NEW t, NEW K, "meta" \in K, NEW s \in Seq(Of(K))
  PROVE  /\ Pairs(t, s) \in Seq(Seq(Of(K))) /\ Len(Pairs(t, s)) = Len(s)
         /\ \A k \in 1..Len(s) :
              Pairs(t, s)[k] = IF Lacks(t, s[k]) THEN <<s[k], Twin(s[k])>> ELSE <<s[k]>>
  <1>1. Len(s) \in Nat /\ \A k \in 1..Len(s) : s[k] \in Of(K)
    OBVIOUS
  <1>2. \A k \in 1..Len(s) : Twin(s[k]) \in Of(K)
    BY <1>1, TwinIs
  <1>3. ASSUME NEW k \in 1..Len(s)
        PROVE  (IF Lacks(t, s[k]) THEN <<s[k], Twin(s[k])>> ELSE <<s[k]>>) \in Seq(Of(K))
    <2>1. s[k] \in Of(K) /\ Twin(s[k]) \in Of(K)
      BY <1>1, <1>2
    <2>2. <<s[k], Twin(s[k])>> \in Seq(Of(K)) /\ <<s[k]>> \in Seq(Of(K))
      BY <2>1
    <2>3. QED BY <2>2
  <1>4. Pairs(t, s) \in [1..Len(s) -> Seq(Of(K))]
    BY <1>3 DEF Pairs
  <1>5. QED BY <1>1, <1>4 DEF Pairs

LEMMA TwinsJoin ==
  ASSUME NEW t, NEW K, "meta" \in K, NEW a \in Seq(Of(K)), NEW b \in Seq(Of(K))
  PROVE  TwinsOf(t, a \o b) = TwinsOf(t, a) \o TwinsOf(t, b)
  <1> DEFINE T == Seq(Of(K))
             x == Pairs(t, a)
             y == Pairs(t, b)
             z == Pairs(t, a \o b)
  <1>1. /\ a \o b \in Seq(Of(K)) /\ Len(a) \in Nat /\ Len(b) \in Nat /\ Len(a \o b) = Len(a) + Len(b)
        /\ \A k \in 1..(Len(a) + Len(b)) :
             (a \o b)[k] = IF k <= Len(a) THEN a[k] ELSE b[k - Len(a)]
    BY ConcatProperties
  <1>2. /\ x \in Seq(T) /\ Len(x) = Len(a)
        /\ \A k \in 1..Len(a) : x[k] = IF Lacks(t, a[k]) THEN <<a[k], Twin(a[k])>> ELSE <<a[k]>>
    BY PairsAre
  <1>3. /\ y \in Seq(T) /\ Len(y) = Len(b)
        /\ \A k \in 1..Len(b) : y[k] = IF Lacks(t, b[k]) THEN <<b[k], Twin(b[k])>> ELSE <<b[k]>>
    BY PairsAre
  <1>4. /\ z \in Seq(T) /\ Len(z) = Len(a) + Len(b)
        /\ \A k \in 1..(Len(a) + Len(b)) :
             z[k] = IF Lacks(t, (a \o b)[k]) THEN <<(a \o b)[k], Twin((a \o b)[k])>> ELSE <<(a \o b)[k]>>
    BY <1>1, PairsAre
  <1> HIDE DEF T, x, y, z
  <1>5. /\ x \o y \in Seq(T) /\ Len(x \o y) = Len(a) + Len(b)
        /\ \A k \in 1..(Len(a) + Len(b)) : (x \o y)[k] = IF k <= Len(a) THEN x[k] ELSE y[k - Len(a)]
    <2>1. x \in Seq(T) /\ y \in Seq(T) /\ Len(x) = Len(a) /\ Len(y) = Len(b)
      BY <1>2, <1>3
    <2>2. /\ x \o y \in Seq(T) /\ Len(x \o y) = Len(x) + Len(y)
          /\ \A k \in 1..(Len(x) + Len(y)) : (x \o y)[k] = IF k <= Len(x) THEN x[k] ELSE y[k - Len(x)]
      BY <2>1, ConcatProperties, Zenon
    <2>3. QED BY <2>1, <2>2
  <1>6. ASSUME NEW k \in 1..(Len(a) + Len(b)) PROVE z[k] = (x \o y)[k]
    <2>1. CASE k <= Len(a)
      <3>1. k \in 1..Len(a) /\ (a \o b)[k] = a[k] /\ (x \o y)[k] = x[k]
        BY <1>1, <1>5, <2>1
      <3>2. QED BY <1>2, <1>4, <3>1
    <2>2. CASE ~(k <= Len(a))
      <3>1. k - Len(a) \in 1..Len(b)
        BY <1>1, <2>2
      <3>2. (a \o b)[k] = b[k - Len(a)] /\ (x \o y)[k] = y[k - Len(a)]
        BY <1>1, <1>5, <2>2
      <3>3. QED BY <1>3, <1>4, <3>1, <3>2
    <2>3. QED BY <2>1, <2>2
  <1>7. z = x \o y
    BY <1>4, <1>5, <1>6, SeqEqual
  <1>8. FlattenSeq(x \o y) = FlattenSeq(x) \o FlattenSeq(y)
    BY <1>2, <1>3, FlattenJoin DEF T
  <1>9. QED BY <1>7, <1>8 DEF TwinsOf, x, y, z

LEMMA TwinsNone ==
  ASSUME NEW t, NEW s \in Seq(Lines), \A k \in 1..Len(s) : s[k].kind # "public"
  PROVE  TwinsOf(t, s) = s
  <1>1. Pairs(t, s) = [k \in 1..Len(s) |-> <<s[k]>>]
    BY DEF Pairs, Lacks
  <1>2. QED BY <1>1, FlattenOnes DEF TwinsOf

LEMMA TwinsHas ==
  ASSUME NEW t, NEW K, "meta" \in K, NEW s \in Seq(Of(K))
  PROVE  \A l : l \in ToSet(TwinsOf(t, s)) <=>
           l \in ToSet(s) \/ \E x \in ToSet(s) : Lacks(t, x) /\ l = Twin(x)
  <1> DEFINE P == Pairs(t, s)
  <1>1. /\ P \in Seq(Seq(Of(K))) /\ Len(P) = Len(s)
        /\ \A k \in 1..Len(s) : P[k] = IF Lacks(t, s[k]) THEN <<s[k], Twin(s[k])>> ELSE <<s[k]>>
    BY PairsAre
  <1>2. ASSUME NEW x, NEW y PROVE ToSet(<<x, y>>) = {x, y} /\ ToSet(<<x>>) = {x}
    BY DEF ToSet
  <1>3. \A k \in 1..Len(s) : ToSet(P[k]) = IF Lacks(t, s[k]) THEN {s[k], Twin(s[k])} ELSE {s[k]}
    BY <1>1, <1>2, Zenon
  <1> HIDE DEF P
  <1>4. \A l : l \in ToSet(FlattenSeq(P)) <=> \E k \in 1..Len(s) : l \in ToSet(P[k])
    BY <1>1, FlattenHas
  <1>5. \A l : l \in ToSet(s) <=> \E k \in 1..Len(s) : l = s[k]
    BY SetOf
  <1>6. \A l : (\E k \in 1..Len(s) : l \in ToSet(P[k])) <=>
          l \in ToSet(s) \/ \E x \in ToSet(s) : Lacks(t, x) /\ l = Twin(x)
    <2>1. \A l : \A k \in 1..Len(s) :
            l \in ToSet(P[k]) <=> l = s[k] \/ (Lacks(t, s[k]) /\ l = Twin(s[k]))
      BY <1>3
    <2>2. ASSUME NEW l
          PROVE  (\E k \in 1..Len(s) : l \in ToSet(P[k])) <=>
                   \E k \in 1..Len(s) : l = s[k] \/ (Lacks(t, s[k]) /\ l = Twin(s[k]))
      BY <2>1
    <2>3. ASSUME NEW l
          PROVE  (\E k \in 1..Len(s) : l = s[k] \/ (Lacks(t, s[k]) /\ l = Twin(s[k]))) <=>
                   l \in ToSet(s) \/ \E x \in ToSet(s) : Lacks(t, x) /\ l = Twin(x)
      BY <1>5, Zenon
    <2>4. QED BY <2>2, <2>3
  <1>7. QED BY <1>4, <1>6 DEF TwinsOf, P

-----------------------------------------------------------------------------
(* What the parts of the script do to a module.                             *)

LEMMA RunsIs ==
  ASSUME NEW s \in Seq(Lines)
  PROVE  RunsCode(s) <=> \E l \in ToSet(s) : l.kind = "eval"
  <1>1. \A l : l \in ToSet(s) <=> \E k \in 1..Len(s) : l = s[k]
    BY SetOf
  <1>2. RunsCode(s) <=> \E k \in 1..Len(s) : s[k].kind = "eval"
    BY DEF RunsCode, Kinds
  <1>3. QED BY <1>1, <1>2, Zenon

LEMMA LinesAre == Lines = Of(RawKinds \cup MidKinds \cup {"module", "expose", "end"})
  BY DEF Lines, Of

LEMMA TwinsForm ==
  ASSUME NEW t, NEW s, NEW m, NEW e, Form(s, m, e)
  PROVE  IsForm(TwinsOf(t, s))
  <1> DEFINE K == RawKinds \cup MidKinds \cup {"module", "expose", "end"}
  <1>0. PICK a, b, c : Sections(s, m, e, a, b, c)
    BY FormParts
  <1>1. /\ s = a \o b \o c
        /\ a \in Seq(Lines) /\ b \in Seq(Of(MidKinds)) /\ c \in Seq(Lines)
        /\ Len(a) = m /\ Len(b) = e - 1 - m /\ Len(c) = Len(s) - (e - 1)
        /\ \A k \in 1..m : a[k] = s[k]
        /\ \A k \in 1..(Len(s) - (e - 1)) : c[k] = s[e - 1 + k]
    BY <1>0 DEF Sections
  <1>2. /\ m \in Nat /\ e \in Nat /\ Len(s) \in Nat /\ 1 <= m /\ m < e /\ e < Len(s)
    BY DEF Form
  <1> HIDE DEF K
  <1>3. "meta" \in K /\ "meta" \in MidKinds /\ Lines = Of(K) /\ Of(MidKinds) \subseteq Of(K)
    BY LinesAre DEF K, MidKinds, Of
  <1>4. b \in Seq(Of(K)) /\ a \in Seq(Of(K)) /\ c \in Seq(Of(K))
    BY <1>1, <1>3
  <1>5. TwinsOf(t, s) = TwinsOf(t, a) \o TwinsOf(t, b) \o TwinsOf(t, c)
    <2>1. a \o b \in Seq(Of(K))
      BY <1>4, ConcatProperties
    <2>2. TwinsOf(t, (a \o b) \o c) = TwinsOf(t, a \o b) \o TwinsOf(t, c)
      BY <1>3, <1>4, <2>1, TwinsJoin
    <2>3. TwinsOf(t, a \o b) = TwinsOf(t, a) \o TwinsOf(t, b)
      BY <1>3, <1>4, TwinsJoin
    <2>4. QED BY <1>1, <2>2, <2>3
  <1>6. TwinsOf(t, a) = a
    <2>1. ASSUME NEW k \in 1..m PROVE a[k].kind # "public"
      <3>1. k \in 1..(m - 1) \/ k = m
        BY <1>2
      <3>2. s[k].kind \in Remarks \cup {"module"}
        BY <3>1 DEF Form
      <3>3. QED BY <1>1, <3>2 DEF Remarks, Comments
    <2>2. QED BY <1>1, <2>1, TwinsNone
  <1>7. c[1] = s[e] /\ c[Len(c)] = s[Len(s)] /\ Len(c) \in Nat /\ Len(c) >= 2
    <2>1. /\ 1 \in 1..(Len(s) - (e - 1)) /\ e - 1 + 1 = e
          /\ Len(c) \in 1..(Len(s) - (e - 1)) /\ e - 1 + Len(c) = Len(s)
          /\ Len(c) \in Nat /\ Len(c) >= 2
      <3>1. Len(c) = Len(s) - (e - 1)
        BY <1>1
      <3>2. QED BY <1>2, <3>1
    <2>2. c[1] = s[e] /\ c[Len(c)] = s[Len(s)]
      BY <1>1, <2>1, Zenon
    <2>3. QED BY <2>1, <2>2
  <1>8. ASSUME NEW k \in 2..(Len(c) - 1) PROVE c[k].kind \in TailKinds
    <2>1. k \in 1..(Len(s) - (e - 1)) /\ e - 1 + k \in (e + 1)..(Len(s) - 1)
      <3>1. Len(c) = Len(s) - (e - 1)
        BY <1>1
      <3>2. QED BY <1>2, <3>1
    <2>2. QED BY <1>1, <2>1 DEF Form
  <1>9. TwinsOf(t, c) = c
    <2>1. ASSUME NEW k \in 1..Len(c) PROVE c[k].kind # "public"
      <3>1. k = 1 \/ k \in 2..(Len(c) - 1) \/ k = Len(c)
        BY <1>7
      <3>2. c[k].kind \in TailKinds \cup {"expose", "end"}
        BY <1>7, <1>8, <3>1 DEF Form
      <3>3. QED BY <3>2 DEF TailKinds, Remarks, Comments
    <2>2. QED BY <1>1, <2>1, TwinsNone
  <1>10. TwinsOf(t, b) \in Seq(Of(MidKinds))
    <2>1. Pairs(t, b) \in Seq(Seq(Of(MidKinds)))
      BY <1>1, <1>3, PairsAre
    <2>2. QED BY <2>1, FlattenType DEF TwinsOf
  <1>11. a[Len(a)].kind = "module" /\ Len(a) >= 1 /\ \A k \in 1..(Len(a) - 1) : a[k].kind \in Remarks
    BY <1>1, <1>2 DEF Form
  <1>12. ~Commented(a, Len(a))
    <2>1. \A k \in 1..(m - 1) : k \in 1..m
      BY <1>2
    <2>2. \A k \in 1..(m - 1) : a[k].kind = s[k].kind
      BY <1>1, <2>1
    <2>3. Commented(a, m) <=> Commented(s, m)
      BY <1>2, <2>2, SameComments
    <2>4. QED BY <1>1, <2>3 DEF Form
  <1> DEFINE B == TwinsOf(t, b)
  <1> HIDE DEF B
  <1>13. Form(a \o B \o c, Len(a), Len(a) + Len(B) + 1)
    <2>1. B \in Seq(Of(MidKinds)) /\ c[1].kind = "expose" /\ c[Len(c)].kind = "end"
      BY <1>7, <1>10 DEF B, Form
    <2>2. QED BY <1>1, <1>7, <1>8, <1>11, <1>12, <2>1, Assemble
  <1>14. TwinsOf(t, s) = a \o B \o c
    BY <1>5, <1>6, <1>9 DEF B
  <1>15. QED BY <1>13, <1>14 DEF IsForm

LEMMA TwinsSettle ==
  ASSUME NEW s, IsForm(s)
  PROVE  IsForm(ensure_meta_twins(s)) /\ HasTwins(ensure_meta_twins(s))
  <1> DEFINE o == ensure_meta_twins(s)
             K == RawKinds \cup MidKinds \cup {"module", "expose", "end"}
  <1>1. CASE ~RunsCode(s)
    <2>1. o = s
      BY <1>1 DEF ensure_meta_twins
    <2>2. QED BY <1>1, <2>1 DEF HasTwins
  <1>2. CASE RunsCode(s)
    <2>1. o = TwinsOf(s, s)
      BY <1>2 DEF ensure_meta_twins, TwinsOf, Pairs
    <2>2. IsForm(o)
      BY <2>1, TwinsForm DEF IsForm
    <2>3. s \in Seq(Of(K)) /\ "meta" \in K
      BY LinesAre DEF IsForm, Form, MidKinds
    <2> HIDE DEF o, K
    <2>4. \A l : l \in ToSet(o) <=>
            l \in ToSet(s) \/ \E x \in ToSet(s) : Lacks(s, x) /\ l = Twin(x)
      BY <2>1, <2>3, TwinsHas
    <2>5. ASSUME NEW l \in ToSet(o), Lacks(o, l) PROVE FALSE
      <3>1. l.kind = "public" /\ l.of # "Bundle" /\ Twin(l) \notin ToSet(o)
        BY <2>5 DEF Lacks
      <3>2. l \in ToSet(s)
        <4> SUFFICES ASSUME NEW x \in ToSet(s), l = Twin(x) PROVE FALSE
          BY <2>4
        <4>1. Twin(x).kind = "meta"
          BY DEF Twin, Import
        <4>2. QED BY <3>1, <4>1
      <3>3. Twin(l) \notin ToSet(s)
        BY <2>4, <3>1
      <3>4. Lacks(s, l)
        BY <3>1, <3>3 DEF Lacks
      <3>5. QED BY <2>4, <3>1, <3>2, <3>4
    <2>6. QED BY <2>2, <2>5 DEF HasTwins, o
  <1>3. QED BY <1>1, <1>2

\* The line x stands in o at q, between the lines of s.
Inserted(o, s, q, x) ==
  /\ Len(o) = Len(s) + 1
  /\ \A k \in 1..(q - 1) : o[k] = s[k]
  /\ o[q] = x
  /\ \A k \in (q + 1)..(Len(s) + 1) : o[k] = s[k - 1]

LEMMA InsertIs ==
  ASSUME NEW S, NEW s \in Seq(S), NEW x \in S, NEW q \in 1..(Len(s) + 1)
  PROVE  InsertAt(s, q, x) \in Seq(S) /\ Inserted(InsertAt(s, q, x), s, q, x)
  <1> DEFINE p == q - 1
             a == SubSeq(s, 1, p)
             b == <<x>>
             c == SubSeq(s, p + 1, Len(s))
             n == Len(s)
  <1>1. p \in Nat /\ n \in Nat /\ p <= n /\ n <= n /\ p + 1 = q
    OBVIOUS
  <1>2. a \in Seq(S) /\ Len(a) = p /\ \A k \in 1..p : a[k] = s[k]
    <2>1. /\ SubSeq(s, 0 + 1, p) \in Seq(S) /\ Len(SubSeq(s, 0 + 1, p)) = p - 0
          /\ \A k \in 1..(p - 0) : SubSeq(s, 0 + 1, p)[k] = s[0 + k]
      BY <1>1, Between
    <2>2. 0 + 1 = 1 /\ p - 0 = p /\ \A k \in 1..p : 0 + k = k
      BY <1>1
    <2>3. QED BY <2>1, <2>2
  <1>3. c \in Seq(S) /\ Len(c) = n - p /\ \A k \in 1..(n - p) : c[k] = s[p + k]
    BY <1>1, Between
  <1>4. b \in Seq(S) /\ Len(b) = 1 /\ b[1] = x
    OBVIOUS
  <1>5. InsertAt(s, q, x) = a \o b \o c
    BY <1>1 DEF InsertAt
  <1> HIDE DEF a, b, c, p, n
  <1>6. /\ a \o b \o c \in Seq(S)
        /\ Len(a \o b \o c) = Len(a) + Len(b) + Len(c)
        /\ \A k \in 1..Len(a) : (a \o b \o c)[k] = a[k]
        /\ \A k \in (Len(a) + 1)..(Len(a) + Len(b)) : (a \o b \o c)[k] = b[k - Len(a)]
        /\ \A k \in (Len(a) + Len(b) + 1)..(Len(a) + Len(b) + Len(c)) :
             (a \o b \o c)[k] = c[k - Len(a) - Len(b)]
    <2>1. a \in Seq(S) /\ b \in Seq(S) /\ c \in Seq(S)
      BY <1>2, <1>3, <1>4
    <2>2. QED BY <2>1, ThreeParts
  <1>7. \A k \in 1..(q - 1) : (a \o b \o c)[k] = s[k]
    BY <1>2, <1>6 DEF p
  <1>8. (a \o b \o c)[q] = x
    <2>1. q \in (Len(a) + 1)..(Len(a) + Len(b)) /\ q - Len(a) = 1
      BY <1>1, <1>2, <1>4
    <2>2. QED BY <1>4, <1>6, <2>1
  <1>9. ASSUME NEW k \in (q + 1)..(n + 1) PROVE (a \o b \o c)[k] = s[k - 1]
    <2>1. /\ k \in (Len(a) + Len(b) + 1)..(Len(a) + Len(b) + Len(c))
          /\ k - Len(a) - Len(b) = k - q /\ k - q \in 1..(n - p) /\ p + (k - q) = k - 1
      BY <1>1, <1>2, <1>3, <1>4
    <2>2. QED BY <1>3, <1>6, <2>1
  <1>10. Len(a \o b \o c) = n + 1
    BY <1>1, <1>2, <1>3, <1>4, <1>6
  <1>11. QED BY <1>5, <1>6, <1>7, <1>8, <1>9, <1>10 DEF n, Inserted

LEMMA InsertHas ==
  ASSUME NEW S, NEW s \in Seq(S), NEW x \in S, NEW q \in 1..(Len(s) + 1)
  PROVE  \A l : l \in ToSet(InsertAt(s, q, x)) <=> l \in ToSet(s) \/ l = x
  <1> DEFINE o == InsertAt(s, q, x)
             n == Len(s)
  <1>1. /\ o \in Seq(S) /\ Len(o) = n + 1
        /\ \A k \in 1..(q - 1) : o[k] = s[k]
        /\ o[q] = x
        /\ \A k \in (q + 1)..(n + 1) : o[k] = s[k - 1]
    <2>1. o \in Seq(S) /\ Inserted(o, s, q, x)
      BY InsertIs
    <2>2. QED BY <2>1 DEF Inserted
  <1>2. n \in Nat /\ q \in Nat /\ 1 <= q /\ q <= n + 1
    OBVIOUS
  <1> HIDE DEF o
  <1>3. \A l : l \in ToSet(o) <=> \E k \in 1..(n + 1) : l = o[k]
    BY <1>1, SetOf
  <1>4. \A l : l \in ToSet(s) <=> \E k \in 1..n : l = s[k]
    BY SetOf
  <1> HIDE DEF n
  <1>5. ASSUME NEW l, l \in ToSet(o) PROVE l \in ToSet(s) \/ l = x
    <2>1. PICK k \in 1..(n + 1) : l = o[k]
      BY <1>3, <1>5
    <2>2. CASE k < q
      <3>1. k \in 1..n /\ k \in 1..(q - 1)
        BY <1>2, <2>2
      <3>2. QED BY <1>1, <1>4, <2>1, <3>1
    <2>3. CASE k = q
      BY <1>1, <2>1, <2>3
    <2>4. CASE k > q
      <3>1. k - 1 \in 1..n /\ k \in (q + 1)..(n + 1)
        BY <1>2, <2>4
      <3>2. QED BY <1>1, <1>4, <2>1, <3>1
    <2>5. QED BY <1>2, <2>2, <2>3, <2>4
  <1>6. x \in ToSet(o)
    <2>1. q \in 1..(n + 1)
      BY <1>2
    <2>2. QED BY <1>1, <1>3, <2>1
  <1>7. ASSUME NEW l, l \in ToSet(s) PROVE l \in ToSet(o)
    <2>1. PICK k \in 1..n : l = s[k]
      BY <1>4, <1>7
    <2>2. CASE k < q
      <3>1. k \in 1..(n + 1) /\ k \in 1..(q - 1)
        BY <1>2, <2>2
      <3>2. QED BY <1>1, <1>3, <2>1, <3>1
    <2>3. CASE ~(k < q)
      <3>1. k + 1 \in 1..(n + 1) /\ k + 1 \in (q + 1)..(n + 1) /\ k + 1 - 1 = k
        BY <1>2, <2>3
      <3>2. QED BY <1>1, <1>3, <2>1, <3>1
    <2>4. QED BY <2>2, <2>3
  <1>8. QED BY <1>5, <1>6, <1>7 DEF o

LEMMA InsertForm ==
  ASSUME NEW s, NEW m, NEW e, Form(s, m, e), NEW x \in Lines, NEW q \in Nat,
         \/ m < q /\ q <= e /\ x.kind \in MidKinds
         \/ e < q /\ q <= Len(s) /\ x.kind \in TailKinds
  PROVE  IsForm(InsertAt(s, q, x))
  <1> DEFINE o == InsertAt(s, q, x)
             n == Len(s)
  <1>1. /\ s \in Seq(Lines) /\ m \in Nat /\ e \in Nat /\ n \in Nat /\ 1 <= m /\ m < e /\ e < n
        /\ s[m].kind = "module" /\ s[e].kind = "expose" /\ s[n].kind = "end"
        /\ \A k \in 1..(m - 1) : s[k].kind \in Remarks
        /\ \A k \in (m + 1)..(e - 1) : s[k].kind \in MidKinds
        /\ \A k \in (e + 1)..(n - 1) : s[k].kind \in TailKinds
        /\ ~Commented(s, m)
    BY DEF Form
  <1>2. m < q /\ q <= n /\ q \in 1..(n + 1)
    BY <1>1
  <1>3. o \in Seq(Lines) /\ Inserted(o, s, q, x)
    BY <1>1, <1>2, InsertIs
  <1> HIDE DEF o
  <1>4. /\ Len(o) = n + 1
        /\ \A k \in 1..(q - 1) : o[k] = s[k]
        /\ o[q] = x
        /\ \A k \in (q + 1)..(n + 1) : o[k] = s[k - 1]
    BY <1>3 DEF Inserted
  <1> HIDE DEF n
  <1>5. o[m].kind = "module" /\ \A k \in 1..(m - 1) : o[k].kind \in Remarks
    <2>1. m \in 1..(q - 1) /\ \A k \in 1..(m - 1) : k \in 1..(q - 1)
      BY <1>1, <1>2
    <2>2. QED BY <1>1, <1>4, <2>1
  <1>6. ~Commented(o, m)
    <2>1. \A k \in 1..(m - 1) : k \in 1..(q - 1)
      BY <1>1, <1>2
    <2>2. \A k \in 1..(m - 1) : o[k].kind = s[k].kind
      BY <1>4, <2>1
    <2>3. QED BY <1>1, <2>2, SameComments
  <1>7. o[n + 1].kind = "end"
    <2>1. n + 1 \in (q + 1)..(n + 1) /\ n + 1 - 1 = n
      BY <1>1, <1>2
    <2>2. QED BY <1>1, <1>4, <2>1
  <1>8. CASE q <= e /\ x.kind \in MidKinds
    <2>1. o[e + 1].kind = "expose"
      <3>1. e + 1 \in (q + 1)..(n + 1) /\ e + 1 - 1 = e
        BY <1>1, <1>8
      <3>2. QED BY <1>1, <1>4, <3>1
    <2>2. ASSUME NEW k \in (m + 1)..e PROVE o[k].kind \in MidKinds
      <3>1. CASE k < q
        <4>1. k \in 1..(q - 1) /\ k \in (m + 1)..(e - 1)
          BY <1>1, <1>8, <3>1
        <4>2. QED BY <1>1, <1>4, <4>1
      <3>2. CASE k = q
        BY <1>4, <1>8, <3>2
      <3>3. CASE k > q
        <4>1. k \in (q + 1)..(n + 1) /\ k - 1 \in (m + 1)..(e - 1)
          BY <1>1, <1>2, <1>8, <3>3
        <4>2. QED BY <1>1, <1>4, <4>1
      <3>4. QED BY <1>1, <3>1, <3>2, <3>3
    <2>3. ASSUME NEW k \in (e + 2)..n PROVE o[k].kind \in TailKinds
      <3>1. k \in (q + 1)..(n + 1) /\ k - 1 \in (e + 1)..(n - 1)
        BY <1>1, <1>8
      <3>2. QED BY <1>1, <1>4, <3>1
    <2>4. e + 1 \in Nat /\ m < e + 1 /\ e + 1 < n + 1 /\ e + 1 - 1 = e /\ e + 1 + 1 = e + 2 /\ n + 1 - 1 = n
      BY <1>1
    <2>5. Form(o, m, e + 1)
      BY <1>1, <1>3, <1>4, <1>5, <1>6, <1>7, <2>1, <2>2, <2>3, <2>4 DEF Form
    <2>6. QED BY <2>5 DEF IsForm, o
  <1>9. CASE e < q /\ x.kind \in TailKinds
    <2>1. o[e].kind = "expose"
      <3>1. e \in 1..(q - 1)
        BY <1>1, <1>9
      <3>2. QED BY <1>1, <1>4, <3>1
    <2>2. ASSUME NEW k \in (m + 1)..(e - 1) PROVE o[k].kind \in MidKinds
      <3>1. k \in 1..(q - 1)
        BY <1>1, <1>9
      <3>2. QED BY <1>1, <1>4, <3>1
    <2>3. ASSUME NEW k \in (e + 1)..n PROVE o[k].kind \in TailKinds
      <3>1. CASE k < q
        <4>1. k \in 1..(q - 1) /\ k \in (e + 1)..(n - 1)
          BY <1>1, <1>2, <1>9, <3>1
        <4>2. QED BY <1>1, <1>4, <4>1
      <3>2. CASE k = q
        BY <1>4, <1>9, <3>2
      <3>3. CASE k > q
        <4>1. k \in (q + 1)..(n + 1) /\ k - 1 \in (e + 1)..(n - 1)
          BY <1>1, <1>2, <1>9, <3>3
        <4>2. QED BY <1>1, <1>4, <4>1
      <3>4. QED BY <1>1, <3>1, <3>2, <3>3
    <2>4. e < n + 1 /\ n + 1 - 1 = n
      BY <1>1
    <2>5. Form(o, m, e)
      BY <1>1, <1>3, <1>4, <1>5, <1>6, <1>7, <2>1, <2>2, <2>3, <2>4 DEF Form
    <2>6. QED BY <2>5 DEF IsForm, o
  <1>10. QED BY <1>1, <1>8, <1>9

LEMMA LineIs ==
  ASSUME NEW k \in {"module", "blank", "expose", "end", "option", "eval", "private", "open", "close", "code"}
  PROVE  Line(k) \in Lines /\ Line(k).kind = k
  <1> DEFINE A == RawKinds \cup MidKinds \cup {"module", "expose", "end"}
             B == STRING \cup {"", "Bundle", "Own", "Part"}
  <1>1. k \in A /\ "" \in B /\ Lines = [kind : A, of : B]
    BY DEF RawKinds, MidKinds, Remarks, Comments, Lines
  <1> HIDE DEF A, B
  <1>2. QED BY <1>1 DEF Line

LEMMA BundleIs ==
  Bundle \in Lines /\ Bundle.kind = "public" /\ Bundle.of = "Bundle"
  <1> DEFINE A == RawKinds \cup MidKinds \cup {"module", "expose", "end"}
             B == STRING \cup {"", "Bundle", "Own", "Part"}
  <1>1. "public" \in A /\ "Bundle" \in B /\ Lines = [kind : A, of : B]
    BY DEF MidKinds, Lines
  <1> HIDE DEF A, B
  <1>2. QED BY <1>1 DEF Bundle, Import

LEMMA BundleSettles ==
  ASSUME NEW s, IsForm(s), HasTwins(s)
  PROVE  IsForm(ensure_bundle(s)) /\ HasTwins(ensure_bundle(s)) /\ ~NeedsBundle(ensure_bundle(s))
  <1>1. CASE ~NeedsBundle(s)
    BY <1>1 DEF ensure_bundle
  <1>2. CASE NeedsBundle(s)
    <2> DEFINE I == Kinds(s, Imports)
               q == Highest(I) + 1
               o == InsertAt(s, q, Bundle)
    <2>1. PICK m, e : Form(s, m, e)
      BY DEF IsForm
    <2>2. /\ s \in Seq(Lines) /\ m \in Nat /\ e \in Nat /\ Len(s) \in Nat /\ 1 <= m /\ m < e /\ e < Len(s)
      BY <2>1 DEF Form
    <2>3. I # {}
      <3>1. PICK k \in 1..Len(s) : s[k] = Import("public", "Part")
        BY <1>2, <2>2, SetOf DEF NeedsBundle
      <3>2. k \in I
        BY <3>1 DEF Kinds, Imports, Import
      <3>3. QED BY <3>2
    <2>4. I \in SUBSET (1..Len(s)) /\ \A k \in I : m < k /\ k < e
      BY <2>1, FormKinds DEF Kinds
    <2>5. Highest(I) \in I
      <3> HIDE DEF I
      <3>1. QED BY <2>2, <2>3, <2>4, HighestIs
    <2>6. q \in Nat /\ m < q /\ q <= e /\ q \in 1..(Len(s) + 1)
      <3> DEFINE h == Highest(I)
      <3>1. m < h /\ h < e /\ h \in 1..Len(s) /\ q = h + 1
        BY <2>4, <2>5
      <3> HIDE DEF h, q
      <3>2. QED BY <2>2, <3>1
    <2> HIDE DEF q
    <2>7. IsForm(o)
      <3>1. Bundle \in Lines /\ Bundle.kind \in MidKinds
        BY BundleIs DEF MidKinds
      <3>2. QED BY <2>1, <2>6, <3>1, InsertForm
    <2>8. \A l : l \in ToSet(o) <=> l \in ToSet(s) \/ l = Bundle
      BY <2>2, <2>6, BundleIs, InsertHas
    <2>9. o \in Seq(Lines)
      BY <2>7 DEF IsForm, Form
    <2> HIDE DEF o
    <2>10. HasTwins(o)
      <3> SUFFICES ASSUME RunsCode(o), NEW l \in ToSet(o), Lacks(o, l) PROVE FALSE
        BY DEF HasTwins
      <3>1. RunsCode(s)
        BY <2>2, <2>8, <2>9, BundleIs, RunsIs
      <3>2. l \in ToSet(s) /\ l.kind = "public" /\ l.of # "Bundle" /\ Twin(l) \notin ToSet(s)
        BY <2>8, BundleIs DEF Lacks
      <3>3. Lacks(s, l)
        BY <3>2 DEF Lacks
      <3>4. QED BY <3>1, <3>2, <3>3 DEF HasTwins
    <2>11. ~NeedsBundle(o)
      BY <2>8 DEF NeedsBundle
    <2>12. ensure_bundle(s) = o
      BY <1>2 DEF ensure_bundle, o, q
    <2>13. QED BY <2>7, <2>10, <2>11, <2>12
  <1>3. QED BY <1>1, <1>2

\* Without "private" the lines are as settled as with it.
LEMMA UnprivateSettles ==
  ASSUME NEW s, IsForm(s), HasTwins(s)
  PROVE  LET o == unprivate_defs(s)
         IN  /\ IsForm(o) /\ HasTwins(o) /\ (NeedsBundle(o) => NeedsBundle(s))
             /\ \A k \in 1..Len(o) : o[k].kind # "private"
  <1> DEFINE o == unprivate_defs(s)
             n == Len(s)
  <1>1. PICK m, e : Form(s, m, e)
    BY DEF IsForm
  <1>2. /\ s \in Seq(Lines) /\ m \in Nat /\ e \in Nat /\ n \in Nat /\ 1 <= m /\ m < e /\ e < n
        /\ s[m].kind = "module" /\ s[e].kind = "expose" /\ s[n].kind = "end"
        /\ \A k \in 1..(m - 1) : s[k].kind \in Remarks
        /\ \A k \in (m + 1)..(e - 1) : s[k].kind \in MidKinds
        /\ \A k \in (e + 1)..(n - 1) : s[k].kind \in TailKinds
        /\ ~Commented(s, m)
    BY <1>1 DEF Form
  <1>3. \A k \in 1..n : s[k] \in Lines
    BY <1>2
  <1>4. \A k \in 1..n : o[k] = IF s[k].kind = "private" THEN Line("code") ELSE s[k]
    BY DEF unprivate_defs
  <1>5. Line("code") \in Lines /\ Line("code").kind = "code"
    BY LineIs
  <1>6. o \in Seq(Lines) /\ Len(o) = n
    <2>1. o \in [1..n -> Lines]
      BY <1>3, <1>5 DEF unprivate_defs
    <2>2. QED BY <1>2, <2>1
  <1> HIDE DEF o, n
  <1>7. ASSUME NEW k \in 1..n
        PROVE  o[k].kind = IF s[k].kind = "private" THEN "code" ELSE s[k].kind
    BY <1>4, <1>5
  <1>8. Form(o, m, e)
    <2>1. m \in 1..n /\ e \in 1..n /\ n \in 1..n
      BY <1>2
    <2>2. o[m].kind = "module" /\ o[e].kind = "expose" /\ o[n].kind = "end"
      BY <1>2, <1>7, <2>1
    <2>3. ASSUME NEW k \in 1..(m - 1) PROVE o[k].kind = s[k].kind /\ o[k].kind \in Remarks
      <3>1. k \in 1..n
        BY <1>2
      <3>2. s[k].kind \in Remarks
        BY <1>2
      <3>3. QED BY <1>7, <3>1, <3>2 DEF Remarks, Comments
    <2>4. ~Commented(o, m)
      BY <1>2, <2>3, SameComments
    <2>5. ASSUME NEW k \in (m + 1)..(e - 1) PROVE o[k].kind \in MidKinds
      <3>1. k \in 1..n
        BY <1>2
      <3>2. s[k].kind \in MidKinds
        BY <1>2
      <3>3. QED BY <1>7, <3>1, <3>2 DEF MidKinds
    <2>6. ASSUME NEW k \in (e + 1)..(n - 1) PROVE o[k].kind \in TailKinds
      <3>1. k \in 1..n
        BY <1>2
      <3>2. s[k].kind \in TailKinds
        BY <1>2
      <3>3. QED BY <1>7, <3>1, <3>2 DEF TailKinds
    <2>7. QED BY <1>2, <1>6, <2>2, <2>3, <2>4, <2>5, <2>6 DEF Form
  <1>9. \A k \in 1..Len(o) : o[k].kind # "private"
    BY <1>6, <1>7
  <1>10. ASSUME NEW l, l.kind \notin {"private", "code"} PROVE l \in ToSet(o) <=> l \in ToSet(s)
    <2>1. l \in ToSet(o) <=> \E k \in 1..n : l = o[k]
      BY <1>6, SetOf
    <2>2. l \in ToSet(s) <=> \E k \in 1..n : l = s[k]
      BY <1>2, SetOf DEF n
    <2>3. \A k \in 1..n : l = o[k] <=> l = s[k]
      BY <1>4, <1>5, <1>10
    <2>4. QED BY <2>1, <2>2, <2>3
  <1>11. HasTwins(o)
    <2> SUFFICES ASSUME RunsCode(o), NEW l \in ToSet(o), Lacks(o, l) PROVE FALSE
      BY DEF HasTwins
    <2>1. RunsCode(s)
      <3>1. PICK x \in ToSet(o) : x.kind = "eval"
        BY <1>6, RunsIs
      <3>2. x \in ToSet(s)
        BY <1>10, <3>1
      <3>3. QED BY <1>2, <3>1, <3>2, RunsIs
    <2>2. l.kind = "public" /\ l.of # "Bundle" /\ Twin(l) \notin ToSet(o) /\ Twin(l).kind = "meta"
      BY DEF Lacks, Twin, Import
    <2>3. l \in ToSet(s) /\ Twin(l) \notin ToSet(s)
      BY <1>10, <2>2
    <2>4. QED BY <2>1, <2>2, <2>3 DEF HasTwins, Lacks
  <1>12. NeedsBundle(o) => NeedsBundle(s)
    <2>1. Import("public", "Part").kind = "public" /\ Import("public", "Mathlib").kind = "public"
      BY DEF Import
    <2>2. QED BY <1>10, <2>1, BundleIs DEF NeedsBundle
  <1>13. QED BY <1>8, <1>9, <1>11, <1>12 DEF IsForm, o

-----------------------------------------------------------------------------
(* The script makes a module of any file.                                   *)

LEMMA TrimmedIs ==
  ASSUME NEW S, NEW s \in Seq(S)
  PROVE  \E n \in 0..Len(s) :
           /\ Trimmed(s) = SubSeq(s, 1, n)
           /\ n > 0 => s[n].kind # "blank"
           /\ \A k \in (n + 1)..Len(s) : s[k].kind = "blank"
  <1> DEFINE full == {k \in 1..Len(s) : ~IsBlank(s[k])}
  <1>0. Len(s) \in Nat
    OBVIOUS
  <1>1. CASE full = {}
    <2>1. Trimmed(s) = <<>>
      BY <1>1 DEF Trimmed
    <2>2. SubSeq(s, 1, 0) = <<>>
      BY SubSeqEmpty
    <2>3. \A k \in (0 + 1)..Len(s) : s[k].kind = "blank"
      BY <1>1 DEF IsBlank
    <2>4. 0 \in 0..Len(s) /\ ~(0 > 0)
      BY <1>0
    <2>5. QED BY <2>1, <2>2, <2>3, <2>4
  <1>2. CASE full # {}
    <2> DEFINE n == Highest(full)
    <2>1. n \in full /\ \A k \in full : k <= n
      <3>1. full \in SUBSET (1..Len(s))
        OBVIOUS
      <3> HIDE DEF full
      <3>2. QED BY <1>0, <1>2, <3>1, HighestIs
    <2>2. Trimmed(s) = SubSeq(s, 1, n)
      BY <1>2 DEF Trimmed
    <2> HIDE DEF n
    <2>3. n \in 1..Len(s) /\ s[n].kind # "blank"
      BY <2>1 DEF IsBlank
    <2>4. ASSUME NEW k \in (n + 1)..Len(s) PROVE s[k].kind = "blank"
      <3>1. k \in 1..Len(s) /\ ~(k <= n)
        BY <1>0, <2>3
      <3>2. QED BY <2>1, <3>1 DEF IsBlank
    <2>5. n \in 0..Len(s)
      BY <1>0, <2>3
    <2>6. QED BY <2>2, <2>3, <2>4, <2>5
  <1>3. QED BY <1>1, <1>2

LEMMA FirstLines ==
  ASSUME NEW S, NEW s \in Seq(S), NEW n \in 0..Len(s)
  PROVE  SubSeq(s, 1, n) \in Seq(S) /\ Len(SubSeq(s, 1, n)) = n /\ \A k \in 1..n : SubSeq(s, 1, n)[k] = s[k]
  <1>1. n \in Nat /\ 0 \in Nat /\ 0 <= n /\ n <= Len(s)
    OBVIOUS
  <1>2. /\ SubSeq(s, 0 + 1, n) \in Seq(S) /\ Len(SubSeq(s, 0 + 1, n)) = n - 0
        /\ \A k \in 1..(n - 0) : SubSeq(s, 0 + 1, n)[k] = s[0 + k]
    BY <1>1, Between
  <1>3. 0 + 1 = 1 /\ n - 0 = n /\ \A k \in 1..n : 0 + k = k
    BY <1>1
  <1>4. QED BY <1>2, <1>3

LEMMA LastLines ==
  ASSUME NEW S, NEW s \in Seq(S), NEW q \in 1..(Len(s) + 1)
  PROVE  /\ SubSeq(s, q, Len(s)) \in Seq(S) /\ Len(SubSeq(s, q, Len(s))) = Len(s) - (q - 1)
         /\ \A k \in 1..(Len(s) - (q - 1)) : SubSeq(s, q, Len(s))[k] = s[q - 1 + k]
  <1> DEFINE p == q - 1
  <1>1. p \in Nat /\ p + 1 = q /\ p <= Len(s) /\ Len(s) \in Nat /\ Len(s) <= Len(s)
    OBVIOUS
  <1> HIDE DEF p
  <1>2. /\ SubSeq(s, p + 1, Len(s)) \in Seq(S) /\ Len(SubSeq(s, p + 1, Len(s))) = Len(s) - p
        /\ \A k \in 1..(Len(s) - p) : SubSeq(s, p + 1, Len(s))[k] = s[p + k]
    BY <1>1, Between
  <1>3. QED BY <1>1, <1>2 DEF p

\* A header that is being written: remarks, "module" at m, imports.
Header(h, m) ==
  /\ h \in Seq(Lines) /\ m \in 1..Len(h) /\ h[m].kind = "module" /\ ~Commented(h, m)
  /\ \A k \in 1..(m - 1) : h[k].kind \in Remarks
  /\ \A k \in (m + 1)..Len(h) : h[k].kind \in MidKinds

\* A module without its end.
Open(h, m, e) ==
  /\ h \in Seq(Lines) /\ m \in Nat /\ e \in Nat /\ 1 <= m /\ m < e /\ e <= Len(h)
  /\ h[m].kind = "module" /\ h[e].kind = "expose" /\ ~Commented(h, m)
  /\ \A k \in 1..(m - 1) : h[k].kind \in Remarks
  /\ \A k \in (m + 1)..(e - 1) : h[k].kind \in MidKinds
  /\ \A k \in (e + 1)..Len(h) : h[k].kind \in TailKinds

LEMMA TwoParts ==
  ASSUME NEW S, NEW a \in Seq(S), NEW b \in Seq(S)
  PROVE  /\ a \o b \in Seq(S) /\ Len(a \o b) = Len(a) + Len(b)
         /\ Len(a) \in Nat /\ Len(b) \in Nat
         /\ \A k \in 1..Len(a) : (a \o b)[k] = a[k]
         /\ \A k \in (Len(a) + 1)..(Len(a) + Len(b)) : (a \o b)[k] = b[k - Len(a)] /\ k - Len(a) \in 1..Len(b)
  <1>1. /\ a \o b \in Seq(S) /\ Len(a \o b) = Len(a) + Len(b)
        /\ Len(a) \in Nat /\ Len(b) \in Nat
        /\ \A k \in 1..(Len(a) + Len(b)) : (a \o b)[k] = IF k <= Len(a) THEN a[k] ELSE b[k - Len(a)]
    BY ConcatProperties
  <1>2. \A k \in 1..Len(a) : (a \o b)[k] = a[k]
    BY <1>1
  <1>3. \A k \in (Len(a) + 1)..(Len(a) + Len(b)) : (a \o b)[k] = b[k - Len(a)] /\ k - Len(a) \in 1..Len(b)
    BY <1>1
  <1>4. QED BY <1>1, <1>2, <1>3

LEMMA OfIs ==
  ASSUME NEW K, NEW b \in Seq(Of(K))
  PROVE  b \in Seq(Lines) /\ \A k \in 1..Len(b) : b[k] \in Lines /\ b[k].kind \in K
  <1>1. Of(K) \subseteq Lines /\ \A l \in Of(K) : l.kind \in K
    BY DEF Of
  <1>2. \A k \in 1..Len(b) : b[k] \in Of(K)
    BY ElementOfSeq
  <1>3. QED BY <1>1, <1>2

LEMMA HeaderBegins ==
  ASSUME NEW h \in Seq(Lines), NEW x \in Lines, x.kind = "module", ~Commented(h, Len(h) + 1),
         \A k \in 1..Len(h) : h[k].kind \in Remarks
  PROVE  Header(h \o <<x>>, Len(h) + 1)
  <1> DEFINE o == h \o <<x>>
  <1>1. <<x>> \in Seq(Lines) /\ Len(<<x>>) = 1 /\ <<x>>[1] = x
    OBVIOUS
  <1>2. /\ o \in Seq(Lines) /\ Len(o) = Len(h) + 1 /\ Len(h) \in Nat
        /\ \A k \in 1..Len(h) : o[k] = h[k]
        /\ \A k \in (Len(h) + 1)..(Len(h) + 1) : o[k] = <<x>>[k - Len(h)]
    BY <1>1, TwoParts
  <1> HIDE DEF o
  <1>3. o[Len(h) + 1] = x
    <2>1. Len(h) + 1 \in (Len(h) + 1)..(Len(h) + 1) /\ Len(h) + 1 - Len(h) = 1
      BY <1>2
    <2>2. QED BY <1>1, <1>2, <2>1
  <1>4. ~Commented(o, Len(h) + 1)
    <2>1. \A k \in 1..(Len(h) + 1 - 1) : o[k].kind = h[k].kind
      BY <1>2
    <2>2. Len(h) + 1 \in Nat
      BY <1>2
    <2>3. QED BY <2>1, <2>2, SameComments
  <1>5. QED BY <1>2, <1>3, <1>4 DEF Header, o

LEMMA HeaderMore ==
  ASSUME NEW h, NEW m, Header(h, m), NEW b \in Seq(Of(MidKinds))
  PROVE  Header(h \o b, m)
  <1> DEFINE o == h \o b
  <1>1. b \in Seq(Lines) /\ \A k \in 1..Len(b) : b[k].kind \in MidKinds
    BY OfIs
  <1>2. h \in Seq(Lines) /\ m \in 1..Len(h)
    BY DEF Header
  <1>3. /\ o \in Seq(Lines) /\ Len(o) = Len(h) + Len(b) /\ Len(h) \in Nat /\ Len(b) \in Nat
        /\ \A k \in 1..Len(h) : o[k] = h[k]
        /\ \A k \in (Len(h) + 1)..(Len(h) + Len(b)) : o[k] = b[k - Len(h)] /\ k - Len(h) \in 1..Len(b)
    BY <1>1, <1>2, TwoParts
  <1> HIDE DEF o
  <1>4. ASSUME NEW k \in (m + 1)..Len(o) PROVE o[k].kind \in MidKinds
    <2>1. k \in (m + 1)..Len(h) \/ k \in (Len(h) + 1)..(Len(h) + Len(b))
      BY <1>2, <1>3
    <2>2. CASE k \in (m + 1)..Len(h)
      <3>1. k \in 1..Len(h)
        BY <1>2, <2>2
      <3>2. QED BY <1>3, <2>2, <3>1 DEF Header
    <2>3. CASE k \in (Len(h) + 1)..(Len(h) + Len(b))
      BY <1>1, <1>3, <2>3
    <2>4. QED BY <2>1, <2>2, <2>3
  <1>5. \A k \in 1..m : o[k] = h[k]
    BY <1>2, <1>3
  <1>6. ~Commented(o, m)
    <2>1. m \in Nat /\ \A k \in 1..(m - 1) : k \in 1..m
      BY <1>2
    <2>2. \A k \in 1..(m - 1) : o[k].kind = h[k].kind
      BY <1>5, <2>1
    <2>3. QED BY <2>1, <2>2, SameComments DEF Header
  <1>7. m \in 1..Len(o) /\ m \in 1..m /\ \A k \in 1..(m - 1) : k \in 1..m
    BY <1>2, <1>3
  <1>8. QED BY <1>3, <1>4, <1>5, <1>6, <1>7 DEF Header, o

LEMMA OpenMore ==
  ASSUME NEW h, NEW m, NEW e, Open(h, m, e), NEW b \in Seq(Of(TailKinds))
  PROVE  Open(h \o b, m, e)
  <1> DEFINE o == h \o b
  <1>1. b \in Seq(Lines) /\ \A k \in 1..Len(b) : b[k].kind \in TailKinds
    BY OfIs
  <1>2. h \in Seq(Lines) /\ m \in Nat /\ e \in Nat /\ 1 <= m /\ m < e /\ e <= Len(h)
    BY DEF Open
  <1>3. /\ o \in Seq(Lines) /\ Len(o) = Len(h) + Len(b) /\ Len(h) \in Nat /\ Len(b) \in Nat
        /\ \A k \in 1..Len(h) : o[k] = h[k]
        /\ \A k \in (Len(h) + 1)..(Len(h) + Len(b)) : o[k] = b[k - Len(h)] /\ k - Len(h) \in 1..Len(b)
    BY <1>1, <1>2, TwoParts
  <1> HIDE DEF o
  <1>4. ASSUME NEW k \in (e + 1)..Len(o) PROVE o[k].kind \in TailKinds
    <2>1. k \in (e + 1)..Len(h) \/ k \in (Len(h) + 1)..(Len(h) + Len(b))
      BY <1>2, <1>3
    <2>2. CASE k \in (e + 1)..Len(h)
      <3>1. k \in 1..Len(h)
        BY <1>2, <2>2
      <3>2. QED BY <1>3, <2>2, <3>1 DEF Open
    <2>3. CASE k \in (Len(h) + 1)..(Len(h) + Len(b))
      BY <1>1, <1>3, <2>3
    <2>4. QED BY <2>1, <2>2, <2>3
  <1>5. \A k \in 1..e : o[k] = h[k]
    BY <1>2, <1>3
  <1>6. /\ m \in 1..e /\ e \in 1..e /\ e <= Len(o)
        /\ \A k \in 1..(m - 1) : k \in 1..e
        /\ \A k \in (m + 1)..(e - 1) : k \in 1..e
    BY <1>2, <1>3
  <1>7. ~Commented(o, m)
    <2>1. \A k \in 1..(m - 1) : o[k].kind = h[k].kind
      BY <1>5, <1>6
    <2>2. QED BY <1>2, <2>1, SameComments DEF Open
  <1>8. QED BY <1>2, <1>3, <1>4, <1>5, <1>6, <1>7 DEF Open, o

LEMMA HeaderOpens ==
  ASSUME NEW h, NEW m, Header(h, m)
  PROVE  Open(h \o <<Line("expose"), Line("blank")>>, m, Len(h) + 1)
  <1> DEFINE x == <<Line("expose"), Line("blank")>>
             o == h \o x
             e == Len(h) + 1
  <1>1. x \in Seq(Lines) /\ Len(x) = 2 /\ x[1].kind = "expose" /\ x[2].kind = "blank"
    BY LineIs
  <1>2. h \in Seq(Lines) /\ m \in 1..Len(h) /\ Len(h) \in Nat
    BY DEF Header
  <1> HIDE DEF x
  <1>3. /\ o \in Seq(Lines) /\ Len(o) = Len(h) + 2
        /\ \A k \in 1..Len(h) : o[k] = h[k]
        /\ \A k \in (Len(h) + 1)..(Len(h) + 2) : o[k] = x[k - Len(h)]
    <2>1. x \in Seq(Lines) /\ h \in Seq(Lines)
      BY <1>1, <1>2
    <2>2. /\ o \in Seq(Lines) /\ Len(o) = Len(h) + Len(x)
          /\ \A k \in 1..Len(h) : o[k] = h[k]
          /\ \A k \in (Len(h) + 1)..(Len(h) + Len(x)) : o[k] = x[k - Len(h)]
      BY <2>1, TwoParts
    <2>3. QED BY <1>1, <2>2
  <1> HIDE DEF o
  <1>4. o[e].kind = "expose" /\ o[e + 1].kind = "blank"
    <2>1. /\ e \in (Len(h) + 1)..(Len(h) + 2) /\ e - Len(h) = 1
          /\ e + 1 \in (Len(h) + 1)..(Len(h) + 2) /\ e + 1 - Len(h) = 2
      BY <1>2
    <2>2. QED BY <1>1, <1>3, <2>1
  <1>5. /\ m \in 1..Len(h) /\ m \in Nat /\ e \in Nat /\ 1 <= m /\ m < e /\ e <= Len(o)
        /\ \A k \in 1..(m - 1) : k \in 1..Len(h)
        /\ \A k \in (m + 1)..(e - 1) : k \in 1..Len(h) /\ k \in (m + 1)..Len(h)
        /\ \A k \in (e + 1)..Len(o) : k = e + 1
    BY <1>2, <1>3
  <1>6. ~Commented(o, m)
    <2>1. \A k \in 1..(m - 1) : o[k].kind = h[k].kind
      BY <1>3, <1>5
    <2>2. QED BY <1>5, <2>1, SameComments DEF Header
  <1>7. \A k \in (e + 1)..Len(o) : o[k].kind \in TailKinds
    BY <1>4, <1>5 DEF TailKinds, Remarks
  <1> HIDE DEF e
  <1>8. /\ \A k \in 1..(m - 1) : o[k].kind \in Remarks
        /\ \A k \in (m + 1)..(e - 1) : o[k].kind \in MidKinds
        /\ o[m].kind = "module"
    BY <1>3, <1>5 DEF Header
  <1>9. QED BY <1>3, <1>4, <1>5, <1>6, <1>7, <1>8 DEF Open, o, x, e

LEMMA Closing ==
  ASSUME NEW h, NEW m, NEW e, Open(h, m, e)
  PROVE  IsForm(Trimmed(h) \o <<Line("end")>>)
  <1> DEFINE x == <<Line("end")>>
  <1>1. h \in Seq(Lines) /\ m \in Nat /\ e \in Nat /\ 1 <= m /\ m < e /\ e <= Len(h) /\ Len(h) \in Nat
    BY DEF Open
  <1>2. PICK n \in 0..Len(h) :
          /\ Trimmed(h) = SubSeq(h, 1, n)
          /\ n > 0 => h[n].kind # "blank"
          /\ \A k \in (n + 1)..Len(h) : h[k].kind = "blank"
    BY <1>1, TrimmedIs
  <1>3. e <= n
    <2> SUFFICES ASSUME ~(e <= n) PROVE FALSE
      OBVIOUS
    <2>1. e \in (n + 1)..Len(h)
      BY <1>1
    <2>2. h[e].kind = "blank"
      BY <1>2, <2>1
    <2>3. QED BY <2>2 DEF Open
  <1> DEFINE t == SubSeq(h, 1, n)
             o == t \o x
  <1>4. t \in Seq(Lines) /\ Len(t) = n /\ \A k \in 1..n : t[k] = h[k]
    BY <1>1, FirstLines
  <1>5. x \in Seq(Lines) /\ Len(x) = 1 /\ x[1].kind = "end"
    BY LineIs
  <1> HIDE DEF t, x
  <1>6. /\ o \in Seq(Lines) /\ Len(o) = n + 1
        /\ \A k \in 1..n : o[k] = t[k]
        /\ \A k \in (n + 1)..(n + 1) : o[k] = x[k - n]
    <2>1. x \in Seq(Lines) /\ t \in Seq(Lines)
      BY <1>4, <1>5
    <2>2. /\ o \in Seq(Lines) /\ Len(o) = Len(t) + Len(x)
          /\ \A k \in 1..Len(t) : o[k] = t[k]
          /\ \A k \in (Len(t) + 1)..(Len(t) + Len(x)) : o[k] = x[k - Len(t)]
      BY <2>1, TwoParts
    <2>3. QED BY <1>4, <1>5, <2>2
  <1> HIDE DEF o
  <1>7. n \in Nat
    OBVIOUS
  <1>8. o[n + 1].kind = "end"
    <2>1. n + 1 \in (n + 1)..(n + 1) /\ n + 1 - n = 1
      BY <1>7
    <2>2. QED BY <1>5, <1>6, <2>1
  <1>9. \A k \in 1..n : o[k] = h[k]
    BY <1>4, <1>6
  <1>10. /\ m \in 1..n /\ e \in 1..n /\ e < n + 1 /\ n + 1 - 1 = n
         /\ \A k \in 1..(m - 1) : k \in 1..n
         /\ \A k \in (m + 1)..(e - 1) : k \in 1..n
         /\ \A k \in (e + 1)..n : k \in 1..n /\ k \in (e + 1)..Len(h)
    BY <1>1, <1>3, <1>7
  <1>11. ~Commented(o, m)
    <2>1. \A k \in 1..(m - 1) : o[k].kind = h[k].kind
      BY <1>9, <1>10
    <2>2. QED BY <1>1, <2>1, SameComments DEF Open
  <1>12. Form(o, m, e)
    <2>1. /\ \A k \in 1..(m - 1) : o[k].kind \in Remarks
          /\ \A k \in (m + 1)..(e - 1) : o[k].kind \in MidKinds
          /\ o[m].kind = "module" /\ o[e].kind = "expose"
      BY <1>9, <1>10 DEF Open
    <2>2. \A k \in (e + 1)..n : o[k].kind \in TailKinds
      BY <1>9, <1>10 DEF Open
    <2>3. QED BY <1>1, <1>6, <1>8, <1>10, <1>11, <2>1, <2>2 DEF Form
  <1>13. QED BY <1>2, <1>12 DEF IsForm, o, t, x

LEMMA RawKindsAre ==
  ASSUME NEW s, Raw(s)
  PROVE  /\ s \in Seq(Lines) /\ Len(s) \in Nat
         /\ \A k \in 1..Len(s) : s[k] \in Lines /\ s[k].kind \in RawKinds
         /\ Kinds(s, Imports) = Kinds(s, {"import"}) /\ ~is_module(s)
  <1>1. s \in Seq(Lines) /\ \A k \in 1..Len(s) : s[k] \in Lines /\ s[k].kind \in RawKinds
    BY OfIs DEF Raw
  <1>2. Len(s) \in Nat
    BY <1>1
  <1>3. Kinds(s, Imports) = Kinds(s, {"import"})
    BY <1>1 DEF Kinds, Imports, RawKinds, Remarks, Comments
  <1>4. ~is_module(s)
    <2> SUFFICES ASSUME is_module(s) PROVE FALSE
      OBVIOUS
    <2>1. Contents(s) \in SUBSET Nat /\ Contents(s) \in SUBSET (1..Len(s)) /\ Contents(s) # {}
      BY <1>2 DEF Contents, is_module
    <2>2. Lowest(Contents(s)) \in 1..Len(s)
      BY <2>1, LowestIs
    <2>3. QED BY <1>1, <2>2 DEF is_module, RawKinds, Remarks, Comments
  <1>5. QED BY <1>1, <1>2, <1>3, <1>4

\* Where the script finds the imports of a file that is no module.
LEMMA BlockIs ==
  ASSUME NEW s, Raw(s), NEW f, NEW e, Block(s, f, e)
  PROVE  Kinds(s, {"import"}) # {} /\ Lowest(Kinds(s, {"import"})) = f /\ BlockEnd(s, f) = e
  <1> DEFINE I == Kinds(s, {"import"})
             E == {k \in f..(Len(s) + 1) : k > Len(s) \/ (~IsImport(s[k]) /\ ~IsBlank(s[k]))}
  <1>1. /\ Len(s) \in Nat /\ f \in 1..Len(s) /\ e \in 1..(Len(s) + 1) /\ f < e
        /\ s[f].kind = "import"
        /\ \A k \in 1..(f - 1) : s[k].kind \in Remarks
        /\ \A k \in f..(e - 1) : s[k].kind \in {"import", "blank"}
        /\ \A k \in e..Len(s) : s[k].kind # "import"
        /\ (e <= Len(s) => s[e].kind # "blank")
    BY RawKindsAre DEF Block
  <1>2. f \in I /\ I \in SUBSET Nat
    BY <1>1 DEF Kinds
  <1>3. ASSUME NEW k \in I PROVE f <= k
    <2> SUFFICES ASSUME ~(f <= k) PROVE FALSE
      OBVIOUS
    <2>1. k \in 1..(f - 1) /\ s[k].kind = "import"
      BY <1>1 DEF Kinds
    <2>2. QED BY <1>1, <2>1 DEF Remarks, Comments
  <1>4. Lowest(I) = f
    <2> HIDE DEF I
    <2>1. QED BY <1>2, <1>3, LowestEq
  <1>5. e \in E
    <2>1. e \in f..(Len(s) + 1)
      BY <1>1
    <2>2. CASE e <= Len(s)
      <3>1. e \in 1..Len(s) /\ e \in e..Len(s)
        BY <1>1, <2>2
      <3>2. s[e].kind \in RawKinds /\ s[e].kind # "import" /\ s[e].kind # "blank"
        BY <1>1, <2>2, <3>1, RawKindsAre
      <3>3. QED BY <2>1, <3>2 DEF IsImport, IsBlank, Imports, RawKinds, Remarks, Comments
    <2>3. CASE ~(e <= Len(s))
      BY <1>1, <2>1, <2>3
    <2>4. QED BY <2>2, <2>3
  <1>6. ASSUME NEW k \in E PROVE e <= k
    <2> SUFFICES ASSUME ~(e <= k) PROVE FALSE
      OBVIOUS
    <2>1. k \in f..(e - 1) /\ ~(k > Len(s))
      BY <1>1
    <2>2. s[k].kind \in {"import", "blank"}
      BY <1>1, <2>1
    <2>3. QED BY <2>1, <2>2 DEF IsImport, IsBlank, Imports
  <1>7. E \in SUBSET Nat
    BY <1>1
  <1>8. Lowest(E) = e
    <2> HIDE DEF E
    <2>1. QED BY <1>5, <1>6, <1>7, LowestEq
  <1>9. QED BY <1>2, <1>4, <1>8 DEF BlockEnd

\* The lines before the first content are remarks.
LEMMA BeforeContents ==
  ASSUME NEW s, Raw(s), Contents(s) # {}
  PROVE  /\ Lowest(Contents(s)) \in 1..Len(s) /\ ~Commented(s, Lowest(Contents(s)))
         /\ \A k \in 1..(Lowest(Contents(s)) - 1) : s[k].kind \in Remarks
  <1> DEFINE f == Lowest(Contents(s))
  <1>1. Len(s) \in Nat
    BY RawKindsAre
  <1>2. Contents(s) \in SUBSET Nat /\ Contents(s) \in SUBSET (1..Len(s))
    BY <1>1 DEF Contents
  <1>3. f \in Contents(s) /\ \A k \in Contents(s) : f <= k
    BY <1>2, LowestIs
  <1> HIDE DEF f
  <1>4. f \in 1..Len(s) /\ ~Commented(s, f)
    BY <1>3 DEF Contents
  <1>5. ASSUME NEW k \in 1..(f - 1) PROVE s[k].kind \in Remarks
    <2>1. k \in 1..Len(s) /\ ~(f <= k)
      BY <1>1, <1>4
    <2>2. k \notin Contents(s)
      BY <1>3, <2>1
    <2>3. IsBlank(s[k]) \/ s[k].kind \in Comments \/ Commented(s, k)
      BY <2>1, <2>2 DEF Contents
    <2>4. QED BY <2>1, <2>3 DEF Raw, IsBlank, Remarks
  <1>6. QED BY <1>4, <1>5 DEF f

LEMMA TailLines ==
  ASSUME NEW s \in Seq(Lines), NEW q \in 1..(Len(s) + 1), NEW K, \A k \in q..Len(s) : s[k].kind \in K
  PROVE  SubSeq(s, q, Len(s)) \in Seq(Of(K))
  <1> DEFINE t == SubSeq(s, q, Len(s))
  <1>1. /\ t \in Seq(Lines) /\ Len(t) = Len(s) - (q - 1) /\ Len(s) \in Nat
        /\ \A k \in 1..(Len(s) - (q - 1)) : t[k] = s[q - 1 + k]
    BY LastLines
  <1> HIDE DEF t
  <1>2. ASSUME NEW k \in 1..Len(t) PROVE t[k] \in Of(K)
    <2>1. q - 1 + k \in q..Len(s) /\ k \in 1..(Len(s) - (q - 1))
      BY <1>1
    <2>2. t[k] \in Lines /\ t[k].kind \in K
      BY <1>1, <2>1
    <2>3. QED BY <2>2 DEF Of
  <1>3. Len(t) \in Nat /\ t \in [1..Len(t) -> Of(K)]
    BY <1>1, <1>2
  <1>4. t \in Seq(Of(K))
    BY <1>3
  <1>5. QED BY <1>4 DEF t

LEMMA WithoutImportsOpens ==
  ASSUME NEW s, Raw(s), Kinds(s, Imports) = {}
  PROVE  \E m, e : Open(WithoutImports(s), m, e)
  <1> DEFINE f == IF Contents(s) = {} THEN 1 ELSE Lowest(Contents(s))
             h == SubSeq(s, 1, f - 1)
             x == <<Line("module"), Line("blank"), Line("expose"), Line("blank")>>
             c == SubSeq(s, f, Len(s))
             g == h \o x
  <1>1. /\ s \in Seq(Lines) /\ Len(s) \in Nat
        /\ \A k \in 1..Len(s) : s[k].kind \in RawKinds
    BY RawKindsAre
  <1>2. f \in 1..(Len(s) + 1) /\ ~Commented(s, f) /\ \A k \in 1..(f - 1) : s[k].kind \in Remarks
    <2>1. CASE Contents(s) = {}
      <3>1. f = 1 /\ 1 \in 1..(Len(s) + 1) /\ ~Commented(s, 1)
        BY <1>1, <2>1 DEF Commented
      <3>2. QED BY <3>1
    <2>2. CASE Contents(s) # {}
      <3>1. f = Lowest(Contents(s))
        BY <2>2
      <3> HIDE DEF f
      <3>2. QED BY <1>1, <2>2, <3>1, BeforeContents
    <2>3. QED BY <2>1, <2>2
  <1> HIDE DEF f
  <1>3. /\ h \in Seq(Lines) /\ Len(h) = f - 1 /\ f - 1 \in 0..Len(s)
        /\ \A k \in 1..(f - 1) : h[k] = s[k]
    <2>1. f - 1 \in 0..Len(s)
      BY <1>1, <1>2
    <2>2. QED BY <1>1, <2>1, FirstLines
  <1>4. c \in Seq(Of(TailKinds))
    <2>1. ASSUME NEW k \in f..Len(s) PROVE s[k].kind \in TailKinds
      <3>1. k \in 1..Len(s)
        BY <1>1, <1>2
      <3>2. s[k].kind \in RawKinds /\ s[k].kind \notin Imports
        BY <1>1, <3>1 DEF Kinds
      <3>3. QED BY <3>2 DEF RawKinds, TailKinds, Imports
    <2>2. QED BY <1>1, <1>2, <2>1, TailLines
  <1>5. /\ x \in Seq(Lines) /\ Len(x) = 4
        /\ x[1].kind = "module" /\ x[2].kind = "blank" /\ x[3].kind = "expose" /\ x[4].kind = "blank"
    BY LineIs
  <1>6. WithoutImports(s) = g \o c
    BY DEF WithoutImports, f
  <1> HIDE DEF h, x, c
  <1>7. /\ g \in Seq(Lines) /\ Len(g) = f - 1 + 4
        /\ \A k \in 1..(f - 1) : g[k] = h[k]
        /\ \A k \in (f - 1 + 1)..(f - 1 + 4) : g[k] = x[k - (f - 1)]
    <2>1. /\ g \in Seq(Lines) /\ Len(g) = Len(h) + Len(x)
          /\ \A k \in 1..Len(h) : g[k] = h[k]
          /\ \A k \in (Len(h) + 1)..(Len(h) + Len(x)) : g[k] = x[k - Len(h)]
      <3>1. h \in Seq(Lines) /\ x \in Seq(Lines)
        BY <1>3, <1>5
      <3>2. QED BY <3>1, TwoParts
    <2>2. QED BY <1>3, <1>5, <2>1
  <1> HIDE DEF g
  <1>8. g[f].kind = "module" /\ g[f + 1].kind = "blank" /\ g[f + 2].kind = "expose" /\ g[f + 3].kind = "blank"
    <2>1. /\ f \in (f - 1 + 1)..(f - 1 + 4) /\ f - (f - 1) = 1
          /\ f + 1 \in (f - 1 + 1)..(f - 1 + 4) /\ f + 1 - (f - 1) = 2
          /\ f + 2 \in (f - 1 + 1)..(f - 1 + 4) /\ f + 2 - (f - 1) = 3
          /\ f + 3 \in (f - 1 + 1)..(f - 1 + 4) /\ f + 3 - (f - 1) = 4
      BY <1>2
    <2>2. g[f] = x[1] /\ g[f + 1] = x[2] /\ g[f + 2] = x[3] /\ g[f + 3] = x[4]
      <3>1. \A k \in (f - 1 + 1)..(f - 1 + 4) : g[k] = x[k - (f - 1)]
        BY <1>7
      <3>2. \A k, j : k \in (f - 1 + 1)..(f - 1 + 4) /\ k - (f - 1) = j => g[k] = x[j]
        BY <3>1
      <3>3. QED BY <2>1, <3>2
    <2>3. QED BY <1>5, <2>2, Zenon
  <1>9. \A k \in 1..(f - 1) : g[k] = s[k]
    BY <1>3, <1>7
  <1>10. ~Commented(g, f)
    <2>1. f \in Nat /\ \A k \in 1..(f - 1) : g[k].kind = s[k].kind
      BY <1>2, <1>9
    <2>2. QED BY <1>2, <2>1, SameComments
  <1>11. /\ f \in Nat /\ f + 2 \in Nat /\ 1 <= f /\ f < f + 2 /\ f + 2 <= Len(g)
         /\ \A k \in (f + 1)..(f + 2 - 1) : k = f + 1
         /\ \A k \in (f + 2 + 1)..Len(g) : k = f + 3
    BY <1>2, <1>7
  <1>12. Open(g, f, f + 2)
    <2>1. \A k \in 1..(f - 1) : g[k].kind \in Remarks
      BY <1>2, <1>9
    <2>2. \A k \in (f + 1)..(f + 2 - 1) : g[k].kind \in MidKinds
      BY <1>8, <1>11 DEF MidKinds
    <2>3. \A k \in (f + 2 + 1)..Len(g) : g[k].kind \in TailKinds
      BY <1>8, <1>11 DEF TailKinds, Remarks
    <2>4. QED BY <1>7, <1>8, <1>10, <1>11, <2>1, <2>2, <2>3 DEF Open
  <1>13. QED BY <1>4, <1>6, <1>12, OpenMore

LEMMA ExportedIs ==
  ASSUME NEW s, NEW l \in Lines, l.kind \in {"import", "blank"}
  PROVE  Exported(s, l) \in Seq(Of(MidKinds))
  <1> DEFINE A == RawKinds \cup MidKinds \cup {"module", "expose", "end"}
             B == STRING \cup {"", "Bundle", "Own", "Part"}
  <1>1. "public" \in A /\ "meta" \in A /\ Lines = [kind : A, of : B]
    BY DEF MidKinds, Lines
  <1> HIDE DEF A, B
  <1>2. /\ Import("public", l.of) \in Lines /\ Import("public", l.of).kind = "public"
        /\ Import("meta", l.of) \in Lines /\ Import("meta", l.of).kind = "meta"
    BY <1>1 DEF Import
  <1>3. CASE l.kind = "blank"
    <2>1. Exported(s, l) = <<l>> /\ l \in Of(MidKinds)
      BY <1>3 DEF Exported, Of, MidKinds
    <2>2. QED BY <2>1
  <1>4. CASE l.kind = "import"
    <2> DEFINE x == Import("public", l.of)
               y == Import("meta", l.of)
               b == IF l.of = "Lean" \/ RunsCode(s) THEN <<y>> ELSE <<>>
    <2>1. x \in Of(MidKinds) /\ y \in Of(MidKinds)
      BY <1>2 DEF Of, MidKinds
    <2>2. Exported(s, l) = <<x>> \o b
      BY <1>4 DEF Exported
    <2> HIDE DEF x, y
    <2>3. <<x>> \in Seq(Of(MidKinds)) /\ b \in Seq(Of(MidKinds))
      BY <2>1
    <2> HIDE DEF b
    <2>4. QED BY <2>2, <2>3, ConcatProperties
  <1>5. QED BY <1>3, <1>4

LEMMA WithImportsOpens ==
  ASSUME NEW s, Raw(s), NEW f, NEW e, Block(s, f, e)
  PROVE  \E m, k : Open(WithImports(s), m, k)
  <1> DEFINE h == SubSeq(s, 1, f - 1)
             pieces == [k \in 1..(e - f) |-> Exported(s, s[f + k - 1])]
             block == FlattenSeq(pieces)
             n == IF e <= Len(s) /\ s[e].kind = "option" THEN 1 ELSE 0
             opt == SubSeq(s, e, e + n - 1)
             c == SubSeq(s, e + n, Len(s))
             h1 == h \o <<Line("module")>>
             h2 == h1 \o Trimmed(block)
             h3 == h2 \o <<Line("blank")>>
             h4 == h3 \o opt
             g == h4 \o <<Line("expose"), Line("blank")>>
  <1>1. /\ Len(s) \in Nat /\ f \in 1..Len(s) /\ e \in 1..(Len(s) + 1) /\ f < e
        /\ s[f].kind = "import"
        /\ \A k \in 1..(f - 1) : s[k].kind \in Remarks
        /\ \A k \in f..(e - 1) : s[k].kind \in {"import", "blank"}
        /\ \A k \in e..Len(s) : s[k].kind # "import"
    BY RawKindsAre DEF Block
  <1>2. s \in Seq(Lines) /\ \A k \in 1..Len(s) : s[k] \in Lines /\ s[k].kind \in RawKinds
    BY RawKindsAre
  <1>3. WithImports(s) = g \o c
    <2>1. Lowest(Kinds(s, Imports)) = f /\ BlockEnd(s, f) = e
      BY BlockIs, RawKindsAre
    <2>2. QED BY <2>1 DEF WithImports
  <1>4. h \in Seq(Lines) /\ Len(h) = f - 1 /\ \A k \in 1..(f - 1) : h[k] = s[k]
    <2>1. f - 1 \in 0..Len(s)
      BY <1>1
    <2>2. QED BY <1>2, <2>1, FirstLines
  <1>5. block \in Seq(Of(MidKinds))
    <2>1. ASSUME NEW k \in 1..(e - f) PROVE Exported(s, s[f + k - 1]) \in Seq(Of(MidKinds))
      <3>1. f + k - 1 \in f..(e - 1) /\ f + k - 1 \in 1..Len(s)
        BY <1>1
      <3>2. QED BY <1>1, <1>2, <3>1, ExportedIs
    <2>2. e - f \in Nat /\ pieces \in [1..(e - f) -> Seq(Of(MidKinds))]
      <3> DEFINE T == Seq(Of(MidKinds))
      <3>1. \A k \in 1..(e - f) : Exported(s, s[f + k - 1]) \in T
        BY <2>1
      <3> HIDE DEF T
      <3>2. pieces \in [1..(e - f) -> T]
        BY <3>1
      <3>3. e - f \in Nat
        BY <1>1
      <3>4. QED BY <3>2, <3>3 DEF T
    <2>3. pieces \in Seq(Seq(Of(MidKinds)))
      BY <2>2
    <2> HIDE DEF pieces
    <2>4. QED BY <2>3, FlattenType
  <1>6. Trimmed(block) \in Seq(Of(MidKinds))
    <2> HIDE DEF block
    <2>1. PICK z \in 0..Len(block) : Trimmed(block) = SubSeq(block, 1, z)
      BY <1>5, TrimmedIs
    <2>2. QED BY <1>5, <2>1, FirstLines
  <1>7. /\ n \in {0, 1} /\ e + n \in 1..(Len(s) + 1)
        /\ n = 1 => e \in 1..Len(s) /\ s[e].kind = "option"
    BY <1>1
  <1> HIDE DEF n
  <1>8. opt \in Seq(Of(MidKinds))
    <2>1. ASSUME NEW k \in e..(e + n - 1) PROVE s[k] \in Of(MidKinds)
      <3>1. k = e /\ n = 1
        BY <1>1, <1>7
      <3>2. s[k] \in Lines /\ s[k].kind = "option"
        BY <1>2, <1>7, <3>1
      <3>3. QED BY <3>2 DEF Of, MidKinds
    <2>2. e \in Int /\ e + n - 1 \in Int
      BY <1>1, <1>7
    <2>3. QED BY <2>1, <2>2, SubSeqProperties
  <1>9. c \in Seq(Of(TailKinds))
    <2>1. ASSUME NEW k \in (e + n)..Len(s) PROVE s[k].kind \in TailKinds
      <3>1. k \in 1..Len(s) /\ k \in e..Len(s)
        BY <1>1, <1>7
      <3>2. s[k].kind \in RawKinds /\ s[k].kind # "import"
        BY <1>1, <1>2, <3>1
      <3>3. QED BY <3>2 DEF RawKinds, TailKinds
    <2>2. QED BY <1>2, <1>7, <2>1, TailLines
  <1>10. ~Commented(h, Len(h) + 1)
    <2>1. ~Commented(s, f)
      BY <1>1 DEF Raw, Remarks, Comments
    <2>2. f \in Nat /\ \A k \in 1..(f - 1) : h[k].kind = s[k].kind
      BY <1>1, <1>4
    <2>3. Len(h) + 1 = f
      BY <1>1, <1>4
    <2> HIDE DEF h
    <2>4. QED BY <2>1, <2>2, <2>3, SameComments
  <1> HIDE DEF h, block, opt, c
  <1>11. Header(h1, Len(h) + 1)
    <2>1. \A k \in 1..Len(h) : h[k].kind \in Remarks
      BY <1>1, <1>4
    <2>2. Line("module") \in Lines /\ Line("module").kind = "module"
      BY LineIs
    <2>3. QED BY <1>4, <1>10, <2>1, <2>2, HeaderBegins
  <1>12. <<Line("blank")>> \in Seq(Of(MidKinds))
    <2>1. Line("blank") \in Of(MidKinds)
      BY LineIs DEF Of, MidKinds
    <2>2. QED BY <2>1
  <1> HIDE DEF h1
  <1>13. Header(h2, Len(h) + 1)
    BY <1>6, <1>11, HeaderMore
  <1> HIDE DEF h2
  <1>14. Header(h3, Len(h) + 1)
    BY <1>12, <1>13, HeaderMore
  <1> HIDE DEF h3
  <1>15. Header(h4, Len(h) + 1)
    BY <1>8, <1>14, HeaderMore
  <1> HIDE DEF h4
  <1>16. Open(g, Len(h) + 1, Len(h4) + 1)
    BY <1>15, HeaderOpens
  <1> HIDE DEF g
  <1>17. Open(g \o c, Len(h) + 1, Len(h4) + 1)
    BY <1>9, <1>16, OpenMore
  <1>18. QED BY <1>3, <1>17

LEMMA ConvertedIsForm ==
  ASSUME NEW s, Raw(s)
  PROVE  IsForm(Converted(s))
  <1>1. Kinds(s, Imports) = Kinds(s, {"import"})
    BY RawKindsAre
  <1>2. CASE \A k \in 1..Len(s) : s[k].kind # "import"
    <2>1. Kinds(s, Imports) = {}
      BY <1>1, <1>2 DEF Kinds
    <2>2. PICK m, e : Open(WithoutImports(s), m, e)
      BY <2>1, WithoutImportsOpens
    <2>3. QED BY <2>1, <2>2, Closing DEF Converted
  <1>3. CASE \E f, e : Block(s, f, e)
    <2>1. PICK f, e : Block(s, f, e)
      BY <1>3
    <2>2. Kinds(s, Imports) # {}
      BY <1>1, <2>1, BlockIs
    <2>3. PICK m, k : Open(WithImports(s), m, k)
      BY <2>1, WithImportsOpens
    <2>4. QED BY <2>2, <2>3, Closing DEF Converted
  <1>4. QED BY <1>2, <1>3 DEF Raw

\* Whatever the file, the script makes a module of it that it has nothing to do for.
LEMMA RunSettles ==
  ASSUME NEW s, Raw(s) \/ IsForm(s), spared \in BOOLEAN
  PROVE  IsForm(AfterRun(s)) /\ Settled(AfterRun(s), spared)
  <1> DEFINE x == IF is_module(s) THEN s ELSE Converted(s)
             y == ensure_meta_twins(x)
             z == IF spared THEN y ELSE ensure_bundle(y)
  <1>1. IsForm(x)
    <2>1. CASE Raw(s)
      BY <2>1, RawKindsAre, ConvertedIsForm
    <2>2. CASE IsForm(s)
      BY <2>2, FormIsModule DEF IsForm
    <2>3. QED BY <2>1, <2>2
  <1> HIDE DEF x
  <1>2. IsForm(y) /\ HasTwins(y)
    BY <1>1, TwinsSettle
  <1> HIDE DEF y
  <1>3. IsForm(z) /\ HasTwins(z) /\ (spared \/ ~NeedsBundle(z))
    BY <1>2, BundleSettles
  <1>4. AfterRun(s) = unprivate_defs(z)
    BY DEF AfterRun, modularize, x, y
  <1> HIDE DEF z
  <1>5. /\ IsForm(unprivate_defs(z)) /\ HasTwins(unprivate_defs(z))
        /\ NeedsBundle(unprivate_defs(z)) => NeedsBundle(z)
        /\ \A k \in 1..Len(unprivate_defs(z)) : unprivate_defs(z)[k].kind # "private"
    BY <1>3, UnprivateSettles
  <1>6. QED BY <1>3, <1>4, <1>5 DEF Settled

LEMMA SettledStays ==
  ASSUME NEW s, IsForm(s), Settled(s, spared), spared \in BOOLEAN
  PROVE  AfterRun(s) = s
  <1>1. PICK m, e : Form(s, m, e)
    BY DEF IsForm
  <1>2. s \in Seq(Lines) /\ is_module(s)
    BY <1>1, FormIsModule DEF Form
  <1>3. ensure_meta_twins(s) = s
    <2>1. CASE ~RunsCode(s)
      BY <2>1 DEF ensure_meta_twins
    <2>2. CASE RunsCode(s)
      <3>1. \A k \in 1..Len(s) : ~Lacks(s, s[k])
        BY <1>2, <2>2, SetOf DEF Settled, HasTwins
      <3>2. Pairs(s, s) = [k \in 1..Len(s) |-> <<s[k]>>]
        BY <3>1 DEF Pairs
      <3>3. ensure_meta_twins(s) = FlattenSeq(Pairs(s, s))
        BY <2>2 DEF ensure_meta_twins, Pairs
      <3>4. QED BY <1>2, <3>2, <3>3, FlattenOnes
    <2>3. QED BY <2>1, <2>2
  <1>4. modularize(s) = s
    <2>1. spared \/ ensure_bundle(s) = s
      BY DEF Settled, ensure_bundle
    <2>2. QED BY <1>2, <1>3, <2>1 DEF modularize
  <1>5. unprivate_defs(s) = s
    <2>1. Len(s) \in Nat /\ DOMAIN s = 1..Len(s) /\ s = [k \in 1..Len(s) |-> s[k]]
      BY <1>2
    <2>2. unprivate_defs(s) = [k \in 1..Len(s) |-> s[k]]
      BY DEF unprivate_defs, Settled
    <2>3. QED BY <2>1, <2>2
  <1>6. QED BY <1>4, <1>5 DEF AfterRun

-----------------------------------------------------------------------------
(* The files that the script finds: of upstream, and as they are vendored.   *)

LEMMA LeanFileIsRaw ==
  ASSUME NEW s, LeanFile(s)
  PROVE  Raw(s)
  <1> DEFINE I == Kinds(s, {"import"})
  <1>1. /\ s \in Seq([kind : Remarks \cup {"import", "code", "eval", "private"}, of : STRING])
        /\ \A k \in 1..Len(s) : Commented(s, k) => s[k].kind \in Remarks
        /\ \A k \in I : \A j \in 1..(k - 1) :
             s[j].kind \in IF I \cap (1..j) = {} THEN Remarks ELSE {"import", "blank"}
    BY DEF LeanFile
  <1>2. s \in Seq(Of(RawKinds)) /\ Len(s) \in Nat
    <2> DEFINE A == RawKinds \cup MidKinds \cup {"module", "expose", "end"}
               B == STRING \cup {"", "Bundle", "Own", "Part"}
               C == Remarks \cup {"import", "code", "eval", "private"}
    <2>1. C \subseteq A /\ C \subseteq RawKinds /\ STRING \subseteq B /\ Lines = [kind : A, of : B]
      BY DEF RawKinds, Lines
    <2> HIDE DEF A, B, C
    <2> DEFINE X == [kind : C, of : STRING]
    <2>2. X \subseteq Of(RawKinds)
      BY <2>1 DEF Of
    <2>3. s \in Seq(X)
      BY <1>1 DEF C
    <2> HIDE DEF X
    <2>4. Len(s) \in Nat /\ s \in [1..Len(s) -> X]
      BY <2>3
    <2>5. s \in [1..Len(s) -> Of(RawKinds)]
      BY <2>2, <2>4
    <2>6. QED BY <2>4, <2>5
  <1>3. \A k \in 1..Len(s) : s[k].kind \in RawKinds
    BY <1>2, OfIs
  <1>4. CASE I = {}
    <2>1. \A k \in 1..Len(s) : s[k].kind # "import"
      BY <1>4 DEF Kinds
    <2>2. QED BY <1>1, <1>2, <2>1 DEF Raw
  <1>5. CASE I # {}
    <2> DEFINE f == Lowest(I)
               E == {k \in f..(Len(s) + 1) : k > Len(s) \/ (~IsImport(s[k]) /\ ~IsBlank(s[k]))}
               e == Lowest(E)
    <2>1. I \in SUBSET Nat /\ \A k : k \in I <=> k \in 1..Len(s) /\ s[k].kind = "import"
      BY <1>2 DEF Kinds
    <2>2. f \in I /\ \A k \in I : f <= k
      <3> HIDE DEF I
      <3>1. QED BY <1>5, <2>1, LowestIs
    <2> HIDE DEF f, I
    <2>3. f \in 1..Len(s) /\ s[f].kind = "import"
      BY <2>1, <2>2
    <2>4. E \in SUBSET Nat /\ Len(s) + 1 \in E
      BY <1>2, <2>3
    <2>5. e \in E /\ \A k \in E : e <= k
      <3> HIDE DEF E
      <3>1. QED BY <2>4, LowestIs
    <2> HIDE DEF e
    <2>6. e \in f..(Len(s) + 1) /\ (e > Len(s) \/ (~IsImport(s[e]) /\ ~IsBlank(s[e])))
      BY <2>5
    <2>7. f # e
      BY <1>2, <2>3, <2>6 DEF IsImport, Imports
    <2>8. e \in 1..(Len(s) + 1) /\ f < e
      BY <1>2, <2>3, <2>6, <2>7
    <2>9. ASSUME NEW k \in 1..(f - 1) PROVE s[k].kind \in Remarks
      <3>1. \A j \in 1..k : j \notin I
        <4> SUFFICES ASSUME NEW j \in 1..k, j \in I PROVE FALSE
          OBVIOUS
        <4>1. f <= j
          BY <2>2
        <4>2. QED BY <2>3, <4>1
      <3>2. QED BY <1>1, <2>2, <3>1
    <2>10. ASSUME NEW k \in f..(e - 1) PROVE s[k].kind \in {"import", "blank"}
      <3>1. k \in f..(Len(s) + 1) /\ ~(e <= k) /\ k \in 1..Len(s)
        BY <1>2, <2>3, <2>8
      <3>2. k \notin E
        BY <2>5, <3>1
      <3>3. IsImport(s[k]) \/ IsBlank(s[k])
        BY <3>1, <3>2
      <3>4. s[k].kind \in RawKinds
        BY <1>3, <3>1
      <3>5. QED BY <3>3, <3>4 DEF IsImport, IsBlank, Imports, RawKinds, Remarks, Comments
    <2>11. ASSUME NEW k \in e..Len(s), s[k].kind = "import" PROVE FALSE
      <3>1. ~(e > Len(s)) /\ e \in 1..Len(s)
        BY <1>2, <2>8
      <3>2. ~IsImport(s[e]) /\ ~IsBlank(s[e])
        BY <2>6, <3>1
      <3>3. CASE k = e
        BY <2>11, <3>2, <3>3 DEF IsImport, Imports
      <3>4. CASE k # e
        <4>1. k \in I
          BY <1>2, <2>1, <2>8, <2>11
        <4>2. e \in 1..(k - 1)
          BY <2>8, <3>1, <3>4
        <4>3. f \in I \cap (1..e)
          BY <2>2, <2>3, <2>8
        <4>4. s[e].kind \in {"import", "blank"}
          BY <1>1, <4>1, <4>2, <4>3
        <4>5. QED BY <3>2, <4>4 DEF IsImport, IsBlank, Imports
      <3>5. QED BY <3>3, <3>4
    <2>12. e <= Len(s) => s[e].kind # "blank"
      <3>1. e <= Len(s) => ~(e > Len(s))
        BY <1>2, <2>8
      <3>2. QED BY <2>6, <3>1 DEF IsBlank
    <2>13. Block(s, f, e)
      BY <2>3, <2>8, <2>9, <2>10, <2>11, <2>12 DEF Block
    <2>14. QED BY <1>1, <1>2, <2>13 DEF Raw
  <1>6. QED BY <1>4, <1>5

LEMMA RenamedIsRaw ==
  ASSUME NEW s, Raw(s)
  PROVE  Raw(rewrite_imports(s))
  <1> DEFINE o == rewrite_imports(s)
  <1>1. /\ s \in Seq(Lines) /\ Len(s) \in Nat
        /\ \A k \in 1..Len(s) : s[k] \in Lines /\ s[k].kind \in RawKinds
    BY RawKindsAre
  <1>2. Import("import", "Own") \in Lines /\ Import("import", "Own").kind = "import"
    <2> DEFINE A == RawKinds \cup MidKinds \cup {"module", "expose", "end"}
               B == STRING \cup {"", "Bundle", "Own", "Part"}
    <2>1. "import" \in A /\ "Own" \in B /\ Lines = [kind : A, of : B]
      BY DEF RawKinds, Lines
    <2> HIDE DEF A, B
    <2>2. QED BY <2>1 DEF Import
  <1>3. Import("import", "Up").kind = "import"
    BY DEF Import
  <1>4. \A k \in 1..Len(s) : o[k] = IF s[k] = Import("import", "Up") THEN Import("import", "Own") ELSE s[k]
    BY DEF rewrite_imports
  <1>5. \A k \in 1..Len(s) : o[k].kind = s[k].kind /\ o[k] \in Of(RawKinds)
    BY <1>1, <1>2, <1>3, <1>4 DEF Of
  <1>6. o \in Seq(Of(RawKinds)) /\ Len(o) = Len(s)
    <2>1. o = [k \in 1..Len(s) |-> o[k]]
      BY DEF rewrite_imports
    <2> HIDE DEF o
    <2>2. o \in [1..Len(s) -> Of(RawKinds)]
      BY <1>5, <2>1
    <2>3. QED BY <1>1, <2>2
  <1> HIDE DEF o
  <1>7. ASSUME NEW k \in 1..Len(o), Commented(o, k) PROVE o[k].kind \in Remarks
    <2>1. k \in Nat /\ k \in 1..Len(s) /\ \A j \in 1..(k - 1) : j \in 1..Len(s)
      BY <1>1, <1>6
    <2>2. \A j \in 1..(k - 1) : o[j].kind = s[j].kind
      BY <1>5, <2>1
    <2>3. Commented(s, k)
      BY <1>7, <2>1, <2>2, SameComments
    <2>4. QED BY <1>5, <2>1, <2>3 DEF Raw
  <1>8. CASE \A k \in 1..Len(s) : s[k].kind # "import"
    BY <1>5, <1>6, <1>7, <1>8 DEF Raw, o
  <1>9. CASE \E f, e : Block(s, f, e)
    <2>1. PICK f, e : Block(s, f, e)
      BY <1>9
    <2>2. f \in 1..Len(s) /\ e \in 1..(Len(s) + 1) /\ f < e
      BY <2>1 DEF Block
    <2>3. /\ \A k \in 1..(f - 1) : k \in 1..Len(s)
          /\ \A k \in f..(e - 1) : k \in 1..Len(s)
          /\ \A k \in e..Len(s) : k \in 1..Len(s)
          /\ e <= Len(s) => e \in 1..Len(s)
      BY <1>1, <2>2
    <2>4. Block(o, f, e)
      BY <1>5, <1>6, <2>1, <2>3 DEF Block
    <2>5. QED BY <1>6, <1>7, <2>4 DEF Raw, o
  <1>10. QED BY <1>8, <1>9 DEF Raw

\* Lines before a file that is no module: none an import, no comment left open.
LEMMA RawAfter ==
  ASSUME NEW s, Raw(s), NEW h \in Seq(Of(RawKinds)),
         \A k \in 1..Len(h) : h[k].kind # "import",
         (\A k \in 1..Len(h) : h[k].kind \in Remarks) \/ \A k \in 1..Len(s) : s[k].kind # "import",
         \A k \in 1..Len(h) : Commented(h, k) => h[k].kind \in Remarks,
         \A j \in 1..Len(h) : h[j].kind = "open" => \E n \in (j + 1)..Len(h) : h[n].kind = "close"
  PROVE  Raw(h \o s)
  <1> DEFINE o == h \o s
             p == Len(h)
             n == Len(s)
  <1>1. /\ o \in Seq(Of(RawKinds)) /\ Len(o) = p + n /\ p \in Nat /\ n \in Nat
        /\ \A k \in 1..p : o[k] = h[k]
        /\ \A k \in (p + 1)..(p + n) : o[k] = s[k - p] /\ k - p \in 1..n
    BY TwoParts DEF Raw
  <1> HIDE DEF o
  <1>2. ASSUME NEW k \in 1..Len(o), Commented(o, k) PROVE o[k].kind \in Remarks
    <2>1. CASE k \in 1..p
      <3>1. k \in Nat /\ \A j \in 1..(k - 1) : j \in 1..p
        BY <1>1, <2>1
      <3>2. \A j \in 1..(k - 1) : o[j].kind = h[j].kind
        BY <1>1, <3>1
      <3>3. Commented(h, k)
        BY <1>2, <3>1, <3>2, SameComments
      <3>4. QED BY <1>1, <2>1, <3>3
    <2>2. CASE k \in (p + 1)..(p + n)
      <3>1. PICK j \in 1..(k - 1) : o[j].kind = "open" /\ \A x \in (j + 1)..(k - 1) : o[x].kind # "close"
        BY <1>2 DEF Commented
      <3>2. ~(j <= p)
        <4> SUFFICES ASSUME j <= p PROVE FALSE
          OBVIOUS
        <4>1. j \in 1..p
          BY <1>1
        <4>2. PICK x \in (j + 1)..p : h[x].kind = "close"
          BY <1>1, <3>1, <4>1
        <4>3. x \in (j + 1)..(k - 1) /\ x \in 1..p
          BY <1>1, <2>2, <4>1
        <4>4. QED BY <1>1, <3>1, <4>2, <4>3
      <3>3. j \in (p + 1)..(p + n) /\ j - p \in 1..(k - p - 1) /\ k - p \in 1..n
        BY <1>1, <2>2, <3>2
      <3>4. s[j - p].kind = "open"
        BY <1>1, <3>1, <3>3
      <3>5. ASSUME NEW x \in (j - p + 1)..(k - p - 1) PROVE s[x].kind # "close"
        <4>1. x + p \in (j + 1)..(k - 1) /\ x + p \in (p + 1)..(p + n) /\ x + p - p = x
          BY <1>1, <3>3
        <4>2. QED BY <1>1, <3>1, <4>1
      <3>6. Commented(s, k - p)
        BY <3>3, <3>4, <3>5 DEF Commented
      <3>7. s[k - p].kind \in Remarks
        BY <3>3, <3>6 DEF Raw
      <3>8. QED BY <1>1, <2>2, <3>7
    <2>3. QED BY <1>1, <2>1, <2>2
  <1>3. CASE \A k \in 1..Len(s) : s[k].kind # "import"
    <2>1. ASSUME NEW k \in 1..Len(o) PROVE o[k].kind # "import"
      <3>1. k \in 1..p \/ k \in (p + 1)..(p + n)
        BY <1>1
      <3>2. QED BY <1>1, <1>3, <3>1
    <2>2. QED BY <1>1, <1>2, <2>1 DEF Raw, o
  <1>4. CASE (\A k \in 1..Len(h) : h[k].kind \in Remarks) /\ \E f, e : Block(s, f, e)
    <2>1. PICK f, e : Block(s, f, e)
      BY <1>4
    <2>2. /\ f \in 1..n /\ e \in 1..(n + 1) /\ f < e
          /\ s[f].kind = "import"
          /\ \A k \in 1..(f - 1) : s[k].kind \in Remarks
          /\ \A k \in f..(e - 1) : s[k].kind \in {"import", "blank"}
          /\ \A k \in e..n : s[k].kind # "import"
          /\ (e <= n => s[e].kind # "blank")
      BY <2>1 DEF Block
    <2>3. p + f \in 1..Len(o) /\ p + e \in 1..(Len(o) + 1) /\ p + f < p + e
      BY <1>1, <2>2
    <2>4. \A k \in 1..n : o[p + k] = s[k]
      <3>1. \A k \in 1..n : p + k \in (p + 1)..(p + n) /\ p + k - p = k
        BY <1>1
      <3>2. QED BY <1>1, <3>1
    <2>5. ASSUME NEW k \in 1..((p + f) - 1) PROVE o[k].kind \in Remarks
      <3>1. k \in 1..p \/ (k \in (p + 1)..(p + n) /\ k - p \in 1..(f - 1))
        BY <1>1, <2>2
      <3>2. QED BY <1>1, <1>4, <2>2, <3>1
    <2>6. ASSUME NEW k \in (p + f)..((p + e) - 1) PROVE o[k].kind \in {"import", "blank"}
      <3>1. k \in (p + 1)..(p + n) /\ k - p \in f..(e - 1)
        BY <1>1, <2>2
      <3>2. QED BY <1>1, <2>2, <3>1
    <2>7. ASSUME NEW k \in (p + e)..Len(o) PROVE o[k].kind # "import"
      <3>1. k \in (p + 1)..(p + n) /\ k - p \in e..n
        BY <1>1, <2>2
      <3>2. QED BY <1>1, <2>2, <3>1
    <2>8. p + e <= Len(o) => o[p + e].kind # "blank"
      <3>1. p + e <= Len(o) => e <= n /\ e \in 1..n
        BY <1>1, <2>2
      <3>2. QED BY <2>2, <2>4, <3>1
    <2>9. o[p + f].kind = "import"
      BY <2>2, <2>4
    <2>10. Block(o, p + f, p + e)
      <3> DEFINE x == p + f
                 y == p + e
      <3>1. /\ x \in 1..Len(o) /\ y \in 1..(Len(o) + 1) /\ x < y /\ o[x].kind = "import"
            /\ (y <= Len(o) => o[y].kind # "blank")
        BY <2>3, <2>8, <2>9
      <3>2. /\ \A k \in 1..(x - 1) : o[k].kind \in Remarks
            /\ \A k \in x..(y - 1) : o[k].kind \in {"import", "blank"}
            /\ \A k \in y..Len(o) : o[k].kind # "import"
        <4>1. \A k \in 1..(x - 1) : o[k].kind \in Remarks
          BY <2>5
        <4>2. \A k \in x..(y - 1) : o[k].kind \in {"import", "blank"}
          BY <2>6
        <4>3. \A k \in y..Len(o) : o[k].kind # "import"
          BY <2>7
        <4>4. QED BY <4>1, <4>2, <4>3
      <3> HIDE DEF x, y
      <3>3. Block(o, x, y)
        BY <3>1, <3>2 DEF Block
      <3>4. QED BY <3>3 DEF x, y
    <2>11. QED BY <1>1, <1>2, <2>10 DEF Raw, o
  <1>5. QED BY <1>3, <1>4 DEF Raw

LEMMA OptionIsRaw ==
  ASSUME NEW s, Raw(s)
  PROVE  Raw(insert_auto_implicit(s))
  <1> DEFINE I == Kinds(s, {"import"})
             O == Line("option")
             B == Line("blank")
  <1>1. O \in Of(RawKinds) /\ O.kind = "option" /\ B \in Of(RawKinds) /\ B.kind = "blank"
    BY LineIs DEF Of, RawKinds, Remarks
  <1>2. CASE \A k \in 1..Len(s) : s[k].kind # "import"
    <2> DEFINE h == <<O>>
    <2>1. insert_auto_implicit(s) = h \o s
      BY <1>2 DEF insert_auto_implicit, Kinds
    <2> HIDE DEF O
    <2>2. h \in Seq(Of(RawKinds)) /\ Len(h) = 1 /\ \A k \in 1..1 : h[k] = O
      BY <1>1
    <2>3. \A k \in 1..Len(h) : ~Commented(h, k)
      BY <1>1, <2>2 DEF Commented
    <2> HIDE DEF h
    <2>4. Raw(h \o s)
      BY <1>1, <1>2, <2>2, <2>3, RawAfter
    <2>5. QED BY <2>1, <2>4
  <1>3. CASE \E f, e : Block(s, f, e)
    <2>1. PICK f, e : Block(s, f, e)
      BY <1>3
    <2> DEFINE n == Len(s)
               t == SubSeq(s, 1, e - 1)
               x == <<B, O, B>>
               c == SubSeq(s, e, Len(s))
    <2>2. /\ f \in 1..n /\ e \in 1..(n + 1) /\ f < e
          /\ s[f].kind = "import"
          /\ \A k \in 1..(f - 1) : s[k].kind \in Remarks
          /\ \A k \in f..(e - 1) : s[k].kind \in {"import", "blank"}
          /\ \A k \in e..n : s[k].kind # "import"
      BY <2>1 DEF Block
    <2>3. s \in Seq(Of(RawKinds)) /\ n \in Nat
      BY RawKindsAre DEF Raw
    <2>4. insert_auto_implicit(s) = Trimmed(t) \o x \o c
      <3>1. I # {} /\ Lowest(I) = f /\ BlockEnd(s, f) = e
        BY <2>1, BlockIs
      <3>2. QED BY <3>1 DEF insert_auto_implicit
    <2>5. t \in Seq(Of(RawKinds)) /\ Len(t) = e - 1 /\ \A k \in 1..(e - 1) : t[k] = s[k]
      <3>1. e - 1 \in 0..n
        BY <2>2, <2>3
      <3>2. QED BY <2>3, <3>1, FirstLines
    <2> HIDE DEF t, O, B
    <2>6. PICK p \in 0..Len(t) :
            /\ Trimmed(t) = SubSeq(t, 1, p)
            /\ p > 0 => t[p].kind # "blank"
            /\ \A k \in (p + 1)..Len(t) : t[k].kind = "blank"
      BY <2>5, TrimmedIs
    <2>7. f <= p /\ p \in Nat /\ p <= e - 1
      <3>1. p \in Nat /\ p <= e - 1
        BY <2>2, <2>3, <2>5
      <3>2. ASSUME ~(f <= p) PROVE FALSE
        <4>1. f \in (p + 1)..Len(t) /\ f \in 1..(e - 1)
          BY <2>2, <2>3, <2>5, <3>1, <3>2
        <4>2. QED BY <2>2, <2>5, <2>6, <4>1
      <3>3. QED BY <3>1, <3>2
    <2> DEFINE a == SubSeq(t, 1, p)
               o == a \o x \o c
    <2>8. a \in Seq(Of(RawKinds)) /\ Len(a) = p /\ \A k \in 1..p : a[k] = s[k]
      <3>1. a \in Seq(Of(RawKinds)) /\ Len(a) = p /\ \A k \in 1..p : a[k] = t[k]
        BY <2>5, FirstLines
      <3>2. \A k \in 1..p : k \in 1..(e - 1)
        BY <2>2, <2>7
      <3> HIDE DEF a
      <3>3. QED BY <2>5, <3>1, <3>2
    <2>9. x \in Seq(Of(RawKinds)) /\ Len(x) = 3 /\ x[1] = B /\ x[2] = O /\ x[3] = B
      BY <1>1
    <2>10. /\ c \in Seq(Of(RawKinds)) /\ Len(c) = n - (e - 1)
           /\ \A k \in 1..(n - (e - 1)) : c[k] = s[e - 1 + k]
      BY <2>2, <2>3, LastLines
    <2> HIDE DEF a, x, c
    <2>11. /\ o \in Seq(Of(RawKinds)) /\ Len(o) = p + 3 + (n - (e - 1))
           /\ \A k \in 1..p : o[k] = s[k]
           /\ \A k \in (p + 1)..(p + 3) : o[k] = x[k - p]
           /\ \A k \in (p + 3 + 1)..(p + 3 + (n - (e - 1))) : o[k] = c[k - p - 3]
      <3>1. /\ o \in Seq(Of(RawKinds))
            /\ Len(o) = Len(a) + Len(x) + Len(c)
            /\ \A k \in 1..Len(a) : o[k] = a[k]
            /\ \A k \in (Len(a) + 1)..(Len(a) + Len(x)) : o[k] = x[k - Len(a)]
            /\ \A k \in (Len(a) + Len(x) + 1)..(Len(a) + Len(x) + Len(c)) :
                 o[k] = c[k - Len(a) - Len(x)]
        <4>1. a \in Seq(Of(RawKinds)) /\ x \in Seq(Of(RawKinds)) /\ c \in Seq(Of(RawKinds))
          BY <2>8, <2>9, <2>10
        <4>2. QED BY <4>1, ThreeParts
      <3>2. Len(a) = p /\ Len(x) = 3 /\ Len(c) = n - (e - 1)
        BY <2>8, <2>9, <2>10
      <3> HIDE DEF o
      <3>3. QED BY <2>8, <3>1, <3>2
    <2> HIDE DEF o
    <2>12. \A k \in (p + 4)..Len(o) : o[k] = s[k + e - p - 4] /\ k + e - p - 4 \in e..n
      <3>1. ASSUME NEW k \in (p + 4)..Len(o)
            PROVE  o[k] = s[k + e - p - 4] /\ k + e - p - 4 \in e..n
        <4>1. /\ k \in (p + 3 + 1)..(p + 3 + (n - (e - 1)))
              /\ k - p - 3 \in 1..(n - (e - 1)) /\ e - 1 + (k - p - 3) = k + e - p - 4
              /\ k + e - p - 4 \in e..n
          <5>1. Len(o) = p + 3 + (n - (e - 1))
            BY <2>11
          <5>2. n \in Nat /\ e \in Nat /\ p \in Nat /\ e <= n + 1 /\ k \in (p + 4)..(p + 3 + (n - (e - 1)))
            BY <2>2, <2>3, <2>7, <5>1
          <5> HIDE DEF n
          <5>3. QED BY <5>2
        <4>2. QED BY <2>10, <2>11, <4>1
      <3>2. QED BY <3>1
    <2>13. o[p + 1].kind = "blank" /\ o[p + 2].kind = "option" /\ o[p + 3].kind = "blank"
      <3>1. /\ p + 1 \in (p + 1)..(p + 3) /\ p + 1 - p = 1
            /\ p + 2 \in (p + 1)..(p + 3) /\ p + 2 - p = 2
            /\ p + 3 \in (p + 1)..(p + 3) /\ p + 3 - p = 3
        BY <2>7
      <3>2. \A k, j : k \in (p + 1)..(p + 3) /\ k - p = j => o[k] = x[j]
        BY <2>11
      <3>3. QED BY <1>1, <2>9, <3>1, <3>2
    <2>14. Len(o) \in Nat /\ p + 3 <= Len(o)
      BY <2>2, <2>3, <2>7, <2>11
    \* The last line that is kept is an import, so no comment is open after it.
    <2>15. s[p].kind = "import" /\ p \in 1..n /\ ~Commented(s, p)
      <3>1. p > 0 /\ p \in 1..(e - 1) /\ p \in f..(e - 1) /\ p \in 1..n
        BY <2>2, <2>3, <2>7
      <3>2. s[p].kind \in {"import", "blank"} /\ s[p].kind # "blank"
        BY <2>2, <2>5, <2>6, <3>1
      <3>3. QED BY <3>1, <3>2 DEF Raw, Remarks, Comments
    <2>16. ASSUME NEW k \in (p + 1)..Len(o), NEW j \in 1..(k - 1), o[j].kind = "open",
                  \A z \in (j + 1)..(k - 1) : o[z].kind # "close"
           PROVE  ~(j <= p + 3)
      <3> SUFFICES ASSUME j <= p + 3 PROVE FALSE
        OBVIOUS
      <3>1. j \in 1..p
        <4>1. j = p + 1 \/ j = p + 2 \/ j = p + 3 \/ j \in 1..p
          BY <2>7
        <4>2. QED BY <2>13, <2>16, <4>1
      <3>2. o[j] = s[j] /\ j # p
        BY <2>11, <2>15, <2>16, <3>1
      <3>3. j \in 1..(p - 1) /\ \A z \in (j + 1)..(p - 1) : z \in (j + 1)..(k - 1) /\ z \in 1..p
        BY <2>7, <3>1, <3>2
      <3>4. Commented(s, p)
        BY <2>11, <2>16, <3>2, <3>3 DEF Commented
      <3>5. QED BY <2>15, <3>4
    <2>17. ASSUME NEW k \in 1..Len(o), Commented(o, k) PROVE o[k].kind \in Remarks
      <3>1. CASE k \in 1..p
        <4>1. k \in Nat /\ k \in 1..n /\ \A j \in 1..(k - 1) : j \in 1..p
          BY <2>7, <2>15, <3>1
        <4>2. \A j \in 1..(k - 1) : o[j].kind = s[j].kind
          BY <2>11, <4>1
        <4>3. Commented(s, k)
          BY <2>17, <4>1, <4>2, SameComments
        <4>4. QED BY <2>11, <3>1, <4>1, <4>3 DEF Raw
      <3>2. CASE k \in (p + 1)..Len(o)
        <4>1. PICK j \in 1..(k - 1) : o[j].kind = "open" /\ \A z \in (j + 1)..(k - 1) : o[z].kind # "close"
          BY <2>17 DEF Commented
        <4>2. ~(j <= p + 3)
          BY <2>16, <3>2, <4>1
        <4> DEFINE d == e - p - 4
        <4>3. /\ d \in Int /\ j \in (p + 4)..Len(o) /\ k \in (p + 4)..Len(o)
              /\ \A z : z + e - p - 4 = z + d
          BY <2>2, <2>3, <2>7, <2>14, <4>2
        <4>4. \A z \in (p + 4)..Len(o) : o[z] = s[z + e - p - 4] /\ z + e - p - 4 \in e..n
          BY <2>12
        <4>5. \A z \in (p + 4)..Len(o) : z + e - p - 4 = z + d
          BY <2>2, <2>7
        <4> HIDE DEF d
        <4>6. \A z \in (p + 4)..Len(o) : o[z] = s[z + d] /\ z + d \in e..n
          BY <4>4, <4>5
        <4>7. j + d \in 1..((k + d) - 1) /\ s[j + d].kind = "open"
          <5>1. j + d \in e..n /\ o[j] = s[j + d]
            BY <4>3, <4>6
          <5>2. j + d \in 1..((k + d) - 1)
            BY <2>2, <2>3, <4>3, <5>1
          <5>3. QED BY <4>1, <5>1, <5>2
        <4>8. ASSUME NEW z \in (j + d + 1)..((k + d) - 1) PROVE s[z].kind # "close"
          <5>1. z - d \in (j + 1)..(k - 1) /\ z - d \in (p + 4)..Len(o) /\ z - d + d = z
            BY <2>7, <4>3
          <5>2. QED BY <4>1, <4>6, <5>1
        <4>9. Commented(s, k + d)
          <5> DEFINE x1 == j + d
                     x2 == k + d
          <5>1. x1 \in 1..(x2 - 1) /\ s[x1].kind = "open"
            BY <4>7
          <5>2. \A z \in (x1 + 1)..(x2 - 1) : s[z].kind # "close"
            BY <4>8
          <5> HIDE DEF x1, x2
          <5>3. Commented(s, x2)
            BY <5>1, <5>2 DEF Commented
          <5>4. QED BY <5>3 DEF x2
        <4>10. k + d \in 1..n /\ o[k] = s[k + d]
          BY <2>2, <2>3, <4>3, <4>6
        <4>11. QED BY <4>9, <4>10 DEF Raw
      <3>3. QED BY <2>14, <3>1, <3>2
    <2>18. Block(o, f, p + 2)
      <3> DEFINE y == p + 2
      <3>1. f \in 1..Len(o) /\ y \in 1..(Len(o) + 1) /\ f < y /\ f \in 1..p
        BY <2>2, <2>3, <2>7, <2>14
      <3>2. o[f].kind = "import" /\ o[y].kind = "option"
        BY <2>2, <2>11, <2>13, <3>1
      <3>3. ASSUME NEW k \in 1..(f - 1) PROVE o[k].kind \in Remarks
        <4>1. k \in 1..p
          BY <2>7, <3>1
        <4>2. QED BY <2>2, <2>11, <4>1
      <3>4. ASSUME NEW k \in f..(y - 1) PROVE o[k].kind \in {"import", "blank"}
        <4>1. k = p + 1 \/ (k \in 1..p /\ k \in f..(e - 1))
          BY <2>2, <2>7
        <4>2. QED BY <2>2, <2>11, <2>13, <4>1
      <3>5. ASSUME NEW k \in y..Len(o) PROVE o[k].kind # "import"
        <4>1. k = p + 2 \/ k = p + 3 \/ k \in (p + 4)..Len(o)
          BY <2>7, <2>14
        <4>2. CASE k \in (p + 4)..Len(o)
          BY <2>2, <2>12, <4>2
        <4>3. QED BY <2>13, <4>1, <4>2
      <3> HIDE DEF y
      <3>6. Block(o, f, y)
        BY <3>1, <3>2, <3>3, <3>4, <3>5 DEF Block
      <3>7. QED BY <3>6 DEF y
    <2>19. Raw(o)
      BY <2>11, <2>17, <2>18 DEF Raw
    <2>20. QED BY <2>4, <2>6, <2>19 DEF o, a
  <1>4. QED BY <1>2, <1>3 DEF Raw

LEMMA VendoredIsRaw ==
  ASSUME NEW s, Raw(s)
  PROVE  Raw(AsVendored(s))
  <1> DEFINE O == Line("open")
             C == Line("close")
             h == <<O, C>>
             t == insert_auto_implicit(rewrite_imports(s))
  <1>1. Raw(t)
    BY RenamedIsRaw, OptionIsRaw
  <1>2. O \in Of(RawKinds) /\ O.kind = "open" /\ C \in Of(RawKinds) /\ C.kind = "close"
    BY LineIs DEF Of, RawKinds, Remarks, Comments
  <1>3. AsVendored(s) = h \o t
    BY DEF AsVendored, HEADER
  <1> HIDE DEF O, C, t
  <1>4. h \in Seq(Of(RawKinds)) /\ Len(h) = 2 /\ h[1] = O /\ h[2] = C
    BY <1>2
  <1> HIDE DEF h
  <1>5. \A k \in 1..Len(h) : h[k].kind \in {"open", "close"}
    <2>1. \A k \in 1..2 : k = 1 \/ k = 2
      OBVIOUS
    <2>2. QED BY <1>2, <1>4, <2>1
  <1>6. \A k \in 1..Len(h) : h[k].kind \in Remarks /\ h[k].kind # "import"
    BY <1>5 DEF Remarks, Comments
  <1>7. ASSUME NEW j \in 1..Len(h), h[j].kind = "open" PROVE \E n \in (j + 1)..Len(h) : h[n].kind = "close"
    <2>1. j = 1
      <3>1. j = 1 \/ j = 2
        BY <1>4
      <3>2. QED BY <1>2, <1>4, <1>7, <3>1
    <2>2. 2 \in (j + 1)..Len(h) /\ h[2].kind = "close"
      BY <1>2, <1>4, <2>1
    <2>3. QED BY <2>2
  <1>8. Raw(h \o t)
    BY <1>1, <1>4, <1>6, <1>7, RawAfter
  <1>9. QED BY <1>3, <1>8

-----------------------------------------------------------------------------
(* Any file, over any runs of the script and any work in between.           *)

LEMMA WorkKeepsForm ==
  ASSUME IsForm(content) \/ Raw(content), Work
  PROVE  IsForm(content')
  <1>1. is_module(content)
    BY DEF Work
  <1>2. PICK m, e : Form(content, m, e)
    BY <1>1, RawKindsAre DEF IsForm
  <1>3. m \in Nat /\ e \in Nat /\ Len(content) \in Nat /\ 1 <= m /\ m < e /\ e < Len(content)
    BY <1>2 DEF Form
  <1>4. Kinds(content, {"module"}) = {m} /\ Kinds(content, {"end"}) = {Len(content)}
    BY <1>2, FormKinds
  <1>5. CASE \E x \in {"Part", "Own"} :
               content' = InsertAt(content, Lowest(Kinds(content, {"module"})) + 1, Import("public", x))
    <2>1. PICK x \in {"Part", "Own"} :
            content' = InsertAt(content, Lowest(Kinds(content, {"module"})) + 1, Import("public", x))
      BY <1>5
    <2>2. Import("public", x) \in Lines /\ Import("public", x).kind \in MidKinds
      <3> DEFINE A == RawKinds \cup MidKinds \cup {"module", "expose", "end"}
                 B == STRING \cup {"", "Bundle", "Own", "Part"}
      <3>1. "public" \in A /\ x \in B /\ Lines = [kind : A, of : B] /\ "public" \in MidKinds
        BY DEF MidKinds, Lines
      <3> HIDE DEF A, B
      <3>2. QED BY <3>1 DEF Import
    <2>3. Lowest({m}) = m
      BY <1>3, LowestEq
    <2>4. m + 1 \in Nat /\ m < m + 1 /\ m + 1 <= e
      BY <1>3
    <2>5. QED BY <1>2, <1>4, <2>1, <2>2, <2>3, <2>4, InsertForm
  <1>6. CASE \E k \in {"eval", "private"} :
               content' = InsertAt(content, Highest(Kinds(content, {"end"})), Line(k))
    <2>1. PICK k \in {"eval", "private"} :
            content' = InsertAt(content, Highest(Kinds(content, {"end"})), Line(k))
      BY <1>6
    <2>2. Line(k) \in Lines /\ Line(k).kind \in TailKinds
      BY LineIs DEF TailKinds
    <2> DEFINE n == Len(content)
    <2>3. Highest({n}) = n
      <3>1. n \in Nat /\ {n} \in SUBSET (1..n) /\ n \in {n}
        BY <1>3
      <3> HIDE DEF n
      <3>2. QED BY <3>1, HighestEq
    <2>4. content' = InsertAt(content, n, Line(k))
      BY <1>4, <2>1, <2>3, Zenon
    <2> HIDE DEF n
    <2>5. IsForm(InsertAt(content, n, Line(k)))
      <3>1. n \in Nat /\ e < n /\ n <= Len(content)
        BY <1>3 DEF n
      <3>2. QED BY <1>2, <2>2, <3>1, InsertForm
    <2>6. QED BY <2>4, <2>5
  <1>7. QED BY <1>5, <1>6 DEF Work

LEMMA ModBegins == ModInit => ModInv
  <1> SUFFICES ASSUME ModInit PROVE ModInv
    OBVIOUS
  <1>1. PICK s \in Sources : content \in {s, AsVendored(s)}
    BY DEF ModInit
  <1>2. Raw(s)
    BY SourcesAssumption, LeanFileIsRaw
  <1>3. Raw(content)
    BY <1>1, <1>2, VendoredIsRaw
  <1>4. QED BY <1>3 DEF ModInit, ModInv

LEMMA ModSteps == ModInv /\ [ModNext]_modularizing => ModInv'
  <1> SUFFICES ASSUME ModInv, [ModNext]_modularizing PROVE ModInv'
    OBVIOUS
  <1>1. spared \in BOOLEAN /\ (Raw(content) \/ IsForm(content))
    BY DEF ModInv
  <1>2. CASE Modularized
    <2>1. content' = AfterRun(content) /\ written' = TRUE /\ spared' = spared
      BY <1>2 DEF Modularized
    <2>2. IsForm(content') /\ Settled(content', spared)
      BY <1>1, <2>1, RunSettles
    <2>3. QED BY <1>1, <2>1, <2>2 DEF ModInv
  <1>3. CASE Work
    <2>1. IsForm(content')
      BY <1>1, <1>3, WorkKeepsForm
    <2>2. written' = FALSE /\ spared' = spared
      BY <1>3 DEF Work
    <2>3. QED BY <1>1, <2>1, <2>2 DEF ModInv
  <1>4. CASE UNCHANGED modularizing
    BY <1>4 DEF ModInv, modularizing
  <1>5. QED BY <1>2, <1>3, <1>4 DEF ModNext

LEMMA SettledIs == ModInv => ModulesSettle
  <1> SUFFICES ASSUME ModInv, written PROVE HeaderInPlace /\ ImportsSuffice /\ AfterRun(content) = content
    BY DEF ModulesSettle
  <1>1. spared \in BOOLEAN /\ IsForm(content) /\ Settled(content, spared)
    BY DEF ModInv
  <1>2. PICK m, e : Form(content, m, e)
    BY <1>1 DEF IsForm
  <1>3. /\ content \in Seq(Lines) /\ m \in Nat /\ e \in Nat /\ Len(content) \in Nat
        /\ 1 <= m /\ m < e /\ e < Len(content)
    BY <1>2 DEF Form
  <1>4. AfterRun(content) = content
    BY <1>1, SettledStays
  <1>5. HeaderInPlace
    <2>1. /\ Kinds(content, {"module"}) = {m} /\ Kinds(content, {"expose"}) = {e}
          /\ Kinds(content, {"end"}) = {Len(content)} /\ Kinds(content, {"import"}) = {}
          /\ \A k \in Kinds(content, Imports) : m < k /\ k < e
          /\ \A k \in Kinds(content, {"code", "eval", "private"}) : e < k /\ k < Len(content)
      BY <1>2, FormKinds
    <2>2. Lowest({m}) = m /\ Lowest({e}) = e
      BY <1>3, LowestEq
    <2>3. Highest({Len(content)}) = Len(content)
      <3> DEFINE n == Len(content)
      <3>1. n \in Nat /\ {n} \in SUBSET (1..n) /\ n \in {n}
        BY <1>3
      <3> HIDE DEF n
      <3>2. Highest({n}) = n
        BY <3>1, HighestEq
      <3>3. QED BY <3>2 DEF n
    <2>4. Cardinality({m}) = 1 /\ Cardinality({e}) = 1
      BY FS_Singleton
    <2>5. Kinds(content, {"import", "private"}) = {}
      BY <1>1, <2>1 DEF Kinds, Settled
    <2>6. /\ Kinds(content, {"public", "meta"}) \subseteq Kinds(content, Imports)
          /\ Kinds(content, {"code", "eval"}) \subseteq Kinds(content, {"code", "eval", "private"})
      BY DEF Kinds, Imports
    <2>7. is_module(content)
      BY <1>2, FormIsModule
    <2>8. \A k \in Kinds(content, {"public", "meta"}) : m < k /\ k < e
      BY <2>1, <2>6
    <2>9. \A k \in Kinds(content, {"code", "eval"}) : e < k /\ k < Len(content)
      BY <2>1, <2>6
    <2>10. QED BY <2>1, <2>2, <2>3, <2>4, <2>5, <2>7, <2>8, <2>9 DEF HeaderInPlace
  <1>6. ImportsSuffice
    <2>1. ASSUME RunsCode(content), NEW k \in Kinds(content, {"public"}), content[k].of # "Bundle"
          PROVE  Import("meta", content[k].of) \in ToSet(content)
      <3>1. k \in 1..Len(content) /\ content[k].kind = "public"
        BY DEF Kinds
      <3>2. content[k] \in ToSet(content)
        BY <1>3, <3>1, SetOf
      <3>3. ~Lacks(content, content[k])
        BY <1>1, <2>1, <3>2 DEF Settled, HasTwins
      <3>4. QED BY <2>1, <3>1, <3>3 DEF Lacks, Twin
    <2>2. ~spared => ~NeedsBundle(content)
      BY <1>1 DEF Settled
    <2>3. QED BY <2>1, <2>2 DEF ImportsSuffice, NeedsBundle
  <1>7. QED BY <1>4, <1>5, <1>6

\* Whatever file modularize.py is run on, of any length, and whatever is done to it
\* between runs: what it writes is a module, as its readers need it, and running the
\* script again changes nothing.
THEOREM ModulesAreSettled == ModSpec => []ModulesSettle
  <1>1. ModInit => ModInv
    BY ModBegins
  <1>2. ModInv /\ [ModNext]_modularizing => ModInv'
    BY ModSteps
  <1>3. ModInv => ModulesSettle
    BY SettledIs
  <1>4. QED BY <1>1, <1>2, <1>3, PTL DEF ModSpec

=============================================================================
