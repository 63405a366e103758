--------------------------- MODULE LedgerSyncProofs ---------------------------
(***************************************************************************)
(* ledger-sync.py, for every ledger.  The answers of the memoizing walk    *)
(* never invent an admission, and are exact when the ledger has no cycle;  *)
(* and no record of a cited node enters the snapshot that nobody was       *)
(* shown, for every event log and any number of refreshes, cut short or    *)
(* not.                                                                    *)
(***************************************************************************)
EXTENDS ImportReach, Ledger, FiniteSetTheorems, WellFoundedInduction, TLAPS

Calls == Seq([node : Live \ admitted, left : SUBSET Live, out : SUBSET Ids])

\* Each call but the first is of something its caller rests on.
Chain ==
  /\ \A i \in DOMAIN frames : frames[i].left \subseteq Edges[frames[i].node]
  /\ \A i \in DOMAIN frames : i < Len(frames) =>
       frames[i + 1].node \in Edges[frames[i].node]
  /\ \A i, j \in DOMAIN frames : i < j => frames[j].node \in Below(frames[i].node)

Sound ==
  /\ \A k \in DOMAIN memo : memo[k] \subseteq Rests(k)
  /\ \A i \in DOMAIN frames : frames[i].out \subseteq Rests(frames[i].node)

\* What a call has taken is in its out, but for the call it waits for.
Complete ==
  Acyclic =>
    /\ \A k \in DOMAIN memo : Rests(k) \subseteq memo[k]
    /\ \A i \in DOMAIN frames : \A c \in Edges[frames[i].node] \ frames[i].left :
         Rests(c) \subseteq frames[i].out \/ (i < Len(frames) /\ c = frames[i + 1].node)

Inv == TypeOK /\ Chain /\ Sound /\ Complete

-----------------------------------------------------------------------------
(* What a node rests on.                                                   *)

LEMMA EdgesLive == \A k \in Live : Edges[k] \subseteq Live
  BY DEF Edges

LEMMA RestsOfAdmitted == \A k \in Live \cap admitted : Rests(k) = {k}
  <1> SUFFICES ASSUME NEW k \in Live \cap admitted PROVE Rests(k) = {k}
    OBVIOUS
  <1>1. Support(k, {k})
    BY DEF Support
  <1>2. QED BY <1>1 DEF Rests, Support

LEMMA RestsOnChildren ==
  ASSUME NEW k \in Live, k \notin admitted
  PROVE  Rests(k) = UNION {Rests(c) : c \in Edges[k]}
  <1>1. ASSUME NEW c \in Edges[k] PROVE Rests(c) \subseteq Rests(k)
    <2>1. ASSUME NEW S \in SUBSET Live, Support(k, S) PROVE Support(c, S)
      BY <2>1 DEF Support
    <2>2. QED BY <2>1 DEF Rests
  <1> DEFINE V(c) == {x \in Live : \A T \in SUBSET Live : Support(c, T) => x \in T}
             S == {k} \cup UNION {V(c) : c \in Edges[k]}
  <1>2. ASSUME NEW c \in Edges[k]
        PROVE  c \in V(c) /\ \A x \in V(c) \ admitted : Edges[x] \subseteq V(c)
    <2>1. c \in V(c)
      BY EdgesLive DEF Support
    <2>2. ASSUME NEW x \in V(c) \ admitted, NEW y \in Edges[x] PROVE y \in V(c)
      BY EdgesLive DEF Support
    <2>3. QED BY <2>1, <2>2
  <1>3. S \in SUBSET Live
    OBVIOUS
  <1>4. Support(k, S)
    <2>1. ASSUME NEW x \in S \ admitted, NEW y \in Edges[x] PROVE y \in S
      <3>1. CASE x = k
        BY <1>2, <3>1
      <3>2. ASSUME NEW c \in Edges[k], x \in V(c) PROVE y \in S
        BY <1>2, <3>2
      <3>3. QED BY <3>1, <3>2
    <2>2. QED BY <2>1 DEF Support
  <1>5. ASSUME NEW a \in Rests(k) PROVE \E c \in Edges[k] : a \in Rests(c)
    <2>1. a \in Live \cap admitted
      BY DEF Rests
    <2>2. a \in S
      BY <1>3, <1>4 DEF Rests
    <2>3. a # k
      BY <2>1
    <2>4. PICK c \in Edges[k] : a \in V(c)
      BY <2>2, <2>3
    <2>5. a \in Rests(c)
      BY <2>1, <2>4 DEF Rests
    <2>6. QED BY <2>5
  <1>6. QED BY <1>1, <1>5

LEMMA BelowGrows ==
  ASSUME NEW k \in Live
  PROVE  /\ Edges[k] \subseteq Below(k)
         /\ \A x \in Below(k) : Edges[x] \subseteq Below(k)
  BY EdgesLive DEF Below

-----------------------------------------------------------------------------
(* The frames after a step.                                                *)

LEMMA TopType ==
  ASSUME TypeOK, frames # <<>>
  PROVE  /\ Len(frames) \in Nat /\ Len(frames) >= 1 /\ DOMAIN frames = 1..Len(frames)
         /\ Len(frames) \in DOMAIN frames
         /\ Top \in [node : Live \ admitted, left : SUBSET Live, out : SUBSET Ids]
         /\ Top = frames[Len(frames)]
  <1> DEFINE C == [node : Live \ admitted, left : SUBSET Live, out : SUBSET Ids]
  <1>1. frames \in Seq(C)
    BY DEF TypeOK
  <1> HIDE DEF C
  <1>2. Len(frames) \in Nat /\ DOMAIN frames = 1..Len(frames)
    BY <1>1
  <1>3. Len(frames) # 0
    BY <1>1
  <1>4. \A i \in 1..Len(frames) : frames[i] \in C
    BY <1>1
  <1>5. QED BY <1>2, <1>3, <1>4 DEF Top, C

LEMMA FrameTypes ==
  ASSUME TypeOK, NEW i \in DOMAIN frames
  PROVE  frames[i].node \in Live \ admitted /\ frames[i].left \subseteq Live
  <1> DEFINE C == [node : Live \ admitted, left : SUBSET Live, out : SUBSET Ids]
  <1>1. frames \in Seq(C)
    BY DEF TypeOK
  <1> HIDE DEF C
  <1>2. frames[i] \in C
    BY <1>1
  <1>3. QED BY <1>2 DEF C

LEMMA TakeFrames ==
  ASSUME TypeOK, frames # <<>>, NEW c \in Top.left, NEW S \in SUBSET Ids, Take(c, S)
  PROVE  /\ frames' \in Calls /\ Len(frames') = Len(frames) /\ DOMAIN frames' = DOMAIN frames
         /\ \A i \in DOMAIN frames : /\ frames'[i].node = frames[i].node
                                     /\ i # Len(frames) => frames'[i] = frames[i]
         /\ frames'[Len(frames)].left = Top.left \ {c}
         /\ frames'[Len(frames)].out = Top.out \cup S
  <1> DEFINE C == [node : Live \ admitted, left : SUBSET Live, out : SUBSET Ids]
             n == Len(frames)
             t == [Top EXCEPT !.left = Top.left \ {c}, !.out = Top.out \cup S]
  <1>1. /\ n \in Nat /\ n >= 1 /\ DOMAIN frames = 1..n /\ n \in DOMAIN frames
        /\ Top \in C /\ Top = frames[n]
    BY TopType
  <1>2. frames \in Seq(C)
    BY DEF TypeOK
  <1>3. frames' = [frames EXCEPT ![n] = t]
    BY <1>1 DEF Take
  <1>4. /\ t.node = Top.node /\ t.left = Top.left \ {c} /\ t.out = Top.out \cup S
        /\ t \in C
    BY <1>1
  <1> HIDE DEF C, t
  <1>5. frames' \in Seq(C) /\ Len(frames') = n /\ DOMAIN frames' = DOMAIN frames
    BY <1>1, <1>2, <1>3, <1>4
  <1>6. frames'[n] = t /\ \A i \in DOMAIN frames : i # n => frames'[i] = frames[i]
    BY <1>1, <1>3
  <1>7. QED BY <1>1, <1>4, <1>5, <1>6 DEF C, Calls

LEMMA InputFixed ==
  ASSUME UNCHANGED input
  PROVE  /\ Live' = Live /\ Edges' = Edges /\ Calls' = Calls /\ Acyclic' = Acyclic
         /\ admitted' = admitted
         /\ \A k : Rests(k)' = Rests(k) /\ Below(k)' = Below(k)
  BY DEF input, Live, Edges, Calls, Acyclic, Rests, Below, Support

\* A child taken with S, which is what the child rests on unless it closes a
\* cycle, leaves the caller sound and complete.
LEMMA TakeKeepsInv ==
  ASSUME Inv, frames # <<>>, NEW c \in Top.left, NEW S \in SUBSET Ids, Take(c, S),
         UNCHANGED input, S \subseteq Rests(c), Acyclic => Rests(c) \subseteq S,
         DOMAIN memo' \subseteq Live, DOMAIN memo' \cap Busy = {},
         \A k \in DOMAIN memo' : memo'[k] \in SUBSET Ids /\ memo'[k] \subseteq Rests(k),
         Acyclic => \A k \in DOMAIN memo' : Rests(k) \subseteq memo'[k]
  PROVE  Inv'
  <1>1. TypeOK /\ Chain /\ Sound /\ Complete
    BY DEF Inv
  <1>2. /\ Live' = Live /\ Edges' = Edges /\ Calls' = Calls /\ Acyclic' = Acyclic
        /\ \A k : Rests(k)' = Rests(k) /\ Below(k)' = Below(k)
    BY InputFixed
  <1>3. /\ frames' \in Calls /\ Len(frames') = Len(frames) /\ DOMAIN frames' = DOMAIN frames
        /\ \A i \in DOMAIN frames : /\ frames'[i].node = frames[i].node
                                    /\ i # Len(frames) => frames'[i] = frames[i]
        /\ frames'[Len(frames)].left = Top.left \ {c}
        /\ frames'[Len(frames)].out = Top.out \cup S
    BY <1>1, TakeFrames
  <1>4. /\ Len(frames) \in Nat /\ Len(frames) \in DOMAIN frames /\ Top = frames[Len(frames)]
        /\ DOMAIN frames = 1..Len(frames)
        /\ Top.node \in Live \ admitted /\ Top.left \subseteq Edges[Top.node]
    BY <1>1, TopType DEF Chain
  <1>5. Rests(c) \subseteq Rests(Top.node)
    BY <1>4, RestsOnChildren
  <1>6. TypeOK'
    <2>1. Busy' = Busy
      BY <1>3 DEF Busy
    <2>2. \A i, j \in DOMAIN frames' : frames'[i].node = frames'[j].node => i = j
      BY <1>1, <1>3 DEF TypeOK
    <2>3. frames' \in Seq([node : (Live \ admitted)', left : SUBSET Live', out : SUBSET Ids])
      BY <1>2, <1>3, InputFixed DEF Calls
    <2>4. QED BY <1>1, <1>2, <2>1, <2>2, <2>3 DEF TypeOK, input
  <1>7. Chain'
    <2>1. \A i \in DOMAIN frames' : frames'[i].left \subseteq Edges[frames'[i].node]
      BY <1>1, <1>3, <1>4 DEF Chain
    <2>2. \A i \in DOMAIN frames' : i < Len(frames') =>
            frames'[i + 1].node \in Edges[frames'[i].node]
      <3> SUFFICES ASSUME NEW i \in DOMAIN frames, i < Len(frames)
                   PROVE  frames'[i + 1].node \in Edges[frames'[i].node]
        BY <1>3
      <3>1. i + 1 \in DOMAIN frames
        BY <1>4
      <3>2. QED BY <1>1, <1>3, <3>1 DEF Chain
    <2>3. \A i, j \in DOMAIN frames' : i < j => frames'[j].node \in Below(frames'[i].node)
      BY <1>1, <1>3 DEF Chain
    <2>4. QED BY <1>2, <2>1, <2>2, <2>3 DEF Chain
  <1>8. Sound'
    <2>1. \A i \in DOMAIN frames' : frames'[i].out \subseteq Rests(frames'[i].node)
      <3> SUFFICES ASSUME NEW i \in DOMAIN frames
                   PROVE  frames'[i].out \subseteq Rests(frames[i].node)
        BY <1>3
      <3>1. frames[i].out \subseteq Rests(frames[i].node)
        BY <1>1 DEF Sound
      <3>2. CASE i = Len(frames)
        BY <1>3, <1>4, <1>5, <3>1, <3>2
      <3>3. CASE i # Len(frames)
        BY <1>3, <3>1, <3>3
      <3>4. QED BY <3>2, <3>3
    <2>2. QED BY <1>2, <2>1 DEF Sound
  <1>9. Complete'
    <2> SUFFICES ASSUME Acyclic
                 PROVE  /\ \A k \in DOMAIN memo' : Rests(k) \subseteq memo'[k]
                        /\ \A i \in DOMAIN frames' :
                             \A d \in Edges[frames'[i].node] \ frames'[i].left :
                               \/ Rests(d) \subseteq frames'[i].out
                               \/ i < Len(frames') /\ d = frames'[i + 1].node
      BY <1>2 DEF Complete
    <2>1. ASSUME NEW i \in DOMAIN frames, NEW d \in Edges[frames[i].node] \ frames'[i].left
          PROVE  \/ Rests(d) \subseteq frames'[i].out
                 \/ i < Len(frames) /\ d = frames'[i + 1].node
      <3>1. CASE i # Len(frames)
        <4>1. frames'[i] = frames[i]
          BY <1>3, <3>1
        <4>2. i + 1 \in DOMAIN frames /\ i < Len(frames)
          BY <1>4, <3>1
        <4>3. \/ Rests(d) \subseteq frames[i].out
              \/ d = frames[i + 1].node
          BY <1>1, <2>1, <4>1 DEF Complete
        <4>4. QED BY <1>3, <4>1, <4>2, <4>3
      <3>2. CASE i = Len(frames) /\ d = c
        BY <1>3, <3>2
      <3>3. CASE i = Len(frames) /\ d # c
        <4>1. d \in Edges[Top.node] \ Top.left
          BY <1>3, <1>4, <2>1, <3>3
        <4>2. Rests(d) \subseteq Top.out
          BY <1>1, <1>4, <4>1 DEF Complete
        <4>3. QED BY <1>3, <3>3, <4>2
      <3>4. QED BY <3>1, <3>2, <3>3
    <2>2. QED BY <1>3, <2>1
  <1>10. QED BY <1>6, <1>7, <1>8, <1>9 DEF Inv

-----------------------------------------------------------------------------
(* The steps.                                                              *)

LEMMA InvInit == Init => Inv
  <1> SUFFICES ASSUME Init PROVE Inv
    OBVIOUS
  <1>1. frames = <<>> /\ DOMAIN memo = {} /\ DOMAIN frames = {}
    BY DEF Init, Begin
  <1>2. TypeOK
    BY <1>1 DEF Init, TypeOK, Busy
  <1>3. QED BY <1>1, <1>2 DEF Inv, Chain, Sound, Complete

\* The last call is chained to all of the others.
LEMMA TopBelow ==
  ASSUME Inv, frames # <<>>, NEW c \in Edges[Top.node]
  PROVE  \A i \in DOMAIN frames : c \in Below(frames[i].node)
  <1>1. /\ Len(frames) \in DOMAIN frames /\ DOMAIN frames = 1..Len(frames)
        /\ Len(frames) \in Nat /\ Top = frames[Len(frames)]
    BY TopType DEF Inv
  <1>2. ASSUME NEW i \in DOMAIN frames PROVE c \in Below(frames[i].node)
    <2>1. frames[i].node \in Live /\ Top.node \in Live
      BY <1>1, FrameTypes DEF Inv
    <2>2. CASE i = Len(frames)
      BY <1>1, <2>1, <2>2, BelowGrows
    <2>3. CASE i < Len(frames)
      <3>1. Top.node \in Below(frames[i].node)
        BY <1>1, <2>3 DEF Inv, Chain
      <3>2. QED BY <2>1, <3>1, BelowGrows
    <2>4. QED BY <1>1, <2>2, <2>3
  <1>3. QED BY <1>2

LEMMA CachedStep == ASSUME Inv, frames # <<>>, NEW c \in Top.left, Cached(c) PROVE Inv'
  <1>1. Take(c, memo[c]) /\ UNCHANGED <<input, memo>> /\ c \in DOMAIN memo
    BY DEF Cached
  <1>2. /\ memo[c] \in SUBSET Ids /\ memo[c] \subseteq Rests(c)
        /\ Acyclic => Rests(c) \subseteq memo[c]
        /\ DOMAIN memo \subseteq Live /\ DOMAIN memo \cap Busy = {}
        /\ \A k \in DOMAIN memo : memo[k] \in SUBSET Ids /\ memo[k] \subseteq Rests(k)
        /\ Acyclic => \A k \in DOMAIN memo : Rests(k) \subseteq memo[k]
    BY <1>1 DEF Inv, TypeOK, Sound, Complete
  <1> DEFINE S == memo[c]
  <1> HIDE DEF S
  <1>3. S \in SUBSET Ids /\ Take(c, S) /\ S \subseteq Rests(c) /\ (Acyclic => Rests(c) \subseteq S)
    BY <1>1, <1>2 DEF S
  <1>4. QED BY <1>1, <1>2, <1>3, TakeKeepsInv

\* Without cycles no child is under way.
LEMMA OnStackStep == ASSUME Inv, frames # <<>>, NEW c \in Top.left, OnStack(c) PROVE Inv'
  <1>1. Take(c, {}) /\ UNCHANGED <<input, memo>> /\ c \in Busy
    BY DEF OnStack
  <1>2. c \in Edges[Top.node]
    BY TopType DEF Inv, Chain
  <1>3. PICK i \in DOMAIN frames : c = frames[i].node
    BY <1>1 DEF Busy
  <1>4. c \in Live /\ c \in Below(c)
    <2>1. frames[i].node \in Live /\ c \in Below(frames[i].node)
      BY <1>2, TopBelow, FrameTypes DEF Inv
    <2>2. QED BY <1>3, <2>1
  <1>5. ~Acyclic
    BY <1>4 DEF Acyclic
  <1>6. /\ DOMAIN memo \subseteq Live /\ DOMAIN memo \cap Busy = {}
        /\ \A k \in DOMAIN memo : memo[k] \in SUBSET Ids /\ memo[k] \subseteq Rests(k)
    BY DEF Inv, TypeOK, Sound
  <1> DEFINE S == {}
  <1>7. S \in SUBSET Ids /\ Take(c, S) /\ S \subseteq Rests(c)
    BY <1>1
  <1> HIDE DEF S
  <1>8. QED BY <1>1, <1>5, <1>6, <1>7, TakeKeepsInv

LEMMA AdmittedStep == ASSUME Inv, frames # <<>>, NEW c \in Top.left, Admitted(c) PROVE Inv'
  <1>1. /\ memo' = [i \in DOMAIN memo \cup {c} |-> IF i = c THEN {c} ELSE memo[i]]
        /\ Take(c, {c}) /\ UNCHANGED input /\ c \in admitted /\ c \notin Busy
    BY DEF Admitted
  <1>2. c \in Live /\ c \in Ids
    BY TopType DEF Inv, TypeOK, Live
  <1>3. Rests(c) = {c}
    BY <1>1, <1>2, RestsOfAdmitted
  <1>4. /\ DOMAIN memo' \subseteq Live /\ DOMAIN memo' \cap Busy = {}
        /\ \A k \in DOMAIN memo' : memo'[k] \in SUBSET Ids /\ memo'[k] \subseteq Rests(k)
        /\ Acyclic => \A k \in DOMAIN memo' : Rests(k) \subseteq memo'[k]
    BY <1>1, <1>2, <1>3 DEF Inv, TypeOK, Sound, Complete
  <1> DEFINE S == {c}
  <1>5. S \in SUBSET Ids /\ Take(c, S) /\ S \subseteq Rests(c) /\ (Acyclic => Rests(c) \subseteq S)
    BY <1>1, <1>2, <1>3
  <1> HIDE DEF S
  <1>6. QED BY <1>1, <1>4, <1>5, TakeKeepsInv

LEMMA StartStep == ASSUME Inv, NEW k \in Live, Start(k) PROVE Inv'
  <1>1. frames = <<>> /\ k \notin DOMAIN memo /\ UNCHANGED input /\ DOMAIN frames = {}
    BY DEF Start
  <1>2. /\ Live' = Live /\ Edges' = Edges /\ Calls' = Calls /\ Acyclic' = Acyclic
        /\ admitted' = admitted /\ \A x : Rests(x)' = Rests(x) /\ Below(x)' = Below(x)
    BY <1>1, InputFixed
  <1>3. CASE k \in admitted
    <2>1. /\ memo' = [i \in DOMAIN memo \cup {k} |-> IF i = k THEN {k} ELSE memo[i]]
          /\ frames' = <<>> /\ DOMAIN frames' = {}
      BY <1>1, <1>3 DEF Start
    <2>2. Rests(k) = {k} /\ k \in Ids
      BY <1>3, RestsOfAdmitted DEF Live
    <2>3. TypeOK'
      BY <1>1, <1>2, <2>1, <2>2 DEF Inv, TypeOK, Busy, input
    <2>4. /\ \A x \in DOMAIN memo' : memo'[x] \subseteq Rests(x)
          /\ Acyclic => \A x \in DOMAIN memo' : Rests(x) \subseteq memo'[x]
      BY <2>1, <2>2 DEF Inv, Sound, Complete
    <2>5. QED BY <1>2, <2>1, <2>3, <2>4 DEF Inv, Chain, Sound, Complete
  <1>4. CASE k \notin admitted
    <2>1. frames' = <<Frame(k)>> /\ memo' = memo
      BY <1>1, <1>4 DEF Start
    <2>2. /\ Len(frames') = 1 /\ DOMAIN frames' = {1}
          /\ frames'[1].node = k /\ frames'[1].left = Edges[k] /\ frames'[1].out = {}
      BY <2>1 DEF Frame
    <2>3. frames' \in Calls
      BY <1>4, <2>1, EdgesLive DEF Calls, Frame
    <2>4. TypeOK'
      <3>1. Busy' = {k}
        BY <2>2 DEF Busy
      <3>2. frames' \in Seq([node : (Live \ admitted)', left : SUBSET Live', out : SUBSET Ids])
        BY <1>2, <2>3 DEF Calls
      <3>3. QED BY <1>1, <1>2, <2>1, <2>2, <3>1, <3>2 DEF Inv, TypeOK, input
    <2>5. Chain' /\ Sound' /\ Complete'
      BY <1>2, <2>1, <2>2 DEF Inv, Chain, Sound, Complete
    <2>6. QED BY <2>4, <2>5 DEF Inv
  <1>5. QED BY <1>3, <1>4

LEMMA CallStep == ASSUME Inv, frames # <<>>, NEW c \in Top.left, Call(c) PROVE Inv'
  <1>0. PICK n : n = Len(frames)
    OBVIOUS
  <1>1. /\ UNCHANGED <<input, memo>> /\ c \notin DOMAIN memo /\ c \notin Busy /\ c \notin admitted
        /\ frames' = Append([frames EXCEPT ![n].left = @ \ {c}], Frame(c))
    BY <1>0 DEF Call
  <1>2. n \in Nat /\ n >= 1 /\ DOMAIN frames = 1..n /\ n \in 1..n /\ Top = frames[n]
    BY <1>0, TopType DEF Inv
  <1>t. /\ frames \in Calls
        /\ Top \in [node : Live \ admitted, left : SUBSET Live, out : SUBSET Ids]
    BY TopType DEF Inv, TypeOK, Calls
  <1>3. c \in Edges[Top.node] /\ c \in Live
    BY <1>2, <1>t DEF Inv, Chain
  <1>4. /\ Live' = Live /\ Edges' = Edges /\ Calls' = Calls /\ Acyclic' = Acyclic
        /\ admitted' = admitted /\ \A x : Rests(x)' = Rests(x) /\ Below(x)' = Below(x)
    BY <1>1, InputFixed
  <1> DEFINE C == [node : Live \ admitted, left : SUBSET Live, out : SUBSET Ids]
  <1>f. PICK f : f = [frames EXCEPT ![n].left = @ \ {c}]
    OBVIOUS
  <1>5. /\ f \in Seq(C) /\ Len(f) = n /\ DOMAIN f = 1..n
        /\ f[n].node = frames[n].node /\ f[n].out = frames[n].out
        /\ f[n].left = frames[n].left \ {c}
        /\ \A i \in 1..n : i # n => f[i] = frames[i]
    <2>1. f = [frames EXCEPT ![n] = [Top EXCEPT !.left = Top.left \ {c}]]
      BY <1>2, <1>t, <1>f
    <2>2. [Top EXCEPT !.left = Top.left \ {c}] \in C
      BY <1>t
    <2>3. frames \in Seq(C)
      BY <1>t DEF Calls
    <2>t. PICK t : t = [Top EXCEPT !.left = Top.left \ {c}]
      OBVIOUS
    <2>4. t.node = Top.node /\ t.out = Top.out /\ t.left = Top.left \ {c}
      BY <1>t, <2>t
    <2> HIDE DEF C
    <2>5. f = [frames EXCEPT ![n] = t] /\ t \in C
      BY <2>1, <2>2, <2>t
    <2>6. f \in Seq(C) /\ Len(f) = n /\ DOMAIN f = 1..n
      BY <1>0, <1>2, <2>3, <2>5
    <2>7. f[n] = t /\ \A i \in 1..n : i # n => f[i] = frames[i]
      BY <1>2, <2>5
    <2>8. QED BY <1>2, <2>4, <2>6, <2>7
  <1>6. Frame(c) \in C
    BY <1>1, <1>3, EdgesLive DEF Frame
  <1>7. /\ frames' \in Seq(C) /\ Len(frames') = n + 1 /\ DOMAIN frames' = 1..(n + 1)
        /\ \A i \in 1..n : frames'[i] = f[i]
        /\ frames'[n + 1] = Frame(c)
    <2> HIDE DEF C
    <2>1. frames' = Append(f, Frame(c))
      BY <1>1, <1>f
    <2>2. QED BY <1>2, <1>5, <1>6, <2>1
  <1> HIDE DEF C
  <1>8. /\ \A i \in 1..n : frames'[i].node = frames[i].node
        /\ \A i \in 1..n : frames'[i].out = frames[i].out
        /\ \A i \in 1..n : i # n => frames'[i].left = frames[i].left
        /\ frames'[n].left = Top.left \ {c}
        /\ frames'[n + 1].node = c /\ frames'[n + 1].left = Edges[c] /\ frames'[n + 1].out = {}
    BY <1>2, <1>5, <1>7 DEF Frame
  <1>9. TypeOK'
    <2>1. Busy' = Busy \cup {c}
      BY <1>2, <1>7, <1>8 DEF Busy
    <2>2. \A i, j \in DOMAIN frames' : frames'[i].node = frames'[j].node => i = j
      <3>1. \A i \in 1..n : frames'[i].node # c
        BY <1>1, <1>2, <1>8 DEF Busy
      <3>2. \A i, j \in 1..n : frames'[i].node = frames'[j].node => i = j
        BY <1>2, <1>8 DEF Inv, TypeOK
      <3>3. QED BY <1>2, <1>7, <1>8, <3>1, <3>2
    <2>3. frames' \in Seq([node : (Live \ admitted)', left : SUBSET Live', out : SUBSET Ids])
      BY <1>4, <1>7 DEF C
    <2>4. /\ archived' \subseteq Ids /\ admitted' \subseteq Ids /\ deps' \in [Ids -> SUBSET Ids]
          /\ DOMAIN memo' \subseteq Live' /\ \A k \in DOMAIN memo' : memo'[k] \subseteq Ids
          /\ Busy' \cap DOMAIN memo' = {}
      BY <1>1, <1>4, <2>1 DEF Inv, TypeOK, input
    <2>5. QED BY <2>2, <2>3, <2>4 DEF TypeOK
  <1>10. Chain'
    <2>1. \A i \in 1..(n + 1) : frames'[i].left \subseteq Edges[frames'[i].node]
      BY <1>2, <1>8 DEF Inv, Chain
    <2>2. ASSUME NEW i \in 1..(n + 1), i < n + 1
          PROVE  frames'[i + 1].node \in Edges[frames'[i].node]
      <3>1. CASE i = n
        BY <1>2, <1>3, <1>8, <3>1
      <3>2. CASE i # n
        <4>1. i \in 1..n /\ i + 1 \in 1..n /\ i < n
          BY <1>2, <2>2, <3>2
        <4>2. frames[i + 1].node \in Edges[frames[i].node]
          BY <1>0, <1>2, <4>1 DEF Inv, Chain
        <4>3. QED BY <1>8, <4>1, <4>2
      <3>3. QED BY <3>1, <3>2
    <2>3. ASSUME NEW i \in 1..(n + 1), NEW j \in 1..(n + 1), i < j
          PROVE  frames'[j].node \in Below(frames'[i].node)
      <3>1. CASE j = n + 1
        <4>1. i \in 1..n
          BY <1>2, <2>3, <3>1
        <4>2. c \in Below(frames[i].node)
          BY <1>2, <1>3, <4>1, TopBelow
        <4>3. QED BY <1>8, <3>1, <4>1, <4>2
      <3>2. CASE j # n + 1
        <4>1. i \in 1..n /\ j \in 1..n
          BY <1>2, <2>3, <3>2
        <4>2. frames[j].node \in Below(frames[i].node)
          BY <1>2, <2>3, <4>1 DEF Inv, Chain
        <4>3. QED BY <1>8, <4>1, <4>2
      <3>3. QED BY <3>1, <3>2
    <2>4. QED BY <1>4, <1>7, <2>1, <2>2, <2>3 DEF Chain
  <1>11. Sound'
    <2>1. \A i \in 1..(n + 1) : frames'[i].out \subseteq Rests(frames'[i].node)
      BY <1>2, <1>8 DEF Inv, Sound
    <2>2. QED BY <1>1, <1>4, <1>7, <2>1 DEF Inv, Sound
  <1>12. Complete'
    <2> SUFFICES ASSUME Acyclic, NEW i \in 1..(n + 1),
                        NEW d \in Edges[frames'[i].node] \ frames'[i].left
                 PROVE  \/ Rests(d) \subseteq frames'[i].out
                        \/ i < n + 1 /\ d = frames'[i + 1].node
      <3>1. Acyclic => \A k \in DOMAIN memo' : Rests(k)' \subseteq memo'[k]
        BY <1>1, <1>4 DEF Inv, Complete
      <3>2. Edges' = Edges /\ Len(frames') = n + 1 /\ DOMAIN frames' = 1..(n + 1)
        BY <1>4, <1>7
      <3>3. QED BY <1>4, <3>1, <3>2 DEF Complete
    <2>1. CASE i = n + 1
      BY <1>8, <2>1
    <2>2. CASE i = n /\ d = c
      BY <1>2, <1>8, <2>2
    <2>3. CASE i = n /\ d # c
      <3>1. d \in Edges[frames[n].node] \ frames[n].left
        BY <1>2, <1>8, <2>3
      <3>2. Rests(d) \subseteq frames[n].out
        BY <1>0, <1>2, <3>1 DEF Inv, Complete
      <3>3. QED BY <1>2, <1>8, <2>3, <3>2
    <2>4. CASE i < n
      <3>1. i \in 1..n /\ i # n /\ i + 1 \in 1..n
        BY <1>2, <2>4
      <3>2. Rests(d) \subseteq frames[i].out \/ d = frames[i + 1].node
        BY <1>0, <1>2, <1>8, <3>1 DEF Inv, Complete
      <3>3. QED BY <1>2, <1>8, <3>1, <3>2
    <2>5. QED BY <1>2, <2>1, <2>2, <2>3, <2>4
  <1>13. QED BY <1>9, <1>10, <1>11, <1>12 DEF Inv

LEMMA FinishStep == ASSUME Inv, frames # <<>>, Finish PROVE Inv'
  <1>0. PICK n : n = Len(frames)
    OBVIOUS
  <1>m. PICK m : m = n - 1
    OBVIOUS
  <1>1. /\ UNCHANGED input /\ Top.left = {} /\ Return(Top.out)
        /\ memo' = [i \in DOMAIN memo \cup {Top.node} |->
                      IF i = Top.node THEN Top.out ELSE memo[i]]
    BY DEF Finish
  <1>2. /\ n \in Nat /\ n >= 1 /\ DOMAIN frames = 1..n /\ n \in 1..n /\ Top = frames[n]
        /\ m \in Nat /\ n = m + 1
    BY <1>0, <1>m, TopType DEF Inv
  <1>t. /\ frames \in Calls
        /\ Top \in [node : Live \ admitted, left : SUBSET Live, out : SUBSET Ids]
    BY TopType DEF Inv, TypeOK, Calls
  <1>4. /\ Live' = Live /\ Edges' = Edges /\ Calls' = Calls /\ Acyclic' = Acyclic
        /\ admitted' = admitted /\ \A x : Rests(x)' = Rests(x) /\ Below(x)' = Below(x)
    BY <1>1, InputFixed
  <1>5. Top.out \subseteq Rests(Top.node) /\ (Acyclic => Rests(Top.node) \subseteq Top.out)
    <2>1. Top.out \subseteq Rests(Top.node)
      BY <1>2 DEF Inv, Sound
    <2>2. ASSUME Acyclic, NEW d \in Edges[Top.node] PROVE Rests(d) \subseteq Top.out
      BY <1>0, <1>1, <1>2, <2>2 DEF Inv, Complete
    <2>3. Rests(Top.node) = UNION {Rests(d) : d \in Edges[Top.node]}
      BY <1>t, RestsOnChildren
    <2>4. QED BY <2>1, <2>2, <2>3
  <1>6. /\ Len(frames') = m /\ DOMAIN frames' = 1..m /\ frames' \in Calls
        /\ \A i \in 1..m : frames'[i].node = frames[i].node
        /\ \A i \in 1..m : frames'[i].left = frames[i].left
        /\ \A i \in 1..m : i # m => frames'[i].out = frames[i].out
        /\ m # 0 => frames'[m].out = frames[m].out \cup Top.out
    <2> DEFINE C == [node : Live \ admitted, left : SUBSET Live, out : SUBSET Ids]
    <2>1. frames \in Seq(C) /\ Top \in C
      BY <1>t DEF Calls
    <2>2. PICK calls : calls = SubSeq(frames, 1, m)
      OBVIOUS
    <2> HIDE DEF C
    <2>3. /\ calls \in Seq(C) /\ Len(calls) = m /\ DOMAIN calls = 1..m
          /\ \A i \in 1..m : calls[i] = frames[i]
      BY <1>0, <1>2, <2>1, <2>2
    <2>4. frames' = IF calls = <<>> THEN <<>>
                    ELSE [calls EXCEPT ![m].out = @ \cup Top.out]
      BY <1>0, <1>m, <1>1, <2>2, <2>3 DEF Return
    <2>5. CASE m = 0
      <3>1. calls = <<>> /\ frames' = <<>>
        BY <2>3, <2>4, <2>5
      <3>2. QED BY <2>5, <3>1, <1>4 DEF Calls
    <2>6. CASE m # 0
      <3>1. m \in 1..m /\ calls # <<>> /\ m \in 1..n
        BY <1>2, <2>3, <2>6
      <3>2. calls[m] \in C
        BY <2>3, <3>1
      <3>3. PICK t : t = [calls[m] EXCEPT !.out = calls[m].out \cup Top.out]
        OBVIOUS
      <3>4. /\ t.node = calls[m].node /\ t.left = calls[m].left
            /\ t.out = calls[m].out \cup Top.out /\ t \in C
        BY <2>1, <3>2, <3>3 DEF C
      <3>5. frames' = [calls EXCEPT ![m] = t]
        BY <2>4, <3>1, <3>3
      <3>6. frames' \in Seq(C) /\ Len(frames') = m /\ DOMAIN frames' = 1..m
        BY <2>3, <3>1, <3>4, <3>5
      <3>7. frames'[m] = t /\ \A i \in 1..m : i # m => frames'[i] = frames[i]
        BY <2>3, <3>1, <3>5
      <3>8. frames' \in Calls
        BY <3>6 DEF C, Calls
      <3>9. calls[m] = frames[m]
        BY <2>3, <3>1
      <3>10. QED BY <3>4, <3>6, <3>7, <3>8, <3>9
    <2>7. QED BY <2>5, <2>6
  <1>7. ASSUME NEW i \in 1..m PROVE i \in 1..n /\ i # n /\ i < n
    BY <1>2
  <1>8. m # 0 => /\ m \in 1..m /\ m \in 1..n
                 /\ Top.node \in Edges[frames[m].node]
                 /\ frames[m].node \in Live /\ frames[m].node \notin admitted
    <2> SUFFICES ASSUME m # 0
                 PROVE  /\ m \in 1..m /\ m \in 1..n /\ Top.node \in Edges[frames[m].node]
                        /\ frames[m].node \in Live /\ frames[m].node \notin admitted
      OBVIOUS
    <2>1. m \in 1..m /\ m \in 1..n /\ m < n
      BY <1>2
    <2>2. frames[m + 1].node \in Edges[frames[m].node]
      BY <1>0, <1>2, <2>1 DEF Inv, Chain
    <2>3. frames[m].node \in Live \ admitted
      BY <1>2, <2>1, FrameTypes DEF Inv
    <2>4. QED BY <1>2, <2>1, <2>2, <2>3
  <1>9. /\ DOMAIN memo' = DOMAIN memo \cup {Top.node}
        /\ \A k \in DOMAIN memo' : memo'[k] \subseteq Ids /\ memo'[k] \subseteq Rests(k)
        /\ Acyclic => \A k \in DOMAIN memo' : Rests(k) \subseteq memo'[k]
    BY <1>1, <1>5, <1>t DEF Inv, TypeOK, Sound, Complete
  <1>10. TypeOK'
    <2>1. \A i, j \in 1..n : frames[i].node = frames[j].node => i = j
      BY <1>2 DEF Inv, TypeOK
    <2>2. Busy' \cap DOMAIN memo' = {}
      <3>1. ASSUME NEW i \in 1..m PROVE frames'[i].node \notin DOMAIN memo'
        <4>1. frames[i].node # Top.node
          BY <1>2, <1>7, <2>1
        <4>2. frames[i].node \notin DOMAIN memo
          BY <1>2, <1>7 DEF Inv, TypeOK, Busy
        <4>3. QED BY <1>6, <1>9, <4>1, <4>2
      <3>2. QED BY <1>6, <3>1 DEF Busy
    <2>3. \A i, j \in DOMAIN frames' : frames'[i].node = frames'[j].node => i = j
      BY <1>6, <1>7, <2>1
    <2>4. frames' \in Seq([node : (Live \ admitted)', left : SUBSET Live', out : SUBSET Ids])
      BY <1>4, <1>6 DEF Calls
    <2>5. /\ archived' \subseteq Ids /\ admitted' \subseteq Ids /\ deps' \in [Ids -> SUBSET Ids]
          /\ DOMAIN memo' \subseteq Live'
      BY <1>1, <1>4, <1>9, <1>t DEF Inv, TypeOK, input
    <2>6. QED BY <1>9, <2>2, <2>3, <2>4, <2>5 DEF TypeOK
  <1>11. Chain'
    <2>1. \A i \in 1..m : frames'[i].left \subseteq Edges[frames'[i].node]
      BY <1>2, <1>6, <1>7 DEF Inv, Chain
    <2>2. ASSUME NEW i \in 1..m, i < m PROVE frames'[i + 1].node \in Edges[frames'[i].node]
      <3>1. i + 1 \in 1..m
        BY <1>2, <2>2
      <3>2. frames[i + 1].node \in Edges[frames[i].node]
        BY <1>0, <1>2, <1>7 DEF Inv, Chain
      <3>3. QED BY <1>6, <3>1, <3>2
    <2>3. ASSUME NEW i \in 1..m, NEW j \in 1..m, i < j
          PROVE  frames'[j].node \in Below(frames'[i].node)
      <3>1. frames[j].node \in Below(frames[i].node)
        BY <1>2, <1>7, <2>3 DEF Inv, Chain
      <3>2. QED BY <1>6, <3>1
    <2>4. QED BY <1>4, <1>6, <2>1, <2>2, <2>3 DEF Chain
  <1>12. Sound'
    <2>1. ASSUME NEW i \in 1..m PROVE frames'[i].out \subseteq Rests(frames'[i].node)
      <3>1. frames[i].out \subseteq Rests(frames[i].node)
        BY <1>2, <1>7 DEF Inv, Sound
      <3>2. CASE i # m
        BY <1>6, <3>1, <3>2
      <3>3. CASE i = m
        <4>1. m # 0
          BY <1>2, <3>3
        <4>2. Rests(Top.node) \subseteq Rests(frames[m].node)
          BY <1>8, <4>1, RestsOnChildren
        <4>3. QED BY <1>5, <1>6, <3>1, <3>3, <4>1, <4>2
      <3>4. QED BY <3>2, <3>3
    <2>2. QED BY <1>4, <1>6, <1>9, <2>1 DEF Sound
  <1>13. Complete'
    <2>1. ASSUME Acyclic, NEW i \in 1..m, NEW d \in Edges[frames'[i].node] \ frames'[i].left
          PROVE  \/ Rests(d) \subseteq frames'[i].out
                 \/ i < m /\ d = frames'[i + 1].node
      <3>1. d \in Edges[frames[i].node] \ frames[i].left
        BY <1>6, <2>1
      <3>2. Rests(d) \subseteq frames[i].out \/ d = frames[i + 1].node
        BY <1>0, <1>2, <1>7, <2>1, <3>1 DEF Inv, Complete
      <3>3. CASE i # m
        <4>1. i + 1 \in 1..m /\ i < m
          BY <1>2, <3>3
        <4>2. QED BY <1>6, <3>2, <3>3, <4>1
      <3>4. CASE i = m
        <4>1. m # 0 /\ frames[i + 1].node = Top.node
          BY <1>2, <3>4
        <4>2. frames'[i].out = frames[i].out \cup Top.out
          BY <1>6, <3>4, <4>1
        <4>3. QED BY <1>5, <2>1, <3>2, <4>1, <4>2
      <3>5. QED BY <3>3, <3>4
    <2>2. Acyclic => \A k \in DOMAIN memo' : Rests(k)' \subseteq memo'[k]
      BY <1>4, <1>9
    <2>3. Edges' = Edges /\ Len(frames') = m /\ DOMAIN frames' = 1..m
      BY <1>4, <1>6
    <2>4. QED BY <1>4, <2>1, <2>2, <2>3 DEF Complete
  <1>14. QED BY <1>10, <1>11, <1>12, <1>13 DEF Inv

LEMMA StutterKeepsInv == Inv /\ UNCHANGED vars => Inv'
  <1> SUFFICES ASSUME Inv, UNCHANGED vars PROVE Inv'
    OBVIOUS
  <1>1. UNCHANGED input /\ memo' = memo /\ frames' = frames
    BY DEF vars
  <1>2. /\ Live' = Live /\ Edges' = Edges /\ Acyclic' = Acyclic /\ admitted' = admitted
        /\ \A x : Rests(x)' = Rests(x) /\ Below(x)' = Below(x)
    BY <1>1, InputFixed
  <1>3. TypeOK'
    BY <1>1, <1>2 DEF Inv, TypeOK, Busy, input
  <1>4. Chain' /\ Sound' /\ Complete'
    BY <1>1, <1>2 DEF Inv, Chain, Sound, Complete
  <1>5. QED BY <1>3, <1>4 DEF Inv

LEMMA InvNext == Inv /\ [Next]_vars => Inv'
  <1> SUFFICES ASSUME Inv, Next PROVE Inv'
    BY StutterKeepsInv
  <1>1. ASSUME NEW k \in Live, Start(k) PROVE Inv'
    BY <1>1, StartStep
  <1>2. ASSUME frames # <<>>, Finish PROVE Inv'
    BY <1>2, FinishStep
  <1>3. ASSUME frames # <<>>, NEW c \in Top.left,
               Cached(c) \/ OnStack(c) \/ Admitted(c) \/ Call(c)
        PROVE  Inv'
    BY <1>3, CachedStep, OnStackStep, AdmittedStep, CallStep
  <1>4. QED BY <1>1, <1>2, <1>3 DEF Next

LEMMA Invariance == Spec => []Inv
  BY InvInit, InvNext, PTL DEF Spec

\* Every variable keeps its type: a call is of a live node that has no answer yet
\* and is not under way already.
THEOREM CallsAreDistinct == Spec => []TypeOK
  <1>1. Inv => TypeOK
    BY DEF Inv
  <1>2. QED BY Invariance, <1>1, PTL

\* For every ledger, no answer names an admission that the node does not rest on.
THEOREM NothingInvented == Spec => []NeverInvents
  <1>1. Inv => NeverInvents
    BY DEF Inv, Sound, NeverInvents
  <1>2. QED BY Invariance, <1>1, PTL

\* For every ledger without cycles, each answer is exact, in whatever order the
\* nodes and their children are visited.
THEOREM AcyclicLedgersAreExact == Spec => []ExactWhenAcyclic
  <1>1. Inv => ExactWhenAcyclic
    BY DEF Inv, Sound, Complete, ExactWhenAcyclic
  <1>2. QED BY Invariance, <1>1, PTL
-----------------------------------------------------------------------------
(* The snapshot.  The argument follows the records that can still become   *)
(* the file's: those that were committed, and those that a refresh has     *)
(* reported and is about to write.  What a replay computes does not matter *)
(* to it.                                                                  *)

\* Somebody has seen what s says of each cited node.
Seen(s) == \A n \in cited : Record(s, n) \in shown[n]

\* A snapshot that can become the file is Seen.
Kept ==
  /\ cited \subseteq LedgerIds
  /\ snapshot # Unreadable => Seen(snapshot)
  /\ Seen(committed)
  /\ pc = "truncated" => Seen(fresh)
  /\ DOMAIN shown = LedgerIds

\* Nodes that a refresh does not report have the same record in both snapshots.
LEMMA SameIfNotReported ==
  ASSUME NEW old, NEW new, NEW n, n \notin Differ(old, new)
  PROVE  Record(new, n) = Record(old, n)
  BY DEF Differ, Record

LEMMA KeptInit == LedgerInit => Kept
  BY DEF LedgerInit, Kept, Seen

LEMMA KeptStep == Kept /\ [LedgerNext]_ledger => Kept'
  <1> SUFFICES ASSUME Kept, [LedgerNext]_ledger PROVE Kept'
    OBVIOUS
  <1> USE DEF Kept, Seen, Record
  <1>1. CASE StartRefresh \/ RefreshFails \/ Crash
    BY <1>1 DEF StartRefresh, RefreshFails, Crash
  <1>2. CASE Report
    <2>1. \A n \in LedgerIds : shown[n] \subseteq shown'[n]
      BY <1>2 DEF Report
    <2>2. ASSUME NEW n \in cited PROVE Record(fresh, n) \in shown'[n]
      <3>1. CASE n \in Differ(snapshot, fresh)
        BY <1>2, <3>1 DEF Report
      <3>2. CASE n \notin Differ(snapshot, fresh)
        <4>1. Record(fresh, n) = Record(snapshot, n)
          BY <3>2, SameIfNotReported
        <4> QED
          BY <1>2, <2>1, <4>1 DEF Report
      <3> QED
        BY <3>1, <3>2
    <2> QED
      BY <1>2, <2>1, <2>2 DEF Report
  <1>3. CASE Write
    BY <1>3 DEF Write
  <1>4. ASSUME NEW e \in Event, Upstream(e) PROVE Kept'
    BY <1>4 DEF Upstream
  <1>5. ASSUME NEW n \in LedgerIds, Cite(n) PROVE Kept'
    BY <1>5 DEF Cite
  <1>6. ASSUME NEW n \in LedgerIds, Uncite(n) PROVE Kept'
    BY <1>6 DEF Uncite
  <1>7. CASE Commit \/ Restore
    BY <1>7 DEF Commit, Restore
  <1>8. CASE UNCHANGED ledger
    BY <1>8 DEF ledger
  <1> QED
    BY <1>1, <1>2, <1>3, <1>4, <1>5, <1>6, <1>7, <1>8 DEF LedgerNext

\* "A node whose statement changed under a blueprint statement that cites it is exactly
\* the case a human has to look at": whatever upstream does, and wherever refreshes are
\* cut short, the snapshot holds of each cited node a record that somebody saw.
THEOREM NoRecordEntersUnseen == LedgerSpec => []RecordsWereShown
  <1>1. Kept => RecordsWereShown
    BY DEF Kept, RecordsWereShown, Seen
  <1> QED
    BY <1>1, KeptInit, KeptStep, PTL DEF LedgerSpec

-----------------------------------------------------------------------------
(***************************************************************************)
(* What a replay computes, by induction on the events it has read.         *)
(***************************************************************************)
LEMMA FromZero ==
  ASSUME NEW S, 0 \in S, \A n \in Nat : n \in S => n + 1 \in S
  PROVE  Nat \subseteq S
  <1> DEFINE T == Nat \ S
  <1> SUFFICES ASSUME ~(Nat \subseteq S) PROVE FALSE
    OBVIOUS
  <1>1. T # {}
    OBVIOUS
  <1>2. PICK m \in T : \A k \in T : <<k, m>> \notin OpToRel(<, Nat)
    <2>1. T \in SUBSET Nat
      OBVIOUS
    <2> HIDE DEF T
    <2>2. QED BY <1>1, <2>1, NatLessThanWellFounded, WFMin
  <1>3. m \in Nat /\ m # 0
    BY <1>2
  <1>4. m - 1 \in Nat /\ m - 1 < m
    BY <1>3
  <1>5. m - 1 \notin T
    BY <1>2, <1>3, <1>4 DEF OpToRel
  <1>6. (m - 1) + 1 \in S
    BY <1>4, <1>5
  <1>7. (m - 1) + 1 = m
    BY <1>3
  <1>8. QED BY <1>2, <1>6, <1>7

LEMMA CreationsExist ==
  ASSUME NEW events, Len(events) \in Nat
  PROVE  Creations(events) = [k \in 0..Len(events) |->
           IF k = 0 THEN NoNodes ELSE Create(Creations(events)[k - 1], events[k])]
  <1> DEFINE Ok(n, f) ==
               f = [k \in 0..n |-> IF k = 0 THEN NoNodes ELSE Create(f[k - 1], events[k])]
             S == {n \in Nat : \E f : Ok(n, f)}
  <1>1. 0 \in S
    <2>1. Ok(0, [k \in 0..0 |-> NoNodes])
      OBVIOUS
    <2>2. QED BY <2>1
  <1>2. ASSUME NEW n \in Nat, n \in S PROVE n + 1 \in S
    <2>1. PICK f : Ok(n, f)
      BY <1>2
    <2> DEFINE g == [k \in 0..(n + 1) |-> IF k = n + 1 THEN Create(f[n], events[n + 1]) ELSE f[k]]
    <2>2. \A k \in 0..(n + 1) : g[k] = IF k = 0 THEN NoNodes ELSE Create(g[k - 1], events[k])
      BY <2>1
    <2>3. Ok(n + 1, g)
      BY <2>2
    <2> HIDE DEF Ok
    <2>4. QED BY <2>3
  <1>3. \E f : Ok(Len(events), f)
    <2> HIDE DEF Ok
    <2>1. Nat \subseteq S
      <3>1. \A n \in Nat : n \in S => n + 1 \in S
        BY <1>2
      <3> HIDE DEF S
      <3>2. QED BY <1>1, <3>1, FromZero
    <2>2. QED BY <2>1
  <1>4. QED BY <1>3 DEF Creations

LEMMA ChangedExist ==
  ASSUME NEW events, Len(events) \in Nat
  PROVE  Changed(events) = [k \in 0..Len(events) |->
           IF k = 0 THEN Creations(events)[Len(events)]
                    ELSE Apply(Changed(events)[k - 1], events[k])]
  <1> DEFINE first == Creations(events)[Len(events)]
             Ok(n, f) == f = [k \in 0..n |-> IF k = 0 THEN first ELSE Apply(f[k - 1], events[k])]
             S == {n \in Nat : \E f : Ok(n, f)}
  <1> HIDE DEF first
  <1>1. 0 \in S
    <2>1. Ok(0, [k \in 0..0 |-> first])
      OBVIOUS
    <2>2. QED BY <2>1
  <1>2. ASSUME NEW n \in Nat, n \in S PROVE n + 1 \in S
    <2>1. PICK f : Ok(n, f)
      BY <1>2
    <2> DEFINE g == [k \in 0..(n + 1) |-> IF k = n + 1 THEN Apply(f[n], events[n + 1]) ELSE f[k]]
    <2>2. \A k \in 0..(n + 1) : g[k] = IF k = 0 THEN first ELSE Apply(g[k - 1], events[k])
      BY <2>1
    <2>3. Ok(n + 1, g)
      BY <2>2
    <2> HIDE DEF Ok
    <2>4. QED BY <2>3
  <1>3. \E f : Ok(Len(events), f)
    <2> HIDE DEF Ok
    <2>1. Nat \subseteq S
      <3>1. \A n \in Nat : n \in S => n + 1 \in S
        BY <1>2
      <3> HIDE DEF S
      <3>2. QED BY <1>1, <3>1, FromZero
    <2>2. QED BY <2>1
  <1>4. QED BY <1>3 DEF Changed, first

-----------------------------------------------------------------------------
(* The log.                                                                *)

EventTypes ==
  DOMAIN Transition \cup
    {"node_created", "challenge_raised", "node_archived", "taint_recomputed", "node_deps_amended",
     "node_amended"}

\* What read_ledger relies on of an event.
LEMMA EventFields ==
  ASSUME NEW e \in Event
  PROVE  /\ e.id \in LedgerIds /\ e.type \in EventTypes
         /\ e.type = "node_created" => e.statement \in Statements /\ e.deps \in DepLists
         /\ e.type = "taint_recomputed" => e.taint \in Taints
         /\ e.type = "node_deps_amended" => e.deps \in DepLists
         /\ e.type = "node_amended" => e.statement \in Statements \cup {None}
  <1> DEFINE of(t) == {[type |-> t, id |-> n] : n \in LedgerIds}
             create == {[type |-> "node_created", id |-> n, statement |-> s, deps |-> d] :
                          n \in LedgerIds, s \in Statements, d \in DepLists}
             plain == UNION {of(t) : t \in DOMAIN Transition \cup {"challenge_raised", "node_archived"}}
             taint == {[type |-> "taint_recomputed", id |-> n, taint |-> t] : n \in LedgerIds, t \in Taints}
             depend == {[type |-> "node_deps_amended", id |-> n, deps |-> d] :
                          n \in LedgerIds, d \in DepLists}
             amend == {[type |-> "node_amended", id |-> n, statement |-> s] :
                         n \in LedgerIds, s \in Statements \cup {None}}
  <1>1. CASE e \in create
    BY <1>1 DEF EventTypes
  <1>2. CASE e \in plain
    <2>1. PICK t \in DOMAIN Transition \cup {"challenge_raised", "node_archived"} : e \in of(t)
      BY <1>2
    <2>2. QED BY <2>1 DEF EventTypes, Transition
  <1>3. CASE e \in taint
    BY <1>3 DEF EventTypes
  <1>4. CASE e \in depend
    BY <1>4 DEF EventTypes
  <1>5. CASE e \in amend
    BY <1>5 DEF EventTypes
  <1>6. e \in create \/ e \in plain \/ e \in taint \/ e \in depend \/ e \in amend
    BY DEF Event
  <1> HIDE DEF create, plain, taint, depend, amend
  <1>7. QED BY <1>1, <1>2, <1>3, <1>4, <1>5, <1>6

LEMMA Transitions ==
  /\ DOMAIN Transition =
       {"node_validated", "node_admitted", "node_unvalidated", "node_unadmitted"}
  /\ \A t \in DOMAIN Transition : Transition[t] \in {"created", "validated", "admitted"}
  BY DEF Transition

Counted == {"challenge_raised", "node_amended"}

IsCreation(c) == c \in DOMAIN log /\ log[c].type = "node_created"

\* A node is created once, before anything else is said of it.
LogInv ==
  /\ log \in Seq(Event)
  /\ \A k \in DOMAIN log : \E c \in 1..k : IsCreation(c) /\ log[c].id = log[k].id
  /\ \A b, c \in DOMAIN log : IsCreation(b) /\ IsCreation(c) /\ log[b].id = log[c].id => b = c
  /\ \A n : \A t \in Counted :
       IsFiniteSet(Events(n, {t})) /\ Cardinality(Events(n, {t})) \in 0..MaxCounter

LEMMA LogStep ==
  ASSUME LogInv, NEW e \in Event, Upstream(e)
  PROVE  LogInv' /\ \A n : \A T : Events(n, T) \subseteq Events(n, T)'
  <1>0. PICK m : m = Len(log) + 1
    OBVIOUS
  <1>1. /\ log' = Append(log, e) /\ WellFormed(e) /\ log \in Seq(Event)
    BY DEF Upstream, LogInv
  <1>2. /\ log' \in Seq(Event) /\ Len(log) \in Nat /\ DOMAIN log = 1..Len(log)
        /\ DOMAIN log' = 1..m /\ log'[m] = e
        /\ \A k \in DOMAIN log : log'[k] = log[k]
    BY <1>0, <1>1
  <1>3. DOMAIN log' = DOMAIN log \cup {m} /\ m \notin DOMAIN log
    BY <1>0, <1>2
  <1>4. \A n : \A T : Events(n, T)' = Events(n, T) \cup
                        (IF e.id = n /\ e.type \in T THEN {m} ELSE {})
    BY <1>2, <1>3 DEF Events
  <1>5. \A c \in DOMAIN log : IsCreation(c)' = IsCreation(c)
    BY <1>2, <1>3 DEF IsCreation
  <1>6. IsCreation(m)' = (e.type = "node_created")
    BY <1>2, <1>3 DEF IsCreation
  <1>7. \A k \in DOMAIN log' : \E c \in 1..k : IsCreation(c)' /\ log'[c].id = log'[k].id
    <2>1. ASSUME NEW k \in DOMAIN log PROVE \E c \in 1..k : IsCreation(c)' /\ log'[c].id = log'[k].id
      <3>1. PICK c \in 1..k : IsCreation(c) /\ log[c].id = log[k].id
        BY <2>1 DEF LogInv
      <3>2. c \in DOMAIN log
        BY <3>1 DEF IsCreation
      <3>3. QED BY <1>2, <1>5, <2>1, <3>1, <3>2
    <2>2. \E c \in 1..m : IsCreation(c)' /\ log'[c].id = log'[m].id
      <3>1. CASE e.type = "node_created"
        <4>1. m \in 1..m
          BY <1>0, <1>2
        <4>2. QED BY <1>2, <1>6, <3>1, <4>1
      <3>2. CASE e.type # "node_created"
        <4>1. e.id \in {log[k].id : k \in {j \in DOMAIN log : log[j].type = "node_created"}}
          BY <1>1, <3>2 DEF WellFormed
        <4>2. PICK c \in DOMAIN log : log[c].type = "node_created" /\ log[c].id = e.id
          BY <4>1
        <4>3. IsCreation(c)' /\ c \in 1..m
          BY <1>2, <1>5, <4>2 DEF IsCreation
        <4>4. QED BY <1>2, <4>2, <4>3
      <3>3. QED BY <3>1, <3>2
    <2>3. QED BY <1>3, <2>1, <2>2
  <1>8. \A b, c \in DOMAIN log' : IsCreation(b)' /\ IsCreation(c)' /\ log'[b].id = log'[c].id => b = c
    <2>1. ASSUME NEW b \in DOMAIN log, IsCreation(b), IsCreation(m)' PROVE log[b].id # e.id
      <3>1. e.id \notin {log[k].id : k \in {j \in DOMAIN log : log[j].type = "node_created"}}
        BY <1>1, <1>6, <2>1 DEF WellFormed
      <3>2. QED BY <2>1, <3>1 DEF IsCreation
    <2>2. QED BY <1>2, <1>3, <1>5, <2>1 DEF LogInv
  <1>9. ASSUME NEW n, NEW t \in Counted
        PROVE  /\ IsFiniteSet(Events(n, {t})') /\ Cardinality(Events(n, {t})') \in 0..MaxCounter
    <2>1. IsFiniteSet(Events(n, {t})) /\ Cardinality(Events(n, {t})) \in 0..MaxCounter
      BY <1>9 DEF LogInv
    <2>2. CASE e.id = n /\ e.type = t
      <3>1. Events(n, {t})' = Events(n, {t}) \cup {m}
        <4>1. Events(n, {t})' = Events(n, {t}) \cup (IF e.id = n /\ e.type \in {t} THEN {m} ELSE {})
          BY <1>4
        <4>2. QED BY <2>2, <4>1
      <3>2. Cardinality(Events(n, {t})) < MaxCounter
        <4>1. t # "node_created"
          BY <1>9 DEF Counted
        <4>2. Events(n, {t}) = {k \in DOMAIN log : log[k].type = e.type /\ log[k].id = e.id}
          BY <2>2 DEF Events
        <4>3. Cardinality({k \in DOMAIN log : log[k].type = e.type /\ log[k].id = e.id}) < MaxCounter
          BY <1>1, <2>2, <4>1 DEF WellFormed
        <4>4. QED BY <4>2, <4>3
      <3>3. /\ IsFiniteSet(Events(n, {t}) \cup {m})
            /\ Cardinality(Events(n, {t}) \cup {m}) = Cardinality(Events(n, {t})) + 1
        <4>1. m \notin Events(n, {t})
          BY <1>3 DEF Events
        <4>2. QED BY <2>1, <4>1, FS_AddElement
      <3>4. Cardinality(Events(n, {t})) + 1 \in 0..MaxCounter
        BY <2>1, <3>2, LedgerAssumption
      <3>5. QED BY <3>1, <3>3, <3>4
    <2>3. CASE ~(e.id = n /\ e.type = t)
      <3>1. Events(n, {t})' = Events(n, {t})
        BY <1>4, <2>3
      <3>2. QED BY <2>1, <3>1
    <2>4. QED BY <2>2, <2>3
  <1>10. LogInv'
    BY <1>2, <1>7, <1>8, <1>9 DEF LogInv
  <1>11. QED BY <1>4, <1>10

-----------------------------------------------------------------------------
(* What is left of the events about a node when k of them are read.        *)

At(n, T, k) == {i \in Events(n, T) : i <= k}

RawRecords ==
  [state : {"created", "validated", "admitted"}, challenges : Nat, amended : Nat,
   archived : BOOLEAN, taint : Taints \cup {None}, deps : DepLists, statement : Statements]

Restated(n, k) == {i \in At(n, {"node_amended"}, k) : log[i].statement # None}

\* The record r of node n, which event c created, says what the first k events say.
Says(n, c, k, r) ==
  /\ r \in RawRecords
  /\ r.state = IF At(n, DOMAIN Transition, k) = {} THEN "created"
               ELSE Transition[log[Latest(At(n, DOMAIN Transition, k))].type]
  /\ r.deps = log[Latest({c} \cup At(n, {"node_deps_amended"}, k))].deps
  /\ r.statement = log[Latest({c} \cup Restated(n, k))].statement
  /\ r.taint = IF At(n, {"taint_recomputed"}, k) = {} THEN None
               ELSE log[Latest(At(n, {"taint_recomputed"}, k))].taint
  /\ r.archived <=> At(n, {"node_archived"}, k) # {}
  /\ r.challenges = Cardinality(At(n, {"challenge_raised"}, k))
  /\ r.amended = Cardinality(At(n, {"node_amended"}, k))

LEMMA LatestIs ==
  ASSUME NEW S, NEW k \in S, S \subseteq Nat, \A j \in S : j <= k
  PROVE  Latest(S) = k
  <1>1. \A i \in S : (\A j \in S : j <= i) => i = k
    BY SMT
  <1>2. QED BY <1>1 DEF Latest

LEMMA LogTypes ==
  ASSUME LogInv
  PROVE  /\ Len(log) \in Nat /\ DOMAIN log = 1..Len(log)
         /\ \A i \in DOMAIN log : log[i] \in Event
         /\ \A n, T : Events(n, T) \subseteq 1..Len(log)
         /\ \A n, T, k : At(n, T, k) \subseteq 1..Len(log)
  <1>1. log \in Seq(Event)
    BY DEF LogInv
  <1>2. Len(log) \in Nat /\ DOMAIN log = 1..Len(log) /\ \A i \in DOMAIN log : log[i] \in Event
    BY <1>1
  <1>3. QED BY <1>2 DEF Events, At

LEMMA AtStep ==
  ASSUME LogInv, NEW n, NEW T, NEW k \in Nat, k + 1 <= Len(log)
  PROVE  /\ At(n, T, k + 1) = At(n, T, k) \cup
                                (IF log[k + 1].id = n /\ log[k + 1].type \in T THEN {k + 1} ELSE {})
         /\ \A j \in At(n, T, k) : j \in Nat /\ j < k + 1
  <1>1. Events(n, T) \subseteq 1..Len(log) /\ k + 1 \in 1..Len(log) /\ DOMAIN log = 1..Len(log)
    BY LogTypes
  <1>2. k + 1 \in Events(n, T) <=> log[k + 1].id = n /\ log[k + 1].type \in T
    BY <1>1 DEF Events
  <1>3. \A j \in Events(n, T) : j \in Nat /\ (j <= k + 1 <=> j <= k \/ j = k + 1)
    BY <1>1
  <1>4. QED BY <1>2, <1>3 DEF At

\* What Change does to each field.
LEMMA ChangeFields ==
  ASSUME NEW r \in RawRecords, NEW e \in Event
  PROVE  LET s == Change(r, e)
         IN  /\ s \in RawRecords
             /\ s.state = IF e.type \in DOMAIN Transition THEN Transition[e.type] ELSE r.state
             /\ s.deps = IF e.type = "node_deps_amended" THEN e.deps ELSE r.deps
             /\ s.statement = IF e.type = "node_amended" /\ e.statement # None
                              THEN e.statement ELSE r.statement
             /\ s.taint = IF e.type = "taint_recomputed" THEN e.taint ELSE r.taint
             /\ s.archived <=> e.type = "node_archived" \/ r.archived
             /\ s.challenges = IF e.type = "challenge_raised" THEN r.challenges + 1 ELSE r.challenges
             /\ s.amended = IF e.type = "node_amended" THEN r.amended + 1 ELSE r.amended
  <1> DEFINE s == Change(r, e)
  <1>1. /\ e.type \in EventTypes
        /\ e.type = "taint_recomputed" => e.taint \in Taints
        /\ e.type = "node_deps_amended" => e.deps \in DepLists
        /\ e.type = "node_amended" => e.statement \in Statements \cup {None}
    BY EventFields
  <1>2. CASE e.type \in DOMAIN Transition
    <2>1. e.type \notin {"node_created", "challenge_raised", "node_archived", "taint_recomputed",
                         "node_deps_amended", "node_amended"}
      BY <1>2, Transitions
    <2>2. s = [r EXCEPT !.state = Transition[e.type]]
      BY <1>2, <2>1 DEF Change
    <2>3. Transition[e.type] \in {"created", "validated", "admitted"}
      BY <1>2, Transitions
    <2> HIDE DEF s
    <2>4. QED BY <1>2, <2>1, <2>2, <2>3 DEF RawRecords, s
  <1>3. CASE e.type = "challenge_raised"
    <2>1. e.type \notin DOMAIN Transition
      BY <1>3, Transitions
    <2>2. s = [r EXCEPT !.challenges = r.challenges + 1]
      BY <1>3, <2>1 DEF Change
    <2>3. QED BY <1>3, <2>1, <2>2 DEF RawRecords
  <1>4. CASE e.type = "node_archived"
    <2>1. e.type \notin DOMAIN Transition
      BY <1>4, Transitions
    <2>2. s = [r EXCEPT !.archived = TRUE]
      BY <1>4, <2>1 DEF Change
    <2>3. QED BY <1>4, <2>1, <2>2 DEF RawRecords
  <1>5. CASE e.type = "taint_recomputed"
    <2>1. e.type \notin DOMAIN Transition
      BY <1>5, Transitions
    <2>2. s = [r EXCEPT !.taint = e.taint]
      BY <1>5, <2>1 DEF Change
    <2>3. QED BY <1>1, <1>5, <2>1, <2>2 DEF RawRecords
  <1>6. CASE e.type = "node_deps_amended"
    <2>1. e.type \notin DOMAIN Transition
      BY <1>6, Transitions
    <2>2. s = [r EXCEPT !.deps = e.deps]
      BY <1>6, <2>1 DEF Change
    <2>3. QED BY <1>1, <1>6, <2>1, <2>2 DEF RawRecords
  <1>7. CASE e.type = "node_amended"
    <2>1. e.type \notin DOMAIN Transition
      BY <1>7, Transitions
    <2>2. s = [r EXCEPT !.amended = r.amended + 1,
                        !.statement = IF e.statement = None THEN r.statement ELSE e.statement]
      BY <1>7, <2>1 DEF Change
    <2>3. (IF e.statement = None THEN r.statement ELSE e.statement) \in Statements
      BY <1>1, <1>7 DEF RawRecords
    <2>4. PICK text \in Statements : text = IF e.statement = None THEN r.statement ELSE e.statement
      BY <2>3
    <2>5. s = [r EXCEPT !.amended = r.amended + 1, !.statement = text]
      BY <2>2, <2>4
    <2> HIDE DEF s
    <2>6. /\ s \in RawRecords /\ s.state = r.state /\ s.deps = r.deps /\ s.statement = text
          /\ s.taint = r.taint /\ s.archived = r.archived /\ s.challenges = r.challenges
          /\ s.amended = r.amended + 1
      <3> DEFINE t == [r EXCEPT !.amended = r.amended + 1]
      <3>1. /\ t \in RawRecords /\ t.state = r.state /\ t.deps = r.deps
            /\ t.taint = r.taint /\ t.archived = r.archived /\ t.challenges = r.challenges
            /\ t.amended = r.amended + 1
        BY DEF RawRecords
      <3>2. s = [t EXCEPT !.statement = text]
        BY <2>5
      <3> HIDE DEF t
      <3>3. QED BY <3>1, <3>2 DEF RawRecords
    <2>7. QED BY <1>7, <2>1, <2>4, <2>6 DEF s
  <1>8. CASE e.type = "node_created"
    <2>1. e.type \notin DOMAIN Transition
      BY <1>8, Transitions
    <2>2. s = r
      BY <1>8, <2>1 DEF Change
    <2>3. QED BY <1>8, <2>1, <2>2 DEF RawRecords
  <1>9. QED BY <1>1, <1>2, <1>3, <1>4, <1>5, <1>6, <1>7, <1>8 DEF EventTypes

\* An event about another node.
LEMMA SaysSkip ==
  ASSUME LogInv, NEW n, NEW c, NEW k \in Nat, k + 1 <= Len(log), NEW r, Says(n, c, k, r),
         log[k + 1].id # n
  PROVE  Says(n, c, k + 1, r)
  <1>1. ASSUME NEW T PROVE At(n, T, k + 1) = At(n, T, k)
    <2>1. At(n, T, k + 1) = At(n, T, k) \cup
                              (IF log[k + 1].id = n /\ log[k + 1].type \in T THEN {k + 1} ELSE {})
      BY AtStep
    <2>2. QED BY <2>1
  <1>2. QED BY <1>1 DEF Says, Restated

\* An event about the node.
LEMMA SaysStep ==
  ASSUME LogInv, NEW n, NEW c, IsCreation(c), log[c].id = n,
         NEW k \in Nat, k + 1 <= Len(log), NEW r, Says(n, c, k, r), log[k + 1].id = n
  PROVE  Says(n, c, k + 1, Change(r, log[k + 1]))
  <1> DEFINE s == Change(r, log[k + 1])
  <1>0. PICK e : e = log[k + 1]
    OBVIOUS
  <1>1. k + 1 \in DOMAIN log /\ e \in Event /\ r \in RawRecords /\ e.id = n
    BY <1>0, LogTypes DEF Says
  <1>2. /\ s \in RawRecords
        /\ s.state = IF e.type \in DOMAIN Transition THEN Transition[e.type] ELSE r.state
        /\ s.deps = IF e.type = "node_deps_amended" THEN e.deps ELSE r.deps
        /\ s.statement = IF e.type = "node_amended" /\ e.statement # None THEN e.statement ELSE r.statement
        /\ s.taint = IF e.type = "taint_recomputed" THEN e.taint ELSE r.taint
        /\ s.archived <=> e.type = "node_archived" \/ r.archived
        /\ s.challenges = IF e.type = "challenge_raised" THEN r.challenges + 1 ELSE r.challenges
        /\ s.amended = IF e.type = "node_amended" THEN r.amended + 1 ELSE r.amended
    BY <1>0, <1>1, ChangeFields
  <1> HIDE DEF s
  <1>3. \A T : /\ At(n, T, k + 1) = At(n, T, k) \cup (IF e.type \in T THEN {k + 1} ELSE {})
               /\ \A j \in At(n, T, k) : j \in Nat /\ j < k + 1
    BY <1>0, <1>1, AtStep
  <1>4. \A T : /\ e.type \in T => At(n, T, k + 1) = At(n, T, k) \cup {k + 1}
               /\ e.type \notin T => At(n, T, k + 1) = At(n, T, k)
    BY <1>3
  <1>5. \A S : S \subseteq Nat /\ (\A j \in S : j <= k + 1) => Latest(S \cup {k + 1}) = k + 1
    <2> TAKE S
    <2> HAVE S \subseteq Nat /\ (\A j \in S : j <= k + 1)
    <2> DEFINE U == S \cup {k + 1}
    <2>1. k + 1 \in U /\ U \subseteq Nat /\ \A j \in U : j <= k + 1
      OBVIOUS
    <2> HIDE DEF U
    <2>2. Latest(U) = k + 1
      BY <2>1, LatestIs
    <2>3. QED BY <2>2 DEF U
  <1>6. \A T : /\ At(n, T, k) \subseteq Nat /\ \A j \in At(n, T, k) : j <= k + 1
    BY <1>3
  <1>7. c \in Nat /\ c <= k + 1
    <2>1. PICK b \in 1..(k + 1) : IsCreation(b) /\ log[b].id = log[k + 1].id
      BY <1>1 DEF LogInv
    <2>2. b = c
      BY <2>1 DEF LogInv, IsCreation
    <2>3. QED BY <2>1, <2>2
  <1>8. s.state = IF At(n, DOMAIN Transition, k + 1) = {} THEN "created"
                  ELSE Transition[log[Latest(At(n, DOMAIN Transition, k + 1))].type]
    <2> DEFINE T == DOMAIN Transition
    <2> HIDE DEF T
    <2>1. CASE e.type \in T
      <3>1. Latest(At(n, T, k + 1)) = k + 1 /\ At(n, T, k + 1) # {}
        BY <1>4, <1>5, <1>6, <2>1
      <3>2. QED BY <1>0, <1>2, <2>1, <3>1 DEF T
    <2>2. CASE e.type \notin T
      BY <1>2, <1>4, <2>2 DEF Says, T
    <2>3. QED BY <2>1, <2>2
  <1>9. s.deps = log[Latest({c} \cup At(n, {"node_deps_amended"}, k + 1))].deps
    <2> DEFINE T == {"node_deps_amended"}
    <2>1. CASE e.type = "node_deps_amended"
      <3>1. {c} \cup At(n, T, k + 1) = ({c} \cup At(n, T, k)) \cup {k + 1}
        BY <1>4, <2>1
      <3>2. Latest({c} \cup At(n, T, k + 1)) = k + 1
        <4> DEFINE S == {c} \cup At(n, T, k)
        <4>1. S \subseteq Nat /\ \A j \in S : j <= k + 1
          BY <1>6, <1>7
        <4> HIDE DEF S
        <4>2. Latest(S \cup {k + 1}) = k + 1
          BY <1>5, <4>1
        <4>3. QED BY <3>1, <4>2 DEF S
      <3>3. QED BY <1>0, <1>2, <2>1, <3>2
    <2>2. CASE e.type # "node_deps_amended"
      <3>1. At(n, T, k + 1) = At(n, T, k)
        BY <1>4, <2>2
      <3>2. QED BY <1>2, <2>2, <3>1 DEF Says
    <2>3. QED BY <2>1, <2>2
  <1>10. s.statement = log[Latest({c} \cup Restated(n, k + 1))].statement
    <2> DEFINE T == {"node_amended"}
    <2>1. CASE e.type = "node_amended" /\ e.statement # None
      <3>1. Restated(n, k + 1) = Restated(n, k) \cup {k + 1}
        <4>1. At(n, T, k + 1) = At(n, T, k) \cup {k + 1}
          BY <1>4, <2>1
        <4>2. QED BY <1>0, <2>1, <4>1 DEF Restated
      <3>2. Latest({c} \cup Restated(n, k + 1)) = k + 1
        <4> DEFINE S == {c} \cup Restated(n, k)
        <4>1. S \subseteq Nat /\ \A j \in S : j <= k + 1
          BY <1>6, <1>7 DEF Restated
        <4>2. {c} \cup Restated(n, k + 1) = S \cup {k + 1}
          BY <3>1
        <4> HIDE DEF S
        <4>3. Latest(S \cup {k + 1}) = k + 1
          BY <1>5, <4>1
        <4>4. QED BY <4>2, <4>3
      <3>3. QED BY <1>0, <1>2, <2>1, <3>2
    <2>2. CASE ~(e.type = "node_amended" /\ e.statement # None)
      <3>1. Restated(n, k + 1) = Restated(n, k)
        BY <1>0, <1>4, <2>2 DEF Restated
      <3>2. QED BY <1>2, <2>2, <3>1 DEF Says
    <2>3. QED BY <2>1, <2>2
  <1>11. s.taint = IF At(n, {"taint_recomputed"}, k + 1) = {} THEN None
                   ELSE log[Latest(At(n, {"taint_recomputed"}, k + 1))].taint
    <2> DEFINE T == {"taint_recomputed"}
    <2>1. CASE e.type = "taint_recomputed"
      <3>1. e.type \in T
        BY <2>1
      <3> HIDE DEF T
      <3>2. Latest(At(n, T, k + 1)) = k + 1 /\ At(n, T, k + 1) # {}
        BY <1>4, <1>5, <1>6, <3>1
      <3>3. QED BY <1>0, <1>2, <2>1, <3>2 DEF T
    <2>2. CASE e.type # "taint_recomputed"
      <3>1. At(n, T, k + 1) = At(n, T, k)
        BY <1>4, <2>2
      <3>2. QED BY <1>2, <2>2, <3>1 DEF Says
    <2>3. QED BY <2>1, <2>2
  <1>12. s.archived <=> At(n, {"node_archived"}, k + 1) # {}
    BY <1>2, <1>4 DEF Says
  <1>13. ASSUME NEW t \in {"challenge_raised", "node_amended"}
         PROVE  Cardinality(At(n, {t}, k + 1)) =
                  Cardinality(At(n, {t}, k)) + (IF e.type = t THEN 1 ELSE 0)
    <2>1. IsFiniteSet(At(n, {t}, k)) /\ k + 1 \notin At(n, {t}, k)
      <3>1. IsFiniteSet(Events(n, {t})) /\ At(n, {t}, k) \subseteq Events(n, {t})
        BY <1>13 DEF LogInv, Counted, At
      <3>2. k + 1 \notin At(n, {t}, k)
        BY DEF At
      <3>3. QED BY <3>1, <3>2, FS_Subset
    <2>2. Cardinality(At(n, {t}, k)) \in Nat
      BY <2>1, FS_CardinalityType
    <2>3. CASE e.type = t
      <3>1. At(n, {t}, k + 1) = At(n, {t}, k) \cup {k + 1}
        BY <1>4, <2>3
      <3>2. Cardinality(At(n, {t}, k) \cup {k + 1}) = Cardinality(At(n, {t}, k)) + 1
        BY <2>1, FS_AddElement
      <3>3. QED BY <2>3, <3>1, <3>2
    <2>4. CASE e.type # t
      <3>1. At(n, {t}, k + 1) = At(n, {t}, k)
        BY <1>4, <2>4
      <3>2. QED BY <2>2, <2>4, <3>1
    <2>5. QED BY <2>3, <2>4
  <1>14. /\ s.challenges = Cardinality(At(n, {"challenge_raised"}, k + 1))
         /\ s.amended = Cardinality(At(n, {"node_amended"}, k + 1))
    <2>1. /\ r.challenges = Cardinality(At(n, {"challenge_raised"}, k)) /\ r.challenges \in Nat
          /\ r.amended = Cardinality(At(n, {"node_amended"}, k)) /\ r.amended \in Nat
      BY DEF Says, RawRecords
    <2>2. /\ Cardinality(At(n, {"challenge_raised"}, k + 1)) =
               r.challenges + (IF e.type = "challenge_raised" THEN 1 ELSE 0)
          /\ Cardinality(At(n, {"node_amended"}, k + 1)) =
               r.amended + (IF e.type = "node_amended" THEN 1 ELSE 0)
      BY <1>13, <2>1
    <2>3. QED BY <1>2, <2>1, <2>2
  <1>15. Says(n, c, k + 1, s)
    BY <1>2, <1>8, <1>9, <1>10, <1>11, <1>12, <1>14 DEF Says
  <1>16. QED BY <1>15 DEF s

LEMMA SaysCreated ==
  ASSUME LogInv, NEW c, IsCreation(c)
  PROVE  Says(log[c].id, c, 0, Created(log[c]))
  <1> DEFINE n == log[c].id
             r == Created(log[c])
  <1>1. c \in Nat /\ log[c] \in Event
    BY LogTypes DEF IsCreation
  <1>2. log[c].statement \in Statements /\ log[c].deps \in DepLists
    BY <1>1, EventFields DEF IsCreation
  <1>3. \A T : At(n, T, 0) = {}
    BY LogTypes DEF At
  <1>4. Restated(n, 0) = {}
    BY <1>3 DEF Restated
  <1>5. Latest({c}) = c
    BY <1>1, LatestIs
  <1>6. /\ r \in RawRecords /\ r.state = "created" /\ r.deps = log[c].deps /\ r.taint = None
        /\ r.statement = log[c].statement /\ r.archived = FALSE /\ r.challenges = 0 /\ r.amended = 0
    BY <1>2 DEF RawRecords, Created
  <1>7. Cardinality({}) = 0
    BY FS_EmptySet
  <1> HIDE DEF r, n
  <1>8. Says(n, c, 0, r)
    <2>1. {c} \cup Restated(n, 0) = {c} /\ {c} \cup At(n, {"node_deps_amended"}, 0) = {c}
      BY <1>3, <1>4 DEF n
    <2>2. \A T : At(n, T, 0) = {}
      BY <1>3 DEF n
    <2>3. QED BY <1>5, <1>6, <1>7, <2>1, <2>2 DEF Says
  <1>9. QED BY <1>8 DEF n, r

\* The first pass creates each node of the log.
LEMMA CreationsSay ==
  ASSUME LogInv
  PROVE  LET nodes == Creations(log)[Len(log)]
         IN  /\ DOMAIN nodes = {log[c].id : c \in {b \in DOMAIN log : IsCreation(b)}}
             /\ \A c \in DOMAIN log : IsCreation(c) => nodes[log[c].id] = Created(log[c])
  <1> DEFINE C == Creations(log)
             Ok(k) == /\ DOMAIN C[k] = {log[c].id : c \in {b \in 1..k : IsCreation(b)}}
                      /\ \A c \in 1..k : IsCreation(c) => C[k][log[c].id] = Created(log[c])
             S == {k \in Nat : k <= Len(log) => Ok(k)}
  <1>1. Len(log) \in Nat /\ DOMAIN log = 1..Len(log)
    BY LogTypes
  <1>2. C = [k \in 0..Len(log) |-> IF k = 0 THEN NoNodes ELSE Create(C[k - 1], log[k])]
    BY <1>1, CreationsExist
  <1> HIDE DEF C
  <1>3. 0 \in S
    <2>1. C[0] = NoNodes
      BY <1>1, <1>2
    <2>2. QED BY <2>1 DEF NoNodes
  <1>4. ASSUME NEW k \in Nat, k \in S PROVE k + 1 \in S
    <2> SUFFICES ASSUME k + 1 <= Len(log) PROVE Ok(k + 1)
      OBVIOUS
    <2>1. Ok(k) /\ k + 1 \in DOMAIN log
      BY <1>1, <1>4
    <2>2. C[k + 1] = Create(C[k], log[k + 1])
      BY <1>1, <1>2
    <2>3. \A c \in 1..(k + 1) : c = k + 1 \/ c \in 1..k
      BY <1>1
    <2>4. CASE IsCreation(k + 1)
      <3> DEFINE n == log[k + 1].id
      <3>1. log[k + 1].type = "node_created"
        BY <2>4 DEF IsCreation
      <3>2. C[k + 1] = [m \in DOMAIN C[k] \cup {n} |-> IF m = n THEN Created(log[k + 1]) ELSE C[k][m]]
        BY <2>2, <3>1 DEF Create
      <3>3. \A c \in 1..k : IsCreation(c) => log[c].id # n
        BY <1>1, <2>1, <2>4 DEF LogInv
      <3>4. {log[c].id : c \in {b \in 1..(k + 1) : IsCreation(b)}} =
              {log[c].id : c \in {b \in 1..k : IsCreation(b)}} \cup {n}
        BY <2>3, <2>4
      <3>5. DOMAIN C[k + 1] = {log[c].id : c \in {b \in 1..(k + 1) : IsCreation(b)}}
        BY <2>1, <3>2, <3>4
      <3>6. ASSUME NEW c \in 1..(k + 1), IsCreation(c) PROVE C[k + 1][log[c].id] = Created(log[c])
        <4>1. CASE c = k + 1
          BY <3>2, <4>1
        <4>2. CASE c \in 1..k
          BY <2>1, <3>2, <3>3, <3>6, <4>2
        <4>3. QED BY <2>3, <4>1, <4>2
      <3>7. QED BY <3>5, <3>6
    <2>5. CASE ~IsCreation(k + 1)
      <3>1. C[k + 1] = C[k]
        BY <2>1, <2>2, <2>5 DEF Create, IsCreation
      <3>2. {b \in 1..(k + 1) : IsCreation(b)} = {b \in 1..k : IsCreation(b)}
        BY <2>3, <2>5
      <3>3. QED BY <2>1, <2>3, <2>5, <3>1, <3>2
    <2>6. QED BY <2>4, <2>5
  <1>5. Ok(Len(log))
    <2> HIDE DEF Ok
    <2>1. Nat \subseteq S
      <3>1. \A k \in Nat : k \in S => k + 1 \in S
        BY <1>4
      <3> HIDE DEF S
      <3>2. QED BY <1>3, <3>1, FromZero
    <2>2. QED BY <1>1, <2>1
  <1>6. QED BY <1>1, <1>5 DEF C

\* The second pass makes each record say what the events say.
LEMMA ReplaySays ==
  ASSUME LogInv
  PROVE  /\ DOMAIN Replay(log) = {log[c].id : c \in {b \in DOMAIN log : IsCreation(b)}}
         /\ \A c \in DOMAIN log : IsCreation(c) =>
              Says(log[c].id, c, Len(log), Replay(log)[log[c].id])
  <1> DEFINE C == Changed(log)
             created == {log[c].id : c \in {b \in DOMAIN log : IsCreation(b)}}
             Ok(k) == /\ DOMAIN C[k] = created
                      /\ \A c \in DOMAIN log : IsCreation(c) => Says(log[c].id, c, k, C[k][log[c].id])
             S == {k \in Nat : k <= Len(log) => Ok(k)}
  <1>1. Len(log) \in Nat /\ DOMAIN log = 1..Len(log)
    BY LogTypes
  <1>2. C = [k \in 0..Len(log) |-> IF k = 0 THEN Creations(log)[Len(log)]
                                   ELSE Apply(C[k - 1], log[k])]
    BY <1>1, ChangedExist
  <1> HIDE DEF C
  <1>3. 0 \in S
    <2>1. C[0] = Creations(log)[Len(log)]
      BY <1>1, <1>2
    <2>2. DOMAIN C[0] = created /\ \A c \in DOMAIN log : IsCreation(c) => C[0][log[c].id] = Created(log[c])
      BY <2>1, CreationsSay
    <2>3. Ok(0)
      BY <2>2, SaysCreated
    <2>4. QED BY <2>3
  <1>4. ASSUME NEW k \in Nat, k \in S PROVE k + 1 \in S
    <2> SUFFICES ASSUME k + 1 <= Len(log) PROVE Ok(k + 1)
      OBVIOUS
    <2>1. Ok(k) /\ k + 1 \in DOMAIN log
      BY <1>1, <1>4
    <2>2. C[k + 1] = Apply(C[k], log[k + 1])
      BY <1>1, <1>2
    <2> DEFINE n == log[k + 1].id
    <2>3. PICK b \in DOMAIN log : IsCreation(b) /\ log[b].id = n
      <3>1. PICK b \in 1..(k + 1) : IsCreation(b) /\ log[b].id = n
        BY <2>1 DEF LogInv
      <3>2. QED BY <3>1 DEF IsCreation
    <2>4. n \in DOMAIN C[k]
      BY <2>1, <2>3
    <2>5. C[k + 1] = [C[k] EXCEPT ![n] = Change(C[k][n], log[k + 1])]
      BY <2>2, <2>4 DEF Apply
    <2>6. DOMAIN C[k + 1] = created
      BY <2>1, <2>5
    <2>7. ASSUME NEW c \in DOMAIN log, IsCreation(c) PROVE Says(log[c].id, c, k + 1, C[k + 1][log[c].id])
      <3>1. Says(log[c].id, c, k, C[k][log[c].id]) /\ log[c].id \in DOMAIN C[k]
        BY <2>1, <2>7
      <3>2. CASE log[c].id = n
        <4>1. C[k + 1][log[c].id] = Change(C[k][log[c].id], log[k + 1])
          BY <2>5, <3>1, <3>2
        <4>2. Says(log[c].id, c, k + 1, Change(C[k][log[c].id], log[k + 1]))
          BY <2>7, <3>1, <3>2, SaysStep
        <4>3. QED BY <4>1, <4>2
      <3>3. CASE log[c].id # n
        <4>1. C[k + 1][log[c].id] = C[k][log[c].id]
          BY <2>5, <3>1, <3>3
        <4>2. Says(log[c].id, c, k + 1, C[k][log[c].id])
          BY <3>1, <3>3, SaysSkip
        <4>3. QED BY <4>1, <4>2
      <3>4. QED BY <3>2, <3>3
    <2>8. QED BY <2>6, <2>7
  <1>5. Ok(Len(log))
    <2> HIDE DEF Ok
    <2>1. Nat \subseteq S
      <3>1. \A k \in Nat : k \in S => k + 1 \in S
        BY <1>4
      <3> HIDE DEF S
      <3>2. QED BY <1>3, <3>1, FromZero
    <2>2. QED BY <1>1, <2>1
  <1>6. QED BY <1>1, <1>5 DEF C, Replay

\* Every node of the log has a record, and all its events are read.
LEMMA ReplayOfLog ==
  ASSUME LogInv, NEW n \in {log[i].id : i \in DOMAIN log}
  PROVE  /\ n \in LedgerIds /\ n \in DOMAIN Replay(log)
         /\ \E c \in DOMAIN log : /\ IsCreation(c) /\ log[c].id = n
                                  /\ Says(n, c, Len(log), Replay(log)[n])
                                  /\ Events(n, {"node_created"}) = {c}
         /\ \A T : At(n, T, Len(log)) = Events(n, T)
  <1>1. PICK i \in DOMAIN log : log[i].id = n
    OBVIOUS
  <1>2. PICK c \in 1..i : IsCreation(c) /\ log[c].id = n
    BY <1>1 DEF LogInv
  <1>3. c \in DOMAIN log /\ n \in LedgerIds
    BY <1>1, <1>2, LogTypes, EventFields DEF IsCreation
  <1>4. Says(n, c, Len(log), Replay(log)[n]) /\ n \in DOMAIN Replay(log)
    BY <1>2, <1>3, ReplaySays
  <1>5. Events(n, {"node_created"}) = {c}
    BY <1>2, <1>3 DEF LogInv, Events, IsCreation
  <1>6. \A T : At(n, T, Len(log)) = Events(n, T)
    BY LogTypes DEF At, Events
  <1>7. QED BY <1>2, <1>3, <1>4, <1>5, <1>6

LEMMA LatestOfLog == ASSUME LogInv, LedgerTypeOK PROVE ReplayIsLatest
  <1> SUFFICES ASSUME NEW n \in {log[i].id : i \in DOMAIN log}
               PROVE  LET r == Replay(log)[n]
                          transitions == Events(n, DOMAIN Transition)
                          lists == Events(n, {"node_created", "node_deps_amended"})
                          texts == {i \in Changes(n) : log[i].statement # None}
                          taints == Events(n, {"taint_recomputed"})
                      IN  /\ r.state = IF transitions = {} THEN "created"
                                       ELSE Transition[log[Latest(transitions)].type]
                          /\ r.deps = log[Latest(lists)].deps
                          /\ r.statement = log[Latest(texts)].statement
                          /\ r.taint = IF taints = {} THEN None ELSE log[Latest(taints)].taint
                          /\ r.archived <=> Events(n, {"node_archived"}) # {}
                          /\ r.challenges = Cardinality(Events(n, {"challenge_raised"}))
                          /\ r.amended = Cardinality(Events(n, {"node_amended"}))
    BY DEF ReplayIsLatest
  <1>1. PICK c \in DOMAIN log : /\ IsCreation(c) /\ log[c].id = n
                                /\ Says(n, c, Len(log), Replay(log)[n])
                                /\ Events(n, {"node_created"}) = {c}
    BY ReplayOfLog
  <1>2. \A T : At(n, T, Len(log)) = Events(n, T)
    BY ReplayOfLog
  <1>3. Events(n, {"node_created", "node_deps_amended"}) = {c} \cup Events(n, {"node_deps_amended"})
    BY <1>1 DEF Events
  <1>4. {i \in Changes(n) : log[i].statement # None} = {c} \cup Restated(n, Len(log))
    <2>1. log[c].statement \in Statements
      BY <1>1, LogTypes, EventFields DEF IsCreation
    <2>2. log[c].statement # None
      BY <2>1, LedgerAssumption
    <2>3. Changes(n) = {c} \cup Events(n, {"node_amended"})
      BY <1>1 DEF Events, Changes
    <2>4. QED BY <1>2, <2>2, <2>3 DEF Restated
  <1>5. QED BY <1>1, <1>2, <1>3, <1>4 DEF Says

-----------------------------------------------------------------------------
(* The snapshots hold records, and an archived one is archived for good.   *)

Archived(s) == \A n \in DOMAIN s : s[n].archived => Events(n, {"node_archived"}) # {}

LedgerInv ==
  /\ LogInv /\ LedgerTypeOK /\ Kept
  /\ snapshot # Unreadable => Archived(snapshot)
  /\ Archived(committed) /\ Archived(fresh)

LEMMA ReplayIsSnapshot ==
  ASSUME LogInv
  PROVE  IsSnapshot(Replay(log)) /\ Archived(Replay(log))
  <1> SUFFICES ASSUME NEW n \in DOMAIN Replay(log)
               PROVE  /\ n \in LedgerIds /\ Replay(log)[n] \in Records
                      /\ Replay(log)[n].archived => Events(n, {"node_archived"}) # {}
    BY DEF IsSnapshot, Archived
  <1> DEFINE r == Replay(log)[n]
  <1>1. n \in {log[i].id : i \in DOMAIN log}
    BY ReplaySays
  <1>2. n \in LedgerIds
    BY <1>1, ReplayOfLog
  <1>3. PICK c \in DOMAIN log : Says(n, c, Len(log), r)
    BY <1>1, ReplayOfLog
  <1>4. \A T : At(n, T, Len(log)) = Events(n, T)
    BY <1>1, ReplayOfLog
  <1> HIDE DEF r
  <1>5. r.challenges \in 0..MaxCounter /\ r.amended \in 0..MaxCounter
    BY <1>3, <1>4 DEF Says, LogInv, Counted
  <1>6. r \in Records
    <2>1. r \in RawRecords
      BY <1>3 DEF Says
    <2>2. QED BY <1>5, <2>1 DEF RawRecords, Records
  <1>7. r.archived => Events(n, {"node_archived"}) # {}
    BY <1>3, <1>4 DEF Says
  <1>8. QED BY <1>2, <1>6, <1>7 DEF r

LEMMA NoNodesIsSnapshot == IsSnapshot(NoNodes) /\ Archived(NoNodes)
  BY DEF NoNodes, IsSnapshot, Archived

LEMMA RecordType == ASSUME NEW s, IsSnapshot(s), NEW n PROVE Record(s, n) \in Records \cup {None}
  BY DEF IsSnapshot, Record

LEMMA LedgerInvInit == LedgerInit => LedgerInv
  <1> SUFFICES ASSUME LedgerInit PROVE LedgerInv
    OBVIOUS
  <1>1. /\ log = <<>> /\ snapshot = NoNodes /\ committed = NoNodes /\ fresh = NoNodes
        /\ cited = {} /\ shown = [n \in LedgerIds |-> {}] /\ pc = "idle"
    BY DEF LedgerInit
  <1>2. LogInv
    <2>1. log \in Seq(Event) /\ DOMAIN log = {}
      BY <1>1
    <2>2. \A n : \A T : Events(n, T) = {}
      BY <2>1 DEF Events
    <2>3. IsFiniteSet({}) /\ Cardinality({}) = 0
      BY FS_EmptySet
    <2>4. \A n : \A t \in Counted :
            IsFiniteSet(Events(n, {t})) /\ Cardinality(Events(n, {t})) \in 0..MaxCounter
      <3>1. ASSUME NEW S, S = {} PROVE IsFiniteSet(S) /\ Cardinality(S) \in 0..MaxCounter
        BY <2>3, <3>1, LedgerAssumption
      <3>2. QED BY <2>2, <3>1
    <2>5. QED BY <2>1, <2>4 DEF LogInv
  <1>3. LedgerTypeOK
    BY <1>1, NoNodesIsSnapshot DEF LedgerTypeOK
  <1>4. QED BY <1>1, <1>2, <1>3, NoNodesIsSnapshot, KeptInit DEF LedgerInv

\* A step that leaves the log alone.
LEMMA QuietLog ==
  ASSUME UNCHANGED log
  PROVE  (LogInv => LogInv') /\ \A s : Archived(s) => Archived(s)'
  <1>1. /\ \A n, T : Events(n, T)' = Events(n, T)
        /\ \A c : IsCreation(c)' = IsCreation(c)
    BY DEF Events, IsCreation
  <1>2. LogInv => LogInv'
    BY <1>1 DEF LogInv
  <1>3. \A s : Archived(s) => Archived(s)'
    BY <1>1 DEF Archived
  <1>4. QED BY <1>2, <1>3

LEMMA LedgerInvStep == ASSUME LedgerInv, [LedgerNext]_ledger PROVE LedgerInv'
  <1>1. Kept'
    BY KeptStep DEF LedgerInv
  <1>2. DOMAIN shown = LedgerIds
    BY DEF LedgerInv, Kept
  <1>3. CASE StartRefresh
    <2>1. /\ fresh' = Replay(log) /\ pc' = "report"
          /\ UNCHANGED <<log, snapshot, committed, cited, shown>>
      BY <1>3 DEF StartRefresh
    <2>2. IsSnapshot(fresh') /\ Archived(fresh')
      BY <2>1, ReplayIsSnapshot DEF LedgerInv
    <2>3. LedgerTypeOK'
      BY <2>1, <2>2 DEF LedgerInv, LedgerTypeOK
    <2>4. QED BY <1>1, <2>1, <2>2, <2>3, QuietLog DEF LedgerInv, Archived, Events
  <1>4. CASE RefreshFails \/ Crash
    <2>1. /\ fresh' = NoNodes /\ pc' = "idle"
          /\ UNCHANGED <<log, snapshot, committed, cited, shown>>
      BY <1>4 DEF RefreshFails, Crash
    <2>2. LedgerTypeOK'
      BY <2>1, NoNodesIsSnapshot DEF LedgerInv, LedgerTypeOK
    <2>3. QED BY <1>1, <2>1, <2>2, NoNodesIsSnapshot, QuietLog DEF LedgerInv, Archived, Events
  <1>5. CASE Report
    <2>1. /\ snapshot' = Unreadable /\ pc' = "truncated" /\ UNCHANGED <<log, committed, cited, fresh>>
          /\ shown' = [n \in LedgerIds |-> IF n \in cited \cap Differ(snapshot, fresh)
                                     THEN shown[n] \cup {Record(fresh, n)} ELSE shown[n]]
      BY <1>5 DEF Report
    <2>2. \A n \in LedgerIds : Record(fresh, n) \in Records \cup {None}
      BY RecordType DEF LedgerInv, LedgerTypeOK
    <2>3. LedgerTypeOK'
      BY <2>1, <2>2 DEF LedgerInv, LedgerTypeOK
    <2>4. QED BY <1>1, <2>1, <2>3, QuietLog DEF LedgerInv, Archived, Events
  <1>6. CASE Write
    <2>1. /\ snapshot' = fresh /\ pc' = "idle" /\ fresh' = NoNodes
          /\ UNCHANGED <<log, committed, cited, shown>>
      BY <1>6 DEF Write
    <2>2. LedgerTypeOK'
      BY <2>1, NoNodesIsSnapshot DEF LedgerInv, LedgerTypeOK
    <2>3. QED BY <1>1, <2>1, <2>2, NoNodesIsSnapshot, QuietLog DEF LedgerInv, Archived, Events
  <1>7. ASSUME NEW e \in Event, Upstream(e) PROVE LedgerInv'
    <2>1. UNCHANGED <<snapshot, committed, cited, shown, fresh, pc>>
      BY <1>7 DEF Upstream
    <2>2. LogInv' /\ \A n : \A T : Events(n, T) \subseteq Events(n, T)'
      BY <1>7, LogStep DEF LedgerInv
    <2>3. \A s : Archived(s) => Archived(s)'
      BY <2>2 DEF Archived
    <2>4. LedgerTypeOK'
      BY <2>1 DEF LedgerInv, LedgerTypeOK
    <2>5. (snapshot' # Unreadable => Archived(snapshot)') /\ Archived(committed)' /\ Archived(fresh)'
      BY <2>1, <2>2 DEF LedgerInv, Archived
    <2>6. QED BY <1>1, <2>2, <2>4, <2>5 DEF LedgerInv
  <1>8. ASSUME NEW n \in LedgerIds, Cite(n) PROVE LedgerInv'
    <2>1. /\ cited' = cited \cup {n} /\ shown' = [shown EXCEPT ![n] = {Record(committed, n)}]
          /\ UNCHANGED <<log, snapshot, committed, fresh, pc>>
      BY <1>8 DEF Cite
    <2>2. Record(committed, n) \in Records \cup {None}
      BY RecordType DEF LedgerInv, LedgerTypeOK
    <2>3. LedgerTypeOK'
      BY <1>2, <2>1, <2>2 DEF LedgerInv, LedgerTypeOK
    <2>4. QED BY <1>1, <2>1, <2>3, QuietLog DEF LedgerInv, Archived, Events
  <1>9. ASSUME NEW n \in LedgerIds, Uncite(n) PROVE LedgerInv'
    <2>1. /\ cited' = cited \ {n} /\ shown' = [shown EXCEPT ![n] = {}]
          /\ UNCHANGED <<log, snapshot, committed, fresh, pc>>
      BY <1>9 DEF Uncite
    <2>2. LedgerTypeOK'
      BY <1>2, <2>1 DEF LedgerInv, LedgerTypeOK
    <2>3. QED BY <1>1, <2>1, <2>2, QuietLog DEF LedgerInv, Archived, Events
  <1>10. CASE Commit \/ Restore
    <2>1. /\ UNCHANGED <<log, cited, shown, fresh, pc>>
          /\ \/ snapshot # Unreadable /\ committed' = snapshot /\ snapshot' = snapshot
             \/ committed' = committed /\ snapshot' = committed
      BY <1>10 DEF Commit, Restore
    <2>2. LedgerTypeOK'
      BY <2>1 DEF LedgerInv, LedgerTypeOK
    <2>3. QED BY <1>1, <2>1, <2>2, QuietLog DEF LedgerInv, Archived, Events
  <1>11. CASE UNCHANGED ledger
    <2>1. UNCHANGED <<log, snapshot, committed, cited, shown, fresh, pc>>
      BY <1>11 DEF ledger
    <2>2. LedgerTypeOK'
      BY <2>1 DEF LedgerInv, LedgerTypeOK
    <2>3. QED BY <1>1, <2>1, <2>2, QuietLog DEF LedgerInv, Archived, Events
  <1>12. QED BY <1>3, <1>4, <1>5, <1>6, <1>7, <1>8, <1>9, <1>10, <1>11 DEF LedgerNext

LEMMA LedgerInvariant == LedgerSpec => []LedgerInv
  BY LedgerInvInit, LedgerInvStep, PTL DEF LedgerSpec

\* A replay says of each node of the log what the latest event on the matter says,
\* although it reads all creations before the rest; and the snapshots hold records, with
\* a statement each, whatever was amended. The log may be of any length.
THEOREM ReplaysAreRight == LedgerSpec => []ReplayIsLatest
  <1>1. LedgerInv => ReplayIsLatest
    BY LatestOfLog DEF LedgerInv
  <1>2. QED BY <1>1, LedgerInvariant, PTL

\* No record of a cited node enters the snapshot unseen. When check passes, somebody has
\* seen each cited node while it was live; the archived nodes that it reports are
\* archived in the ledger, not only in the snapshot that it reads.
THEOREM ChecksSpeakOfTheLedger == LedgerSpec => []CitedRecordsWereShown
  <1>1. LedgerInv => RecordsWereShown
    BY DEF LedgerInv, Kept, RecordsWereShown, Seen
  <1>2. LedgerInv => ChecksAreRight
    <2> SUFFICES ASSUME LedgerInv, snapshot # Unreadable
                 PROVE  /\ Problems = {} => \A n \in cited : \E r \in shown[n] : r # None /\ ~r.archived
                        /\ \A n \in Problems \cap DOMAIN snapshot : Replay(log)[n].archived
      BY DEF ChecksAreRight
    <2>1. ASSUME Problems = {}, NEW n \in cited PROVE \E r \in shown[n] : r # None /\ ~r.archived
      <3>1. n \in DOMAIN snapshot /\ ~snapshot[n].archived
        BY <2>1 DEF Problems
      <3>2. snapshot[n] \in shown[n]
        BY <2>1, <3>1 DEF LedgerInv, Kept, Seen, Record
      <3>3. snapshot[n] \in Records
        BY <3>1 DEF LedgerInv, LedgerTypeOK, IsSnapshot
      <3>4. QED BY <3>1, <3>2, <3>3, LedgerAssumption
    <2>2. ASSUME NEW n \in Problems \cap DOMAIN snapshot PROVE Replay(log)[n].archived
      <3>1. Events(n, {"node_archived"}) # {}
        BY <2>2 DEF Problems, LedgerInv, Archived
      <3>2. n \in {log[i].id : i \in DOMAIN log}
        BY <3>1 DEF Events
      <3>3. ReplayIsLatest
        BY LatestOfLog DEF LedgerInv
      <3>4. QED BY <3>1, <3>2, <3>3 DEF ReplayIsLatest
    <2>3. QED BY <2>1, <2>2
  <1>3. QED BY <1>1, <1>2, LedgerInvariant, PTL DEF CitedRecordsWereShown
=============================================================================
