-------------------------- MODULE BlueprintGraphProofs --------------------------
(***************************************************************************)
(* The walk through Lean's constants, for every graph of constants and     *)
(* every choice of owners; and the search for cycles, Tarjan's algorithm,  *)
(* for every graph of nodes.                                               *)
(***************************************************************************)
EXTENDS BlueprintGraph, FiniteSetTheorems, SequenceTheorems, WellFoundedInduction, TLAPS

-----------------------------------------------------------------------------
(* The walk.                                                               *)

\* What is still on the stack, or already visited: a constant a visited one
\* uses is in one of the two.
Reserve == seen \cup W!Canonical(toVisit)

Covered ==
  /\ W!Canonical(starts) \subseteq Reserve
  /\ \A c \in seen : ~W!Foreign(c) => W!Canonical(W!NextOf(c)) \subseteq Reserve

\* Nothing is visited or stacked that a closed set lacks.
Needed == \A S \in SUBSET Decls : W!Closed(S) => Reserve \subseteq S

WalkInv == W!TypeOK /\ Covered /\ Needed

LEMMA CanonicalUnion ==
  ASSUME NEW S, NEW T
  PROVE  W!Canonical(S \cup T) = W!Canonical(S) \cup W!Canonical(T)
  BY DEF W!Canonical

LEMMA CanonicalRest ==
  ASSUME NEW S, NEW s \in S
  PROVE  W!Canonical(S) = W!Canonical(S \ {s}) \cup {alias[s]}
  BY DEF W!Canonical

\* The inputs decide where the walk stops and what a constant uses.
LEMMA InputFixed ==
  ASSUME UNCHANGED W!input
  PROVE  /\ \A c : W!Foreign(c)' = W!Foreign(c)
         /\ \A c : W!NextOf(c)' = W!NextOf(c)
         /\ \A S : W!Canonical(S)' = {alias[c] : c \in S}
         /\ \A S : W!Closed(S)' = W!Closed(S)
         /\ W!InputOK => W!InputOK'
  BY DEF W!input, W!Foreign, W!NextOf, W!Canonical, W!Closed, W!InputOK

LEMMA WalkTypeInit == W!Init => W!TypeOK
  BY DEF W!Init, W!Begin, W!TypeOK, W!InputOK

LEMMA WalkInvInit == W!Init => WalkInv
  <1> SUFFICES ASSUME W!Init PROVE WalkInv
    OBVIOUS
  <1>1. W!TypeOK
    BY WalkTypeInit
  <1>2. Covered /\ Needed
    BY DEF W!Init, W!Begin, Covered, Needed, Reserve, W!Closed, W!Canonical
  <1>3. QED BY <1>1, <1>2 DEF WalkInv

\* Every step visits s or finds it visited, and stacks N, which holds nothing
\* but what s uses.
LEMMA StepKeepsReserve ==
  ASSUME UNCHANGED W!input, WalkInv,
         NEW s \in toVisit, NEW N \in SUBSET Decls,
         seen' = seen \cup {alias[s]},
         toVisit' = (toVisit \ {s}) \cup N,
         ~W!Foreign(alias[s]) /\ alias[s] \notin seen => N = W!NextOf(alias[s]),
         W!Foreign(alias[s]) \/ alias[s] \in seen => N = {}
  PROVE  Covered' /\ Needed'
  <1>1. /\ \A c : W!Foreign(c)' = W!Foreign(c)
        /\ \A c : W!NextOf(c)' = W!NextOf(c)
        /\ \A S : W!Closed(S)' = W!Closed(S)
    BY InputFixed
  <1>2. \A S : W!Canonical(S)' = W!Canonical(S)
    BY InputFixed DEF W!Canonical
  <1>3. W!Canonical(toVisit') = W!Canonical(toVisit \ {s}) \cup W!Canonical(N)
    BY CanonicalUnion
  <1>4. W!Canonical(toVisit) = W!Canonical(toVisit \ {s}) \cup {alias[s]}
    BY CanonicalRest
  <1>5. Reserve' = Reserve \cup W!Canonical(N)
    <2>1. Reserve' = seen' \cup W!Canonical(toVisit')
      BY InputFixed DEF Reserve, W!Canonical
    <2>2. QED BY <1>3, <1>4, <2>1 DEF Reserve
  <1>6. Covered'
    <2>1. W!Canonical(starts)' \subseteq Reserve'
      BY <1>2, <1>5 DEF WalkInv, Covered, W!Canonical, W!input
    <2>2. ASSUME NEW c \in seen', ~W!Foreign(c)
          PROVE W!Canonical(W!NextOf(c)) \subseteq Reserve'
      <3>1. CASE c \in seen
        BY <1>5, <2>2, <3>1 DEF WalkInv, Covered
      <3>2. CASE c \notin seen
        <4>1. c = alias[s]
          BY <3>2
        <4>2. N = W!NextOf(c)
          BY <2>2, <3>2, <4>1
        <4>3. QED BY <1>5, <4>2
      <3>3. QED BY <3>1, <3>2
    <2>3. ASSUME NEW c \in seen', ~W!Foreign(c)'
          PROVE (W!Canonical(W!NextOf(c)))' \subseteq Reserve'
      <3>1. (W!Canonical(W!NextOf(c)))' = {alias[e] : e \in W!NextOf(c)}
        BY <1>1 DEF W!Canonical, W!input
      <3>2. QED BY <1>1, <2>2, <2>3, <3>1 DEF W!Canonical
    <2>4. QED BY <2>1, <2>3 DEF Covered
  <1>7. ASSUME NEW S \in SUBSET Decls, W!Closed(S)
        PROVE Reserve' \subseteq S
    <2>1. Reserve \subseteq S
      BY <1>7 DEF WalkInv, Needed
    <2>2. alias[s] \in S
      BY <1>4, <2>1 DEF Reserve
    <2>3. W!Canonical(N) \subseteq S
      <3>1. CASE N = {}
        BY <3>1 DEF W!Canonical
      <3>2. CASE N # {}
        <4>1. ~W!Foreign(alias[s]) /\ N = W!NextOf(alias[s])
          BY <3>2
        <4>2. QED BY <1>7, <2>2, <4>1 DEF W!Closed
      <3>3. QED BY <3>1, <3>2
    <2>4. QED BY <1>5, <2>1, <2>3
  <1>8. Needed'
    BY <1>1, <1>7 DEF Needed
  <1>9. QED BY <1>6, <1>8

LEMMA WalkInvNext == WalkInv /\ [W!Next]_W!vars => WalkInv'
  <1> SUFFICES ASSUME WalkInv, [W!Next]_W!vars PROVE WalkInv'
    OBVIOUS
  <1>1. UNCHANGED W!input
    BY DEF W!Next, W!Seen, W!Stop, W!Expand, W!vars
  <1>2. W!InputOK' /\ \A c : W!Foreign(c)' = W!Foreign(c)
    BY <1>1, InputFixed DEF WalkInv, W!TypeOK
  <1>3. ASSUME NEW s \in toVisit, W!Seen(s) PROVE WalkInv'
    <2>1. seen' = seen \cup {alias[s]} /\ toVisit' = (toVisit \ {s}) \cup {}
      BY <1>3 DEF W!Seen
    <2>2. Covered' /\ Needed'
      <3> DEFINE N == {}
      <3>1. alias[s] \in seen
        BY <1>3 DEF W!Seen
      <3>2. N \in SUBSET Decls /\ toVisit' = (toVisit \ {s}) \cup N
        BY <2>1
      <3>3. /\ ~W!Foreign(alias[s]) /\ alias[s] \notin seen => N = W!NextOf(alias[s])
            /\ W!Foreign(alias[s]) \/ alias[s] \in seen => N = {}
        BY <3>1
      <3> HIDE DEF N
      <3>4. QED BY <1>1, <2>1, <3>2, <3>3, StepKeepsReserve
    <2>3. W!TypeOK'
      BY <1>1, <1>2, <1>3 DEF W!Seen, WalkInv, W!TypeOK, W!input
    <2>4. QED BY <2>2, <2>3 DEF WalkInv
  <1>4. ASSUME NEW s \in toVisit, W!Stop(s) PROVE WalkInv'
    <2>1. seen' = seen \cup {alias[s]} /\ toVisit' = (toVisit \ {s}) \cup {}
      BY <1>4 DEF W!Stop
    <2>2. Covered' /\ Needed'
      <3> DEFINE N == {}
      <3>1. W!Foreign(alias[s]) /\ alias[s] \notin seen
        BY <1>4 DEF W!Stop
      <3>2. N \in SUBSET Decls /\ toVisit' = (toVisit \ {s}) \cup N
        BY <2>1
      <3>3. /\ ~W!Foreign(alias[s]) /\ alias[s] \notin seen => N = W!NextOf(alias[s])
            /\ W!Foreign(alias[s]) \/ alias[s] \in seen => N = {}
        BY <3>1
      <3> HIDE DEF N
      <3>4. QED BY <1>1, <2>1, <3>2, <3>3, StepKeepsReserve
    <2>3. alias[s] \in Decls
      BY DEF WalkInv, W!TypeOK, W!InputOK
    <2>4. found' = {owner'[c] : c \in {d \in seen' : W!Foreign(d)'}}
      <3>1. found' = {owner[c] : c \in {d \in seen' : W!Foreign(d)}}
        <4>1. {d \in seen' : W!Foreign(d)} = {d \in seen : W!Foreign(d)} \cup {alias[s]}
          BY <1>4, <2>1 DEF W!Stop
        <4>2. /\ found' = found \cup {owner[alias[s]]}
              /\ found = {owner[c] : c \in {d \in seen : W!Foreign(d)}}
          BY <1>4 DEF W!Stop, WalkInv, W!TypeOK
        <4>3. QED BY <4>1, <4>2
      <3>2. owner' = owner
        BY <1>1 DEF W!input
      <3>3. {d \in seen' : W!Foreign(d)'} = {d \in seen' : W!Foreign(d)}
        BY <1>2
      <3>4. QED BY <3>1, <3>2, <3>3
    <2>5. W!TypeOK'
      <3>1. seen' \subseteq Decls /\ toVisit' \subseteq Decls
        BY <2>1, <2>3 DEF WalkInv, W!TypeOK
      <3>2. QED BY <1>2, <2>4, <3>1 DEF W!TypeOK
    <2>6. QED BY <2>2, <2>5 DEF WalkInv
  <1>5. ASSUME NEW s \in toVisit, W!Expand(s) PROVE WalkInv'
    <2>1. /\ seen' = seen \cup {alias[s]}
          /\ toVisit' = (toVisit \ {s}) \cup W!NextOf(alias[s])
      BY <1>5 DEF W!Expand
    <2>2. alias[s] \in Decls /\ W!NextOf(alias[s]) \in SUBSET Decls
      BY DEF WalkInv, W!TypeOK, W!InputOK, W!NextOf
    <2>3. Covered' /\ Needed'
      BY <1>1, <1>5, <2>1, <2>2, StepKeepsReserve DEF W!Expand
    <2>4. found' = {owner'[c] : c \in {d \in seen' : W!Foreign(d)'}}
      <3>1. {d \in seen' : W!Foreign(d)} = {d \in seen : W!Foreign(d)}
        BY <1>5, <2>1 DEF W!Expand
      <3>2. owner' = owner /\ found' = found
        BY <1>1, <1>5 DEF W!input, W!Expand
      <3>3. {d \in seen' : W!Foreign(d)'} = {d \in seen' : W!Foreign(d)}
        BY <1>2
      <3>4. QED BY <3>1, <3>2, <3>3 DEF WalkInv, W!TypeOK
    <2>5. W!TypeOK'
      BY <1>2, <2>1, <2>2, <2>4 DEF WalkInv, W!TypeOK
    <2>6. QED BY <2>3, <2>5 DEF WalkInv
  <1>6. CASE UNCHANGED W!vars
    <2>1. UNCHANGED <<seen, toVisit, found>>
      BY <1>6 DEF W!vars
    <2>2. W!Canonical(toVisit)' = W!Canonical(toVisit) /\ W!Canonical(starts)' = W!Canonical(starts)
      BY <1>1, <2>1 DEF W!Canonical, W!input
    <2>3. \A c : W!Canonical(W!NextOf(c))' = W!Canonical(W!NextOf(c))
      BY <1>1, InputFixed DEF W!Canonical, W!input
    <2>4. Covered' /\ Needed'
      BY <1>1, <1>2, <2>1, <2>2, <2>3, InputFixed DEF WalkInv, Covered, Needed, Reserve
    <2>5. W!TypeOK'
      BY <1>1, <1>2, <2>1 DEF WalkInv, W!TypeOK, W!input
    <2>6. QED BY <2>4, <2>5 DEF WalkInv
  <1>7. QED BY <1>3, <1>4, <1>5, <1>6 DEF W!Next

\* Every variable keeps its type, and the groups found are those of the visited
\* constants of other nodes.
THEOREM GroupsAreWhole == W!Spec => []W!TypeOK
  <1>1. WalkInv => W!TypeOK
    BY DEF WalkInv
  <1>2. QED BY WalkInvInit, WalkInvNext, <1>1, PTL DEF W!Spec

\* Whenever the walk has an empty stack it has seen exactly the least closed
\* set, whatever cycles there are and in whatever order it popped.
THEOREM ReachIsLeast == W!Spec => []W!WalkIsExact
  <1>1. WalkInv => W!WalkIsExact
    <2> SUFFICES ASSUME WalkInv PROVE W!WalkIsExact
      OBVIOUS
    <2>1. toVisit = {} => Reserve = seen
      BY DEF Reserve, W!Canonical
    <2>2. toVisit = {} => W!Closed(seen)
      BY <2>1 DEF WalkInv, Covered, W!Closed
    <2>3. ASSUME NEW S \in SUBSET Decls, W!Closed(S) PROVE seen \subseteq S
      BY <2>3 DEF WalkInv, Needed, Reserve
    <2>4. QED BY <2>2, <2>3 DEF W!WalkIsExact
  <1>2. QED BY WalkInvInit, WalkInvNext, <1>1, PTL DEF W!Spec

-----------------------------------------------------------------------------
(* The search for cycles.                                                  *)

Visited == DOMAIN index

\* The nodes whose visit is going on, and what a node has still to look at.
Gray == {calls[k].node : k \in DOMAIN calls}
Pending(v) == UNION {calls[k].left : k \in {l \in DOMAIN calls : calls[l].node = v}}

Types ==
  /\ edges \in [Vertices -> SUBSET Vertices]
  /\ Visited \subseteq Vertices /\ IsFiniteSet(Visited)
  /\ \A v \in Visited : index[v] \in Nat /\ index[v] < Cardinality(Visited)
  /\ \A v, w \in Visited : index[v] = index[w] => v = w
  /\ DOMAIN low = Visited /\ \A v \in Visited : low[v] \in Nat

\* The stack and the calls are in the order of the visits.
Ordered ==
  /\ stack \in Seq(Visited)
  /\ \A i, j \in DOMAIN stack : i < j => index[stack[i]] < index[stack[j]]
  /\ calls \in Seq([node : Visited, left : SUBSET Vertices])
  /\ \A k, l \in DOMAIN calls : k < l => index[calls[k].node] < index[calls[l].node]
  /\ Gray \subseteq On
  /\ \A k \in DOMAIN calls : calls[k].left \subseteq edges[calls[k].node]

Leads(v, w) == w = v \/ w \in Reached(v)

\* No edge leaves what is in a component already.
Sealed == \A v \in Visited \ On : edges[v] \subseteq Visited \ On

\* What has been looked at is in low.
Looking == \A v \in On : \A w \in edges[v] \ Pending(v) : w \in Visited /\ (w \in On => low[v] <= index[w])

Lowest ==
  /\ \A v \in On : low[v] <= index[v] /\ \E u \in On : index[u] = low[v] /\ Leads(v, u)
  /\ \A v \in On \ Gray : low[v] < index[v]

Forward == \A u \in Gray, v \in On : index[u] <= index[v] => Leads(u, v)

\* The visit that a node was met in knows its low.
Inherited ==
  \A x \in On, g \in Gray :
    index[g] <= index[x] /\ (\A h \in Gray : index[h] <= index[g] \/ index[h] > index[x]) =>
      low[g] <= low[x]

ComponentOf(v) == {w \in Reached(v) : v \in Reached(w)}

Found ==
  /\ out \subseteq Components
  /\ \A v \in Visited \ On : v \in Reached(v) => ComponentOf(v) \in out

SearchInv == Types /\ Ordered /\ Sealed /\ Looking /\ Lowest /\ Forward /\ Inherited /\ Found

-----------------------------------------------------------------------------
LEMMA ReachedStep ==
  ASSUME edges \in [Vertices -> SUBSET Vertices], NEW v \in Vertices, NEW w \in edges[v]
  PROVE  w \in Reached(v)
  BY DEF Reached

LEMMA ReachedTrans ==
  ASSUME edges \in [Vertices -> SUBSET Vertices], NEW v \in Vertices,
         NEW w \in Reached(v), NEW x \in Reached(w)
  PROVE  x \in Reached(v)
  <1>1. x \in Vertices /\ w \in Vertices
    BY DEF Reached
  <1>2. ASSUME NEW S \in SUBSET Vertices, edges[v] \subseteq S, \A y \in S : edges[y] \subseteq S
        PROVE  x \in S
    <2>1. w \in S
      BY <1>2 DEF Reached
    <2>2. edges[w] \subseteq S
      BY <1>2, <2>1
    <2>3. QED BY <1>2, <2>2 DEF Reached
  <1>3. QED BY <1>1, <1>2 DEF Reached

LEMMA ReachedInClosed ==
  ASSUME NEW S \in SUBSET Vertices, \A y \in S : edges[y] \subseteq S, NEW v \in S
  PROVE  Reached(v) \subseteq S
  BY DEF Reached

LEMMA LeadsTrans ==
  ASSUME edges \in [Vertices -> SUBSET Vertices], NEW v \in Vertices, NEW w, NEW x,
         Leads(v, w), Leads(w, x)
  PROVE  Leads(v, x)
  BY ReachedTrans DEF Leads

LEMMA SameEdges ==
  ASSUME edges' = edges
  PROVE  /\ \A v : Reached(v)' = Reached(v)
         /\ \A v, w : Leads(v, w)' = Leads(v, w)
         /\ \A v : ComponentOf(v)' = ComponentOf(v)
         /\ Components' = Components
  <1>1. \A v : Reached(v)' = Reached(v)
    BY DEF Reached
  <1>2. QED BY <1>1 DEF Leads, ComponentOf, Components

LEMMA ComponentsAre == Components = {ComponentOf(v) : v \in {u \in Vertices : u \in Reached(u)}}
  BY DEF Components, ComponentOf

LEMMA FrameTypes ==
  ASSUME Ordered
  PROVE  /\ Len(calls) \in Nat /\ DOMAIN calls = 1..Len(calls)
         /\ \A k \in DOMAIN calls : /\ calls[k] \in [node : Visited, left : SUBSET Vertices]
                                   /\ calls[k].node \in Visited /\ calls[k].node \in Gray
         /\ Len(stack) \in Nat /\ DOMAIN stack = 1..Len(stack) /\ On \subseteq Visited
         /\ \A i \in DOMAIN stack : stack[i] \in Visited /\ stack[i] \in On
  <1> DEFINE Frame == [node : Visited, left : SUBSET Vertices]
  <1>1. calls \in Seq(Frame) /\ stack \in Seq(Visited)
    BY DEF Ordered
  <1>2. \A f \in Frame : f.node \in Visited
    OBVIOUS
  <1> HIDE DEF Frame
  <1>3. /\ Len(calls) \in Nat /\ DOMAIN calls = 1..Len(calls)
        /\ \A k \in DOMAIN calls : calls[k] \in Frame
        /\ Len(stack) \in Nat /\ DOMAIN stack = 1..Len(stack)
        /\ \A i \in DOMAIN stack : stack[i] \in Visited
    BY <1>1
  <1>4. QED BY <1>2, <1>3 DEF On, Gray, Frame

LEMMA SameLength == ASSUME NEW m \in Nat, NEW n \in Nat, 1..m = 1..n PROVE m = n
  <1>1. CASE m < n
    BY <1>1
  <1>2. CASE n < m
    BY <1>2
  <1>3. QED BY <1>1, <1>2

\* What On, Gray and Pending become when a visit starts.
LEMMA VisitEffect ==
  ASSUME Types, Ordered, NEW v \in Vertices, v \notin Visited,
         NEW callers \in Seq([node : Visited, left : SUBSET Vertices]),
         DOMAIN callers = DOMAIN calls, \A k \in DOMAIN calls : callers[k].node = calls[k].node,
         \A k \in DOMAIN calls : callers[k].left \subseteq calls[k].left,
         Visit(v, callers)
  PROVE  /\ Types' /\ Ordered' /\ Visited' = Visited \cup {v}
         /\ \A w \in Visited : index'[w] = index[w] /\ low'[w] = low[w] /\ index[w] < index'[v]
         /\ low'[v] = index'[v] /\ index'[v] \in Nat
         /\ On' = On \cup {v} /\ Gray' = Gray \cup {v}
         /\ Pending(v)' = edges[v]
         /\ \A w \in Visited : Pending(w)' = UNION {callers[k].left : k \in {l \in DOMAIN calls : calls[l].node = w}}
  <1> DEFINE n == Cardinality(Visited)
  <1>1. /\ index' = [w \in Visited \cup {v} |-> IF w = v THEN n ELSE index[w]]
        /\ low' = [w \in Visited \cup {v} |-> IF w = v THEN n ELSE low[w]]
        /\ stack' = Append(stack, v) /\ calls' = Append(callers, [node |-> v, left |-> edges[v]])
        /\ edges' = edges /\ out' = out
    BY DEF Visit, Visited, Types
  <1>2. n \in Nat /\ IsFiniteSet(Visited \cup {v}) /\ Cardinality(Visited \cup {v}) = n + 1
    BY FS_CardinalityType, FS_AddElement DEF Types
  <1>3. Visited' = Visited \cup {v}
    BY <1>1 DEF Visited
  <1>4. /\ \A w \in Visited : index'[w] = index[w] /\ low'[w] = low[w] /\ index[w] < n
        /\ index'[v] = n /\ low'[v] = n
    BY <1>1 DEF Types
  <1> HIDE DEF n
  <1>5. Types'
    <2>1. DOMAIN low' = Visited' /\ DOMAIN index' = Visited'
      BY <1>1, <1>3
    <2>2. Cardinality(Visited') = n + 1 /\ IsFiniteSet(Visited')
      BY <1>2, <1>3
    <2>3. \A w \in Visited' : index'[w] \in Nat /\ low'[w] \in Nat /\ index'[w] < n + 1
      BY <1>2, <1>3, <1>4 DEF Types
    <2>4. \A w, x \in Visited' : index'[w] = index'[x] => w = x
      BY <1>2, <1>3, <1>4 DEF Types
    <2>5. edges' \in [Vertices -> SUBSET Vertices] /\ Visited' \subseteq Vertices
      BY <1>1, <1>3 DEF Types
    <2>6. QED BY <2>1, <2>2, <2>3, <2>4, <2>5 DEF Types
  <1>6. /\ stack' \in Seq(Visited') /\ On' = On \cup {v}
        /\ \A i, j \in DOMAIN stack' : i < j => index'[stack'[i]] < index'[stack'[j]]
    <2>1. /\ stack \in Seq(Visited) /\ Len(stack) \in Nat /\ DOMAIN stack = 1..Len(stack)
          /\ \A i \in DOMAIN stack : stack[i] \in Visited
      BY DEF Ordered
    <2>2. /\ Len(stack') = Len(stack) + 1 /\ DOMAIN stack' = 1..(Len(stack) + 1)
          /\ stack'[Len(stack) + 1] = v /\ \A i \in DOMAIN stack : stack'[i] = stack[i]
          /\ stack' \in Seq(Visited \cup {v})
      BY <1>1, <2>1
    <2>3. \A i \in DOMAIN stack' : i \in DOMAIN stack \/ i = Len(stack) + 1
      BY <2>1, <2>2
    <2>4. On' = On \cup {v}
      BY <2>1, <2>2, <2>3 DEF On
    <2>5. ASSUME NEW i \in DOMAIN stack', NEW j \in DOMAIN stack', i < j
          PROVE  index'[stack'[i]] < index'[stack'[j]]
      <3>1. i \in DOMAIN stack
        BY <2>1, <2>2, <2>5
      <3>2. QED BY <1>4, <2>1, <2>2, <2>3, <2>5, <3>1 DEF Ordered
    <2>6. QED BY <1>3, <2>2, <2>4, <2>5
  <1> DEFINE Frame == [node : Visited', left : SUBSET Vertices]
             top == [node |-> v, left |-> edges[v]]
  <1>7. /\ callers \in Seq(Frame) /\ top \in Frame /\ top.node = v /\ top.left = edges[v]
    <2>1. [node : Visited, left : SUBSET Vertices] \subseteq Frame
      BY <1>3
    <2>2. callers \in Seq(Frame)
      <3> DEFINE G == [node : Visited, left : SUBSET Vertices]
      <3>1. callers \in Seq(G) /\ G \subseteq Frame
        BY <2>1
      <3> HIDE DEF Frame, G
      <3>2. QED BY <3>1
    <2>3. QED BY <1>3, <2>2 DEF Types
  <1> HIDE DEF Frame, top
  <1>8. /\ calls' \in Seq(Frame) /\ Len(calls) \in Nat /\ DOMAIN calls = 1..Len(calls)
        /\ DOMAIN calls' = DOMAIN calls \cup {Len(calls) + 1}
        /\ calls'[Len(calls) + 1] = top /\ \A k \in DOMAIN calls : calls'[k] = callers[k]
    <2>1. /\ calls' = Append(callers, top) /\ DOMAIN callers = 1..Len(callers)
          /\ Len(callers) \in Nat /\ Len(calls) \in Nat /\ DOMAIN calls = 1..Len(calls)
      BY <1>1, <1>7 DEF top, Ordered
    <2>2. Len(calls) = Len(callers)
      BY <2>1, SameLength
    <2>3. QED BY <1>7, <2>1, <2>2
  <1>9. /\ \A k \in DOMAIN calls : calls'[k].node = calls[k].node /\ calls[k].node \in Visited
        /\ \A k \in DOMAIN calls : calls'[k].left \subseteq calls[k].left
    <2>1. \A k \in DOMAIN calls : calls[k] \in [node : Visited, left : SUBSET Vertices]
      BY FrameTypes
    <2>2. QED BY <1>8, <2>1
  <1>10. Gray' = Gray \cup {v}
    BY <1>7, <1>8, <1>9 DEF Gray
  <1>11. Ordered'
    <2>1. ASSUME NEW k \in DOMAIN calls', NEW l \in DOMAIN calls', k < l
          PROVE  index'[calls'[k].node] < index'[calls'[l].node]
      <3>1. k \in DOMAIN calls
        BY <1>8, <2>1
      <3>2. CASE l \in DOMAIN calls
        <4>1. /\ index[calls[k].node] < index[calls[l].node]
              /\ calls'[k].node = calls[k].node /\ calls'[l].node = calls[l].node
          BY <1>9, <2>1, <3>1, <3>2 DEF Ordered
        <4>2. QED BY <1>4, <1>9, <3>1, <3>2, <4>1
      <3>3. CASE l = Len(calls) + 1
        <4>1. calls'[l].node = v /\ calls'[k].node = calls[k].node /\ calls[k].node \in Visited
          BY <1>7, <1>8, <1>9, <3>1, <3>3
        <4>2. QED BY <1>4, <4>1
      <3>4. QED BY <1>8, <3>2, <3>3
    <2>2. \A k \in DOMAIN calls' : calls'[k].left \subseteq edges[calls'[k].node]
      BY <1>7, <1>8, <1>9 DEF Ordered
    <2>3. Gray' \subseteq On'
      BY <1>6, <1>10 DEF Ordered
    <2>4. QED BY <1>1, <1>6, <1>8, <2>1, <2>2, <2>3 DEF Ordered, Frame
  <1>12. Pending(v)' = edges[v]
    <2>1. {l \in DOMAIN calls' : calls'[l].node = v} = {Len(calls) + 1}
      BY <1>7, <1>8, <1>9
    <2>2. QED BY <1>7, <1>8, <2>1 DEF Pending
  <1>13. ASSUME NEW w \in Visited
         PROVE  Pending(w)' = UNION {callers[k].left : k \in {l \in DOMAIN calls : calls[l].node = w}}
    <2>1. {l \in DOMAIN calls' : calls'[l].node = w} = {l \in DOMAIN calls : calls[l].node = w}
      BY <1>7, <1>8, <1>9
    <2>2. {calls'[k].left : k \in {l \in DOMAIN calls : calls[l].node = w}}
            = {callers[k].left : k \in {l \in DOMAIN calls : calls[l].node = w}}
      BY <1>8
    <2>3. QED BY <2>1, <2>2 DEF Pending
  <1>14. QED BY <1>2, <1>3, <1>4, <1>5, <1>6, <1>10, <1>11, <1>12, <1>13
\* A visit of v starts, which all that are going on lead to.
LEMMA VisitKeeps ==
  ASSUME SearchInv, NEW v \in Vertices, v \notin Visited,
         NEW callers \in Seq([node : Visited, left : SUBSET Vertices]),
         DOMAIN callers = DOMAIN calls, \A k \in DOMAIN calls : callers[k].node = calls[k].node,
         \A k \in DOMAIN calls : callers[k].left \subseteq calls[k].left,
         \A k \in DOMAIN calls : calls[k].left \subseteq callers[k].left \cup {v},
         \A u \in Gray : Leads(u, v),
         Visit(v, callers)
  PROVE  SearchInv'
  <1>1. /\ Types /\ Ordered /\ edges \in [Vertices -> SUBSET Vertices] /\ Visited \subseteq Vertices
        /\ On \subseteq Visited /\ Gray \subseteq On
    BY FrameTypes DEF SearchInv, Types, Ordered
  <1>2. /\ Types' /\ Ordered' /\ Visited' = Visited \cup {v}
        /\ \A w \in Visited : index'[w] = index[w] /\ low'[w] = low[w] /\ index[w] < index'[v]
        /\ low'[v] = index'[v] /\ index'[v] \in Nat
        /\ On' = On \cup {v} /\ Gray' = Gray \cup {v}
        /\ Pending(v)' = edges[v]
        /\ \A w \in Visited : Pending(w)' = UNION {callers[k].left : k \in {l \in DOMAIN calls : calls[l].node = w}}
    BY <1>1, VisitEffect
  <1>3. edges' = edges /\ out' = out
    BY DEF Visit
  <1>4. /\ \A x : Reached(x)' = Reached(x)
        /\ \A u, x : Leads(u, x)' = Leads(u, x)
        /\ \A x : ComponentOf(x)' = ComponentOf(x)
        /\ Components' = Components
    BY <1>3, SameEdges
  <1>5. \A w \in Visited : index[w] \in Nat /\ low[w] \in Nat
    BY <1>1 DEF Types
  <1>6. Sealed'
    <2>1. Visited' \ On' = Visited \ On
      BY <1>1, <1>2
    <2>2. QED BY <1>3, <2>1 DEF Sealed, SearchInv
  <1>7. Looking'
    <2>1. ASSUME NEW x \in On, NEW w \in edges[x] \ Pending(x)'
          PROVE  w \in Visited' /\ (w \in On' => low'[x] <= index'[w])
      <3>1. Pending(x) \subseteq Pending(x)' \cup {v}
        <4>1. Pending(x)' = UNION {callers[k].left : k \in {l \in DOMAIN calls : calls[l].node = x}}
          BY <1>1, <1>2
        <4>2. ASSUME NEW y \in Pending(x) PROVE y \in Pending(x)' \cup {v}
          <5>1. PICK k \in DOMAIN calls : calls[k].node = x /\ y \in calls[k].left
            BY DEF Pending
          <5>2. y \in callers[k].left \cup {v}
            BY <5>1
          <5>3. QED BY <4>1, <5>1, <5>2
        <4>3. QED BY <4>2
      <3>2. low[x] <= index[x] /\ x \in Visited
        BY <1>1 DEF SearchInv, Lowest
      <3>3. CASE w = v
        BY <1>2, <1>5, <3>2, <3>3
      <3>4. CASE w # v
        <4>1. w \in Visited /\ (w \in On => low[x] <= index[w])
          BY <2>1, <3>1, <3>4 DEF SearchInv, Looking
        <4>2. QED BY <1>2, <3>2, <3>4, <4>1
      <3>5. QED BY <3>3, <3>4
    <2>2. edges'[v] \ Pending(v)' = {}
      BY <1>2, <1>3
    <2>3. ASSUME NEW x \in On', NEW w \in edges'[x] \ Pending(x)'
          PROVE  w \in Visited' /\ (w \in On' => low'[x] <= index'[w])
      BY <1>2, <1>3, <2>1, <2>2, <2>3
    <2>4. QED BY <2>3 DEF Looking
  <1>8. Lowest'
    <2>1. ASSUME NEW x \in On' PROVE low'[x] <= index'[x] /\ \E u \in On' : index'[u] = low'[x] /\ Leads(x, u)
      <3>1. CASE x = v
        BY <1>2, <3>1 DEF Leads
      <3>2. CASE x # v
        <4>1. x \in On /\ low[x] <= index[x]
          BY <1>2, <3>2 DEF SearchInv, Lowest
        <4>2. PICK u \in On : index[u] = low[x] /\ Leads(x, u)
          BY <4>1 DEF SearchInv, Lowest
        <4>3. QED BY <1>1, <1>2, <4>1, <4>2
      <3>3. QED BY <3>1, <3>2
    <2>2. ASSUME NEW x \in On' \ Gray' PROVE low'[x] < index'[x]
      BY <1>1, <1>2, <2>2 DEF SearchInv, Lowest
    <2>3. QED BY <1>4, <2>1, <2>2 DEF Lowest
  <1>9. Forward'
    <2>1. ASSUME NEW u \in Gray', NEW x \in On', index'[u] <= index'[x] PROVE Leads(u, x)
      <3>1. CASE x = v
        BY <1>2, <3>1 DEF Leads
      <3>2. CASE x # v
        <4>1. x \in On /\ x \in Visited
          BY <1>1, <1>2, <3>2
        <4>2. u # v
          BY <1>2, <1>5, <2>1, <4>1
        <4>3. u \in Gray /\ u \in Visited /\ index[u] <= index[x]
          BY <1>1, <1>2, <2>1, <4>1, <4>2
        <4>4. QED BY <4>1, <4>3 DEF SearchInv, Forward
      <3>3. QED BY <3>1, <3>2
    <2>2. QED BY <1>4, <2>1 DEF Forward
  <1>10. Inherited'
    <2>1. ASSUME NEW x \in On', NEW g \in Gray', index'[g] <= index'[x],
                 \A h \in Gray' : index'[h] <= index'[g] \/ index'[h] > index'[x]
          PROVE  low'[g] <= low'[x]
      <3>1. CASE x = v
        <4>1. v \in Gray' /\ ~(index'[v] > index'[v])
          BY <1>2
        <4>2. index'[v] <= index'[g]
          BY <2>1, <3>1, <4>1
        <4>3. g = v
          BY <1>1, <1>2, <1>5, <4>2
        <4>4. QED BY <1>2, <3>1, <4>3
      <3>2. CASE x # v
        <4>1. x \in On /\ x \in Visited
          BY <1>1, <1>2, <3>2
        <4>2. g # v
          BY <1>2, <1>5, <2>1, <4>1
        <4>3. g \in Gray /\ g \in Visited /\ index[g] <= index[x]
          BY <1>1, <1>2, <2>1, <4>1, <4>2
        <4>4. \A h \in Gray : index[h] <= index[g] \/ index[h] > index[x]
          BY <1>1, <1>2, <2>1, <4>1, <4>3
        <4>5. low[g] <= low[x]
          BY <4>1, <4>3, <4>4 DEF SearchInv, Inherited
        <4>6. QED BY <1>2, <4>1, <4>3, <4>5
      <3>3. QED BY <3>1, <3>2
    <2>2. QED BY <2>1 DEF Inherited
  <1>11. Found'
    <2>1. Visited' \ On' = Visited \ On
      BY <1>1, <1>2
    <2>2. QED BY <1>3, <1>4, <2>1 DEF Found, SearchInv
  <1>12. QED BY <1>2, <1>6, <1>7, <1>8, <1>9, <1>10, <1>11 DEF SearchInv

LEMMA StartKeeps == ASSUME SearchInv, NEW v \in Vertices, Start(v) PROVE SearchInv'
  <1>1. calls = <<>> /\ v \notin Visited /\ Visit(v, calls)
    BY DEF Start, Visited
  <1>2. DOMAIN calls = {} /\ Gray = {}
    BY <1>1 DEF Gray
  <1>3. calls \in Seq([node : Visited, left : SUBSET Vertices])
    BY DEF SearchInv, Ordered
  <1>4. QED BY <1>1, <1>2, <1>3, VisitKeeps

\* The visit that goes on is the last.
LEMMA TopFacts ==
  ASSUME Ordered, Types, calls # <<>>
  PROVE  /\ Len(calls) \in DOMAIN calls /\ Top \in [node : Visited, left : SUBSET Vertices]
         /\ Top = calls[Len(calls)] /\ Top.node \in Gray /\ Top.node \in Visited /\ Top.left \subseteq edges[Top.node]
         /\ \A g \in Gray : index[g] <= index[Top.node]
         /\ \A k \in DOMAIN calls : calls[k].node = Top.node <=> k = Len(calls)
         /\ Pending(Top.node) = Top.left
  <1>1. /\ Len(calls) \in Nat /\ DOMAIN calls = 1..Len(calls)
        /\ \A k \in DOMAIN calls : /\ calls[k] \in [node : Visited, left : SUBSET Vertices]
                                   /\ calls[k].node \in Visited /\ calls[k].node \in Gray
        /\ \A v \in Visited : index[v] \in Nat
    BY FrameTypes DEF Types
  <1>2. Len(calls) > 0
    <2>1. calls \in Seq([node : Visited, left : SUBSET Vertices])
      BY DEF Ordered
    <2> DEFINE G == [node : Visited, left : SUBSET Vertices]
    <2> HIDE DEF G
    <2>2. calls \in Seq(G)
      BY <2>1 DEF G
    <2>3. QED BY <2>2
  <1>3. Len(calls) \in DOMAIN calls
    BY <1>1, <1>2
  <1>4. Top.left \subseteq edges[Top.node]
    BY <1>3 DEF Top, Ordered
  <1>5. \A k \in DOMAIN calls : k # Len(calls) => index[calls[k].node] < index[Top.node]
    BY <1>1, <1>3 DEF Top, Ordered
  <1>6. \A g \in Gray : index[g] <= index[Top.node]
    <2>1. ASSUME NEW k \in DOMAIN calls PROVE index[calls[k].node] <= index[Top.node]
      BY <1>1, <1>3, <1>5 DEF Top
    <2>2. QED BY <2>1 DEF Gray
  <1>7. \A k \in DOMAIN calls : calls[k].node = Top.node <=> k = Len(calls)
    BY <1>1, <1>3, <1>5 DEF Top
  <1>8. Pending(Top.node) = Top.left
    <2>1. {l \in DOMAIN calls : calls[l].node = Top.node} = {Len(calls)}
      BY <1>3, <1>7
    <2>2. QED BY <2>1 DEF Pending, Top
  <1>9. QED BY <1>1, <1>3, <1>4, <1>6, <1>7, <1>8 DEF Top

\* Looking at w takes it out of the last call, and nothing else.
LEMMA LookedIs ==
  ASSUME Ordered, Types, calls # <<>>, NEW w
  PROVE  /\ Looked(w) \in Seq([node : Visited, left : SUBSET Vertices]) /\ DOMAIN Looked(w) = DOMAIN calls
         /\ Len(Looked(w)) = Len(calls)
         /\ \A k \in DOMAIN calls : Looked(w)[k].node = calls[k].node
         /\ \A k \in DOMAIN calls : Looked(w)[k].left = IF k = Len(calls) THEN Top.left \ {w} ELSE calls[k].left
  <1> DEFINE G == [node : Visited, left : SUBSET Vertices]
             n == Len(calls)
             f == [calls[n] EXCEPT !.left = calls[n].left \ {w}]
  <1>1. calls \in Seq(G) /\ n \in DOMAIN calls /\ calls[n] \in G /\ Top = calls[n]
    BY TopFacts DEF Ordered
  <1>2. f \in G /\ f.node = calls[n].node /\ f.left = calls[n].left \ {w}
    BY <1>1
  <1>3. Looked(w) = [calls EXCEPT ![n] = f]
    BY <1>1 DEF Looked
  <1> HIDE DEF G, f
  <1>4. /\ Looked(w) \in Seq(G) /\ DOMAIN Looked(w) = DOMAIN calls /\ Len(Looked(w)) = Len(calls)
        /\ \A k \in DOMAIN calls : Looked(w)[k] = IF k = n THEN f ELSE calls[k]
    BY <1>1, <1>2, <1>3
  <1>5. QED BY <1>1, <1>2, <1>4 DEF G

LEMMA CallKeeps == ASSUME SearchInv, NEW w \in Vertices, Call(w) PROVE SearchInv'
  <1>1. /\ calls # <<>> /\ w \in Top.left /\ w \notin Visited /\ Visit(w, Looked(w)) /\ Types /\ Ordered
    BY DEF Call, Visited, SearchInv
  <1>2. /\ Looked(w) \in Seq([node : Visited, left : SUBSET Vertices]) /\ DOMAIN Looked(w) = DOMAIN calls
        /\ \A k \in DOMAIN calls : Looked(w)[k].node = calls[k].node
        /\ \A k \in DOMAIN calls : Looked(w)[k].left = IF k = Len(calls) THEN Top.left \ {w} ELSE calls[k].left
    BY <1>1, LookedIs
  <1>3. \A k \in DOMAIN calls : Looked(w)[k].left \subseteq calls[k].left /\ calls[k].left \subseteq Looked(w)[k].left \cup {w}
    BY <1>2 DEF Top
  <1>4. ASSUME NEW u \in Gray PROVE Leads(u, w)
    <2>1. /\ index[u] <= index[Top.node] /\ Top.node \in Gray /\ Top.node \in On /\ w \in edges[Top.node]
          /\ u \in Vertices /\ Top.node \in Vertices
      BY <1>1, TopFacts, FrameTypes DEF Ordered, Types
    <2>2. Leads(u, Top.node)
      BY <2>1 DEF SearchInv, Forward
    <2>3. Leads(Top.node, w)
      BY <1>1, <2>1, ReachedStep DEF Leads, Types
    <2>4. QED BY <1>1, <2>1, <2>2, <2>3, LeadsTrans DEF Types
  <1>5. QED BY <1>1, <1>2, <1>3, <1>4, VisitKeeps

LEMMA BackKeeps == ASSUME SearchInv, NEW w \in Vertices, Back(w) PROVE SearchInv'
  <1> DEFINE v == Top.node
  <1>1. /\ calls # <<>> /\ w \in Top.left /\ w \in Visited /\ Types /\ Ordered
        /\ low' = IF w \in On THEN [low EXCEPT ![v] = Lesser(low[v], index[w])] ELSE low
        /\ calls' = Looked(w) /\ edges' = edges /\ index' = index /\ stack' = stack /\ out' = out
    BY DEF Back, Visited, SearchInv, Open, Lower
  <1>2. /\ calls' \in Seq([node : Visited, left : SUBSET Vertices]) /\ DOMAIN calls' = DOMAIN calls
        /\ \A k \in DOMAIN calls : calls'[k].node = calls[k].node
        /\ \A k \in DOMAIN calls : calls'[k].left = IF k = Len(calls) THEN Top.left \ {w} ELSE calls[k].left
    BY <1>1, LookedIs
  <1>3. /\ v \in Gray /\ v \in On /\ v \in Visited /\ On \subseteq Visited /\ w \in edges[v]
        /\ \A g \in Gray : index[g] <= index[v] /\ g \in On
        /\ \A k \in DOMAIN calls : calls[k].node = v <=> k = Len(calls)
        /\ Pending(v) = Top.left /\ Top = calls[Len(calls)]
        /\ Visited \subseteq Vertices /\ DOMAIN low = Visited
    BY <1>1, TopFacts, FrameTypes DEF Ordered, Types
  <1>4. Visited' = Visited /\ On' = On /\ Gray' = Gray
    BY <1>1, <1>2 DEF Visited, On, Gray
  <1>5. /\ \A x : Reached(x)' = Reached(x)
        /\ \A u, x : Leads(u, x)' = Leads(u, x)
        /\ \A x : ComponentOf(x)' = ComponentOf(x)
        /\ Components' = Components
    BY <1>1, SameEdges
  <1>6. /\ \A x \in Visited : index[x] \in Nat /\ low[x] \in Nat
        /\ \A x, y \in Visited : index[x] = index[y] => x = y
    BY <1>1 DEF Types
  <1>7. /\ DOMAIN low' = Visited /\ \A x \in Visited : x # v => low'[x] = low[x]
        /\ low'[v] = IF w \in On THEN Lesser(low[v], index[w]) ELSE low[v]
        /\ low'[v] \in Nat /\ low'[v] <= low[v] /\ (w \in On => low'[v] <= index[w])
    BY <1>1, <1>3, <1>6 DEF Lesser
  <1> HIDE DEF v
  <1>8. Types'
    BY <1>1, <1>4, <1>6, <1>7 DEF Types
  <1>9. Ordered'
    <2>1. \A k \in DOMAIN calls' : calls'[k].left \subseteq edges'[calls'[k].node]
      BY <1>1, <1>2, <1>3 DEF Ordered
    <2>2. \A k, l \in DOMAIN calls' : k < l => index'[calls'[k].node] < index'[calls'[l].node]
      BY <1>1, <1>2 DEF Ordered
    <2>3. stack' \in Seq(Visited') /\ \A i, j \in DOMAIN stack' : i < j => index'[stack'[i]] < index'[stack'[j]]
      BY <1>1, <1>4 DEF Ordered
    <2>4. calls' \in Seq([node : Visited', left : SUBSET Vertices])
      BY <1>2, <1>4
    <2>5. QED BY <1>3, <1>4, <2>1, <2>2, <2>3, <2>4 DEF Ordered
  <1>10. Sealed'
    BY <1>1, <1>4 DEF Sealed, SearchInv
  <1>11. ASSUME NEW x \in Visited PROVE Pending(x)' = IF x = v THEN Pending(x) \ {w} ELSE Pending(x)
    <2>1. {l \in DOMAIN calls' : calls'[l].node = x} = {l \in DOMAIN calls : calls[l].node = x}
      BY <1>2
    <2>2. CASE x = v
      <3>1. {l \in DOMAIN calls : calls[l].node = x} = {Len(calls)} /\ Len(calls) \in DOMAIN calls
        BY <1>1, <1>3, <2>2, TopFacts
      <3>2. Pending(x)' = calls'[Len(calls)].left
        BY <2>1, <3>1 DEF Pending
      <3>3. QED BY <1>2, <1>3, <2>2, <3>1, <3>2
    <2>3. CASE x # v
      <3>1. \A l \in DOMAIN calls : calls[l].node = x => calls'[l].left = calls[l].left
        BY <1>2, <1>3, <2>3
      <3>2. {calls'[l].left : l \in {k \in DOMAIN calls : calls[k].node = x}}
              = {calls[l].left : l \in {k \in DOMAIN calls : calls[k].node = x}}
        BY <3>1
      <3>3. QED BY <2>1, <2>3, <3>2 DEF Pending
    <2>4. QED BY <2>2, <2>3
  <1>12. Looking'
    <2>1. ASSUME NEW x \in On, NEW y \in edges[x] \ Pending(x)'
          PROVE  y \in Visited /\ (y \in On => low'[x] <= index[y])
      <3>1. CASE x = v /\ y = w
        BY <1>1, <1>7, <3>1
      <3>2. CASE ~(x = v /\ y = w)
        <4>1. y \in edges[x] \ Pending(x)
          BY <1>3, <1>11, <2>1, <3>2
        <4>2. y \in Visited /\ (y \in On => low[x] <= index[y])
          BY <4>1 DEF SearchInv, Looking
        <4>3. low'[x] <= low[x] /\ low'[x] \in Nat /\ low[x] \in Nat
          BY <1>3, <1>6, <1>7
        <4>4. QED BY <1>3, <1>6, <4>2, <4>3
      <3>3. QED BY <3>1, <3>2
    <2>2. QED BY <1>1, <1>4, <2>1 DEF Looking
  <1>13. Lowest'
    <2>1. ASSUME NEW x \in On PROVE low'[x] <= index[x] /\ \E u \in On : index[u] = low'[x] /\ Leads(x, u)
      <3>1. low[x] <= index[x] /\ x \in Visited
        BY <1>3 DEF SearchInv, Lowest
      <3>2. PICK u \in On : index[u] = low[x] /\ Leads(x, u)
        BY DEF SearchInv, Lowest
      <3>3. CASE low'[x] = low[x]
        BY <3>1, <3>2, <3>3
      <3>4. CASE low'[x] # low[x]
        <4>1. x = v /\ w \in On /\ low'[v] = index[w] /\ low'[v] <= low[v]
          BY <1>3, <1>7, <3>1, <3>4 DEF Lesser
        <4>2. Leads(v, w)
          BY <1>1, <1>3, ReachedStep DEF Leads, Types
        <4>3. QED BY <1>6, <1>7, <3>1, <4>1, <4>2
      <3>5. QED BY <3>3, <3>4
    <2>2. ASSUME NEW x \in On \ Gray PROVE low'[x] < index[x]
      BY <1>3, <1>7, <2>2 DEF SearchInv, Lowest
    <2>3. QED BY <1>1, <1>4, <1>5, <2>1, <2>2 DEF Lowest
  <1>14. Forward'
    BY <1>1, <1>4, <1>5 DEF SearchInv, Forward
  <1>15. Inherited'
    <2>1. ASSUME NEW x \in On, NEW g \in Gray, index[g] <= index[x],
                 \A h \in Gray : index[h] <= index[g] \/ index[h] > index[x]
          PROVE  low'[g] <= low'[x]
      <3>1. low[g] <= low[x] /\ g \in Visited /\ x \in Visited
        BY <1>3, <2>1 DEF SearchInv, Inherited
      <3>2. CASE x = v
        <4>1. index[v] <= index[g]
          BY <1>3, <1>6, <2>1, <3>1, <3>2
        <4>2. g = x
          BY <1>6, <2>1, <3>1, <3>2, <4>1
        <4>3. QED BY <1>7, <3>2, <4>2
      <3>3. CASE x # v
        <4>1. low'[x] = low[x] /\ low'[g] <= low[g] /\ low'[g] \in Nat /\ low[g] \in Nat /\ low[x] \in Nat
          BY <1>6, <1>7, <3>1, <3>3
        <4>2. QED BY <3>1, <4>1
      <3>4. QED BY <3>2, <3>3
    <2>2. QED BY <1>1, <1>4, <2>1 DEF Inherited
  <1>16. Found'
    BY <1>1, <1>4, <1>5 DEF Found, SearchInv
  <1>17. QED BY <1>8, <1>9, <1>10, <1>12, <1>13, <1>14, <1>15, <1>16 DEF SearchInv

\* What is left of the calls when the last visit ends.
LEMMA ReturnEffect ==
  ASSUME Ordered, Types, calls # <<>>, Top.left = {}, calls' = SubSeq(calls, 1, Len(calls) - 1),
         edges' = edges, index' = index
  PROVE  /\ calls' \in Seq([node : Visited, left : SUBSET Vertices]) /\ Gray' = Gray \ {Top.node}
         /\ \A k, l \in DOMAIN calls' : k < l => index'[calls'[k].node] < index'[calls'[l].node]
         /\ \A k \in DOMAIN calls' : calls'[k].left \subseteq edges'[calls'[k].node]
         /\ \A x : Pending(x)' = Pending(x)
         /\ Len(calls) = 1 => Gray' = {}
         /\ Len(calls) # 1 => LET c == calls[Len(calls) - 1].node
                              IN  c \in Gray' /\ index[c] < index[Top.node] /\ \A g \in Gray' : index[g] <= index[c]
  <1> DEFINE G == [node : Visited, left : SUBSET Vertices]
             n == Len(calls)
             v == Top.node
             c == calls[n - 1].node
  <1>1. /\ n \in Nat /\ DOMAIN calls = 1..n /\ n \in DOMAIN calls
        /\ \A k \in DOMAIN calls : calls[k] \in G /\ calls[k].node \in Visited /\ calls[k].node \in Gray
        /\ v = calls[n].node /\ Pending(v) = {} /\ calls[n].left = {}
        /\ \A k \in DOMAIN calls : calls[k].node = v <=> k = n
    BY TopFacts, FrameTypes
  <1>2. calls' \in Seq(G) /\ DOMAIN calls' = 1..(n - 1) /\ \A k \in 1..(n - 1) : calls'[k] = calls[k]
    <2>1. calls \in Seq(G)
      BY DEF Ordered
    <2> HIDE DEF G
    <2>2. QED BY <1>1, <2>1
  <1>3. \A k \in DOMAIN calls : k \in DOMAIN calls' <=> k # n
    BY <1>1, <1>2
  <1>4. DOMAIN calls' \subseteq DOMAIN calls
    BY <1>1, <1>2
  <1>5. Gray' = Gray \ {v}
    <2>1. /\ \A k \in DOMAIN calls' : k \in DOMAIN calls /\ calls'[k].node = calls[k].node /\ calls[k].node # v
          /\ \A k \in DOMAIN calls : k \in DOMAIN calls' \/ calls[k].node = v
      BY <1>1, <1>2, <1>3, <1>4
    <2>2. QED BY <2>1 DEF Gray
  <1>6. \A k, l \in DOMAIN calls' : k < l => index'[calls'[k].node] < index'[calls'[l].node]
    BY <1>2, <1>4 DEF Ordered
  <1>7. \A k \in DOMAIN calls' : calls'[k].left \subseteq edges'[calls'[k].node]
    BY <1>2, <1>4 DEF Ordered
  <1>8. ASSUME NEW x PROVE Pending(x)' = Pending(x)
    <2>1. ASSUME NEW y \in Pending(x) PROVE y \in Pending(x)'
      <3>1. PICK k \in DOMAIN calls : calls[k].node = x /\ y \in calls[k].left
        BY DEF Pending
      <3>2. k \in DOMAIN calls' /\ calls'[k] = calls[k]
        BY <1>1, <1>2, <1>3, <3>1
      <3>3. QED BY <3>1, <3>2 DEF Pending
    <2>2. ASSUME NEW y \in Pending(x)' PROVE y \in Pending(x)
      <3>1. PICK k \in DOMAIN calls' : calls'[k].node = x /\ y \in calls'[k].left
        BY <2>2 DEF Pending
      <3>2. k \in DOMAIN calls /\ calls'[k] = calls[k]
        BY <1>2, <1>4
      <3>3. QED BY <3>1, <3>2 DEF Pending
    <2>3. QED BY <2>1, <2>2
  <1>9. ASSUME n = 1 PROVE Gray' = {}
    BY <1>2, <1>9 DEF Gray
  <1>10. ASSUME n # 1 PROVE c \in Gray' /\ index[c] < index[v] /\ \A g \in Gray' : index[g] <= index[c]
    <2>1. n - 1 \in DOMAIN calls' /\ n - 1 \in DOMAIN calls /\ n - 1 < n
      BY <1>1, <1>2, <1>10
    <2>2. c \in Gray' /\ index[c] < index[v]
      BY <1>1, <1>2, <2>1 DEF Gray, Ordered
    <2>3. ASSUME NEW k \in DOMAIN calls' PROVE index[calls'[k].node] <= index[c]
      <3>1. k = n - 1 \/ k < n - 1
        BY <1>1, <1>2
      <3>2. index[c] \in Nat
        BY <1>1, <2>1 DEF Types
      <3>3. k < n - 1 => index[calls[k].node] < index[c]
        BY <1>4, <2>1 DEF Ordered
      <3>4. index[calls[k].node] \in Nat /\ calls'[k] = calls[k]
        BY <1>1, <1>2, <1>4 DEF Types
      <3>5. QED BY <3>1, <3>2, <3>3, <3>4
    <2>4. QED BY <2>2, <2>3 DEF Gray
  <1>11. QED BY <1>2, <1>5, <1>6, <1>7, <1>8, <1>9, <1>10

\* A visit ends that met an earlier node.
LEMMA ReturnOpen == ASSUME SearchInv, Return, low[Top.node] # index[Top.node] PROVE SearchInv'
  <1> DEFINE v == Top.node
             n == Len(calls)
             c == calls[n - 1].node
  <1>1. /\ calls # <<>> /\ Top.left = {} /\ Types /\ Ordered
        /\ stack' = stack /\ out' = out /\ low' = (IF n = 1 THEN low ELSE [low EXCEPT ![c] = Lesser(low[c], low[v])])
        /\ calls' = SubSeq(calls, 1, n - 1) /\ edges' = edges /\ index' = index
    BY DEF Return, SearchInv, Lower
  <1>2. /\ calls' \in Seq([node : Visited, left : SUBSET Vertices]) /\ Gray' = Gray \ {v}
        /\ \A k, l \in DOMAIN calls' : k < l => index'[calls'[k].node] < index'[calls'[l].node]
        /\ \A k \in DOMAIN calls' : calls'[k].left \subseteq edges'[calls'[k].node]
        /\ \A x : Pending(x)' = Pending(x)
        /\ n = 1 => Gray' = {}
        /\ n # 1 => c \in Gray' /\ index[c] < index[v] /\ \A g \in Gray' : index[g] <= index[c]
    BY <1>1, ReturnEffect
  <1>3. /\ v \in Gray /\ v \in On /\ On \subseteq Visited /\ Gray \subseteq On
        /\ \A g \in Gray : index[g] <= index[v]
        /\ Visited \subseteq Vertices /\ DOMAIN low = Visited
        /\ \A x \in Visited : index[x] \in Nat /\ low[x] \in Nat
        /\ \A x, y \in Visited : index[x] = index[y] => x = y
    BY <1>1, TopFacts, FrameTypes DEF Ordered, Types
  <1>4. Visited' = Visited /\ On' = On
    BY <1>1 DEF Visited, On
  <1>5. /\ \A x : Reached(x)' = Reached(x)
        /\ \A u, x : Leads(u, x)' = Leads(u, x)
        /\ \A x : ComponentOf(x)' = ComponentOf(x)
        /\ Components' = Components
    BY <1>1, SameEdges
  <1>6. low[v] < index[v]
    BY <1>3 DEF SearchInv, Lowest
  <1> HIDE DEF v, n, c
  <1>7. /\ DOMAIN low' = Visited /\ \A x \in Visited : low'[x] \in Nat /\ low'[x] <= low[x]
        /\ \A x \in Visited : x # c \/ n = 1 => low'[x] = low[x]
        /\ n # 1 => low'[c] <= low[v] /\ (low'[c] = low[c] \/ low'[c] = low[v])
    BY <1>1, <1>2, <1>3 DEF Lesser
  <1>8. Types'
    BY <1>1, <1>4, <1>7 DEF Types
  <1>9. Ordered'
    <2>1. stack' \in Seq(Visited') /\ \A i, j \in DOMAIN stack' : i < j => index'[stack'[i]] < index'[stack'[j]]
      BY <1>1, <1>4 DEF Ordered
    <2>2. calls' \in Seq([node : Visited', left : SUBSET Vertices])
      BY <1>2, <1>4
    <2>3. Gray' \subseteq On'
      BY <1>2, <1>3, <1>4
    <2>4. QED BY <1>2, <2>1, <2>2, <2>3 DEF Ordered
  <1>10. Sealed'
    BY <1>1, <1>4 DEF Sealed, SearchInv
  <1>11. Looking'
    <2>1. ASSUME NEW x \in On, NEW y \in edges[x] \ Pending(x)
          PROVE  y \in Visited /\ (y \in On => low'[x] <= index[y])
      <3>1. y \in Visited /\ (y \in On => low[x] <= index[y])
        BY DEF SearchInv, Looking
      <3>2. x \in Visited /\ low'[x] <= low[x] /\ low'[x] \in Nat /\ low[x] \in Nat /\ index[y] \in Nat
        BY <1>3, <1>7, <3>1
      <3>3. QED BY <3>1, <3>2
    <2>2. QED BY <1>1, <1>2, <1>4, <2>1 DEF Looking
  <1>12. Lowest'
    <2>1. ASSUME NEW x \in On PROVE low'[x] <= index[x] /\ \E u \in On : index[u] = low'[x] /\ Leads(x, u)
      <3>1. low[x] <= index[x] /\ x \in Visited
        BY <1>3 DEF SearchInv, Lowest
      <3>2. CASE low'[x] = low[x]
        BY <3>1, <3>2 DEF SearchInv, Lowest
      <3>3. CASE low'[x] # low[x]
        <4>1. n # 1 /\ x = c /\ low'[x] = low[v]
          BY <1>7, <3>1, <3>3
        <4>2. PICK u \in On : index[u] = low[v] /\ Leads(v, u)
          BY <1>3 DEF SearchInv, Lowest
        <4>3. Leads(x, v)
          BY <1>2, <1>3, <4>1 DEF SearchInv, Forward
        <4>4. Leads(x, u)
          BY <1>1, <1>3, <3>1, <4>2, <4>3, LeadsTrans DEF Types
        <4>5. low'[x] <= index[x]
          BY <1>3, <1>7, <3>1
        <4>6. QED BY <4>1, <4>2, <4>4, <4>5
      <3>4. QED BY <3>2, <3>3
    <2>2. ASSUME NEW x \in On \ Gray' PROVE low'[x] < index[x]
      <3>1. low[x] < index[x]
        BY <1>2, <1>6, <2>2 DEF SearchInv, Lowest
      <3>2. QED BY <1>3, <1>7, <3>1
    <2>3. QED BY <1>1, <1>4, <1>5, <2>1, <2>2 DEF Lowest
  <1>13. Forward'
    BY <1>1, <1>2, <1>4, <1>5 DEF SearchInv, Forward
  <1>14. Inherited'
    <2>1. ASSUME NEW x \in On, NEW g \in Gray', index[g] <= index[x],
                 \A h \in Gray' : index[h] <= index[g] \/ index[h] > index[x]
          PROVE  low'[g] <= low'[x]
      <3>1. g \in Gray /\ g \in Visited /\ x \in Visited /\ n # 1 /\ c \in Gray' /\ c \in Visited
        BY <1>2, <1>3
      <3>2. CASE index[v] > index[x]
        <4>1. \A h \in Gray : index[h] <= index[g] \/ index[h] > index[x]
          BY <1>2, <2>1, <3>2
        <4>2. low[g] <= low[x]
          BY <2>1, <3>1, <4>1 DEF SearchInv, Inherited
        <4>3. CASE x = c
          <5>1. index[x] <= index[g]
            BY <1>3, <2>1, <3>1, <4>3
          <5>2. x = g
            BY <1>3, <2>1, <3>1, <5>1
          <5>3. QED BY <1>7, <3>1, <5>2
        <4>4. CASE x # c
          BY <1>3, <1>7, <3>1, <4>2, <4>4
        <4>5. QED BY <4>3, <4>4
      <3>3. CASE ~(index[v] > index[x])
        <4>1. index[v] <= index[x] /\ v \in Visited
          BY <1>3, <3>1, <3>3
        <4>2. low[v] <= low[x]
          BY <1>3, <4>1 DEF SearchInv, Inherited
        <4>3. index[c] <= index[g] /\ index[g] <= index[c] /\ x # c
          BY <1>2, <1>3, <2>1, <3>1, <4>1
        <4>4. g = c
          BY <1>3, <3>1, <4>3
        <4>5. low'[g] <= low[v] /\ low'[x] = low[x]
          BY <1>7, <3>1, <4>3, <4>4
        <4>6. QED BY <1>3, <1>7, <3>1, <4>1, <4>2, <4>5
      <3>4. QED BY <3>2, <3>3
    <2>2. QED BY <1>1, <1>4, <2>1 DEF Inherited
  <1>15. Found'
    BY <1>1, <1>4, <1>5 DEF Found, SearchInv
  <1>16. QED BY <1>8, <1>9, <1>10, <1>11, <1>12, <1>13, <1>14, <1>15 DEF SearchInv

\* What the stack holds from the node of the last visit on are the nodes that were met since.
LEMMA ComponentIs ==
  ASSUME Ordered, Types, NEW v \in On
  PROVE  /\ Component(v) = {x \in On : index[x] >= index[v]}
         /\ stack' = SubSeq(stack, 1, From(v) - 1) /\ index' = index =>
              /\ On' = {x \in On : index[x] < index[v]} /\ stack' \in Seq(Visited)
              /\ \A i, j \in DOMAIN stack' : i < j => index'[stack'[i]] < index'[stack'[j]]
  <1> DEFINE m == From(v)
  <1>1. /\ Len(stack) \in Nat /\ DOMAIN stack = 1..Len(stack) /\ stack \in Seq(Visited)
        /\ \A i \in DOMAIN stack : stack[i] \in Visited /\ stack[i] \in On /\ index[stack[i]] \in Nat
        /\ \A i, j \in DOMAIN stack : i < j => index[stack[i]] < index[stack[j]]
    BY FrameTypes DEF Ordered, Types
  <1>2. m \in 1..Len(stack) /\ stack[m] = v
    BY DEF On, From
  <1> HIDE DEF m
  <1>3. \A i \in 1..Len(stack) : index[stack[i]] >= index[v] <=> i >= m
    BY <1>1, <1>2
  <1>4. Component(v) = {x \in On : index[x] >= index[v]}
    BY <1>1, <1>2, <1>3 DEF Component, On, m
  <1>5. ASSUME stack' = SubSeq(stack, 1, m - 1), index' = index
        PROVE  /\ On' = {x \in On : index[x] < index[v]} /\ stack' \in Seq(Visited)
               /\ \A i, j \in DOMAIN stack' : i < j => index'[stack'[i]] < index'[stack'[j]]
    <2>1. stack' \in Seq(Visited) /\ Len(stack') = m - 1 /\ \A i \in 1..(m - 1) : stack'[i] = stack[i]
      BY <1>1, <1>2, <1>5
    <2>2. \A i \in 1..Len(stack) : index[stack[i]] < index[v] <=> i \in 1..(m - 1)
      BY <1>1, <1>2, <1>3
    <2>3. On' = {x \in On : index[x] < index[v]}
      BY <1>1, <1>2, <2>1, <2>2 DEF On
    <2>4. \A i, j \in DOMAIN stack' : i < j => index'[stack'[i]] < index'[stack'[j]]
      BY <1>1, <1>2, <1>5, <2>1
    <2>5. QED BY <2>1, <2>3, <2>4
  <1>6. QED BY <1>4, <1>5 DEF m

\* A visit that met no earlier node ends with one component.
LEMMA RootIsComponent ==
  ASSUME SearchInv, calls # <<>>, Top.left = {}, low[Top.node] = index[Top.node]
  PROVE  LET v == Top.node
             C == {x \in On : index[x] >= index[v]}
         IN  /\ v \in C /\ \A x \in C : edges[x] \subseteq (Visited \ On) \cup C
             /\ \A x \in C : x \in Reached(x) => ComponentOf(x) = C /\ v \in Reached(v)
             /\ IsCycle(v, C) <=> v \in Reached(v)
  <1> DEFINE v == Top.node
             C == {x \in On : index[x] >= index[v]}
             S == Visited \ On
  <1>1. /\ Types /\ Ordered /\ edges \in [Vertices -> SUBSET Vertices]
        /\ v \in Gray /\ v \in On /\ On \subseteq Visited /\ Gray \subseteq On
        /\ \A g \in Gray : index[g] <= index[v]
        /\ Visited \subseteq Vertices /\ Pending(v) = {}
        /\ \A x \in Visited : index[x] \in Nat /\ low[x] \in Nat
        /\ \A x, y \in Visited : index[x] = index[y] => x = y
    BY TopFacts, FrameTypes DEF SearchInv, Ordered, Types
  <1>2. low[v] = index[v]
    OBVIOUS
  <1> HIDE DEF v
  <1>3. v \in C /\ C \subseteq On /\ C \subseteq Visited /\ C \subseteq Vertices
    BY <1>1
  <1>4. ASSUME NEW x \in C, x \in Gray PROVE x = v
    BY <1>1, <1>3, <1>4
  <1>5. ASSUME NEW x \in C PROVE Pending(x) = {}
    <2>1. CASE x \in Gray
      BY <1>1, <1>4, <2>1
    <2>2. CASE x \notin Gray
      BY <2>2 DEF Pending, Gray
    <2>3. QED BY <2>1, <2>2
  <1>6. \A x \in C : index[v] <= low[x]
    BY <1>1, <1>2 DEF SearchInv, Inherited
  <1>7. ASSUME NEW x \in C, NEW y \in edges[x] PROVE y \in S \cup C
    <2>1. y \in Visited /\ (y \in On => low[x] <= index[y])
      BY <1>3, <1>5 DEF SearchInv, Looking
    <2>2. y \in On => index[v] <= index[y]
      BY <1>1, <1>3, <1>6, <2>1
    <2>3. QED BY <1>1, <2>1, <2>2
  <1>8. \A x \in S : edges[x] \subseteq S
    BY DEF SearchInv, Sealed
  <1>9. \A x \in C : Leads(v, x)
    BY <1>1 DEF SearchInv, Forward
  <1>10. \A x \in C : Leads(x, v)
    <2> DEFINE Bad == {k \in Nat : \E x \in C : index[x] = k /\ ~Leads(x, v)}
    <2>1. SUFFICES ASSUME Bad # {} PROVE FALSE
      BY <1>1, <1>3
    <2>2. PICK k \in Bad : \A l \in Bad : ~(<<l, k>> \in OpToRel(<, Nat))
      BY <2>1, NatLessThanWellFounded, WFMin
    <2>3. PICK x \in C : index[x] = k /\ ~Leads(x, v)
      BY <2>2
    <2>4. x # v
      BY <2>3 DEF Leads
    <2>5. x \in On \ Gray
      BY <1>3, <1>4, <2>4
    <2>6. low[x] < index[x]
      BY <2>5 DEF SearchInv, Lowest
    <2>7. PICK u \in On : index[u] = low[x] /\ Leads(x, u)
      BY <2>5 DEF SearchInv, Lowest
    <2>8. u \in C
      BY <1>1, <1>6, <2>7
    <2>9. ~(index[u] \in Bad)
      BY <1>1, <2>2, <2>3, <2>6, <2>7 DEF OpToRel
    <2>10. Leads(u, v)
      BY <1>1, <2>8, <2>9
    <2>11. QED BY <1>1, <1>3, <2>3, <2>7, <2>10, LeadsTrans
  <1> HIDE DEF C, S
  <1>11. \A x \in C : Reached(x) \subseteq S \cup C
    <2>1. \A x \in S \cup C : edges[x] \subseteq S \cup C
      BY <1>7, <1>8
    <2>2. S \cup C \in SUBSET Vertices
      BY <1>1, <1>3 DEF S
    <2>3. QED BY <2>1, <2>2, ReachedInClosed
  <1>12. \A x \in S : Reached(x) \subseteq S
    <2>1. S \in SUBSET Vertices
      BY <1>1 DEF S
    <2>2. QED BY <1>8, <2>1, ReachedInClosed
  <1>13. ASSUME NEW x \in C, x \in Reached(x) PROVE ComponentOf(x) = C
    <2>1. ASSUME NEW y \in C PROVE y \in Reached(x)
      <3>1. Leads(x, y)
        BY <1>1, <1>3, <1>9, <1>10, LeadsTrans
      <3>2. QED BY <1>13, <3>1 DEF Leads
    <2>2. ASSUME NEW y \in C PROVE x \in Reached(y)
      <3>1. Leads(y, x)
        BY <1>1, <1>3, <1>9, <1>10, LeadsTrans
      <3>2. QED BY <1>13, <3>1 DEF Leads
    <2>3. ASSUME NEW y \in ComponentOf(x) PROVE y \in C
      <3>1. y \in Reached(x) /\ x \in Reached(y)
        BY <2>3 DEF ComponentOf
      <3>2. x \notin S
        BY <1>3 DEF S
      <3>3. QED BY <1>11, <1>12, <3>1, <3>2
    <2>4. QED BY <2>1, <2>2, <2>3 DEF ComponentOf
  <1>14. ASSUME NEW x \in C, x # v PROVE v \in Reached(v)
    <2>1. x \in Reached(v) /\ v \in Reached(x)
      BY <1>9, <1>10, <1>14 DEF Leads
    <2>2. QED BY <1>1, <1>3, <2>1, ReachedTrans
  <1>15. \A x \in C : x \in Reached(x) => ComponentOf(x) = C /\ v \in Reached(v)
    BY <1>13, <1>14
  <1>16. IsFiniteSet(C)
    BY <1>1, <1>3, FS_Subset DEF Types
  <1>17. ASSUME IsCycle(v, C) PROVE v \in Reached(v)
    <2>1. CASE v \in edges[v]
      BY <1>1, <1>3, <2>1, ReachedStep
    <2>2. CASE v \notin edges[v]
      <3>1. Cardinality(C) > 1
        BY <1>17, <2>2 DEF IsCycle
      <3>2. C # {v}
        <4>1. Cardinality({v}) = 1
          BY FS_Singleton
        <4>2. ASSUME C = {v} PROVE Cardinality(C) = 1
          BY <4>1, <4>2
        <4>3. QED BY <3>1, <4>2
      <3>3. QED BY <1>3, <1>14, <3>2
    <2>3. QED BY <2>1, <2>2
  <1>18. ASSUME v \in Reached(v), ~IsCycle(v, C) PROVE FALSE
    <2>1. ~(Cardinality(C) > 1) /\ v \notin edges[v]
      BY <1>18 DEF IsCycle
    <2>2. C = {v}
      <3>1. SUFFICES ASSUME NEW x \in C, x # v PROVE FALSE
        BY <1>3
      <3>2. {v, x} \subseteq C /\ IsFiniteSet({v}) /\ Cardinality({v}) = 1 /\ x \notin {v} /\ {v, x} = {v} \cup {x}
        BY <1>3, <3>1, FS_Singleton
      <3>3. Cardinality({v, x}) = 2
        <4>1. Cardinality({v} \cup {x}) = Cardinality({v}) + 1
          BY <3>2, FS_AddElement
        <4>2. QED BY <3>2, <4>1
      <3>4. Cardinality({v, x}) <= Cardinality(C)
        BY <1>16, <3>2, FS_Subset
      <3>5. Cardinality(C) \in Nat
        BY <1>16, FS_CardinalityType
      <3>6. QED BY <2>1, <3>3, <3>4, <3>5
    <2>3. edges[v] \subseteq S
      BY <1>7, <2>1, <2>2
    <2>4. v \in S
      <3>1. S \in SUBSET Vertices /\ \A y \in S : edges[y] \subseteq S
        BY <1>1, <1>8 DEF S
      <3>2. QED BY <1>18, <2>3, <3>1 DEF Reached
    <2>5. QED BY <1>3, <2>4 DEF S
  <1>19. QED BY <1>3, <1>7, <1>15, <1>17, <1>18 DEF v, C, S

\* A visit ends that met no earlier node.
LEMMA ReturnRoot == ASSUME SearchInv, Return, low[Top.node] = index[Top.node] PROVE SearchInv'
  <1> DEFINE v == Top.node
             n == Len(calls)
             c == calls[n - 1].node
             C == {x \in On : index[x] >= index[v]}
  <1>1. /\ calls # <<>> /\ Top.left = {} /\ Types /\ Ordered
        /\ stack' = SubSeq(stack, 1, From(v) - 1)
        /\ out' = IF IsCycle(v, Component(v)) THEN out \cup {Component(v)} ELSE out
        /\ low' = (IF n = 1 THEN low ELSE [low EXCEPT ![c] = Lesser(low[c], low[v])])
        /\ calls' = SubSeq(calls, 1, n - 1) /\ edges' = edges /\ index' = index
    BY DEF Return, SearchInv, Lower
  <1>2. /\ calls' \in Seq([node : Visited, left : SUBSET Vertices]) /\ Gray' = Gray \ {v}
        /\ \A k, l \in DOMAIN calls' : k < l => index'[calls'[k].node] < index'[calls'[l].node]
        /\ \A k \in DOMAIN calls' : calls'[k].left \subseteq edges'[calls'[k].node]
        /\ \A x : Pending(x)' = Pending(x)
        /\ n = 1 => Gray' = {}
        /\ n # 1 => c \in Gray' /\ index[c] < index[v] /\ \A g \in Gray' : index[g] <= index[c]
    BY <1>1, ReturnEffect
  <1>3. /\ v \in Gray /\ v \in On /\ On \subseteq Visited /\ Gray \subseteq On
        /\ \A g \in Gray : index[g] <= index[v]
        /\ Visited \subseteq Vertices /\ DOMAIN low = Visited
        /\ \A x \in Visited : index[x] \in Nat /\ low[x] \in Nat
        /\ \A x, y \in Visited : index[x] = index[y] => x = y
    BY <1>1, TopFacts, FrameTypes DEF Ordered, Types
  <1>4. /\ Component(v) = C
        /\ On' = {x \in On : index[x] < index[v]} /\ stack' \in Seq(Visited)
        /\ \A i, j \in DOMAIN stack' : i < j => index'[stack'[i]] < index'[stack'[j]]
    BY <1>1, <1>3, ComponentIs
  <1>5. /\ v \in C /\ \A x \in C : edges[x] \subseteq (Visited \ On) \cup C
        /\ \A x \in C : x \in Reached(x) => ComponentOf(x) = C /\ v \in Reached(v)
        /\ IsCycle(v, C) <=> v \in Reached(v)
    BY <1>1, RootIsComponent
  <1>6. low[v] = index[v]
    OBVIOUS
  <1>7. /\ \A x : Reached(x)' = Reached(x)
        /\ \A u, x : Leads(u, x)' = Leads(u, x)
        /\ \A x : ComponentOf(x)' = ComponentOf(x)
        /\ Components' = Components
    BY <1>1, SameEdges
  <1> HIDE DEF v, n, c
  <1>8. Visited' = Visited /\ Visited' \ On' = (Visited \ On) \cup C /\ On' \subseteq On
    BY <1>1, <1>3, <1>4 DEF Visited
  <1> HIDE DEF C
  <1>9. DOMAIN low' = Visited /\ \A x \in Visited : low'[x] = low[x]
    <2>1. CASE n = 1
      BY <1>1, <1>3, <2>1
    <2>2. CASE n # 1
      <3>1. c \in On /\ index[c] < index[v]
        BY <1>2, <1>3, <2>2
      <3>2. low[c] <= index[c]
        BY <3>1 DEF SearchInv, Lowest
      <3>3. Lesser(low[c], low[v]) = low[c]
        BY <1>3, <1>6, <3>1, <3>2 DEF Lesser
      <3>4. QED BY <1>1, <1>3, <2>2, <3>3
    <2>3. QED BY <2>1, <2>2
  <1>10. \A g \in Gray' : g \in Gray /\ index[g] < index[v]
    <2>1. \A g \in Gray' : g \in Gray /\ g # v /\ index[g] <= index[v] /\ g \in Visited
      BY <1>2, <1>3
    <2>2. QED BY <1>3, <2>1
  <1>11. Types'
    BY <1>1, <1>3, <1>8, <1>9 DEF Types
  <1>12. Ordered'
    <2>1. calls' \in Seq([node : Visited', left : SUBSET Vertices])
      BY <1>2, <1>8
    <2>2. Gray' \subseteq On'
      BY <1>3, <1>4, <1>10
    <2>3. QED BY <1>2, <1>4, <1>8, <2>1, <2>2 DEF Ordered
  <1>13. Sealed'
    BY <1>1, <1>5, <1>8 DEF Sealed, SearchInv
  <1>14. Looking'
    BY <1>1, <1>2, <1>3, <1>8, <1>9 DEF Looking, SearchInv
  <1>15. Lowest'
    <2>1. ASSUME NEW x \in On' PROVE low[x] <= index[x] /\ \E u \in On' : index[u] = low[x] /\ Leads(x, u)
      <3>1. x \in On /\ index[x] < index[v] /\ x \in Visited /\ low[x] <= index[x]
        BY <1>3, <1>4 DEF SearchInv, Lowest
      <3>2. PICK u \in On : index[u] = low[x] /\ Leads(x, u)
        BY <3>1 DEF SearchInv, Lowest
      <3>3. u \in On'
        BY <1>3, <1>4, <3>1, <3>2
      <3>4. QED BY <3>1, <3>2, <3>3
    <2>2. ASSUME NEW x \in On' \ Gray' PROVE low[x] < index[x]
      <3>1. x \in On /\ x # v
        BY <1>3, <1>4
      <3>2. QED BY <1>2, <3>1 DEF SearchInv, Lowest
    <2>3. ASSUME NEW x \in On' PROVE low'[x] = low[x] /\ x \in Visited
      BY <1>3, <1>8, <1>9
    <2>4. QED BY <1>1, <1>7, <2>1, <2>2, <2>3 DEF Lowest
  <1>16. Forward'
    BY <1>1, <1>7, <1>8, <1>10 DEF SearchInv, Forward
  <1>17. Inherited'
    <2>1. ASSUME NEW x \in On', NEW g \in Gray', index[g] <= index[x],
                 \A h \in Gray' : index[h] <= index[g] \/ index[h] > index[x]
          PROVE  low'[g] <= low'[x]
      <3>1. x \in On /\ g \in Gray /\ x \in Visited /\ g \in Visited /\ index[v] > index[x]
        BY <1>3, <1>4, <1>10
      <3>2. \A h \in Gray : index[h] <= index[g] \/ index[h] > index[x]
        BY <1>2, <2>1, <3>1
      <3>3. low[g] <= low[x]
        BY <2>1, <3>1, <3>2 DEF SearchInv, Inherited
      <3>4. QED BY <1>9, <3>1, <3>3
    <2>2. QED BY <1>1, <2>1 DEF Inherited
  <1>18. Found'
    <2>1. out \subseteq Components /\ \A x \in Visited \ On : x \in Reached(x) => ComponentOf(x) \in out
      BY DEF SearchInv, Found
    <2>2. out' = IF v \in Reached(v) THEN out \cup {C} ELSE out
      BY <1>1, <1>4, <1>5
    <2>3. v \in Reached(v) => C \in Components
      BY <1>3, <1>5, ComponentsAre
    <2>4. \A x \in Visited \ On' : x \in Reached(x) => ComponentOf(x) \in out'
      BY <1>5, <1>8, <2>1, <2>2
    <2>5. QED BY <1>7, <1>8, <2>1, <2>2, <2>3, <2>4 DEF Found
  <1>19. QED BY <1>11, <1>12, <1>13, <1>14, <1>15, <1>16, <1>17, <1>18 DEF SearchInv

LEMMA SearchInvInit == SearchInit => SearchInv
  <1> SUFFICES ASSUME SearchInit PROVE SearchInv
    OBVIOUS
  <1>1. /\ edges \in [Vertices -> SUBSET Vertices] /\ index = <<>> /\ low = <<>> /\ stack = <<>>
        /\ calls = <<>> /\ out = {}
    BY DEF SearchInit, SearchBegin
  <1>2. Visited = {} /\ DOMAIN low = {} /\ On = {} /\ Gray = {} /\ DOMAIN stack = {} /\ DOMAIN calls = {}
    BY <1>1 DEF Visited, On, Gray
  <1>3. Types
    BY <1>1, <1>2, FS_EmptySet DEF Types
  <1>4. Ordered
    BY <1>1, <1>2 DEF Ordered
  <1>5. QED BY <1>1, <1>2, <1>3, <1>4 DEF SearchInv, Sealed, Looking, Lowest, Forward, Inherited, Found

LEMMA SearchInvStep == SearchInv /\ [SearchNext]_search => SearchInv'
  <1> SUFFICES ASSUME SearchInv, [SearchNext]_search PROVE SearchInv'
    OBVIOUS
  <1>1. CASE Return
    BY <1>1, ReturnOpen, ReturnRoot
  <1>2. CASE \E v \in Vertices : Start(v)
    BY <1>2, StartKeeps
  <1>3. CASE \E v \in Vertices : Call(v)
    BY <1>3, CallKeeps
  <1>4. CASE \E v \in Vertices : Back(v)
    BY <1>4, BackKeeps
  <1>5. CASE UNCHANGED search
    <2>1. /\ Visited' = Visited /\ On' = On /\ Gray' = Gray /\ Components' = Components
          /\ \A x : Pending(x)' = Pending(x) /\ Reached(x)' = Reached(x) /\ ComponentOf(x)' = ComponentOf(x)
          /\ \A u, x : Leads(u, x)' = Leads(u, x)
          /\ edges' = edges /\ index' = index /\ low' = low /\ stack' = stack /\ calls' = calls /\ out' = out
      BY <1>5, SameEdges DEF search, Visited, On, Gray, Pending
    <2>2. Types' /\ Ordered'
      BY <2>1 DEF SearchInv, Types, Ordered
    <2>3. Sealed' /\ Looking' /\ Lowest' /\ Forward' /\ Inherited' /\ Found'
      BY <2>1 DEF SearchInv, Sealed, Looking, Lowest, Forward, Inherited, Found
    <2>4. QED BY <2>2, <2>3 DEF SearchInv
  <1>6. QED BY <1>1, <1>2, <1>3, <1>4, <1>5 DEF SearchNext

\* Between two searches nothing is on the stack: its first node would have met an earlier one.
LEMMA EmptyWhenIdle == ASSUME SearchInv, calls = <<>> PROVE On = {}
  <1>1. Gray = {} /\ On \subseteq Visited /\ \A x \in Visited : index[x] \in Nat
    BY FrameTypes DEF SearchInv, Gray, Types
  <1> DEFINE Bad == {k \in Nat : \E x \in On : index[x] = k}
  <1>2. SUFFICES ASSUME Bad # {} PROVE FALSE
    BY <1>1
  <1>3. PICK k \in Bad : \A l \in Bad : ~(<<l, k>> \in OpToRel(<, Nat))
    BY <1>2, NatLessThanWellFounded, WFMin
  <1>4. PICK x \in On : index[x] = k
    BY <1>3
  <1>5. low[x] < index[x]
    BY <1>1, <1>4 DEF SearchInv, Lowest
  <1>6. PICK u \in On : index[u] = low[x]
    BY DEF SearchInv, Lowest
  <1>7. QED BY <1>1, <1>3, <1>4, <1>5, <1>6 DEF OpToRel

LEMMA SearchInvIsEnough == SearchInv => CyclesAreExact
  <1> SUFFICES ASSUME SearchInv PROVE CyclesAreExact
    OBVIOUS
  <1>1. out \subseteq Components
    BY DEF SearchInv, Found
  <1>2. ASSUME DOMAIN index = Vertices, calls = <<>> PROVE Components \subseteq out
    <2>1. On = {} /\ Visited = Vertices
      BY <1>2, EmptyWhenIdle DEF Visited
    <2>2. \A x \in Vertices : x \in Reached(x) => ComponentOf(x) \in out
      BY <2>1 DEF SearchInv, Found
    <2>3. QED BY <2>2, ComponentsAre
  <1>3. QED BY <1>1, <1>2 DEF CyclesAreExact

THEOREM CyclesFound == SearchSpec => []CyclesAreExact
  <1>1. QED BY SearchInvInit, SearchInvStep, SearchInvIsEnough, PTL DEF SearchSpec
-----------------------------------------------------------------------------
\* What blueprint-edges.py takes from its two algorithms on graphs is right: the walk
\* visits exactly what it should, with the groups of its constants whole, and the cycles
\* are the strongly connected components.
THEOREM WalkAndCyclesAreExact == W!Spec /\ SearchSpec => []WalkIsExact
  <1>1. W!TypeOK /\ W!WalkIsExact /\ CyclesAreExact => WalkIsExact
    BY DEF WalkIsExact
  <1>2. QED BY <1>1, GroupsAreWhole, ReachIsLeast, CyclesFound, PTL
=============================================================================
