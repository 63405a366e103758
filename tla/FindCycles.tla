------------------------------- MODULE FindCycles -------------------------------
(***************************************************************************)
(* find_cycles of scripts/blueprint-edges.py, Tarjan's algorithm: the      *)
(* clusters that BlueprintEdges takes for what they are.  The recursion of *)
(* visit is the sequence calls.  Vertices and edges come in any order.   *)
(***************************************************************************)
EXTENDS Naturals, Sequences, FiniteSets

CONSTANT Vertices

VARIABLES
  edges,   \* edges[v]: where v leads
  index,   \* index[v], of the nodes visited so far: when they were
  low,     \* low[v]: the least index that the visit of v has met
  stack,   \* the nodes that are in no component yet; "on" is what it holds
  calls,   \* the visits that are going on: [node, left]
  out      \* the components found

search == <<edges, index, low, stack, calls, out>>

On == {stack[i] : i \in 1..Len(stack)}
Top == calls[Len(calls)]
Lesser(a, b) == IF a <= b THEN a ELSE b
Lower(v, n) == [low EXCEPT ![v] = Lesser(@, n)]

\* counter[0] is how many were visited.
Visit(v, callers) ==
  /\ index' = [w \in DOMAIN index \cup {v} |-> IF w = v THEN Cardinality(DOMAIN index) ELSE index[w]]
  /\ low' = [w \in DOMAIN low \cup {v} |-> IF w = v THEN Cardinality(DOMAIN index) ELSE low[w]]
  /\ stack' = Append(stack, v)
  /\ calls' = Append(callers, [node |-> v, left |-> edges[v]])
  /\ UNCHANGED <<edges, out>>

Start(v) == calls = <<>> /\ v \notin DOMAIN index /\ Visit(v, calls)

Looked(w) == [calls EXCEPT ![Len(calls)].left = @ \ {w}]

Call(w) ==
  /\ calls # <<>> /\ w \in Top.left /\ w \notin DOMAIN index
  /\ Visit(w, Looked(w))

Anywhere(w) == w \in DOMAIN index   \* mutant: components are not closed
Open(w) == w \in On

Back(w) ==
  /\ calls # <<>> /\ w \in Top.left /\ w \in DOMAIN index
  /\ low' = IF Open(w) THEN Lower(Top.node, index[w]) ELSE low
  /\ calls' = Looked(w)
  /\ UNCHANGED <<edges, index, stack, out>>

\* The component of a root is what the stack holds from it on.
From(v) == CHOOSE i \in 1..Len(stack) : stack[i] = v
Component(v) == {stack[i] : i \in From(v)..Len(stack)}
IsCycle(v, comp) == Cardinality(comp) > 1 \/ v \in edges[v]

\* The visit ends, and its caller goes on with what it met.
Return ==
  /\ calls # <<>> /\ Top.left = {}
  /\ LET v == Top.node
         root == low[v] = index[v]
     IN  /\ stack' = IF root THEN SubSeq(stack, 1, From(v) - 1) ELSE stack
         /\ out' = IF root /\ IsCycle(v, Component(v)) THEN out \cup {Component(v)} ELSE out
         /\ low' = IF Len(calls) = 1 THEN low ELSE Lower(calls[Len(calls) - 1].node, low[v])
  /\ calls' = SubSeq(calls, 1, Len(calls) - 1)
  /\ UNCHANGED <<edges, index>>

SearchBegin == index = <<>> /\ low = <<>> /\ stack = <<>> /\ calls = <<>> /\ out = {}

SearchInit == edges \in [Vertices -> SUBSET Vertices] /\ SearchBegin

SearchNext == Return \/ \E v \in Vertices : Start(v) \/ Call(v) \/ Back(v)

SearchSpec == SearchInit /\ [][SearchNext]_search

-----------------------------------------------------------------------------
Reached(v) ==
  {w \in Vertices : \A S \in SUBSET Vertices :
     edges[v] \subseteq S /\ (\A x \in S : edges[x] \subseteq S) => w \in S}

Components == {{w \in Reached(v) : v \in Reached(w)} : v \in {u \in Vertices : u \in Reached(u)}}

\* "Strongly connected components with more than one node, or a self-loop": none that is
\* not whole is ever found, and all of them are once every node has been visited.
CyclesAreExact ==
  /\ out \subseteq Components
  /\ DOMAIN index = Vertices /\ calls = <<>> => out = Components
=============================================================================
