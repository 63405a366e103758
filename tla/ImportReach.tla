----------------------------- MODULE ImportReach -----------------------------
(***************************************************************************)
(* import_reach of scripts/ledger-sync.py: which admitted nodes of the     *)
(* ledger each live node rests on, along children and declared             *)
(* dependencies.  walk is recursive and memoizes; its call stack is the    *)
(* sequence frames, whose last entry is the call that runs.                *)
(***************************************************************************)
EXTENDS Integers, Sequences

CONSTANTS
  Ids,        \* the ledger's node identifiers
  Parent      \* Parent[k]: the identifier k's own extends, or k at the top

ASSUME ParentAssumption == Parent \in [Ids -> Ids]

VARIABLES
  archived,   \* nodes that are superseded
  admitted,   \* nodes assumed rather than proved
  deps,       \* deps[k]: declared dependencies, which may name any node
  memo,       \* the results so far, on a subset of the nodes
  frames      \* the calls of walk under way: node, children to visit, out

input == <<archived, admitted, deps>>
vars == <<input, memo, frames>>

Live == Ids \ archived

\* A node rests on its children and on its dependencies.
Edges == [k \in Live |->
            (deps[k] \cap Live) \cup {c \in Live \ {k} : Parent[c] = k}]

Busy == {frames[i].node : i \in DOMAIN frames}
Top == frames[Len(frames)]

\* What follows a call that returned S: the caller adds it to its out.
ReturnLost(S) ==   \* mutant: the result of a nested call is dropped
  frames' = SubSeq(frames, 1, Len(frames) - 1)
Return(S) ==
  LET calls == SubSeq(frames, 1, Len(frames) - 1)
  IN  frames' = IF calls = <<>> THEN <<>>
                ELSE [calls EXCEPT ![Len(calls)].out = @ \cup S]

FrameShared(k) ==   \* mutant: out is one set for all calls
  [node |-> k, left |-> Edges[k], out |-> IF frames = <<>> THEN {} ELSE Top.out]
Frame(k) == [node |-> k, left |-> Edges[k], out |-> {}]

\* dict((k, sorted(walk(k, set()))) for k in live)
Start(k) ==
  /\ frames = <<>> /\ k \notin DOMAIN memo
  /\ IF k \in admitted THEN memo' = [i \in DOMAIN memo \cup {k} |->
                                       IF i = k THEN {k} ELSE memo[i]]
                            /\ UNCHANGED frames
                       ELSE frames' = <<Frame(k)>> /\ UNCHANGED memo
  /\ UNCHANGED input

\* The call at the top takes its next child: out |= walk(c, stack | {k}).
Take(c, S) ==
  frames' = [frames EXCEPT ![Len(frames)] =
               [Top EXCEPT !.left = Top.left \ {c}, !.out = Top.out \cup S]]

Cached(c) ==
  /\ c \in Top.left /\ c \in DOMAIN memo
  /\ Take(c, memo[c])
  /\ UNCHANGED <<input, memo>>

OnStack(c) ==
  /\ c \in Top.left /\ c \notin DOMAIN memo /\ c \in Busy
  /\ Take(c, {})
  /\ UNCHANGED <<input, memo>>

Admitted(c) ==
  /\ c \in Top.left /\ c \notin DOMAIN memo /\ c \notin Busy /\ c \in admitted
  /\ memo' = [i \in DOMAIN memo \cup {c} |-> IF i = c THEN {c} ELSE memo[i]]
  /\ Take(c, {c})
  /\ UNCHANGED input

Call(c) ==
  /\ c \in Top.left /\ c \notin DOMAIN memo /\ c \notin Busy /\ c \notin admitted
  /\ frames' = Append([frames EXCEPT ![Len(frames)].left = @ \ {c}], Frame(c))
  /\ UNCHANGED <<input, memo>>

Finish ==
  /\ Top.left = {}
  /\ memo' = [i \in DOMAIN memo \cup {Top.node} |->
                IF i = Top.node THEN Top.out ELSE memo[i]]
  /\ Return(Top.out)
  /\ UNCHANGED input

-----------------------------------------------------------------------------
Begin == memo = [k \in {} |-> {}] /\ frames = <<>>

Init ==
  /\ archived \subseteq Ids /\ admitted \subseteq Ids
  /\ deps \in [Ids -> SUBSET Ids]
  /\ Begin

Next ==
  \/ \E k \in Live : Start(k)
  \/ /\ frames # <<>>
     /\ Finish \/ \E c \in Top.left : Cached(c) \/ OnStack(c) \/ Admitted(c) \/ Call(c)

Spec == Init /\ [][Next]_vars

-----------------------------------------------------------------------------
(* "{node_id: [admitted nodes its correctness rests on]}, over live nodes" *)

\* S holds k and, short of an admission, what its members rest on.
Support(k, S) == k \in S /\ \A x \in S \ admitted : Edges[x] \subseteq S

Rests(k) == {a \in Live \cap admitted : \A S \in SUBSET Live : Support(k, S) => a \in S}

Below(k) == {x \in Live : \A S \in SUBSET Live :
               (Edges[k] \subseteq S /\ \A y \in S : Edges[y] \subseteq S) => x \in S}

Acyclic == \A k \in Live : k \notin Below(k)

\* Every variable has its type: calls are of distinct, unadmitted live nodes, none
\* of them answered yet.
TypeOK ==
  /\ archived \subseteq Ids /\ admitted \subseteq Ids /\ deps \in [Ids -> SUBSET Ids]
  /\ DOMAIN memo \subseteq Live /\ \A k \in DOMAIN memo : memo[k] \subseteq Ids
  /\ frames \in Seq([node : Live \ admitted, left : SUBSET Live, out : SUBSET Ids])
  /\ Busy \cap DOMAIN memo = {}
  /\ \A i, j \in DOMAIN frames : frames[i].node = frames[j].node => i = j

\* No node is said to rest on an admission it does not reach, cycles or not.
NeverInvents == \A k \in DOMAIN memo : memo[k] \subseteq Rests(k)

\* Where the ledger has no cycle every answer is exact: none is cut short by the
\* visited set, or by an answer memoized below another call.
ExactWhenAcyclic == Acyclic => \A k \in DOMAIN memo : memo[k] = Rests(k)
=============================================================================
