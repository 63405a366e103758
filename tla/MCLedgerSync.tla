----------------------------- MODULE MCLedgerSync -----------------------------
(***************************************************************************)
(* TLC instance of the two halves of ledger-sync.py.  Either import_reach  *)
(* runs, on node 1, its children 1.1 and 1.2, a child of the first, and    *)
(* families of declared dependencies between them; or refreshes of the     *)
(* snapshot run, for a log of two nodes, where 1 may depend on 1.2.        *)
(***************************************************************************)
EXTENDS ImportReach, Ledger, TLC

CONSTANTS n1, n11, n12, n111, s1, s2, t1

Dependencies == {{}, {n12}}

Tree == n1 :> n1 @@ n11 :> n1 @@ n12 :> n1 @@ n111 :> n11

-----------------------------------------------------------------------------
ReachInit ==
  /\ archived \in {{}, {n11}} /\ admitted \in {{n12}, {n111}, {n11, n12}}
  /\ deps \in {n1 :> {} @@ n11 :> u @@ n12 :> v @@ n111 :> w :
                 u \in SUBSET {n12, n1}, v \in {{}, {n111}, {n11, n111}},
                 w \in SUBSET {n1, n12}}
  /\ Begin
  /\ LedgerInit

\* No node is live, and import_reach has nothing to do.
RefreshInit ==
  /\ archived = Ids /\ admitted = {} /\ deps = [k \in Ids |-> {}]
  /\ Begin
  /\ LedgerInit

Refreshes == archived = Ids

MCInit == ReachInit \/ RefreshInit

MCNext ==
  \/ ~Refreshes /\ Next /\ UNCHANGED ledger
  \/ Refreshes /\ LedgerNext /\ UNCHANGED vars

MCSpec == MCInit /\ [][MCNext]_<<vars, ledger>>

=============================================================================
