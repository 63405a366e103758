------------------------------ MODULE MCLeanDead ------------------------------
(***************************************************************************)
(* TLC instances of LeanDead: one declaration at the root and two in a     *)
(* namespace, with every combination of recorded usages: by each of them,  *)
(* one through its auxiliary declaration, and from outside; or by an       *)
(* instance without a name, in no namespace of theirs or in that of one.   *)
(***************************************************************************)
EXTENDS LeanDead

Components == {"n", "f", "g", "h", "x", "aux", "inst"}
InFileOrder == <<<<"n", "h">>, <<"f">>, <<"n", "g">>>>

Unscanned == {{}, {<<"inst">>}, {<<"n", "g", "inst">>}}
Enclosing == {<<"f">>, <<"n", "g", "aux">>, <<"n", "h">>}
Outside(others) == IF others = {} THEN {None} ELSE others
MacroBodies == {{}, {<<"f">>}, {<<"n", "g">>}, {<<"g">>, <<"x", "h">>}}

DeadInit ==
  /\ exempt \in {{}, {<<"n", "h">>}}
  /\ macros \in MacroBodies
  /\ unscanned \in Unscanned
  /\ usages \in [Names -> SUBSET (Enclosing \cup Outside(unscanned))]
  /\ Loop

\* Its work done, with nothing to do.
DeadIdle ==
  /\ exempt = Names /\ macros = {} /\ unscanned = {} /\ usages = [n \in Names |-> {}]
  /\ dead = {} /\ changed = FALSE /\ i = 1 /\ pc = "done"
=============================================================================
