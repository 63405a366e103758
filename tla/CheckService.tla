---------------------------- MODULE CheckService ----------------------------
(***************************************************************************)
(* What the persistent checker promises its callers, with no documents,    *)
(* versions, clients or Lean servers in it: requests are served one at a   *)
(* time, a request that finds another in progress is refused at once, and  *)
(* an answered check tells the truth about the text it was asked about.    *)
(***************************************************************************)
EXTENDS Integers, Sequences

CONSTANTS
  Handlers,   \* the callers
  Texts,      \* source texts
  Items,      \* Items[t]: the severities Lean reports for t
  Request,    \* what may be asked
  None        \* nobody, and no answer yet

VARIABLES
  holder,     \* the caller being served, or None
  asked,      \* asked[h]: what h asks, or asked last
  answer      \* answer[h]: None while h is being served

vars == <<holder, asked, answer>>

Error == 1
Severities == 1..4
Reported(t) == {Items[t][i] : i \in DOMAIN Items[t]}

Reply(codes, sets) == [exit : codes, sevs : sets]
Refused == [exit |-> 409, sevs |-> {}]

\* Exit 0 and 1 are verdicts: they carry everything Lean reports for exactly
\* this text, 1 when an error is among it.  2 and 124 say that the check did
\* not complete, with whatever of the text's own diagnostics had arrived.
Truthful(t) ==
  Reply({IF Error \in Reported(t) THEN 1 ELSE 0}, {Reported(t)})
    \cup Reply({2, 124}, SUBSET Reported(t))

Allowed(r) ==
  IF r.op = "check" THEN Truthful(r.text) ELSE Reply({0, 2}, {{}})

Init ==
  /\ holder = None
  /\ asked = [h \in Handlers |-> [op |-> "status"]]
  /\ answer = [h \in Handlers |-> None]

Begin(h, r) ==
  /\ holder = None
  /\ holder' = h
  /\ asked' = [asked EXCEPT ![h] = r]
  /\ answer' = [answer EXCEPT ![h] = None]

Refuse(h) ==
  /\ holder \notin {None, h}
  /\ answer' = [answer EXCEPT ![h] = Refused]
  /\ UNCHANGED <<holder, asked>>

Respond(h) ==
  /\ holder = h
  /\ holder' = None
  /\ \E a \in Allowed(asked[h]) : answer' = [answer EXCEPT ![h] = a]
  /\ UNCHANGED asked

Next ==
  \E h \in Handlers :
    \/ \E r \in Request : Begin(h, r)
    \/ Refuse(h)
    \/ Respond(h)

Spec == Init /\ [][Next]_vars
=============================================================================
