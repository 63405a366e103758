------------------------ MODULE LeanLspCheckerProps -------------------------
(***************************************************************************)
(* What LeanLspChecker is expected to do.                                  *)
(***************************************************************************)
EXTENDS LeanLspChecker

Labels == {"idle", "begin", "init", "place", "open", "wait", "closing"} \cup FilterLabels

\* The order of the OrderedDict lists the files of documents, each once, and
\* at most MaxOpenFiles of them.
OrderOK ==
  /\ order \in Seq(Files)
  /\ Len(order) <= MaxOpenFiles
  /\ \A i, j \in 1..Len(order) : order[i] = order[j] => i = j
  /\ \A f \in Files : documents[f] # None <=> \E i \in 1..Len(order) : order[i] = f

\* Every variable has its type, and the two halves of the OrderedDict agree.
TypeOK ==
  /\ serving \in {"yes", "stopping", "no"}
  /\ lock \in Handlers \cup {None}
  /\ pc \in [Handlers -> Labels]
  /\ request \in [Handlers -> Request]
  /\ result \in [Handlers -> Answer \cup {None}]
  /\ client \in Clients \cup {None}
  /\ documents \in [Files -> Doc \cup {None}]
  /\ OrderOK
  /\ versions \in [Files -> 0..MaxVersion]
  /\ diagnostics \in SUBSET Item
  /\ current \in [uri : Files, version : 0..MaxVersion] \cup {None}
  /\ kept \in SUBSET Item
  /\ resized \in BOOLEAN
  /\ process \in [Clients -> {"unused", "fresh", "alive", "leaked", "dead"}]
  /\ worker \in [Clients -> [Files -> Worker \cup {None}]]
  /\ flight \in SUBSET Item
  /\ ask \in {"none", "asked", "acked", "refused"}
  /\ sent \in [Files -> [Versions -> Texts \cup {None}]]

\* Two handler threads are never inside the Checker together, and a thread
\* that is inside it holds the lock ("Within one session, checks are
\* serialized").
Serialized == \A h \in Handlers : pc[h] # "idle" => lock = h

\* A verdict is about the text that was asked about: exit 0 only if Lean
\* reports no error for it, exit 1 only if it reports one, both with all of
\* its diagnostics; an incomplete check shows none of another text.
Reported(t) == {Items[t][i] : i \in DOMAIN Items[t]}
VerdictIsForItsText ==
  \A h \in Handlers :
    result[h] # None /\ request[h].op = "check" =>
      \/ /\ result[h].exit = IF ErrorSeverity \in Reported(request[h].text) THEN 1 ELSE 0
         /\ result[h].sevs = Reported(request[h].text)
      \/ /\ result[h].exit \in {2, 124}
         /\ result[h].sevs \subseteq Reported(request[h].text)
      \/ result[h] = Plain(409)

\* An edit is a diff against the text in documents.  Whatever the server has
\* open for a file is the text and the version the table says, even when a
\* failed close left a table older than the client.
EditBaseAgrees ==
  client # None =>
    \A f \in Files :
      worker[client][f] # None /\ documents[f] # None =>
        /\ worker[client][f].text = documents[f].text
        /\ worker[client][f].version = documents[f].version

\* The current server never has more files open than --max-open-files.
BoundedWorkers ==
  client # None => Cardinality({f \in Files : worker[client][f] # None}) <= MaxOpenFiles

\* A Lean server that is running belongs to the current client, unless the
\* library failed to close it: no timeout or failed initialization loses one.
NoLostServer == \A c \in Clients : process[c] = "alive" => client = c

\* The checker implements the service: its documents, versions, clients and
\* Lean servers cannot be told from the answers.
Service == INSTANCE CheckService WITH
  holder <- lock,
  asked  <- request,
  answer <- [h \in Handlers |-> IF lock = h THEN None ELSE result[h]]

ImplementsService == Service!Spec
=============================================================================
