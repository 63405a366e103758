--------------------------- MODULE LeanLspChecker ---------------------------
(***************************************************************************)
(* The persistent Lean checker of scripts/lean-lsp-check.py: one helper    *)
(* process whose HTTP handler threads share a Checker object, the Lean     *)
(* language server it has spawned, and the library's reader thread, which  *)
(* writes published diagnostics into the Checker while a check is running. *)
(*                                                                         *)
(* Handler threads are modelled step by step, a step ending where another  *)
(* thread can see or change what the next one uses.  The Lean server and   *)
(* its pipe are the environment: a server publishes the diagnostics of a   *)
(* document item by item, acknowledges waitForDiagnostics after the last   *)
(* of them, may stay silent, and may die.  Messages about one version of   *)
(* one document arrive in the order they were written; nothing is assumed  *)
(* about the order between documents.                                      *)
(***************************************************************************)
EXTENDS Integers, Sequences, FiniteSets, SequencesExt

CONSTANTS
  Handlers,      \* HTTP handler threads
  Files,         \* the URIs of the repository's .lean files
  Texts,         \* source texts
  Items,         \* Items[t]: the severities Lean reports for t, in order
  Clients,       \* the language-server clients a helper may create
  MaxOpenFiles,  \* --max-open-files
  MaxVersion,    \* bound of the model: document versions 1..MaxVersion
  None           \* Python's None, and "not held"

ErrorSeverity == 1
Severities == 1..4
Versions == 1..MaxVersion

ASSUME LspAssumption ==
  /\ Items \in [Texts -> Seq(Severities)]
  /\ MaxOpenFiles \in Nat \ {0}
  /\ MaxVersion \in Nat \ {0}
  /\ IsFiniteSet(Files)
  /\ None \notin Handlers \cup Clients \cup Texts
  /\ None \notin [text : Texts, version : Versions]
  /\ None \notin [text : Texts, version : Versions, done : Nat]
  /\ None \notin [exit : {0, 1, 2, 124, 409}, sevs : SUBSET Severities]

VARIABLES
  serving,      \* serve_forever: "yes", "stopping" (shutdown requested), "no"
  lock,         \* Checker.lock: the handler holding it, or None
  pc,           \* pc[h]: where handler h is
  request,      \* request[h]: the request h is working on
  result,       \* result[h]: the body h answers with, None before
  client,       \* Checker.client
  documents,    \* Checker.documents: f -> [text, version], None when absent
  order,        \* the insertion order of that OrderedDict, oldest first
  versions,     \* Checker.versions: f -> last version, 0 when absent
  diagnostics,  \* Checker.diagnostics, as the set of its list items
  current,      \* Checker.current: [uri, version], None
  kept,         \* the dictionary a filtering comprehension is building
  resized,      \* a key was added to diagnostics during that comprehension
  process,      \* process[c]: the Lean server of client c
  worker,       \* worker[c][f]: the text the server holds for f, and how many
                \* of its items it has published; None when f is not open
  flight,       \* published items the reader thread has not handled yet
  ask,          \* the waitForDiagnostics request: "none", "asked", "acked",
                \* "refused"
  sent          \* history: sent[f][v] is the text delivered as version v of f

session == <<serving, lock, pc, request, result>>
tables == <<documents, order, versions>>
scratch == <<kept, resized, ask>>
server == <<process, worker, sent>>
vars == <<session, client, tables, diagnostics, current, scratch, server, flight>>

(***************************************************************************)
(* Data.                                                                   *)
(***************************************************************************)
Doc == [text : Texts, version : Versions]
Worker == [text : Texts, version : Versions, done : Nat]
Item == [uri : Files, version : Versions, idx : Nat \ {0}, sev : Severities]

CheckRequest == [op : {"check"}, uri : Files, text : Texts]
CloseRequest == [op : {"close"}, uri : Files]
OtherRequest == [op : {"status", "stop", "invalid"}]
Request == CheckRequest \cup CloseRequest \cup OtherRequest

\* A response: its exit code and the severities of its diagnostics.  An HTTP
\* 409 has no body; its exit field holds the status.
Answer == [exit : {0, 1, 2, 124, 409}, sevs : SUBSET Severities]
Plain(code) == [exit |-> code, sevs |-> {}]

\* The list stored under a key of the dictionary D, empty when there is none.
Under(D, f, v) == {d \in D : d.uri = f /\ d.version = v}

\* diagnostics.get((uri, version), []), as its severities.
Received(f, v) == {d.sev : d \in Under(diagnostics, f, v)}

\* A notification reaches a server that is running.  Sending raises when the
\* server is gone, and may raise in any case.
Deliverable == client # None /\ process[client] = "alive"

(***************************************************************************)
(* How a request ends.  Raise is the except block of do_POST up to its     *)
(* call of checker.close(), with the body built by Checker.incomplete;     *)
(* Finish releases the lock and sends the body.                            *)
(***************************************************************************)
Incomplete(cur) == IF cur = None THEN {} ELSE Received(cur.uri, cur.version)

Raise(h, code, cur) ==
  /\ result' = [result EXCEPT ![h] =
       [exit |-> code,
        sevs |-> IF request[h].op = "check" THEN Incomplete(cur) ELSE {}]]
  /\ pc' = [pc EXCEPT ![h] = "closing"]
  /\ kept' = {} /\ resized' = FALSE /\ ask' = "none"
  /\ UNCHANGED <<lock, request>>

Finish(h, answer) ==
  /\ result' = [result EXCEPT ![h] = answer]
  /\ pc' = [pc EXCEPT ![h] = "idle"]
  /\ lock' = None
  /\ kept' = {} /\ resized' = FALSE /\ ask' = "none"
  /\ UNCHANGED request

Goto(h, label) ==
  /\ pc' = [pc EXCEPT ![h] = label]
  /\ UNCHANGED <<lock, request, result>>

(***************************************************************************)
(* do_POST.  The lock is taken without blocking.  It does not matter       *)
(* whether serve_forever still runs: a thread that was started before it   *)
(* ended takes the lock whenever it is scheduled, and there may be any     *)
(* number of them.  The bounds of the model are guards of Admit: a check   *)
(* needs a version and a client to use.                                    *)
(***************************************************************************)
ClientAvailable == client # None \/ \E c \in Clients : process[c] = "unused"

AdmitWithoutLock(h, r) ==   \* mutant: the lock is not tested
  /\ pc[h] = "idle"
  /\ r.op = "check" => ClientAvailable /\ versions[r.uri] < MaxVersion
  /\ lock' = h
  /\ request' = [request EXCEPT ![h] = r]
  /\ result' = [result EXCEPT ![h] = None]
  /\ pc' = [pc EXCEPT ![h] = "begin"]
  /\ UNCHANGED <<serving, client, tables, diagnostics, current, scratch, server, flight>>

Admit(h, r) ==
  /\ pc[h] = "idle" /\ lock = None
  /\ r.op = "check" => ClientAvailable /\ versions[r.uri] < MaxVersion
  /\ lock' = h
  /\ request' = [request EXCEPT ![h] = r]
  /\ result' = [result EXCEPT ![h] = None]
  /\ pc' = [pc EXCEPT ![h] = "begin"]
  /\ UNCHANGED <<serving, client, tables, diagnostics, current, scratch, server, flight>>

\* Somebody holds the lock: 409, without touching the Checker.
Refuse(h) ==
  /\ pc[h] = "idle" /\ lock # None
  /\ result' = [result EXCEPT ![h] = Plain(409)]
  /\ UNCHANGED <<serving, lock, pc, request, client, tables, diagnostics, current,
                 scratch, server, flight>>

Status(h) ==
  /\ pc[h] = "begin" /\ request[h].op = "status"
  /\ Finish(h, Plain(0))
  /\ UNCHANGED <<serving, client, tables, diagnostics, current, server, flight>>

\* A bad length, a bad JSON body or an unknown action.
Invalid(h) ==
  /\ pc[h] = "begin" /\ request[h].op = "invalid"
  /\ Raise(h, 2, None)
  /\ UNCHANGED <<serving, client, tables, diagnostics, current, server, flight>>

(***************************************************************************)
(* Checker.close.  When client.close() raises, the server may be left      *)
(* running ("leaked").  client becomes None in either case, but the tables *)
(* are cleared only when it returned.                                      *)
(***************************************************************************)
Close(raised) ==
  /\ client = None => ~raised
  /\ client' = None
  /\ IF client = None THEN UNCHANGED process
     ELSE \E after \in {"dead"} \cup IF raised /\ process[client] = "alive"
                                     THEN {"leaked"} ELSE {} :
            process' = [process EXCEPT ![client] = after]
  /\ IF raised THEN UNCHANGED <<documents, order, diagnostics>>
     ELSE /\ documents' = [f \in Files |-> None]
          /\ order' = <<>>
          /\ diagnostics' = {}
  /\ UNCHANGED versions

\* The rest of the except block: close, log a failure to close, release.
CloseAfterFailure(h) ==
  /\ pc[h] = "closing"
  /\ \E raised \in BOOLEAN : Close(raised)
  /\ Finish(h, result[h])
  /\ UNCHANGED <<serving, current, worker, sent, flight>>

Stop(h) ==
  /\ pc[h] = "begin" /\ request[h].op = "stop"
  /\ \/ /\ Close(FALSE)
        /\ Finish(h, Plain(0))
        /\ serving' = IF serving = "yes" THEN "stopping" ELSE serving
     \/ /\ Close(TRUE)
        /\ Raise(h, 2, None)
        /\ UNCHANGED serving
  /\ UNCHANGED <<current, worker, sent, flight>>

\* The thread do_POST starts for "stop" runs server.shutdown().
Shutdown ==
  /\ serving = "stopping"
  /\ serving' = "no"
  /\ UNCHANGED <<lock, pc, request, result, client, tables, diagnostics, current,
                 scratch, server, flight>>

(***************************************************************************)
(* A filtering comprehension over diagnostics takes two steps: the new     *)
(* dictionary is built from the old one, then the attribute is rebound.    *)
(* In between the reader thread still writes to the old one.  A key added  *)
(* while the comprehension iterates makes it raise.                        *)
(***************************************************************************)
FilterLabels == {"evicting", "editing", "dropping"}
Filtering == \E h \in Handlers : pc[h] \in FilterLabels

StartFilter(f) ==
  /\ kept' = {d \in diagnostics : d.uri # f}
  /\ resized' = FALSE
  /\ UNCHANGED <<ask, diagnostics>>

Rebind ==
  /\ diagnostics' = kept
  /\ kept' = {} /\ resized' = FALSE
  /\ UNCHANGED ask

FilterRaises(h) ==
  /\ pc[h] \in FilterLabels /\ resized
  /\ Raise(h, 2, current)
  /\ UNCHANGED <<serving, client, tables, diagnostics, current, server, flight>>

CloseWorker(f) ==
  IF Deliverable THEN worker' = [worker EXCEPT ![client][f] = None]
  ELSE UNCHANGED worker

\* Python's OrderedDict: drop a key, and move a key to the end.
Position(f) == CHOOSE i \in DOMAIN order : order[i] = f
Dropped(f) == RemoveAt(order, Position(f))
AppendedAgain(f) == Append(order, f)   \* mutant: a known key is not moved
ToEnd(f) == Append(IF documents[f] = None THEN order ELSE Dropped(f), f)

(***************************************************************************)
(* Checker.close_file.                                                     *)
(***************************************************************************)
CloseAbsent(h) ==
  /\ pc[h] = "begin" /\ request[h].op = "close"
  /\ documents[request[h].uri] = None
  /\ Finish(h, Plain(0))
  /\ UNCHANGED <<serving, client, tables, diagnostics, current, server, flight>>

CloseOpen(h) ==
  LET f == request[h].uri IN
  /\ pc[h] = "begin" /\ request[h].op = "close"
  /\ documents[f] # None
  /\ \/ /\ Raise(h, 2, None)
        /\ UNCHANGED <<documents, order, worker, diagnostics>>
     \/ /\ Deliverable
        /\ CloseWorker(f)
        /\ documents' = [documents EXCEPT ![f] = None]
        /\ order' = Dropped(f)
        /\ StartFilter(f)
        /\ Goto(h, "dropping")
  /\ UNCHANGED <<serving, client, versions, current, process, sent, flight>>

CloseDone(h) ==
  /\ pc[h] = "dropping"
  /\ diagnostics' = kept
  /\ Finish(h, Plain(0))
  /\ UNCHANGED <<serving, client, tables, current, server, flight>>

(***************************************************************************)
(* Checker.check, from its first line to the client.                       *)
(***************************************************************************)
\* The configuration changed, the path or the timeout is refused, or the file
\* cannot be read: current is None, so the body holds no diagnostics.
RefuseCheck(h) ==
  /\ pc[h] = "begin" /\ request[h].op = "check"
  /\ current' = None
  /\ Raise(h, 2, None)
  /\ UNCHANGED <<serving, client, tables, diagnostics, server, flight>>

BeginCheck(h) ==
  /\ pc[h] = "begin" /\ request[h].op = "check"
  /\ current' = [uri |-> request[h].uri, version |-> 0]
  /\ IF client # None
     THEN Goto(h, "place") /\ UNCHANGED <<client, process>>
     ELSE \E c \in Clients :
            /\ process[c] = "unused"
            /\ client' = c          \* __new__, before __init__ spawns
            /\ process' = [process EXCEPT ![c] = "fresh"]
            /\ Goto(h, "init")
  /\ UNCHANGED <<serving, tables, diagnostics, scratch, worker, sent, flight>>

\* client.__init__ spawns the server and talks to it; it may raise before or
\* after spawning, with a timeout in the second case.
InitClient(h) ==
  /\ pc[h] = "init"
  /\ process' = [process EXCEPT ![client] = "alive"]
  /\ Goto(h, "place")
  /\ UNCHANGED <<serving, client, tables, diagnostics, current, scratch, worker, sent,
                 flight>>

InitFailsUnassigned(h) ==   \* mutant: client is assigned only after __init__
  /\ pc[h] = "init"
  /\ Raise(h, 124, current)
  /\ process' = [process EXCEPT ![client] = "alive"]
  /\ client' = None
  /\ UNCHANGED <<serving, tables, diagnostics, current, worker, sent, flight>>

InitFails(h) ==
  /\ pc[h] = "init"
  /\ \/ Raise(h, 2, current) /\ UNCHANGED process
     \/ \E code \in {2, 124} :
          /\ Raise(h, code, current)
          /\ process' = [process EXCEPT ![client] = "alive"]
  /\ UNCHANGED <<serving, client, tables, diagnostics, current, worker, sent, flight>>

(***************************************************************************)
(* Checker.check: bring the server's copy of the file up to date.          *)
(***************************************************************************)
FullLate == Len(order) > MaxOpenFiles   \* mutant: off by one
Full == Len(order) >= MaxOpenFiles
KnownFile(f, text) == documents[f] # None   \* mutant: the text is not compared
Unchanged(f, text) == documents[f].text = text
FirstVersion(f) == 1   \* mutant: versions restart when a file is reopened
NextVersion(f) == versions[f] + 1

\* documents.popitem(last=False), didClose, and the filter on the oldest.
Evict(h) ==
  /\ pc[h] = "place"
  /\ documents[current.uri] = None /\ Full
  /\ documents' = [documents EXCEPT ![Head(order)] = None]
  /\ order' = Tail(order)
  /\ \/ Raise(h, 2, current) /\ UNCHANGED <<worker, diagnostics>>
     \/ /\ Deliverable
        /\ CloseWorker(Head(order))
        /\ StartFilter(Head(order))
        /\ Goto(h, "evicting")
  /\ UNCHANGED <<serving, client, versions, current, process, sent, flight>>

Evicted(h) ==
  /\ pc[h] = "evicting"
  /\ Rebind
  /\ Goto(h, "open")
  /\ UNCHANGED <<serving, client, tables, current, server, flight>>

\* documents[uri], versions[uri] and move_to_end once the server has the text.
Record(f, text, v) ==
  /\ documents' = [documents EXCEPT ![f] = [text |-> text, version |-> v]]
  /\ versions' = [versions EXCEPT ![f] = v]
  /\ order' = ToEnd(f)

\* The server starts elaborating a text delivered as version v of f.
Load(f, text, v) ==
  /\ worker' = [worker EXCEPT ![client][f] = [text |-> text, version |-> v, done |-> 0]]
  /\ sent' = [sent EXCEPT ![f][v] = text]

Wait(h) ==
  /\ ask' = "asked"
  /\ UNCHANGED <<kept, resized>>
  /\ Goto(h, "wait")

SendFails(h, v) ==
  /\ Raise(h, 2, [current EXCEPT !.version = v])
  /\ UNCHANGED <<tables, worker, sent>>

Open(h) ==
  LET f == current.uri
      v == NextVersion(f) IN
  /\ \/ pc[h] = "open"
     \/ pc[h] = "place" /\ documents[f] = None /\ ~Full
  /\ current' = [current EXCEPT !.version = v]
  /\ \/ SendFails(h, v)
     \/ /\ Deliverable
        /\ Load(f, request[h].text, v)
        /\ Record(f, request[h].text, v)
        /\ Wait(h)
  /\ UNCHANGED <<serving, client, diagnostics, process, flight>>

Reuse(h) ==
  LET f == current.uri
      v == documents[f].version IN
  /\ pc[h] = "place"
  /\ documents[f] # None
  /\ Unchanged(f, request[h].text)
  /\ current' = [current EXCEPT !.version = v]
  /\ Record(f, request[h].text, v)
  /\ Wait(h)
  /\ UNCHANGED <<serving, client, diagnostics, server, flight>>

StartEdit(h) ==
  LET f == current.uri IN
  /\ pc[h] = "place"
  /\ documents[f] # None
  /\ ~Unchanged(f, request[h].text)
  /\ current' = [current EXCEPT !.version = documents[f].version + 1]
  /\ StartFilter(f)
  /\ Goto(h, "editing")
  /\ UNCHANGED <<serving, client, tables, server, flight>>

\* The diff is against the text in documents; a server that does not have the
\* file open, because the client is newer than the table, ignores it.
Edit(h) ==
  LET f == current.uri
      v == current.version IN
  /\ pc[h] = "editing"
  /\ diagnostics' = kept
  /\ \/ SendFails(h, v)
     \/ /\ Deliverable
        /\ IF worker[client][f] = None THEN UNCHANGED <<worker, sent>>
           ELSE Load(f, request[h].text, v)
        /\ Record(f, request[h].text, v)
        /\ ask' = "asked" /\ kept' = {} /\ resized' = FALSE
        /\ Goto(h, "wait")
  /\ UNCHANGED <<serving, client, current, process, flight>>

(***************************************************************************)
(* Checker.check: waitForDiagnostics, and the verdict.  The reader thread  *)
(* completes the request after the items written before its reply.         *)
(***************************************************************************)
SilentVerdict(h) ==   \* mutant: silence means success
  LET sevs == Received(current.uri, current.version) IN
  /\ pc[h] = "wait"
  /\ Finish(h, [exit |-> IF ErrorSeverity \in sevs THEN 1 ELSE 0, sevs |-> sevs])
  /\ UNCHANGED <<serving, client, tables, diagnostics, current, server, flight>>

Verdict(h) ==
  LET sevs == Received(current.uri, current.version) IN
  /\ pc[h] = "wait" /\ ask = "acked"
  /\ Under(flight, current.uri, current.version) = {}
  /\ Finish(h, [exit |-> IF ErrorSeverity \in sevs THEN 1 ELSE 0, sevs |-> sevs])
  /\ UNCHANGED <<serving, client, tables, diagnostics, current, server, flight>>

Timeout(h) ==
  /\ pc[h] = "wait"
  /\ Raise(h, 124, current)
  /\ UNCHANGED <<serving, client, tables, diagnostics, current, server, flight>>

\* An error reply, or the server is gone.
WaitFails(h) ==
  /\ pc[h] = "wait"
  /\ ask = "refused" \/ ~Deliverable
  /\ Raise(h, 2, current)
  /\ UNCHANGED <<serving, client, tables, diagnostics, current, server, flight>>

(***************************************************************************)
(* The reader thread: Checker.on_diagnostics.  The first item of a version *)
(* replaces the list under its key, a later one extends it.  A list that a *)
(* comprehension has already copied is shared with the dictionary it is    *)
(* building; a list stored after that is not.                              *)
(***************************************************************************)
Replaced(D, m) ==   \* mutant: isIncremental is ignored
  (D \ Under(D, m.uri, m.version)) \cup {m}

Store(D, m) ==
  IF m.idx = 1 THEN (D \ Under(D, m.uri, m.version)) \cup {m} ELSE D \cup {m}

OnDiagnostics(m) ==
  /\ m \in flight
  /\ \A n \in Under(flight, m.uri, m.version) : m.idx <= n.idx
  /\ flight' = flight \ {m}
  /\ diagnostics' = Store(diagnostics, m)
  /\ kept' = IF m.idx > 1 /\ Under(kept, m.uri, m.version) # {} THEN kept \cup {m}
             ELSE kept
  /\ resized' = (Filtering /\ (resized \/ Under(diagnostics, m.uri, m.version) = {}))
  /\ UNCHANGED <<session, client, tables, current, ask, server>>

(***************************************************************************)
(* The Lean server.                                                        *)
(***************************************************************************)
Publish(c, f) ==
  LET w == worker[c][f]
      i == w.done + 1 IN
  /\ process[c] \in {"alive", "leaked"}
  /\ w # None
  /\ i <= Len(Items[w.text])
  /\ flight' = flight \cup
       {[uri |-> f, version |-> w.version, idx |-> i, sev |-> Items[w.text][i]]}
  /\ worker' = [worker EXCEPT ![c][f].done = i]
  /\ UNCHANGED <<session, client, tables, diagnostics, current, scratch, process, sent>>

\* The reply to waitForDiagnostics: an error for a file that is not open, an
\* acknowledgement once every item of the version has been written.
Acknowledge ==
  /\ ask = "asked" /\ Deliverable
  /\ LET w == worker[client][current.uri] IN
       \/ w = None /\ ask' = "refused"
       \/ /\ w # None
          /\ w.version = current.version /\ w.done = Len(Items[w.text])
          /\ ask' = "acked"
  /\ UNCHANGED <<session, client, tables, diagnostics, current, kept, resized, server,
                 flight>>

Crash(c) ==
  /\ process[c] \in {"alive", "leaked"}
  /\ process' = [process EXCEPT ![c] = "dead"]
  /\ UNCHANGED <<session, client, tables, diagnostics, current, scratch, worker, sent,
                 flight>>

-----------------------------------------------------------------------------
Init ==
  /\ serving = "yes"
  /\ lock = None
  /\ pc = [h \in Handlers |-> "idle"]
  /\ request = [h \in Handlers |-> [op |-> "status"]]
  /\ result = [h \in Handlers |-> None]
  /\ client = None
  /\ documents = [f \in Files |-> None]
  /\ order = <<>>
  /\ versions = [f \in Files |-> 0]
  /\ diagnostics = {}
  /\ current = None
  /\ kept = {} /\ resized = FALSE /\ ask = "none"
  /\ process = [c \in Clients |-> "unused"]
  /\ worker = [c \in Clients |-> [f \in Files |-> None]]
  /\ sent = [f \in Files |-> [v \in Versions |-> None]]
  /\ flight = {}

\* What a handler does once it holds the lock.
HandlerStep(h) ==
  \/ Status(h) \/ Invalid(h) \/ Stop(h) \/ CloseAfterFailure(h)
  \/ FilterRaises(h)
  \/ CloseAbsent(h) \/ CloseOpen(h) \/ CloseDone(h)
  \/ RefuseCheck(h) \/ BeginCheck(h) \/ InitClient(h) \/ InitFails(h)
  \/ Evict(h) \/ Evicted(h) \/ Open(h) \/ Reuse(h) \/ StartEdit(h) \/ Edit(h)
  \/ Verdict(h) \/ Timeout(h) \/ WaitFails(h)

Lean ==
  \/ \E c \in Clients, f \in Files : Publish(c, f)
  \/ Acknowledge
  \/ \E c \in Clients : Crash(c)

Next ==
  \/ \E h \in Handlers, r \in Request : Admit(h, r)
  \/ \E h \in Handlers : Refuse(h)
  \/ \E h \in Handlers : HandlerStep(h)
  \/ Shutdown
  \/ \E m \in flight : OnDiagnostics(m)
  \/ Lean

Spec == Init /\ [][Next]_vars
=============================================================================
