------------------------- MODULE LeanLspVerdictProofs -------------------------
(***************************************************************************)
(* What callers of the checker may rely on, for any number of files, texts,*)
(* clients and handler threads.  A verdict is about the text it was asked  *)
(* about and complete (VerdictsAreRight); the server's copy of a file is   *)
(* the one the table describes (EditsApply); servers are neither lost nor  *)
(* overloaded (NoServerIsLost, OpenFilesBounded); and all of it together   *)
(* cannot be told from CheckService (CheckerImplementsService).  At the    *)
(* end: the helper processes around it.                                    *)
(*                                                                         *)
(* The argument follows the items: what is stored or on its way under a    *)
(* version is what Lean reports for the text sent as that version          *)
(* (Provenance), and no item of an open document is missing (Complete).    *)
(***************************************************************************)
EXTENDS LeanLspCheckerProofs, LspShutdown, LspSession, FiniteSetTheorems

\* The i-th item Lean reports for text t as version v of f, and the items of
\* the document that w elaborates.
ItemOf(f, w, i) == [uri |-> f, version |-> w.version, idx |-> i, sev |-> Items[w.text][i]]
Of(x, f, w) == x.uri = f /\ x.version = w.version

\* sent is a history: a version is sent once, to one server, and whatever is
\* published or stored as its diagnostics is what Lean reports for its text.
SentOnce == \A f \in Files, v \in Versions : sent[f][v] # None => v <= versions[f]

Elaborated ==
  \A c \in Clients, f \in Files :
    LET w == worker[c][f] IN
    w # None => sent[f][w.version] = w.text /\ w.done <= Len(Items[w.text])

OneServer ==
  \A c, d \in Clients, f \in Files :
    c # d /\ worker[c][f] # None /\ worker[d][f] # None =>
      worker[c][f].version # worker[d][f].version

NewServersAreEmpty ==
  \A c \in Clients : process[c] \in {"unused", "fresh"} => \A f \in Files : worker[c][f] = None

Authentic(x) ==
  LET t == sent[x.uri][x.version] IN
  t # None /\ x.idx \in 1..Len(Items[t]) /\ x.sev = Items[t][x.idx]

Provenance ==
  /\ SentOnce /\ Elaborated /\ OneServer /\ NewServersAreEmpty
  /\ \A x \in flight \cup diagnostics \cup kept : Authentic(x)

\* What a document is recorded to hold is what was sent, if anything was; and
\* a handler that waits does so for the text it was asked about.
Recorded ==
  \A f \in Files : documents[f] # None =>
    sent[f][documents[f].version] \in {None, documents[f].text}

Asked(h) ==
  /\ pc[h] \in InCheck => client # None
  /\ pc[h] \in InCheck \ {"editing", "wait"} => current.version = 0
  /\ pc[h] = "wait" => documents[current.uri] = [text |-> request[h].text, version |-> current.version]
  /\ pc[h] = "dropping" => request[h].op = "close"

\* Lean's acknowledgement follows the last item of the document waited for.
Acked(h) ==
  LET w == worker[client][current.uri] IN
  pc[h] = "wait" /\ ask = "acked" =>
    w # None /\ w.version = current.version /\ w.done = Len(Items[w.text])

Awaited(f) == \E h \in Handlers : pc[h] = "wait" /\ current.uri = f
Edited(f) == \E h \in Handlers : pc[h] = "editing" /\ current.uri = f

\* No item of a document that the current server has open gets lost: each is
\* stored or on its way, in order; only the document waited for has items on
\* their way; and a comprehension keeps those of the others.
Whole(f, w) ==
  /\ \A i \in 1..w.done : ItemOf(f, w, i) \in diagnostics \cup flight
  /\ \A x \in flight, y \in diagnostics : Of(x, f, w) /\ Of(y, f, w) => y.idx < x.idx
  /\ \A x \in flight \cup diagnostics \cup kept : Of(x, f, w) => x.idx <= w.done
  /\ ~Awaited(f) => w.done = Len(Items[w.text]) /\ \A x \in flight : ~Of(x, f, w)
  /\ Filtering /\ ~Edited(f) => \A i \in 1..w.done : ItemOf(f, w, i) \in kept

Closing == \E h \in Handlers : pc[h] = "closing"

Complete ==
  client # None /\ ~Closing =>
    \A f \in Files : worker[client][f] # None => Whole(f, worker[client][f])

\* The current server has no file open that the table does not list.
Listed ==
  client # None /\ ~Closing =>
    \A f \in Files : worker[client][f] # None => documents[f] # None

TextInv ==
  /\ Provenance /\ Recorded /\ Complete
  /\ \A h \in Handlers : Asked(h) /\ Acked(h)

-----------------------------------------------------------------------------
(***************************************************************************)
(* What steps do to the server's side and to the items.  Most steps only   *)
(* forget; Open and Edit load a new version.                               *)
(***************************************************************************)
Forgets ==
  /\ sent' = sent /\ flight' = flight
  /\ \A f \in Files : versions'[f] >= versions[f]
  /\ \A c \in Clients, f \in Files : worker'[c][f] \in {None, worker[c][f]}
  /\ diagnostics' \cup kept' \subseteq diagnostics \cup kept
  /\ \A c \in Clients : process'[c] \in {"unused", "fresh"} => process[c] \in {"unused", "fresh"}

Loads(f, t, v) ==
  /\ f \in Files /\ t \in Texts /\ v \in Versions /\ v = versions[f] + 1
  /\ client \in Clients /\ process[client] = "alive"
  /\ Load(f, t, v)
  /\ versions' = [versions EXCEPT ![f] = v]
  /\ UNCHANGED <<process, flight, client>>
  /\ diagnostics' \cup kept' \subseteq diagnostics \cup kept

LEMMA SentAt ==
  ASSUME TypeInv, NEW f \in Files, NEW t, NEW v \in Versions, Load(f, t, v)
  PROVE  /\ sent'[f][v] = t
         /\ \A g \in Files, u \in Versions : g # f \/ u # v => sent'[g][u] = sent[g][u]
  BY DEF Load, TypeInv, TypeOK

LEMMA WorkerAt ==
  ASSUME TypeInv, NEW f \in Files, NEW t, NEW v, client \in Clients, Load(f, t, v)
  PROVE  /\ worker'[client][f] = [text |-> t, version |-> v, done |-> 0]
         /\ \A c \in Clients, g \in Files : c # client \/ g # f => worker'[c][g] = worker[c][g]
  BY DEF Load, TypeInv, TypeOK

LEMMA ItemsTyped ==
  ASSUME TypeInv, NEW x \in flight \cup diagnostics \cup kept
  PROVE  x \in Item /\ x.uri \in Files /\ x.version \in Versions /\ x.idx \in Nat \ {0}
  BY DEF TypeInv, TypeOK, Item

LEMMA WorkerTyped ==
  ASSUME TypeInv, NEW c \in Clients, NEW f \in Files, worker[c][f] # None
  PROVE  /\ worker[c][f] \in Worker /\ worker[c][f].text \in Texts
         /\ worker[c][f].version \in Versions /\ worker[c][f].done \in Nat
         /\ Items[worker[c][f].text] \in Seq(Severities)
         /\ Len(Items[worker[c][f].text]) \in Nat
  BY LspAssumption DEF TypeInv, TypeOK, Worker

LEMMA ProvenanceForgets ==
  ASSUME TypeInv, TypeInv', Provenance, Forgets
  PROVE  Provenance'
  <1>1. SentOnce'
    BY LspAssumption DEF Provenance, SentOnce, Forgets, TypeInv, TypeOK, Versions
  <1>2. Elaborated'
    BY DEF Provenance, Elaborated, Forgets
  <1>3. OneServer'
    BY DEF Provenance, OneServer, Forgets
  <1>4. NewServersAreEmpty'
    BY DEF Provenance, NewServersAreEmpty, Forgets
  <1>5. \A x \in (flight \cup diagnostics \cup kept)' : Authentic(x)'
    BY DEF Provenance, Authentic, Forgets
  <1>6. QED
    BY <1>1, <1>2, <1>3, <1>4, <1>5 DEF Provenance

LEMMA ProvenanceLoads ==
  ASSUME TypeInv, TypeInv', Provenance,
         NEW f, NEW t, NEW v, Loads(f, t, v)
  PROVE  Provenance'
  <1>1. /\ f \in Files /\ t \in Texts /\ v \in Versions /\ v = versions[f] + 1
        /\ client \in Clients /\ Load(f, t, v) /\ versions' = [versions EXCEPT ![f] = v]
        /\ versions \in [Files -> 0..MaxVersion] /\ t # None
    BY LspAssumption DEF Loads, TypeInv, TypeOK
  <1>2. /\ sent'[f][v] = t /\ sent[f][v] = None
        /\ \A g \in Files, u \in Versions : g # f \/ u # v => sent'[g][u] = sent[g][u]
    BY <1>1, SentAt DEF Provenance, SentOnce, Versions
  <1>3. /\ worker'[client][f] = [text |-> t, version |-> v, done |-> 0]
        /\ \A c \in Clients, g \in Files : c # client \/ g # f => worker'[c][g] = worker[c][g]
    BY <1>1, WorkerAt
  <1>4. SentOnce'
    BY <1>1, <1>2 DEF Provenance, SentOnce, Versions
  <1>5. \A g \in Files, u \in Versions : sent[g][u] # None => sent'[g][u] = sent[g][u]
    BY <1>2
  <1>6. Elaborated'
    <2> SUFFICES ASSUME NEW c \in Clients, NEW g \in Files, worker'[c][g] # None
                 PROVE  /\ sent'[g][worker'[c][g].version] = worker'[c][g].text
                        /\ worker'[c][g].done <= Len(Items[worker'[c][g].text])
      BY DEF Elaborated
    <2>1. CASE c = client /\ g = f
      BY <2>1, <1>1, <1>2, <1>3, LspAssumption
    <2>2. CASE c # client \/ g # f
      <3>1. worker'[c][g] = worker[c][g] /\ worker[c][g] # None
        BY <2>2, <1>3
      <3>2. /\ worker[c][g].version \in Versions /\ worker[c][g].text # None
            /\ sent[g][worker[c][g].version] = worker[c][g].text
            /\ worker[c][g].done <= Len(Items[worker[c][g].text])
        BY <3>1, WorkerTyped, LspAssumption DEF Provenance, Elaborated
      <3>3. QED BY <3>1, <3>2, <1>5
    <2>3. QED BY <2>1, <2>2
  <1>7. \A c \in Clients : worker[c][f] # None => worker[c][f].version # v
    BY <1>1, <1>2, WorkerTyped, LspAssumption DEF Provenance, Elaborated
  <1>8. OneServer'
    BY <1>1, <1>3, <1>7 DEF Provenance, OneServer
  <1>9. NewServersAreEmpty'
    BY <1>1, <1>3 DEF Provenance, NewServersAreEmpty, Loads
  <1>10. \A x \in (flight \cup diagnostics \cup kept)' : Authentic(x)'
    BY <1>5, ItemsTyped DEF Provenance, Authentic, Loads
  <1>11. QED
    BY <1>4, <1>6, <1>8, <1>9, <1>10 DEF Provenance

\* The reader thread moves one item.
LEMMA Stored ==
  ASSUME NEW m, OnDiagnostics(m)
  PROVE  /\ m \in flight /\ flight' = flight \ {m}
         /\ m \in diagnostics' /\ diagnostics' \subseteq diagnostics \cup {m}
         /\ kept \subseteq kept' /\ kept' \subseteq kept \cup {m}
         /\ \A x \in diagnostics : x \notin diagnostics' =>
              m.idx = 1 /\ x.uri = m.uri /\ x.version = m.version
         /\ UNCHANGED <<session, client, tables, current, ask, server>>
  BY DEF OnDiagnostics, Store, Under

LEMMA ProvenanceStored ==
  ASSUME TypeInv, Provenance, NEW m, OnDiagnostics(m)
  PROVE  Provenance'
  <1>1. UNCHANGED <<tables, server>>
    BY Stored
  <1>2. \A x \in (flight \cup diagnostics \cup kept)' : Authentic(x)'
    BY <1>1, Stored DEF server, Provenance, Authentic
  <1>3. QED
    BY <1>1, <1>2 DEF server, tables, Provenance, SentOnce, Elaborated, OneServer, NewServersAreEmpty

\* What a server publishes is the next item of the text it has.
LEMMA Published ==
  ASSUME TypeInv, Provenance, NEW c \in Clients, NEW f \in Files, Publish(c, f)
  PROVE  LET w == worker[c][f]
             i == w.done + 1
         IN  /\ w # None /\ w \in Worker /\ i \in 1..Len(Items[w.text])
             /\ flight' = flight \cup {ItemOf(f, w, i)}
             /\ worker'[c][f] = [w EXCEPT !.done = i]
             /\ \A d \in Clients, g \in Files : d # c \/ g # f => worker'[d][g] = worker[d][g]
             /\ UNCHANGED <<session, client, tables, diagnostics, current, scratch, process, sent>>
  <1> DEFINE w == worker[c][f]
             i == w.done + 1
  <1>1. w # None /\ w \in Worker /\ i \in 1..Len(Items[w.text])
    BY WorkerTyped DEF Publish
  <1>2. worker' = [worker EXCEPT ![c][f] = [w EXCEPT !.done = i]]
    BY DEF Publish
  <1>3. /\ worker'[c][f] = [w EXCEPT !.done = i]
        /\ \A d \in Clients, g \in Files : d # c \/ g # f => worker'[d][g] = worker[d][g]
    <2> HIDE DEF w, i
    <2> QED BY <1>2 DEF TypeInv, TypeOK
  <1>4. QED
    BY <1>1, <1>3 DEF Publish, ItemOf

LEMMA ProvenancePublished ==
  ASSUME TypeInv, Provenance, NEW c \in Clients, NEW f \in Files, Publish(c, f)
  PROVE  Provenance'
  <1> DEFINE w == worker[c][f]
             i == w.done + 1
  <1>1. /\ w # None /\ w \in Worker /\ i \in 1..Len(Items[w.text])
        /\ flight' = flight \cup {ItemOf(f, w, i)}
        /\ worker'[c][f] = [w EXCEPT !.done = i]
        /\ \A d \in Clients, g \in Files : d # c \/ g # f => worker'[d][g] = worker[d][g]
        /\ UNCHANGED <<versions, diagnostics, kept, process, sent>>
    BY Published DEF tables, scratch
  <1>2. worker'[c][f].version = w.version /\ worker'[c][f].text = w.text
        /\ worker'[c][f].done <= Len(Items[w.text]) /\ w.text \in Texts /\ w.text # None
    BY <1>1, LspAssumption DEF Worker
  <1>3. sent[f][w.version] = w.text
    BY <1>1 DEF Provenance, Elaborated
  <1> HIDE DEF w, i
  <1>4. SentOnce'
    BY <1>1 DEF Provenance, SentOnce
  <1>5. Elaborated'
    <2> SUFFICES ASSUME NEW d \in Clients, NEW g \in Files, worker'[d][g] # None
                 PROVE  /\ sent'[g][worker'[d][g].version] = worker'[d][g].text
                        /\ worker'[d][g].done <= Len(Items[worker'[d][g].text])
      BY DEF Elaborated
    <2>1. CASE d = c /\ g = f
      BY <2>1, <1>1, <1>2, <1>3
    <2>2. CASE d # c \/ g # f
      BY <2>2, <1>1 DEF Provenance, Elaborated
    <2>3. QED BY <2>1, <2>2
  <1>6. OneServer'
    <2>1. \A d \in Clients, g \in Files :
            worker'[d][g] # None =>
              worker[d][g] # None /\ worker'[d][g].version = worker[d][g].version
      BY <1>1, <1>2 DEF w
    <2>2. QED BY <2>1 DEF Provenance, OneServer
  <1>7. NewServersAreEmpty'
    BY <1>1 DEF Provenance, NewServersAreEmpty, w
  <1>8. Authentic(ItemOf(f, w, i))
    BY <1>1, <1>2, <1>3 DEF Authentic, ItemOf
  <1>9. \A x \in (flight \cup diagnostics \cup kept)' : Authentic(x)'
    BY <1>1, <1>8 DEF Provenance, Authentic
  <1>10. QED
    BY <1>4, <1>5, <1>6, <1>7, <1>9 DEF Provenance

LEMMA EndingForgets ==
  ASSUME TypeInv, NEW h \in Handlers,
         \/ Status(h) \/ Invalid(h) \/ FilterRaises(h) \/ CloseAbsent(h) \/ CloseDone(h)
         \/ RefuseCheck(h) \/ InitFails(h) \/ Verdict(h) \/ Timeout(h) \/ WaitFails(h)
  PROVE  Forgets
  <1>1. UNCHANGED <<sent, flight, versions, worker>>
    BY DEF Status, Invalid, FilterRaises, CloseAbsent, CloseDone, RefuseCheck, InitFails, Verdict,
       Timeout, WaitFails, server, tables
  <1>2. kept' = {}
    BY DEF Status, Invalid, FilterRaises, CloseAbsent, CloseDone, RefuseCheck, InitFails, Verdict,
       Timeout, WaitFails, Raise, Finish
  <1>3. diagnostics' \in {diagnostics, kept}
    BY DEF Status, Invalid, FilterRaises, CloseAbsent, CloseDone, RefuseCheck, InitFails, Verdict,
       Timeout, WaitFails
  <1>4. process' = process \/ process' = [process EXCEPT ![client] = "alive"]
    BY DEF Status, Invalid, FilterRaises, CloseAbsent, CloseDone, RefuseCheck, InitFails, Verdict,
       Timeout, WaitFails, server
  <1>5. \A c \in Clients : process'[c] \in {process[c], "alive"}
    BY <1>4 DEF TypeInv, TypeOK
  <1>6. QED
    BY <1>1, <1>2, <1>3, <1>5 DEF Forgets, TypeInv, TypeOK

LEMMA CloseEffect ==
  ASSUME TypeInv, NEW raised, Close(raised)
  PROVE  /\ client' = None /\ versions' = versions
         /\ diagnostics' \subseteq diagnostics
         /\ \A f \in Files : documents'[f] \in {None, documents[f]}
         /\ \A c \in Clients : process'[c] = process[c]
              \/ (c = client /\ process'[c] \in {"dead", "leaked"})
  <1>1. \/ process' = process
        \/ \E after \in {"dead", "leaked"} : process' = [process EXCEPT ![client] = after]
    BY DEF Close
  <1>2. \A c \in Clients : process'[c] = process[c]
              \/ (c = client /\ process'[c] \in {"dead", "leaked"})
    <2>1. process \in [Clients -> {"unused", "fresh", "alive", "leaked", "dead"}]
      BY DEF TypeInv, TypeOK
    <2>2. ASSUME NEW after \in {"dead", "leaked"}, process' = [process EXCEPT ![client] = after],
                 NEW c \in Clients
          PROVE  process'[c] = process[c] \/ (c = client /\ process'[c] \in {"dead", "leaked"})
      BY <2>1, <2>2
    <2>3. QED BY <1>1, <2>2
  <1>3. QED
    BY <1>2 DEF Close

LEMMA ClosingForgets ==
  ASSUME TypeInv, NEW h \in Handlers, Stop(h) \/ CloseAfterFailure(h)
  PROVE  Forgets /\ client' = None
  <1>1. PICK raised \in BOOLEAN : Close(raised)
    BY DEF Stop, CloseAfterFailure
  <1>2. UNCHANGED <<sent, flight, worker>> /\ kept' = {}
    BY DEF Stop, CloseAfterFailure, Raise, Finish
  <1>3. QED
    BY <1>1, <1>2, CloseEffect DEF Forgets, TypeInv, TypeOK

LEMMA WorkerGone ==
  ASSUME TypeInv, NEW f, CloseWorker(f)
  PROVE  \A c \in Clients, g \in Files :
           /\ worker'[c][g] \in {None, worker[c][g]}
           /\ c # client \/ g # f => worker'[c][g] = worker[c][g]
           /\ Deliverable /\ c = client /\ g = f => worker'[c][g] = None
  BY DEF CloseWorker, TypeInv, TypeOK

LEMMA ClosedForgets ==
  ASSUME TypeInv, NEW h \in Handlers, CloseOpen(h) \/ Evict(h)
  PROVE  Forgets
  <1>1. UNCHANGED <<client, versions, process, sent, flight>>
    BY DEF CloseOpen, Evict
  <1>2. \/ worker' = worker
        \/ \E f : CloseWorker(f)
    BY DEF CloseOpen, Evict
  <1>3. \A c \in Clients, g \in Files : worker'[c][g] \in {None, worker[c][g]}
    BY <1>2, WorkerGone
  <1>4. diagnostics' = diagnostics /\ kept' \subseteq diagnostics
    BY DEF CloseOpen, Evict, StartFilter, Raise
  <1>5. QED
    BY <1>1, <1>3, <1>4 DEF Forgets, TypeInv, TypeOK

LEMMA MiddleForgets ==
  ASSUME TypeInv, NEW h \in Handlers,
         \/ BeginCheck(h) \/ InitClient(h) \/ Evicted(h) \/ Reuse(h) \/ StartEdit(h)
  PROVE  Forgets
  <1>1. UNCHANGED <<sent, flight, worker>>
    BY DEF BeginCheck, InitClient, Evicted, Reuse, StartEdit, server
  <1>2. diagnostics' \cup kept' \subseteq diagnostics \cup kept
    BY DEF BeginCheck, InitClient, Evicted, Reuse, StartEdit, StartFilter, Rebind, Wait, scratch
  <1>3. \A f \in Files : versions'[f] >= versions[f]
    <2>1. CASE Reuse(h)
      <3>1. documents[current.uri].version = versions[current.uri]
        BY <2>1, Checking DEF Reuse, InCheck, TypeInv, CheckData, DocVersion
      <3>2. versions' = [versions EXCEPT ![current.uri] = versions[current.uri]]
        BY <2>1, <3>1 DEF Reuse, Record
      <3>3. QED BY <3>2 DEF TypeInv, TypeOK
    <2>2. CASE ~Reuse(h)
      <3>1. versions' = versions
        BY <2>2 DEF BeginCheck, InitClient, Evicted, StartEdit, tables
      <3>2. QED BY <3>1 DEF TypeInv, TypeOK
    <2>3. QED BY <2>1, <2>2
  <1>4. \A c \in Clients : process'[c] \in {"unused", "fresh"} => process[c] \in {"unused", "fresh"}
    <2>1. \/ process' = process \/ process' = [process EXCEPT ![client] = "alive"]
          \/ \E c \in Clients : process[c] = "unused" /\ process' = [process EXCEPT ![c] = "fresh"]
      BY DEF BeginCheck, InitClient, Evicted, Reuse, StartEdit, server
    <2>2. QED BY <2>1 DEF TypeInv, TypeOK
  <1>5. QED
    BY <1>1, <1>2, <1>3, <1>4 DEF Forgets

\* Opening and editing: the text is loaded, or sending fails, or a server
\* newer than the table ignores the edit.
LEMMA SendEffect ==
  ASSUME TypeInv, TypeInv', NEW h \in Handlers, Open(h) \/ Edit(h)
  PROVE  LET f == current.uri
             v == versions[f] + 1
         IN  \/ SendFails(h, v) /\ Forgets
             \/ /\ \/ Loads(f, request[h].text, v)
                   \/ Edit(h) /\ Forgets /\ worker[client][f] = None /\ UNCHANGED <<worker, sent>>
                /\ Deliverable /\ Record(f, request[h].text, v) /\ current'.version = v
                /\ pc' = [pc EXCEPT ![h] = "wait"] /\ ask' = "asked"
                /\ UNCHANGED <<request, lock, result, flight, process, client>>
  <1> DEFINE f == current.uri
             v == versions[f] + 1
             t == request[h].text
  <1>1. pc[h] \in InCheck /\ UNCHANGED <<client, process, flight>>
    BY DEF Open, Edit, InCheck
  <1>2. /\ f \in Files /\ t \in Texts /\ request[h].uri = f /\ HandlerData(h)
        /\ request[h] \in CheckRequest /\ current \in [uri : Files, version : 0..MaxVersion]
    BY <1>1, Checking DEF HandlerData
  <1>3. diagnostics' \cup kept' \subseteq diagnostics \cup kept
    BY DEF Open, Edit, SendFails, Raise, Wait
  <1>4. Edit(h) => current.version = v
    BY <1>2 DEF Edit, HandlerData
  <1>5. v \in Versions
    <2>1. versions[f] \in Nat /\ versions[f] <= MaxVersion /\ MaxVersion \in Nat
      BY <1>2, LspAssumption DEF TypeInv, TypeOK
    <2>2. CASE Open(h)
      <3>1. versions[f] < MaxVersion
        BY <2>2, <1>2 DEF Open, HandlerData, BeforeOpen, CheckRequest
      <3>2. QED BY <2>1, <3>1 DEF Versions
    <2>3. CASE Edit(h)
      BY <2>1, <2>3, <1>2, <1>4 DEF Versions
    <2>4. QED BY <2>2, <2>3
  <1>6. CASE SendFails(h, v)
    <2>1. Forgets
      BY <1>1, <1>3, <1>6 DEF SendFails, tables, Forgets, TypeInv, TypeOK
    <2>2. QED BY <1>6, <2>1
  <1>7. CASE ~SendFails(h, v)
    <2>1. /\ Deliverable /\ Record(f, t, v) /\ ask' = "asked" /\ current'.version = v
          /\ pc' = [pc EXCEPT ![h] = "wait"] /\ UNCHANGED <<request, lock, result>>
      BY <1>2, <1>4, <1>7 DEF Open, Edit, NextVersion, Wait, Goto
    <2>2. \/ Load(f, t, v)
          \/ Edit(h) /\ worker[client][f] = None /\ UNCHANGED <<worker, sent>>
      BY <1>4, <1>7 DEF Open, Edit, NextVersion
    <2>3. versions' = [versions EXCEPT ![f] = v]
      BY <2>1 DEF Record
    <2>4. Load(f, t, v) => Loads(f, t, v)
      BY <1>1, <1>2, <1>3, <1>5, <2>1, <2>3 DEF Loads, Deliverable, TypeInv, TypeOK
    <2>5. UNCHANGED <<worker, sent>> => Forgets
      BY <1>1, <1>2, <1>3, <2>3 DEF Forgets, TypeInv, TypeOK
    <2>6. QED
      BY <1>1, <2>1, <2>2, <2>4, <2>5
  <1>8. QED BY <1>6, <1>7

LEMMA OthersForget ==
  ASSUME TypeInv,
         \/ \E h \in Handlers, r \in Request : Admit(h, r)
         \/ \E h \in Handlers : Refuse(h)
         \/ Shutdown \/ Acknowledge \/ (\E c \in Clients : Crash(c)) \/ UNCHANGED vars
  PROVE  Forgets
  <1>1. /\ UNCHANGED <<sent, flight, worker, versions, diagnostics, kept>>
        /\ process' = process \/ \E c \in Clients : process' = [process EXCEPT ![c] = "dead"]
    BY DEF Admit, Refuse, Shutdown, Acknowledge, Crash, vars, session, tables, scratch, server
  <1>2. QED
    BY <1>1 DEF Forgets, TypeInv, TypeOK

LEMMA ProvenanceNext ==
  ASSUME TypeInv, TypeInv', Provenance, [Next]_vars
  PROVE  Provenance'
  <1>1. ASSUME NEW h \in Handlers, HandlerStep(h) PROVE Provenance'
    <2>1. CASE Open(h) \/ Edit(h)
      BY <2>1, SendEffect, ProvenanceForgets, ProvenanceLoads
    <2>2. CASE ~(Open(h) \/ Edit(h))
      <3>1. Forgets
        BY <1>1, <2>2, EndingForgets, ClosingForgets, ClosedForgets, MiddleForgets DEF HandlerStep
      <3>2. QED BY <3>1, ProvenanceForgets
    <2>3. QED BY <2>1, <2>2
  <1>2. CASE \/ \E h \in Handlers, r \in Request : Admit(h, r)
             \/ \E h \in Handlers : Refuse(h)
             \/ Shutdown \/ Acknowledge \/ (\E c \in Clients : Crash(c)) \/ UNCHANGED vars
    BY <1>2, OthersForget, ProvenanceForgets
  <1>3. QED
    BY <1>1, <1>2, ProvenanceStored, ProvenancePublished DEF Next, Lean

-----------------------------------------------------------------------------
(***************************************************************************)
(* The document table.  Most steps only forget documents, a reuse records  *)
(* what it found.                                                          *)
(***************************************************************************)
DocsForgotten == \A f \in Files : documents'[f] \in {None, documents[f]}

LEMMA ReuseRecords ==
  ASSUME TypeInv, NEW h \in Handlers, Reuse(h)
  PROVE  /\ documents' = documents
         /\ documents[current.uri] = [text |-> request[h].text, version |-> documents[current.uri].version]
  <1> DEFINE f == current.uri
             d == documents[f]
  <1>1. f \in Files
    BY Checking DEF Reuse, InCheck
  <1>2. d \in Doc /\ d.text = request[h].text /\ documents \in [Files -> Doc \cup {None}]
    BY <1>1 DEF Reuse, Unchanged, TypeInv, TypeOK
  <1>3. documents' = [documents EXCEPT ![f] = [text |-> request[h].text, version |-> d.version]]
    BY DEF Reuse, Record
  <1>4. d = [text |-> request[h].text, version |-> d.version]
    BY <1>2 DEF Doc
  <1> HIDE DEF d
  <1>5. documents' = [documents EXCEPT ![f] = d]
    BY <1>3, <1>4
  <1>6. documents' = documents
    BY <1>1, <1>2, <1>5 DEF d
  <1>7. QED
    BY <1>4, <1>6 DEF d

LEMMA DocsNext ==
  ASSUME TypeInv, [Next]_vars, ~(\E h \in Handlers : (Open(h) \/ Edit(h)) /\ pc'[h] = "wait")
  PROVE  DocsForgotten
  <1> USE DEF DocsForgotten
  <1>1. ASSUME NEW h \in Handlers, HandlerStep(h) PROVE DocsForgotten
    <2>1. CASE \/ Status(h) \/ Invalid(h) \/ FilterRaises(h) \/ CloseAbsent(h) \/ CloseDone(h)
               \/ RefuseCheck(h) \/ InitFails(h) \/ Verdict(h) \/ Timeout(h) \/ WaitFails(h)
               \/ BeginCheck(h) \/ InitClient(h) \/ Evicted(h) \/ StartEdit(h)
      BY <2>1 DEF Status, Invalid, FilterRaises, CloseAbsent, CloseDone, RefuseCheck, InitFails,
        Verdict, Timeout, WaitFails, BeginCheck, InitClient, Evicted, StartEdit, tables
    <2>2. CASE Stop(h) \/ CloseAfterFailure(h)
      BY <2>2, CloseEffect DEF Stop, CloseAfterFailure
    <2>3. CASE CloseOpen(h) \/ Evict(h)
      <3>1. documents' = documents \/ \E f : documents' = [documents EXCEPT ![f] = None]
        BY <2>3 DEF CloseOpen, Evict
      <3>2. QED BY <3>1 DEF TypeInv, TypeOK
    <2>4. CASE Reuse(h)
      BY <2>4, ReuseRecords
    <2>5. CASE Open(h) \/ Edit(h)
      <3>1. pc'[h] # "wait"
        BY <2>5
      <3>2. documents' = documents
        BY <2>5, <3>1 DEF Open, Edit, SendFails, Wait, Goto, TypeInv, TypeOK, tables
      <3>3. QED BY <3>2
    <2>6. QED
      BY <1>1, <2>1, <2>2, <2>3, <2>4, <2>5 DEF HandlerStep
  <1>2. QED
    BY <1>1 DEF Next, Lean, Admit, Refuse, Shutdown, OnDiagnostics, Publish, Acknowledge, Crash,
      vars, tables

\* A text that was just recorded: it was loaded, or nothing was sent under its
\* version.
LEMMA SentNow ==
  ASSUME TypeInv, TypeInv', Provenance, NEW h \in Handlers, Open(h) \/ Edit(h), pc'[h] = "wait"
  PROVE  LET f == current.uri
             v == versions[f] + 1
         IN  /\ f \in Files /\ v \in Versions /\ sent[f][v] = None /\ Record(f, request[h].text, v)
             /\ sent'[f][v] \in {None, request[h].text}
             /\ \A g \in Files, u \in Versions : g # f \/ u # v => sent'[g][u] = sent[g][u]
  <1> DEFINE f == current.uri
             v == versions[f] + 1
             t == request[h].text
  <1>1. f \in Files /\ t \in Texts
    BY Checking DEF Open, Edit, InCheck
  <1>2. ~SendFails(h, v)
    BY DEF SendFails, Raise, TypeInv, TypeOK
  <1>3. /\ Record(f, t, v)
        /\ Loads(f, t, v) \/ (UNCHANGED <<worker, sent>>)
    BY <1>2, SendEffect
  <1>4. v \in Versions
    <2>1. versions' = [versions EXCEPT ![f] = v]
      BY <1>3 DEF Record
    <2>2. v \in 0..MaxVersion /\ versions[f] \in Nat
      BY <1>1, <2>1 DEF TypeInv, TypeOK
    <2>3. QED BY <2>2, LspAssumption DEF Versions
  <1>5. sent[f][v] = None
    BY <1>1, <1>4 DEF Provenance, SentOnce, Versions, TypeInv, TypeOK
  <1>6. CASE Loads(f, t, v)
    BY <1>1, <1>3, <1>4, <1>5, <1>6, SentAt DEF Loads
  <1>7. CASE UNCHANGED <<worker, sent>>
    BY <1>1, <1>3, <1>4, <1>5, <1>7
  <1>8. QED BY <1>3, <1>6, <1>7

LEMMA RecordedNext ==
  ASSUME TypeInv, TypeInv', Provenance, Recorded, [Next]_vars
  PROVE  Recorded'
  <1>1. CASE \E h \in Handlers : (Open(h) \/ Edit(h)) /\ pc'[h] = "wait"
    <2>1. PICK h \in Handlers : (Open(h) \/ Edit(h)) /\ pc'[h] = "wait"
      BY <1>1
    <2> DEFINE f == current.uri
               v == versions[f] + 1
               t == request[h].text
    <2>2. /\ f \in Files /\ v \in Versions /\ Record(f, t, v)
          /\ sent'[f][v] \in {None, t}
          /\ \A g \in Files, u \in Versions : g # f \/ u # v => sent'[g][u] = sent[g][u]
      BY <2>1, SentNow
    <2>3. documents' = [documents EXCEPT ![f] = [text |-> t, version |-> v]]
      BY <2>2 DEF Record
    <2>4. documents \in [Files -> Doc \cup {None}]
      BY DEF TypeInv, TypeOK
    <2> HIDE DEF f, v, t
    <2> SUFFICES ASSUME NEW g \in Files, documents'[g] # None
                 PROVE  sent'[g][documents'[g].version] \in {None, documents'[g].text}
      BY DEF Recorded
    <2>5. CASE g = f
      BY <2>2, <2>3, <2>4, <2>5
    <2>6. CASE g # f
      <3>1. documents'[g] = documents[g] /\ documents[g].version \in Versions
        BY <2>3, <2>4, <2>6 DEF Doc
      <3>2. QED BY <3>1, <2>2, <2>6 DEF Recorded
    <2>7. QED BY <2>5, <2>6
  <1>2. CASE ~\E h \in Handlers : (Open(h) \/ Edit(h)) /\ pc'[h] = "wait"
    <2>1. DocsForgotten
      BY <1>2, DocsNext
    <2>2. sent' = sent
      <3>1. ASSUME NEW h \in Handlers, Open(h) \/ Edit(h) PROVE sent' = sent
        <4>1. pc'[h] # "wait"
          BY <1>2, <3>1
        <4>2. QED
          BY <3>1, <4>1 DEF Open, Edit, SendFails, Wait, Goto, TypeInv, TypeOK
      <3>2. ASSUME NEW h \in Handlers, HandlerStep(h) PROVE sent' = sent
        BY <3>1, <3>2, EndingForgets, ClosingForgets, ClosedForgets, MiddleForgets
          DEF HandlerStep, Forgets
      <3>3. ASSUME \E m \in flight : OnDiagnostics(m) PROVE sent' = sent
        BY <3>3, Stored DEF server
      <3>4. ASSUME \E c \in Clients, f \in Files : Publish(c, f) PROVE sent' = sent
        BY <3>4 DEF Publish
      <3>5. QED
        BY <3>2, <3>3, <3>4, OthersForget DEF Next, Lean, Forgets
    <2>3. QED BY <2>1, <2>2 DEF DocsForgotten, Recorded
  <1>3. QED BY <1>1, <1>2

-----------------------------------------------------------------------------
(***************************************************************************)
(* What a handler inside the checker knows.                                *)
(***************************************************************************)
LEMMA HandlerOthersIdle ==
  ASSUME TypeInv, NEW h \in Handlers, pc[h] # "idle", NEW l, pc' = [pc EXCEPT ![h] = l]
  PROVE  pc'[h] = l /\ \A k \in Handlers : k # h => pc'[k] = "idle"
  BY OthersIdle DEF TypeInv, TypeOK

\* Where a step of the lock holder leads.
LEMMA Leads ==
  ASSUME TypeInv, NEW h \in Handlers, HandlerStep(h)
  PROVE  /\ pc[h] # "idle"
         /\ \E l \in Labels : pc' = [pc EXCEPT ![h] = l]
         /\ request' = request
  BY DEF HandlerStep, Status, Invalid, Stop, CloseAfterFailure, FilterRaises, CloseAbsent, CloseOpen,
    CloseDone, RefuseCheck, BeginCheck, InitClient, InitFails, Evict, Evicted, Open, Reuse,
    StartEdit, Edit, Verdict, Timeout, WaitFails, SendFails, Raise, Finish, Goto, Wait, Labels,
    FilterLabels

LEMMA AskedStep ==
  ASSUME TypeInv, TypeInv', Provenance, NEW h \in Handlers, HandlerStep(h), Asked(h)
  PROVE  Asked(h)'
  <1>1. pc[h] # "idle" /\ request' = request
    BY Leads
  <1>2. ASSUME NEW l \in {"idle", "closing"}, pc' = [pc EXCEPT ![h] = l] PROVE Asked(h)'
    BY <1>1, <1>2, HandlerOthersIdle DEF Asked, InCheck
  <1>3. CASE \/ Status(h) \/ Invalid(h) \/ FilterRaises(h) \/ CloseAbsent(h) \/ CloseDone(h)
             \/ RefuseCheck(h) \/ InitFails(h) \/ Verdict(h) \/ Timeout(h) \/ WaitFails(h)
             \/ Stop(h) \/ CloseAfterFailure(h)
    BY <1>2, <1>3 DEF Status, Invalid, FilterRaises, CloseAbsent, CloseDone, RefuseCheck, InitFails,
      Verdict, Timeout, WaitFails, Stop, CloseAfterFailure, Raise, Finish
  <1>4. CASE CloseOpen(h)
    <2>1. request[h].op = "close"
          /\ \E l \in {"closing", "dropping"} : pc' = [pc EXCEPT ![h] = l]
      BY <1>4 DEF CloseOpen, Raise, Goto
    <2>2. QED BY <1>1, <2>1, HandlerOthersIdle DEF Asked, InCheck
  <1>5. CASE BeginCheck(h)
    <2>1. \E l \in {"init", "place"} : pc' = [pc EXCEPT ![h] = l]
      BY <1>5 DEF BeginCheck, Goto
    <2>2. client' # None /\ current'.version = 0
      BY <1>5, LspAssumption DEF BeginCheck
    <2>3. QED BY <1>1, <2>1, <2>2, HandlerOthersIdle DEF Asked, InCheck
  <1>6. CASE InitClient(h) \/ Evict(h) \/ Evicted(h) \/ StartEdit(h)
    <2>1. pc[h] \in InCheck \ {"editing", "wait"} /\ client' = client
      BY <1>6 DEF InitClient, Evict, Evicted, StartEdit, InCheck
    <2>2. \/ /\ \E l \in {"place", "evicting", "open"} : pc' = [pc EXCEPT ![h] = l]
             /\ current' = current
          \/ \E l \in {"closing", "editing"} : pc' = [pc EXCEPT ![h] = l]
      BY <1>6 DEF InitClient, Evict, Evicted, StartEdit, Goto, Raise
    <2>3. QED BY <1>1, <2>1, <2>2, HandlerOthersIdle DEF Asked, InCheck
  <1>7. CASE Reuse(h)
    <2>1. /\ pc' = [pc EXCEPT ![h] = "wait"] /\ client' = client /\ pc[h] \in InCheck
          /\ current' = [current EXCEPT !.version = documents[current.uri].version]
      BY <1>7 DEF Reuse, Wait, Goto, InCheck
    <2>2. current'.uri = current.uri /\ current'.version = documents[current.uri].version
      BY <2>1, Checking
    <2>3. documents'[current'.uri] = [text |-> request'[h].text, version |-> current'.version]
      BY <1>1, <1>7, <2>2, ReuseRecords
    <2>4. pc'[h] = "wait" /\ client' # None
      BY <1>1, <2>1, HandlerOthersIdle DEF Asked
    <2>5. QED BY <2>3, <2>4 DEF Asked
  <1>8. CASE Open(h) \/ Edit(h)
    <2> DEFINE f == current.uri
               v == versions[f] + 1
               t == request[h].text
    <2>1. pc[h] \in InCheck /\ client' = client
      BY <1>8 DEF Open, Edit, InCheck
    <2>2. CASE SendFails(h, v)
      BY <1>2, <2>2 DEF SendFails, Raise
    <2>3. CASE ~SendFails(h, v)
      <3>1. pc' = [pc EXCEPT ![h] = "wait"] /\ Record(f, t, v) /\ current'.version = v
        BY <1>8, <2>3, SendEffect
      <3>2. current'.uri = f /\ f \in Files
        BY <1>8, <2>1, Checking DEF Open, Edit
      <3>3. documents'[f] = [text |-> t, version |-> v]
        BY <3>1, <3>2 DEF Record, TypeInv, TypeOK
      <3>4. pc'[h] = "wait" /\ client' # None
        BY <1>1, <2>1, <3>1, HandlerOthersIdle DEF Asked
      <3>5. documents'[current'.uri] = [text |-> request'[h].text, version |-> current'.version]
        BY <1>1, <3>1, <3>2, <3>3
      <3>6. QED BY <3>4, <3>5 DEF Asked
    <2>4. QED BY <2>2, <2>3
  <1>9. QED
    BY <1>3, <1>4, <1>5, <1>6, <1>7, <1>8 DEF HandlerStep

\* The rest of the world changes nothing that a handler knows.
World ==
  /\ UNCHANGED <<client, documents, versions, order, current>>
  /\ \/ UNCHANGED <<pc, request>>
     \/ \E h \in Handlers : lock = None /\ pc' = [pc EXCEPT ![h] = "begin"]

LEMMA WorldSteps ==
  ASSUME TypeInv, [Next]_vars
  PROVE  World \/ \E h \in Handlers : HandlerStep(h)
  BY DEF World, Next, Lean, Admit, Refuse, Shutdown, OnDiagnostics, Publish, Acknowledge, Crash,
    vars, session, tables

LEMMA AskedNext ==
  ASSUME TypeInv, TypeInv', Provenance, [Next]_vars, NEW k \in Handlers, Asked(k)
  PROVE  Asked(k)'
  <1>1. CASE World
    <2>1. CASE UNCHANGED <<pc, request>>
      BY <1>1, <2>1 DEF World, Asked
    <2>2. ASSUME NEW h \in Handlers, lock = None, pc' = [pc EXCEPT ![h] = "begin"]
          PROVE  Asked(k)'
      <3>1. pc'[k] \in {"idle", "begin"}
        BY <2>2, LspAssumption DEF TypeInv, TypeOK, Serialized
      <3>2. QED BY <3>1 DEF Asked, InCheck
    <2>3. QED BY <1>1, <2>1, <2>2 DEF World
  <1>2. ASSUME NEW h \in Handlers, HandlerStep(h) PROVE Asked(k)'
    <2>1. CASE k = h
      BY <1>2, <2>1, AskedStep
    <2>2. CASE k # h
      <3>1. pc'[k] = "idle"
        BY <1>2, <2>2, Leads, HandlerOthersIdle
      <3>2. QED BY <3>1 DEF Asked, InCheck
    <2>3. QED BY <2>1, <2>2
  <1>3. QED BY <1>1, <1>2, WorldSteps

LEMMA AckedNext ==
  ASSUME TypeInv, TypeInv', Provenance, [Next]_vars, NEW k \in Handlers, Asked(k), Acked(k)
  PROVE  Acked(k)'
  <1> SUFFICES ASSUME pc'[k] = "wait", ask' = "acked" PROVE Acked(k)'
    BY DEF Acked
  <1>1. ~\E h \in Handlers : HandlerStep(h)
    <2> SUFFICES ASSUME NEW h \in Handlers, HandlerStep(h) PROVE FALSE
      OBVIOUS
    <2>1. k = h
      BY Leads, HandlerOthersIdle
    <2>2. CASE Open(h) \/ Edit(h) \/ Reuse(h)
      BY <2>1, <2>2, SendEffect DEF Reuse, Wait, SendFails, Raise, TypeInv, TypeOK
    <2>3. CASE ~(Open(h) \/ Edit(h) \/ Reuse(h))
      <3>1. \E l \in Labels \ {"wait"} : pc' = [pc EXCEPT ![h] = l]
        BY <2>3 DEF HandlerStep, Status, Invalid, Stop, CloseAfterFailure, FilterRaises, CloseAbsent,
          CloseOpen, CloseDone, RefuseCheck, BeginCheck, InitClient, InitFails, Evict, Evicted,
          StartEdit, Verdict, Timeout, WaitFails, Raise, Finish, Goto, Labels, FilterLabels
      <3>2. QED BY <2>1, <3>1 DEF TypeInv, TypeOK
    <2>4. QED BY <2>2, <2>3
  <1>2. World
    BY <1>1, WorldSteps
  <1>3. pc[k] = "wait" /\ client' = client /\ current' = current
    BY <1>2 DEF World, TypeInv, TypeOK
  <1>4. client \in Clients /\ current.uri \in Files
    BY <1>3, Checking DEF Asked, InCheck, TypeInv, TypeOK
  <1>5. CASE Acknowledge
    <2>1. ask' # "refused" /\ worker' = worker
      BY <1>5 DEF Acknowledge, server
    <2>2. QED
      BY <1>3, <1>5, <2>1 DEF Acknowledge, Acked
  <1>6. ASSUME NEW c \in Clients, NEW f \in Files, Publish(c, f) PROVE Acked(k)'
    <2> DEFINE w == worker[c][f]
    <2>1. /\ w.done + 1 \in 1..Len(Items[w.text]) /\ ask' = ask
          /\ \A d \in Clients, g \in Files : d # c \/ g # f => worker'[d][g] = worker[d][g]
      BY <1>6, Published DEF scratch
    <2>2. w # None => Len(Items[w.text]) \in Nat /\ w.done \in Nat
      BY WorkerTyped
    <2>3. ~(c = client /\ f = current.uri)
      BY <1>3, <2>1, <2>2 DEF Acked
    <2>4. QED BY <1>3, <1>4, <2>1, <2>3 DEF Acked
  <1>7. CASE ~Acknowledge /\ ~\E c \in Clients, f \in Files : Publish(c, f)
    <2>1. worker' = worker /\ ask' = ask
      BY <1>1, <1>7 DEF Next, Lean, Admit, Refuse, Shutdown, OnDiagnostics, Crash, vars, scratch, server
    <2>2. QED BY <1>3, <2>1 DEF Acked
  <1>8. QED BY <1>5, <1>6, <1>7

-----------------------------------------------------------------------------
(***************************************************************************)
(* Nothing gets lost: Complete.                                            *)
(***************************************************************************)
LEMMA HolderBefore ==
  ASSUME TypeInv, NEW h \in Handlers, pc[h] # "idle"
  PROVE  /\ Closing <=> pc[h] = "closing"
         /\ Filtering <=> pc[h] \in FilterLabels
         /\ \A f : Awaited(f) <=> pc[h] = "wait" /\ current.uri = f
         /\ \A f : Edited(f) <=> pc[h] = "editing" /\ current.uri = f
  BY OthersIdle DEF Closing, Filtering, Awaited, Edited, FilterLabels

LEMMA HolderAfter ==
  ASSUME TypeInv, NEW h \in Handlers, pc[h] # "idle", NEW l, pc' = [pc EXCEPT ![h] = l]
  PROVE  /\ Closing' <=> l = "closing"
         /\ Filtering' <=> l \in FilterLabels
         /\ \A f : Awaited(f)' <=> l = "wait" /\ current'.uri = f
         /\ \A f : Edited(f)' <=> l = "editing" /\ current'.uri = f
  BY HandlerOthersIdle DEF Closing, Filtering, Awaited, Edited, FilterLabels

\* A document that the step leaves alone.
LEMMA WholeLeft ==
  ASSUME NEW f, NEW w, Whole(f, w), flight' = flight, diagnostics' = diagnostics,
         kept' \subseteq kept \cup diagnostics, Awaited(f) => Awaited(f)',
         Filtering' => Edited(f)' \/ \A i \in 1..w.done : ItemOf(f, w, i) \in kept'
  PROVE  Whole(f, w)'
  BY DEF Whole

\* A comprehension is through: what it kept is what there is.
LEMMA WholeKept ==
  ASSUME NEW f, NEW w, Whole(f, w), flight' = flight, diagnostics' = kept, kept' = {},
         ~Awaited(f), Filtering, ~Edited(f), ~Filtering'
  PROVE  Whole(f, w)'
  BY DEF Whole

\* A comprehension begins, and leaves out another file.
LEMMA WholeFiltered ==
  ASSUME TypeInv, NEW f, NEW w, Whole(f, w), flight' = flight, diagnostics' = diagnostics,
         NEW g, kept' = {d \in diagnostics : d.uri # g}, ~Awaited(f), f # g \/ Edited(f)'
  PROVE  Whole(f, w)'
  <1>1. f # g => \A i \in 1..w.done : ItemOf(f, w, i) \in kept'
    BY DEF Whole, ItemOf, Of
  <1>2. QED
    BY <1>1, WholeLeft

\* A document that was just loaded has no items yet.
LEMMA WholeNew ==
  ASSUME TypeInv, TypeInv', Provenance, NEW f \in Files, NEW t, NEW v \in Versions,
         NEW w, w = [text |-> t, version |-> v, done |-> 0], sent[f][v] = None,
         flight' = flight, diagnostics' \cup kept' \subseteq diagnostics \cup kept,
         Awaited(f)', ~Filtering'
  PROVE  Whole(f, w)'
  <1>1. \A x \in flight \cup diagnostics \cup kept : ~Of(x, f, w)
    BY DEF Provenance, Authentic, Of
  <1>2. \A x \in (flight \cup diagnostics \cup kept)' : ~Of(x, f, w)
    BY <1>1
  <1>3. 1..w.done = {}
    OBVIOUS
  <1>4. QED
    BY <1>2, <1>3 DEF Whole

\* Once the failed handler has closed, there is no client.
LEMMA ClosingStays ==
  ASSUME TypeInv, [Next]_vars, Closing
  PROVE  Closing' \/ client' = None
  <1>1. PICK k \in Handlers : pc[k] = "closing"
    BY DEF Closing
  <1>2. ASSUME NEW h \in Handlers, HandlerStep(h) PROVE client' = None
    <2>1. h = k
      BY <1>1, <1>2, Leads, OthersIdle
    <2>2. CloseAfterFailure(h)
      BY <1>1, <1>2, <2>1 DEF HandlerStep, Status, Invalid, Stop, FilterRaises, CloseAbsent, CloseOpen,
        CloseDone, RefuseCheck, BeginCheck, InitClient, InitFails, Evict, Evicted, Open, Reuse,
        StartEdit, Edit, Verdict, Timeout, WaitFails, FilterLabels
    <2>3. QED BY <2>2, ClosingForgets
  <1>3. World => Closing'
    BY <1>1, LspAssumption DEF World, Closing, TypeInv, TypeOK, Serialized
  <1>4. QED
    BY <1>2, <1>3, WorldSteps

LEMMA WholeStored ==
  ASSUME TypeInv, Provenance, NEW m \in flight, OnDiagnostics(m), NEW f \in Files, NEW w, Whole(f, w)
  PROVE  Whole(f, w)'
  <1>1. /\ flight' = flight \ {m} /\ m \in diagnostics' /\ diagnostics' \subseteq diagnostics \cup {m}
        /\ kept \subseteq kept' /\ kept' \subseteq kept \cup {m}
        /\ \A x \in diagnostics : x \notin diagnostics' =>
             m.idx = 1 /\ x.uri = m.uri /\ x.version = m.version
        /\ UNCHANGED <<pc, current>>
    BY Stored DEF session
  <1>2. (Awaited(f)' <=> Awaited(f)) /\ (Edited(f)' <=> Edited(f)) /\ (Filtering' <=> Filtering)
    BY <1>1 DEF Awaited, Edited, Filtering
  <1>3. \A i \in 1..w.done : ItemOf(f, w, i) \in (diagnostics \cup flight)'
    <2> SUFFICES ASSUME NEW i \in 1..w.done PROVE ItemOf(f, w, i) \in (diagnostics \cup flight)'
      OBVIOUS
    <2> DEFINE x == ItemOf(f, w, i)
    <2>1. x \in diagnostics \cup flight /\ Of(x, f, w)
      BY DEF Whole, Of, ItemOf
    <2>2. CASE x \in flight
      BY <1>1, <2>2
    <2>3. CASE x \in diagnostics /\ x \notin diagnostics'
      <3>1. m.idx = 1 /\ Of(m, f, w)
        BY <1>1, <2>1, <2>3 DEF Of
      <3>2. x.idx < 1
        BY <2>1, <2>3, <3>1 DEF Whole
      <3>3. x.idx \in Nat \ {0}
        BY <2>3, ItemsTyped
      <3>4. QED BY <3>2, <3>3
    <2>4. QED BY <2>1, <2>2, <2>3
  <1>4. \A x \in flight', y \in diagnostics' : Of(x, f, w) /\ Of(y, f, w) => y.idx < x.idx
    <2> SUFFICES ASSUME NEW x \in flight', NEW y \in diagnostics', Of(x, f, w), Of(y, f, w)
                 PROVE  y.idx < x.idx
      OBVIOUS
    <2>1. CASE y \in diagnostics
      BY <1>1, <2>1 DEF Whole
    <2>2. CASE y = m
      <3>1. x \in flight /\ x # m /\ x.uri = m.uri /\ x.version = m.version
        BY <1>1, <2>2 DEF Of
      <3>2. x \in Item /\ m \in Item
        BY <3>1 DEF TypeInv, TypeOK
      <3>3. m.idx <= x.idx
        BY <3>1 DEF OnDiagnostics, Under
      <3>4. m.idx # x.idx
        BY <3>1, <3>2 DEF Provenance, Authentic, Item
      <3>5. m.idx \in Nat /\ x.idx \in Nat
        BY <3>2 DEF Item
      <3>6. QED BY <2>2, <3>3, <3>4, <3>5
    <2>3. QED BY <1>1, <2>1, <2>2
  <1>5. \A x \in (flight \cup diagnostics \cup kept)' : Of(x, f, w) => x.idx <= w.done
    BY <1>1 DEF Whole
  <1>6. ~Awaited(f)' => w.done = Len(Items[w.text]) /\ \A x \in flight' : ~Of(x, f, w)
    BY <1>1, <1>2 DEF Whole
  <1>7. Filtering' /\ ~Edited(f)' => \A i \in 1..w.done : ItemOf(f, w, i) \in kept'
    BY <1>1, <1>2 DEF Whole
  <1>8. QED
    BY <1>3, <1>4, <1>5, <1>6, <1>7 DEF Whole

LEMMA WholePublished ==
  ASSUME TypeInv, Provenance, client \in Clients,
         NEW c \in Clients, NEW g \in Files, Publish(c, g),
         NEW f \in Files, NEW old, NEW next, old = worker[client][f],
         next = worker'[client][f], next # None, old # None => Whole(f, old)
  PROVE  Whole(f, next)'
  <1> DEFINE w == worker[c][g]
             i == w.done + 1
             new == ItemOf(g, w, i)
  <1>1. /\ w # None /\ w \in Worker /\ i \in 1..Len(Items[w.text])
        /\ flight' = flight \cup {new}
        /\ worker'[c][g] = [w EXCEPT !.done = i]
        /\ \A d \in Clients, e \in Files : d # c \/ e # g => worker'[d][e] = worker[d][e]
        /\ UNCHANGED <<pc, current, diagnostics, kept, client>>
    BY Published DEF session, scratch, Publish
  <1>2. (Awaited(f)' <=> Awaited(f)) /\ (Edited(f)' <=> Edited(f)) /\ (Filtering' <=> Filtering)
    BY <1>1 DEF Awaited, Edited, Filtering
  <1>3. CASE c = client /\ g = f
    <2>1. Whole(f, old) /\ old = w /\ next = [old EXCEPT !.done = i] /\ old \in Worker
      BY <1>1, <1>3
    <2>2. i = old.done + 1 /\ old.done \in Nat /\ Len(Items[old.text]) \in Nat
          /\ i <= Len(Items[old.text])
      BY <1>1, <2>1, WorkerTyped
    <2>3. next.version = old.version /\ next.text = old.text /\ next.done = old.done + 1
      BY <2>1, <2>2 DEF Worker
    <2>4. Awaited(f)
      BY <2>1, <2>2 DEF Whole
    <2>5. ~Filtering
      BY <2>4, HolderBefore DEF Awaited, FilterLabels
    <2>6. /\ new.idx = old.done + 1 /\ new = ItemOf(f, old, i)
          /\ \A j : ItemOf(f, next, j) = ItemOf(f, old, j)
      BY <1>3, <2>1, <2>2, <2>3 DEF ItemOf
    <2> HIDE DEF w, new, i
    <2>7. \A x : Of(x, f, next) <=> Of(x, f, old)
      BY <2>3 DEF Of
    <2>8. \A j \in 1..next.done : ItemOf(f, next, j) \in (diagnostics \cup flight)'
      <3>1. \A j \in 1..next.done : j \in 1..old.done \/ j = i
        BY <2>2, <2>3
      <3>2. QED BY <3>1, <1>1, <2>1, <2>6 DEF Whole
    <2>9. \A x \in (flight \cup diagnostics \cup kept)' : Of(x, f, next) => x.idx <= next.done
      BY <1>1, <2>1, <2>2, <2>3, <2>6, <2>7, ItemsTyped DEF Whole
    <2>10. \A x \in flight', y \in diagnostics' : Of(x, f, next) /\ Of(y, f, next) => y.idx < x.idx
      BY <1>1, <2>1, <2>2, <2>6, <2>7, ItemsTyped DEF Whole
    <2>11. QED
      BY <1>2, <2>4, <2>5, <2>8, <2>9, <2>10 DEF Whole
  <1>4. CASE c # client \/ g # f
    <2>1. next = old /\ Whole(f, old) /\ old # None
      BY <1>1, <1>4
    <2>2. ~Of(new, f, old)
      BY <1>1, <1>4, <2>1 DEF Of, ItemOf, Provenance, OneServer
    <2> HIDE DEF new, w, i
    <2>3. Whole(f, old)'
      BY <1>1, <1>2, <2>1, <2>2 DEF Whole
    <2>4. QED BY <2>1, <2>3 DEF Whole
  <1>5. QED BY <1>3, <1>4

\* A handler step, for a file f that the client's server has open afterwards.
LEMMA WholeStep ==
  ASSUME TypeInv, TypeInv', Provenance, Complete, NEW h \in Handlers, HandlerStep(h),
         Asked(h), Acked(h), ~Closing, client' # None, ~Closing',
         NEW f \in Files, NEW next, next = worker'[client'][f], next # None
  PROVE  Whole(f, next)'
  <1> DEFINE old == worker[client][f]
  <1>1. /\ pc[h] # "idle" /\ pc[h] # "closing"
        /\ \E l \in Labels : pc' = [pc EXCEPT ![h] = l]
    BY Leads, HolderBefore
  <1>2. PICK l \in Labels : pc' = [pc EXCEPT ![h] = l]
    BY <1>1
  <1>3. /\ l # "closing" /\ pc'[h] = l
        /\ Filtering <=> pc[h] \in FilterLabels
        /\ Awaited(f) <=> pc[h] = "wait" /\ current.uri = f
        /\ Edited(f) <=> pc[h] = "editing" /\ current.uri = f
        /\ Filtering' <=> l \in FilterLabels
        /\ Awaited(f)' <=> l = "wait" /\ current'.uri = f
        /\ Edited(f)' <=> l = "editing" /\ current'.uri = f
    BY <1>1, <1>2, HolderBefore, HolderAfter, HandlerOthersIdle
  <1>4. \A k : pc' = [pc EXCEPT ![h] = k] => k = l
    BY <1>2 DEF TypeInv, TypeOK
  <1>5. ~\E code, cur : Raise(h, code, cur)
    BY <1>3, <1>4 DEF Raise
  <1>6. CASE client = None
    <2>1. BeginCheck(h)
      BY <1>6, <1>1, <1>5 DEF HandlerStep, Status, Invalid, FilterRaises, CloseAbsent, CloseOpen,
        CloseDone, RefuseCheck, InitClient, InitFails, Evict, Evicted, Open, Reuse, StartEdit, Edit,
        Verdict, Timeout, WaitFails, Stop, Close, CloseAfterFailure, Asked, InCheck
    <2>2. worker' = worker /\ client' \in Clients /\ process[client'] = "unused"
      BY <2>1, <1>6 DEF BeginCheck
    <2>3. worker[client'][f] = None
      BY <2>2 DEF Provenance, NewServersAreEmpty
    <2>4. QED BY <2>2, <2>3
  <1>7. ASSUME client # None, client' = client, worker'[client][f] = old PROVE Whole(f, old) /\ next = old
    BY <1>7 DEF Complete
  <1>8. CASE client # None /\ (Status(h) \/ CloseAbsent(h) \/ BeginCheck(h) \/ InitClient(h))
    <2>1. /\ pc[h] \in {"begin", "init"} /\ UNCHANGED <<client, worker, flight, diagnostics>>
          /\ kept' \subseteq kept /\ \E k \in {"idle", "init", "place"} : pc' = [pc EXCEPT ![h] = k]
      BY <1>8 DEF Status, CloseAbsent, BeginCheck, InitClient, Finish, Goto, server, scratch
    <2>2. ~Filtering' /\ ~Awaited(f)
      BY <1>3, <1>4, <2>1 DEF FilterLabels
    <2>3. QED BY <1>7, <1>8, <2>1, <2>2, WholeLeft
  <1>9. CASE Verdict(h)
    <2>1. /\ pc[h] = "wait" /\ ask = "acked" /\ UNCHANGED <<client, worker, flight, diagnostics>>
          /\ kept' = {} /\ pc' = [pc EXCEPT ![h] = "idle"]
          /\ Under(flight, current.uri, current.version) = {}
      BY <1>9 DEF Verdict, Finish, server
    <2>2. ~Filtering' /\ ~Awaited(f)' /\ client # None
      BY <1>3, <1>4, <2>1 DEF FilterLabels, Asked, InCheck
    <2>3. Whole(f, old) /\ next = old
      BY <1>7, <2>1, <2>2
    <2>4. CASE current.uri = f
      <3>1. old.version = current.version /\ old.done = Len(Items[old.text])
        BY <2>1, <2>4 DEF Acked
      <3>2. \A x \in flight : ~Of(x, f, old)
        BY <2>1, <2>4, <3>1 DEF Under, Of
      <3> HIDE DEF old
      <3>3. QED BY <2>1, <2>2, <2>3, <3>1, <3>2 DEF Whole
    <2>5. CASE current.uri # f
      BY <1>3, <2>1, <2>2, <2>3, <2>5, WholeLeft
    <2>6. QED BY <2>4, <2>5
  <1>10. CASE CloseOpen(h) \/ Evict(h)
    <2>1. PICK g : /\ Deliverable /\ CloseWorker(g) /\ StartFilter(g) /\ client' = client
                   /\ pc[h] \in {"begin", "place"} /\ flight' = flight
      BY <1>5, <1>10 DEF CloseOpen, Evict
    <2>2. f # g /\ worker'[client][f] = old
      BY <2>1, WorkerGone DEF Deliverable, TypeInv, TypeOK
    <2>3. ~Awaited(f) /\ client # None
      BY <1>3, <2>1 DEF Deliverable
    <2>4. Whole(f, old) /\ next = old
      BY <1>7, <2>1, <2>2, <2>3
    <2>5. kept' = {d \in diagnostics : d.uri # g} /\ diagnostics' = diagnostics
      BY <2>1 DEF StartFilter
    <2> HIDE DEF old
    <2>6. QED BY <2>1, <2>2, <2>3, <2>4, <2>5, WholeFiltered
  <1>11. CASE StartEdit(h)
    <2> DEFINE g == current.uri
    <2>1. /\ pc[h] = "place" /\ UNCHANGED <<client, worker, flight>> /\ StartFilter(g)
          /\ pc' = [pc EXCEPT ![h] = "editing"] /\ current'.uri = g
      BY <1>11, Checking DEF StartEdit, Goto, server, InCheck
    <2>2. ~Awaited(f) /\ client # None /\ (f # g \/ Edited(f)')
      BY <1>3, <1>4, <2>1 DEF Asked, InCheck
    <2>3. Whole(f, old) /\ next = old
      BY <1>7, <2>1, <2>2
    <2>4. kept' = {d \in diagnostics : d.uri # g} /\ diagnostics' = diagnostics
      BY <2>1 DEF StartFilter
    <2> HIDE DEF old, g
    <2>5. QED BY <2>1, <2>2, <2>3, <2>4, WholeFiltered
  <1>12. CASE client # None /\ (Evicted(h) \/ CloseDone(h))
    <2>1. /\ pc[h] \in {"evicting", "dropping"} /\ UNCHANGED <<client, worker, flight>>
          /\ diagnostics' = kept /\ kept' = {}
          /\ \E k \in {"idle", "open"} : pc' = [pc EXCEPT ![h] = k]
      BY <1>12 DEF Evicted, CloseDone, Rebind, Finish, Goto, server
    <2>2. ~Awaited(f) /\ Filtering /\ ~Edited(f) /\ ~Filtering'
      BY <1>3, <1>4, <2>1 DEF FilterLabels
    <2>3. QED BY <1>7, <1>12, <2>1, <2>2, WholeKept
  <1>13. CASE Reuse(h)
    <2>1. /\ pc[h] = "place" /\ UNCHANGED <<client, worker, flight, diagnostics, kept>>
          /\ pc' = [pc EXCEPT ![h] = "wait"]
      BY <1>13 DEF Reuse, Wait, Goto, server
    <2>2. ~Awaited(f) /\ ~Filtering' /\ client # None
      BY <1>3, <1>4, <2>1 DEF FilterLabels, Asked, InCheck
    <2>3. QED BY <1>7, <2>1, <2>2, WholeLeft
  <1>14. CASE Open(h) \/ Edit(h)
    <2> DEFINE g == current.uri
               v == versions[g] + 1
               t == request[h].text
    <2>1. ~SendFails(h, v) /\ pc[h] \in InCheck
      BY <1>5, <1>14 DEF SendFails, Open, Edit, InCheck
    <2>2. /\ Loads(g, t, v)
             \/ (Edit(h) /\ worker[client][g] = None /\ UNCHANGED <<worker, sent>>)
          /\ pc' = [pc EXCEPT ![h] = "wait"] /\ UNCHANGED <<flight, client>> /\ client # None
      BY <1>14, <2>1, SendEffect DEF Deliverable
    <2>3. current'.uri = g /\ g \in Files
      BY <1>14, <2>1, Checking DEF Open, Edit
    <2>4. /\ ~Filtering' /\ (g = f => Awaited(f)') /\ ~Awaited(f)
      BY <1>3, <1>4, <1>14, <2>2, <2>3 DEF Open, Edit, FilterLabels
    <2>5. CASE g = f
      <3>1. Loads(g, t, v)
        BY <2>2, <2>5
      <3>2. /\ next = [text |-> t, version |-> v, done |-> 0] /\ v \in Versions
            /\ diagnostics' \cup kept' \subseteq diagnostics \cup kept
        BY <2>2, <2>5, <3>1, WorkerAt DEF Loads
      <3>3. sent[f][v] = None
        BY <2>5, <3>1 DEF Loads, Provenance, SentOnce, Versions, TypeInv, TypeOK
      <3> HIDE DEF v, t
      <3>4. QED BY <2>2, <2>4, <2>5, <3>2, <3>3, WholeNew
    <2>6. CASE g # f
      <3>1. worker'[client][f] = old
        <4>1. CASE Loads(g, t, v)
          <5>1. client \in Clients /\ Load(g, t, v)
            BY <4>1 DEF Loads
          <5> HIDE DEF g, t, v
          <5>2. QED BY <5>1, <2>3, <2>6, WorkerAt
        <4>2. CASE UNCHANGED <<worker, sent>>
          BY <4>2
        <4>3. QED BY <2>2, <4>1, <4>2
      <3>2. Whole(f, old) /\ next = old
        BY <1>7, <2>2, <3>1
      <3>3. CASE Open(h)
        <4>1. diagnostics' = diagnostics /\ kept' \subseteq kept
          BY <1>5, <3>3 DEF Open, Wait, SendFails
        <4>2. QED BY <2>2, <2>4, <3>2, <4>1, WholeLeft
      <3>4. CASE Edit(h)
        <4>1. /\ diagnostics' = kept /\ kept' = {} /\ pc[h] = "editing"
          BY <1>5, <3>4 DEF Edit, SendFails
        <4>2. Filtering /\ ~Edited(f)
          BY <1>3, <2>6, <4>1 DEF FilterLabels
        <4>3. QED BY <2>2, <2>4, <3>2, <4>1, <4>2, WholeKept
      <3>5. QED BY <1>14, <3>3, <3>4
    <2>7. QED BY <2>5, <2>6
  <1>15. ~(Stop(h) \/ CloseAfterFailure(h))
    BY ClosingForgets
  <1>16. ~(\/ Invalid(h) \/ FilterRaises(h) \/ RefuseCheck(h) \/ InitFails(h)
           \/ Timeout(h) \/ WaitFails(h))
    BY <1>5 DEF Invalid, FilterRaises, RefuseCheck, InitFails, Timeout, WaitFails
  <1>17. QED
    BY <1>6, <1>8, <1>9, <1>10, <1>11, <1>12, <1>13, <1>14, <1>15, <1>16 DEF HandlerStep

\* A step of anybody else.
LEMMA WholeWorld ==
  ASSUME TypeInv, Provenance, Complete, World, [Next]_vars, ~\E h \in Handlers : HandlerStep(h),
         ~Closing, client # None,
         NEW f \in Files, NEW next, next = worker'[client][f], next # None
  PROVE  Whole(f, next)'
  <1> DEFINE old == worker[client][f]
  <1>1. client \in Clients /\ (old # None => Whole(f, old))
    BY DEF Complete, TypeInv, TypeOK
  <1>2. ASSUME NEW c \in Clients, NEW g \in Files, Publish(c, g) PROVE Whole(f, next)'
    <2> HIDE DEF old
    <2>1. QED BY <1>1, <1>2, WholePublished DEF old
  <1>3. ASSUME NEW m \in flight, OnDiagnostics(m) PROVE Whole(f, next)'
    <2>1. worker' = worker
      BY <1>3, Stored DEF server
    <2>2. next = old /\ Whole(f, next)
      BY <1>1, <2>1
    <2>3. QED BY <1>3, <2>2, WholeStored
  <1>4. CASE ~(\E c \in Clients, g \in Files : Publish(c, g)) /\ ~\E m \in flight : OnDiagnostics(m)
    <2>1. UNCHANGED <<worker, flight, diagnostics, kept>>
      BY <1>4 DEF Next, Lean, Admit, Refuse, Shutdown, Acknowledge, Crash, vars, session, tables,
        scratch, server
    <2>2. next = old /\ Whole(f, next)
      BY <1>1, <2>1
    <2>3. CASE UNCHANGED <<pc, request>>
      <3>1. (Awaited(f)' <=> Awaited(f)) /\ (Edited(f)' <=> Edited(f)) /\ (Filtering' <=> Filtering)
        BY <2>3 DEF World, Awaited, Edited, Filtering
      <3>2. QED BY <2>1, <2>2, <3>1 DEF Whole
    <2>4. ASSUME NEW h \in Handlers, lock = None, pc' = [pc EXCEPT ![h] = "begin"]
          PROVE  Whole(f, next)'
      <3>1. \A k \in Handlers : pc[k] = "idle" /\ pc'[k] \in {"idle", "begin"}
        BY <2>4, LspAssumption DEF TypeInv, TypeOK, Serialized
      <3>2. ~Awaited(f) /\ ~Filtering'
        BY <3>1 DEF Awaited, Filtering, FilterLabels
      <3>3. QED BY <2>1, <2>2, <3>2, WholeLeft
    <2>5. QED BY <2>3, <2>4 DEF World
  <1>5. QED BY <1>2, <1>3, <1>4

LEMMA CompleteNext ==
  ASSUME TypeInv, TypeInv', Provenance, Complete, \A k \in Handlers : Asked(k) /\ Acked(k),
         [Next]_vars
  PROVE  Complete'
  <1> SUFFICES ASSUME client' # None, ~Closing', NEW f \in Files, NEW next,
                      next = worker'[client'][f], next # None
               PROVE  Whole(f, next)'
    BY DEF Complete, Whole, ItemOf, Of
  <1>1. ~Closing
    BY ClosingStays
  <1>2. ASSUME NEW h \in Handlers, HandlerStep(h) PROVE Whole(f, next)'
    BY <1>1, <1>2, WholeStep
  <1>3. CASE ~\E h \in Handlers : HandlerStep(h)
    <2>1. World /\ client' = client
      BY <1>3, WorldSteps DEF World
    <2>2. QED BY <1>1, <1>3, <2>1, WholeWorld
  <1>4. QED BY <1>2, <1>3

-----------------------------------------------------------------------------
(***************************************************************************)
(* The verdicts.                                                           *)
(***************************************************************************)
Fits(a, t) ==
  \/ /\ a.exit = IF ErrorSeverity \in Reported(t) THEN 1 ELSE 0
     /\ a.sevs = Reported(t)
  \/ a.exit \in {2, 124} /\ a.sevs \subseteq Reported(t)
  \/ a = Plain(409)

Right(h) == result[h] # None /\ request[h].op = "check" => Fits(result[h], request[h].text)

\* What is stored under a version is of the text that was sent as this version.
LEMMA ReceivedSent ==
  ASSUME TypeInv, Provenance, NEW f, NEW v, NEW t,
         v \in Versions => sent[f][v] \in {None, t}
  PROVE  Received(f, v) \subseteq Reported(t)
  <1> SUFFICES ASSUME NEW d \in diagnostics, d.uri = f, d.version = v
               PROVE  d.sev \in Reported(t)
    BY DEF Received, Under
  <1>1. v \in Versions /\ Authentic(d)
    BY ItemsTyped DEF Provenance
  <1>2. sent[f][v] = t /\ d.idx \in 1..Len(Items[t]) /\ d.sev = Items[t][d.idx] /\ t # None
    BY <1>1 DEF Authentic
  <1>3. t \in Texts
    BY <1>1, <1>2, ItemsTyped DEF TypeInv, TypeOK
  <1>4. d.idx \in DOMAIN Items[t]
    BY <1>2, <1>3, LspAssumption
  <1>5. QED BY <1>2, <1>4 DEF Reported

\* The version that an edit or a first send is about has not been sent.
LEMMA NextIsNew ==
  ASSUME TypeInv, Provenance, NEW f \in Files, NEW v, v = versions[f] + 1, v \in Versions
  PROVE  sent[f][v] = None
  BY DEF Provenance, SentOnce, TypeInv, TypeOK, Versions

LEMMA RaisedFits ==
  ASSUME TypeInv, Provenance, NEW h \in Handlers, NEW code \in {2, 124}, NEW cur,
         Raise(h, code, cur),
         \/ request[h].op # "check" \/ cur = None
         \/ cur.version \in Versions => sent[cur.uri][cur.version] \in {None, request[h].text}
  PROVE  Right(h)'
  <1>1. request' = request
    BY DEF Raise
  <1>2. CASE request[h].op # "check"
    BY <1>1, <1>2 DEF Right
  <1>3. CASE request[h].op = "check"
    <2>1. result'[h] = [exit |-> code, sevs |-> Incomplete(cur)]
      BY <1>3 DEF Raise, TypeInv, TypeOK
    <2>2. Incomplete(cur) \subseteq Reported(request[h].text)
      BY <1>3, ReceivedSent DEF Incomplete
    <2>3. QED BY <1>1, <2>1, <2>2 DEF Right, Fits
  <1>4. QED BY <1>2, <1>3

\* The handler that waited has everything, and nothing else.
LEMMA VerdictFits ==
  ASSUME TypeInv, Provenance, Recorded, Complete, NEW h \in Handlers, Asked(h), Acked(h), Verdict(h)
  PROVE  Received(current.uri, current.version) = Reported(request[h].text)
  <1> DEFINE f == current.uri
             v == current.version
             t == request[h].text
             w == worker[client][f]
  <1>1. pc[h] = "wait" /\ ask = "acked" /\ Under(flight, f, v) = {}
    BY DEF Verdict
  <1>2. /\ f \in Files /\ client \in Clients /\ t \in Texts /\ t # None /\ v \in Versions
        /\ documents[f] = [text |-> t, version |-> v] /\ documents[f] # None
    <2>1. f \in Files /\ t \in Texts /\ v \in Versions
      BY <1>1, Checking DEF HandlerData, InCheck
    <2>2. documents[f] = [text |-> t, version |-> v] /\ client # None
      BY <1>1 DEF Asked, InCheck
    <2>3. client \in Clients
      BY <2>2 DEF TypeInv, TypeOK
    <2>4. documents[f] # None /\ t # None
      BY <2>1, <2>2, LspAssumption
    <2>5. QED BY <2>1, <2>2, <2>3, <2>4
  <1>3. sent[f][v] \in {None, t}
    BY <1>2 DEF Recorded
  <1>4. w # None /\ w.version = v /\ w.done = Len(Items[w.text])
    BY <1>1 DEF Acked
  <1>5. w.text = t
    BY <1>2, <1>3, <1>4, WorkerTyped, LspAssumption DEF Provenance, Elaborated
  <1>6. Whole(f, w)
    BY <1>1, <1>2, <1>4, HolderBefore, LspAssumption DEF Complete
  <1>7. Received(f, v) \subseteq Reported(t)
    BY <1>3, ReceivedSent
  <1>8. ASSUME NEW i \in DOMAIN Items[t] PROVE Items[t][i] \in Received(f, v)
    <2> DEFINE x == ItemOf(f, w, i)
    <2>1. i \in 1..w.done
      BY <1>2, <1>4, <1>5, <1>8, LspAssumption
    <2>2. x \in diagnostics \cup flight
      BY <1>6, <2>1 DEF Whole
    <2>3. x.uri = f /\ x.version = v /\ x.sev = Items[t][i]
      BY <1>4, <1>5 DEF ItemOf
    <2>4. x \in Under(diagnostics, f, v)
      BY <1>1, <2>2, <2>3 DEF Under
    <2>5. QED BY <2>3, <2>4 DEF Received
  <1>9. QED BY <1>7, <1>8 DEF Reported

LEMMA RightStep ==
  ASSUME TypeInv, TypeInv', Provenance, Recorded, Complete, NEW h \in Handlers, HandlerStep(h),
         Asked(h), Acked(h), Right(h)
  PROVE  Right(h)'
  <1>1. request' = request
    BY Leads
  <1>2. CASE \/ CloseAbsent(h) \/ CloseDone(h) \/ Status(h) \/ Invalid(h) \/ Stop(h) \/ CloseOpen(h)
    <2>1. request[h].op # "check"
      BY <1>2 DEF CloseAbsent, CloseDone, Status, Invalid, Stop, CloseOpen, Asked
    <2>2. QED BY <1>1, <2>1 DEF Right
  <1>3. ASSUME result'[h] = result[h] PROVE Right(h)'
    BY <1>1, <1>3 DEF Right
  <1>4. CASE CloseAfterFailure(h)
    BY <1>3, <1>4 DEF CloseAfterFailure, Finish, TypeInv, TypeOK
  <1>5. CASE FilterRaises(h)
    <2>1. Raise(h, 2, current) /\ pc[h] \in FilterLabels
      BY <1>5 DEF FilterRaises
    <2>2. CASE pc[h] = "dropping"
      BY <2>1, <2>2, RaisedFits DEF Asked
    <2>3. CASE pc[h] = "evicting"
      <3>1. current.version \notin Versions
        BY <2>3 DEF Asked, InCheck, Versions
      <3>2. QED BY <2>1, <3>1, RaisedFits
    <2>4. CASE pc[h] = "editing"
      <3>1. /\ current.uri \in Files /\ current.version = versions[current.uri] + 1
        BY <2>4, Checking DEF HandlerData, InCheck, TypeInv, CheckData, DocVersion
      <3>2. QED BY <2>1, <3>1, NextIsNew, RaisedFits
    <2>5. QED BY <2>1, <2>2, <2>3, <2>4 DEF FilterLabels
  <1>6. CASE RefuseCheck(h)
    BY <1>6, RaisedFits DEF RefuseCheck
  <1>7. CASE InitFails(h)
    <2>1. current.version \notin Versions
      BY <1>7 DEF InitFails, Asked, InCheck, Versions
    <2>2. QED BY <1>7, <2>1, RaisedFits DEF InitFails
  <1>8. CASE Evict(h)
    <2>1. current.version \notin Versions
      BY <1>8 DEF Evict, Asked, InCheck, Versions
    <2>2. Raise(h, 2, current) \/ result' = result
      BY <1>8 DEF Evict, Goto
    <2>3. QED BY <1>3, <2>1, <2>2, RaisedFits
  <1>9. CASE BeginCheck(h) \/ InitClient(h) \/ Evicted(h) \/ Reuse(h) \/ StartEdit(h)
    <2>1. result' = result
      BY <1>9 DEF BeginCheck, InitClient, Evicted, Reuse, StartEdit, Goto, Wait
    <2>2. QED BY <1>3, <2>1
  <1>10. CASE Open(h) \/ Edit(h)
    <2> DEFINE f == current.uri
               v == versions[f] + 1
    <2>1. CASE SendFails(h, v)
      <3> DEFINE cur == [current EXCEPT !.version = v]
      <3>1. f \in Files /\ current \in [uri : Files, version : 0..MaxVersion]
        BY <1>10, Checking DEF Open, Edit, InCheck
      <3>2. cur.uri = f /\ cur.version = v /\ Raise(h, 2, cur)
        BY <2>1, <3>1 DEF SendFails
      <3> HIDE DEF cur
      <3>3. cur.version \in Versions => sent[cur.uri][cur.version] = None
        BY <3>1, <3>2, NextIsNew
      <3>4. QED BY <3>2, <3>3, RaisedFits
    <2>2. CASE ~SendFails(h, v)
      BY <1>3, <1>10, <2>2, SendEffect
    <2>3. QED BY <2>1, <2>2
  <1>11. CASE Verdict(h)
    <2> DEFINE sevs == Received(current.uri, current.version)
    <2>1. sevs = Reported(request[h].text)
      BY <1>11, VerdictFits
    <2>2. result'[h] = [exit |-> IF ErrorSeverity \in sevs THEN 1 ELSE 0, sevs |-> sevs]
      BY <1>11 DEF Verdict, Finish, TypeInv, TypeOK
    <2> HIDE DEF sevs
    <2>3. QED BY <1>1, <2>1, <2>2 DEF Right, Fits
  <1>12. CASE Timeout(h) \/ WaitFails(h)
    <2>1. /\ \E code \in {2, 124} : Raise(h, code, current)
          /\ pc[h] = "wait"
      BY <1>12 DEF Timeout, WaitFails
    <2>2. current.uri \in Files
          /\ documents[current.uri] = [text |-> request[h].text, version |-> current.version]
      BY <2>1, Checking DEF Asked, InCheck
    <2>3. documents[current.uri] # None
      BY <2>1, <2>2, Checking, LspAssumption DEF HandlerData, InCheck, TypeInv, TypeOK
    <2>4. sent[current.uri][current.version] \in {None, request[h].text}
      BY <2>2, <2>3 DEF Recorded
    <2>5. QED BY <2>1, <2>4, RaisedFits
  <1>13. QED
    BY <1>2, <1>4, <1>5, <1>6, <1>7, <1>8, <1>9, <1>10, <1>11, <1>12 DEF HandlerStep

LEMMA RightNext ==
  ASSUME TypeInv, TypeInv', TextInv, [Next]_vars, \A k \in Handlers : Right(k)
  PROVE  \A k \in Handlers : Right(k)'
  <1> SUFFICES ASSUME NEW k \in Handlers PROVE Right(k)'
    OBVIOUS
  <1>1. ASSUME result'[k] = result[k], request'[k] = request[k] PROVE Right(k)'
    BY <1>1 DEF Right
  <1>2. ASSUME NEW h \in Handlers, HandlerStep(h) PROVE Right(k)'
    <2>1. CASE k = h
      BY <1>2, <2>1, RightStep DEF TextInv
    <2>2. CASE k # h
      <3>1. request' = request /\ result'[k] = result[k]
        <4>1. \/ result' = result \/ \E a : result' = [result EXCEPT ![h] = a]
          BY <1>2 DEF HandlerStep, Status, Invalid, Stop, CloseAfterFailure, FilterRaises, CloseAbsent,
            CloseOpen, CloseDone, RefuseCheck, BeginCheck, InitClient, InitFails, Evict, Evicted,
            Open, Reuse, StartEdit, Edit, Verdict, Timeout, WaitFails, SendFails, Raise, Finish,
            Goto, Wait
        <4>2. QED BY <1>2, <2>2, <4>1, Leads DEF TypeInv, TypeOK
      <3>2. QED BY <1>1, <3>1
    <2>3. QED BY <2>1, <2>2
  <1>3. ASSUME NEW h \in Handlers, NEW r \in Request, Admit(h, r) PROVE Right(k)'
    <2>1. CASE k = h
      BY <1>3, <2>1 DEF Admit, Right, TypeInv, TypeOK
    <2>2. CASE k # h
      BY <1>1, <1>3, <2>2 DEF Admit, TypeInv, TypeOK
    <2>3. QED BY <2>1, <2>2
  <1>4. ASSUME NEW h \in Handlers, Refuse(h) PROVE Right(k)'
    <2>1. CASE k = h
      BY <1>4, <2>1 DEF Refuse, Right, Fits, TypeInv, TypeOK
    <2>2. CASE k # h
      BY <1>1, <1>4, <2>2 DEF Refuse, TypeInv, TypeOK
    <2>3. QED BY <2>1, <2>2
  <1>5. ASSUME UNCHANGED <<request, result>> PROVE Right(k)'
    BY <1>1, <1>5
  <1>6. QED
    BY <1>2, <1>3, <1>4, <1>5 DEF Next, Lean, Shutdown, OnDiagnostics, Publish, Acknowledge, Crash,
      vars, session

LEMMA TextInit == Init => TextInv /\ \A k \in Handlers : Right(k)
  <1> SUFFICES ASSUME Init PROVE TextInv /\ \A k \in Handlers : Right(k)
    OBVIOUS
  <1>1. Provenance
    BY DEF Init, Provenance, SentOnce, Elaborated, OneServer, NewServersAreEmpty
  <1>2. Recorded /\ Complete /\ \A k \in Handlers : Right(k)
    BY DEF Init, Recorded, Complete, Right
  <1>3. \A k \in Handlers : Asked(k) /\ Acked(k)
    BY DEF Init, Asked, Acked, InCheck
  <1>4. QED BY <1>1, <1>2, <1>3 DEF TextInv

LEMMA TextNext ==
  ASSUME TypeInv, TypeInv', TextInv, [Next]_vars
  PROVE  TextInv'
  <1>1. Provenance' /\ Recorded'
    BY ProvenanceNext, RecordedNext DEF TextInv
  <1>2. \A k \in Handlers : Asked(k)' /\ Acked(k)'
    BY AskedNext, AckedNext DEF TextInv
  <1>3. Complete'
    BY CompleteNext DEF TextInv
  <1>4. QED BY <1>1, <1>2, <1>3 DEF TextInv

\* The verdict of a check is about the text it was asked about: exit 0 or 1
\* with exactly the diagnostics Lean reports for that text, and an incomplete
\* check shows none of another text, whatever version numbers, evictions,
\* failed closes and late notifications lie in between (Checker.check).
THEOREM VerdictsAreRight == Spec => []VerdictIsForItsText
  <1> DEFINE Inv == TypeInv /\ TextInv /\ \A k \in Handlers : Right(k)
  <1>1. Init => Inv
    BY TypeInit, TextInit
  <1>2. Inv /\ [Next]_vars => Inv'
    BY TypeNext, TextNext, RightNext
  <1>3. Inv => VerdictIsForItsText
    BY DEF Right, Fits, VerdictIsForItsText
  <1>4. QED
    BY <1>1, <1>2, <1>3, PTL DEF Spec

-----------------------------------------------------------------------------
(***************************************************************************)
(* The server's copies and the document table.                             *)
(***************************************************************************)
LEMMA EditBaseNext ==
  ASSUME TypeInv, TypeInv', Provenance, EditBaseAgrees, [Next]_vars
  PROVE  EditBaseAgrees'
  <1> SUFFICES ASSUME client' # None, NEW f \in Files, NEW w, w = worker'[client'][f], w # None,
                      NEW d, d = documents'[f], d # None
               PROVE  w.text = d.text /\ w.version = d.version
    BY DEF EditBaseAgrees
  <1>1. ASSUME NEW o, o = worker[client][f], o # None, client # None,
               w.text = o.text, w.version = o.version, documents'[f] = documents[f]
        PROVE  w.text = d.text /\ w.version = d.version
    BY <1>1 DEF EditBaseAgrees
  <1>2. ASSUME NEW h \in Handlers, HandlerStep(h)
        PROVE  w.text = d.text /\ w.version = d.version
    <2>1. CASE (Open(h) \/ Edit(h)) /\ pc'[h] = "wait"
      <3> DEFINE g == current.uri
                 v == versions[g] + 1
                 t == request[h].text
      <3>1. g \in Files /\ Record(g, t, v)
        BY <2>1, SentNow
      <3>2. ~SendFails(h, v)
        BY <2>1 DEF SendFails, Raise, TypeInv, TypeOK
      <3>3. /\ Loads(g, t, v) \/ (worker[client][g] = None /\ UNCHANGED <<worker, sent>>)
            /\ client' = client /\ client # None /\ client \in Clients
        BY <2>1, <3>2, SendEffect DEF Deliverable, TypeInv, TypeOK
      <3>4. CASE g = f
        <4>1. Load(g, t, v)
          BY <3>3, <3>4 DEF Loads
        <4>2. w = [text |-> t, version |-> v, done |-> 0]
          BY <3>3, <3>4, <4>1, WorkerAt
        <4>3. d = [text |-> t, version |-> v]
          BY <3>1, <3>4 DEF Record, TypeInv, TypeOK
        <4>4. QED BY <4>2, <4>3
      <3>5. CASE g # f
        <4>1. documents'[f] = documents[f]
          BY <3>1, <3>5 DEF Record, TypeInv, TypeOK
        <4>2. CASE Load(g, t, v)
          <5> HIDE DEF g, t, v
          <5>1. worker'[client][f] = worker[client][f]
            BY <3>1, <3>3, <3>5, <4>2, WorkerAt
          <5>2. QED BY <1>1, <3>3, <4>1, <5>1
        <4>3. CASE worker' = worker
          BY <1>1, <3>3, <4>1, <4>3
        <4>4. QED BY <3>3, <4>2, <4>3 DEF Loads
      <3>6. QED BY <3>4, <3>5
    <2>2. CASE ~((Open(h) \/ Edit(h)) /\ pc'[h] = "wait")
      <3>1. ~\E k \in Handlers : (Open(k) \/ Edit(k)) /\ pc'[k] = "wait"
        <4> SUFFICES ASSUME NEW k \in Handlers, Open(k) \/ Edit(k) PROVE k = h
          BY <2>2
        <4>1. pc[k] # "idle" /\ pc[h] # "idle"
          BY <1>2, Leads DEF HandlerStep
        <4>2. QED BY <4>1, OthersIdle
      <3>2. documents'[f] = documents[f]
        BY <3>1, DocsNext DEF DocsForgotten
      <3>3. worker'[client'][f] = worker[client'][f]
        <4>1. Forgets
          <5>1. CASE Open(h) \/ Edit(h)
            <6>1. pc' # [pc EXCEPT ![h] = "wait"]
              BY <2>2, <5>1 DEF TypeInv, TypeOK
            <6>2. QED BY <5>1, <6>1, SendEffect
          <5>2. CASE ~(Open(h) \/ Edit(h))
            BY <1>2, <5>2, EndingForgets, ClosingForgets, ClosedForgets, MiddleForgets DEF HandlerStep
          <5>3. QED BY <5>1, <5>2
        <4>2. QED BY <4>1 DEF Forgets, TypeInv, TypeOK
      <3>4. client' = client
        <4>1. CASE BeginCheck(h) /\ client' # client
          <5>1. client' \in Clients /\ process[client'] = "unused"
            BY <4>1 DEF BeginCheck
          <5>2. QED BY <3>3, <5>1 DEF Provenance, NewServersAreEmpty
        <4>2. CASE ~(BeginCheck(h) /\ client' # client)
          BY <1>2, <4>2, ClosingForgets DEF HandlerStep, Status, Invalid, FilterRaises, CloseAbsent,
            CloseOpen, CloseDone, RefuseCheck, InitClient, InitFails, Evict, Evicted, Open, Reuse,
            StartEdit, Edit, Verdict, Timeout, WaitFails
        <4>3. QED BY <4>1, <4>2
      <3>5. QED BY <1>1, <3>2, <3>3, <3>4
    <2>3. QED BY <2>1, <2>2
  <1>3. CASE World
    <2>1. client' = client /\ documents' = documents
      BY <1>3 DEF World
    <2>2. CASE \E c \in Clients, g \in Files : Publish(c, g)
      <3>1. PICK c \in Clients, g \in Files : Publish(c, g)
        BY <2>2
      <3>2. client \in Clients
        BY <2>1 DEF TypeInv, TypeOK
      <3>3. CASE c = client /\ g = f
        <4> DEFINE o == worker[c][g]
        <4>1. o # None /\ o \in Worker /\ w = [o EXCEPT !.done = o.done + 1]
          BY <2>1, <3>1, <3>3, Published
        <4>2. w.text = o.text /\ w.version = o.version
          BY <4>1 DEF Worker
        <4>3. QED BY <1>1, <2>1, <3>3, <4>1, <4>2
      <3>4. CASE c # client \/ g # f
        <4>1. w = worker[client][f]
          <5>1. \A e \in Clients, b \in Files : e # c \/ b # g => worker'[e][b] = worker[e][b]
            BY <3>1, Published
          <5>2. QED BY <2>1, <3>2, <3>4, <5>1
        <4>2. QED BY <1>1, <2>1, <4>1
      <3>5. QED BY <3>3, <3>4
    <2>3. CASE ~\E c \in Clients, g \in Files : Publish(c, g)
      <3>1. CASE \E h \in Handlers : HandlerStep(h)
        BY <1>2, <3>1
      <3>2. CASE ~\E h \in Handlers : HandlerStep(h)
        <4>1. worker' = worker
          BY <2>3, <3>2 DEF Next, Lean, Admit, Refuse, Shutdown, OnDiagnostics, Acknowledge, Crash,
            vars, server
        <4>2. QED BY <1>1, <2>1, <4>1
      <3>3. QED BY <3>1, <3>2
    <2>4. QED BY <2>2, <2>3
  <1>4. QED BY <1>2, <1>3, WorldSteps

\* What the server has open for a file is the text and the version that
\* documents records, so the diff an edit sends applies to what the server
\* has, also when a failed close left a table older than the client.
THEOREM EditsApply == Spec => []EditBaseAgrees
  <1> DEFINE Inv == TypeInv /\ Provenance /\ EditBaseAgrees
  <1>1. Init => Inv
    <2>1. Init => EditBaseAgrees
      BY DEF Init, EditBaseAgrees
    <2>2. QED BY <2>1, TypeInit, TextInit DEF TextInv
  <1>2. Inv /\ [Next]_vars => Inv'
    BY TypeNext, ProvenanceNext, EditBaseNext
  <1>3. QED
    BY <1>1, <1>2, PTL DEF Spec

\* A handler step changes the Lean servers in one of these ways.
LEMMA ServersNext ==
  ASSUME TypeInv, NoLostServer, [Next]_vars
  PROVE  NoLostServer'
  <1> USE DEF NoLostServer
  <1>1. ASSUME NEW h \in Handlers, BeginCheck(h), client' # client PROVE NoLostServer'
    <2>1. PICK c \in Clients : client = None /\ process' = [process EXCEPT ![c] = "fresh"]
      BY <1>1 DEF BeginCheck
    <2>2. QED BY <2>1, LspAssumption DEF TypeInv, TypeOK
  <1>2. ASSUME client' = client, process' = [process EXCEPT ![client] = "alive"] PROVE NoLostServer'
    BY <1>2 DEF TypeInv, TypeOK
  <1>3. ASSUME NEW raised \in BOOLEAN, Close(raised) PROVE NoLostServer'
    <2>1. CASE client = None
      BY <1>3, <2>1, LspAssumption DEF Close
    <2>2. CASE client # None
      <3>1. PICK after \in {"dead", "leaked"} : process' = [process EXCEPT ![client] = after]
        BY <1>3, <2>2 DEF Close
      <3>2. QED BY <3>1 DEF TypeInv, TypeOK
    <2>3. QED BY <2>1, <2>2
  <1>4. ASSUME client' = client, process' = process PROVE NoLostServer'
    BY <1>4
  <1>5. ASSUME NEW c \in Clients, Crash(c) PROVE NoLostServer'
    BY <1>5 DEF Crash, TypeInv, TypeOK
  <1>6. ASSUME NEW h \in Handlers, HandlerStep(h) PROVE NoLostServer'
    <2>1. CASE InitClient(h) \/ InitFails(h)
      BY <1>2, <1>4, <2>1 DEF InitClient, InitFails
    <2>2. CASE Stop(h) \/ CloseAfterFailure(h)
      BY <1>3, <2>2 DEF Stop, CloseAfterFailure
    <2>3. CASE BeginCheck(h)
      BY <1>1, <1>4, <2>3, LspAssumption DEF BeginCheck
    <2>4. CASE ~(InitClient(h) \/ InitFails(h) \/ Stop(h) \/ CloseAfterFailure(h) \/ BeginCheck(h))
      BY <1>4, <1>6, <2>4 DEF HandlerStep, Status, Invalid, FilterRaises, CloseAbsent, CloseOpen,
        CloseDone, RefuseCheck, Evict, Evicted, Open, Reuse, StartEdit, Edit, Verdict, Timeout,
        WaitFails, server
    <2>5. QED BY <2>1, <2>2, <2>3, <2>4
  <1>7. QED
    BY <1>4, <1>5, <1>6 DEF Next, Lean, Admit, Refuse, Shutdown, OnDiagnostics, Publish, Acknowledge,
      vars, server

\* A running Lean server is the current client's: a timed-out or failed
\* initialization, request or close loses none (but one that the library
\* itself failed to close).
THEOREM NoServerIsLost == Spec => []NoLostServer
  <1> DEFINE Inv == TypeInv /\ NoLostServer
  <1>1. Init => Inv
    <2>1. Init => NoLostServer
      BY DEF Init, NoLostServer
    <2>2. QED BY <2>1, TypeInit
  <1>2. Inv /\ [Next]_vars => Inv'
    BY TypeNext, ServersNext
  <1>3. QED
    BY <1>1, <1>2, PTL DEF Spec

-----------------------------------------------------------------------------
(***************************************************************************)
(* The limit on open files, seen from the server.                          *)
(***************************************************************************)
ServerFiles(c) == {f \in Files : worker[c][f] # None}

LEMMA ListedNext ==
  ASSUME TypeInv, TypeInv', Provenance, Listed, \A k \in Handlers : Asked(k), [Next]_vars
  PROVE  Listed'
  <1> SUFFICES ASSUME client' # None, ~Closing', NEW f \in Files, worker'[client'][f] # None
               PROVE  documents'[f] # None
    BY DEF Listed
  <1>1. ~Closing
    BY ClosingStays
  <1>2. ASSUME client # None, client' = client, worker'[client][f] \in {None, worker[client][f]},
               documents'[f] = documents[f]
        PROVE  documents'[f] # None
    BY <1>1, <1>2 DEF Listed
  <1>3. ASSUME NEW h \in Handlers, HandlerStep(h) PROVE documents'[f] # None
    <2>1. PICK l \in Labels : pc' = [pc EXCEPT ![h] = l]
      BY <1>3, Leads
    <2>2. l # "closing"
      BY <1>3, <2>1, Leads, HolderAfter
    <2>3. ~\E code, cur : Raise(h, code, cur)
      BY <2>1, <2>2 DEF Raise, TypeInv, TypeOK
    <2>4. ~(Stop(h) \/ CloseAfterFailure(h))
      BY ClosingForgets
    <2>5. CASE BeginCheck(h) /\ client = None
      <3>1. worker' = worker /\ client' \in Clients /\ process[client'] = "unused"
        BY <2>5 DEF BeginCheck
      <3>2. QED BY <3>1 DEF Provenance, NewServersAreEmpty
    <2>6. CASE CloseOpen(h) \/ Evict(h)
      <3>1. PICK g : /\ Deliverable /\ CloseWorker(g) /\ client' = client
                     /\ documents' = [documents EXCEPT ![g] = None]
        BY <2>3, <2>6 DEF CloseOpen, Evict
      <3>2. client \in Clients /\ client # None
        BY <3>1 DEF Deliverable, TypeInv, TypeOK
      <3>3. worker'[client][f] = worker[client][f] /\ g # f
        BY <3>1, <3>2, WorkerGone
      <3>4. documents'[f] = documents[f]
        BY <3>1, <3>3 DEF TypeInv, TypeOK
      <3>5. QED BY <1>2, <3>1, <3>2, <3>3, <3>4
    <2>7. CASE Open(h) \/ Edit(h)
      <3> DEFINE g == current.uri
                 v == versions[g] + 1
                 t == request[h].text
      <3>1. ~SendFails(h, v)
        BY <2>3 DEF SendFails
      <3>2. /\ Loads(g, t, v) \/ (UNCHANGED <<worker, sent>>)
            /\ Record(g, t, v) /\ client' = client /\ Deliverable /\ pc' = [pc EXCEPT ![h] = "wait"]
        BY <2>7, <3>1, SendEffect
      <3>3. g \in Files /\ documents' = [documents EXCEPT ![g] = [text |-> t, version |-> v]]
        BY <2>7, <3>2, Checking DEF Record, Open, Edit, InCheck
      <3>4. CASE g = f
        <4>1. v \in Versions /\ t \in Texts
          <5>1. pc'[h] = "wait"
            BY <3>2 DEF TypeInv, TypeOK
          <5>2. QED BY <2>7, <5>1, SentNow, Checking DEF Open, Edit, InCheck
        <4> HIDE DEF v, t
        <4>2. documents'[f] = [text |-> t, version |-> v]
          BY <3>3, <3>4 DEF TypeInv, TypeOK
        <4>3. QED BY <4>1, <4>2, LspAssumption
      <3>5. CASE g # f
        <4>1. documents'[f] = documents[f]
          BY <3>3, <3>5 DEF TypeInv, TypeOK
        <4>2. worker'[client][f] = worker[client][f]
          <5>1. CASE Loads(g, t, v)
            <6>1. client \in Clients /\ Load(g, t, v)
              BY <5>1 DEF Loads
            <6> HIDE DEF g, t, v
            <6>2. QED BY <6>1, <3>3, <3>5, WorkerAt
          <5>2. QED BY <3>2, <5>1
        <4>3. QED BY <1>2, <3>2, <4>1, <4>2 DEF Deliverable
      <3>6. QED BY <3>4, <3>5
    <2>8. CASE ~(CloseOpen(h) \/ Evict(h) \/ Open(h) \/ Edit(h)) /\ ~(BeginCheck(h) /\ client = None)
      <3>1. worker' = worker /\ client' = client
        BY <1>3, <2>4, <2>8 DEF HandlerStep, Status, Invalid, FilterRaises, CloseAbsent, CloseDone,
          RefuseCheck, BeginCheck, InitClient, InitFails, Evicted, Reuse, StartEdit, Verdict,
          Timeout, WaitFails, server
      <3>2. documents' = documents
        BY <1>3, <2>4, <2>8, ReuseRecords DEF HandlerStep, Status, Invalid, FilterRaises,
          CloseAbsent, CloseDone, RefuseCheck, BeginCheck, InitClient, InitFails, Evicted, StartEdit,
          Verdict, Timeout, WaitFails, tables
      <3>3. QED BY <1>2, <3>1, <3>2
    <2>9. QED BY <2>5, <2>6, <2>7, <2>8
  <1>4. CASE ~\E h \in Handlers : HandlerStep(h)
    <2>1. World
      BY <1>4, WorldSteps
    <2>2. client' = client /\ documents' = documents /\ client \in Clients
      BY <2>1 DEF World, TypeInv, TypeOK
    <2>3. CASE \E c \in Clients, g \in Files : Publish(c, g)
      <3>1. PICK c \in Clients, g \in Files : Publish(c, g)
        BY <2>3
      <3>2. /\ worker[c][g] # None
            /\ \A e \in Clients, b \in Files : e # c \/ b # g => worker'[e][b] = worker[e][b]
        BY <3>1, Published
      <3>3. worker[client][f] # None
        BY <2>2, <3>2
      <3>4. QED BY <1>1, <2>2, <3>3 DEF Listed
    <2>4. CASE ~\E c \in Clients, g \in Files : Publish(c, g)
      <3>1. worker' = worker
        BY <1>4, <2>4 DEF Next, Lean, Admit, Refuse, Shutdown, OnDiagnostics, Acknowledge, Crash,
          vars, server
      <3>2. QED BY <1>2, <2>2, <3>1
    <2>5. QED BY <2>3, <2>4
  <1>5. QED BY <1>3, <1>4

\* The files of the table are as many as its order is long, at most.
LEMMA ListedAreFew == TypeInv /\ Listed /\ ~Closing => BoundedWorkers
  <1> SUFFICES ASSUME TypeInv, Listed, ~Closing, client # None
               PROVE  Cardinality(ServerFiles(client)) <= MaxOpenFiles
    BY DEF BoundedWorkers, ServerFiles
  <1> DEFINE D == {f \in Files : documents[f] # None}
             n == Len(order)
  <1>1. /\ order \in Seq(Files) /\ n \in Nat /\ n <= MaxOpenFiles /\ MaxOpenFiles \in Nat
        /\ \A f \in Files : documents[f] # None <=> \E i \in 1..n : order[i] = f
    BY LspAssumption DEF TypeInv, TypeOK, OrderOK
  <1>2. ServerFiles(client) \subseteq D
    BY DEF ServerFiles, Listed
  <1>3. order \in Surjection(1..n, D)
    <2>1. \A i \in 1..n : order[i] \in D
      BY <1>1
    <2>2. order \in [1..n -> D]
      BY <1>1, <2>1
    <2>3. QED BY <1>1, <2>2 DEF Surjection
  <1>4. IsFiniteSet(D) /\ Cardinality(D) <= n
    <2>1. ExistsSurjection(1..n, D)
      BY <1>3 DEF ExistsSurjection
    <2> HIDE DEF D, n
    <2>2. Cardinality(D) <= n
      BY <1>1, <2>1, FS_SurjCardinalityBound
    <2>3. IsFiniteSet(D)
      BY LspAssumption, FS_Subset DEF D
    <2>4. QED BY <2>2, <2>3
  <1>5. Cardinality(ServerFiles(client)) <= Cardinality(D)
    BY <1>2, <1>4, FS_Subset
  <1>6. Cardinality(D) \in Nat /\ Cardinality(ServerFiles(client)) \in Nat
    BY <1>2, <1>4, FS_Subset, FS_CardinalityType
  <1> HIDE DEF D, n
  <1>7. QED BY <1>1, <1>4, <1>5, <1>6

LEMMA BoundedNext ==
  ASSUME TypeInv, TypeInv', Provenance, Listed, Listed', \A k \in Handlers : Asked(k),
         BoundedWorkers, [Next]_vars
  PROVE  BoundedWorkers'
  <1>1. CASE ~Closing'
    BY <1>1, ListedAreFew, PTL
  <1>2. CASE Closing' /\ client' # None
    <2>1. client' = client /\ \A f \in Files : worker'[client][f] # None => worker[client][f] # None
      <3>1. ASSUME NEW h \in Handlers, HandlerStep(h)
            PROVE  client' = client /\ worker' = worker
        <4>1. PICK l \in Labels : pc' = [pc EXCEPT ![h] = l]
          BY <3>1, Leads
        <4>2. pc'[h] = "closing" /\ pc[h] # "idle"
          BY <1>2, <3>1, <4>1, Leads, HolderAfter, HandlerOthersIdle
        <4>3. ~(Stop(h) \/ CloseAfterFailure(h))
          BY <1>2, ClosingForgets
        <4>4. \A k \in Labels \ {"closing"} : pc' # [pc EXCEPT ![h] = k]
          BY <4>2 DEF TypeInv, TypeOK
        <4>5. QED
          BY <3>1, <4>3, <4>4 DEF HandlerStep, Status, Invalid, FilterRaises, CloseAbsent, CloseOpen,
            CloseDone, RefuseCheck, BeginCheck, InitClient, InitFails, Evict, Evicted, Open, Reuse,
            StartEdit, Edit, Verdict, Timeout, WaitFails, SendFails, Wait, Goto, Finish, Labels,
            FilterLabels, server
      <3>2. CASE ~\E h \in Handlers : HandlerStep(h)
        <4>1. client' = client /\ client \in Clients
          BY <1>2, <3>2, WorldSteps DEF World, TypeInv, TypeOK
        <4>2. ASSUME NEW c \in Clients, NEW g \in Files, Publish(c, g), NEW f \in Files,
                     worker'[client][f] # None
              PROVE  worker[client][f] # None
          <5>1. /\ worker[c][g] # None
                /\ \A e \in Clients, b \in Files : e # c \/ b # g => worker'[e][b] = worker[e][b]
            BY <4>2, Published
          <5>2. QED BY <4>1, <4>2, <5>1
        <4>3. worker' = worker \/ \E c \in Clients, g \in Files : Publish(c, g)
          BY <3>2 DEF Next, Lean, Admit, Refuse, Shutdown, OnDiagnostics, Acknowledge, Crash, vars, server
        <4>4. QED BY <4>1, <4>2, <4>3
      <3>3. QED BY <3>1, <3>2
    <2> DEFINE before == ServerFiles(client)
               after  == {f \in Files : worker'[client][f] # None}
    <2>2. after \subseteq before /\ before \subseteq Files
      BY <2>1 DEF ServerFiles
    <2>3. Cardinality(before) <= MaxOpenFiles
      BY <1>2, <2>1 DEF BoundedWorkers, ServerFiles
    <2> HIDE DEF before, after
    <2>4. IsFiniteSet(before) /\ IsFiniteSet(after) /\ Cardinality(after) <= Cardinality(before)
      BY <2>2, LspAssumption, FS_Subset
    <2>5. Cardinality(before) \in Nat /\ Cardinality(after) \in Nat /\ MaxOpenFiles \in Nat
      BY <2>4, FS_CardinalityType, LspAssumption
    <2>6. Cardinality(after) <= MaxOpenFiles
      BY <2>3, <2>4, <2>5
    <2>7. QED BY <2>1, <2>6 DEF BoundedWorkers, after
  <1>3. QED BY <1>1, <1>2 DEF BoundedWorkers

\* The current Lean server never has more files open than --max-open-files:
\* evictions close before the next open, and a server that missed a close is
\* replaced before it can be sent another file.
THEOREM OpenFilesBounded == Spec => []BoundedWorkers
  <1> DEFINE Inv == TypeInv /\ TextInv /\ Listed /\ BoundedWorkers
  <1>1. Init => Inv
    <2>1. Init => Listed /\ BoundedWorkers
      BY DEF Init, Listed, BoundedWorkers
    <2>2. QED BY <2>1, TypeInit, TextInit
  <1>2. Inv /\ [Next]_vars => Inv'
    <2> SUFFICES ASSUME Inv, [Next]_vars PROVE Inv'
      OBVIOUS
    <2>1. TypeInv'
      BY TypeNext
    <2>2. TextInv'
      BY <2>1, TextNext
    <2>3. Listed'
      BY <2>1, ListedNext DEF TextInv
    <2>4. BoundedWorkers'
      BY <2>1, <2>3, BoundedNext DEF TextInv
    <2>5. QED BY <2>1, <2>2, <2>3, <2>4
  <1>3. QED
    BY <1>1, <1>2, PTL DEF Spec

-----------------------------------------------------------------------------
(***************************************************************************)
(* The checker implements the service.  A handler that is closing already  *)
(* has an answer the service allows, and the lock is held by a handler     *)
(* that is inside the checker.                                             *)
(***************************************************************************)
HolderInside == lock # None => pc[lock] # "idle"
Answered(h) == pc[h] = "closing" => result[h] \in Service!Allowed(request[h])

LEMMA NoneIsNoAnswer == None \notin Answer
  BY LspAssumption DEF Answer

LEMMA FitsAllowed ==
  ASSUME NEW a \in Answer, NEW r, r.op = "check", Fits(a, r.text), a.exit # 409
  PROVE  a \in Service!Allowed(r)
  <1>1. a = [exit |-> a.exit, sevs |-> a.sevs]
    BY DEF Answer
  <1>2. Service!Reported(r.text) = Reported(r.text)
    BY DEF Service!Reported, Reported
  <1>3. a # Plain(409)
    BY DEF Plain
  <1>4. a \in Service!Truthful(r.text)
    BY <1>1, <1>2, <1>3 DEF Fits, Service!Truthful, Service!Reply, Service!Error, ErrorSeverity
  <1>5. QED
    BY <1>4 DEF Service!Allowed

LEMMA PlainAllowed ==
  ASSUME NEW r, r.op # "check"
  PROVE  [exit |-> 0, sevs |-> {}] \in Service!Allowed(r)
         /\ [exit |-> 2, sevs |-> {}] \in Service!Allowed(r)
  BY DEF Service!Allowed, Service!Reply

LEMMA AnsweredStep ==
  ASSUME TypeInv, TypeInv', NEW h \in Handlers, HandlerStep(h), Asked(h), Answered(h), Right(h)',
         pc'[h] \in {"idle", "closing"}
  PROVE  result'[h] \in Service!Allowed(request[h])
  <1>1. request' = request
    BY Leads
  <1>2. ASSUME request[h].op = "check", NEW a \in {0, 1, 2, 124}, result'[h].exit = a, result'[h] # None
        PROVE  result'[h] \in Service!Allowed(request[h])
    <2>1. result'[h] \in Answer
      BY <1>2 DEF TypeInv, TypeOK
    <2>2. QED BY <1>1, <1>2, <2>1, FitsAllowed DEF Right
  <1>3. ASSUME request[h].op = "check", NEW code \in {2, 124}, NEW cur, Raise(h, code, cur)
        PROVE  result'[h] \in Service!Allowed(request[h])
    <2>1. result'[h] = [exit |-> code, sevs |-> Incomplete(cur)]
      BY <1>3 DEF Raise, TypeInv, TypeOK
    <2>2. result'[h] # None
      <3>1. Incomplete(cur) \in SUBSET Severities
        BY ReceivedType DEF Incomplete, TypeInv
      <3>2. QED BY <2>1, <3>1, NoneIsNoAnswer DEF Answer
    <2>3. QED BY <1>2, <1>3, <2>1, <2>2
  <1>4. ASSUME request[h].op # "check", NEW cur, Raise(h, 2, cur)
        PROVE  result'[h] \in Service!Allowed(request[h])
    <2>1. result'[h] = [exit |-> 2, sevs |-> {}]
      BY <1>4 DEF Raise, TypeInv, TypeOK
    <2>2. QED BY <1>4, <2>1, PlainAllowed
  <1>5. ASSUME request[h].op # "check", Finish(h, Plain(0))
        PROVE  result'[h] \in Service!Allowed(request[h])
    BY <1>5, PlainAllowed DEF Finish, Plain, TypeInv, TypeOK
  <1>6. pc[h] \in InCheck => request[h].op = "check"
    BY DEF TypeInv, CheckData, HandlerData, CheckRequest
  <1>7. ASSUME NEW l, pc' = [pc EXCEPT ![h] = l] PROVE l \in {"idle", "closing"}
    BY <1>7 DEF TypeInv, TypeOK
  <1>8. CASE Status(h) \/ Stop(h) \/ CloseAbsent(h) \/ CloseDone(h)
    BY <1>4, <1>5, <1>8 DEF Status, Stop, CloseAbsent, CloseDone, Asked
  <1>9. CASE CloseOpen(h) \/ Invalid(h)
    BY <1>4, <1>7, <1>9 DEF CloseOpen, Invalid, Goto
  <1>10. CASE CloseAfterFailure(h)
    BY <1>10 DEF CloseAfterFailure, Finish, Answered, TypeInv, TypeOK
  <1>11. CASE FilterRaises(h)
    <2>1. CASE pc[h] = "dropping"
      BY <1>4, <1>11, <2>1 DEF FilterRaises, Asked
    <2>2. CASE pc[h] # "dropping"
      BY <1>3, <1>6, <1>11, <2>2 DEF FilterRaises, FilterLabels, InCheck
    <2>3. QED BY <2>1, <2>2
  <1>12. CASE RefuseCheck(h)
    BY <1>3, <1>12 DEF RefuseCheck
  <1>13. CASE InitFails(h) \/ Timeout(h) \/ WaitFails(h)
    BY <1>3, <1>6, <1>13 DEF InitFails, Timeout, WaitFails, InCheck
  <1>14. CASE Evict(h)
    BY <1>3, <1>6, <1>7, <1>14 DEF Evict, Goto, InCheck
  <1>15. CASE Open(h) \/ Edit(h)
    BY <1>3, <1>6, <1>7, <1>15 DEF Open, Edit, SendFails, Wait, Goto, InCheck
  <1>16. CASE Verdict(h)
    <2>1. \E a \in {0, 1} : \E s : result'[h] = [exit |-> a, sevs |-> s]
      BY <1>16 DEF Verdict, Finish, TypeInv, TypeOK
    <2>2. result'[h] # None
      <3>1. Received(current.uri, current.version) \in SUBSET Severities
        BY ReceivedType DEF TypeInv
      <3>2. result'[h] = [exit |-> IF ErrorSeverity \in Received(current.uri, current.version)
                                   THEN 1 ELSE 0,
                          sevs |-> Received(current.uri, current.version)]
        BY <1>16 DEF Verdict, Finish, TypeInv, TypeOK
      <3>3. QED BY <3>1, <3>2, NoneIsNoAnswer DEF Answer
    <2>3. QED BY <1>2, <1>6, <1>16, <2>1, <2>2 DEF Verdict, InCheck
  <1>17. CASE BeginCheck(h) \/ InitClient(h) \/ Evicted(h) \/ Reuse(h) \/ StartEdit(h)
    <2>1. \E l \in {"init", "place", "open", "wait", "editing"} : pc' = [pc EXCEPT ![h] = l]
      BY <1>17 DEF BeginCheck, InitClient, Evicted, Reuse, StartEdit, Goto, Wait
    <2>2. QED BY <1>7, <2>1
  <1>18. QED
    BY <1>8, <1>9, <1>10, <1>11, <1>12, <1>13, <1>14, <1>15, <1>16, <1>17 DEF HandlerStep

\* What the service sees of a state.
Told == [h \in Handlers |-> IF lock = h THEN None ELSE result[h]]

LEMMA HolderInsideNext ==
  ASSUME TypeInv, TypeInv', HolderInside, [Next]_vars
  PROVE  HolderInside'
  <1>1. ASSUME NEW h \in Handlers, HandlerStep(h) PROVE HolderInside'
    <2>1. lock' \in {None, lock} /\ lock = h
      BY <1>1, Leads, OthersIdle DEF HandlerStep, Status, Invalid, Stop, CloseAfterFailure,
        FilterRaises, CloseAbsent, CloseOpen, CloseDone, RefuseCheck, BeginCheck, InitClient,
        InitFails, Evict, Evicted, Open, Reuse, StartEdit, Edit, Verdict, Timeout, WaitFails,
        SendFails, Raise, Finish, Goto, Wait
    <2>2. lock' = None \/ \E l \in Labels \ {"idle"} : pc' = [pc EXCEPT ![h] = l]
      BY <1>1, <2>1, LspAssumption DEF HandlerStep, Status, Invalid, Stop, CloseAfterFailure,
        FilterRaises, CloseAbsent, CloseOpen, CloseDone, RefuseCheck, BeginCheck, InitClient,
        InitFails, Evict, Evicted, Open, Reuse, StartEdit, Edit, Verdict, Timeout, WaitFails,
        SendFails, Raise, Finish, Goto, Wait, Labels, FilterLabels
    <2>3. QED BY <2>1, <2>2 DEF HolderInside, TypeInv, TypeOK
  <1>2. ASSUME NEW h \in Handlers, NEW r \in Request, Admit(h, r) PROVE HolderInside'
    BY <1>2 DEF Admit, HolderInside, TypeInv, TypeOK
  <1>3. ASSUME UNCHANGED <<lock, pc>> PROVE HolderInside'
    BY <1>3 DEF HolderInside
  <1>4. QED
    BY <1>1, <1>2, <1>3 DEF Next, Lean, Refuse, Shutdown, OnDiagnostics, Publish, Acknowledge, Crash,
      vars, session

LEMMA AnsweredNext ==
  ASSUME TypeInv, TypeInv', [Next]_vars, \A k \in Handlers : Right(k)' /\ Asked(k),
         NEW k \in Handlers, Answered(k)
  PROVE  Answered(k)'
  <1>1. ASSUME NEW h \in Handlers, HandlerStep(h) PROVE Answered(k)'
    <2>1. CASE k = h
      BY <1>1, <2>1, AnsweredStep, Leads DEF Answered
    <2>2. CASE k # h
      BY <1>1, <2>2, Leads, HandlerOthersIdle DEF Answered
    <2>3. QED BY <2>1, <2>2
  <1>2. ASSUME NEW h \in Handlers, NEW r \in Request, Admit(h, r) PROVE Answered(k)'
    <2>1. pc'[k] # "closing"
      BY <1>2, LspAssumption DEF Admit, TypeInv, TypeOK, Serialized
    <2>2. QED BY <2>1 DEF Answered
  <1>3. ASSUME NEW h \in Handlers, Refuse(h) PROVE Answered(k)'
    BY <1>3 DEF Refuse, Answered, TypeInv, TypeOK
  <1>4. ASSUME UNCHANGED session PROVE Answered(k)'
    BY <1>4 DEF Answered, session
  <1>5. QED
    BY <1>1, <1>2, <1>3, <1>4 DEF Next, Lean, Shutdown, OnDiagnostics, Publish, Acknowledge, Crash,
      vars, session, Answered

\* A step of a handler is an answer of the service, or invisible to it.
LEMMA ServiceStep ==
  ASSUME TypeInv, TypeInv', NEW h \in Handlers, HandlerStep(h), Asked(h), Answered(h), Right(h)'
  PROVE  Service!Respond(h) \/ UNCHANGED <<lock, request, Told>>
  <1>1. lock = h /\ h # None /\ request' = request
    BY Leads, OthersIdle, LspAssumption
  <1>2. PICK a : result' = [result EXCEPT ![h] = a]
    <2>1. result' = result \/ \E a : result' = [result EXCEPT ![h] = a]
      BY DEF HandlerStep, Status, Invalid, Stop, CloseAfterFailure, FilterRaises, CloseAbsent,
        CloseOpen, CloseDone, RefuseCheck, BeginCheck, InitClient, InitFails, Evict, Evicted, Open,
        Reuse, StartEdit, Edit, Verdict, Timeout, WaitFails, SendFails, Raise, Finish, Goto, Wait
    <2>2. result = [result EXCEPT ![h] = result[h]]
      BY DEF TypeInv, TypeOK
    <2>3. QED BY <2>1, <2>2
  <1>3. lock' = lock \/ (lock' = None /\ pc'[h] = "idle")
    <2>1. lock' = lock \/ (lock' = None /\ pc' = [pc EXCEPT ![h] = "idle"])
      BY DEF HandlerStep, Status, Invalid, Stop, CloseAfterFailure, FilterRaises, CloseAbsent,
        CloseOpen, CloseDone, RefuseCheck, BeginCheck, InitClient, InitFails, Evict, Evicted, Open,
        Reuse, StartEdit, Edit, Verdict, Timeout, WaitFails, SendFails, Raise, Finish, Goto, Wait
    <2>2. QED BY <2>1 DEF TypeInv, TypeOK
  <1>4. \A k \in Handlers : k # h => result'[k] = result[k]
    BY <1>2 DEF TypeInv, TypeOK
  <1>5. CASE lock' = lock
    <2>1. Told' = Told
      BY <1>1, <1>4, <1>5 DEF Told
    <2>2. QED BY <1>1, <1>5, <2>1
  <1>6. CASE lock' = None /\ pc'[h] = "idle"
    <2>1. result'[h] \in Service!Allowed(request[h])
      BY <1>6, AnsweredStep
    <2>2. \A k \in Handlers : Told'[k] = IF k = h THEN result'[h] ELSE Told[k]
      BY <1>1, <1>4, <1>6, LspAssumption DEF Told
    <2>3. Told' = [Told EXCEPT ![h] = result'[h]]
      BY <2>2 DEF Told
    <2>4. QED BY <1>1, <1>6, <2>1, <2>3 DEF Service!Respond, Told
  <1>7. QED BY <1>3, <1>5, <1>6

LEMMA ServiceNext ==
  ASSUME TypeInv, TypeInv', HolderInside, [Next]_vars,
         \A k \in Handlers : Right(k)' /\ Asked(k) /\ Answered(k)
  PROVE  [Service!Next]_Service!vars
  <1> USE DEF Service!vars
  <1>1. ASSUME UNCHANGED <<lock, request, Told>> PROVE [Service!Next]_Service!vars
    BY <1>1 DEF Told
  <1>2. ASSUME NEW h \in Handlers, HandlerStep(h) PROVE [Service!Next]_Service!vars
    BY <1>1, <1>2, ServiceStep DEF Service!Next
  <1>3. ASSUME NEW h \in Handlers, NEW r \in Request, Admit(h, r) PROVE [Service!Next]_Service!vars
    <2>1. \A k \in Handlers : Told'[k] = IF k = h THEN None ELSE Told[k]
      BY <1>3, LspAssumption DEF Admit, Told, TypeInv, TypeOK
    <2>2. Told' = [Told EXCEPT ![h] = None]
      BY <2>1 DEF Told
    <2>3. Service!Begin(h, r)
      BY <1>3, <2>2 DEF Admit, Service!Begin, Told
    <2>4. QED BY <2>3 DEF Service!Next
  <1>4. ASSUME NEW h \in Handlers, Refuse(h) PROVE [Service!Next]_Service!vars
    <2>1. lock \notin {None, h} /\ UNCHANGED <<lock, request>>
      BY <1>4 DEF Refuse, HolderInside
    <2>2. \A k \in Handlers : Told'[k] = IF k = h THEN Plain(409) ELSE Told[k]
      BY <1>4, <2>1 DEF Refuse, Told, TypeInv, TypeOK
    <2>3. Told' = [Told EXCEPT ![h] = Plain(409)]
      <3>1. Told = [k \in Handlers |-> Told[k]] /\ Told' = [k \in Handlers |-> Told'[k]]
        BY Zenon DEF Told
      <3> DEFINE t == Plain(409)
      <3> HIDE DEF t
      <3>2. \A k \in Handlers : Told'[k] = IF k = h THEN t ELSE Told[k]
        BY <2>2, Zenon DEF t
      <3>3. QED BY <3>1, <3>2 DEF t
    <2>4. Service!Refuse(h)
      BY <2>1, <2>3 DEF Service!Refuse, Service!Refused, Plain, Told
    <2>5. QED BY <2>4 DEF Service!Next
  <1>5. ASSUME UNCHANGED <<lock, request, result>> PROVE [Service!Next]_Service!vars
    BY <1>1, <1>5 DEF Told
  <1>6. QED
    BY <1>2, <1>3, <1>4, <1>5 DEF Next, Lean, Shutdown, OnDiagnostics, Publish, Acknowledge, Crash,
      vars, session

\* Handler threads, document versions, evictions, clients and Lean servers
\* cannot be told from the answers: every behaviour of the checker is one of
\* the sequential service (do_POST and Checker).
THEOREM CheckerImplementsService == Spec => ImplementsService
  <1> DEFINE Inv == /\ TypeInv /\ TextInv /\ HolderInside
                    /\ \A k \in Handlers : Right(k) /\ Answered(k)
  <1>1. Init => Inv
    BY TypeInit, TextInit DEF Init, HolderInside, Answered
  <1>2. Inv /\ [Next]_vars => Inv'
    <2> SUFFICES ASSUME Inv, [Next]_vars PROVE Inv'
      OBVIOUS
    <2>1. TypeInv'
      BY TypeNext
    <2>2. TextInv' /\ \A k \in Handlers : Right(k)'
      BY <2>1, TextNext, RightNext
    <2>3. HolderInside'
      BY <2>1, HolderInsideNext
    <2>4. \A k \in Handlers : Answered(k)'
      BY <2>1, <2>2, AnsweredNext DEF TextInv
    <2>5. QED BY <2>1, <2>2, <2>3, <2>4
  <1>3. Init => Service!Init
    <2> SUFFICES ASSUME Init PROVE Service!Init
      OBVIOUS
    <2>1. Told = [h \in Handlers |-> None]
      BY DEF Init, Told
    <2>2. QED BY <2>1 DEF Init, Service!Init, Told
  <1>4. Inv /\ Inv' /\ [Next]_vars => [Service!Next]_Service!vars
    BY ServiceNext DEF TextInv
  <1>5. QED
    BY <1>1, <1>2, <1>3, <1>4, PTL DEF Spec, ImplementsService, Service!Spec

-----------------------------------------------------------------------------
(***************************************************************************)
(* The end of serve.  The main thread takes the client and the documents   *)
(* away under the handler that holds the lock, so what that handler knows  *)
(* of the document table is lost, and with it the completeness of a        *)
(* verdict.  What it shows is still of its own text: it depends on the     *)
(* history of what was sent, which nobody takes away.                      *)
(***************************************************************************)
Owed(h) ==
  /\ pc[h] \in InCheck \ {"editing", "wait"} => current.version = 0
  /\ pc[h] = "wait" => sent[current.uri][current.version] \in {None, request[h].text}
  /\ pc[h] = "dropping" => request[h].op = "close"

Own(h) ==
  result[h] # None /\ request[h].op = "check" =>
    /\ result[h].sevs \subseteq Reported(request[h].text)
    /\ result[h].exit = 1 => ErrorSeverity \in Reported(request[h].text)

OwnInv == Provenance /\ Recorded /\ \A h \in Handlers : Owed(h) /\ Own(h)

MainStep ==
  Interrupt \/ MainTests \/ MainCloses \/ MainDrops \/ MainClearsDocuments \/ MainClearsDiagnostics

LEMMA RightIsOwn == ASSUME NEW h, Right(h) PROVE Own(h)
  BY DEF Right, Own, Fits, Plain

\* A step of the composition is one of the checker, or the end of a creation
\* that was cut short, or one of the main thread.
LEMMA ShutdownSteps ==
  ASSUME [ShutdownNext]_allvars
  PROVE  [Next]_vars \/ (\E h \in Handlers : InitLost(h)) \/ MainStep
  BY DEF ShutdownNext, allvars, Arrive, Handle, Next, MainStep

LEMMA MainEffect ==
  ASSUME TypeInv, MainStep
  PROVE  /\ UNCHANGED <<lock, pc, request, result, versions, current, worker, sent, flight,
                        kept, ask>>
         /\ serving' \in {serving, "no"} /\ client' \in {client, None}
         /\ resized' \in BOOLEAN /\ diagnostics' \subseteq diagnostics
         /\ \/ documents' = documents /\ order' = order
            \/ documents' = [f \in Files |-> None] /\ order' = <<>>
         /\ \A c \in Clients : process'[c] \in {process[c], "dead", "leaked"}
         /\ process' \in [Clients -> {"unused", "fresh", "alive", "leaked", "dead"}]
  BY DEF MainStep, Interrupt, MainTests, MainCloses, MainDrops, MainClearsDocuments,
    MainClearsDiagnostics, vars, session, tables, scratch, server, TypeInv, TypeOK

LEMMA TypeMain ==
  ASSUME TypeInv, MainStep
  PROVE  TypeInv'
  <1>1. OrderOK' /\ (Len(order') = Len(order) \/ Len(order') = 0)
    <2>1. CASE documents' = documents /\ order' = order
      BY <2>1 DEF TypeInv, TypeOK, OrderOK
    <2>2. CASE documents' = [f \in Files |-> None] /\ order' = <<>>
      <3>1. order' \in Seq(Files) /\ Len(order') = 0 /\ 1..Len(order') = {}
        BY <2>2
      <3>2. QED BY <2>2, <3>1, LspAssumption DEF OrderOK
    <2>3. QED BY <2>1, <2>2, MainEffect
  <1>2. TypeOK'
    BY <1>1, MainEffect DEF TypeInv, TypeOK
  <1>3. Serialized'
    BY MainEffect DEF TypeInv, Serialized
  <1>4. DocVersion'
    BY MainEffect DEF TypeInv, CheckData, DocVersion
  <1>5. ASSUME NEW h \in Handlers PROVE HandlerData(h)'
    <2>1. HandlerData(h) /\ request[h].uri = request'[h].uri
      BY MainEffect DEF TypeInv, CheckData
    <2>2. /\ Len(order) < MaxOpenFiles => Len(order') < MaxOpenFiles
          /\ documents' = documents \/ Len(order') < MaxOpenFiles
      <3>1. 0 < MaxOpenFiles
        BY LspAssumption
      <3>2. order' = <<>> => Len(order') = 0
        OBVIOUS
      <3>3. QED BY <1>1, <3>1, <3>2, MainEffect
    <2>3. pc[h] \in InCheck => request[h].uri \in Files
      BY <2>1 DEF HandlerData, CheckRequest
    <2>4. \A f \in Files : documents[f] = None => documents'[f] = None
      BY MainEffect
    <2>5. QED
      BY <2>1, <2>2, <2>3, <2>4, MainEffect DEF HandlerData, InCheck
  <1>6. QED
    BY <1>2, <1>3, <1>4, <1>5 DEF TypeInv, CheckData

LEMMA LostEffect ==
  ASSUME TypeInv, NEW h \in Handlers, InitLost(h)
  PROVE  /\ pc[h] = "init" /\ Raise(h, 2, current) /\ request' = request
         /\ UNCHANGED <<serving, client, tables, diagnostics, current, worker, sent, flight>>
         /\ \A c \in Clients : process'[c] \in {process[c], "alive"}
         /\ process' \in [Clients -> {"unused", "fresh", "alive", "leaked", "dead"}]
  BY DEF InitLost, Interrupted, Raise, TypeInv, TypeOK

LEMMA TypeLost ==
  ASSUME TypeInv, NEW h \in Handlers, InitLost(h)
  PROVE  TypeInv'
  <1>1. SessionOK' /\ ScratchOK'
    BY LostEffect, RaiseType DEF TypeInv
  <1>2. TypeOK'
    <2>1. /\ UNCHANGED <<serving, client, documents, order, versions, diagnostics, current, worker,
                          sent, flight>>
          /\ process' \in [Clients -> {"unused", "fresh", "alive", "leaked", "dead"}]
      BY LostEffect DEF tables
    <2>2. OrderOK'
      BY <2>1 DEF TypeInv, TypeOK, OrderOK
    <2>3. QED BY <1>1, <2>1, <2>2 DEF TypeInv, TypeOK, SessionOK, ScratchOK
  <1>3. pc' = [pc EXCEPT ![h] = "closing"] /\ lock' = lock /\ pc[h] # "idle"
    BY LostEffect DEF Raise
  <1>4. Serialized'
    BY <1>3 DEF TypeInv, TypeOK, Serialized
  <1>5. DocVersion'
    BY LostEffect DEF TypeInv, CheckData, DocVersion, tables
  <1>6. QED
    BY <1>2, <1>3, <1>4, <1>5, HolderOnly, LeftCheck DEF TypeInv, Labels

LEMMA TypeShutdown ==
  ASSUME TypeInv, [ShutdownNext]_allvars
  PROVE  TypeInv'
  BY ShutdownSteps, TypeNext, TypeLost, TypeMain

\* The steps that are not the checker's only forget.
LEMMA EndForgets ==
  ASSUME TypeInv, (\E h \in Handlers : InitLost(h)) \/ MainStep
  PROVE  Forgets /\ DocsForgotten
  <1>1. CASE MainStep
    BY <1>1, MainEffect DEF Forgets, DocsForgotten, TypeInv, TypeOK
  <1>2. ASSUME NEW h \in Handlers, InitLost(h) PROVE Forgets /\ DocsForgotten
    <2>1. /\ UNCHANGED <<documents, versions, diagnostics, worker, sent, flight>> /\ kept' = {}
          /\ \A c \in Clients : process'[c] \in {process[c], "alive"}
      BY <1>2, LostEffect DEF Raise, tables
    <2>2. QED BY <2>1 DEF Forgets, DocsForgotten, TypeInv, TypeOK
  <1>3. QED BY <1>1, <1>2

LEMMA HistoryShutdown ==
  ASSUME TypeInv, TypeInv', Provenance, Recorded, [ShutdownNext]_allvars
  PROVE  Provenance' /\ Recorded'
  <1>1. CASE [Next]_vars
    BY <1>1, ProvenanceNext, RecordedNext
  <1>2. CASE (\E h \in Handlers : InitLost(h)) \/ MainStep
    <2>1. Forgets /\ DocsForgotten
      BY <1>2, EndForgets
    <2>2. QED BY <2>1, ProvenanceForgets DEF Forgets, DocsForgotten, Recorded
  <1>3. QED BY <1>1, <1>2, ShutdownSteps

\* What was sent under a version stays, unless it is this handler that sends.
LEMMA SentStays ==
  ASSUME TypeInv, NEW h \in Handlers, HandlerStep(h), ~Open(h), ~Edit(h)
  PROVE  sent' = sent
  BY EndingForgets, ClosingForgets, ClosedForgets, MiddleForgets DEF HandlerStep, Forgets

LEMMA OwedStep ==
  ASSUME TypeInv, TypeInv', Provenance, Recorded, NEW h \in Handlers, HandlerStep(h), Owed(h)
  PROVE  Owed(h)'
  <1>1. pc[h] # "idle" /\ request' = request
    BY Leads
  <1>2. ASSUME NEW l \in {"idle", "closing"}, pc' = [pc EXCEPT ![h] = l] PROVE Owed(h)'
    BY <1>1, <1>2, HandlerOthersIdle DEF Owed, InCheck
  <1>3. CASE \/ Status(h) \/ Invalid(h) \/ FilterRaises(h) \/ CloseAbsent(h) \/ CloseDone(h)
             \/ RefuseCheck(h) \/ InitFails(h) \/ Verdict(h) \/ Timeout(h) \/ WaitFails(h)
             \/ Stop(h) \/ CloseAfterFailure(h)
    BY <1>2, <1>3 DEF Status, Invalid, FilterRaises, CloseAbsent, CloseDone, RefuseCheck, InitFails,
      Verdict, Timeout, WaitFails, Stop, CloseAfterFailure, Raise, Finish
  <1>4. CASE CloseOpen(h)
    <2>1. request[h].op = "close"
          /\ \E l \in {"closing", "dropping"} : pc' = [pc EXCEPT ![h] = l]
      BY <1>4 DEF CloseOpen, Raise, Goto
    <2>2. QED BY <1>1, <2>1, HandlerOthersIdle DEF Owed, InCheck
  <1>5. CASE BeginCheck(h)
    <2>1. (\E l \in {"init", "place"} : pc' = [pc EXCEPT ![h] = l]) /\ current'.version = 0
      BY <1>5 DEF BeginCheck, Goto
    <2>2. QED BY <1>1, <2>1, HandlerOthersIdle DEF Owed, InCheck
  <1>6. CASE InitClient(h) \/ Evict(h) \/ Evicted(h) \/ StartEdit(h)
    <2>1. pc[h] \in InCheck \ {"editing", "wait"}
      BY <1>6 DEF InitClient, Evict, Evicted, StartEdit, InCheck
    <2>2. \/ /\ \E l \in {"place", "evicting", "open"} : pc' = [pc EXCEPT ![h] = l]
             /\ current' = current
          \/ \E l \in {"closing", "editing"} : pc' = [pc EXCEPT ![h] = l]
      BY <1>6 DEF InitClient, Evict, Evicted, StartEdit, Goto, Raise
    <2>3. QED BY <1>1, <2>1, <2>2, HandlerOthersIdle DEF Owed, InCheck
  <1>7. CASE Reuse(h)
    <2> DEFINE f == current.uri
    <2>1. /\ pc' = [pc EXCEPT ![h] = "wait"] /\ documents[f] # None /\ sent' = sent
          /\ current' = [current EXCEPT !.version = documents[f].version]
      BY <1>7 DEF Reuse, Wait, Goto, server
    <2>2. f \in Files /\ current'.uri = f /\ current'.version = documents[f].version
      BY <1>7, <2>1, Checking DEF Reuse, InCheck
    <2>3. documents[f].text = request[h].text
      BY <1>7 DEF Reuse, Unchanged
    <2>4. sent[f][documents[f].version] \in {None, documents[f].text}
      BY <2>1, <2>2 DEF Recorded
    <2>5. pc'[h] = "wait"
      BY <1>1, <2>1, HandlerOthersIdle
    <2>6. sent'[current'.uri][current'.version] \in {None, request'[h].text}
      BY <1>1, <2>1, <2>2, <2>3, <2>4
    <2>7. QED BY <2>5, <2>6 DEF Owed
  <1>8. CASE Open(h) \/ Edit(h)
    <2> DEFINE f == current.uri
               v == versions[f] + 1
    <2>1. CASE SendFails(h, v)
      BY <1>2, <2>1 DEF SendFails, Raise
    <2>2. CASE ~SendFails(h, v)
      <3>1. pc' = [pc EXCEPT ![h] = "wait"] /\ current'.version = v
        BY <1>8, <2>2, SendEffect
      <3>2. current'.uri = f
        BY <1>8, Checking DEF Open, Edit, InCheck
      <3>3. pc'[h] = "wait"
        BY <1>1, <3>1, HandlerOthersIdle
      <3>4. sent'[f][v] \in {None, request[h].text}
        BY <1>8, <3>3, SentNow
      <3>5. QED BY <1>1, <3>1, <3>2, <3>3, <3>4 DEF Owed
    <2>3. QED BY <2>1, <2>2
  <1>9. QED
    BY <1>3, <1>4, <1>5, <1>6, <1>7, <1>8 DEF HandlerStep

\* Whatever raises in a check shows the diagnostics of a version that was sent
\* for this check, or of none.
LEMMA OwnStep ==
  ASSUME TypeInv, TypeInv', Provenance, NEW h \in Handlers, HandlerStep(h), Owed(h), Own(h)
  PROVE  Own(h)'
  <1>1. request' = request
    BY Leads
  <1>2. ASSUME result'[h] = result[h] PROVE Own(h)'
    BY <1>1, <1>2 DEF Own
  <1>3. ASSUME NEW code \in {2, 124}, NEW cur, Raise(h, code, cur),
               \/ request[h].op # "check" \/ cur = None
               \/ cur.version \in Versions =>
                    sent[cur.uri][cur.version] \in {None, request[h].text}
        PROVE  Own(h)'
    <2>1. Right(h)'
      BY <1>3, RaisedFits
    <2>2. QED BY <2>1 DEF Right, Own, Fits, Plain
  <1>4. CASE \/ CloseAbsent(h) \/ CloseDone(h) \/ Status(h) \/ Invalid(h) \/ Stop(h) \/ CloseOpen(h)
    <2>1. request[h].op # "check"
      BY <1>4 DEF CloseAbsent, CloseDone, Status, Invalid, Stop, CloseOpen, Owed
    <2>2. QED BY <1>1, <2>1 DEF Own
  <1>5. CASE CloseAfterFailure(h)
    BY <1>2, <1>5 DEF CloseAfterFailure, Finish, TypeInv, TypeOK
  <1>6. CASE FilterRaises(h)
    <2>1. Raise(h, 2, current) /\ pc[h] \in FilterLabels
      BY <1>6 DEF FilterRaises
    <2>2. CASE pc[h] = "dropping"
      BY <1>3, <2>1, <2>2 DEF Owed
    <2>3. CASE pc[h] = "evicting"
      BY <1>3, <2>1, <2>3 DEF Owed, InCheck, Versions
    <2>4. CASE pc[h] = "editing"
      <3>1. current.uri \in Files /\ current.version = versions[current.uri] + 1
        BY <2>4, Checking DEF HandlerData, InCheck
      <3>2. QED BY <1>3, <2>1, <3>1, NextIsNew
    <2>5. QED BY <2>1, <2>2, <2>3, <2>4 DEF FilterLabels
  <1>7. CASE RefuseCheck(h)
    BY <1>3, <1>7 DEF RefuseCheck
  <1>8. CASE InitFails(h)
    <2>1. current.version \notin Versions /\ \E code \in {2, 124} : Raise(h, code, current)
      BY <1>8 DEF InitFails, Owed, InCheck, Versions
    <2>2. QED BY <1>3, <2>1
  <1>9. CASE Evict(h)
    <2>1. /\ current.version \notin Versions
          /\ Raise(h, 2, current) \/ result' = result
      BY <1>9 DEF Evict, Owed, InCheck, Versions, Goto
    <2>2. QED BY <1>2, <1>3, <2>1
  <1>10. CASE BeginCheck(h) \/ InitClient(h) \/ Evicted(h) \/ Reuse(h) \/ StartEdit(h)
    BY <1>2, <1>10 DEF BeginCheck, InitClient, Evicted, Reuse, StartEdit, Goto, Wait
  <1>11. CASE Open(h) \/ Edit(h)
    <2> DEFINE f == current.uri
               v == versions[f] + 1
               cur == [current EXCEPT !.version = v]
    <2>1. CASE SendFails(h, v)
      <3>1. f \in Files /\ current \in [uri : Files, version : 0..MaxVersion]
        BY <1>11, Checking DEF Open, Edit, InCheck
      <3>2. cur.uri = f /\ cur.version = v /\ Raise(h, 2, cur)
        BY <2>1, <3>1 DEF SendFails
      <3> HIDE DEF cur
      <3>3. cur.version \in Versions => sent[cur.uri][cur.version] = None
        BY <3>1, <3>2, NextIsNew
      <3>4. QED BY <1>3, <3>2, <3>3
    <2>2. CASE ~SendFails(h, v)
      BY <1>2, <1>11, <2>2, SendEffect
    <2>3. QED BY <2>1, <2>2
  <1>12. CASE Verdict(h)
    <2> DEFINE sevs == Received(current.uri, current.version)
               t == request[h].text
    <2>1. pc[h] = "wait"
          /\ result'[h] = [exit |-> IF ErrorSeverity \in sevs THEN 1 ELSE 0, sevs |-> sevs]
      BY <1>12 DEF Verdict, Finish, TypeInv, TypeOK
    <2>2. sevs \subseteq Reported(t)
      BY <2>1, ReceivedSent DEF Owed
    <2> HIDE DEF sevs
    <2>3. result'[h].sevs \subseteq Reported(t)
          /\ (result'[h].exit = 1 => ErrorSeverity \in Reported(t))
      BY <2>1, <2>2
    <2>4. QED BY <1>1, <2>3 DEF Own
  <1>13. CASE Timeout(h) \/ WaitFails(h)
    <2>1. (\E code \in {2, 124} : Raise(h, code, current)) /\ pc[h] = "wait"
      BY <1>13 DEF Timeout, WaitFails
    <2>2. sent[current.uri][current.version] \in {None, request[h].text}
      BY <2>1 DEF Owed
    <2>3. QED BY <1>3, <2>1, <2>2
  <1>14. QED
    BY <1>4, <1>5, <1>6, <1>7, <1>8, <1>9, <1>10, <1>11, <1>12, <1>13 DEF HandlerStep

\* A handler that is not at work answers nothing and owes nothing.
LEMMA OwnOthers ==
  ASSUME TypeInv, NEW h \in Handlers, HandlerStep(h), NEW k \in Handlers, k # h, Own(k)
  PROVE  Owed(k)' /\ Own(k)'
  <1>1. pc'[k] = "idle" /\ request' = request
    BY Leads, HandlerOthersIdle
  <1>2. \/ result' = result \/ \E a : result' = [result EXCEPT ![h] = a]
    BY DEF HandlerStep, Status, Invalid, Stop, CloseAfterFailure, FilterRaises, CloseAbsent,
      CloseOpen, CloseDone, RefuseCheck, BeginCheck, InitClient, InitFails, Evict, Evicted,
      Open, Reuse, StartEdit, Edit, Verdict, Timeout, WaitFails, SendFails, Raise, Finish,
      Goto, Wait
  <1>3. result'[k] = result[k]
    BY <1>2 DEF TypeInv, TypeOK
  <1>4. QED
    BY <1>1, <1>3 DEF Owed, Own, InCheck

LEMMA OwnHandlers ==
  ASSUME TypeInv, TypeInv', OwnInv, [Next]_vars, NEW k \in Handlers
  PROVE  Owed(k)' /\ Own(k)'
  <1>1. Owed(k) /\ Own(k)
    BY DEF OwnInv
  <1>2. ASSUME NEW h \in Handlers, HandlerStep(h) PROVE Owed(k)' /\ Own(k)'
    BY <1>1, <1>2, OwedStep, OwnStep, OwnOthers DEF OwnInv
  <1>3. ASSUME NEW h \in Handlers, NEW r \in Request, Admit(h, r) PROVE Owed(k)' /\ Own(k)'
    <2>1. pc'[k] \in {"idle", "begin"}
      BY <1>3, LspAssumption DEF Admit, TypeInv, TypeOK, Serialized
    <2>2. Own(k)'
      BY <1>1, <1>3 DEF Admit, Own, TypeInv, TypeOK
    <2>3. QED BY <2>1, <2>2 DEF Owed, InCheck
  <1>4. ASSUME NEW h \in Handlers, Refuse(h) PROVE Owed(k)' /\ Own(k)'
    <2>1. UNCHANGED <<pc, request, current, sent>>
      BY <1>4 DEF Refuse, server
    <2>2. result'[k] \in {result[k], Plain(409)}
      BY <1>4 DEF Refuse, TypeInv, TypeOK
    <2>3. QED BY <1>1, <2>1, <2>2 DEF Owed, Own, Plain
  <1>5. ASSUME UNCHANGED <<pc, request, result, current, sent>> PROVE Owed(k)' /\ Own(k)'
    BY <1>1, <1>5 DEF Owed, Own
  <1>6. QED
    BY <1>2, <1>3, <1>4, <1>5 DEF Next, Lean, Shutdown, OnDiagnostics, Publish, Acknowledge, Crash,
      vars, session, server

LEMMA OwnNext ==
  ASSUME TypeInv, TypeInv', OwnInv, [ShutdownNext]_allvars
  PROVE  OwnInv'
  <1>1. Provenance' /\ Recorded'
    BY HistoryShutdown DEF OwnInv
  <1>2. ASSUME NEW k \in Handlers PROVE Owed(k)' /\ Own(k)'
    <2>1. Owed(k) /\ Own(k) /\ Provenance
      BY DEF OwnInv
    <2>2. CASE [Next]_vars
      BY <2>2, OwnHandlers
    <2>3. ASSUME NEW h \in Handlers, InitLost(h) PROVE Owed(k)' /\ Own(k)'
      <3>1. pc' = [pc EXCEPT ![h] = "closing"] /\ request' = request /\ pc[h] = "init"
        BY <2>3, LostEffect DEF Raise
      <3>2. Owed(k)'
        <4>1. pc'[k] \in {"idle", "closing"}
          BY <2>3, <3>1, HandlerOthersIdle
        <4>2. QED BY <4>1 DEF Owed, InCheck
      <3>3. CASE k = h
        <4>1. current.version \notin Versions
          BY <2>1, <3>1, <3>3 DEF Owed, InCheck, Versions
        <4>2. Right(h)'
          BY <2>1, <2>3, <4>1, LostEffect, RaisedFits
        <4>3. QED BY <3>2, <3>3, <4>2 DEF Right, Own, Fits, Plain
      <3>4. CASE k # h
        <4>1. Raise(h, 2, current)
          BY <2>3, LostEffect
        <4>2. result'[k] = result[k]
          BY <3>4, <4>1 DEF Raise, TypeInv, TypeOK
        <4>3. QED BY <2>1, <3>1, <3>2, <4>2 DEF Own
      <3>5. QED BY <3>3, <3>4
    <2>4. CASE MainStep
      BY <2>1, <2>4, MainEffect DEF Owed, Own
    <2>5. QED BY <2>2, <2>3, <2>4, ShutdownSteps
  <1>3. QED BY <1>1, <1>2 DEF OwnInv

\* However the main thread's checker.close(), which does not take the lock,
\* cuts into a check, the answer shows diagnostics of the text that was asked
\* about and of no other, and exit 1 means that Lean reports an error in it.
THEOREM ShutdownAnswersItsText == ShutdownSpec => []OwnTextOnly
  <1> DEFINE Inv == TypeInv /\ OwnInv
  <1>1. ShutdownInit => Inv
    <2>1. ASSUME Init PROVE Inv
      <3>1. TypeInv /\ TextInv /\ \A k \in Handlers : Right(k)
        BY <2>1, TypeInit, TextInit
      <3>2. \A k \in Handlers : Owed(k)
        BY <2>1 DEF Init, Owed, InCheck
      <3>3. QED BY <3>1, <3>2, RightIsOwn DEF TextInv, OwnInv
    <2>2. QED BY <2>1 DEF ShutdownInit
  <1>2. Inv /\ [ShutdownNext]_allvars => Inv'
    BY TypeShutdown, OwnNext
  <1>3. Inv => OwnTextOnly
    BY DEF OwnInv, Own, OwnTextOnly
  <1>4. QED
    BY <1>1, <1>2, <1>3, PTL DEF ShutdownSpec

-----------------------------------------------------------------------------
(* The helper around the checker, for any number of starters and helpers.  *)

\* Whoever holds the session owns the file, which a helper beyond "writing"
\* has written.  OneHelper follows: a file has one owner.  That the operator
\* removes the file of a dead helper is what keeps it true.
OwnsFile ==
  \A p \in Helpers :
    helper[p] \in Holding =>
      /\ file \in File /\ file.pid = p
      /\ helper[p] # "writing" => file.written

SessionInv == SessionTypeOK /\ OwnsFile /\ VerifiedFileIsStale

LEMMA SessionInvInit == SessionInit => SessionInv
  BY SessionAssumption
     DEF SessionInit, SessionInv, SessionTypeOK, OwnsFile, VerifiedFileIsStale, Holding, Places, Stages, Returned

LEMMA SessionInvNext == SessionInv /\ [SessionNext]_sessions => SessionInv'
  <1> SUFFICES ASSUME SessionInv, [SessionNext]_sessions PROVE SessionInv'
    OBVIOUS
  <1> USE SessionAssumption
      DEF SessionInv, SessionTypeOK, OwnsFile, VerifiedFileIsStale, Holding, Places, Stages, Returned, File, Move
  <1>1. ASSUME NEW p \in Helpers, Serve(p) PROVE SessionInv'
    BY <1>1 DEF Serve
  <1>2. ASSUME NEW p \in Helpers, Create(p) PROVE SessionInv'
    <2>1. CASE file # NoOne
      BY <1>2, <2>1 DEF Create
    <2>2. CASE file = NoOne
      <3> DEFINE F == [pid |-> p, written |-> FALSE]
      <3>1. /\ file' = F /\ UNCHANGED <<starter, child, verified>>
            /\ helper' = [helper EXCEPT ![p] = "writing"]
        BY <1>2, <2>2 DEF Create
      <3>2. \A q \in Helpers : helper[q] \notin Holding
        BY <2>2
      <3>3. verified = NoOne
        BY <2>2
      <3>4. F \in File /\ F.pid = p
        OBVIOUS
      <3> HIDE DEF F, File
      <3>5. SessionTypeOK' /\ VerifiedFileIsStale'
        BY <3>1, <3>3, <3>4
      <3>6. OwnsFile'
        BY <3>1, <3>2, <3>4
      <3>7. QED BY <3>5, <3>6
    <2>3. QED BY <2>1, <2>2
  <1>3. ASSUME NEW p \in Helpers, Write(p) PROVE SessionInv'
    <2>1. file' = [file EXCEPT !.written = TRUE] /\ file \in File /\ helper[p] = "writing"
      BY <1>3 DEF Write
    <2>2. file' = [pid |-> file.pid, written |-> TRUE]
      BY <2>1
    <2>3. file' \in File /\ file'.pid = file.pid /\ file'.written
      BY <2>1, <2>2
    <2> HIDE DEF File
    <2>4. /\ helper' = [helper EXCEPT ![p] = "serving"]
          /\ UNCHANGED <<starter, child, verified>>
      BY <1>3 DEF Write
    <2>5. file'.pid = p /\ file' # NoOne
      <3>1. file.pid = p
        BY <2>1
      <3>2. file # NoOne /\ NoOne \notin File
        BY <2>1 DEF File
      <3>3. QED BY <2>3, <3>1, <3>2
    <2>6. SessionTypeOK'
      BY <2>3, <2>4
    <2>7. OwnsFile'
      BY <2>1, <2>3, <2>4, <2>5
    <2>8. VerifiedFileIsStale'
      BY <2>1, <2>3, <2>4, <2>5
    <2>9. QED BY <2>6, <2>7, <2>8
  <1>4. ASSUME NEW p \in Helpers, StopHelper(p) \/ LoopEnds(p) \/ CloseChecker(p) \/ Die(p) PROVE SessionInv'
    BY <1>4 DEF StopHelper, LoopEnds, CloseChecker, Die
  <1>5. ASSUME NEW p \in Helpers, Unlink(p) PROVE SessionInv'
    BY <1>5 DEF Unlink
  <1>6. ASSUME NEW s \in Starters, Start(s) \/ Conclude(s) PROVE SessionInv'
    BY <1>6 DEF Start, Conclude
  <1>7. ASSUME NEW s \in Starters, Launch(s) PROVE SessionInv'
    BY <1>7 DEF Launch
  <1>8. ASSUME NEW s \in Starters, GiveUp(s) PROVE SessionInv'
    BY <1>8 DEF GiveUp
  <1>9. ASSUME Verify \/ RemoveStale PROVE SessionInv'
    BY <1>9 DEF Verify, RemoveStale
  <1>10. ASSUME UNCHANGED sessions PROVE SessionInv'
    BY <1>10 DEF sessions
  <1>11. QED
    BY <1>1, <1>2, <1>3, <1>4, <1>5, <1>6, <1>7, <1>8, <1>9, <1>10
       DEF SessionNext, HelperStep, StarterStep

LEMMA SessionInvHolds == SessionSpec => []SessionInv
  BY SessionInvInit, SessionInvNext, PTL DEF SessionSpec

\* At most one helper holds the session, whatever dies and whoever cleans up.
THEOREM ExclusiveSession == SessionSpec => []OneHelper
  <1>1. SessionInv => OneHelper
    BY DEF SessionInv, OwnsFile, OneHelper
  <1>2. QED
    BY SessionInvHolds, <1>1, PTL

\* A serving helper's descriptor is complete and names it.
THEOREM ServingIsFound == SessionSpec => []ServerCanBeFound
  <1>1. SessionInv => ServerCanBeFound
    BY DEF SessionInv, OwnsFile, ServerCanBeFound, Holding, File
  <1>2. QED
    BY SessionInvHolds, <1>1, PTL

\* The manual recovery removes no file but the one it was decided for.
THEOREM RecoveryIsSafe == SessionSpec => []VerifiedFileIsStale
  <1>1. SessionInv => VerifiedFileIsStale
    BY DEF SessionInv
  <1>2. QED
    BY SessionInvHolds, <1>1, PTL

\* The file of a running helper is only written and unlinked by that helper.
THEOREM FileIsTheOwners == SessionSpec => OwnerUnlinks
  <1> DEFINE Kept == \A p \in Helpers :
       helper[p] \in Holding /\ file # NoOne /\ file.pid = p /\ file' # file =>
         \/ helper[p] = "writing" /\ file' = [file EXCEPT !.written = TRUE]
         \/ helper[p] = "unlinking" /\ file' = NoOne
  <1>1. SessionInv /\ [SessionNext]_sessions => [Kept]_sessions
    <2> SUFFICES ASSUME SessionInv, SessionNext, NEW p \in Helpers,
                        helper[p] \in Holding, file.pid = p, file' # file
                 PROVE  \/ helper[p] = "writing" /\ file' = [file EXCEPT !.written = TRUE]
                        \/ helper[p] = "unlinking" /\ file' = NoOne
      OBVIOUS
    <2>1. file \in File
      BY DEF SessionInv, OwnsFile
    <2>2. ASSUME NEW q \in Helpers, Create(q) PROVE FALSE
      BY <2>1, <2>2, SessionAssumption DEF Create, SessionInv, SessionTypeOK, OwnsFile, File
    <2>3. ASSUME NEW q \in Helpers, Write(q) \/ Unlink(q) PROVE p = q
      BY <2>3 DEF Write, Unlink, Move, SessionInv, OwnsFile, Holding
    <2>4. ASSUME RemoveStale PROVE FALSE
      BY <2>4 DEF RemoveStale, SessionInv, VerifiedFileIsStale, Holding
    <2>5. \/ \E q \in Helpers : Create(q) \/ Write(q) \/ Unlink(q)
          \/ RemoveStale
      BY DEF SessionNext, HelperStep, StarterStep, Serve, StopHelper, LoopEnds, CloseChecker, Die, Start, Launch,
             Conclude, GiveUp, Verify
    <2>6. QED
      BY <2>2, <2>3, <2>4, <2>5 DEF Write, Unlink, Move
  <1>2. QED
    BY SessionInvHolds, <1>1, PTL DEF SessionSpec, OwnerUnlinks
=============================================================================
