------------------------ MODULE LeanLspCheckerProofs ------------------------
(***************************************************************************)
(* Theorems about LeanLspChecker, for every number of handlers, files,     *)
(* texts and clients.                                                      *)
(***************************************************************************)
EXTENDS LeanLspCheckerProps, SequenceTheorems, TLAPS

\* Only the thread that holds the lock is inside the Checker.
PcOK == pc \in [Handlers -> Labels] /\ Serialized

LEMMA PcInit == Init => PcOK
  BY DEF Init, PcOK, Serialized, Labels

LEMMA PcNext == PcOK /\ [Next]_vars => PcOK'
  <1> SUFFICES ASSUME PcOK, [Next]_vars PROVE PcOK'
    OBVIOUS
  <1> USE DEF PcOK, Serialized, Labels, FilterLabels
  <1>1. ASSUME NEW h \in Handlers, NEW r \in Request, Admit(h, r) PROVE PcOK'
    BY <1>1, LspAssumption DEF Admit
  <1>2. ASSUME NEW h \in Handlers, HandlerStep(h) PROVE PcOK'
    <2>1. pc[h] # "idle"
      BY <1>2 DEF HandlerStep, Status, Invalid, Stop, CloseAfterFailure, FilterRaises, CloseAbsent,
           CloseOpen, CloseDone, RefuseCheck, BeginCheck, InitClient, InitFails, Evict, Evicted, Open,
           Reuse, StartEdit, Edit, Verdict, Timeout, WaitFails
    <2>2. \/ pc' = [pc EXCEPT ![h] = "idle"] /\ lock' = None
          \/ \E l \in Labels : pc' = [pc EXCEPT ![h] = l] /\ lock' = lock
      BY <1>2 DEF HandlerStep, Status, Invalid, Stop, CloseAfterFailure, FilterRaises, CloseAbsent,
           CloseOpen, CloseDone, RefuseCheck, BeginCheck, InitClient, InitFails, Evict, Evicted, Open,
           Reuse, StartEdit, Edit, Verdict, Timeout, WaitFails, Finish, Raise, Goto, Wait, SendFails
    <2>3. QED BY <2>1, <2>2
  <1>3. ASSUME UNCHANGED <<lock, pc>> PROVE PcOK'
    BY <1>3
  <1>4. QED
    BY <1>1, <1>2, <1>3 DEF Next, Refuse, Shutdown, OnDiagnostics, Lean, Publish, Acknowledge, Crash,
       vars, session

THEOREM HandlersSerialized == Spec => []Serialized
  <1>1. PcOK => Serialized
    BY DEF PcOK
  <1>2. QED
    BY PcInit, PcNext, <1>1, PTL DEF Spec

-----------------------------------------------------------------------------
(***************************************************************************)
(* The OrderedDict.                                                        *)
(***************************************************************************)
\* Removing the entry at position p of a sequence without repetitions leaves
\* the others, in order, without repetitions.
LEMMA RemoveAtProperties ==
  ASSUME NEW S, NEW s \in Seq(S), NEW p \in 1..Len(s),
         \A i, j \in 1..Len(s) : s[i] = s[j] => i = j
  PROVE  LET r == RemoveAt(s, p) IN
         /\ r \in Seq(S)
         /\ Len(r) = Len(s) - 1
         /\ \A i, j \in 1..Len(r) : r[i] = r[j] => i = j
         /\ \A x : (\E i \in 1..Len(r) : r[i] = x) <=>
                   x # s[p] /\ \E i \in 1..Len(s) : s[i] = x
  <1> DEFINE r == RemoveAt(s, p)
  <1> DEFINE t == SubSeq(s, 1, p - 1)
             u == SubSeq(s, p + 1, Len(s))
  <1>0. /\ t \in Seq(S) /\ Len(t) = p - 1 /\ \A i \in 1..(p - 1) : t[i] = s[i]
        /\ u \in Seq(S) /\ Len(u) = Len(s) - p
        /\ \A i \in 1..(Len(s) - p) : u[i] = s[p + i]
    <2>1. Len(s) \in Nat /\ p \in Int
      OBVIOUS
    <2>2. \A i \in 1..(p - 1) : s[i] \in S
      BY ElementOfSeq
    <2>3. \A i \in (p + 1)..Len(s) : s[i] \in S
      BY ElementOfSeq
    <2>4. t \in Seq(S) /\ Len(t) = p - 1 /\ \A i \in 1..(p - 1) : t[i] = s[i]
      BY <2>1, <2>2, SubSeqProperties
    <2>5. u \in Seq(S) /\ Len(u) = Len(s) - p
      BY <2>1, <2>3, SubSeqProperties
    <2>6. \A i \in 1..(Len(s) - p) : u[i] = s[p + i]
      BY <2>1, <2>3, SubSeqProperties
    <2>7. QED BY <2>4, <2>5, <2>6
  <1>10. r = t \o u
    BY DEF RemoveAt
  <1> HIDE DEF r, t, u
  <1>1. r \in Seq(S) /\ Len(r) = Len(s) - 1
    <2>1. t \in Seq(S) /\ u \in Seq(S)
      BY <1>0
    <2>2. t \o u \in Seq(S) /\ Len(t \o u) = Len(t) + Len(u)
      BY <2>1, ConcatProperties
    <2>3. Len(s) \in Nat /\ p \in Nat
      OBVIOUS
    <2>4. QED BY <1>0, <1>10, <2>2, <2>3
  <1>2. \A i \in 1..Len(r) : r[i] = IF i < p THEN s[i] ELSE s[i + 1]
    <2>1. \A i \in 1..Len(r) : r[i] = IF i <= Len(t) THEN t[i] ELSE u[i - Len(t)]
      BY <1>0, <1>10, ConcatProperties
    <2> SUFFICES ASSUME NEW i \in 1..Len(r)
                 PROVE  r[i] = IF i < p THEN s[i] ELSE s[i + 1]
      OBVIOUS
    <2>2. CASE i < p
      BY <2>1, <2>2, <1>0, <1>1
    <2>3. CASE ~(i < p)
      <3>1. i - Len(t) \in 1..(Len(s) - p) /\ p + (i - Len(t)) = i + 1
        BY <2>3, <1>0, <1>1
      <3>2. r[i] = u[i - Len(t)]
        <4>1. ~(i <= Len(t))
          BY <2>3, <1>0, <1>1
        <4>2. QED BY <4>1, <2>1
      <3>3. QED BY <3>1, <3>2, <2>3, <1>0
    <2>4. QED BY <2>2, <2>3
  <1>3. \A i, j \in 1..Len(r) : r[i] = r[j] => i = j
    BY <1>1, <1>2
  <1>4. ASSUME NEW x, NEW i \in 1..Len(r), r[i] = x
        PROVE  x # s[p] /\ \E k \in 1..Len(s) : s[k] = x
    <2>1. CASE i < p
      BY <2>1, <1>1, <1>2, <1>4
    <2>2. CASE ~(i < p)
      <3>1. i + 1 \in 1..Len(s) /\ s[i + 1] = x /\ i + 1 # p
        BY <2>2, <1>1, <1>2, <1>4
      <3>2. QED BY <3>1
    <2>3. QED BY <2>1, <2>2
  <1>5. ASSUME NEW x, x # s[p], NEW k \in 1..Len(s), s[k] = x
        PROVE  \E i \in 1..Len(r) : r[i] = x
    <2>1. CASE k < p
      BY <2>1, <1>1, <1>2, <1>5
    <2>2. CASE ~(k < p)
      <3>1. k - 1 \in 1..Len(r) /\ ~(k - 1 < p) /\ (k - 1) + 1 = k
        BY <2>2, <1>1, <1>5
      <3>2. r[k - 1] = s[k]
        BY <3>1, <1>2
      <3>3. QED BY <3>1, <3>2, <1>5
    <2>3. QED BY <2>1, <2>2
  <1>6. QED
    BY <1>1, <1>3, <1>4, <1>5 DEF r

\* Dropping a file that is in the dictionary.
LEMMA DroppedProperties ==
  ASSUME OrderOK, NEW f \in Files, documents[f] # None
  PROVE  /\ Dropped(f) \in Seq(Files)
         /\ Len(Dropped(f)) = Len(order) - 1
         /\ \A i, j \in 1..Len(Dropped(f)) : Dropped(f)[i] = Dropped(f)[j] => i = j
         /\ \A g \in Files : (\E i \in 1..Len(Dropped(f)) : Dropped(f)[i] = g) <=>
                             g # f /\ documents[g] # None
  <1>1. \E i \in 1..Len(order) : order[i] = f
    BY DEF OrderOK
  <1>2. DOMAIN order = 1..Len(order)
    BY DEF OrderOK
  <1>3. Position(f) \in 1..Len(order) /\ order[Position(f)] = f
    BY <1>1, <1>2 DEF Position
  <1> DEFINE p == Position(f)
             r == RemoveAt(order, p)
  <1>4. /\ r \in Seq(Files)
        /\ Len(r) = Len(order) - 1
        /\ \A i, j \in 1..Len(r) : r[i] = r[j] => i = j
        /\ \A x : (\E i \in 1..Len(r) : r[i] = x) <=>
                  x # order[p] /\ \E i \in 1..Len(order) : order[i] = x
    <2>1. order \in Seq(Files) /\ \A i, j \in 1..Len(order) : order[i] = order[j] => i = j
      BY DEF OrderOK
    <2>2. p \in 1..Len(order)
      BY <1>3
    <2> HIDE DEF p
    <2>3. QED
      BY <2>1, <2>2, RemoveAtProperties
  <1>5. Dropped(f) = r
    BY DEF Dropped
  <1> HIDE DEF r
  <1>6. QED
    BY <1>3, <1>4, <1>5 DEF OrderOK

\* Dropping the oldest file of a dictionary that is not empty.
LEMMA TailProperties ==
  ASSUME OrderOK, order # <<>>
  PROVE  /\ Head(order) \in Files /\ documents[Head(order)] # None
         /\ Tail(order) \in Seq(Files) /\ Len(Tail(order)) = Len(order) - 1
         /\ \A i, j \in 1..Len(Tail(order)) : Tail(order)[i] = Tail(order)[j] => i = j
         /\ \A g \in Files : (\E i \in 1..Len(Tail(order)) : Tail(order)[i] = g) <=>
                             g # Head(order) /\ documents[g] # None
  <1>1. 1 \in 1..Len(order) /\ Head(order) = order[1]
    BY DEF OrderOK
  <1>2. \A i \in 1..Len(Tail(order)) : Tail(order)[i] = order[i + 1]
    BY DEF OrderOK
  <1>3. Tail(order) \in Seq(Files) /\ Len(Tail(order)) = Len(order) - 1
    BY <1>1 DEF OrderOK
  <1>4. Head(order) \in Files /\ documents[Head(order)] # None
    BY <1>1 DEF OrderOK
  <1>5. \A i, j \in 1..Len(Tail(order)) : Tail(order)[i] = Tail(order)[j] => i = j
    BY <1>2, <1>3 DEF OrderOK
  <1>6. ASSUME NEW g \in Files, NEW i \in 1..Len(Tail(order)), Tail(order)[i] = g
        PROVE  g # Head(order) /\ documents[g] # None
    <2>1. i + 1 \in 1..Len(order) /\ order[i + 1] = g /\ i + 1 # 1
      BY <1>2, <1>3, <1>6
    <2>2. QED BY <2>1, <1>1 DEF OrderOK
  <1>7. ASSUME NEW g \in Files, g # Head(order), documents[g] # None
        PROVE  \E i \in 1..Len(Tail(order)) : Tail(order)[i] = g
    <2>1. PICK k \in 1..Len(order) : order[k] = g
      BY <1>7 DEF OrderOK
    <2>2. k - 1 \in 1..Len(Tail(order)) /\ (k - 1) + 1 = k
      BY <2>1, <1>1, <1>3, <1>7
    <2>3. QED BY <2>1, <2>2, <1>2
  <1>8. QED BY <1>3, <1>4, <1>5, <1>6, <1>7

-----------------------------------------------------------------------------
(***************************************************************************)
(* Type correctness.  TypeOK is inductive; it is proved for groups of      *)
(* variables first.                                                        *)
(***************************************************************************)
ScratchOK == kept \in SUBSET Item /\ resized \in BOOLEAN
             /\ ask \in {"none", "asked", "acked", "refused"}

SessionOK == lock \in Handlers \cup {None} /\ pc \in [Handlers -> Labels]
             /\ request \in [Handlers -> Request]
             /\ result \in [Handlers -> Answer \cup {None}]

LEMMA ReceivedType ==
  ASSUME TypeOK, NEW f, NEW v
  PROVE  Received(f, v) \in SUBSET Severities
  BY DEF TypeOK, Received, Under, Item

LEMMA RaiseType ==
  ASSUME TypeOK, NEW h \in Handlers, NEW code \in {2, 124}, NEW cur, Raise(h, code, cur)
  PROVE  SessionOK' /\ ScratchOK'
  <1>1. Incomplete(cur) \in SUBSET Severities
    BY ReceivedType DEF Incomplete
  <1>2. (IF request[h].op = "check" THEN Incomplete(cur) ELSE {}) \in SUBSET Severities
    BY <1>1
  <1>3. [exit |-> code, sevs |-> IF request[h].op = "check" THEN Incomplete(cur) ELSE {}]
          \in Answer
    BY <1>2 DEF Answer
  <1>4. result' \in [Handlers -> Answer \cup {None}]
    BY <1>3 DEF TypeOK, Raise
  <1>5. pc' \in [Handlers -> Labels]
    BY DEF TypeOK, Raise, Labels
  <1>6. QED
    BY <1>4, <1>5 DEF TypeOK, Raise, SessionOK, ScratchOK

LEMMA FinishType ==
  ASSUME TypeOK, NEW h \in Handlers, NEW answer \in Answer \cup {None}, Finish(h, answer)
  PROVE  SessionOK' /\ ScratchOK'
  <1>1. pc' \in [Handlers -> Labels]
    BY DEF TypeOK, Finish, Labels
  <1>2. QED
    BY <1>1 DEF TypeOK, Finish, SessionOK, ScratchOK

LEMMA GotoType ==
  ASSUME TypeOK, NEW h \in Handlers, NEW l \in Labels, Goto(h, l)
  PROVE  SessionOK'
  BY DEF TypeOK, Goto, SessionOK

LEMMA CloseType ==
  ASSUME TypeOK, NEW raised \in BOOLEAN, Close(raised)
  PROVE  /\ client' \in Clients \cup {None}
         /\ process' \in [Clients -> {"unused", "fresh", "alive", "leaked", "dead"}]
         /\ documents' \in [Files -> Doc \cup {None}]
         /\ OrderOK'
         /\ versions' \in [Files -> 0..MaxVersion]
         /\ diagnostics' \in SUBSET Item
  <1>1. process' \in [Clients -> {"unused", "fresh", "alive", "leaked", "dead"}]
    <2>1. CASE client = None
      BY <2>1 DEF TypeOK, Close
    <2>2. CASE client # None
      BY <2>2 DEF TypeOK, Close
    <2>3. QED BY <2>1, <2>2
  <1>2. CASE raised
    BY <1>1, <1>2 DEF TypeOK, Close, OrderOK
  <1>3. CASE ~raised
    <2>1. documents' = [f \in Files |-> None] /\ order' = <<>> /\ diagnostics' = {}
      BY <1>3 DEF Close
    <2>2. order' \in Seq(Files) /\ Len(order') = 0 /\ 1..Len(order') = {}
      BY <2>1
    <2>3. OrderOK'
      BY <2>1, <2>2, LspAssumption DEF OrderOK
    <2>4. QED
      BY <1>1, <2>1, <2>3 DEF TypeOK, Close
  <1>4. QED BY <1>2, <1>3

\* What the reader thread and the comprehensions store are Lean's items.
LEMMA FilterType ==
  ASSUME TypeOK, NEW f, StartFilter(f)
  PROVE  ScratchOK' /\ diagnostics' \in SUBSET Item
  BY DEF TypeOK, StartFilter, ScratchOK

\* Recording a document: the file moves to the end of the order.
LEMMA RecordType ==
  ASSUME TypeOK, NEW f \in Files, NEW t \in Texts, NEW v \in Versions,
         documents[f] # None \/ Len(order) < MaxOpenFiles, Record(f, t, v)
  PROVE  /\ documents' \in [Files -> Doc \cup {None}]
         /\ OrderOK'
         /\ versions' \in [Files -> 0..MaxVersion]
  <1> DEFINE doc == [text |-> t, version |-> v]
             rest == IF documents[f] = None THEN order ELSE Dropped(f)
  <1>1. doc \in Doc /\ doc # None
    BY LspAssumption DEF Doc
  <1>2. documents' = [documents EXCEPT ![f] = doc]
    BY DEF Record
  <1>3. /\ rest \in Seq(Files) /\ Len(rest) < MaxOpenFiles
        /\ \A i, j \in 1..Len(rest) : rest[i] = rest[j] => i = j
        /\ \A g \in Files : (\E i \in 1..Len(rest) : rest[i] = g) <=>
                            g # f /\ documents[g] # None
    <2>1. CASE documents[f] = None
      BY <2>1 DEF TypeOK, OrderOK
    <2>2. CASE documents[f] # None
      <3>1. Len(Dropped(f)) = Len(order) - 1 /\ Len(order) <= MaxOpenFiles
            /\ Len(order) \in Nat
        BY <2>2, DroppedProperties DEF TypeOK, OrderOK
      <3>2. Len(Dropped(f)) < MaxOpenFiles
        BY <3>1, LspAssumption
      <3>3. QED
        BY <2>2, <3>2, DroppedProperties DEF TypeOK
    <2>3. QED BY <2>1, <2>2
  <1>4. order' = Append(rest, f)
    BY DEF Record, ToEnd
  <1> HIDE DEF rest, doc
  <1>5. /\ order' \in Seq(Files) /\ Len(order') = Len(rest) + 1
        /\ order'[Len(rest) + 1] = f
        /\ \A i \in 1..Len(rest) : order'[i] = rest[i]
    BY <1>3, <1>4
  <1>6. Len(order') <= MaxOpenFiles
    BY <1>3, <1>5, LspAssumption
  <1>7. \A i, j \in 1..Len(order') : order'[i] = order'[j] => i = j
    BY <1>3, <1>5
  <1>8. ASSUME NEW g \in Files
        PROVE  documents'[g] # None <=> \E i \in 1..Len(order') : order'[i] = g
    <2>1. documents'[g] # None <=> g = f \/ documents[g] # None
      BY <1>1, <1>2 DEF TypeOK
    <2>2. CASE g = f
      BY <2>1, <2>2, <1>3, <1>5
    <2>3. CASE g # f
      <3>1. (\E i \in 1..Len(order') : order'[i] = g) <=> (\E i \in 1..Len(rest) : rest[i] = g)
        BY <2>3, <1>3, <1>5
      <3>2. QED BY <3>1, <2>1, <2>3, <1>3
    <2>4. QED BY <2>2, <2>3
  <1>9. documents' \in [Files -> Doc \cup {None}]
    BY <1>1, <1>2 DEF TypeOK
  <1>10. versions' \in [Files -> 0..MaxVersion]
    BY LspAssumption DEF TypeOK, Record, Versions
  <1>11. QED
    BY <1>5, <1>6, <1>7, <1>8, <1>9, <1>10 DEF OrderOK

-----------------------------------------------------------------------------
(***************************************************************************)
(* TypeOK is not inductive by itself: that a version stays in range, or    *)
(* that the file being checked still has (or lacks) its document, is known *)
(* from where the lock holder is.  CheckData records what a handler inside *)
(* Checker.check may rely on, since it alone changes these tables.         *)
(***************************************************************************)
InCheck == {"init", "place", "evicting", "open", "editing", "wait"}
BeforeOpen == {"begin", "init", "place", "evicting", "open"}

HandlerData(h) ==
  LET f == request[h].uri IN
  /\ pc[h] \in InCheck =>
       /\ request[h] \in CheckRequest
       /\ current \in [uri : Files, version : 0..MaxVersion] /\ current.uri = f
  /\ pc[h] \in BeforeOpen \cup {"editing"} /\ request[h].op = "check" =>
       versions[f] < MaxVersion
  /\ pc[h] \in {"evicting", "open"} => documents[f] = None /\ Len(order) < MaxOpenFiles
  /\ pc[h] = "editing" =>
       /\ current.version = versions[f] + 1
       /\ documents[f] # None \/ Len(order) < MaxOpenFiles
  /\ pc[h] = "wait" => current.version \in Versions

DocVersion == \A f \in Files : documents[f] # None => documents[f].version = versions[f]

CheckData == DocVersion /\ \A h \in Handlers : HandlerData(h)

TypeInv == TypeOK /\ Serialized /\ CheckData

LEMMA NoneIsNoRecord == None \notin Handlers /\ None \notin Clients /\ None \notin Texts
                        /\ None \notin Doc /\ None \notin Worker
  BY LspAssumption DEF Doc, Worker

LEMMA TypeInit == Init => TypeInv
  <1> SUFFICES ASSUME Init PROVE TypeInv
    OBVIOUS
  <1>1. OrderOK
    <2>1. order \in Seq(Files) /\ Len(order) = 0 /\ 1..Len(order) = {}
      BY DEF Init
    <2>2. QED
      BY <2>1, LspAssumption DEF OrderOK, Init
  <1>2. [op |-> "status"] \in Request
    BY DEF Request, OtherRequest
  <1>3. TypeOK
    <2>1. lock \in Handlers \cup {None} /\ client \in Clients \cup {None}
      BY DEF Init
    <2>2. pc \in [Handlers -> Labels]
      BY DEF Init, Labels
    <2>3. request \in [Handlers -> Request] /\ result \in [Handlers -> Answer \cup {None}]
      BY <1>2 DEF Init
    <2>4. documents \in [Files -> Doc \cup {None}] /\ versions \in [Files -> 0..MaxVersion]
      BY LspAssumption DEF Init
    <2>5. process \in [Clients -> {"unused", "fresh", "alive", "leaked", "dead"}]
      BY DEF Init
    <2>6. worker \in [Clients -> [Files -> Worker \cup {None}]]
      BY DEF Init
    <2>7. sent \in [Files -> [Versions -> Texts \cup {None}]]
      BY DEF Init
    <2>8. QED
      BY <1>1, <2>1, <2>2, <2>3, <2>4, <2>5, <2>6, <2>7 DEF Init, TypeOK
  <1>4. Serialized /\ CheckData
    BY DEF Init, Serialized, CheckData, DocVersion, HandlerData, InCheck, BeforeOpen
  <1>5. QED BY <1>3, <1>4 DEF TypeInv

\* What one step of the lock holder gives the others: they are idle, and what
\* the holder changes is not theirs.
LEMMA OthersIdle ==
  ASSUME TypeInv, NEW h \in Handlers, pc[h] # "idle"
  PROVE  lock = h /\ \A k \in Handlers : k # h => pc[k] = "idle"
  BY DEF TypeInv, Serialized

\* CheckData after a step of h is about h alone.
LEMMA HolderOnly ==
  ASSUME TypeInv, NEW h \in Handlers, pc[h] # "idle", DocVersion', HandlerData(h)',
         NEW l \in Labels, pc' = [pc EXCEPT ![h] = l]
  PROVE  CheckData'
  <1>1. \A k \in Handlers : k # h => pc'[k] = "idle"
    BY OthersIdle DEF TypeInv, TypeOK
  <1>2. \A k \in Handlers : k # h => HandlerData(k)'
    BY <1>1 DEF HandlerData, InCheck, BeforeOpen
  <1>3. QED
    BY <1>2 DEF CheckData

\* A handler that leaves the check has nothing to rely on.
LEMMA LeftCheck ==
  ASSUME TypeInv, NEW h \in Handlers, NEW l \in {"idle", "closing", "dropping"},
         pc' = [pc EXCEPT ![h] = l]
  PROVE  HandlerData(h)'
  <1>1. pc'[h] = l
    BY DEF TypeInv, TypeOK
  <1>2. QED
    BY <1>1 DEF HandlerData, InCheck, BeforeOpen

\* A step that leaves the session alone but for these is type correct.
LEMMA TypeAdmit ==
  ASSUME TypeInv, NEW h \in Handlers, NEW r \in Request, Admit(h, r)
  PROVE  TypeOK' /\ CheckData'
  <1> USE DEF TypeInv
  <1>1. pc' = [pc EXCEPT ![h] = "begin"] /\ pc' \in [Handlers -> Labels]
    BY DEF TypeOK, Admit, Labels
  <1>2. TypeOK'
    BY <1>1 DEF TypeOK, Admit, tables, scratch, server, OrderOK
  <1>3. \A k \in Handlers : k # h => pc'[k] = "idle"
    BY LspAssumption DEF Admit, TypeOK, Serialized
  <1>4. \A k \in Handlers : k # h => HandlerData(k)'
    BY <1>3 DEF HandlerData, InCheck, BeforeOpen
  <1>5. HandlerData(h)'
    BY <1>1 DEF TypeOK, Admit, HandlerData, InCheck, BeforeOpen, tables
  <1>6. DocVersion'
    BY DEF CheckData, DocVersion, Admit, tables
  <1>7. QED BY <1>2, <1>4, <1>5, <1>6 DEF CheckData

LEMMA TypeRefuse ==
  ASSUME TypeInv, NEW h \in Handlers, Refuse(h)
  PROVE  TypeOK' /\ CheckData'
  <1>1. Plain(409) \in Answer
    BY DEF Plain, Answer
  <1>2. TypeOK'
    BY <1>1 DEF TypeInv, TypeOK, Refuse, tables, scratch, server, OrderOK
  <1>3. CheckData'
    BY DEF TypeInv, CheckData, DocVersion, HandlerData, Refuse, tables
  <1>4. QED BY <1>2, <1>3

\* Steps that end in an answer or an exception and leave the tables alone.
LEMMA TypeEnding ==
  ASSUME TypeInv, NEW h \in Handlers,
         \/ Status(h) \/ Invalid(h) \/ FilterRaises(h) \/ CloseAbsent(h) \/ CloseDone(h)
         \/ RefuseCheck(h) \/ InitFails(h) \/ Verdict(h) \/ Timeout(h) \/ WaitFails(h)
  PROVE  TypeOK' /\ CheckData'
  <1>1. pc[h] # "idle"
    BY DEF Status, Invalid, FilterRaises, CloseAbsent, CloseDone, RefuseCheck, InitFails, Verdict,
       Timeout, WaitFails, FilterLabels
  <1>2. SessionOK' /\ ScratchOK'
    <2>1. Plain(0) \in Answer
      BY DEF Plain, Answer
    <2>2. [exit |-> IF ErrorSeverity \in Received(current.uri, current.version) THEN 1 ELSE 0,
           sevs |-> Received(current.uri, current.version)] \in Answer
      BY ReceivedType DEF TypeInv, Answer
    <2>3. \/ \E code \in {2, 124}, cur \in {None, current} : Raise(h, code, cur)
          \/ \E answer \in Answer : Finish(h, answer)
      BY <2>1, <2>2 DEF Status, Invalid, FilterRaises, CloseAbsent, CloseDone, RefuseCheck,
         InitFails, Verdict, Timeout, WaitFails
    <2>4. QED
      BY <2>3, RaiseType, FinishType DEF TypeInv
  <1>3. \E l \in {"idle", "closing"} : pc' = [pc EXCEPT ![h] = l]
    BY DEF Status, Invalid, FilterRaises, CloseAbsent, CloseDone, RefuseCheck, InitFails, Verdict,
       Timeout, WaitFails, Raise, Finish
  <1>4. /\ UNCHANGED <<serving, client, documents, order, versions, worker, sent, flight>>
        /\ diagnostics' \in {diagnostics, kept} /\ current' \in {current, None}
        /\ \/ process' = process
           \/ process' = [process EXCEPT ![client] = "alive"]
    BY DEF Status, Invalid, FilterRaises, CloseAbsent, CloseDone, RefuseCheck, InitFails, Verdict,
       Timeout, WaitFails, tables, server
  <1>5. TypeOK'
    BY <1>2, <1>4 DEF TypeInv, TypeOK, OrderOK, SessionOK, ScratchOK
  <1>6. DocVersion'
    BY <1>4 DEF TypeInv, CheckData, DocVersion
  <1>7. CheckData'
    BY <1>1, <1>3, <1>6, HolderOnly, LeftCheck DEF Labels
  <1>8. QED BY <1>5, <1>7

\* Steps that call Checker.close.
LEMMA TypeClosing ==
  ASSUME TypeInv, NEW h \in Handlers, CloseAfterFailure(h) \/ Stop(h)
  PROVE  TypeOK' /\ CheckData'
  <1>1. pc[h] # "idle"
    BY DEF CloseAfterFailure, Stop
  <1>2. PICK raised \in BOOLEAN : Close(raised)
    BY DEF CloseAfterFailure, Stop
  <1>3. SessionOK' /\ ScratchOK'
    <2>1. Plain(0) \in Answer
      BY DEF Plain, Answer
    <2>2. result[h] \in Answer \cup {None}
      BY DEF TypeInv, TypeOK
    <2>3. Raise(h, 2, None) \/ \E answer \in Answer \cup {None} : Finish(h, answer)
      BY <2>1, <2>2 DEF CloseAfterFailure, Stop
    <2>4. QED
      BY <2>3, RaiseType, FinishType DEF TypeInv
  <1>4. \E l \in {"idle", "closing"} : pc' = [pc EXCEPT ![h] = l]
    BY DEF CloseAfterFailure, Stop, Raise, Finish
  <1>5. /\ UNCHANGED <<current, worker, sent, flight>>
        /\ serving' \in {serving, "stopping"}
    BY DEF CloseAfterFailure, Stop
  <1>6. TypeOK'
    BY <1>2, <1>3, <1>5, CloseType DEF TypeInv, TypeOK, SessionOK, ScratchOK
  <1>7. DocVersion'
    <2>1. \A f \in Files : documents'[f] \in {None, documents[f]} /\ versions'[f] = versions[f]
      BY <1>2 DEF Close
    <2>2. QED
      BY <2>1 DEF TypeInv, CheckData, DocVersion
  <1>8. CheckData'
    BY <1>1, <1>4, <1>7, HolderOnly, LeftCheck DEF Labels
  <1>9. QED BY <1>6, <1>8

\* Dropping a document from the table, and a file from the current server.
LEMMA DropType ==
  ASSUME TypeOK, NEW f \in Files, documents[f] # None,
         documents' = [documents EXCEPT ![f] = None],
         NEW rest, order' = rest, rest \in Seq(Files), Len(rest) = Len(order) - 1,
         \A i, j \in 1..Len(rest) : rest[i] = rest[j] => i = j,
         \A g \in Files : (\E i \in 1..Len(rest) : rest[i] = g) <=>
                          g # f /\ documents[g] # None
  PROVE  documents' \in [Files -> Doc \cup {None}] /\ OrderOK' /\ Len(order') < MaxOpenFiles
  <1>1. Len(order) \in Nat /\ Len(order) <= MaxOpenFiles
    BY DEF TypeOK, OrderOK
  <1>2. Len(rest) < MaxOpenFiles
    BY <1>1, LspAssumption
  <1>3. documents' \in [Files -> Doc \cup {None}]
    BY DEF TypeOK
  <1>4. \A g \in Files : documents'[g] # None <=> g # f /\ documents[g] # None
    BY DEF TypeOK
  <1>5. QED
    BY <1>2, <1>3, <1>4, LspAssumption DEF OrderOK

LEMMA WorkerUpdated ==
  ASSUME TypeOK, NEW c, NEW f, NEW w \in Worker \cup {None},
         worker' = [worker EXCEPT ![c][f] = w]
  PROVE  worker' \in [Clients -> [Files -> Worker \cup {None}]]
  <1>1. CASE c \in Clients
    <2> DEFINE row == [worker[c] EXCEPT ![f] = w]
    <2>1. row \in [Files -> Worker \cup {None}]
      BY <1>1 DEF TypeOK
    <2>2. worker' = [worker EXCEPT ![c] = row]
      OBVIOUS
    <2> HIDE DEF row
    <2>3. QED
      BY <2>1, <2>2 DEF TypeOK
  <1>2. CASE c \notin Clients
    BY <1>2 DEF TypeOK
  <1>3. QED BY <1>1, <1>2

LEMMA WorkerClosed ==
  ASSUME TypeOK, NEW f, CloseWorker(f)
  PROVE  worker' \in [Clients -> [Files -> Worker \cup {None}]]
  <1>1. CASE Deliverable
    BY <1>1, WorkerUpdated DEF CloseWorker
  <1>2. CASE ~Deliverable
    BY <1>2 DEF TypeOK, CloseWorker
  <1>3. QED BY <1>1, <1>2

LEMMA TypeCloseOpen ==
  ASSUME TypeInv, NEW h \in Handlers, CloseOpen(h)
  PROVE  TypeOK' /\ CheckData'
  <1> DEFINE f == request[h].uri
  <1>1. pc[h] # "idle" /\ documents[f] # None /\ f \in Files
    BY DEF CloseOpen, TypeInv, TypeOK, Request, CheckRequest, CloseRequest, OtherRequest
  <1>2. UNCHANGED <<serving, client, versions, current, process, sent, flight>>
    BY DEF CloseOpen
  <1>3. CASE Raise(h, 2, None) /\ UNCHANGED <<documents, order, worker, diagnostics>>
    <2>1. SessionOK' /\ ScratchOK'
      BY <1>3, RaiseType DEF TypeInv
    <2>2. TypeOK'
      BY <1>2, <1>3, <2>1 DEF TypeInv, TypeOK, OrderOK, SessionOK, ScratchOK
    <2>3. DocVersion'
      BY <1>2, <1>3 DEF TypeInv, CheckData, DocVersion
    <2>4. pc' = [pc EXCEPT ![h] = "closing"]
      BY <1>3 DEF Raise
    <2>5. QED BY <1>1, <2>2, <2>3, <2>4, HolderOnly, LeftCheck DEF Labels
  <1>4. CASE /\ CloseWorker(f) /\ documents' = [documents EXCEPT ![f] = None]
             /\ order' = Dropped(f) /\ StartFilter(f) /\ Goto(h, "dropping")
    <2>1. SessionOK' /\ ScratchOK' /\ diagnostics' \in SUBSET Item
      BY <1>4, GotoType, FilterType DEF TypeInv, Labels, FilterLabels
    <2>2. documents' \in [Files -> Doc \cup {None}] /\ OrderOK'
      <3> DEFINE rest == Dropped(f)
      <3>1. /\ rest \in Seq(Files) /\ Len(rest) = Len(order) - 1
            /\ \A i, j \in 1..Len(rest) : rest[i] = rest[j] => i = j
            /\ \A g \in Files : (\E i \in 1..Len(rest) : rest[i] = g) <=>
                                g # f /\ documents[g] # None
        BY <1>1, DroppedProperties DEF TypeInv, TypeOK
      <3>2. order' = rest /\ documents' = [documents EXCEPT ![f] = None]
        BY <1>4
      <3> HIDE DEF rest, f
      <3>3. QED
        BY <1>1, <3>1, <3>2, DropType DEF TypeInv
    <2>3. TypeOK'
      BY <1>2, <1>4, <2>1, <2>2, WorkerClosed DEF TypeInv, TypeOK, SessionOK, ScratchOK
    <2>4. DocVersion'
      BY <1>2, <1>4 DEF TypeInv, TypeOK, CheckData, DocVersion
    <2>5. pc' = [pc EXCEPT ![h] = "dropping"]
      BY <1>4 DEF Goto
    <2>6. QED BY <1>1, <2>3, <2>4, <2>5, HolderOnly, LeftCheck DEF Labels, FilterLabels
  <1>5. QED
    BY <1>3, <1>4 DEF CloseOpen

LEMMA TypeBegin ==
  ASSUME TypeInv, NEW h \in Handlers, BeginCheck(h) \/ InitClient(h)
  PROVE  TypeOK' /\ CheckData'
  <1>1. /\ pc[h] \in {"begin", "init"} /\ request[h] \in CheckRequest
        /\ versions[request[h].uri] < MaxVersion
        /\ pc[h] = "init" => current' = current
        /\ pc[h] = "begin" => current' = [uri |-> request[h].uri, version |-> 0]
    BY DEF BeginCheck, InitClient, TypeInv, TypeOK, CheckData, HandlerData, BeforeOpen, InCheck,
       Request, CheckRequest, CloseRequest, OtherRequest
  <1>2. PICK l \in {"init", "place"} : Goto(h, l)
    BY DEF BeginCheck, InitClient
  <1>3. /\ UNCHANGED <<serving, tables, diagnostics, scratch, worker, sent, flight>>
        /\ client' \in Clients \cup {None}
        /\ \/ process' = process
           \/ \E c : process' = [process EXCEPT ![c] = "fresh"]
           \/ \E c : process' = [process EXCEPT ![c] = "alive"]
    BY DEF BeginCheck, InitClient, TypeInv, TypeOK
  <1>4. SessionOK'
    BY <1>2, GotoType DEF TypeInv, Labels
  <1>5. current' \in [uri : Files, version : 0..MaxVersion] /\ current'.uri = request[h].uri
    BY <1>1, LspAssumption DEF TypeInv, CheckData, HandlerData, InCheck, CheckRequest
  <1>6. TypeOK'
    BY <1>3, <1>4, <1>5 DEF TypeInv, TypeOK, OrderOK, SessionOK, tables, scratch
  <1>7. DocVersion'
    BY <1>3 DEF TypeInv, CheckData, DocVersion, tables
  <1>8. pc' = [pc EXCEPT ![h] = l] /\ pc'[h] = l /\ request' = request
    BY <1>2 DEF Goto, TypeInv, TypeOK
  <1>9. HandlerData(h)'
    BY <1>1, <1>3, <1>5, <1>8 DEF HandlerData, InCheck, BeforeOpen, tables
  <1>10. QED BY <1>1, <1>6, <1>7, <1>8, <1>9, HolderOnly DEF Labels

\* What a handler in the middle of a check knows.
LEMMA Checking ==
  ASSUME TypeInv, NEW h \in Handlers, pc[h] \in InCheck
  PROVE  /\ pc[h] # "idle" /\ HandlerData(h)
         /\ current \in [uri : Files, version : 0..MaxVersion]
         /\ current.uri \in Files /\ current.uri = request[h].uri
         /\ request[h].text \in Texts
  BY DEF TypeInv, CheckData, HandlerData, InCheck, CheckRequest

LEMMA TypeEvict ==
  ASSUME TypeInv, NEW h \in Handlers, Evict(h)
  PROVE  TypeOK' /\ CheckData'
  <1> DEFINE f == current.uri
             old == Head(order)
             rest == Tail(order)
  <1>1. /\ pc[h] = "place" /\ documents[f] = None
        /\ documents' = [documents EXCEPT ![old] = None] /\ order' = rest
        /\ UNCHANGED <<serving, client, versions, current, process, sent, flight>>
    BY DEF Evict
  <1>2. /\ pc[h] # "idle" /\ HandlerData(h) /\ f \in Files
        /\ f = request[h].uri /\ request[h].text \in Texts
        /\ request[h] \in CheckRequest
        /\ current \in [uri : Files, version : 0..MaxVersion]
    BY <1>1, Checking DEF InCheck, HandlerData
  <1>3. order # <<>>
    BY LspAssumption DEF Evict, Full
  <1>4. documents' \in [Files -> Doc \cup {None}] /\ OrderOK' /\ Len(order') < MaxOpenFiles
    <2>1. /\ old \in Files /\ documents[old] # None
          /\ rest \in Seq(Files) /\ Len(rest) = Len(order) - 1
          /\ \A i, j \in 1..Len(rest) : rest[i] = rest[j] => i = j
          /\ \A g \in Files : (\E i \in 1..Len(rest) : rest[i] = g) <=>
                              g # old /\ documents[g] # None
      BY <1>3, TailProperties DEF TypeInv, TypeOK
    <2> HIDE DEF rest, old
    <2>2. QED
      BY <1>1, <2>1, DropType DEF TypeInv
  <1>5. DocVersion'
    BY <1>1 DEF TypeInv, TypeOK, CheckData, DocVersion
  <1>6. documents'[f] = None
    BY <1>1, <1>2 DEF TypeInv, TypeOK
  <1>7. CASE Raise(h, 2, current) /\ UNCHANGED <<worker, diagnostics>>
    <2>1. SessionOK' /\ ScratchOK'
      BY <1>7, RaiseType DEF TypeInv
    <2>2. TypeOK'
      BY <1>1, <1>4, <1>7, <2>1 DEF TypeInv, TypeOK, SessionOK, ScratchOK
    <2>3. pc' = [pc EXCEPT ![h] = "closing"]
      BY <1>7 DEF Raise
    <2>4. QED BY <1>2, <1>5, <2>2, <2>3, HolderOnly, LeftCheck DEF Labels
  <1>8. CASE CloseWorker(old) /\ StartFilter(old) /\ Goto(h, "evicting")
    <2>1. SessionOK' /\ ScratchOK' /\ diagnostics' \in SUBSET Item
      BY <1>8, GotoType, FilterType DEF TypeInv, Labels, FilterLabels
    <2>2. worker' \in [Clients -> [Files -> Worker \cup {None}]]
      BY <1>8, WorkerClosed DEF TypeInv
    <2>3. TypeOK'
      BY <1>1, <1>4, <2>1, <2>2 DEF TypeInv, TypeOK, SessionOK, ScratchOK
    <2>4. pc' = [pc EXCEPT ![h] = "evicting"] /\ pc'[h] = "evicting" /\ request' = request
      BY <1>8 DEF Goto, TypeInv, TypeOK
    <2>5. HandlerData(h)'
      BY <1>1, <1>2, <1>4, <1>6, <2>4 DEF HandlerData, InCheck, BeforeOpen
    <2>6. QED BY <1>2, <1>5, <2>3, <2>4, <2>5, HolderOnly DEF Labels, FilterLabels
  <1>9. QED
    BY <1>7, <1>8 DEF Evict

LEMMA TypeEvicted ==
  ASSUME TypeInv, NEW h \in Handlers, Evicted(h)
  PROVE  TypeOK' /\ CheckData'
  <1>1. pc[h] = "evicting" /\ Goto(h, "open") /\ diagnostics' = kept
        /\ UNCHANGED <<serving, client, tables, current, server, flight>>
    BY DEF Evicted, Rebind
  <1>2. SessionOK' /\ ScratchOK'
    BY <1>1, GotoType DEF TypeInv, TypeOK, Labels, Evicted, Rebind, ScratchOK
  <1>3. TypeOK'
    BY <1>1, <1>2 DEF TypeInv, TypeOK, SessionOK, ScratchOK, OrderOK, tables, server
  <1>4. DocVersion'
    BY <1>1 DEF TypeInv, CheckData, DocVersion, tables
  <1>5. pc' = [pc EXCEPT ![h] = "open"] /\ pc'[h] = "open" /\ request' = request
    BY <1>1 DEF Goto, TypeInv, TypeOK
  <1>6. HandlerData(h)'
    BY <1>1, <1>5 DEF TypeInv, CheckData, HandlerData, InCheck, BeforeOpen, tables
  <1>7. QED BY <1>1, <1>3, <1>4, <1>5, <1>6, HolderOnly DEF Labels

LEMMA TypeStartEdit ==
  ASSUME TypeInv, NEW h \in Handlers, StartEdit(h)
  PROVE  TypeOK' /\ CheckData'
  <1> DEFINE f == current.uri
  <1>1. /\ pc[h] = "place" /\ documents[f] # None /\ StartFilter(f) /\ Goto(h, "editing")
        /\ current' = [current EXCEPT !.version = documents[f].version + 1]
        /\ UNCHANGED <<serving, client, tables, server, flight>>
    BY DEF StartEdit
  <1>2. /\ pc[h] # "idle" /\ HandlerData(h) /\ f \in Files
        /\ f = request[h].uri /\ request[h] \in CheckRequest
        /\ current \in [uri : Files, version : 0..MaxVersion]
    BY <1>1, Checking DEF InCheck, HandlerData
  <1>3. documents[f].version = versions[f] /\ versions[f] < MaxVersion /\ versions[f] \in Nat
    BY <1>1, <1>2 DEF TypeInv, TypeOK, CheckData, DocVersion, HandlerData, BeforeOpen, CheckRequest
  <1>4. documents[f].version + 1 \in 0..MaxVersion
    BY <1>3, LspAssumption
  <1>5. /\ current' \in [uri : Files, version : 0..MaxVersion] /\ current'.uri = f
        /\ current'.version = documents[f].version + 1
    BY <1>1, <1>2, <1>4
  <1>6. SessionOK' /\ ScratchOK' /\ diagnostics' \in SUBSET Item
    BY <1>1, GotoType, FilterType DEF TypeInv, Labels, FilterLabels
  <1>7. TypeOK'
    BY <1>1, <1>5, <1>6 DEF TypeInv, TypeOK, SessionOK, ScratchOK, OrderOK, tables, server
  <1>8. DocVersion'
    BY <1>1 DEF TypeInv, CheckData, DocVersion, tables
  <1>9. pc' = [pc EXCEPT ![h] = "editing"] /\ pc'[h] = "editing" /\ request' = request
    BY <1>1 DEF Goto, TypeInv, TypeOK
  <1>10. HandlerData(h)'
    BY <1>1, <1>2, <1>3, <1>5, <1>9 DEF HandlerData, InCheck, BeforeOpen, tables
  <1>11. QED BY <1>2, <1>7, <1>8, <1>9, <1>10, HolderOnly DEF Labels, FilterLabels

\* A version is delivered, recorded and waited for.
LEMMA TypeRecorded ==
  ASSUME TypeInv, NEW h \in Handlers, NEW v \in Versions,
         pc[h] \in {"place", "open", "editing"},
         documents[current.uri] # None \/ Len(order) < MaxOpenFiles,
         Record(current.uri, request[h].text, v), Goto(h, "wait"), ScratchOK',
         \/ current' = [current EXCEPT !.version = v]
         \/ current' = current /\ current.version = v,
         \/ UNCHANGED <<worker, sent>>
         \/ Load(current.uri, request[h].text, v),
         diagnostics' \in SUBSET Item,
         UNCHANGED <<serving, client, process, flight>>
  PROVE  TypeOK' /\ CheckData'
  <1> DEFINE f == current.uri
             t == request[h].text
  <1>1. /\ pc[h] # "idle" /\ HandlerData(h) /\ f \in Files /\ t \in Texts
        /\ f = request[h].uri /\ request[h] \in CheckRequest
        /\ current \in [uri : Files, version : 0..MaxVersion]
    BY Checking DEF InCheck, HandlerData
  <1>2. current' \in [uri : Files, version : 0..MaxVersion] /\ current'.uri = f
        /\ current'.version = v
    BY <1>1 DEF Versions
  <1>3. /\ documents' \in [Files -> Doc \cup {None}] /\ OrderOK'
        /\ versions' \in [Files -> 0..MaxVersion]
    BY <1>1, RecordType DEF TypeInv
  <1>4. worker' \in [Clients -> [Files -> Worker \cup {None}]]
    <2>1. CASE UNCHANGED worker
      BY <2>1 DEF TypeInv, TypeOK
    <2>2. CASE worker' = [worker EXCEPT ![client][f] = [text |-> t, version |-> v, done |-> 0]]
      <3>1. [text |-> t, version |-> v, done |-> 0] \in Worker
        BY <1>1 DEF Worker
      <3>2. QED
        BY <2>2, <3>1, WorkerUpdated DEF TypeInv
    <2>3. QED BY <2>1, <2>2 DEF Load
  <1>5. sent' \in [Files -> [Versions -> Texts \cup {None}]]
    <2>1. CASE UNCHANGED sent
      BY <2>1 DEF TypeInv, TypeOK
    <2>2. CASE sent' = [sent EXCEPT ![f][v] = t]
      BY <1>1, <2>2 DEF TypeInv, TypeOK
    <2>3. QED BY <2>1, <2>2 DEF Load
  <1>6. SessionOK'
    BY GotoType DEF TypeInv, Labels
  <1>7. TypeOK'
    BY <1>2, <1>3, <1>4, <1>5, <1>6 DEF TypeInv, TypeOK, SessionOK, ScratchOK
  <1>8. DocVersion'
    BY <1>1 DEF TypeInv, TypeOK, CheckData, DocVersion, Record
  <1>9. pc' = [pc EXCEPT ![h] = "wait"] /\ pc'[h] = "wait" /\ request' = request
    BY DEF Goto, TypeInv, TypeOK
  <1>10. HandlerData(h)'
    BY <1>1, <1>2, <1>9 DEF HandlerData, InCheck, BeforeOpen
  <1>11. QED BY <1>1, <1>7, <1>8, <1>9, <1>10, HolderOnly DEF Labels

\* The notification could not be sent.
LEMMA TypeSendFails ==
  ASSUME TypeInv, NEW h \in Handlers, NEW v \in Versions,
         pc[h] \in {"place", "open", "editing"}, SendFails(h, v),
         \/ current' = [current EXCEPT !.version = v]
         \/ current' = current,
         diagnostics' \in SUBSET Item,
         UNCHANGED <<serving, client, process, flight>>
  PROVE  TypeOK' /\ CheckData'
  <1>1. pc[h] # "idle" /\ current \in [uri : Files, version : 0..MaxVersion]
    BY Checking DEF InCheck
  <1>2. current' \in [uri : Files, version : 0..MaxVersion]
    BY <1>1 DEF Versions
  <1>3. SessionOK' /\ ScratchOK'
    BY RaiseType DEF TypeInv, SendFails
  <1>4. TypeOK'
    BY <1>2, <1>3 DEF TypeInv, TypeOK, SendFails, SessionOK, ScratchOK, OrderOK, tables
  <1>5. DocVersion'
    BY DEF TypeInv, CheckData, DocVersion, SendFails, tables
  <1>6. pc' = [pc EXCEPT ![h] = "closing"]
    BY DEF SendFails, Raise
  <1>7. QED BY <1>1, <1>4, <1>5, <1>6, HolderOnly, LeftCheck DEF Labels

LEMMA TypeSend ==
  ASSUME TypeInv, NEW h \in Handlers, Open(h) \/ Reuse(h) \/ Edit(h)
  PROVE  TypeOK' /\ CheckData'
  <1> DEFINE f == current.uri
             t == request[h].text
  <1>1. /\ pc[h] \in {"place", "open", "editing"}
        /\ UNCHANGED <<serving, client, process, flight>>
        /\ diagnostics' \in SUBSET Item
    BY DEF Open, Reuse, Edit, TypeInv, TypeOK, server
  <1>2. /\ HandlerData(h) /\ f \in Files /\ t \in Texts
        /\ f = request[h].uri /\ request[h] \in CheckRequest
        /\ current \in [uri : Files, version : 0..MaxVersion]
        /\ versions[f] \in 0..MaxVersion
    BY <1>1, Checking DEF InCheck, HandlerData, TypeInv, TypeOK
  <1>3. CASE Open(h)
    <2> DEFINE v == NextVersion(f)
    <2>1. pc[h] \in {"place", "open"} /\ current' = [current EXCEPT !.version = v]
      BY <1>3 DEF Open
    <2>2. v \in Versions
      BY <1>2, <2>1, LspAssumption DEF HandlerData, BeforeOpen, Versions, NextVersion, CheckRequest
    <2>3. documents[f] # None \/ Len(order) < MaxOpenFiles
      BY <1>2, <1>3, LspAssumption DEF Open, HandlerData, Full, TypeInv, TypeOK, OrderOK
    <2>4. CASE SendFails(h, v)
      BY <1>1, <2>1, <2>2, <2>4, TypeSendFails
    <2>5. CASE Load(f, t, v) /\ Record(f, t, v) /\ Wait(h)
      <3>1. ScratchOK' /\ Goto(h, "wait")
        BY <2>5 DEF Wait, ScratchOK, TypeInv, TypeOK
      <3> HIDE DEF v
      <3>2. QED BY <1>1, <2>1, <2>2, <2>3, <2>5, <3>1, TypeRecorded
    <2>6. QED BY <1>3, <2>4, <2>5 DEF Open
  <1>4. CASE Reuse(h)
    <2> DEFINE v == documents[f].version
    <2>1. /\ current' = [current EXCEPT !.version = v] /\ documents[f] # None
          /\ Record(f, t, v) /\ Wait(h) /\ UNCHANGED <<worker, sent>>
      BY <1>4 DEF Reuse, server
    <2>2. v \in Versions
      BY <1>2, <2>1 DEF TypeInv, TypeOK, Doc
    <2>3. ScratchOK' /\ Goto(h, "wait")
      BY <2>1 DEF Wait, ScratchOK, TypeInv, TypeOK
    <2> HIDE DEF v
    <2>4. QED BY <1>1, <2>1, <2>2, <2>3, TypeRecorded
  <1>5. CASE Edit(h)
    <2> DEFINE v == current.version
    <2>1. pc[h] = "editing" /\ current' = current
      BY <1>5 DEF Edit
    <2>2. /\ v = versions[f] + 1 /\ versions[f] < MaxVersion
          /\ documents[f] # None \/ Len(order) < MaxOpenFiles
      BY <1>2, <2>1 DEF HandlerData, CheckRequest
    <2>3. v \in Versions
      BY <1>2, <2>2, LspAssumption DEF Versions
    <2>4. CASE SendFails(h, v)
      BY <1>1, <2>1, <2>3, <2>4, TypeSendFails
    <2>5. CASE /\ UNCHANGED <<worker, sent>> \/ Load(f, t, v)
               /\ client # None /\ Record(f, t, v) /\ Goto(h, "wait") /\ ScratchOK'
      <3> DEFINE w == v
      <3>1. w \in Versions /\ current.version = w /\ Record(f, t, w)
            /\ (UNCHANGED <<worker, sent>> \/ Load(f, t, w))
        BY <2>3, <2>5
      <3> HIDE DEF w
      <3>2. QED BY <1>1, <2>1, <2>2, <2>5, <3>1, TypeRecorded
    <2>6. QED
      <3>1. Edit(h) => \/ SendFails(h, v)
                       \/ /\ UNCHANGED <<worker, sent>> \/ Load(f, t, v)
                          /\ client # None
                          /\ Record(f, t, v) /\ Goto(h, "wait") /\ ScratchOK'
        BY DEF Edit, ScratchOK, Deliverable
      <3>2. QED BY <1>5, <2>4, <2>5, <3>1
  <1>6. QED BY <1>3, <1>4, <1>5

\* The reader thread and the Lean server leave the session and its tables alone.
LEMMA TypeEnvironment ==
  ASSUME TypeInv,
         \/ Shutdown
         \/ \E m \in flight : OnDiagnostics(m)
         \/ Lean
  PROVE  TypeOK' /\ CheckData'
  <1>1. /\ UNCHANGED <<lock, pc, request, result, client, tables, current>>
        /\ serving' \in {serving, "no"}
    BY DEF Shutdown, OnDiagnostics, Lean, Publish, Acknowledge, Crash, session
  <1>2. CheckData'
    BY <1>1 DEF TypeInv, CheckData, DocVersion, HandlerData, tables
  <1>3. ASSUME Shutdown PROVE TypeOK'
    BY <1>1, <1>3 DEF Shutdown, TypeInv, TypeOK, OrderOK, tables, scratch, server
  <1>4. ASSUME NEW m \in flight, OnDiagnostics(m)
        PROVE  TypeOK'
    <2>1. diagnostics' \in SUBSET Item /\ kept' \in SUBSET Item /\ flight' \in SUBSET Item
      BY <1>4 DEF OnDiagnostics, Store, Under, TypeInv, TypeOK
    <2>2. resized' \in BOOLEAN /\ UNCHANGED <<serving, ask, process, worker, sent>>
      BY <1>4 DEF OnDiagnostics, session, server
    <2>3. QED
      BY <1>1, <2>1, <2>2 DEF TypeInv, TypeOK, OrderOK, tables
  <1>5. ASSUME NEW c \in Clients, NEW f \in Files, Publish(c, f)
        PROVE  TypeOK'
    <2> DEFINE w == worker[c][f]
               i == w.done + 1
               x == [uri |-> f, version |-> w.version, idx |-> i, sev |-> Items[w.text][i]]
    <2>1. w \in Worker
      BY <1>5 DEF Publish, TypeInv, TypeOK
    <2>2. i \in Nat \ {0} /\ i \in 1..Len(Items[w.text]) /\ Items[w.text] \in Seq(Severities)
      BY <1>5, <2>1, LspAssumption DEF Publish, Worker
    <2>3. x \in Item
      BY <2>1, <2>2 DEF Item, Worker
    <2>4. flight' = flight \cup {x}
      BY <1>5 DEF Publish
    <2>5. [w EXCEPT !.done = i] \in Worker
      BY <2>1, <2>2 DEF Worker
    <2>6. worker' = [worker EXCEPT ![c][f] = [w EXCEPT !.done = i]]
      BY <1>5 DEF Publish
    <2> HIDE DEF x, w, i
    <2>7. worker' \in [Clients -> [Files -> Worker \cup {None}]]
      BY <2>5, <2>6, WorkerUpdated DEF TypeInv
    <2>8. UNCHANGED <<serving, diagnostics, scratch, process, sent>>
      BY <1>5 DEF Publish, session
    <2>9. QED
      BY <1>1, <2>3, <2>4, <2>7, <2>8 DEF TypeInv, TypeOK, OrderOK, tables, scratch
  <1>6. ASSUME Acknowledge PROVE TypeOK'
    BY <1>1, <1>6 DEF Acknowledge, TypeInv, TypeOK, OrderOK, tables, session, server
  <1>7. ASSUME NEW c \in Clients, Crash(c)
        PROVE  TypeOK'
    BY <1>1, <1>7 DEF Crash, TypeInv, TypeOK, OrderOK, tables, session, scratch
  <1>8. QED
    BY <1>2, <1>3, <1>4, <1>5, <1>6, <1>7 DEF Lean

LEMMA TypeNext == TypeInv /\ [Next]_vars => TypeInv'
  <1> SUFFICES ASSUME TypeInv, [Next]_vars PROVE TypeInv'
    OBVIOUS
  <1>1. Serialized'
    BY PcNext DEF TypeInv, TypeOK, PcOK
  <1>2. ASSUME NEW h \in Handlers, NEW r \in Request, Admit(h, r) PROVE TypeOK' /\ CheckData'
    BY <1>2, TypeAdmit
  <1>3. ASSUME NEW h \in Handlers, Refuse(h) PROVE TypeOK' /\ CheckData'
    BY <1>3, TypeRefuse
  <1>4. ASSUME NEW h \in Handlers, HandlerStep(h) PROVE TypeOK' /\ CheckData'
    BY <1>4, TypeEnding, TypeClosing, TypeCloseOpen, TypeBegin, TypeEvict, TypeEvicted,
       TypeStartEdit, TypeSend DEF HandlerStep
  <1>5. ASSUME UNCHANGED vars PROVE TypeOK' /\ CheckData'
    <2>1. TypeOK'
      BY <1>5 DEF vars, session, tables, scratch, server, TypeInv, TypeOK, OrderOK
    <2>2. CheckData'
      BY <1>5 DEF vars, session, tables, TypeInv, CheckData, DocVersion, HandlerData
    <2>3. QED BY <2>1, <2>2
  <1>6. TypeOK' /\ CheckData'
    BY <1>2, <1>3, <1>4, <1>5, TypeEnvironment DEF Next
  <1>7. QED
    BY <1>1, <1>6 DEF TypeInv

\* Every variable of the checker keeps its type, and the order of the document
\* table keeps listing its files, whatever handlers, reader and Lean do.
THEOREM TypeCorrect == Spec => []TypeOK
  <1>1. TypeInv => TypeOK
    BY DEF TypeInv
  <1>2. QED
    BY TypeInit, TypeNext, <1>1, PTL DEF Spec
=============================================================================
