-------------------------------- MODULE Ledger --------------------------------
(***************************************************************************)
(* scripts/ledger-sync.py: the companion repository's event log, the       *)
(* snapshot of it that this repository commits, and the nodes that the     *)
(* blueprint cites.  refresh replays the log, says which cited nodes       *)
(* changed, and rewrites the snapshot; check reads the snapshot.           *)
(*                                                                         *)
(* A statement stands for its digest.  The log, the annotations and the    *)
(* repair of a snapshot from git are other people's.                       *)
(***************************************************************************)
EXTENDS Integers, Sequences, FiniteSets

CONSTANTS
  LedgerIds,    \* node identifiers
  Statements,   \* what a node may say
  Taints,
  DepLists,     \* the sets of dependencies a node may declare
  MaxEvents,    \* bound of the model: events in the log
  MaxCounter,   \* bound of the model: challenges and amendments of one node
  None,         \* no record, no taint, no new statement
  Unreadable    \* what json.load refuses

VARIABLES
  log,        \* the companion's events, in the order of their file names
  snapshot,   \* planning/ledger-index.json: id -> record, or Unreadable
  committed,  \* the snapshot last committed
  cited,      \* the nodes named by \ledgernode
  shown,      \* shown[n]: records of n that a person looked at while citing it
  fresh,      \* what a running refresh replayed
  pc          \* "idle", or refresh is at "report", "truncated"

ledger == <<log, snapshot, committed, cited, shown, fresh, pc>>

-----------------------------------------------------------------------------
(* read_ledger: all creations first, then the other events in order.       *)

Transition == [node_validated |-> "validated", node_admitted |-> "admitted",
               node_unvalidated |-> "created", node_unadmitted |-> "created"]

Created(e) == [state |-> "created", challenges |-> 0, amended |-> 0, archived |-> FALSE,
               taint |-> None, deps |-> e.deps, statement |-> e.statement]

Create(nodes, e) ==
  IF e.type = "node_created"
  THEN [n \in DOMAIN nodes \cup {e.id} |-> IF n = e.id THEN Created(e) ELSE nodes[n]]
  ELSE nodes

Change(r, e) ==
  CASE e.type \in DOMAIN Transition -> [r EXCEPT !.state = Transition[e.type]]
    [] e.type = "challenge_raised" -> [r EXCEPT !.challenges = @ + 1]
    [] e.type = "node_archived" -> [r EXCEPT !.archived = TRUE]
    [] e.type = "taint_recomputed" -> [r EXCEPT !.taint = e.taint]
    [] e.type = "node_deps_amended" -> [r EXCEPT !.deps = e.deps]
    [] e.type = "node_amended" ->
         [r EXCEPT !.amended = @ + 1,
                   !.statement = IF e.statement = None THEN @ ELSE e.statement]
    [] OTHER -> r

ApplyAmendOnly(nodes, e) ==   \* mutant: the deps of 0.1.7+mipre.deps1 are not read
  IF e.id \in DOMAIN nodes /\ e.type # "node_deps_amended"
  THEN [nodes EXCEPT ![e.id] = Change(@, e)] ELSE nodes
Apply(nodes, e) ==
  IF e.id \in DOMAIN nodes THEN [nodes EXCEPT ![e.id] = Change(@, e)] ELSE nodes

NoNodes == [n \in {} |-> None]

\* What the nodes are after each event of the two passes.
Creations(events) ==
  LET nodes[k \in 0..Len(events)] ==
        IF k = 0 THEN NoNodes ELSE Create(nodes[k - 1], events[k])
  IN  nodes

Changed(events) ==
  LET nodes[k \in 0..Len(events)] ==
        IF k = 0 THEN Creations(events)[Len(events)] ELSE Apply(nodes[k - 1], events[k])
  IN  nodes

Replay(events) == Changed(events)[Len(events)]

-----------------------------------------------------------------------------
(* refresh.                                                                *)

Record(nodes, n) == IF n \in DOMAIN nodes THEN nodes[n] ELSE None

\* added, removed and changed nodes of the two snapshots.
DifferCommon(old, new) ==   \* mutant: added and removed nodes are not compared
  {n \in DOMAIN old \cap DOMAIN new : old[n] # new[n]}
Differ(old, new) ==
  {n \in DOMAIN old \cup DOMAIN new : Record(old, n) # Record(new, n)}

StartRefresh ==
  /\ pc = "idle" /\ log # <<>>
  /\ fresh' = Replay(log) /\ pc' = "report"
  /\ UNCHANGED <<log, snapshot, committed, cited, shown>>

\* json.load of an unreadable snapshot ends the run before anything is written.
RefreshFails ==
  /\ pc = "report" /\ snapshot = Unreadable
  /\ pc' = "idle" /\ fresh' = NoNodes
  /\ UNCHANGED <<log, snapshot, committed, cited, shown>>

\* The flagged nodes are printed, then open(SNAPSHOT, "w") empties the file.
ReportAfterwards ==   \* mutant: the file is opened before the report
  /\ pc = "report" /\ snapshot # Unreadable
  /\ snapshot' = Unreadable /\ pc' = "truncated"
  /\ UNCHANGED <<log, committed, cited, shown, fresh>>
Report ==
  /\ pc = "report" /\ snapshot # Unreadable
  /\ shown' = [n \in LedgerIds |-> IF n \in cited \cap Differ(snapshot, fresh)
                             THEN shown[n] \cup {Record(fresh, n)} ELSE shown[n]]
  /\ snapshot' = Unreadable /\ pc' = "truncated"
  /\ UNCHANGED <<log, committed, cited, fresh>>

Write ==
  /\ pc = "truncated"
  /\ snapshot' = fresh /\ pc' = "idle" /\ fresh' = NoNodes
  /\ UNCHANGED <<log, committed, cited, shown>>

\* Ctrl-C, or the machine stops.
Crash ==
  /\ pc # "idle"
  /\ pc' = "idle" /\ fresh' = NoNodes
  /\ UNCHANGED <<log, snapshot, committed, cited, shown>>

-----------------------------------------------------------------------------
(* check, which changes nothing.                                           *)

Unknown == {n \in cited : n \notin DOMAIN snapshot}   \* mutant: archived nodes pass
Problems == {n \in cited : n \in DOMAIN snapshot => snapshot[n].archived}

-----------------------------------------------------------------------------
(* Around it: the companion repository, git, and the blueprint's author.   *)

WellFormed(e) ==
  LET known == {log[i].id : i \in {j \in DOMAIN log : log[j].type = "node_created"}}
      count(t) == Cardinality({i \in DOMAIN log : log[i].type = t /\ log[i].id = e.id})
  IN  IF e.type = "node_created" THEN e.id \notin known
      ELSE e.id \in known /\ count(e.type) < MaxCounter

Event ==
  LET of(t) == {[type |-> t, id |-> n] : n \in LedgerIds}
  IN  {[type |-> "node_created", id |-> n, statement |-> s, deps |-> d] :
         n \in LedgerIds, s \in Statements, d \in DepLists}
      \cup (UNION {of(t) : t \in DOMAIN Transition \cup {"challenge_raised", "node_archived"}})
      \cup {[type |-> "taint_recomputed", id |-> n, taint |-> t] : n \in LedgerIds, t \in Taints}
      \cup {[type |-> "node_deps_amended", id |-> n, deps |-> d] : n \in LedgerIds, d \in DepLists}
      \cup {[type |-> "node_amended", id |-> n, statement |-> s] :
              n \in LedgerIds, s \in Statements \cup {None}}

Upstream(e) ==
  /\ Len(log) < MaxEvents /\ WellFormed(e)
  /\ log' = Append(log, e)
  /\ UNCHANGED <<snapshot, committed, cited, shown, fresh, pc>>

\* An author cites a node as the committed snapshot has it.
Cite(n) ==
  /\ pc = "idle" /\ snapshot = committed /\ n \notin cited
  /\ cited' = cited \cup {n}
  /\ shown' = [shown EXCEPT ![n] = {Record(snapshot, n)}]
  /\ UNCHANGED <<log, snapshot, committed, fresh, pc>>

Uncite(n) ==
  /\ pc = "idle" /\ n \in cited
  /\ cited' = cited \ {n} /\ shown' = [shown EXCEPT ![n] = {}]
  /\ UNCHANGED <<log, snapshot, committed, fresh, pc>>

Commit ==
  /\ pc = "idle" /\ snapshot # Unreadable /\ committed # snapshot
  /\ committed' = snapshot
  /\ UNCHANGED <<log, snapshot, cited, shown, fresh, pc>>

Restore ==
  /\ pc = "idle" /\ snapshot = Unreadable
  /\ snapshot' = committed
  /\ UNCHANGED <<log, committed, cited, shown, fresh, pc>>

-----------------------------------------------------------------------------
LedgerInit ==
  /\ log = <<>> /\ snapshot = NoNodes /\ committed = NoNodes
  /\ cited = {} /\ shown = [n \in LedgerIds |-> {}]
  /\ fresh = NoNodes /\ pc = "idle"

LedgerNext ==
  \/ StartRefresh \/ RefreshFails \/ Report \/ Write \/ Crash
  \/ \E e \in Event : Upstream(e)
  \/ \E n \in LedgerIds : Cite(n) \/ Uncite(n)
  \/ Commit \/ Restore

LedgerSpec == LedgerInit /\ [][LedgerNext]_ledger

-----------------------------------------------------------------------------
Records == [state : {"created", "validated", "admitted"}, challenges : 0..MaxCounter,
            amended : 0..MaxCounter, archived : BOOLEAN, taint : Taints \cup {None},
            deps : DepLists, statement : Statements]

ASSUME LedgerAssumption == MaxCounter \in Nat /\ None \notin Statements \cup Records

IsSnapshot(s) == DOMAIN s \subseteq LedgerIds /\ \A n \in DOMAIN s : s[n] \in Records

\* Every variable has its type: a node always says something, whatever was amended.
LedgerTypeOK ==
  /\ snapshot # Unreadable => IsSnapshot(snapshot)
  /\ IsSnapshot(committed) /\ IsSnapshot(fresh)
  /\ cited \subseteq LedgerIds /\ \A n \in LedgerIds : shown[n] \subseteq Records \cup {None}
  /\ pc \in {"idle", "report", "truncated"}

Events(n, types) == {i \in DOMAIN log : log[i].id = n /\ log[i].type \in types}
Changes(n) == Events(n, {"node_created", "node_amended"})
Latest(S) == CHOOSE i \in S : \A j \in S : j <= i

\* The replay of a log, in which nodes are created once and first, says of each
\* node what the latest event on the matter says, although it reads all creations
\* before the rest; and the snapshots hold such records.
ReplayIsLatest ==
  LedgerTypeOK /\ \A n \in {log[i].id : i \in DOMAIN log} :
    LET r == Replay(log)[n]
        transitions == Events(n, DOMAIN Transition)
        lists == Events(n, {"node_created", "node_deps_amended"})
        texts == {i \in Changes(n) : log[i].statement # None}
        taints == Events(n, {"taint_recomputed"})
    IN  /\ r.state = IF transitions = {} THEN "created"
                     ELSE Transition[log[Latest(transitions)].type]
        /\ r.deps = log[Latest(lists)].deps
        /\ r.statement = log[Latest(texts)].statement
        /\ r.taint = IF taints = {} THEN None ELSE log[Latest(taints)].taint
        /\ r.archived <=> Events(n, {"node_archived"}) # {}
        /\ r.challenges = Cardinality(Events(n, {"challenge_raised"}))
        /\ r.amended = Cardinality(Events(n, {"node_amended"}))

\* Of each cited node the snapshot holds a record that somebody was shown.
RecordsWereShown ==
  snapshot # Unreadable => \A n \in cited : Record(snapshot, n) \in shown[n]

\* check speaks of the ledger, though it reads the snapshot.  When it passes, somebody
\* has seen each cited node while it was live; a node that it reports is archived in
\* the ledger itself, for good, or the snapshot has not heard of it.
ChecksAreRight ==
  snapshot # Unreadable =>
    /\ Problems = {} => \A n \in cited : \E r \in shown[n] : r # None /\ ~r.archived
    /\ \A n \in Problems \cap DOMAIN snapshot : Replay(log)[n].archived

\* "A node whose statement changed under a blueprint statement that cites it is
\* exactly the case a human has to look at": the snapshot never holds a record of
\* a cited node that nobody was shown, however refreshes are cut short, repeated
\* or undone, and what check says of the cited nodes is true.
CitedRecordsWereShown == RecordsWereShown /\ ChecksAreRight
=============================================================================
