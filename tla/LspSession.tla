------------------------------ MODULE LspSession ------------------------------
(***************************************************************************)
(* The life of one session of scripts/lean-lsp-check.py: the processes     *)
(* that run "start", the helpers that run "serve", and the state file they *)
(* share, lean-lsp-state.json.  What a helper does with a request is the   *)
(* business of LeanLspChecker; here a helper boots, creates the file,      *)
(* serves, and leaves.                                                     *)
(*                                                                         *)
(* Any process may die at any time.  Removing a stale file by hand is the  *)
(* documented recovery: one operator looks the PID up, then removes it.    *)
(***************************************************************************)
EXTENDS Integers, FiniteSets

CONSTANTS
  Starters,   \* the callers of "start"
  Helpers,    \* the processes that may run "serve"; a PID is not used twice
  NoOne

ASSUME SessionAssumption ==
  NoOne \notin Helpers \cup [pid : Helpers, written : BOOLEAN]

VARIABLES
  file,       \* STATE: NoOne, or whose it is and whether its JSON is written
  helper,     \* helper[p]: where process p is
  starter,    \* starter[s]: where a call of "start" is, or how it returned
  child,      \* child[s]: the process s launched
  verified    \* the dead owner whose file the operator is about to remove

sessions == <<file, helper, starter, child, verified>>

File == [pid : Helpers, written : BOOLEAN]

\* A helper between creating the file and unlinking it.
Holding == {"writing", "serving", "stopping", "closing", "unlinking"}
Places == {"absent", "booting", "gone"} \cup Holding

Returned == {"idle", "refused", "succeeded", "failed"}
Stages == {"launching", "polling", "failing"} \cup Returned

Move(p, from, to) ==
  /\ helper[p] = from
  /\ helper' = [helper EXCEPT ![p] = to]

(***************************************************************************)
(* serve                                                                   *)
(***************************************************************************)
\* "serve" in the foreground.
Serve(p) ==
  /\ Move(p, "absent", "booting")
  /\ UNCHANGED <<file, starter, child, verified>>

CreateInAnyCase(p) ==   \* mutant: STATE.open("w")
  /\ file' = [pid |-> p, written |-> FALSE]
  /\ Move(p, "booting", "writing")
  /\ UNCHANGED <<starter, child, verified>>

\* STATE.open("x"): creation is exclusive, and a helper that loses leaves.
Create(p) ==
  /\ \/ /\ file = NoOne
        /\ file' = [pid |-> p, written |-> FALSE]
        /\ Move(p, "booting", "writing")
     \/ /\ file # NoOne
        /\ Move(p, "booting", "gone")
        /\ UNCHANGED file
  /\ UNCHANGED <<starter, child, verified>>

ServeUnwritten(p) ==   \* mutant: the JSON is not flushed before serving
  /\ Move(p, "writing", "serving")
  /\ UNCHANGED <<file, starter, child, verified>>

\* json.dump, and the announcement that the checker is ready.
Write(p) ==
  /\ Move(p, "writing", "serving")
  /\ file' = [file EXCEPT !.written = TRUE]
  /\ UNCHANGED <<starter, child, verified>>

\* "stop", or an interrupt at the keyboard.
StopHelper(p) ==
  /\ Move(p, "serving", "stopping")
  /\ UNCHANGED <<file, starter, child, verified>>

LoopEnds(p) ==
  /\ Move(p, "stopping", "closing")
  /\ UNCHANGED <<file, starter, child, verified>>

\* checker.close() in the finally block; if it raises, the unlink is skipped.
CloseChecker(p) ==
  /\ \/ Move(p, "closing", "unlinking")
     \/ Move(p, "closing", "gone")
  /\ UNCHANGED <<file, starter, child, verified>>

Unlink(p) ==
  /\ Move(p, "unlinking", "gone")
  /\ file' = NoOne
  /\ UNCHANGED <<starter, child, verified>>

\* The process dies, or fails while booting, writing or announcing.  Nothing
\* on those paths unlinks the file.
Die(p) ==
  /\ helper[p] \notin {"absent", "gone"}
  /\ helper' = [helper EXCEPT ![p] = "gone"]
  /\ UNCHANGED <<file, starter, child, verified>>

(***************************************************************************)
(* start                                                                   *)
(***************************************************************************)
Start(s) ==
  /\ starter[s] \in Returned
  /\ starter' = [starter EXCEPT ![s] = IF file = NoOne THEN "launching" ELSE "refused"]
  /\ UNCHANGED <<file, helper, child, verified>>

Launch(s) ==
  /\ starter[s] = "launching"
  /\ \E p \in Helpers :
       /\ Move(p, "absent", "booting")
       /\ child' = [child EXCEPT ![s] = p]
  /\ starter' = [starter EXCEPT ![s] = "polling"]
  /\ UNCHANGED <<file, verified>>

\* The polling loop ends when the file exists, the child is dead, or the
\* deadline has passed, which may be at any time.
NeverLate(s) ==   \* mutant: the loop has no deadline
  /\ starter[s] = "polling"
  /\ file # NoOne \/ helper[child[s]] = "gone"
  /\ starter' = [starter EXCEPT ![s] = IF file # NoOne THEN "succeeded" ELSE "failing"]
  /\ UNCHANGED <<file, helper, child, verified>>

Conclude(s) ==
  /\ starter[s] = "polling"
  /\ starter' = [starter EXCEPT ![s] = IF file # NoOne THEN "succeeded" ELSE "failing"]
  /\ UNCHANGED <<file, helper, child, verified>>

\* process.poll() and process.terminate(), after the file was last looked at.
GiveUpAndUnlink(s) ==   \* mutant: start cleans up the state file
  /\ starter[s] = "failing"
  /\ starter' = [starter EXCEPT ![s] = "failed"]
  /\ helper' = [helper EXCEPT ![child[s]] = "gone"]
  /\ file' = NoOne
  /\ UNCHANGED <<child, verified>>

GiveUp(s) ==
  /\ starter[s] = "failing"
  /\ starter' = [starter EXCEPT ![s] = "failed"]
  /\ helper' = [helper EXCEPT ![child[s]] = "gone"]
  /\ UNCHANGED <<file, child, verified>>

(***************************************************************************)
(* Recovery: the PID in the file is that of no running process.            *)
(***************************************************************************)
Verify ==
  /\ verified = NoOne /\ file # NoOne /\ file.written
  /\ helper[file.pid] = "gone"
  /\ verified' = file.pid
  /\ UNCHANGED <<file, helper, starter, child>>

RemoveStale ==
  /\ verified # NoOne
  /\ file' = NoOne /\ verified' = NoOne
  /\ UNCHANGED <<helper, starter, child>>

-----------------------------------------------------------------------------
SessionInit ==
  /\ file = NoOne
  /\ helper = [p \in Helpers |-> "absent"]
  /\ starter = [s \in Starters |-> "idle"]
  /\ child = [s \in Starters |-> NoOne]
  /\ verified = NoOne

HelperStep(p) ==
  \/ Create(p) \/ Write(p) \/ LoopEnds(p) \/ CloseChecker(p) \/ Unlink(p)

StarterStep(s) == Launch(s) \/ Conclude(s) \/ GiveUp(s)

SessionNext ==
  \/ \E p \in Helpers : Serve(p) \/ HelperStep(p) \/ StopHelper(p) \/ Die(p)
  \/ \E s \in Starters : Start(s) \/ StarterStep(s)
  \/ Verify \/ RemoveStale

SessionSpec == SessionInit /\ [][SessionNext]_sessions

\* A process that runs "start" is scheduled, and its loop has a deadline.  A helper may
\* take forever to boot, to serve, to close its checker, and need never be stopped.
FairSessionSpec == SessionSpec /\ \A s \in Starters : WF_sessions(StarterStep(s))

-----------------------------------------------------------------------------
\* Every variable has its type, and a start that waits knows its process.
SessionTypeOK ==
  /\ file \in File \cup {NoOne}
  /\ helper \in [Helpers -> Places]
  /\ starter \in [Starters -> Stages]
  /\ child \in [Starters -> Helpers \cup {NoOne}]
  /\ verified \in Helpers \cup {NoOne}
  /\ \A s \in Starters : starter[s] \in {"polling", "failing"} => child[s] # NoOne

\* Between looking a PID up and removing the file, the file stays that of the
\* dead helper: no helper can have taken the session in the meantime.
VerifiedFileIsStale ==
  verified # NoOne => file # NoOne /\ file.pid = verified /\ helper[verified] = "gone"

\* Two helpers never hold the session together ("Exclusive creation prevents
\* two helpers for this checkout"), from creating the file to unlinking it,
\* whatever dies and whatever an operator cleans up in between.
OneHelper ==
  \A p, q \in Helpers : helper[p] \in Holding /\ helper[q] \in Holding => p = q

\* A helper that answers requests can be found: the file names it, and its
\* port and token have been written.
ServerCanBeFound ==
  \A p \in Helpers :
    helper[p] \in {"serving", "stopping"} => file = [pid |-> p, written |-> TRUE]

\* The file of a helper that is running disappears only when that helper
\* unlinks it; no start that fails, no other helper and no operator takes it.
OwnerUnlinks ==
  [][\A p \in Helpers :
       helper[p] \in Holding /\ file # NoOne /\ file.pid = p /\ file' # file =>
         \/ helper[p] = "writing" /\ file' = [file EXCEPT !.written = TRUE]
         \/ helper[p] = "unlinking" /\ file' = NoOne]_sessions

\* A call of "start" that launched a process returns, even if that process
\* boots forever.
StartReturns ==
  \A s \in Starters : starter[s] \in {"polling", "failing"} ~> starter[s] \in Returned
=============================================================================
