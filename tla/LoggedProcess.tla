----------------------------- MODULE LoggedProcess -----------------------------
(***************************************************************************)
(* Invoke-LoggedProcess of scripts/lean-local.ps1: it runs one command,    *)
(* logs what the command's processes write until both pipes end, and stops *)
(* the command after a time limit.                                         *)
(*                                                                         *)
(* The command is a root process and the processes it starts, which        *)
(* inherit its pipes and may outlive it.  A line is counted, not kept.     *)
(***************************************************************************)
EXTENDS Integers, FiniteSets

CONSTANTS
  Root,       \* the process started
  Children,   \* the processes it may start
  Streams,    \* the two redirected streams
  First,      \* the one that an iteration of the loop looks at first
  Limited,    \* LimitSeconds > 0
  MaxLines    \* bound of the model: lines written to one stream

ASSUME StreamsAssumption == First \in Streams /\ Cardinality(Streams) = 2
ASSUME ProcessAssumption == Root \notin Children

VARIABLES
  alive,      \* running processes of the command
  spawned,    \* processes that were started
  killed,     \* those that Kill reached
  refused,    \* some Kill raised although the root was running
  holds,      \* holds[s]: running processes with the write end of s open
  code,       \* the root's exit code, once it exited
  written,    \* written[s]: lines written to s
  logged,     \* logged[s]: lines of s in the log
  read,       \* read[s]: the ReadLineAsync task, "none" for $null
  clock,      \* "early", "limit" after LimitSeconds, "grace" 5 seconds later
  timedOut,
  pc, outcome \* of the wrapper

command == <<alive, spawned, killed, refused, holds, code, written>>
vars == <<command, logged, read, clock, timedOut, pc, outcome>>

Procs == {Root} \cup Children
Second == CHOOSE s \in Streams : s # First
HasExited == Root \notin alive

-----------------------------------------------------------------------------
(* The command.                                                            *)

Spawn(p) ==
  /\ Root \in alive \ killed /\ p \in Children \ spawned
  /\ alive' = alive \cup {p} /\ spawned' = spawned \cup {p}
  /\ holds' = [s \in Streams |-> IF Root \in holds[s] THEN holds[s] \cup {p} ELSE holds[s]]
  /\ UNCHANGED <<killed, refused, code, written, logged, read, clock, timedOut, pc, outcome>>

Emit(p, s) ==
  /\ p \in holds[s] \ killed /\ written[s] < MaxLines
  /\ written' = [written EXCEPT ![s] = @ + 1]
  /\ UNCHANGED <<alive, spawned, killed, refused, holds, code, logged, read, clock, timedOut, pc, outcome>>

CloseStream(p, s) ==
  /\ p \in holds[s] \ killed
  /\ holds' = [holds EXCEPT ![s] = @ \ {p}]
  /\ UNCHANGED <<alive, spawned, killed, refused, code, written, logged, read, clock, timedOut, pc, outcome>>

Exit(p) ==
  /\ p \in alive
  /\ alive' = alive \ {p} /\ holds' = [s \in Streams |-> holds[s] \ {p}]
  /\ IF p = Root THEN \E c \in IF p \in killed THEN {1} ELSE {0, 1} : code' = c
                 ELSE UNCHANGED code
  /\ UNCHANGED <<spawned, killed, refused, written, logged, read, clock, timedOut, pc, outcome>>

\* A task completes with a line of the pipe, or with $null at its end.
Complete(s) ==
  /\ read[s] = "pending"
  /\ \/ written[s] > logged[s] /\ read' = [read EXCEPT ![s] = "line"]
     \/ written[s] = logged[s] /\ holds[s] = {} /\ read' = [read EXCEPT ![s] = "end"]
  /\ UNCHANGED <<command, logged, clock, timedOut, pc, outcome>>

Tick ==
  /\ Limited /\ pc # "done" /\ clock # "grace"
  /\ clock' = IF clock = "early" THEN "limit" ELSE "grace"
  /\ UNCHANGED <<command, logged, read, timedOut, pc, outcome>>

-----------------------------------------------------------------------------
(* The wrapper.                                                            *)

Start ==
  /\ pc = "start" /\ pc' = "while"
  /\ alive' = {Root} /\ spawned' = {Root} /\ holds' = [s \in Streams |-> {Root}]
  /\ read' = [s \in Streams |-> "pending"]
  /\ UNCHANGED <<killed, refused, code, written, logged, clock, timedOut, outcome>>

Raise(o) == pc' = "finally" /\ outcome' = o

StartFails ==
  /\ pc = "start" /\ Raise("error")
  /\ UNCHANGED <<command, logged, read, clock, timedOut>>

FinishedAtExit == HasExited   \* mutant: the pipes are not read to their end
Finished == (\A s \in Streams : read[s] = "none") /\ HasExited

While ==
  /\ pc = "while"
  /\ pc' = IF Finished THEN "wait" ELSE "limit"
  /\ UNCHANGED <<command, logged, read, clock, timedOut, outcome>>

LimitReached == ~timedOut /\ clock # "early"

CheckLimit ==
  /\ pc = "limit"
  /\ IF LimitReached THEN timedOut' = TRUE /\ pc' = IF HasExited THEN "grace" ELSE "kill"
                     ELSE pc' = "grace" /\ UNCHANGED timedOut
  /\ UNCHANGED <<command, logged, read, clock, outcome>>

\* Kill($true) of a root that may have exited since, when an error is no error.
Kill(next) ==
  /\ pc' = next
  /\ killed' = IF HasExited THEN killed ELSE killed \cup alive
  /\ UNCHANGED <<alive, spawned, refused, holds, code, written, logged, read, clock, timedOut, outcome>>

KillAtLimit == pc = "kill" /\ Kill("grace")

\* The system refuses, and part of the tree may have been killed.
Refused ==
  /\ ~HasExited /\ refused' = TRUE
  /\ \E K \in SUBSET alive : killed' = killed \cup K
  /\ UNCHANGED <<alive, spawned, holds, code, written, logged, read, clock, timedOut>>

KillRaises == pc = "kill" /\ Refused /\ Raise("error")

GraceOverNever == FALSE   \* mutant: the loop waits for the pipes to end
GraceOver == timedOut /\ clock = "grace"

CheckGrace ==
  /\ pc = "grace"
  /\ pc' = IF GraceOver THEN "wait" ELSE "first"
  /\ UNCHANGED <<command, logged, read, clock, timedOut, outcome>>

Reading(s) == pc = IF s = First THEN "first" ELSE "second"

Consume(s) ==
  /\ Reading(s)
  /\ pc' = IF s = First THEN "second" ELSE "while"
  /\ logged' = IF read[s] = "line" THEN [logged EXCEPT ![s] = @ + 1] ELSE logged
  /\ read' = [read EXCEPT ![s] = CASE @ = "line" -> "pending" [] @ = "end" -> "none" [] OTHER -> @]
  /\ UNCHANGED <<command, clock, timedOut, outcome>>

\* Write-RunLog fails: the disk is full.
LogRaises ==
  /\ \/ \E s \in Streams : Reading(s) /\ read[s] = "line"
     \/ pc = "limit" /\ LimitReached
     \/ pc = "grace" /\ GraceOver
  /\ Raise("error")
  /\ UNCHANGED <<command, logged, read, clock, timedOut>>

ResultOfExit == IF code = 0 THEN "ok" ELSE "failed"   \* mutant: timedOut is not consulted
Result == IF timedOut THEN "timeout" ELSE IF code = 0 THEN "ok" ELSE "failed"

WaitForExit ==
  /\ pc = "wait" /\ HasExited
  /\ Raise(Result)
  /\ UNCHANGED <<command, logged, read, clock, timedOut>>

\* WaitForExit(5000) returns false.
WaitElapses ==
  /\ pc = "wait" /\ ~HasExited
  /\ Raise("timeout")
  /\ UNCHANGED <<command, logged, read, clock, timedOut>>

Started == Root \in spawned

FinallyDisposes ==   \* mutant: the process is disposed of, not stopped
  /\ pc = "finally" /\ pc' = "done"
  /\ UNCHANGED <<command, logged, read, clock, timedOut, outcome>>
Finally ==
  /\ pc = "finally"
  /\ pc' = IF Started /\ ~HasExited THEN "stop" ELSE "done"
  /\ UNCHANGED <<command, logged, read, clock, timedOut, outcome>>

KillAtEnd == pc = "stop" /\ Kill("done")

KillAtEndRaises == pc = "stop" /\ Refused /\ pc' = "done" /\ UNCHANGED outcome

Wrapper ==
  \/ Start \/ StartFails \/ While \/ CheckLimit \/ KillAtLimit \/ KillRaises \/ CheckGrace
  \/ \E s \in Streams : Consume(s)
  \/ LogRaises \/ WaitForExit \/ WaitElapses \/ Finally
  \/ KillAtEnd \/ KillAtEndRaises

-----------------------------------------------------------------------------
Init ==
  /\ alive = {} /\ spawned = {} /\ killed = {} /\ refused = FALSE /\ holds = [s \in Streams |-> {}]
  /\ code = 0 /\ written = [s \in Streams |-> 0] /\ logged = [s \in Streams |-> 0]
  /\ read = [s \in Streams |-> "none"] /\ clock = "early" /\ timedOut = FALSE
  /\ pc = "start" /\ outcome = "running"

Next ==
  \/ Wrapper
  \/ \E p \in Procs : Spawn(p) \/ Exit(p) \/ \E s \in Streams : Emit(p, s) \/ CloseStream(p, s)
  \/ \E s \in Streams : Complete(s)
  \/ Tick

Spec == Init /\ [][Next]_vars

\* The wrapper's thread runs and time passes; nothing is assumed of the command.
FairSpec == Spec /\ WF_vars(Wrapper) /\ WF_vars(Tick)

-----------------------------------------------------------------------------
Ended == pc = "done"

\* A command that is reported by its exit code, successful or not, has its whole
\* output in the log, its children's that outlived it included, and nobody can add
\* to it: the loop leaves only when both pipes ended, whatever came last.
WholeLog ==
  Ended /\ outcome \in {"ok", "failed"} =>
    \A s \in Streams : logged[s] = written[s] /\ holds[s] = {}

\* The wrapper never leaves its command running behind: when it ends, the root has
\* exited or was killed, or the system refused, whatever else went wrong; and a command
\* that ran into its limit never passes for one that ended in time, even if it exited by
\* itself while its pipes were drained.
StoppedAndReported ==
  Ended =>
    /\ HasExited \/ Root \in killed \/ refused
    /\ timedOut => outcome \in {"timeout", "error"}

\* With a limit the wrapper ends, though a child holds a pipe open for ever, floods
\* it, or cannot be killed.
Ends == <>Ended
=============================================================================
