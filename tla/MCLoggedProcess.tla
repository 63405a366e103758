---------------------------- MODULE MCLoggedProcess ----------------------------
(***************************************************************************)
(* TLC instances of what waits for commands: the wrapper of lean-          *)
(* local.ps1, with a root, the process it may start, and two streams; or   *)
(* the runs of the project's workflow, for a pull request and main, two    *)
(* commits and four triggers; or the label jobs of a pull request with     *)
(* two comments.  One of them is looked at at a time.                      *)
(***************************************************************************)
EXTENDS LoggedProcess, PrLabels

CONSTANTS root, child, stdout, stderr, pull, main, c1, c2, author, review

VARIABLES looked, head, runs

C == INSTANCE CiRuns WITH Refs <- {pull, main}, Commits <- {c1, c2}, MaxRuns <- 4

ci == <<head, runs>>

LocalNext == looked = "local" /\ Next /\ UNCHANGED <<looked, ci, pr>>
CiNext == looked = "ci" /\ C!Next /\ UNCHANGED <<looked, vars, pr>>
Labelling == looked = "labels" /\ LabelsNext /\ UNCHANGED <<looked, vars, ci>>

MCInit == looked \in {"local", "ci", "labels"} /\ Init /\ C!Init /\ LabelsInit
MCNext == LocalNext \/ CiNext \/ Labelling

MCSpec ==
  /\ MCInit /\ [][MCNext]_<<looked, vars, ci, pr>>
  /\ WF_vars(looked = "local" /\ Wrapper) /\ WF_vars(looked = "local" /\ Tick)
  /\ WF_ci(looked = "ci" /\ C!GitHub)

-----------------------------------------------------------------------------
\* With a limit the wrapper ends, though a child holds a pipe open for ever, floods it,
\* or cannot be killed.
WrapperEnds == looked = "local" => Ends

\* Whatever is pushed, reopened and dispatched, and in whatever order runs start, every
\* commit that a run of the required check was triggered for gets a report.
EveryCommitIsReported == C!EveryCommitIsReported
=============================================================================
