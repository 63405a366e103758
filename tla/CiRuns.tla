--------------------------------- MODULE CiRuns ---------------------------------
(***************************************************************************)
(* The runs of .github/workflows/build-project.yml, "a required status     *)
(* check on main": which run cancels which, and which report.              *)
(*                                                                         *)
(* GitHub is external: a run may start long after what triggered it, so    *)
(* that runs enter their groups in any order, and a started run ends.      *)
(***************************************************************************)
EXTENDS Naturals, Sequences

CONSTANTS
  Refs,      \* github.ref: pull requests, and main
  Commits,
  MaxRuns,   \* bound of the model
  None

VARIABLES
  head,   \* head[r]: the commit that r is at, or None
  runs    \* [ref, sha, status], in the order of their triggers

ci == <<head, runs>>

Run == [ref : Refs, sha : Commits, status : {"queued", "running", "reported", "cancelled"}]

Of(status) == {i \in DOMAIN runs : runs[i].status = status}

RefGroup(run) == run.ref   \* mutant: the group is github.ref, as it once was
Group(run) == run.sha

-----------------------------------------------------------------------------
Triggered(r, c) == Append(runs, [ref |-> r, sha |-> c, status |-> "queued"])

\* A commit is pushed to a pull request or to main.
Push(r, c) ==
  /\ Len(runs) < MaxRuns /\ c # head[r]
  /\ head' = [head EXCEPT ![r] = c] /\ runs' = Triggered(r, c)

\* A pull request is reopened, or somebody dispatches the workflow.
Again(r) ==
  /\ Len(runs) < MaxRuns /\ head[r] # None
  /\ runs' = Triggered(r, head[r]) /\ UNCHANGED head

\* cancel-in-progress.
Start(i) ==
  /\ i \in Of("queued")
  /\ runs' = [j \in DOMAIN runs |->
       CASE j = i -> [runs[j] EXCEPT !.status = "running"]
         [] j \in Of("running") /\ Group(runs[j]) = Group(runs[i]) -> [runs[j] EXCEPT !.status = "cancelled"]
         [] OTHER -> runs[j]]
  /\ UNCHANGED head

\* Green or red: it reports.
Report(i) ==
  /\ i \in Of("running")
  /\ runs' = [runs EXCEPT ![i].status = "reported"] /\ UNCHANGED head

Init == head = [r \in Refs |-> None] /\ runs = <<>>

GitHub == \E i \in DOMAIN runs : Start(i) \/ Report(i)

Next == GitHub \/ \E r \in Refs : Again(r) \/ \E c \in Commits : Push(r, c)

Spec == Init /\ [][Next]_ci /\ WF_ci(GitHub)

-----------------------------------------------------------------------------
\* "A cancelled run reports nothing", and the check is required: whatever is pushed,
\* reopened and dispatched, and in whatever order runs start, every commit that a run
\* was triggered for gets a report.
EveryCommitIsReported ==
  \A c \in Commits :
    (\E i \in DOMAIN runs : runs[i].sha = c)
      ~> \E i \in DOMAIN runs : runs[i].sha = c /\ runs[i].status = "reported"
=============================================================================
