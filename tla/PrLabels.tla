-------------------------------- MODULE PrLabels --------------------------------
(***************************************************************************)
(* The label jobs of .github/workflows/pr-review-status.yml.  A comment on *)
(* an open pull request starts a job for each of the words it contains,    *)
(* with no concurrency group; a job adds its label and then removes the    *)
(* other one.                                                              *)
(*                                                                         *)
(* GitHub is external: jobs start late and in any order, and a call may    *)
(* fail.  The project card that the second job moves is not modelled.      *)
(***************************************************************************)
EXTENDS Naturals, Sequences

CONSTANTS Author, Review,   \* 'awaiting-author', 'awaiting-review'
          MaxComments, None

ASSUME LabelsAssumption == Author # Review /\ None \notin {Author, Review}

VARIABLES
  labels,     \* of the pull request
  jobs,       \* [word, calls]: the calls a job has still to make
  comments,   \* how many there were
  alone,      \* the word of the last comment, if its job has nobody beside it
  swallowed   \* whether a removal failed that removeLabel(..).catch hides

pr == <<labels, jobs, comments, alone, swallowed>>

Words == {Author, Review}
Other(w) == CHOOSE v \in Words : v # w

RemoveFirst == <<"remove", "add">>   \* mutant: the calls the other way round
Calls == <<"add", "remove">>

Settled == \A j \in DOMAIN jobs : jobs[j].calls = <<>>

-----------------------------------------------------------------------------
\* contains(github.event.comment.body, ..): a comment may hold both words.
Comment(words) ==
  /\ comments < MaxComments /\ comments' = comments + 1
  /\ LET matched == IF words = Words THEN <<Author, Review>> ELSE <<CHOOSE w \in words : TRUE>>
     IN  jobs' = jobs \o [k \in DOMAIN matched |-> [word |-> matched[k], calls |-> Calls]]
  /\ alone' = IF Settled /\ words # Words THEN CHOOSE w \in words : TRUE ELSE None
  /\ UNCHANGED <<labels, swallowed>>

Called(j) == jobs' = [jobs EXCEPT ![j].calls = Tail(@)]
Makes(j, call) == jobs[j].calls # <<>> /\ Head(jobs[j].calls) = call

AddLabel(j) ==
  /\ Makes(j, "add") /\ Called(j)
  /\ labels' = labels \cup {jobs[j].word}
  /\ UNCHANGED <<comments, alone, swallowed>>

\* An exception ends the job.
AddFails(j) ==
  /\ Makes(j, "add") /\ jobs' = [jobs EXCEPT ![j].calls = <<>>]
  /\ alone' = None
  /\ UNCHANGED <<labels, comments, swallowed>>

RemoveLabel(j) ==
  /\ Makes(j, "remove") /\ Called(j)
  /\ labels' = labels \ {Other(jobs[j].word)}
  /\ UNCHANGED <<comments, alone, swallowed>>

\* The label is absent, or the call fails: the job goes on.
RemoveFails(j) ==
  /\ Makes(j, "remove") /\ Called(j)
  /\ swallowed' = (swallowed \/ Other(jobs[j].word) \in labels)
  /\ UNCHANGED <<labels, comments, alone>>

LabelsInit == labels = {} /\ jobs = <<>> /\ comments = 0 /\ alone = None /\ swallowed = FALSE

LabelsNext ==
  \/ \E words \in (SUBSET Words) \ {{}} : Comment(words)
  \/ \E j \in DOMAIN jobs : AddLabel(j) \/ AddFails(j) \/ RemoveLabel(j) \/ RemoveFails(j)

LabelsSpec == LabelsInit /\ [][LabelsNext]_pr

-----------------------------------------------------------------------------
\* When all jobs are done, the pull request never waits for both, however the jobs of
\* several comments were interleaved; and it waits for whom the last comment named,
\* if its job had no other beside it. (It may wait for nobody.)
StatusIsClear ==
  (Settled /\ ~swallowed) =>
    /\ labels # Words
    /\ alone # None => labels = {alone}
=============================================================================
