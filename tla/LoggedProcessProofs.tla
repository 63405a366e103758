-------------------------- MODULE LoggedProcessProofs --------------------------
(***************************************************************************)
(* What an exit code and a timeout of LoggedProcess mean, for a command of *)
(* any number of processes, any output, and any limit.                     *)
(***************************************************************************)
EXTENDS LoggedProcess, PrLabels, SequenceTheorems, TLAPS

Labels == {"start", "while", "limit", "kill", "grace", "first", "second", "wait",
           "finally", "stop", "done"}
Ending == {"finally", "stop", "done"}
Outcomes == {"running", "ok", "failed", "timeout", "error"}

TypeInv ==
  /\ alive \subseteq Procs /\ spawned \subseteq Procs /\ killed \subseteq Procs
  /\ refused \in BOOLEAN /\ timedOut \in BOOLEAN
  /\ holds \in [Streams -> SUBSET Procs]
  /\ written \in [Streams -> Nat] /\ logged \in [Streams -> Nat]
  /\ read \in [Streams -> {"none", "pending", "line", "end"}]
  /\ pc \in Labels /\ outcome \in Outcomes

\* The pipe of s has ended, and all that went through it is in the log.
Drained(s) == logged[s] = written[s] /\ holds[s] = {}

\* A task that has seen the end of its pipe saw it after the last line, and nobody is
\* left who could write another one.
Drainage == \A s \in Streams : read[s] \in {"none", "end"} => Drained(s)

\* Where the wrapper stands says how it got there.
Course ==
  /\ outcome = "running" <=> pc \notin Ending
  /\ pc = "wait" /\ ~timedOut => \A s \in Streams : read[s] = "none"
  /\ outcome \in {"ok", "failed"} => ~timedOut /\ \A s \in Streams : read[s] = "none"

\* The root runs only once it was started, and is not left behind.
Custody ==
  /\ Root \in alive => Root \in spawned
  /\ pc = "start" => alive = {} /\ spawned = {} /\ \A s \in Streams : read[s] = "none"
  /\ pc = "done" => HasExited \/ Root \in killed \/ refused

Inv == TypeInv /\ Drainage /\ Course /\ Custody

-----------------------------------------------------------------------------
\* Every variable keeps its type.
LEMMA TypeStep == TypeInv /\ Next => TypeInv'
<1> SUFFICES ASSUME TypeInv, Next PROVE TypeInv'
  OBVIOUS
<1> USE DEF TypeInv, Labels, Outcomes, Procs, HasExited, command
<1>1. CASE Start
  BY <1>1, ProcessAssumption DEF Start
<1>2. CASE StartFails
  BY <1>2 DEF StartFails, Raise
<1>3. CASE While
  BY <1>3 DEF While, Finished
<1>4. CASE CheckLimit
  BY <1>4 DEF CheckLimit, LimitReached
<1>5. CASE KillAtLimit
  BY <1>5 DEF KillAtLimit, Kill
<1>6. CASE KillRaises
  BY <1>6 DEF KillRaises, Refused, Raise
<1>7. CASE CheckGrace
  BY <1>7 DEF CheckGrace, GraceOver
<1>8. ASSUME NEW s \in Streams, Consume(s) PROVE TypeInv'
  BY <1>8 DEF Consume, Reading
<1>9. CASE LogRaises
  BY <1>9 DEF LogRaises, Raise, Reading
<1>10. CASE WaitForExit
  BY <1>10 DEF WaitForExit, Raise, Result
<1>11. CASE WaitElapses
  BY <1>11 DEF WaitElapses, Raise
<1>12. CASE Finally
  BY <1>12 DEF Finally, Started
<1>13. CASE KillAtEnd
  BY <1>13 DEF KillAtEnd, Kill
<1>14. CASE KillAtEndRaises
  BY <1>14 DEF KillAtEndRaises, Refused
<1>15. ASSUME NEW p \in Procs, Spawn(p) PROVE TypeInv'
  BY <1>15 DEF Spawn
<1>16. ASSUME NEW p \in Procs, Exit(p) PROVE TypeInv'
  BY <1>16 DEF Exit
<1>17. ASSUME NEW p \in Procs, NEW s \in Streams, Emit(p, s) PROVE TypeInv'
  BY <1>17 DEF Emit
<1>18. ASSUME NEW p \in Procs, NEW s \in Streams, CloseStream(p, s) PROVE TypeInv'
  BY <1>18 DEF CloseStream
<1>19. ASSUME NEW s \in Streams, Complete(s) PROVE TypeInv'
  BY <1>19 DEF Complete
<1>20. CASE Tick
  BY <1>20 DEF Tick
<1> QED
  BY <1>1, <1>2, <1>3, <1>4, <1>5, <1>6, <1>7, <1>8, <1>9, <1>10, <1>11, <1>12, <1>13, <1>14, <1>15, <1>16, <1>17, <1>18, <1>19, <1>20 DEF Next, Wrapper

\* No action writes to a pipe that has ended, or forgets a line of one.
LEMMA DrainStep == TypeInv /\ Drainage /\ Next => Drainage'
<1> SUFFICES ASSUME TypeInv, Drainage, Next PROVE Drainage'
  OBVIOUS
<1> USE DEF TypeInv, Drainage, Drained, Labels, Procs, command, HasExited
<1>1. CASE Start
  BY <1>1 DEF Start
<1>2. CASE StartFails
  BY <1>2 DEF StartFails, Raise
<1>3. CASE While
  BY <1>3 DEF While, Finished
<1>4. CASE CheckLimit
  BY <1>4 DEF CheckLimit, LimitReached
<1>5. CASE KillAtLimit
  BY <1>5 DEF KillAtLimit, Kill
<1>6. CASE KillRaises
  BY <1>6 DEF KillRaises, Refused, Raise
<1>7. CASE CheckGrace
  BY <1>7 DEF CheckGrace, GraceOver
<1>8. ASSUME NEW s \in Streams, Consume(s) PROVE Drainage'
  BY <1>8 DEF Consume, Reading
<1>9. CASE LogRaises
  BY <1>9 DEF LogRaises, Raise, Reading
<1>10. CASE WaitForExit
  BY <1>10 DEF WaitForExit, Raise, Result
<1>11. CASE WaitElapses
  BY <1>11 DEF WaitElapses, Raise
<1>12. CASE Finally
  BY <1>12 DEF Finally, Started
<1>13. CASE KillAtEnd
  BY <1>13 DEF KillAtEnd, Kill
<1>14. CASE KillAtEndRaises
  BY <1>14 DEF KillAtEndRaises, Refused
<1>15. ASSUME NEW p \in Procs, Spawn(p) PROVE Drainage'
  BY <1>15 DEF Spawn
<1>16. ASSUME NEW p \in Procs, Exit(p) PROVE Drainage'
  BY <1>16 DEF Exit
<1>17. ASSUME NEW p \in Procs, NEW s \in Streams, Emit(p, s) PROVE Drainage'
  BY <1>17 DEF Emit
<1>18. ASSUME NEW p \in Procs, NEW s \in Streams, CloseStream(p, s) PROVE Drainage'
  BY <1>18 DEF CloseStream
<1>19. ASSUME NEW s \in Streams, Complete(s) PROVE Drainage'
  BY <1>19 DEF Complete
<1>20. CASE Tick
  BY <1>20 DEF Tick
<1> QED
  BY <1>1, <1>2, <1>3, <1>4, <1>5, <1>6, <1>7, <1>8, <1>9, <1>10, <1>11, <1>12, <1>13, <1>14, <1>15, <1>16, <1>17, <1>18, <1>19, <1>20 DEF Next, Wrapper

\* The wrapper waits for the root without a timeout only after both pipes ended.
LEMMA CourseStep == TypeInv /\ Course /\ Next => Course'
<1> SUFFICES ASSUME TypeInv, Course, Next PROVE Course'
  OBVIOUS
<1> USE DEF TypeInv, Course, Labels, Ending, Outcomes, command, HasExited
<1>1. CASE Start
  BY <1>1 DEF Start
<1>2. CASE StartFails
  BY <1>2 DEF StartFails, Raise
<1>3. CASE While
  BY <1>3 DEF While, Finished
<1>4. CASE CheckLimit
  BY <1>4 DEF CheckLimit, LimitReached
<1>5. CASE KillAtLimit
  BY <1>5 DEF KillAtLimit, Kill
<1>6. CASE KillRaises
  BY <1>6 DEF KillRaises, Refused, Raise
<1>7. CASE CheckGrace
  BY <1>7 DEF CheckGrace, GraceOver
<1>8. ASSUME NEW s \in Streams, Consume(s) PROVE Course'
  BY <1>8 DEF Consume, Reading
<1>9. CASE LogRaises
  BY <1>9 DEF LogRaises, Raise, Reading
<1>10. CASE WaitForExit
  BY <1>10 DEF WaitForExit, Raise, Result
<1>11. CASE WaitElapses
  BY <1>11 DEF WaitElapses, Raise
<1>12. CASE Finally
  BY <1>12 DEF Finally, Started
<1>13. CASE KillAtEnd
  BY <1>13 DEF KillAtEnd, Kill
<1>14. CASE KillAtEndRaises
  BY <1>14 DEF KillAtEndRaises, Refused
<1>15. ASSUME NEW p \in Procs, Spawn(p) PROVE Course'
  BY <1>15 DEF Spawn
<1>16. ASSUME NEW p \in Procs, Exit(p) PROVE Course'
  BY <1>16 DEF Exit
<1>17. ASSUME NEW p \in Procs, NEW s \in Streams, Emit(p, s) PROVE Course'
  BY <1>17 DEF Emit
<1>18. ASSUME NEW p \in Procs, NEW s \in Streams, CloseStream(p, s) PROVE Course'
  BY <1>18 DEF CloseStream
<1>19. ASSUME NEW s \in Streams, Complete(s) PROVE Course'
  BY <1>19 DEF Complete
<1>20. CASE Tick
  BY <1>20 DEF Tick
<1> QED
  BY <1>1, <1>2, <1>3, <1>4, <1>5, <1>6, <1>7, <1>8, <1>9, <1>10, <1>11, <1>12, <1>13, <1>14, <1>15, <1>16, <1>17, <1>18, <1>19, <1>20 DEF Next, Wrapper

\* The wrapper ends when the root has exited or was killed, or the system refused.
LEMMA CustodyStep == TypeInv /\ Course /\ Custody /\ Next => Custody'
<1> SUFFICES ASSUME TypeInv, Course, Custody, Next PROVE Custody'
  OBVIOUS
<1> USE DEF TypeInv, Course, Custody, Labels, Ending, Procs, command, HasExited, Started
<1>1. CASE Start
  BY <1>1 DEF Start
<1>2. CASE StartFails
  BY <1>2 DEF StartFails, Raise
<1>3. CASE While
  BY <1>3 DEF While, Finished
<1>4. CASE CheckLimit
  BY <1>4 DEF CheckLimit, LimitReached
<1>5. CASE KillAtLimit
  BY <1>5 DEF KillAtLimit, Kill
<1>6. CASE KillRaises
  BY <1>6 DEF KillRaises, Refused, Raise
<1>7. CASE CheckGrace
  BY <1>7 DEF CheckGrace, GraceOver
<1>8. ASSUME NEW s \in Streams, Consume(s) PROVE Custody'
  BY <1>8 DEF Consume, Reading
<1>9. CASE LogRaises
  BY <1>9 DEF LogRaises, Raise, Reading
<1>10. CASE WaitForExit
  BY <1>10 DEF WaitForExit, Raise, Result
<1>11. CASE WaitElapses
  BY <1>11 DEF WaitElapses, Raise
<1>12. CASE Finally
  BY <1>12 DEF Finally, Started
<1>13. CASE KillAtEnd
  BY <1>13 DEF KillAtEnd, Kill
<1>14. CASE KillAtEndRaises
  BY <1>14 DEF KillAtEndRaises, Refused
<1>15. ASSUME NEW p \in Procs, Spawn(p) PROVE Custody'
  BY <1>15, ProcessAssumption DEF Spawn
<1>16. ASSUME NEW p \in Procs, Exit(p) PROVE Custody'
  BY <1>16 DEF Exit
<1>17. ASSUME NEW p \in Procs, NEW s \in Streams, Emit(p, s) PROVE Custody'
  BY <1>17 DEF Emit
<1>18. ASSUME NEW p \in Procs, NEW s \in Streams, CloseStream(p, s) PROVE Custody'
  BY <1>18 DEF CloseStream
<1>19. ASSUME NEW s \in Streams, Complete(s) PROVE Custody'
  BY <1>19 DEF Complete
<1>20. CASE Tick
  BY <1>20 DEF Tick
<1> QED
  BY <1>1, <1>2, <1>3, <1>4, <1>5, <1>6, <1>7, <1>8, <1>9, <1>10, <1>11, <1>12, <1>13, <1>14, <1>15, <1>16, <1>17, <1>18, <1>19, <1>20 DEF Next, Wrapper

\* All of it holds from the start.
LEMMA Invariant == Spec => []Inv
<1>1. Init => Inv
  <2> SUFFICES ASSUME Init PROVE Inv
    OBVIOUS
  <2>1. TypeInv
    BY DEF Init, TypeInv, Labels, Outcomes, Procs
  <2>2. Drainage
    BY DEF Init, Drainage, Drained
  <2>3. Course
    BY DEF Init, Course, Ending
  <2>4. Custody
    BY DEF Init, Custody
  <2> QED
    BY <2>1, <2>2, <2>3, <2>4 DEF Inv
<1>2. Inv /\ [Next]_vars => Inv'
  <2>1. Inv /\ Next => Inv'
    BY TypeStep, DrainStep, CourseStep, CustodyStep DEF Inv
  <2>2. Inv /\ UNCHANGED vars => Inv'
    BY DEF vars, command, Inv, TypeInv, Drainage, Drained, Course, Custody, HasExited
  <2> QED
    BY <2>1, <2>2
<1> QED
  BY <1>1, <1>2, PTL DEF Spec

-----------------------------------------------------------------------------
\* WholeLog: a command that is reported by its exit code has its whole output in the
\* log, that of children that outlived it included, and nobody can add to it.
THEOREM ExitCodeMeansWholeLog == Spec => []WholeLog
<1>1. Inv => WholeLog
  BY DEF Inv, Course, Drainage, Drained, WholeLog
<1> QED
  BY <1>1, Invariant, PTL

\* StoppedAndReported: the command is over when the wrapper ends, or the system refused
\* to stop it, and a command that ran into its limit does not pass for one that did not.
THEOREM LimitIsReported == Spec => []StoppedAndReported
<1>1. Inv => StoppedAndReported
  BY DEF Inv, TypeInv, Course, Custody, Ended, Ending, Outcomes, StoppedAndReported
<1> QED
  BY <1>1, Invariant, PTL

-----------------------------------------------------------------------------
(***************************************************************************)
(* The label jobs of a pull request, for any number of comments.           *)
(***************************************************************************)
Job == [word : Words, calls : {<<"add", "remove">>, <<"remove">>, <<>>}]

\* Both labels are there only while a job is about to remove one, or after the removal
\* that failed.
Removing == labels = Words /\ ~swallowed => \E j \in DOMAIN jobs : jobs[j].calls = <<"remove">>

\* The job that has nobody beside it has added its label, and when it is done the other
\* one is gone, unless its removal failed.
Alone ==
  alone # None =>
    \E j \in DOMAIN jobs :
      /\ jobs[j].word = alone
      /\ \A k \in DOMAIN jobs : k # j => jobs[k].calls = <<>>
      /\ jobs[j].calls # <<"add", "remove">> => alone \in labels
      /\ jobs[j].calls = <<>> /\ ~swallowed => Other(alone) \notin labels

LabelsInv == labels \subseteq Words /\ jobs \in Seq(Job) /\ Removing /\ Alone

LEMMA OtherWord ==
  ASSUME NEW w \in Words
  PROVE  Other(w) \in Words /\ Other(w) # w /\ Words = {w, Other(w)}
  BY LabelsAssumption DEF Words, Other

\* A comment starts jobs behind those that there are.
LEMMA JobsStart ==
  ASSUME jobs \in Seq(Job), NEW words \in (SUBSET Words) \ {{}}, Comment(words)
  PROVE  /\ jobs' \in Seq(Job) /\ DOMAIN jobs \subseteq DOMAIN jobs'
         /\ \A j \in DOMAIN jobs : jobs'[j] = jobs[j]
         /\ words # Words =>
              \E w \in Words, n \in DOMAIN jobs' :
                /\ w = CHOOSE v \in words : TRUE
                /\ n \notin DOMAIN jobs /\ DOMAIN jobs' = DOMAIN jobs \cup {n}
                /\ jobs'[n] = [word |-> w, calls |-> <<"add", "remove">>]
  <1> DEFINE v == CHOOSE u \in words : TRUE
             matched == IF words = Words THEN <<Author, Review>> ELSE <<v>>
             started == [k \in DOMAIN matched |-> [word |-> matched[k], calls |-> Calls]]
             n == Len(jobs) + 1
  <1>1. v \in Words
    <2>1. words # {} /\ words \subseteq Words
      OBVIOUS
    <2>2. \E u \in words : TRUE
      BY <2>1
    <2>3. v \in words
      BY <2>2
    <2>4. QED BY <2>1, <2>3
  <1>2. jobs' = jobs \o started
    BY DEF Comment
  <1> HIDE DEF v
  <1>3. matched \in Seq(Words)
    <2>1. Author \in Words /\ Review \in Words
      BY DEF Words
    <2>2. <<Author, Review>> \in Seq(Words) /\ <<v>> \in Seq(Words)
      BY <1>1, <2>1
    <2>3. QED BY <2>2
  <1>4. words # Words => Len(matched) = 1 /\ matched[1] = v
    OBVIOUS
  <1> HIDE DEF matched
  <1>5. /\ started \in Seq(Job) /\ Len(started) = Len(matched)
        /\ \A k \in DOMAIN matched : started[k] = [word |-> matched[k], calls |-> Calls]
    <2>1. DOMAIN matched = 1..Len(matched) /\ Len(matched) \in Nat
          /\ \A k \in DOMAIN matched : matched[k] \in Words
      BY <1>3
    <2>2. \A k \in DOMAIN matched : [word |-> matched[k], calls |-> Calls] \in Job
      BY <2>1 DEF Job, Calls
    <2>3. QED BY <2>1, <2>2
  <1> HIDE DEF started
  <1>6. /\ jobs' \in Seq(Job) /\ DOMAIN jobs \subseteq DOMAIN jobs'
        /\ \A j \in DOMAIN jobs : jobs'[j] = jobs[j]
    BY <1>2, <1>5
  <1>7. ASSUME words # Words
        PROVE  /\ n \in DOMAIN jobs' /\ n \notin DOMAIN jobs /\ DOMAIN jobs' = DOMAIN jobs \cup {n}
               /\ jobs'[n] = [word |-> v, calls |-> <<"add", "remove">>]
    <2>1. Len(started) = 1 /\ started[1] = [word |-> v, calls |-> <<"add", "remove">>]
      BY <1>3, <1>4, <1>5, <1>7 DEF Calls
    <2>2. /\ n \in DOMAIN (jobs \o started) /\ n \notin DOMAIN jobs
          /\ DOMAIN (jobs \o started) = DOMAIN jobs \cup {n}
          /\ (jobs \o started)[n] = started[1]
      <3>1. jobs \in Seq(Job) /\ started \in Seq(Job) /\ Len(started) = 1
        BY <1>5, <2>1
      <3>2. /\ Len(jobs \o started) = Len(jobs) + 1 /\ Len(jobs) \in Nat
            /\ (jobs \o started)[Len(jobs) + 1] = started[1]
            /\ DOMAIN (jobs \o started) = 1..(Len(jobs) + 1) /\ DOMAIN jobs = 1..Len(jobs)
        BY <3>1, ConcatProperties
      <3>3. QED BY <3>2
    <2>3. QED BY <1>2, <2>1, <2>2
  <1>8. QED BY <1>1, <1>6, <1>7 DEF v

LEMMA CommentKeeps ==
  ASSUME LabelsInv, NEW words \in (SUBSET Words) \ {{}}, Comment(words)
  PROVE  LabelsInv'
  <1>1. /\ jobs \in Seq(Job) /\ labels' = labels /\ swallowed' = swallowed
        /\ alone' = IF Settled /\ words # Words THEN CHOOSE w \in words : TRUE ELSE None
    BY DEF LabelsInv, Comment
  <1>2. Removing'
    <2>1. DOMAIN jobs \subseteq DOMAIN jobs' /\ \A j \in DOMAIN jobs : jobs'[j] = jobs[j]
      BY <1>1, JobsStart
    <2>2. QED BY <1>1, <2>1 DEF LabelsInv, Removing
  <1>3. Alone'
    <2> SUFFICES ASSUME alone' # None PROVE Alone'
      BY DEF Alone
    <2>1. Settled /\ words # Words /\ alone' = CHOOSE w \in words : TRUE
      BY <1>1
    <2>2. PICK n \in DOMAIN jobs' :
            /\ n \notin DOMAIN jobs /\ DOMAIN jobs' = DOMAIN jobs \cup {n}
            /\ jobs'[n] = [word |-> alone', calls |-> <<"add", "remove">>]
      <3>1. PICK w \in Words, m \in DOMAIN jobs' :
              /\ w = CHOOSE v \in words : TRUE
              /\ m \notin DOMAIN jobs /\ DOMAIN jobs' = DOMAIN jobs \cup {m}
              /\ jobs'[m] = [word |-> w, calls |-> <<"add", "remove">>]
        BY <1>1, <2>1, JobsStart
      <3>2. w = alone'
        BY <2>1, <3>1
      <3>3. QED BY <3>1, <3>2
    <2>3. \A k \in DOMAIN jobs' : k # n => jobs'[k].calls = <<>>
      <3>1. \A j \in DOMAIN jobs : jobs'[j] = jobs[j]
        BY <1>1, JobsStart
      <3>2. QED BY <2>1, <2>2, <3>1 DEF Settled
    <2>4. QED BY <2>2, <2>3 DEF Alone
  <1>4. QED BY <1>1, <1>2, <1>3, JobsStart DEF LabelsInv

\* A call of a job.
LEMMA CallEffect ==
  ASSUME jobs \in Seq(Job), NEW j \in DOMAIN jobs,
         AddLabel(j) \/ AddFails(j) \/ RemoveLabel(j) \/ RemoveFails(j)
  PROVE  /\ jobs' \in Seq(Job) /\ DOMAIN jobs' = DOMAIN jobs /\ jobs'[j].word = jobs[j].word
         /\ \A k \in DOMAIN jobs : k # j => jobs'[k] = jobs[k]
         /\ AddLabel(j) => jobs[j].calls = <<"add", "remove">> /\ jobs'[j].calls = <<"remove">>
         /\ AddFails(j) => jobs[j].calls = <<"add", "remove">>
         /\ RemoveLabel(j) \/ RemoveFails(j) =>
              jobs[j].calls = <<"remove">> /\ jobs'[j].calls = <<>>
  <1>0. jobs[j] \in Job
    OBVIOUS
  <1>1. jobs[j] \in Job /\ jobs[j].calls \in {<<"add", "remove">>, <<"remove">>, <<>>}
    BY <1>0 DEF Job
  <1>2. PICK c \in {<<"add", "remove">>, <<"remove">>, <<>>} : jobs' = [jobs EXCEPT ![j].calls = c]
    <2>1. CASE AddFails(j)
      BY <2>1 DEF AddFails
    <2>2. CASE ~AddFails(j)
      <3>1. jobs[j].calls # <<>> /\ jobs' = [jobs EXCEPT ![j].calls = Tail(jobs[j].calls)]
        BY <2>2 DEF AddLabel, RemoveLabel, RemoveFails, Called, Makes
      <3>2. Tail(jobs[j].calls) \in {<<"remove">>, <<>>}
        <4>1. Tail(<<"add", "remove">>) = <<"remove">> /\ Tail(<<"remove">>) = <<>>
          OBVIOUS
        <4>2. QED BY <1>1, <3>1, <4>1
      <3>3. QED BY <3>1, <3>2
    <2>3. QED BY <2>1, <2>2
  <1>3. /\ jobs' \in Seq(Job) /\ DOMAIN jobs' = DOMAIN jobs
        /\ jobs'[j].word = jobs[j].word /\ jobs'[j].calls = c
        /\ \A k \in DOMAIN jobs : k # j => jobs'[k] = jobs[k]
    <2>1. [jobs[j] EXCEPT !.calls = c] \in Job
      BY <1>1, <1>2 DEF Job
    <2>2. jobs' = [jobs EXCEPT ![j] = [jobs[j] EXCEPT !.calls = c]]
      BY <1>2
    <2>3. jobs[j] \in [word : Words, calls : {<<"add", "remove">>, <<"remove">>, <<>>}]
      BY <1>1 DEF Job
    <2>4. [jobs[j] EXCEPT !.calls = c].word = jobs[j].word /\ [jobs[j] EXCEPT !.calls = c].calls = c
      BY <2>3
    <2> DEFINE job == [jobs[j] EXCEPT !.calls = c]
    <2> HIDE DEF job
    <2>5. jobs' \in Seq(Job) /\ DOMAIN jobs' = DOMAIN jobs /\ jobs'[j] = job
          /\ \A k \in DOMAIN jobs : k # j => jobs'[k] = jobs[k]
      BY <2>1, <2>2 DEF job
    <2>6. QED BY <2>4, <2>5 DEF job
  <1>4. AddLabel(j) => jobs[j].calls = <<"add", "remove">> /\ jobs'[j].calls = <<"remove">>
    <2>1. AddLabel(j) => Head(jobs[j].calls) = "add" /\ jobs[j].calls # <<>>
                           /\ jobs' = [jobs EXCEPT ![j].calls = Tail(jobs[j].calls)]
      BY DEF AddLabel, Makes, Called
    <2>2. AddLabel(j) => jobs[j].calls = <<"add", "remove">>
      BY <1>1, <2>1
    <2>3. AddLabel(j) => jobs'[j].calls = Tail(jobs[j].calls)
      BY <1>0, <2>1 DEF Job
    <2>4. Tail(<<"add", "remove">>) = <<"remove">>
      OBVIOUS
    <2>5. QED BY <2>2, <2>3, <2>4
  <1>5. AddFails(j) => jobs[j].calls = <<"add", "remove">>
    BY <1>1 DEF AddFails, Makes
  <1>6. RemoveLabel(j) \/ RemoveFails(j) => jobs[j].calls = <<"remove">> /\ jobs'[j].calls = <<>>
    <2> DEFINE R == RemoveLabel(j) \/ RemoveFails(j)
    <2>1. R => Head(jobs[j].calls) = "remove" /\ jobs[j].calls # <<>>
               /\ jobs' = [jobs EXCEPT ![j].calls = Tail(jobs[j].calls)]
      BY DEF RemoveLabel, RemoveFails, Makes, Called
    <2> HIDE DEF R
    <2>2. R => jobs[j].calls = <<"remove">>
      BY <1>1, <2>1
    <2>3. R => jobs'[j].calls = Tail(jobs[j].calls)
      BY <1>0, <2>1 DEF Job
    <2>4. Tail(<<"remove">>) = <<>>
      OBVIOUS
    <2>5. QED BY <2>2, <2>3, <2>4 DEF R
  <1>7. QED BY <1>3, <1>4, <1>5, <1>6

LEMMA CallKeeps ==
  ASSUME LabelsInv, NEW j \in DOMAIN jobs,
         AddLabel(j) \/ AddFails(j) \/ RemoveLabel(j) \/ RemoveFails(j)
  PROVE  LabelsInv'
  <1> DEFINE w == jobs[j].word
  <1>1. /\ jobs \in Seq(Job) /\ labels \subseteq Words /\ jobs[j] \in Job
        /\ Removing /\ Alone
    BY DEF LabelsInv
  <1>2. w \in Words /\ Other(w) \in Words /\ Other(w) # w /\ Words = {w, Other(w)}
    BY <1>1, OtherWord DEF Job
  <1>3. /\ jobs' \in Seq(Job) /\ DOMAIN jobs' = DOMAIN jobs /\ jobs'[j].word = w
        /\ \A k \in DOMAIN jobs : k # j => jobs'[k] = jobs[k]
    BY <1>1, CallEffect
  <1> HIDE DEF w
  <1>4. CASE AddLabel(j)
    <2>1. /\ jobs[j].calls = <<"add", "remove">> /\ jobs'[j].calls = <<"remove">>
          /\ labels' = labels \cup {w} /\ alone' = alone /\ swallowed' = swallowed
      BY <1>1, <1>4, CallEffect DEF AddLabel, w
    <2>2. Removing'
      BY <1>3, <2>1 DEF Removing
    <2>3. ASSUME alone # None PROVE Alone'
      <3>1. PICK m \in DOMAIN jobs :
              /\ jobs[m].word = alone
              /\ \A k \in DOMAIN jobs : k # m => jobs[k].calls = <<>>
        BY <1>1, <2>3 DEF Alone
      <3>2. m = j
        BY <2>1, <3>1
      <3>3. alone = w
        BY <3>1, <3>2 DEF w
      <3>4. /\ jobs'[j].word = alone' /\ \A k \in DOMAIN jobs' : k # j => jobs'[k].calls = <<>>
            /\ jobs'[j].calls = <<"remove">> /\ alone' \in labels'
        BY <1>3, <2>1, <3>1, <3>2, <3>3
      <3>5. <<"remove">> # <<>>
        OBVIOUS
      <3>6. j \in DOMAIN jobs' /\ jobs'[j].calls # <<>>
        BY <1>3, <3>4, <3>5
      <3>7. QED BY <3>4, <3>6 DEF Alone
    <2>4. Alone'
      BY <2>1, <2>3 DEF Alone
    <2>5. QED BY <1>1, <1>2, <1>3, <2>1, <2>2, <2>4 DEF LabelsInv
  <1>5. CASE AddFails(j)
    <2>1. /\ jobs[j].calls = <<"add", "remove">> /\ alone' = None
          /\ labels' = labels /\ swallowed' = swallowed
      BY <1>1, <1>5, CallEffect DEF AddFails
    <2>2. ASSUME NEW k \in DOMAIN jobs, jobs[k].calls = <<"remove">>
          PROVE  jobs'[k].calls = <<"remove">>
      <3>1. <<"remove">> # <<"add", "remove">>
        OBVIOUS
      <3>2. QED BY <1>3, <2>1, <2>2, <3>1
    <2>3. Removing'
      BY <1>1, <1>3, <2>1, <2>2 DEF Removing
    <2>4. Alone'
      BY <2>1 DEF Alone
    <2>5. QED BY <1>1, <1>3, <2>1, <2>3, <2>4 DEF LabelsInv
  <1>6. CASE RemoveLabel(j) \/ RemoveFails(j)
    <2>1. /\ jobs[j].calls = <<"remove">> /\ jobs'[j].calls = <<>> /\ alone' = alone
      BY <1>1, <1>6, CallEffect DEF RemoveLabel, RemoveFails
    <2>2. \/ labels' = labels \ {Other(w)} /\ swallowed' = swallowed
          \/ labels' = labels /\ swallowed' = (swallowed \/ Other(w) \in labels)
      BY <1>6 DEF RemoveLabel, RemoveFails, w
    <2>3. labels' \subseteq labels /\ (~swallowed' => ~swallowed /\ Other(w) \notin labels')
          /\ (w \in labels => w \in labels')
      <3>1. CASE labels' = labels \ {Other(w)} /\ swallowed' = swallowed
        <4>1. ~swallowed' => ~swallowed
          BY <3>1
        <4>2. Other(w) \notin labels' /\ labels' \subseteq labels
          BY <3>1
        <4>3. w \in labels => w \in labels'
          BY <1>2, <3>1
        <4>4. QED BY <4>1, <4>2, <4>3
      <3>2. CASE labels' = labels /\ swallowed' = (swallowed \/ Other(w) \in labels)
        BY <3>2
      <3>3. QED BY <2>2, <3>1, <3>2
    <2>4. Removing'
      BY <1>2, <2>3 DEF Removing
    <2>5. ASSUME alone # None PROVE Alone'
      <3>1. PICK m \in DOMAIN jobs :
              /\ jobs[m].word = alone
              /\ \A k \in DOMAIN jobs : k # m => jobs[k].calls = <<>>
              /\ jobs[m].calls # <<"add", "remove">> => alone \in labels
        BY <1>1, <2>5 DEF Alone
      <3>2. m = j
        <4>1. <<"remove">> # <<>>
          OBVIOUS
        <4>2. QED BY <2>1, <3>1, <4>1
      <3>3. alone = w /\ alone \in labels
        <4>1. <<"remove">> # <<"add", "remove">>
          OBVIOUS
        <4>2. QED BY <2>1, <3>1, <3>2, <4>1 DEF w
      <3>4. /\ jobs'[j].word = alone' /\ \A k \in DOMAIN jobs' : k # j => jobs'[k].calls = <<>>
            /\ alone' \in labels' /\ (~swallowed' => Other(alone') \notin labels')
        BY <1>3, <2>1, <2>3, <3>1, <3>2, <3>3
      <3>5. Other(alone)' = Other(alone')
        BY DEF Other, Words
      <3>6. QED BY <1>3, <3>4, <3>5 DEF Alone
    <2>6. Alone'
      BY <2>1, <2>5 DEF Alone
    <2>7. QED BY <1>1, <1>3, <2>3, <2>4, <2>6 DEF LabelsInv
  <1>7. QED BY <1>4, <1>5, <1>6

\* When the jobs are done and no removal failed unnoticed, the pull request does not
\* wait for both, and it waits for whom the last comment named, if that was alone.
THEOREM LabelsSettle == LabelsSpec => []StatusIsClear
  <1>1. LabelsInit => LabelsInv
    <2> SUFFICES ASSUME LabelsInit PROVE LabelsInv
      OBVIOUS
    <2>1. labels = {} /\ jobs = <<>> /\ alone = None
      BY DEF LabelsInit
    <2>2. Words # {} /\ jobs \in Seq(Job)
      BY <2>1 DEF Words
    <2>3. QED BY <2>1, <2>2 DEF LabelsInv, Removing, Alone
  <1>2. LabelsInv /\ [LabelsNext]_pr => LabelsInv'
    <2> SUFFICES ASSUME LabelsInv, [LabelsNext]_pr PROVE LabelsInv'
      OBVIOUS
    <2>1. CASE UNCHANGED pr
      BY <2>1 DEF pr, LabelsInv, Removing, Alone
    <2>2. QED BY <2>1, CommentKeeps, CallKeeps DEF LabelsNext
  <1>3. LabelsInv => StatusIsClear
    <2> SUFFICES ASSUME LabelsInv, Settled, ~swallowed
                 PROVE  labels # Words /\ (alone # None => labels = {alone})
      BY DEF StatusIsClear
    <2>1. \A j \in DOMAIN jobs : jobs[j].calls = <<>>
      BY DEF Settled
    <2>2. labels # Words
      <3>1. <<>> # <<"remove">>
        OBVIOUS
      <3>2. QED BY <2>1, <3>1 DEF LabelsInv, Removing
    <2>3. ASSUME alone # None PROVE labels = {alone}
      <3>1. PICK j \in DOMAIN jobs :
              /\ jobs[j].word = alone
              /\ jobs[j].calls # <<"add", "remove">> => alone \in labels
              /\ jobs[j].calls = <<>> /\ ~swallowed => Other(alone) \notin labels
        BY <2>3 DEF LabelsInv, Alone
      <3>2. <<>> # <<"add", "remove">>
        OBVIOUS
      <3>3. alone \in labels /\ Other(alone) \notin labels
        BY <2>1, <3>1, <3>2
      <3>4. labels \subseteq Words
        BY DEF LabelsInv
      <3>5. QED BY <3>3, <3>4, OtherWord
    <2>4. QED BY <2>2, <2>3
  <1>4. QED BY <1>1, <1>2, <1>3, PTL DEF LabelsSpec
=============================================================================
