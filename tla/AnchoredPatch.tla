------------------------------ MODULE AnchoredPatch ------------------------------
(***************************************************************************)
(* The scripts that edit text by exact replacement: patch-leanok-coverage  *)
(* and patch-planning-coverage.py edit several files, each of them several *)
(* times, patch-dhalt-values.py one.  They are run any number of times,    *)
(* with --check or without, on files that people edit and restore.         *)
(*                                                                         *)
(* A file is how often it has the anchor of each edit, and its marker, a   *)
(* string that only the replacement has.                                   *)
(***************************************************************************)
EXTENDS Naturals, Sequences, Functions

CONSTANTS
  EDITS,   \* a sequence of [fname, keeps]: the replacement repeats the anchor
  Counts   \* how often an anchor may occur

ASSUME EditsAssumption ==
  EDITS \in Seq([fname : {EDITS[i].fname : i \in DOMAIN EDITS}, keeps : BOOLEAN])

VARIABLES
  disk,      \* disk[i]: [anchor, marker] of edit i in the file as it is written
  text,      \* the same in seen.get(fname, p.read_text())
  seen,      \* the files that an edit changed, in the order of the first
  next,      \* the edits gone through, and the next
  problems,  \* there are some
  check,
  status,    \* "run", or how the last run ended: "ok", "failed", "killed", or "none"
  before,    \* the disk when the run began (history)
  promised   \* a run with --check passed, and nobody wrote a file since (history)

patching == <<disk, text, seen, next, problems, check, status, before, promised>>

\* edit(fname, anchor, replacement, why, marker)
edit == 1..Len(EDITS)

Unpatched == [anchor |-> 1, marker |-> 0]
Patched(i) == [anchor |-> IF EDITS[i].keeps THEN 1 ELSE 0, marker |-> 1]

\* What the replacement makes of a text.
Replace(i, piece) ==
  [anchor |-> IF EDITS[i].keeps THEN piece.anchor ELSE piece.anchor - 1, marker |-> piece.marker + 1]

Unmarked(piece) == piece.anchor = 1   \* mutant

\* Not where the anchor is missing or ambiguous, nor a second time.
Applies(piece) == piece.anchor = 1 /\ piece.marker = 0

Running == status = "run"

Begin ==
  /\ ~Running
  /\ check' \in BOOLEAN /\ text' = disk /\ before' = disk /\ status' = "run"
  /\ UNCHANGED <<disk, seen, next, problems, promised>>

Try ==
  /\ Running /\ next <= Len(EDITS)
  /\ LET fname == EDITS[next].fname
     IN  IF Applies(text[next])
         THEN /\ text' = [text EXCEPT ![next] = Replace(next, @)]
              /\ seen' = IF fname \in Range(seen) THEN seen ELSE Append(seen, fname)
              /\ UNCHANGED problems
         ELSE problems' = TRUE /\ UNCHANGED <<text, seen>>
  /\ next' = next + 1
  /\ UNCHANGED <<disk, check, status, before, promised>>

\* All edits are tried before one is written, and all problems reported.
Judged == Running /\ next > Len(EDITS)

End(r) ==
  /\ status' = r
  /\ text' = <<>> /\ seen' = <<>> /\ next' = 1 /\ problems' = FALSE /\ check' = FALSE /\ before' = <<>>

Refuse == Judged /\ problems /\ End("failed") /\ UNCHANGED <<disk, promised>>

Passed == Judged /\ ~problems /\ check /\ End("ok") /\ promised' = TRUE /\ UNCHANGED disk

Write ==
  /\ Judged /\ ~problems /\ ~check /\ seen # <<>>
  /\ disk' = [i \in edit |-> IF EDITS[i].fname = Head(seen) THEN text[i] ELSE disk[i]]
  /\ seen' = Tail(seen) /\ promised' = FALSE
  /\ UNCHANGED <<text, next, problems, check, status, before>>

Written == Judged /\ ~problems /\ ~check /\ seen = <<>>

Return == Written /\ End("ok") /\ UNCHANGED <<disk, promised>>

Kill == Running /\ End("killed") /\ UNCHANGED <<disk, promised>>

\* Somebody rewords the text around an edit, or restores a file.
People ==
  /\ ~Running
  /\ \/ \E i \in edit, n \in Counts : disk' = [disk EXCEPT ![i].anchor = n]
     \/ \E e \in Range(EDITS) :
          disk' = [i \in edit |-> IF EDITS[i].fname = e.fname THEN Unpatched ELSE disk[i]]
  /\ promised' = FALSE
  /\ UNCHANGED <<text, seen, next, problems, check, status, before>>

PatchInit ==
  /\ disk = [i \in edit |-> Unpatched] /\ text = <<>> /\ seen = <<>> /\ next = 1
  /\ problems = FALSE /\ check = FALSE /\ status = "none" /\ before = <<>> /\ promised = FALSE

PatchNext == Begin \/ Try \/ Refuse \/ Passed \/ Write \/ Return \/ Kill \/ People

PatchSpec == PatchInit /\ [][PatchNext]_patching

-----------------------------------------------------------------------------
\* No edit is ever in a file twice, whoever runs the script again on what it wrote, or
\* on what a killed run left.  A run that returns 0 wrote all edits, one that fails or
\* only checks wrote none; and where --check passed, the run itself does not fail.
PatchIsWhole ==
  /\ \A i \in edit : disk[i].marker <= 1
  /\ Written => \A i \in edit : disk[i] = Patched(i)
  /\ Judged /\ (problems \/ check) => disk = before
  /\ Judged /\ problems => ~promised
=============================================================================
