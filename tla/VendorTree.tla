------------------------------- MODULE VendorTree -------------------------------
(***************************************************************************)
(* The scripts that vendor another project's Lean files: each of them      *)
(* deletes and recreates a directory of this repository, and repairs the   *)
(* copy with recorded fixes.  scripts/vendor-repetition.py keeps three     *)
(* such directories ("cr", "tp", "or"), and cuts the one file of the second*)
(* into parts; vendor-lidt.py and vendor-liehr.py kept one each.           *)
(*                                                                         *)
(* A run is killed between any two writes, or exits when a fix does not    *)
(* match; then somebody starts a run again.  Fixes are recorded meanwhile. *)
(*                                                                         *)
(* A file is the pieces of text that the recorded fixes are about, each as *)
(* upstream wrote it at some commit or fixed, and the rewrites of the      *)
(* whole file that it went through.                                        *)
(***************************************************************************)
EXTENDS Naturals, Sequences, FiniteSets

CONSTANTS
  Commits, Nil,
  Pieces,      \* Pieces[s]: the fixes of source s that are recorded sooner or later, in order
  Prepending,  \* those whose new text holds the old one (TP_FIX_SCHMIDT)
  Upstream,    \* Upstream[c][s][p]: "old" if the text of fix p occurs once in commit c;
               \* "absent" if it does not, "twice" if it occurs twice
  Oversized,   \* commits with a block that makes a part longer than a Lean file may be
  Incomplete   \* <<c, s>>: a module that the roots of s import is not in commit c

Dirs == {"cr", "tp", "or", "lidt", "liehr"}

ASSUME VendorAssumption ==
  /\ Pieces \in [Dirs -> SUBSET Nat]
  /\ \A c \in Commits, s \in Dirs : \A p \in Pieces[s] : Upstream[c][s][p] \in {"old", "absent", "twice"}
  /\ Nil \notin [prose : {"local", "default"}, generated : Commits] \cup (Commits \X {"new", "double"})

VARIABLES
  script,    \* whose run is looked at
  tree,      \* tree[s]: the Lean files of the directory, by name
  readme,    \* its README.md: the text that people wrote, and the generated block
  recorded,  \* recorded[s]: the fixes that the script knows by now
  mode, commit,
  jobs,      \* what the run still does, and to which directory
  fixed,     \* the fixes it went through in this loop
  memory,    \* readme_text
  result,    \* how the last run ended
  sound      \* sound[s]: the last run that vendored s anew returned (history)

vendoring == <<script, tree, readme, recorded, mode, commit, jobs, fixed, memory, result, sound>>

-----------------------------------------------------------------------------
(* The tables.                                                             *)

Scripts == {"repetition", "lidt", "liehr"}
Mine == IF script = "repetition" THEN {"cr", "tp", "or"} ELSE {script}

Split == {"tp"}
Patterns == {"cr", "or"}   \* sources with pattern_fixes

write_split == <<"unpart", "part", "root">>

Unkept(s) ==   \* mutant
  <<"remove", "copy", "fixOnce", "pattern">>
    \o (IF s \in Split THEN write_split ELSE <<>>) \o <<"module", "readme">>
repetition(s) ==
  <<"remove", "keep", "copy", "fixOnce", "pattern">>
    \o (IF s \in Split THEN write_split ELSE <<>>) \o <<"module", "readme">>

lidt == <<"remove", "copy", "fix", "module", "readme">>

liehr == <<"remove", "keep", "copy", "fix", "module", "readme">>

Stages(s) == CASE script = "lidt" -> lidt [] script = "liehr" -> liehr [] OTHER -> repetition(s)

Jobs(stages, s) == [i \in 1..Len(stages) |-> <<stages[i], s>>]

-----------------------------------------------------------------------------
(* Files.                                                                  *)

main == <<"main", 1>>
other == <<"other", 1>>
Part(k) == <<"Part", k>>
IsPart(f) == f[1] = "Part"

Empty == [x \in {} |-> Nil]
\* The files that the roots import; a later commit may do without some of them.
Closure(c) == IF c \in Oversized THEN {main} ELSE {main, other}
Files(s, c) == IF s \in Split THEN {main} ELSE Closure(c)

\* The pieces as upstream has them, but for those that are fixed.
Text(s, c, R) == [p \in Pieces[s] |-> <<c, IF p \in R THEN "new" ELSE Upstream[c][s][p]>>]

Fresh(s, f, c) ==
  [text |-> IF f = main THEN Text(s, c, {}) ELSE Empty,
   rewrites |-> {}]

Occurrences(p, piece) ==
  CASE piece[2] = "old" -> 1
    [] piece[2] = "twice" -> 2
    [] piece[2] = "absent" -> 0
    [] OTHER -> IF p \in Prepending THEN 1 ELSE 0

Applied(piece) == piece[2] \in {"new", "double"}
Replaced(piece) == <<piece[1], IF Applied(piece) THEN "double" ELSE "new">>

Put(s, f, content) ==
  tree' = [tree EXCEPT ![s] = [g \in DOMAIN @ \cup {f} |-> IF g = f THEN content ELSE @[g]]]
Delete(s, f) == tree' = [tree EXCEPT ![s] = [g \in DOMAIN @ \ {f} |-> @[g]]]

First(I) == CHOOSE i \in I : \A j \in I : i <= j

\* The file of a fix, or the first part of it that has either text.
Has(s, f, p) ==
  f \in DOMAIN tree[s] /\ p \in DOMAIN tree[s][f].text
    /\ (Applied(tree[s][f].text[p]) \/ Occurrences(p, tree[s][f].text[p]) > 0)
Target(s, p) ==
  LET having == {k \in Pieces[s] : Has(s, Part(k), p)}
  IN  IF Has(s, main, p) \/ main \notin DOMAIN tree[s] \/ having = {} THEN main ELSE Part(First(having))

-----------------------------------------------------------------------------
(* A run.                                                                  *)

Idle == jobs = <<>>
At(stage, s) == ~Idle /\ Head(jobs) = <<stage, s>>

BeginRun(m, todo) == Idle /\ mode' = m /\ jobs' = todo /\ fixed' = {}

EndRun(r) == jobs' = <<>> /\ fixed' = {} /\ memory' = Nil /\ result' = r

Done == jobs' = Tail(jobs) /\ fixed' = {} /\ UNCHANGED <<memory, result>>

Stay == UNCHANGED <<jobs, fixed, memory, result>>

Known == <<script, recorded, mode, commit>>

\* The clone is at the commit and clean, or the run ends where it began.
Vendor(s, c) ==
  /\ BeginRun("vendor", Jobs(Stages(s), s))
  /\ commit' = c /\ memory' = readme[s] /\ result' = "none"
  /\ sound' = [sound EXCEPT ![s] = FALSE]
  /\ UNCHANGED <<script, tree, readme, recorded>>

Applying(s) == Jobs(<<"fix", "pattern", "module">>, s)

ApplyFixes ==
  /\ BeginRun("apply",
       IF script = "repetition" THEN (Applying("cr") \o Applying("tp")) \o Applying("or")
       ELSE Applying(script))
  /\ memory' = Nil /\ result' = "none"
  /\ UNCHANGED <<script, tree, readme, recorded, commit, sound>>

AnyRoot(s) == main \in DOMAIN tree[s]   \* mutant

\* A root that only imports has no namespace, and a file that was made a module has an
\* "end" after it.
MaySplit(s) ==
  main \in DOMAIN tree[s] /\ tree[s][main].text # Empty /\ "module" \notin tree[s][main].rewrites

Resplit(s) ==
  /\ s \in Split /\ Idle
  /\ IF MaySplit(s)
     THEN BeginRun("resplit", Jobs(write_split, s)) /\ result' = "none"
     ELSE mode' = "resplit" /\ result' = "error" /\ UNCHANGED <<jobs, fixed>>
  /\ memory' = Nil
  /\ UNCHANGED <<script, tree, readme, recorded, commit, sound>>

RemoveTree(s) ==
  /\ At("remove", s)
  /\ \/ \E f \in DOMAIN tree[s] : Delete(s, f) /\ Stay /\ UNCHANGED readme
     \/ readme[s] # Nil /\ readme' = [readme EXCEPT ![s] = Nil] /\ Stay /\ UNCHANGED tree
     \/ DOMAIN tree[s] = {} /\ readme[s] = Nil /\ Done /\ UNCHANGED <<tree, readme>>
  /\ UNCHANGED <<Known, sound>>

Keep(s) ==
  /\ At("keep", s)
  /\ readme' = [readme EXCEPT ![s] = memory]
  /\ Done /\ UNCHANGED <<Known, tree, sound>>

Copy(s) ==
  /\ At("copy", s)
  /\ LET left == Files(s, commit) \ DOMAIN tree[s]
     IN  IF <<commit, s>> \in Incomplete THEN EndRun("error") /\ UNCHANGED tree
         ELSE IF left = {} THEN Done /\ UNCHANGED tree
         ELSE \E f \in left : Put(s, f, Fresh(s, f, commit)) /\ Stay
  /\ UNCHANGED <<Known, readme, sound>>

-----------------------------------------------------------------------------
(* The recorded fixes.                                                     *)

Fixing(s, p) == IF At("fixOnce", s) THEN main ELSE Target(s, p)

\* What becomes of a piece: of a fresh copy, or of a tree as it is, where "new may
\* contain old, so the already-applied check comes first".
Once(p, piece) == IF Occurrences(p, piece) = 1 THEN Replaced(piece) ELSE Nil
OldFirst(p, piece) ==   \* mutant
  IF Occurrences(p, piece) = 1 THEN Replaced(piece) ELSE IF Applied(piece) THEN piece ELSE Nil
AsItIs(p, piece) ==
  IF Applied(piece) THEN piece
  ELSE IF Occurrences(p, piece) = 1 THEN Replaced(piece) ELSE Nil

Fix(s) ==
  /\ At("fixOnce", s) \/ At("fix", s)
  /\ LET left == recorded[s] \ fixed
         p == First(left)
         f == Fixing(s, p)
         there == f \in DOMAIN tree[s] /\ p \in DOMAIN tree[s][f].text
         piece == IF ~there THEN Nil
                  ELSE IF At("fixOnce", s) THEN Once(p, tree[s][f].text[p])
                                           ELSE AsItIs(p, tree[s][f].text[p])
     IN  IF left = {} THEN Done /\ UNCHANGED tree
         ELSE IF piece = Nil THEN EndRun("error") /\ UNCHANGED tree
         ELSE /\ Put(s, f, [tree[s][f] EXCEPT !.text[p] = piece])
              /\ fixed' = fixed \cup {p} /\ UNCHANGED <<jobs, memory, result>>
  /\ UNCHANGED <<Known, readme, sound>>

\* A pattern, and then the module system, are brought to one file after the other;
\* a file that has them already stays as it is.
Rewrite(s, stage) ==
  /\ At(stage, s)
  /\ LET left == {f \in DOMAIN tree[s] : stage \notin tree[s][f].rewrites}
     IN  IF left = {} \/ (stage = "pattern" /\ s \notin Patterns) THEN Done /\ UNCHANGED tree
         ELSE \E f \in left :
                Put(s, f, [tree[s][f] EXCEPT !.rewrites = @ \cup {stage}]) /\ Stay
  /\ UNCHANGED <<Known, readme, sound>>

-----------------------------------------------------------------------------
(* The split, and the README at the end.                                   *)

Unpart(s) ==
  /\ At("unpart", s)
  /\ LET parts == {f \in DOMAIN tree[s] : IsPart(f)}
     IN  IF parts = {} THEN Done /\ UNCHANGED tree
         ELSE \E f \in parts : Delete(s, f) /\ Stay
  /\ UNCHANGED <<Known, readme, sound>>

\* A part that is too long is noticed when it is written.
WritePart(s) ==
  /\ At("part", s)
  /\ LET left == {k \in Pieces[s] : Part(k) \notin DOMAIN tree[s]}
         k == First(left)
         root == tree[s][main]
     IN  IF left = {} THEN Done /\ UNCHANGED tree
         ELSE /\ Put(s, Part(k), [text |-> [j \in {k} |-> root.text[j]], rewrites |-> {}])
              /\ IF root.text[k][1] \in Oversized /\ k = Cardinality(Pieces[s])
                 THEN EndRun("error") ELSE Stay
  /\ UNCHANGED <<Known, readme, sound>>

WriteRoot(s) ==
  /\ At("root", s)
  /\ Put(s, main, [text |-> Empty, rewrites |-> {}])
  /\ Done /\ UNCHANGED <<Known, readme, sound>>

\* vendor-lidt.py has the text in memory, the others have it on the disk.
RefreshReadme(s) ==
  /\ At("readme", s)
  /\ LET text == IF script = "lidt" THEN memory ELSE readme[s]
     IN  readme' = [readme EXCEPT ![s] =
           [prose |-> IF text = Nil THEN "default" ELSE text.prose, generated |-> commit]]
  /\ sound' = [sound EXCEPT ![s] = TRUE]
  /\ Done /\ UNCHANGED <<Known, tree>>

\* A run that has nothing left to do returned.
RunReturns ==
  /\ Idle /\ result = "none" /\ result' = "ok" /\ memory' = Nil
  /\ UNCHANGED <<Known, tree, readme, jobs, fixed, sound>>

-----------------------------------------------------------------------------
KillRun == ~Idle /\ EndRun("killed") /\ UNCHANGED <<Known, tree, readme, sound>>

\* Somebody records the fixes that a later Lean or Mathlib asks for.
Record ==
  /\ Idle /\ result # "none"
  /\ recorded' = Pieces
  /\ UNCHANGED <<script, tree, readme, mode, commit, jobs, fixed, memory, result, sound>>

-----------------------------------------------------------------------------
Rewrites(s) == IF s \in Patterns THEN {"pattern", "module"} ELSE {"module"}

\* What a run from a clone at commit c leaves, with the fixes of R.
Vendored(s, c, R) ==
  IF s \in Split
  THEN [f \in {main} \cup {Part(k) : k \in Pieces[s]} |->
          [text |-> [p \in {k \in Pieces[s] : Part(k) = f} |-> Text(s, c, R)[p]], rewrites |-> Rewrites(s)]]
  ELSE [f \in Files(s, c) |->
          [text |-> IF f = main THEN Text(s, c, R) ELSE Empty, rewrites |-> Rewrites(s)]]

\* The directories as they are checked in, or not yet there.
VendorInit ==
  /\ script \in Scripts
  /\ recorded = [s \in Dirs |-> {}]
  /\ \E c \in Commits, there \in BOOLEAN :
       /\ c \notin Oversized /\ \A s \in Dirs : <<c, s>> \notin Incomplete
       /\ commit = c
       /\ tree = [s \in Dirs |-> IF there THEN Vendored(s, c, {}) ELSE Empty]
       /\ readme = [s \in Dirs |->
                      IF there THEN [prose |-> "local", generated |-> c] ELSE Nil]
       /\ sound = [s \in Dirs |-> there]
  /\ mode = "vendor" /\ jobs = <<>> /\ fixed = {} /\ memory = Nil /\ result = "ok"

Run(s) ==
  \/ RemoveTree(s) \/ Keep(s) \/ Copy(s) \/ Fix(s)
  \/ Rewrite(s, "pattern") \/ Rewrite(s, "module")
  \/ Unpart(s) \/ WritePart(s) \/ WriteRoot(s) \/ RefreshReadme(s)

VendorNext ==
  \/ RunReturns \/ KillRun
  \/ Record
  \/ Idle /\ result # "none" /\ (ApplyFixes \/ \E s \in Mine :
       Resplit(s) \/ \E c \in Commits : Vendor(s, c))
  \/ \E s \in Mine : Run(s)

VendorSpec == VendorInit /\ [][VendorNext]_vendoring

-----------------------------------------------------------------------------
\* The text that Lean builds: that of the one file, or of its parts.
Live(s) ==
  LET text == IF main \in DOMAIN tree[s] THEN tree[s][main].text ELSE Empty
  IN  IF text # Empty THEN text
      ELSE [p \in {k \in Pieces[s] : Part(k) \in DOMAIN tree[s]} |-> tree[s][Part(p)].text[p]]

Finished(m) == Idle /\ result = "none" /\ mode = m

\* Whatever killed and failed runs left of the directory, a run that ends well leaves
\* what upstream has at the commit that its README names, repaired; and from then on no
\* --apply-fixes and no --resplit changes it but by fixes recorded later, whether or not
\* they run to their end.  When --apply-fixes does, the directory is the one that
\* vendoring anew would give; and each recorded fix is in the text that Lean builds,
\* once, and every file is a module, also where a killed run left a directory half
\* copied or half split.
CopyIsSound ==
  \A s \in Mine :
    /\ sound[s] => \E R \in SUBSET recorded[s] : tree[s] = Vendored(s, readme[s].generated, R)
    /\ Finished("apply") =>
         /\ sound[s] => tree[s] = Vendored(s, readme[s].generated, recorded[s])
         /\ \A p \in recorded[s] : p \in DOMAIN Live(s) /\ Live(s)[p][2] = "new"
         /\ \A f \in DOMAIN tree[s] : "module" \in tree[s][f].rewrites

\* No step of --apply-fixes or --resplit loses text, or changes it but by a fix.
TextIsKept ==
  [][mode' # "vendor" => \A s \in Mine : \A p \in DOMAIN Live(s) :
       /\ p \in DOMAIN Live(s)'
       /\ Live(s)'[p] # Live(s)[p] => Live(s)[p][2] = "old" /\ Live(s)'[p][2] = "new"]_vendoring

\* What people wrote in a README, the deviations from upstream among it, is lost by no
\* run that ends by itself, whatever fix does not match; only by one that is killed
\* after it removed the file.  vendor-lidt.py holds it in memory to the end, and loses
\* it also where it stops with an error.
Prose(s) ==
  \/ readme[s] # Nil /\ readme[s].prose = "local"
  \/ ~Idle /\ Head(jobs)[2] = s /\ memory # Nil /\ memory.prose = "local"

ProseIsKept ==
  [][\A s \in Mine : Prose(s) /\ ~Prose(s)' =>
       readme[s] = Nil /\ result' \in IF script = "lidt" THEN {"killed", "error"} ELSE {"killed"}]_vendoring
=============================================================================
