# A verification of the MIPRE tooling

The repository holds a Lean formalization, a blueprint of it in TeX, and the
scripts that keep the two, a vendored library and a companion ledger in step.
Lean's kernel checks the mathematics. Nothing checks the scripts, and people act
on what they print: that a file has no errors, that a declaration may be deleted,
that a result depends on nothing unproved, that the vendored copy is what upstream
has. This directory models those scripts in TLA+, checks the models with TLC on
small instances, and proves what matters most with TLAPS for every instance.

All paths below are relative to `src/`.

- [1 The system](#1-the-system): components, state, operations, interactions
- [2 Modules and code](#2-modules-and-code): what models what
- [3 Runs](#3-runs): the questions asked, the bounds, the fairness
- [4 Proofs](#4-proofs)
- [5 What the models found](#5-what-the-models-found)
- [6 What is not modelled](#6-what-is-not-modelled)
- [7 Plan](#7-plan)

## 1 The system

### 1.1 Components

| Component | State it keeps | Operations | What makes it correct |
| --- | --- | --- | --- |
| Persistent Lean checker, `scripts/lean-lsp-check.py` (`Checker`, HTTP handlers) | one lock; the language-server client; per file a document (text and version) in an ordered table of at most `max_open_files`; the last version of every file; the diagnostics table; the uri and version under check | `check`, `close`, `status`, `stop`, each in an HTTP thread; `on_diagnostics` in the library's reader thread | a verdict is about the text asked for; an edit is applied to the text Lean has; no more than `max_open_files` Lean workers; no Lean server outlives its client unnoticed; one request is served at a time |
| Helper session, same file (`start`, `serve`) | the state file `lean-lsp-state.json`, created exclusively, then written, then unlinked by its owner | `start` (launch, poll until a deadline), `serve`, the recovery by hand of a dead helper's file | one helper at a time; a serving helper can be found; nobody else's file is removed; `start` returns |
| Process wrapper, `scripts/lean-local.ps1` (`Invoke-LoggedProcess`) | the process, two pending reads, the log, a deadline | read a line, observe exit, time out, kill the tree, clean up | the log is whole; a timeout is never reported as an exit code; the command does not stay behind; the wrapper ends |
| Ledger synchronization, `scripts/ledger-sync.py` | the snapshot `planning/ledger-index.json` of a companion repository's event log | `refresh` (replay, report, rewrite), `check`, `import_reach` | the replay is what the latest events say; no record of a cited node changes unseen; a passing `check` is about nodes that somebody saw live; the admitted nodes a node rests on are found |
| Blueprint edges, `scripts/blueprint-edges.py` with `blueprint-deps.lean` | `\uses` lists in the blueprint; a dump of Lean's constants | `lean_edges` (walks), `find_cycles`, `audit`, `--fix` (`minimal_additions`, rewriting) | a passing audit means that what a proved result cites is proved and that `\uses` reaches what Lean reaches; `--fix` makes it pass without needless or stale edges; cycles are found |
| Dead declarations, `scripts/lean-dead.py` | Lean's `.ilean` usages; the growing dead set | the fixpoint loop | deleting what is listed breaks nothing; the list is complete and does not depend on the order of files |
| Lean coverage, `scripts/lean-coverage.py` | `LEAN_COVERAGE.md` and a snapshot used as a ratchet | `build`, `--check`, `--refresh`; `lean_declarations`, `cross_references`, `text_mode_specials` | what the blueprint claims is guarded; coverage is not lost silently; references and environments are right; every special that stops TeX is reported at its line, and the scan ends |
| Pairing of ports, `scripts/port-pairing.py` | a report per ported file | `strip_comments`, `declarations`, the three loops of `main`, `--check` | when it passes, every public vendored name can be used under the port or is accounted for |
| Conversion to modules, `scripts/modularize.py` | Lean sources | the header of a module, its imports, `unprivate_defs`; `private_def_names` | a converted file exports what it did and imports what it must; running it again changes nothing; name clashes are seen |
| Vendoring, `scripts/vendor-repetition.py` (and the retired `vendor-lidt.py`, `vendor-liehr.py`) | vendored directories, their READMEs, the recorded fixes | a run from a clone: remove, keep the README, copy, fix, split, convert; `--apply-fixes`; `--resplit` | the directory is upstream's, repaired, whatever was killed before; no text and no README is lost; every part stands in its context |
| Patches, `scripts/patch-*.py` | planning documents and blueprint chapters | replacements that must each match once, `--check` | applied wholly or not at all, never twice |
| CI, `.github/workflows/` | runs and their concurrency groups; a rolling release bundle; labels of pull requests | build, upload, label jobs | every commit of a pull request and of main is reported on; a pull request waits for one side |
| Reports, `scripts/port-classify.py`, `scripts/blueprint-colours.py` | none | read and print | |
| Palomar preflight, `scripts/palomar/` | none | stateless checks | |
| The formalization, `MIPRE/`; the blueprint, `blueprint/`; planning and docs | text | none over time | checked by Lean, read by people |

### 1.2 Interactions

- Callers of `lean-lsp-check.py check` find the helper through the state file and
  send one HTTP request. `ThreadingHTTPServer` gives each a daemon thread, and all
  threads share one `Checker`. The `Checker` calls the language-server client,
  whose reader thread calls back `on_diagnostics` **without** the lock. When
  `serve_forever` returns, the main thread calls `checker.close()`, again
  **without** the lock, and unlinks the file.
- `lean-local.ps1` runs Lake, Python and the scripts above as processes that
  inherit its pipes.
- `blueprint-deps.lean` dumps constants; `blueprint-edges.py` reads the dump and
  rewrites the blueprint; `lean-coverage.py` reads the same blueprint and the Lean
  files; `lean-dead.py` reads Lean's indices; four scripts parse Lean scopes, each
  in its own way.
- `vendor-repetition.py` calls `modularize.py` on every file it writes, and
  `--apply-fixes` brings fixes and conversion to whatever an earlier run left.
- `ledger-sync.py refresh` reads another repository and writes the snapshot that
  `check` and CI read.
- Several runs of one workflow share a concurrency group; two label jobs share the
  labels of one pull request, without a group.

### 1.3 What is hard

Concurrency: handler threads, reader thread and main thread of the checker;
several `start`s and dying helpers over one file; a command and its grandchildren
over two pipes; label jobs of one comment. Failure: every call into the client may
raise, time out or leave a server behind; a `refresh`, a vendoring run or a patch
run may be cut between two writes, and somebody runs the next one on what is left.
Order: replay in two passes, memoization inside a recursion over a graph with
cycles, a set that a loop reads and writes, edges added in an order that decides
which are needed, queued workflow runs that start late. Boundaries: scanners that
jump, parts that are cut at a maximum. `PROJECT.json` lists each at its line under
`hazards`.

## 2 Modules and code

One module per component, `MC*` modules for TLC's instances, `*Proofs` modules for
the theorems. A definition whose comment begins with `mutant:` is a plausible wrong
version of the one that follows; `PROJECT.json` pairs each property with one that it
rejects.

An `MC` module may hold the instances of several machines that do not interact:
`MCLspSession`, `MCLoggedProcess`, `MCLedgerSync`, `MCBlueprintEdges`, `MCRewrites`,
`MCLeanCoverage` and `MCLeanFiles` do. The initial state chooses one (`looked` or
`script`), the next-state relation is that of the machine chosen, and the others stay
at an initial state of theirs. So each is explored as if it were alone. The machines
that theorems are about are extended by the `MC` module and by the module of the proofs
alike, so that a run checks the very definitions that are proved; where several are
extended together, their `Init`, `Next` and `Spec` have the machine's name in front
(`LedgerNext`, `PatchSpec`, `VendorInit`).

### 2.1 The persistent checker

`LeanLspChecker` models `Checker` and `do_POST` (`lean-lsp-check.py:105-293`).
Its variables carry the attributes' names: `documents` and `order` are the two
halves of the `OrderedDict`, `versions`, `diagnostics`, `current`, `client`, `lock`.
A text is a model value; what Lean reports for it is the constant `Items`. A
handler thread is `pc[h]`, and a step ends where another thread can see or change
what the next one uses:

| Code | Actions |
| --- | --- |
| `lock.acquire(blocking=False)`, 409 (l. 249-251) | `Admit`, `Refuse` |
| `status`, bad requests, `stop` (l. 255-273) | `Status`, `Invalid`, `Stop`, then `Shutdown` in the thread that `stop` starts |
| `close_file` (l. 134-142) | `CloseAbsent`, `CloseOpen`, `CloseDone` |
| `check`, up to the client (l. 161-186) | `RefuseCheck`, `BeginCheck`, `InitClient`, `InitFails` |
| evict, open, edit (l. 187-210) | `Evict`, `Evicted`, `Open`, `Reuse`, `StartEdit`, `Edit`, `SendFails` |
| wait, verdict (l. 211-223) | `Verdict`, `Timeout`, `WaitFails` |
| a comprehension over `diagnostics` (l. 142, 191, 205) | two steps, `StartFilter` and `Rebind`, and `FilterRaises` when the reader thread has added a key in between |
| the `except` block (l. 274-286) | `Raise`, `CloseAfterFailure` with both outcomes of `client.close()` |
| `on_diagnostics` (l. 153-159) | `OnDiagnostics` |
| Lean and its pipe (external) | `Publish`, `Acknowledge`, `Crash` |

Of the language server the model assumes that it publishes a document's items in
order, acknowledges after the last, and that messages about one version of one
document are delivered in order. Nothing is assumed of messages about different
documents, and the server may be silent or die at any moment.

`CheckService` says what callers are promised with no documents, versions, clients
or servers in it. `LeanLspCheckerProps` holds the properties and the refinement
mapping (`holder <- lock`, `asked <- request`, `answer <- result`, the answer
appearing when the lock is released).

A handler stands for one connection after another. Whether `serve_forever` still runs
does not matter to it: a thread that was started before the loop ended takes the lock
whenever it is scheduled, and any number may have been started.

`LspShutdown` extends the checker with the main thread of `serve` (l. 308-313):
`Interrupt`, then `Checker.close` line by line, as it runs without the lock (`MainTests`,
`MainCloses`, `MainDrops`, `MainClearsDocuments`, `MainClearsDiagnostics`), and what a
handler meets when the client is taken away during its `__init__` (`InitLost`). A handler's
own `close` is one step, also here: the main thread only takes away what it would.

### 2.2 The session

`LspSession`: `file` is the state file (absent, or whose it is and whether its JSON
is written). `starter[s]` follows `start` (l. 334-353), `helper[p]` follows `serve`
(l. 298-313), with `Die` at any point. The recovery that `docs/lean-local-windows.md`
describes is two steps of one operator, who looks at the PID and then removes the file. `MCLspSession` looks at
the session, or at the shutdown of one helper with a check in it.

### 2.3 Waiting for others: the process wrapper and CI

- `LoggedProcess`: the command is a root and the processes it starts, which inherit
  the write ends of the pipes (external: `Spawn`, `Emit`, `CloseStream`, `Exit`). The
  `while` loop of `Invoke-LoggedProcess` is split into its tests and effects (`While`,
  `CheckLimit`, `KillAtLimit`, `CheckGrace`, `Consume`, `WaitForExit`, `Finally`,
  `KillAtEnd`), each with its raising variant. `Tick` lets the deadline and the
  grace period pass.
- `CiRuns`: the `concurrency:` block of `build-project.yml`. `Group` is its group
  expression; `Start` cancels what else is in the group, and a run may start
  long after its trigger (`Push`, `Again`).
- `PrLabels`: the two label jobs of `pr-review-status.yml`. A comment starts a job for
  each word it holds; `Calls` is what a job does in order, each call of GitHub's API a
  step that may fail, and a failed removal is swallowed by the workflow's `.catch`.

### 2.4 The ledger

`Ledger`: the log is a sequence of events, `Replay` is `read_ledger` with its two
passes, each a function of the number of events it has read; `StartRefresh`, `Report`, `Write` are the three moments of
`refresh` between which it can be cut (`Crash`), the second leaving a truncated file.
`shown[n]` records which records of a cited node a person has seen. `Problems` is what
`check` finds wrong with the snapshot it reads. `ImportReach`: `walk`'s recursion is
the sequence `frames`, so that its memo, its cut at nodes under work and its results
on cycles appear as they do in the code.

### 2.5 The blueprint and Lean

- `LeanWalk`: the inner function `reach` of `lean_edges`. The stack is a set.
- `FindCycles`: `find_cycles`, Tarjan's algorithm. The recursion of `visit` is the
  sequence `calls`; nodes and edges come in any order.
- `BlueprintGraph`: the audit below, which takes its edges and cycles from these two,
  together with both (`LeanWalk` with its stack renamed to `toVisit`).
- `BlueprintEdges`: the whole of `lean_edges` (with `Reach` for what the walk
  computes), `audit` (`Unused`, `Unformalized`, `Stale`, `Unproved`, `Missing`,
  `Shared`, `OnCycle`, in the order of the `elif` chain), `minimal_additions`
  (`Take`, `Consider`) and `fix` (`Rewrite`), then the audit again. The order of
  nodes and groups is left open.
- `LeanCoverage`: `build` (which names the blueprint cites, which of them exist, what
  marked proofs claim against the axiom guards), `check` with `lost_mod` and `gone`,
  `Refresh`, `Check`, `report`, and the edits of people between them (`Retag`, `Mark`,
  `Move`, `Guard`). `place` is what `LeanScopes` is about.
- `CrossReferences`: `cross_references`, token by token, with the stack of
  environments that each file starts anew and the tables that all files share.
  `\cite[..]{..}`, which `CITE_RE` does not match, is a token that it passes over
  (`NotedCite`).
- `TextModeScan`: `text_mode_specials` with its jumps, next to `TeX`, which reads the
  same file one token after the other and collects what is odd in it: what this
  blueprint does not write, or what the scanner is known to read otherwise (section 5).
  `\cite[..]{..}` is in both: the optional argument is copy to TeX and to the scanner,
  the keys behind it are copy to the scanner alone, so a special in them is odd.
  `text` stands for the commands whose argument is text even in a formula: there TeX
  stops at a special and the scanner goes on, so that is odd, too.
- `TexProblems`: what these two promise together (`TexProblemsAreRight`).
- `LeanDead`: the pass loop of `main`, position by position, over the set it writes.
  `Parent` is the declaration the script takes a usage to be in, `Owner` the one it is
  in; they differ by the declarations that the script does not scan (`unscanned`).
  `MayName` is what Lean may make of an identifier, whatever namespaces are open.

### 2.6 Rewriting and reading Lean files

- `VendorTree`: the three vendoring scripts as sequences of stages (`Stages`), each
  of which writes or removes one file a step, so that `KillRun` can come between any two.
  `vendor-repetition.py` keeps three directories (`"cr"`, `"tp"`, `"or"`) and its
  `--apply-fixes` goes through them in this order; the other two scripts kept one each.
  A file is its pieces, the texts the recorded fixes are about (`"old"`, `"new"`,
  `"twice"`, `"absent"`, `"double"`), and the rewrites of the whole file it went
  through. `Fix` is `fixOnce` (a fresh copy must hold the old text once) or `fix` (a
  tree as it is, where the new text is looked for first); `Target` is the search
  for the part that has the text. `RunReturns` is a run that ends well, `Record` somebody
  adding fixes to the script.
- `Modularize`: `modularize`, `ensure_meta_twins`, `ensure_bundle` and
  `unprivate_defs` as operators on a file, a sequence of kinds of line; `Modularized`
  runs them, `Work` is an edit afterwards. Files may have gone through
  `vendor-repetition.py`'s own rewriting before (`AsVendored`). `LeanFile` says what a file
  is before: remarks, one block of imports, the rest. No file of the repository has
  anything but blank lines between its imports.
- `AnchoredPatch`: the patch scripts. Per edit a file has the number of its anchors
  and of its markers. `Try` goes through the edits in memory, `Refuse` and `Passed` are
  the two ends without writing, `Write` writes one file a step, `Kill` comes
  anywhere, `People` reword or restore.
- `SplitModule`: the scan, the placement of units and the cuts of `split_module`.
- `LeanScopes`: four readers of `namespace`, `section`, `mutual` and `end`, side by
  side with Lean's own reading of the same lines.
- `StripComments`: `strip_comments` of `port-pairing.py`, one iteration of its loop, or
  of the loops over a line comment and a string, a step (`point`, `depth` and `loop` are
  its `i`, `depth` and place), next to `Lean`, a recursive function over the same
  characters.
- `LeanNames`: what the two together promise (`NamesAreFull`).
- `PortPairing`: the three loops over the vendored declarations in `main`, one
  declaration a step. A name is the sequence of its components, and a file is any
  sequence of declarations with distinct names whose fields follow their structures.

## 3 Runs

| Run | Question | Properties |
| --- | --- | --- |
| `lsp_documents` | Is a verdict always about the text asked for, through eviction, edits, late and lost diagnostics, failed sends, retries and crashes of Lean? | `TypeOK` `VerdictIsForItsText` `EditBaseAgrees` `BoundedWorkers` `NoLostServer` |
| `lsp_handlers` | Do concurrent requests get what `CheckService` promises? | `ImplementsService` |
| `session` | Who holds the session when starts race and processes die? What may a check answer that is running while the main thread closes the checker? Does `start` return? | `OneHelper` `ServerCanBeFound` `OwnTextOnly` `OwnerUnlinks` `StartReturns` |
| `shutdown_silence` | Can that check answer success for a broken text? (It can.) | `SilenceNeverMeansSuccess` |
| `logged` | What do an exit code and a timeout mean, and does the wrapper end? Is every commit reported on, and can a pull request end up waiting for both sides? | `WholeLog` `StoppedAndReported` `StatusIsClear` `WrapperEnds` `EveryCommitIsReported` |
| `ledger_sync` | Is the two-pass replay right, does a cited record change unseen, what does a passing `check` mean, is the memoized walk exact? | `NeverInvents` `ExactWhenAcyclic` `ReplayIsLatest` `CitedRecordsWereShown` |
| `edges` | What does a passing audit mean, does `--fix` reach one, in a finished blueprint without needless edges, are the walk and the search for cycles exact? | `GreenAncestors` `SameReach` `FixPasses` `NoNeedlessEdge` `WalkIsExact` |
| `rewrites` | What is a directory after runs that were killed, failed and repeated; does `modularize.py` settle; are patches applied wholly or not at all; may what `lean-dead.py` lists be deleted, and is the list complete? | `CopyIsSound` `TextIsKept` `ProseIsKept` `ModulesSettle` `PatchIsWhole` `NothingDangles` `LeastFixpoint` `Terminates` |
| `coverage` | What does a passing `--check` mean for claims and for names that were there before; is what the scanners report what TeX stops at, and does the scan end? | `ClaimsAreGuarded` `TexProblemsAreRight` `LossesAreSeen` `TextScanEnds` |
| `coverage_claims` | Is a claimed declaration one whose proof is marked? (Not always.) | `ClaimsAreMarked` |
| `lean_files` | Do the readers name declarations and strip comments as Lean does, is a passing pairing accounted for, do parts keep lines and context? | `NamesAreFull` `PairingIsSound` `PartsAreWhole` |
| `scopes_dead` | Does `lean-dead.py` name declarations fully whatever sections a file has? (It does not.) | `DeadNamesAreFull` |

Some properties are conjunctions about one result: `CopyIsSound` (directory, fixes,
conversion), `NamesAreFull` (four readers and the stripping before one of them),
`TexProblemsAreRight` (specials, lines, references), `NothingDangles` (usages in the
index and identifiers in macros), `CitedRecordsWereShown` (snapshot and `check`),
`WalkIsExact` (walk and cycles).

### 3.1 Bounds, and why they are enough to matter

- `lsp_documents`: one handler, two files for one slot (`MaxOpenFiles = 1`), two
  texts, two versions per file, two clients. Every check of the second file evicts
  the first; the first then comes back at version 2 with version 1's items still on
  their way; a failed check is retried with a new client. The broken text has an
  error *and then* a remark, so that an early verdict and a lost first item both
  show. `lsp_handlers`: two threads on one file, where the lock and the service are at
  stake, not the table. Files, handlers and clients are symmetric: neither run has a
  temporal property that distinguishes them (`ImplementsService` is a safety
  property over symmetric variables). The bounds `MaxVersion` and `Clients` are
  guards of `Admit`: a request that would need more is not admitted.
- `session`: two starters, three processes. One can have died and left its file, one
  hold the session, one try for it. PIDs are not reused. For the shutdown, and in
  `shutdown_silence`: one handler and the main thread; a second handler would only be
  refused. Two clients: one that is closed, one that a late check creates.
- `logged`: one child, two lines a stream, so that a line can be pending while
  another is read, and the child can outlive the root with either pipe. For the
  workflow: a pull request and main, two commits and four triggers (`MaxRuns`), so
  that a commit can be on both, be superseded on one, and be run again. Two comments
  (`MaxComments`), each with one word or both: up to four jobs.
- `ledger_sync`: a tree of four nodes with a grandchild, declared dependencies that
  close cycles through siblings and ancestors; logs of three events on two nodes, one
  counter step. Three events suffice for a creation, a change and a change of the
  same matter, or for two creations and a change between them.
- `edges`: three nodes with a constant each, for which all the kinds of bad edge and
  an implied edge (A to C through B) occur, with and without unfinished proofs; the
  walk on three constants, one shared by two nodes, one owned by none, one an alias;
  the search for cycles on every graph with three nodes, self-loops included.
- `rewrites`: `vendor-repetition.py` with its three sources, of which two are patterned
  and one is split, and the retired scripts with theirs; two commits, of which the second
  has all that can be wrong (an absent text, one that occurs twice, a module that is
  missing, a part that is too long); two recorded fixes, of which one's new text holds
  the old one. One directory is vendored anew while the others are whole or not there,
  and `"or"`, which goes through the stages of `"cr"`, is only there to be repaired
  (`OneBroken`, a condition on the run's steps). The theorems need neither. `modularize.py`: files of
  a comment, at most two imports of five kinds and two body lines of five kinds, then
  edits up to `MaxLines = 13`. Patches: three edits of two files, anchors 0 to 2 times.
  `lean-dead.py`: three declarations, all subsets of four users each, one of them an
  auxiliary declaration and one outside or unscanned (in no scanned namespace, or in
  that of a candidate), four families of macro bodies, with identifiers written whole,
  in an open namespace, and after a dot.
- `coverage`: two names, two modules, one of them vendored, two statements, which is
  what a claim filed under a neighbour's label needs. TeX: all files of up to four
  fragments of eighteen kinds, and of up to five of ten mathematical kinds, `\text{` among them. `MaxLine`
  stops a scan that goes back; `TextScanEnds` is stated for files in which TeX finds
  nothing odd, where the bound is not reached. References: a chapter of up to four
  tokens, or two of up to two.
- `lean_files`: bodies of six lines with any comments and parts of three (that no
  comment of several lines stands between the blocks is a premise of `LinesSurvive` alone), files of five lines to read,
  two declarations on each side to pair, texts of four fragments of eleven kinds to
  strip. `scopes_dead` needs six lines.

### 3.2 Fairness, and what justifies it

- `session`: each starter's step: it polls, and its loop has a deadline of 35 seconds.
  Nothing is assumed of helpers, which may boot, serve or close for ever. Nor of handler
  threads: they are daemon threads, which end with the process, and their reads and pipe
  writes have no timeout; what is checked of them are invariants.
- `logged`: the wrapper's own loop, which sleeps and polls, and the clock. The command
  may do nothing for ever; `WrapperEnds` holds because the limit passes. Of GitHub:
  that it starts or ends some run as long as there is one to start or end. Jobs on labels
  get no fairness: their property is an invariant.
- `rewrites`, for `lean-dead.py`, and `coverage`, for the scanner: a sequential loop
  takes its next step.

`CHECK_DEADLOCK FALSE` stands where a system really may stop: a sequential script that
is done, a helper that has left, a model at its bound of versions or events.

## 4 Proofs

`tlapm` checks every theorem below for all values of the constants, under the named
assumptions of the modules. They say no more than what the constants are:
`LspAssumption` (finitely many files, limits of at least one, items that are sequences,
a `None` that is nothing else), `SessionAssumption` (`NoOne` is no helper and no file),
`StreamsAssumption` and `ProcessAssumption` (two streams, a root that is not its own child),
`LabelsAssumption` (two different labels), `NodesAssumption` and `DeclsAssumption` (finitely
many nodes, and a dump whose parts are sets of constants), `DeadAssumption` (the order of a
library's declarations is a sequence), `StatementsAssumption` (a number of statements),
`EditsAssumption` (a script's edits are a sequence), `ParentAssumption` (the ledger's tree is
a function on its ids), `LedgerAssumption` (`None` is no statement and no record),
`FilesAssumption` (a Lean file names a declaration once, and lists a field after its
structure), `SourcesAssumption` (the files to convert are Lean files, with their imports
in one block before all else), `PathsAssumption` (the name of a namespace has components, none of them empty),
`TextsAssumption` (a text is a sequence of characters), `TokensAssumption` and
`BlueprintsAssumption` (a TeX file is a sequence of tokens) and `VendorAssumption` (upstream has the text a fix looks for once, twice or not
at all; `Nil` is nothing else).
What a theorem needs of an input, such as a blueprint that Lean orders or a ledger without
cycles, is a hypothesis of the property itself.

| Module | Theorems (and the property of a run they state) | Argument |
| --- | --- | --- |
| `LeanLspCheckerProofs` | `HandlersSerialized`, `TypeCorrect` (`TypeOK`) | `Serialized` is inductive together with the type of `pc`. `TypeOK` is not inductive: that evicting the head, moving a key to the end or appending keeps `order` a list without repetition of at most `MaxOpenFiles` files needs to know, per label of the handler inside, what `current` is, whether the file has a document, and that `documents[f].version = versions[f]` (`CheckData`). `TypeInv` is `TypeOK`, `Serialized` and `CheckData`. |
| `LeanLspVerdictProofs` | `VerdictsAreRight` (`VerdictIsForItsText`), `EditsApply` (`EditBaseAgrees`), `NoServerIsLost` (`NoLostServer`), `OpenFilesBounded` (`BoundedWorkers`), `CheckerImplementsService` (`ImplementsService`), `ShutdownAnswersItsText` (`OwnTextOnly`) | Beside `TypeInv`: what is stored, on its way or kept by a comprehension under a version is what Lean reports for the text sent as that version, versions are sent once and to one server (`Provenance`); a document of the table is what was sent under its version, if anything was (`Recorded`), as an edit can go to a server that does not have the file open; the handler that waits does so for the text it was asked about (`Asked`, `Acked`); and no item of a document that the current server has open is missing, whatever a comprehension rebinds under the reader thread (`Complete`). Evictions keep `Listed`: while no handler is closing, what the server has open is in the table. The refinement mapping hides the answer of the handler that holds the lock; a handler that is closing has one that `CheckService` allows (`Answered`). For the shutdown (`OwnInv`): the main thread takes the documents and the client away under the handler that holds the lock, so what that handler knows of the table is lost. But `Provenance` and `Recorded` are about the history of what was sent, which nobody takes away, and a handler that waits does so for its own text or for a version that was never sent (`Owed`). |
| the same module, the session | `ExclusiveSession` (`OneHelper`), `ServingIsFound` (`ServerCanBeFound`), `FileIsTheOwners` (`OwnerUnlinks`), `RecoveryIsSafe` | `OwnsFile`: a helper between creating and unlinking owns the file, so two of them would own one file; and a verified file is that of a dead helper, which is why its removal by hand hurts nobody. |
| `LoggedProcessProofs` | `ExitCodeMeansWholeLog` (`WholeLog`), `LimitIsReported` (`StoppedAndReported`), `LabelsSettle` (`StatusIsClear`) | `Drainage`: a read that has seen the end of its pipe saw it after the last line, and nobody is left who could write another. `Course`: an exit code is only asked for when the limit has not passed and both reads are done. `Custody`: at the end the root has exited, was killed, or its kill was refused. Labels: both are there only while a job is about to remove one, or after a removal that failed (`Removing`); and a job that has nobody beside it has added its label, and is not done before the other one is gone (`Alone`). |
| `LedgerSyncProofs` | `CallsAreDistinct`, `NothingInvented` (`NeverInvents`), `AcyclicLedgersAreExact` (`ExactWhenAcyclic`), `NoRecordEntersUnseen`, `ReplaysAreRight` (`ReplayIsLatest`), `ChecksSpeakOfTheLedger` (`CitedRecordsWereShown`) | `Chain`: each frame's node is an edge away from the one below, hence an acyclic ledger is never cut at a node under work. `Sound` and `Complete` bound each partial result from both sides. `Kept`: the snapshot on the disk, the committed one and the one a cut refresh was about to write hold, for every cited node, a record that somebody was shown; what `Replay` computes does not matter for it. `LogInv`: a node is created once, and before anything else is said of it. What the two passes hold of a node after k events is the latest of those events of each matter, or their number (`Says`), by induction on k. A snapshot calls a node archived only if it is (`Archived`), and archiving is for good, so a passing `check` speaks of nodes that were live when they were last replayed. |
| `BlueprintEdgesProofs` | `PassingIsGreen` (`GreenAncestors`), `PassingReachesTheSame` (`SameReach`), `FixReachesAPass` (`FixPasses`), `AddsFewEdges` (`NoNeedlessEdge`), `TypeCorrect`, `PassingIsGuarded` (`ClaimsAreGuarded`), `PassingLosesNothing` (`LossesAreSeen`) | `Progress` says that every group behind the loop of `minimal_additions` is met by what is kept or added, whatever is left to look at. `Needed`: in a finished blueprint (every result proved, every definition formalized) that Lean orders, with no constant shared, no added edge is implied by another edge of its node. `Ascending` is why it stays so: nodes, and the groups of one node, are taken in the order of how much lies below them, so what is added later never leads to an earlier edge's end. The closures are handled through their least-set characterization, so that no induction over paths is needed. The coverage of the blueprint: a run that passed had no problems and resolved every name, and whatever is edited afterwards takes its verdict back (`Standing`); the statement that a proof's claim falls to is its own, if it has a tag, or an earlier one (`LastTagged`). |
| the same module, the TeX | `ReferencesHold`, `SpecialsHold`, `LinesHold`, `TexProblemsHold` (`TexProblemsAreRight`) | References: the tables are what the chapters hold `Behind` the place of the loops, and the stack is that of a partial matching of the `\begin`s so far, which is never lost (`Partial`); an `\end` that does not fit leaves none that could be completed. Text mode, `ScanInv`: outside its steps the scanner stands (`Stands`) where TeX reads copy, at the end of a comment, or before the bracket of an optional argument, on line 1 and one for each newline before; its counters are what TeX's mode is (`Knows`), and what it reported so far is what TeX stopped at (`Wrong`). TeX's reading is a recursive function of the place, so that for each jump what TeX makes of the tokens in between is found by the first place where it would not be so (`Spreads`): in a comment, in the blanks before a brace, in the name of an environment, and in keys, where the number of open braces is counted by both (`Net`). TeX's oddities are never taken back, so a file without them has none at any place. |
| `RewritesProofs`, the dead set | `SafeToDelete` (`NothingDangles`), `ReportsLeastFixpoint` (`LeastFixpoint`), `OnlyCandidates` | `Gone`: in a pass that has changed nothing so far, the rule adds nothing at the positions behind the loop. `Least`: `dead` is inside every set closed under the rule. At the end both meet. `UsersDie`: the users of a dead name, as the script attributes usages, are dead or itself; `OwnersAre` turns them into the declarations the usages are in. In whatever way a macro may name a declaration, both names end alike, and that component alone keeps it (`LastComponentCounts`). |
| the same module, the patches | `PatchesAreWhole` (`PatchIsWhole`) | `Progress`: a run that has found no problem holds the replaced text of the edits it went through, and those that the disk lacks are in a file still to write. `Untouched`: until a run writes, the disk is as it found it, and it has a reason for what it reports. |
| the same module, vendoring | `VInvHolds`, `CopiesAreSound` (`CopyIsSound`), `FixesKeepText` (`TextIsKept`), `ReadmesAreSpared` (`ProseIsKept`) | `Sound(s)` describes a directory per stage of a run: which files it can have and what of it a part repeats (`Formed`), what it is if its last run returned (`Whole`), what a run that vendors it, splits it or repairs it has made of it so far (`Copying`, `Splitting`, `Repairing`), and who has the text of its README (`Held`). `Queued`: the stages still to come follow each other as in the script. |
| the same module, the conversion | `ModulesAreSettled` (`ModulesSettle`) | A file is one of two things. `Raw`: it is no module, what is in a comment is a remark, and its imports are one `Block`. `Form`: remarks, `module`, lines of imports, the public section, and `end` last, with nothing of one region in another. Vendoring keeps a file raw; the script makes a `Form` of it (`ConvertedIsForm`), also where it has no line of content; twins and the bundle are put between `module` and the section, edits where they belong. A `Form` that lacks no twin and no bundle and has no `private` is `Settled`, and the script changes nothing in it. What `FlattenSeq` makes of the lines of a block is found line by line, by the least counterexample (`FlattenMore`, `FlattenJoin`). |
| `BlueprintGraphProofs` | `WalkAndCyclesAreExact` (`WalkIsExact`), `ReachIsLeast`, `GroupsAreWhole`, `CyclesFound` | `WalkInv`: what a visited constant leads to is visited or on the stack, and both are in every closed set. For Tarjan's algorithm, `SearchInv`: the stack and the calls are in the order of the visits (`Ordered`); no edge leaves what is in a component already (`Sealed`), and whatever has a cycle there has its component reported (`Found`); `low` counts every edge looked at (`Looking`) and is the index of a node on the stack that can be reached, an earlier one once the visit is over (`Lowest`); a node under visit leads to all that is later on the stack (`Forward`), and its `low` is at most theirs (`Inherited`). Components are compared through the least-set characterization of reachability. |
| `LeanFilesProofs`, the pairing | `PairingHolds` (`PairingIsSound`) | `Entries` and `Reasons`: the table has what the loops found, no name before its turn and each with the reason for its status; `Taken`: the counterpart of a name that a loop has been past is used; `Following`: a structure comes before its fields, so that they follow it. |
| the same module, the parts | `PartsHold` (`PartsAreWhole`) | `ScannedUnits`, by induction on the lines (`LineKeeps`): after each line the depth the loop counts is the depth of the body, its units follow each other between the top-level blocks, and whatever must be in one is in one, or after the start of the block that is open (`Knows`). Then `SplitInv`: each part is a `Piece`, the lines from one stop to the next after those of the context so far, and what is behind the last stop is in the units `Ahead`. |
| the same module, the names | `StrippingHolds`, `ReadersHold`, `NamesHold` (`NamesAreFull`) | For the text, `StripInv`: the index of `strip_comments` stands where a reading by single characters (`Before`) has nothing pending that the script decided otherwise, in each of its loops (`InText`, `InALine`, `InAString`); one jump of the script is one, two or three characters of Lean's (`LeanGoesOn`). Once Lean's reading is odd it stays so. For the names, `ScopesInv`: as long as every end closed a whole line, some lines opened Lean's scopes (`Behind`). The stack of `lean-coverage.py` is the namespace lines among them, and no section has a namespace's name; the other three pop at every end, and agree with those lines from the outermost namespace on (`Follows`). An end that Lean takes and that closes one line closes the last one, under its name (`EndedLine`). Both prefixes are computed by `FlattenSeq`, whose recursive function is unfolded by the least counterexample (`FlattenMore`). |

The inductive invariants were checked with TLC on small instances before they were proved. The
temporal steps are one `PTL` step each.

Only model-checked:

- liveness (`StartReturns`, `WrapperEnds`, `EveryCommitIsReported`, `Terminates`,
  `TextScanEnds`): the prover handles neither fairness with `ENABLED` nor well-founded
  arguments about it here.

Every invariant and every action property that a passing run checks is a theorem.

The library's induction theorems take an operator as a parameter and cannot be instantiated
by the installed provers. Where an induction was needed (the replay, the lines of a
body, the characters of a text, the tokens of a TeX file, what is flattened), the recursion is a recursive
function, and the induction is on the least counterexample, which
`NatLessThanWellFounded` and `WFMin` give (`LeastExists`).

No module with a theorem declares or reaches a `RECURSIVE` operator.

## 5 What the models found

Three runs end in a violation of what the repository says of itself:

- **`shutdown_silence`.** "silence never means success" (`lean-lsp-check.py:17`). The
  main thread's `checker.close()` (l. 311) takes no lock and clears `diagnostics`
  (l. 132). If it does so after Lean's acknowledgement and before l. 216, a check of a
  text with errors answers 0. Taking the lock around l. 311, or having `Checker.check`
  notice that its client is gone, would mend it.
- **`scopes_dead`.** `lean-dead.py` does not see `noncomputable section` open a scope
  (l. 65) but sees its `end` (l. 104): the namespace around it is closed, the names
  that follow lack it, and their declarations are never candidates.
- **`coverage_claims`.** "Declarations whose *proof* the blueprint marks `\leanok`"
  (`lean-coverage.py:357`). The code takes the last `\lean` tag of all the text before a
  marked proof (l. 365-370). When the proof's own statement has none, as
  `lem:detype-soundness` of `06_proof_structure.tex`, an earlier statement's
  declarations count as claimed, under the later label.

Seen while translating, each a divergence that the models contain, or exclude by a
named premise, but no run is spent on:

| Where | The code | What is said |
| --- | --- | --- |
| `blueprint-edges.py:296` | the closure of node edges enters a node by one declaration and leaves it by another, so it can exceed what Lean reaches | l. 21-22: it "is exactly Lean reachability between nodes" |
| `blueprint-edges.py:396` | with `--only`, an edge implied through a node outside the selection is not added | l. 56-58: "rewrite only the nodes labelled a and b", "add missing ones" |
| `blueprint-edges.py:391-398` | a constant that two nodes own can make an added edge needless, and so can an unfinished node: if Z is unformalized and cites X, and B uses both in Lean, the edge from B to X is added, then the one to Z, which leads to X (hence the premises `Shared = {}` and `AllProved` of `NoNeedlessEdge`) | l. 50-53: "--fix adds few edges" |
| `blueprint-edges.py:228` | a node that lists a constant of Mathlib raises `KeyError` (`KeyError` in the model) | `blueprint-deps.lean:25-26`: "the blueprint's `\lean{}` names, some of which are Mathlib's" |
| `lean-dead.py:268` | a root-namespace name used in a macro by its last component is not kept (hence the premise on qualified names in `NothingDangles`), nor is a field in the middle of a chain: `foo` in `x.foo.bar`, as only suffixes are compared (`MayName` asks for no more) | l. 15: no macro body names what is listed |
| `lean-dead.py:242` | `parent` takes an enclosing declaration that it has not scanned for a part of the longest scanned name it extends; meant for auxiliary declarations, this also takes an instance without a name, an indented declaration or one of a file outside the given prefixes, and its usages count as the name's own (hence the premise `Apart` of `NothingDangles`) | l. 19-20: "every recorded usage lies inside its own body or inside a declaration already found dead" |
| `lean-coverage.py:66` | `CITE_RE` does not match `\cite[..]{..}`, which `02_foundations.tex` writes (l. 106-139): an unknown key there is no problem (hence the premise on `"notedcite"` in `ReferencesAreRight`) | l. 12: "every `\cite` key must be in the bibliography" |
| `lean-coverage.py:297` | in the `\text{..}` of a formula TeX is in text mode, while the scanner believes that it is in mathematics: TeX stops at a special, nothing is reported (hence the oddity `"special"`, which `SpecialsAreReported` excludes) | l. 217: "`_` and `^` outside math mode, which stop pdflatex" |
| `ledger-sync.py:177` | on cycles the memo may miss admissions (hence `ExactWhenAcyclic`) | l. 145: all admitted nodes that the correctness rests on |
| `lean-local.ps1:57` | killing the tree of a root that has exited leaves its children (which `StoppedAndReported` allows) | `docs/lean-local-windows.md:149-150`: "the wrapper stops the command's process tree" |
| `port-pairing.py:323`, `355` | of several ported names with one normal form the last is paired and the others count as new; a loose candidate may pair several times | l. 35-36: new is what "pairs with no vendored declaration"; l. 31-32: loose is what "pairs with nothing else" |
| `port-pairing.py:186` | the `end` of a `mutual` closes a namespace | l. 42-43: names are "resolved against the enclosing `namespace` blocks" |
| `port-pairing.py:105` | `strip_comments` drops the line break of a string that goes on after an escaped newline, opens a string at the literal `'\"'`, and takes `x'x'` in a name for a literal (all excluded by the premise of `StripsAsLean`) | l. 106: "keeping newlines" |
| `lean-coverage.py:153` | a wrapped sentence in a docstring declares a name; the present tree has 66 such names | l. 7-8: the tags name "a declaration that exists" |
| `lean-coverage.py:264` | an unclosed `\begin{` makes the scan loop for ever (hence the premise of `TextScanEnds`) | l. 12-13: "environments must balance", which is never reported |
| `lean-coverage.py:279`, `294` | an optional argument in `\cite[..]{..}` hides the keys from the exemption (the oddity `"option"`: a special in such keys); `$$` toggles twice and leaves display math as text | l. 211: the argument "is not typeset"; l. 217: "outside math mode" |
| `lean-coverage.py:254`, `261`, `275` | a newline is not counted after a backslash or before the brace of `\begin{`, and is counted twice between `\cite` and what is no brace: every later line of the file is wrong (hence the premise of `LineIsRight`) | the messages name a line, `f.name:line` |
| `lean-coverage.py:349` | an axiom counts as recorded when its name is part of another that is (`full not in recorded` on text; not modelled) | l. 351: the problem is that the file "does not name" it |
| `lean-lsp-check.py:348` | `start` reports the success of another helper as its own | `docs/lean-local-windows.md:181`: it "launches a hidden local helper" |
| `vendor-repetition.py:862`, `900` | of a block comment outside the blocks only the first line is kept together with what follows, so a part may begin inside it; a part may exceed `max_lines` | l. 831-832: cut "between its top-level blocks into parts of at most `max_lines` lines" |
| `vendor-repetition.py:1088` | `--resplit` refuses a root that only imports, so a tree that is split already, or half split after a kill and converted by `--apply-fixes`, cannot be split again (`MaySplit`) | l. 1076-1079, the help: parts are "joined back together first" |
| `vendor-lidt.py:429` | the README is written from memory at the end, so an exit before it loses what people wrote there (the exception that `ProseIsKept` makes for it); the other two scripts write it back right after removing the directory | |
| `modularize.py` | a line of a comment that begins like an import is taken for one, `module` then goes into the comment and every run rewrites the file (such comments are excluded); an indented `private` declaration is counted by `--clashes` but keeps its `private` | l. 8: "comments may precede it"; l. 22-23: `--unprivate-defs` drops `private` "from every declaration" |
| `patch-*.py` | a kill between two files leaves an edit of some of them, which every later run refuses until the files are restored by hand | |
| `pr-review-status.yml:22` | a comment with both words, or two comments whose jobs overlap, can leave neither label; `.catch` hides a removal that failed (hence the premises of `StatusIsClear`) | `CONTRIBUTING.md:48-50` |

## 6 What is not modelled

- The formalization: Lean's kernel checks it.
- Inside modelled components: regular expressions (a line is its kind), formatting
  and printing, JSON, the configuration fingerprint of the checker, the HTTP body and the
  client side of a request, the action switch of `lean-local.ps1`, the TeX parser of
  `blueprint-edges.py`, `undefined_macros` and `axiom_problems` of `lean-coverage.py` (each
  compares two sets of names that regular expressions find), the fields of structures, the
  indices over the whole trees and the report of `port-pairing.py`, raw and
  interpolated strings in Lean files, the choice of files by `lean-dead.py` and
  `modularize.py`, the project card of `pr-review-status.yml`, the steps of
  `build-project.yml` with its upload of the rolling bundle, edits of labels by hand.
- Writes of one file are atomic, save the snapshot of `ledger-sync.py`, which is
  truncated first. A kill of `split_module` before it removes a part is like one before
  it starts.
- Left to a premise or to a neighbouring case, as nothing that is stated depends on it: a
  second `\lean` tag of one statement (the code takes the last), a name that one node
  lists twice (`blueprint-edges.py:322-326`), a log that fails in `lean-local.ps1:151` and
  `163`, an `rmtree` that raises (a kill), marks that are reworded between two patch runs.
- A run of `vendor-repetition.py` that vendors several sources is modelled as runs that
  follow each other, one per directory.
- `port-classify.py`, `blueprint-colours.py`, `CheckBlueprintDecls.lean`, `palomar/`: they
  read and print, and keep nothing.
- The companion repository, Lean, TeX, Python's runtime, git and GitHub are external;
  where they matter they are environment actions marked so in `PROJECT.json`.

## 7 Plan

Done: the checker (the one concurrent, stateful program, on whose verdicts everyone
relies) with its shutdown and session, the process wrapper and the workflow's labels,
the ledger, the audit of the blueprint with its walk and Tarjan's algorithm, the
coverage ratchet, dead declarations, vendoring and its fixes, the patches, the pairing,
the conversion to modules, the parts of a split body, the readers of Lean files and
those of TeX: modelled, checked, and their safety proved.

Next, in order:

1. The rolling bundle: `build-project.yml:149`, uploads of runs for different commits,
   whose order nothing fixes.
2. `undefined_macros`, and the fields of structures in `port-pairing.py`, whose
   parentheses it does not read.
