------------------------------- MODULE MCRewrites -------------------------------
(***************************************************************************)
(* TLC instances of the scripts that rewrite checked-in files, or decide   *)
(* what is deleted from them: the vendoring scripts, on two sources or one *)
(* and two commits of each; modularize.py, on files of a few lines of any  *)
(* kind; a script of three anchored edits to two files; or lean-dead.py,   *)
(* on the instance of MCLeanDead.  One of them is looked at at a time.     *)
(***************************************************************************)
EXTENDS MCLeanDead, AnchoredPatch, VendorTree, Modularize

CONSTANTS c1, c2

VARIABLE looked

-----------------------------------------------------------------------------
PiecesOf ==
  [s \in Dirs |-> IF s = "or" THEN {} ELSE IF s = "cr" THEN {1} ELSE {1, 2}]

\* Everything that can be wrong with a commit is wrong with c2.
UpstreamHas ==
  [c \in Commits |-> [s \in DOMAIN PiecesOf |-> [p \in PiecesOf[s] |->
     CASE c = c2 /\ s = "lidt" /\ p = 2 -> "absent"
       [] c = c2 /\ s = "cr" -> "twice"
       [] OTHER -> "old"]]]

OneOversized == {c2}
OneIncomplete == {<<c2, "liehr">>}

\* One directory is vendored anew while the others are whole, or not there; "or", which
\* has all that is done to "cr" done to it, is not.
OneBroken ==
  jobs = <<>> /\ jobs' # <<>> /\ mode' = "vendor" =>
    Head(jobs')[2] # "or" /\ \A s \in Mine \ {Head(jobs')[2]} : sound[s] \/ tree[s] = Empty

-----------------------------------------------------------------------------
\* A header, up to two imports, and a body of up to two lines.
ShortFiles ==
  LET imported == {Import("import", x) : x \in {"Lean", "Part", "Mathlib", "Own", "Up"}}
      body == {Line(k) : k \in {"code", "eval", "private", "note", "blank"}}
      upTo(n, S) == UNION {[1..k -> S] : k \in 0..n}
  IN  {h \o imports \o b :
         h \in {<<>>, <<Line("note")>>, <<Line("open"), Line("close")>>},
         imports \in upTo(2, imported), b \in upTo(2, body)}

-----------------------------------------------------------------------------
ThreeEdits ==
  <<[fname |-> "a", keeps |-> TRUE], [fname |-> "b", keeps |-> TRUE], [fname |-> "a", keeps |-> FALSE]>>

-----------------------------------------------------------------------------
\* The scripts that are not looked at.
VendorIdle ==
  /\ VendorInit /\ script = "lidt" /\ readme["lidt"] = Nil
Waiting == content = <<>> /\ Unwritten

MCInit ==
  \/ looked = "vendoring" /\ VendorInit /\ Waiting /\ PatchInit /\ DeadIdle
  \/ looked = "modules" /\ ModInit /\ VendorIdle /\ PatchInit /\ DeadIdle
  \/ looked = "patches" /\ PatchInit /\ VendorIdle /\ Waiting /\ DeadIdle
  \/ looked = "dead" /\ DeadInit /\ VendorIdle /\ Waiting /\ PatchInit

Vendoring ==
  looked = "vendoring" /\ VendorNext /\ OneBroken /\ UNCHANGED <<looked, modularizing, patching, vars>>
ModuleNext == looked = "modules" /\ ModNext /\ UNCHANGED <<looked, vendoring, patching, vars>>
Patching == looked = "patches" /\ PatchNext /\ UNCHANGED <<looked, vendoring, modularizing, vars>>
DeadNext == looked = "dead" /\ Next /\ UNCHANGED <<looked, vendoring, modularizing, patching>>

MCSpec ==
  /\ MCInit
  /\ [][Vendoring \/ ModuleNext \/ Patching \/ DeadNext]_<<looked, vendoring, modularizing, patching, vars>>
  /\ WF_vars(DeadNext)

=============================================================================
