------------------------------- MODULE Modularize -------------------------------
(***************************************************************************)
(* scripts/modularize.py puts Lean files under the module system.  A file  *)
(* comes from upstream, through the vendoring scripts, or is this          *)
(* repository's own; it is converted, somebody works on it, and the script *)
(* is run again, any number of times.                                      *)
(*                                                                         *)
(* A line is its kind, and for an import what it imports: "Lean", a part   *)
(* of Mathlib, the "Mathlib" umbrella, the "Bundle" MIPRE.Tactics, a       *)
(* module of this repository, or, in a vendored file, one of upstream's.   *)
(* No line of a comment begins like an import: the script would take it    *)
(* for one.                                                                *)
(***************************************************************************)
EXTENDS Integers, Sequences, FiniteSets, SequencesExt

CONSTANTS
  Sources,   \* the files to begin with
  MaxLines   \* bound of the model: nobody makes a file longer than that

VARIABLES
  content,   \* the lines of the file
  spared,    \* BUNDLE_EXEMPT has it
  written    \* the last step was the script's

modularizing == <<content, spared, written>>

Line(k) == [kind |-> k, of |-> ""]
Import(k, x) == [kind |-> k, of |-> x]

\* "open" and "close" delimit a comment.
Comments == {"note", "open", "close"}
Imports == {"import", "public", "meta"}

Kinds(s, K) == {k \in 1..Len(s) : s[k].kind \in K}
Lowest(I) == CHOOSE k \in I : \A j \in I : k <= j
Highest(I) == CHOOSE k \in I : \A j \in I : j <= k

IsImport(l) == l.kind \in Imports
IsBlank(l) == l.kind = "blank"

Commented(s, k) ==
  \E j \in 1..(k - 1) : s[j].kind = "open" /\ \A n \in (j + 1)..(k - 1) : s[n].kind # "close"

\* The lines that are neither blank nor in a comment.
Contents(s) ==
  {k \in 1..Len(s) : ~IsBlank(s[k]) /\ s[k].kind \notin Comments /\ ~Commented(s, k)}

BeginsModule(s) == s # <<>> /\ s[1].kind = "module"   \* mutant
is_module(s) == Contents(s) # {} /\ s[Lowest(Contents(s))].kind = "module"

RunsCode(s) == Kinds(s, {"eval"}) # {}

Trimmed(s) ==
  LET full == {k \in 1..Len(s) : ~IsBlank(s[k])}
  IN  IF full = {} THEN <<>> ELSE SubSeq(s, 1, Highest(full))

-----------------------------------------------------------------------------
(* A Lean file that is no module: comments hold remarks, and before all else  *)
(* come the imports, in one block.                                           *)

Remarks == Comments \cup {"blank"}

LeanFile(s) ==
  /\ s \in Seq([kind : Remarks \cup {"import", "code", "eval", "private"}, of : STRING])
  /\ \A k \in 1..Len(s) : Commented(s, k) => s[k].kind \in Remarks
  /\ \A k \in Kinds(s, {"import"}) : \A j \in 1..(k - 1) :
       s[j].kind \in IF Kinds(s, {"import"}) \cap (1..j) = {} THEN Remarks ELSE {"import", "blank"}

ASSUME SourcesAssumption == \A s \in Sources : LeanFile(s)

-----------------------------------------------------------------------------
Twin(l) == Import("meta", l.of)
Lacks(s, l) == l.kind = "public" /\ l.of # "Bundle" /\ Twin(l) \notin ToSet(s)

ensure_meta_twins(s) ==
  IF RunsCode(s)
  THEN FlattenSeq([k \in 1..Len(s) |-> IF Lacks(s, s[k]) THEN <<s[k], Twin(s[k])>> ELSE <<s[k]>>])
  ELSE s

Bundle == Import("public", "Bundle")

NeedsBundle(s) ==
  /\ Bundle \notin ToSet(s) /\ Import("public", "Mathlib") \notin ToSet(s)
  /\ Import("public", "Part") \in ToSet(s)

ensure_bundle(s) ==
  IF NeedsBundle(s) THEN InsertAt(s, Highest(Kinds(s, Imports)) + 1, Bundle) ELSE s

\* Where the block of imports that begins at a line ends.
BlockEnd(s, first) ==
  Lowest({k \in first..(Len(s) + 1) : k > Len(s) \/ (~IsImport(s[k]) /\ ~IsBlank(s[k]))})

Exported(s, l) ==
  IF l.kind # "import" THEN <<l>>
  ELSE <<Import("public", l.of)>>
         \o (IF l.of = "Lean" \/ RunsCode(s) THEN <<Import("meta", l.of)>> ELSE <<>>)

\* No import: the header goes before the first line of content.
WithoutImports(s) ==
  LET first == IF Contents(s) = {} THEN 1 ELSE Lowest(Contents(s))
  IN  SubSeq(s, 1, first - 1) \o <<Line("module"), Line("blank"), Line("expose"), Line("blank")>>
        \o SubSeq(s, first, Len(s))

WithImports(s) ==
  LET first == Lowest(Kinds(s, Imports))
      end == BlockEnd(s, first)
      block == FlattenSeq([k \in 1..(end - first) |-> Exported(s, s[first + k - 1])])
      n == IF end <= Len(s) /\ s[end].kind = "option" THEN 1 ELSE 0
  IN  SubSeq(s, 1, first - 1) \o <<Line("module")>> \o Trimmed(block) \o <<Line("blank")>>
        \o SubSeq(s, end, end + n - 1) \o <<Line("expose"), Line("blank")>>
        \o SubSeq(s, end + n, Len(s))

Converted(s) ==
  Trimmed(IF Kinds(s, Imports) = {} THEN WithoutImports(s) ELSE WithImports(s))
    \o <<Line("end")>>

modularize(s) ==
  LET out == ensure_meta_twins(IF is_module(s) THEN s ELSE Converted(s))
  IN  IF spared THEN out ELSE ensure_bundle(out)

unprivate_defs(s) == [k \in 1..Len(s) |-> IF s[k].kind = "private" THEN Line("code") ELSE s[k]]

AfterRun(s) == unprivate_defs(modularize(s))

-----------------------------------------------------------------------------
(* What the vendoring scripts do to a file of upstream's before.           *)

rewrite_imports(s) ==
  [k \in 1..Len(s) |-> IF s[k] = Import("import", "Up") THEN Import("import", "Own") ELSE s[k]]

insert_auto_implicit(s) ==
  LET I == Kinds(s, {"import"})
      end == BlockEnd(s, Lowest(I))
  IN  IF I = {} THEN <<Line("option")>> \o s
      ELSE Trimmed(SubSeq(s, 1, end - 1)) \o <<Line("blank"), Line("option"), Line("blank")>>
             \o SubSeq(s, end, Len(s))

HEADER == <<Line("open"), Line("close")>>

AsVendored(s) == HEADER \o insert_auto_implicit(rewrite_imports(s))

-----------------------------------------------------------------------------
Unwritten == spared = FALSE /\ written = FALSE

ModInit ==
  /\ \E s \in Sources : content \in {s, AsVendored(s)}
  /\ spared \in BOOLEAN /\ written = FALSE

\* modularize_paths: a file that would stay the same is not written.
Modularized ==
  /\ content' = AfterRun(content) /\ written' = TRUE
  /\ UNCHANGED spared

\* Somebody adds an import to a module, or code that runs when the file is read, or a
\* private definition.
Work ==
  /\ is_module(content) /\ Len(content) < MaxLines
  /\ \/ \E x \in {"Part", "Own"} :
          /\ Import("public", x) \notin ToSet(content)
          /\ content' = InsertAt(content, Lowest(Kinds(content, {"module"})) + 1, Import("public", x))
     \/ \E k \in {"eval", "private"} :
          /\ Line(k) \notin ToSet(content)
          /\ content' = InsertAt(content, Highest(Kinds(content, {"end"})), Line(k))
  /\ written' = FALSE /\ UNCHANGED spared

ModNext == Modularized \/ Work

ModSpec == ModInit /\ [][ModNext]_modularizing

-----------------------------------------------------------------------------
\* The header of a module: "module", the imports, the option, the public section, in
\* this order, and all code in the section, which is closed.
HeaderInPlace ==
  LET I == Kinds(content, {"public", "meta"})
      m == Kinds(content, {"module"}) e == Kinds(content, {"expose"})
  IN  /\ Cardinality(m) = 1 /\ Cardinality(e) = 1 /\ is_module(content)
      /\ \A k \in I : Lowest(m) < k /\ k < Lowest(e)
      /\ \A k \in Kinds(content, {"code", "eval"}) :
           Lowest(e) < k /\ k < Highest(Kinds(content, {"end"}))
      /\ Kinds(content, {"import", "private"}) = {}

\* What a module must import besides: the code of what it runs, and the tactics that
\* Mathlib keeps to itself.
ImportsSuffice ==
  /\ RunsCode(content) => \A k \in Kinds(content, {"public"}) :
       content[k].of = "Bundle" \/ Import("meta", content[k].of) \in ToSet(content)
  /\ ~spared /\ Import("public", "Part") \in ToSet(content) =>
       Bundle \in ToSet(content) \/ Import("public", "Mathlib") \in ToSet(content)

\* Whatever file the script is run on, it leaves a module that exports what the file
\* did and imports what it must, and has nothing to do when it is run again: --check
\* passes, and the vendoring scripts may run it on a tree as often as they like.
ModulesSettle ==
  written => HeaderInPlace /\ ImportsSuffice /\ AfterRun(content) = content
=============================================================================
