----------------------------- MODULE CrossReferences -----------------------------
(***************************************************************************)
(* cross_references of scripts/lean-coverage.py: the labels, references,   *)
(* citations and environments of the blueprint, chapter after chapter.     *)
(***************************************************************************)
EXTENDS Naturals, Sequences, SequencesExt

CONSTANT Blueprints   \* those that are looked at: sequences of files

ASSUME BlueprintsAssumption ==
  \A b \in Blueprints :
    b \in Seq(Seq([kind : {"label", "ref", "cite", "notedcite", "bibitem", "begin", "end"}, of : STRING]))

VARIABLES
  files,       \* each a sequence of [kind, of]
  file, at,    \* where the loops stand
  labels, dup, refs, cites, bib,
  stack,       \* the environments that are open
  unbalanced,  \* a problem of nesting was found
  verdict,     \* problems were found, once all files are read
  phase

referring == <<files, file, at, labels, dup, refs, cites, bib, stack, unbalanced, verdict, phase>>

MoreTokens == phase = "read" /\ file <= Len(files) /\ at <= Len(files[file])
Here == files[file][at]
Onward == at' = at + 1 /\ UNCHANGED <<files, file, verdict, phase>>

Label ==
  /\ MoreTokens /\ Here.kind = "label"
  /\ IF Here.of \in labels THEN dup' = dup \cup {Here.of} /\ UNCHANGED labels
                           ELSE labels' = labels \cup {Here.of} /\ UNCHANGED dup
  /\ Onward /\ UNCHANGED <<refs, cites, bib, stack, unbalanced>>

\* \uses is a reference like \ref.
Ref ==
  /\ MoreTokens /\ Here.kind = "ref" /\ refs' = refs \cup {Here.of}
  /\ Onward /\ UNCHANGED <<labels, dup, cites, bib, stack, unbalanced>>

Cite ==
  /\ MoreTokens /\ Here.kind = "cite" /\ cites' = cites \cup {Here.of}
  /\ Onward /\ UNCHANGED <<labels, dup, refs, bib, stack, unbalanced>>

\* \cite[..]{..}, with an optional argument, is passed over.
NotedCite ==
  /\ MoreTokens /\ Here.kind = "notedcite"
  /\ Onward /\ UNCHANGED <<labels, dup, refs, cites, bib, stack, unbalanced>>

Bibitem ==
  /\ MoreTokens /\ Here.kind = "bibitem" /\ bib' = bib \cup {Here.of}
  /\ Onward /\ UNCHANGED <<labels, dup, refs, cites, stack, unbalanced>>

Opening ==
  /\ MoreTokens /\ Here.kind = "begin" /\ stack' = Append(stack, Here.of)
  /\ Onward /\ UNCHANGED <<labels, dup, refs, cites, bib, unbalanced>>

Unnamed(x) == stack = <<>>   \* mutant
Mismatch(x) == stack = <<>> \/ Last(stack) # x

Ending ==
  /\ MoreTokens /\ Here.kind = "end"
  /\ stack' = IF stack = <<>> THEN stack ELSE Front(stack)
  /\ unbalanced' = (unbalanced \/ Mismatch(Here.of))
  /\ Onward /\ UNCHANGED <<labels, dup, refs, cites, bib>>

NextFile ==
  /\ phase = "read" /\ file <= Len(files) /\ at > Len(files[file])
  /\ unbalanced' = (unbalanced \/ stack # <<>>)
  /\ file' = file + 1 /\ at' = 1 /\ stack' = <<>>
  /\ UNCHANGED <<files, labels, dup, refs, cites, bib, verdict, phase>>

\* After all files: a reference may be to a later chapter.
Judge ==
  /\ phase = "read" /\ file > Len(files)
  /\ verdict' = (unbalanced \/ dup # {} \/ ~(refs \subseteq labels) \/ ~(cites \subseteq bib))
  /\ phase' = "done"
  /\ UNCHANGED <<files, file, at, labels, dup, refs, cites, bib, stack, unbalanced>>

ReferencesBegin ==
  /\ file = 1 /\ at = 1 /\ stack = <<>> /\ unbalanced = FALSE /\ verdict = FALSE /\ phase = "read"
  /\ labels = {} /\ dup = {} /\ refs = {} /\ cites = {} /\ bib = {}

ReferencesInit == files \in Blueprints /\ ReferencesBegin

ReferencesNext == Label \/ Ref \/ Cite \/ NotedCite \/ Bibitem \/ Opening \/ Ending \/ NextFile \/ Judge

ReferencesSpec == ReferencesInit /\ [][ReferencesNext]_referring

-----------------------------------------------------------------------------
(* What LaTeX asks for.                                                    *)

Where(s, k) == {p \in 1..Len(s) : s[p].kind = k}

\* A way to end each environment: with an \end of its name, outside of those inside it.
Endings(s) ==
  {e \in [Where(s, "begin") -> Where(s, "end")] :
     /\ \A p \in DOMAIN e : p < e[p] /\ s[e[p]].of = s[p].of
     /\ \A p, q \in DOMAIN e : p < q /\ q < e[p] => e[q] < e[p]}

Balanced(s) == \E e \in Endings(s) : \A q \in Where(s, "end") : \E p \in DOMAIN e : e[p] = q

Chapters == 1..Len(files)
Has(k, x) == \E c \in Chapters : \E p \in Where(files[c], k) : files[c][p].of = x

\* Every x of a kind is defined.
Defined(kind, by) == \A c \in Chapters : \A p \in Where(files[c], kind) : Has(by, files[c][p].of)

WellFormed ==
  /\ \A c \in Chapters : Balanced(files[c])
  /\ Defined("ref", "label") /\ Defined("cite", "bibitem") /\ Defined("notedcite", "bibitem")
  /\ \A c, d \in Chapters : \A p \in Where(files[c], "label"), q \in Where(files[d], "label") :
       files[c][p].of = files[d][q].of => c = d /\ p = q

\* A problem is found only where environments do not nest in some chapter, a label is
\* defined twice in the blueprint, or a reference or a citation has none; and wherever
\* that is so, but for the keys of citations with an optional argument.
ReferencesAreRight ==
  phase = "done" =>
    /\ verdict => ~WellFormed
    /\ ~verdict /\ Defined("notedcite", "bibitem") => WellFormed
=============================================================================
