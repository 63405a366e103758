---------------------------- MODULE MCLeanCoverage ----------------------------
(***************************************************************************)
(* TLC instances of what lean-coverage.py checks: the snapshot, between    *)
(* edits of a chapter of two statements, the Lean files and the guards;    *)
(* the special characters of the files that are put together from a few    *)
(* fragments of any kind, or of a few more of mathematics; or the cross    *)
(* references of one or two short chapters.                                *)
(***************************************************************************)
EXTENDS LeanCoverage, TexProblems

CONSTANTS x, y, m1, v, AnyPieces, MathPieces

VARIABLE looked

-----------------------------------------------------------------------------
Environments == {<<"backslash", "begin", "lbrace", "equation", "rbrace">>, <<"backslash", "end", "lbrace", "equation", "rbrace">>}
Singles == {<<"dollar">>, <<"underscore">>, <<"nl">>, <<"rbrace">>}
Marks == {<<"percent">>, <<"tick">>, <<"word">>, <<"backslash">>, <<"lbracket">>, <<"rbracket">>}
Unfinished == {<<"backslash", "cite">>, <<"lbrace">>, <<"backslash", "begin", "lbrace", "word">>, <<"backslash", "begin">>}
Options == {<<"backslash", "cite", "lbracket">>, <<"rbracket", "lbrace", "word", "rbrace">>}
Brackets == {<<"backslash", "lbracket">>, <<"backslash", "rbracket">>, <<"backslash", "cite", "lbrace">>}
Texts == {<<"backslash", "text", "lbrace">>}

\* Two runs of letters next to each other are one.
Lexed(words, s) == \A p \in 1..(Len(s) - 1) : ~(s[p] \in words /\ s[p + 1] \in words)

UpTo(n, S) == UNION {[1..k -> S] : k \in 0..n}

FilesOf(words, fragments, pieces) == {s \in {FlattenSeq(t) : t \in UpTo(pieces, fragments)} : Lexed(words, s)}

TextFiles ==
  FilesOf(Words,
          Environments \cup Singles \cup Marks \cup Unfinished \cup Options, AnyPieces)
  \cup FilesOf({}, Environments \cup Singles \cup Brackets \cup Texts, MathPieces)

Tokens ==
  [kind : {"begin", "end"}, of : {"a", "b"}] \cup [kind : {"label", "ref"}, of : {"l"}]
  \cup [kind : {"cite", "notedcite", "bibitem"}, of : {"k"}]

ShortBlueprints == {<<s>> : s \in UpTo(4, Tokens)} \cup {<<s, t>> : s, t \in UpTo(2, Tokens)}

-----------------------------------------------------------------------------
TextIdle == src = <<>> /\ ScanBegin
ReferencesIdle == files = <<>> /\ ReferencesBegin

MCInit ==
  \/ looked = "snapshot" /\ CoverageInit /\ TextIdle /\ ReferencesIdle
  \/ looked = "text" /\ ScanInit /\ CoverageInit /\ ReferencesIdle
  \/ looked = "references" /\ ReferencesInit /\ CoverageInit /\ TextIdle

LookAtSnapshot == looked = "snapshot" /\ CoverageNext /\ UNCHANGED <<looked, scanning, referring>>
LookAtText == looked = "text" /\ ScanNext /\ UNCHANGED <<looked, covering, referring>>
LookAtReferences == looked = "references" /\ ReferencesNext /\ UNCHANGED <<looked, covering, scanning>>

MCSpec ==
  /\ MCInit
  /\ [][LookAtSnapshot \/ LookAtText \/ LookAtReferences]_<<looked, covering, scanning, referring>>
  /\ WF_scanning(LookAtText)

\* The snapshot alone.
SnapshotSpec ==
  /\ looked = "snapshot" /\ CoverageInit /\ TextIdle /\ ReferencesIdle
  /\ [][LookAtSnapshot]_<<looked, covering, scanning, referring>>

-----------------------------------------------------------------------------
\* A file of whole commands is scanned to its end.
TextScanEnds == looked = "text" => ScanEnds
=============================================================================
