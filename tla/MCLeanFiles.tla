------------------------------ MODULE MCLeanFiles ------------------------------
(***************************************************************************)
(* TLC instances of the scripts that read Lean files without Lean.  One of *)
(* them runs at a time: the four readers of scopes, on one name of two     *)
(* components and its parts; port-pairing.py, on files of one or two       *)
(* declarations, one namespace of the state (Q) and one structure (S) with *)
(* a field; its strip_comments, on files of a few fragments; or            *)
(* split_module, on all bodies up to a length.                             *)
(***************************************************************************)
EXTENDS PortPairing, SplitModule, LeanNames

CONSTANT Pieces   \* bound of the model: fragments of a text

VARIABLE script

-----------------------------------------------------------------------------
NamesAndParts == {<<"a">>, <<"b">>, <<"a", "b">>}

StateNames == {<<"f">>, <<"A", "f">>, <<"Q", "f">>, <<"S">>, <<"S", "f">>}

Distinct(s) == \A j, k \in 1..Len(s) : j # k => s[j].name # s[k].name

\* A field is not private, and follows its structure.
Shaped(s) == \A k \in 1..Len(s) : s[k].field =>
  ~s[k].private /\ \E j \in 1..(k - 1) : s[j].name = Front(s[k].name) /\ s[j].name = <<"S">> /\ ~s[j].field

VendoredFiles ==
  {s \in UNION {[1..k -> [name : StateNames, private : BOOLEAN, field : BOOLEAN]] : k \in 1..2} :
     Distinct(s) /\ Shaped(s)}
PortedFiles ==
  {s \in UNION {[1..k -> [name : StateNames \cup {<<"B", "f">>}, private : BOOLEAN]] : k \in 0..2} : Distinct(s)}

TwoBullets == {<<"f">>, <<"S">>}
OneElsewhere == {<<"A", "f">>}

\* Comments, strings, escapes, names with a prime, and character literals.
Fragments ==
  {<<"/">>, <<"/", "-">>, <<"-", "/">>, <<"-", "-">>, <<"quote">>, <<"escape">>, <<"newline">>,
   <<"x">>, <<"x", "prime">>, <<"prime", "quote", "prime">>, <<"prime", "escape", "quote", "prime">>}

TextsOfPieces == {FlattenSeq(s) : s \in UNION {[1..k -> Fragments] : k \in 0..Pieces}}

-----------------------------------------------------------------------------
NoPairing ==
  /\ vdecls = <<>> /\ pfull = <<>> /\ bullets = {} /\ port_index = {}
  /\ status = <<>> /\ used_ported = {} /\ at = 1 /\ pc = "match"

NoBody == body = <<>> /\ SplitBegin

NoText == text = <<>> /\ StripBegin

ReadInit == script = "read" /\ ScopesInit /\ NoPairing /\ NoBody /\ NoText
PairInit == script = "pair" /\ Init /\ ScopesInit /\ NoBody /\ NoText
CutInit == script = "split" /\ SplitInit /\ ScopesInit /\ NoPairing /\ NoText
ClearInit == script = "strip" /\ StripInit /\ ScopesInit /\ NoPairing /\ NoBody

ReadNext == script = "read" /\ ScopesNext /\ UNCHANGED <<script, vars, splitting, stripping>>
PairNext == script = "pair" /\ Next /\ UNCHANGED <<script, reading, splitting, stripping>>
CutNext == script = "split" /\ SplitNext /\ UNCHANGED <<script, reading, vars, stripping>>
ClearNext == script = "strip" /\ StripNext /\ UNCHANGED <<script, reading, vars, splitting>>

MCSpec ==
  /\ ReadInit \/ PairInit \/ CutInit \/ ClearInit
  /\ [][ReadNext \/ PairNext \/ CutNext \/ ClearNext]_<<script, reading, vars, splitting, stripping>>

\* The readers alone.
ReadSpec == ReadInit /\ [][ReadNext]_<<script, reading, vars, splitting, stripping>>
=============================================================================
