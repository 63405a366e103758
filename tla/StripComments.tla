----------------------------- MODULE StripComments -----------------------------
(***************************************************************************)
(* strip_comments of scripts/port-pairing.py, which takes comments and     *)
(* literals out of a Lean file before its lines are read for declarations: *)
(* an index that jumps over what it recognizes.  Next to it Lean, which    *)
(* reads the same file one character after the other.                      *)
(*                                                                         *)
(* A character is one of the marks below or a letter.  What stands for a   *)
(* string or a character literal in the result is a mark of its own.       *)
(***************************************************************************)
EXTENDS Integers, SequencesExt

CONSTANT Texts   \* files: sequences of characters

ASSUME TextsAssumption == \A s \in Texts : s \in Seq(STRING)

VARIABLES
  text, out,
  point,   \* the next character that the script reads
  depth,   \* of comments
  loop     \* the loop it is in: "text", "line", "string", or "done"

stripping == <<text, out, point, depth, loop>>

Newline == "newline"
Quote == "quote"
Escape == "escape"
Prime == "prime"
Letter == "x"

At(s, k) == IF k \in DOMAIN s THEN s[k] ELSE "end"

-----------------------------------------------------------------------------
(* The script: an iteration of its loop, or of one of the two inside.      *)

Char == At(text, point)
Two == <<Char, At(text, point + 1)>>

Opens == <<"/", "-">>
Closes == <<"-", "/">>
Dashes == <<"-", "-">>

Literal(s, k) == At(s, k) = Prime /\ At(s, k + 2) = Prime /\ At(s, k + 1) # Escape

Lines(c) == IF c = Newline THEN <<Newline>> ELSE <<>>

Deeper(d) == 1        \* mutant: a comment in a comment is not counted
Nested(d) == d + 1

Going(l) == loop = l /\ point <= Len(text)

\* What it leaves of the next n characters, and the loop it goes on with.
Leave(s, n, l) ==
  out' = out \o s /\ point' = point + n /\ loop' = l /\ UNCHANGED <<text, depth>>

OpenComment ==
  /\ Going("text") /\ Two = Opens
  /\ depth' = Nested(depth) /\ point' = point + 2 /\ UNCHANGED <<text, out, loop>>

CloseComment ==
  /\ Going("text") /\ depth > 0 /\ Two = Closes
  /\ depth' = depth - 1 /\ point' = point + 2 /\ UNCHANGED <<text, out, loop>>

InComment == Going("text") /\ depth > 0 /\ Two \notin {Opens, Closes} /\ Leave(Lines(Char), 1, "text")

ReadsCode == Going("text") /\ depth = 0 /\ Two # Opens

LineComment == ReadsCode /\ Two = Dashes /\ Leave(<<>>, 0, "line")

InLine == Going("line") /\ Char # Newline /\ Leave(<<>>, 1, "line")

LineEnds == loop = "line" /\ (point <= Len(text) => Char = Newline) /\ Leave(<<>>, 0, "text")

String == ReadsCode /\ Char = Quote /\ Leave(<<"string">>, 1, "string")

InString ==
  /\ Going("string") /\ Char # Quote
  /\ IF Char = Escape THEN Leave(<<>>, 2, "string") ELSE Leave(Lines(Char), 1, "string")

StringEnds == loop = "string" /\ (point <= Len(text) => Char = Quote) /\ Leave(<<>>, 1, "text")

CharLiteral == ReadsCode /\ Literal(text, point) /\ Leave(<<"literal">>, 3, "text")

Copy ==
  /\ ReadsCode /\ Two # Dashes /\ Char # Quote /\ ~Literal(text, point)
  /\ Leave(<<Char>>, 1, "text")

Stripped == loop = "text" /\ point > Len(text) /\ Leave(<<>>, 0, "done")

StripBegin == out = <<>> /\ point = 1 /\ depth = 0 /\ loop = "text"

StripInit == text \in Texts /\ StripBegin

StripNext ==
  \/ OpenComment \/ CloseComment \/ InComment
  \/ LineComment \/ InLine \/ LineEnds
  \/ String \/ InString \/ StringEnds
  \/ CharLiteral \/ Copy \/ Stripped

StripSpec == StripInit /\ [][StripNext]_stripping

-----------------------------------------------------------------------------
(* Lean: held is a slash or a dash that the next character may make a      *)
(* token of; a prime that follows a name belongs to it; odd is what the    *)
(* script does not expect.                                                 *)

Start == [in |-> "code", held |-> <<>>, depth |-> 0, skip |-> 0, name |-> FALSE,
          left |-> <<>>, odd |-> {}]

Leaves(st, mode, s) == [st EXCEPT !.in = mode, !.held = <<>>, !.left = @ \o st.held \o s, !.name = FALSE]

Drops(st, mode, d) == [st EXCEPT !.in = mode, !.held = <<>>, !.depth = d, !.name = FALSE]

Odd(st, things) == [st EXCEPT !.odd = @ \cup things]

ReadCode(st, k) ==
  LET c == text[k]
      escaped == At(text, k + 1) = Escape /\ At(text, k + 3) = Prime
  IN CASE st.held = <<"/">> /\ c = "-" -> Drops(st, "comment", 1)
       [] st.held = <<"-">> /\ c = "-" -> Drops(st, "line", 0)
       [] c \in {"/", "-"} /\ ~(st.held # <<>> /\ c = "-") ->
            [Leaves(st, "code", <<>>) EXCEPT !.held = <<c>>]
       [] c = Quote -> Leaves(st, "string", <<"string">>)
       [] c = Prime /\ st.name ->
            Odd([Leaves(st, "code", <<c>>) EXCEPT !.name = TRUE],
                IF Literal(text, k) THEN {"name"} ELSE {})
       [] c = Prime /\ ~st.name /\ (escaped \/ Literal(text, k)) ->
            Odd([Leaves(st, "literal", <<"literal">>) EXCEPT !.skip = IF escaped THEN 3 ELSE 2],
                IF escaped THEN {"escaped"} ELSE {})
       [] OTHER -> [Leaves(st, "code", <<c>>) EXCEPT !.name = (c = Letter)]

ReadComment(st, c) ==
  CASE st.held = <<"/">> /\ c = "-" -> Drops(st, "comment", st.depth + 1)
    [] st.held = <<"-">> /\ c = "/" ->
         Drops(st, IF st.depth = 1 THEN "code" ELSE "comment", st.depth - 1)
    [] OTHER -> [st EXCEPT !.held = IF c \in {"/", "-"} THEN <<c>> ELSE <<>>, !.left = @ \o Lines(c)]

ReadLean(st, k) ==
  LET c == text[k]
  IN CASE st.in = "code" -> ReadCode(st, k)
       [] st.in = "comment" -> ReadComment(st, c)
       [] st.in = "line" -> IF c = Newline THEN Leaves(st, "code", <<c>>) ELSE st
       [] st.in = "string" ->
            Leaves(st, CASE c = Quote -> "code" [] c = Escape -> "escape" [] OTHER -> "string", Lines(c))
       [] st.in = "escape" -> Odd(Leaves(st, "string", Lines(c)), IF c = Newline THEN {"gap"} ELSE {})
       [] st.in = "literal" -> [st EXCEPT !.skip = @ - 1, !.in = IF st.skip = 1 THEN "code" ELSE "literal"]

\* What Lean has read of the first k characters.
LeanTo[k \in 0..Len(text)] == IF k = 0 THEN Start ELSE ReadLean(LeanTo[k - 1], k)

Lean == LeanTo[Len(text)]

-----------------------------------------------------------------------------
\* "Remove block comments (nested), line comments and string literals, keeping newlines":
\* what is left are the characters that Lean reads as code, each on its line, if no
\* string goes on after an escaped newline, no literal is an escaped character, and no
\* name has two primes around a character.
StripsAsLean ==
  loop = "done" /\ Lean.odd = {} =>
    out = Lean.left \o (IF Lean.in = "code" THEN Lean.held ELSE <<>>)
=============================================================================
