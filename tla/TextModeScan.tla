------------------------------ MODULE TextModeScan ------------------------------
(***************************************************************************)
(* text_mode_specials of scripts/lean-coverage.py: "_" and "^" outside     *)
(* math mode, and single backticks, in a TeX file of the blueprint.        *)
(*                                                                         *)
(* The scanner jumps over the file with lookahead; TeX, below, reads it    *)
(* one token after the other. A run of letters is a token, and "_" stands  *)
(* for "^" too. "text" stands for every command whose argument is text     *)
(* even in mathematics, where TeX stops at "_" and the scanner does not    *)
(* know.                                                                   *)
(***************************************************************************)
EXTENDS Integers, FiniteSets, FiniteSetsExt, SequencesExt

CONSTANTS
  Sources,    \* the files that are scanned: sequences of tokens
  MaxLine     \* bound of the model: a scan that never ends counts lines and environments

ASSUME TokensAssumption == \A s \in Sources : s \in Seq(STRING)

Words == {"begin", "end", "cite", "text", "equation", "word"}
MATH_ENVS == {<<"equation">>}
NAME_ARG_CMDS == {"cite"}

VARIABLES
  src, i, line,
  math,      \* `$` nesting, 0 or 1
  envs,      \* how many math environments are open
  problems,  \* [at, line, what]; at is where the scanner stands, line is 0 for a whole file
  scanned    \* the end is reached

scanning == <<src, i, line, math, envs, problems, scanned>>

-----------------------------------------------------------------------------
(* The scanner.                                                            *)

size == Len(src)
Newlines(from, to) == Cardinality({p \in from..to : src[p] = "nl"})

\* str.find, 0 for -1.
FirstOf(c, from) == LET all == {p \in from..size : src[p] = c} IN IF all = {} THEN 0 ELSE Min(all)

Facing(c) == ~scanned /\ i <= size /\ src[i] = c

Report(what) == problems' = problems \cup {[at |-> i, line |-> line, what |-> what]}

Count(lines) == line + lines <= MaxLine /\ line' = line + lines

Newline ==
  /\ Facing("nl") /\ Count(1)
  /\ i' = i + 1
  /\ UNCHANGED <<src, math, envs, problems, scanned>>

PercentToken ==   \* mutant: the comment is read like the text
  /\ Facing("percent")
  /\ i' = i + 1
  /\ UNCHANGED <<src, line, math, envs, problems, scanned>>
Percent ==
  /\ Facing("percent")
  /\ i' = IF FirstOf("nl", i) = 0 THEN size + 1 ELSE FirstOf("nl", i)
  /\ UNCHANGED <<src, line, math, envs, problems, scanned>>

word == IF i < size /\ src[i + 1] \in Words THEN src[i + 1] ELSE "none"

Escape ==
  /\ Facing("backslash") /\ word = "none"
  /\ math' = CASE i < size /\ src[i + 1] = "lbracket" -> 1
               [] i < size /\ src[i + 1] = "rbracket" -> 0
               [] OTHER -> math
  /\ i' = i + 2
  /\ UNCHANGED <<src, line, envs, problems, scanned>>

\* With no "rbrace" after the "lbrace", e = -1 and i = 0: from the start again.
IsEnvironment == word \in {"begin", "end"} /\ FirstOf("lbrace", i + 2) # 0

EnvironmentFirst ==   \* mutant: the closing brace is looked for from the start of the file
  /\ Facing("backslash") /\ IsEnvironment
  /\ i' = FirstOf("rbrace", 1) + 1
  /\ UNCHANGED <<src, line, math, envs, problems, scanned>>
Environment ==
  /\ Facing("backslash") /\ IsEnvironment /\ envs < MaxLine
  /\ LET k == FirstOf("lbrace", i + 2)
         e == FirstOf("rbrace", k)
         env == SubSeq(src, k + 1, (IF e = 0 THEN size ELSE e) - 1)
     IN  /\ envs' = IF env \notin MATH_ENVS THEN envs
                    ELSE IF word = "begin" THEN envs + 1
                    ELSE IF envs > 0 THEN envs - 1 ELSE 0
         /\ i' = e + 1
  /\ UNCHANGED <<src, line, math, problems, scanned>>

Brace == LET ink == {p \in (i + 2)..size : src[p] \notin {"space", "nl"}} IN IF ink = {} THEN size + 1 ELSE Min(ink)

TakesName == word \in NAME_ARG_CMDS /\ Brace <= size /\ src[Brace] = "lbrace"

DepthTo(q) == Cardinality({p \in Brace..q : src[p] = "lbrace"}) - Cardinality({p \in Brace..q : src[p] = "rbrace"})

ArgumentEnd == LET closed == {q \in Brace..size : DepthTo(q) = 0} IN IF closed = {} THEN size ELSE Min(closed)

NameLinesOutside == Newlines(i + 2, Brace - 1)   \* mutant: only those before the brace
NameLines == Newlines(i + 2, ArgumentEnd)

Name ==
  /\ Facing("backslash") /\ TakesName
  /\ Count(NameLines) /\ i' = ArgumentEnd + 1
  /\ UNCHANGED <<src, math, envs, problems, scanned>>

Command ==
  /\ Facing("backslash") /\ word # "none" /\ ~IsEnvironment /\ ~TakesName
  /\ Count(IF word \in NAME_ARG_CMDS THEN Newlines(i + 2, Brace - 1) ELSE 0)
  /\ i' = i + 2
  /\ UNCHANGED <<src, math, envs, problems, scanned>>

Dollar ==
  /\ Facing("dollar")
  /\ math' = 1 - math /\ i' = i + 1
  /\ UNCHANGED <<src, line, envs, problems, scanned>>

Special ==
  /\ Facing("underscore")
  /\ IF math = 0 /\ envs = 0 THEN Report("special") ELSE UNCHANGED problems
  /\ i' = i + 1
  /\ UNCHANGED <<src, line, math, envs, scanned>>

Backtick ==
  /\ Facing("tick")
  /\ IF i < size /\ src[i + 1] \in Words THEN Report("backtick") ELSE UNCHANGED problems
  /\ i' = IF i < size /\ src[i + 1] = "tick" THEN i + 2 ELSE i + 1
  /\ UNCHANGED <<src, line, math, envs, scanned>>

Other ==
  /\ \E c \in Words \cup {"lbrace", "rbrace", "lbracket", "rbracket", "space"} : Facing(c)
  /\ i' = i + 1
  /\ UNCHANGED <<src, line, math, envs, problems, scanned>>

TextEnds ==
  /\ ~scanned /\ i > size
  /\ scanned' = TRUE
  /\ problems' = problems \cup (IF math = 1 \/ envs > 0
                               THEN {[at |-> size + 1, line |-> 0, what |-> "unbalanced"]} ELSE {})
  /\ UNCHANGED <<src, i, line, math, envs>>

ScanBegin == i = 1 /\ line = 1 /\ math = 0 /\ envs = 0 /\ problems = {} /\ scanned = FALSE

ScanInit == src \in Sources /\ ScanBegin

ScanNext == Newline \/ Percent \/ Escape \/ Environment \/ Name \/ Command \/ Dollar \/ Special
            \/ Backtick \/ Other \/ TextEnds

ScanSpec == ScanInit /\ [][ScanNext]_scanning /\ WF_scanning(ScanNext)

-----------------------------------------------------------------------------
(* TeX. odd collects what this blueprint does not write, or writes by      *)
(* mistake.                                                                *)

Start == [in |-> "copy",    \* or in a "comment", after a "slash", "before" or "inside" an
                            \* argument, or after a slash there ("escape")
          command |-> "none",   \* the control word whose argument it is
          depth |-> 0,      \* braces open in the argument
          arg |-> <<>>,
          option |-> "none",    \* its optional argument: it "may" follow, is "open" or "closed",
                                \* and then the "keys" are read; or, in mathematics, the argument
                                \* of \text: it "starts", and is "text" until it is closed
          mode |-> "text",  \* or "open" after a first $, "inline", "display", "closing", "bracket"
          envs |-> 0, tick |-> FALSE, odd |-> {}]

Odd(s, what) == [s EXCEPT !.odd = @ \cup {what}]

Turn(s, from, to) == IF s.mode = from /\ s.envs = 0 THEN [s EXCEPT !.mode = to] ELSE Odd(s, "nested")

\* An optional argument is copy, the keys behind it are not: the scanner reads both as copy.
\* In mathematics \text{..} is text, of which the scanner knows nothing.
Optional(s, t) ==
  LET next == CASE s.option = "open" /\ t = "rbracket" -> "closed"
                [] s.option = "closed" /\ t = "lbrace" -> "keys"
                [] s.option \in {"keys", "text"} /\ t = "rbrace" -> "none"
                [] s.option = "starts" /\ t = "lbrace" -> "text"
                [] OTHER -> s.option
      u == [s EXCEPT !.option = next]
  IN  IF \/ s.option = "open" /\ t = "lbrace"
         \/ s.option = "closed" /\ t \notin {"lbrace", "space", "nl"}
         \/ s.option = "keys" /\ t \notin Words \cup {"rbrace", "lbracket", "rbracket", "space", "nl"}
      THEN Odd(u, "option")
      ELSE IF \/ s.option = "starts" /\ t \notin {"lbrace", "space", "nl"}
              \/ s.option = "text" /\ t \in {"dollar", "lbrace"}
      THEN Odd(u, "text")
      ELSE IF s.option = "text" /\ t = "underscore" THEN Odd(u, "special") ELSE u

Copy(s, t) ==
  LET u == [s EXCEPT !.tick = t = "tick" /\ ~@, !.mode = IF @ = "open" /\ t # "dollar" THEN "inline" ELSE @]
  IN  CASE t = "percent" -> [u EXCEPT !.in = "comment"]
        [] t = "backslash" -> [u EXCEPT !.in = "slash"]
        [] t = "dollar" -> CASE u.mode = "text" -> Turn(u, "text", "open")
                        [] u.mode = "open" -> Odd(Turn(u, "open", "display"), "display")
                        [] u.mode = "inline" -> Turn(u, "inline", "text")
                        [] u.mode = "display" -> Turn(u, "display", "closing")
                        [] u.mode = "closing" -> Turn(u, "closing", "text")
                        [] OTHER -> Odd(u, "nested")
        [] OTHER -> u

InCopy(s, t) == Copy(Optional(s, t), t)

Control(s, t) ==
  LET u == [s EXCEPT !.in = "before", !.command = t, !.option = IF t \in NAME_ARG_CMDS THEN "may" ELSE "none"]
  IN  IF s.option = "none" THEN u ELSE Odd(u, "option")

InTextMode(s) == s.mode = "text" /\ s.envs = 0

AfterSlash(s, t) ==
  LET u == [s EXCEPT !.in = "copy"]
  IN  CASE t = "nl" -> Odd(u, "newline")
        [] t \in {"begin", "end"} \cup NAME_ARG_CMDS -> Control(s, t)
        [] t = "lbracket" -> Turn(u, "text", "bracket")
        [] t = "rbracket" -> Turn(u, "bracket", "text")
        [] t = "text" /\ ~InTextMode(s) ->
             IF s.option = "none" THEN [u EXCEPT !.option = "starts"] ELSE Odd(u, "text")
        [] OTHER -> u

BeforeArgument(s, t) ==
  CASE t = "lbrace" -> [s EXCEPT !.in = "inside", !.depth = 1, !.arg = <<>>, !.option = "none"]
    [] t = "space" \/ (t = "nl" /\ s.command \in NAME_ARG_CMDS) -> [s EXCEPT !.option = "none"]
    [] t = "lbracket" /\ s.option = "may" -> [s EXCEPT !.in = "copy", !.option = "open"]
    [] OTHER -> Odd([s EXCEPT !.in = "copy"], IF t = "nl" THEN "newline" ELSE "bare")

EndArgument(s) ==
  LET u == [s EXCEPT !.in = "copy"]
  IN  CASE s.command = "begin" /\ s.arg \in MATH_ENVS ->
             IF s.mode = "text" THEN [u EXCEPT !.envs = @ + 1] ELSE Odd(u, "nested")
        [] s.command = "end" /\ s.arg \in MATH_ENVS ->
             IF s.envs > 0 THEN [u EXCEPT !.envs = @ - 1] ELSE Odd(u, "nested")
        [] OTHER -> u

InKeys(s, t) ==
  CASE t = "percent" -> Odd(s, "comment")
    [] t = "lbrace" -> [s EXCEPT !.depth = @ + 1]
    [] t = "backslash" -> [s EXCEPT !.in = "escape"]
    [] OTHER -> s

\* Nothing but letters names an environment.
InEnvironmentName(s, t) ==
  IF t \in {"percent", "lbrace", "backslash", "nl"} THEN Odd(s, "name") ELSE [s EXCEPT !.arg = Append(@, t)]

InArgument(s, t) ==
  IF t = "rbrace" THEN IF s.depth = 1 THEN EndArgument(s) ELSE [s EXCEPT !.depth = @ - 1]
  ELSE IF s.command \in NAME_ARG_CMDS THEN InKeys(s, t) ELSE InEnvironmentName(s, t)

InEscape(s, t) == LET u == [s EXCEPT !.in = "inside"] IN IF t \in {"lbrace", "rbrace", "nl"} THEN Odd(u, "brace") ELSE u

ReadTeX(s, t) ==
  CASE s.in = "copy" -> InCopy(s, t)
    [] s.in = "comment" -> IF t = "nl" THEN [s EXCEPT !.in = "copy"] ELSE s
    [] s.in = "slash" -> AfterSlash(s, t)
    [] s.in = "before" -> BeforeArgument(s, t)
    [] s.in = "inside" -> InArgument(s, t)
    [] s.in = "escape" -> InEscape(s, t)

\* TeX's state before each token, and at the end of the file.
TeX == LET before[p \in 1..(size + 1)] == IF p = 1 THEN Start ELSE ReadTeX(before[p - 1], src[p - 1])
       IN  before

StopsAt(s) == s.in = "copy" /\ (InTextMode(s) \/ s.option = "text")

Expected ==
  LET state == TeX
  IN  {[at |-> p, what |-> "special"] :
         p \in {q \in 1..size : src[q] = "underscore" /\ StopsAt(state[q])}}
      \cup {[at |-> p, what |-> "backtick"] :
              p \in {q \in 1..(size - 1) : /\ src[q] = "tick" /\ src[q + 1] \in Words
                                           /\ state[q].in = "copy" /\ ~state[q].tick}}
      \cup (IF InTextMode(state[size + 1]) THEN {} ELSE {[at |-> size + 1, what |-> "unbalanced"]})

Oddities == LET last == TeX[size + 1]
            IN  last.odd \cup (IF last.in \in {"copy", "comment", "slash"} /\ last.option = "none" THEN {} ELSE {"unclosed"})

-----------------------------------------------------------------------------
Places(set) == {[at |-> p.at, what |-> p.what] : p \in set}

\* The scanner reports what TeX stops at, all of it and nothing else, and an equation that
\* the file leaves open, where the file has no oddity: among other things, no special in
\* the text of a formula.
SpecialsAreReported == scanned /\ Oddities = {} => Places(problems) = Expected

\* Each problem is reported at its line, however many lines the scanner jumped over.
LineIsRight ==
  scanned /\ Oddities \subseteq {"display", "nested", "option", "text", "special"} =>
    \A p \in problems : p.line > 0 => p.line = 1 + Newlines(1, p.at - 1)

\* A file of whole commands is scanned to its end.
ScanEnds == (Oddities = {}) => <>scanned
=============================================================================
