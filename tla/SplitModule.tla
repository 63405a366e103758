------------------------------ MODULE SplitModule ------------------------------
(***************************************************************************)
(* split_module of scripts/vendor-repetition.py: the body of a vendored    *)
(* Lean namespace is cut, between its top-level blocks, into parts that    *)
(* are files of their own.                                                 *)
(*                                                                         *)
(* A line is its kind; a part is the namespace-level lines it repeats, and *)
(* the numbers of the lines it takes over.                                 *)
(***************************************************************************)
EXTENDS Integers, FiniteSets, SequencesExt

CONSTANTS
  BodyLines,  \* bound of the model: lines of a body
  MaxLines    \* max_lines

Kinds == {"blank", "section", "end", "code",
          "note",              \* a line comment, or a block comment of one line
          "open", "close"}     \* the first and the last line of a block comment

VARIABLES
  body,      \* the lines between namespace and end namespace
  units,     \* <<start, stop, is_block>> of the top-level units still to place
  carried,   \* the namespace-level lines placed so far
  current,   \* the part under construction
  parts,     \* the finished parts, with their spans
  prevStop,  \* prev_stop
  placing    \* "scan", "place", "done" or "error"

splitting == <<body, units, carried, current, parts, prevStop, placing>>

-----------------------------------------------------------------------------
(* The first loop: the units of the body.                                  *)

Unit(scan, start, stop, block) == [scan EXCEPT !.units = Append(@, <<start, stop, block>>)]

LineUnit(scan, i) == IF scan.depth = 0 THEN Unit(scan, i, i, FALSE) ELSE scan

Code(scan, i) == LineUnit(scan, i)

BlockEnd(scan, i) ==
  LET outer == [scan EXCEPT !.depth = @ - 1]
  IN  CASE scan.depth = 0 -> [scan EXCEPT !.failed = TRUE]
        [] scan.depth = 1 -> Unit(outer, scan.start, i, TRUE)
        [] OTHER -> outer

Line(scan, i) ==
  IF scan.failed THEN scan
  ELSE IF scan.comment THEN [scan EXCEPT !.comment = body[i] # "close"]
  ELSE CASE body[i] = "open" -> LineUnit([scan EXCEPT !.comment = TRUE], i)
         [] body[i] = "note" -> LineUnit(scan, i)
         [] body[i] = "section" ->
              [scan EXCEPT !.start = IF scan.depth = 0 THEN i ELSE @, !.depth = @ + 1]
         [] body[i] = "end" -> BlockEnd(scan, i)
         [] body[i] = "blank" -> scan
         [] OTHER -> Code(scan, i)

Unread == [depth |-> 0, comment |-> FALSE, start |-> 0, units |-> <<>>, failed |-> FALSE]

\* What the loop knows after i lines.
ScannedTo[i \in 0..Len(body)] == IF i = 0 THEN Unread ELSE Line(ScannedTo[i - 1], i)

Scanned == ScannedTo[Len(body)]

Balanced == ~Scanned.failed /\ Scanned.depth = 0 /\ ~Scanned.comment

Scan ==
  /\ placing = "scan" /\ Balanced
  /\ placing' = "place" /\ units' = Scanned.units
  /\ UNCHANGED <<body, carried, current, parts, prevStop>>

Reject ==
  /\ placing = "scan" /\ ~Balanced
  /\ placing' = "error"
  /\ UNCHANGED <<body, units, carried, current, parts, prevStop>>

-----------------------------------------------------------------------------
(* The second loop: the parts.                                             *)

NoPart == [carried |-> <<>>, lines |-> <<>>]
Size(part) == Len(part.carried) + (IF part.carried = <<>> THEN 0 ELSE 1) + Len(part.lines)

\* The unit, with the lines since the one before it.
Chunk(u) == [k \in 1..(u[2] - prevStop) |-> prevStop + k]

Overflows(u) == current # NoPart /\ Size(current) + Len(Chunk(u)) > MaxLines

EmptyPart == NoPart   \* mutant: nothing is repeated
NewPart == [carried |-> carried, lines |-> <<>>]

Cut(u) == IF Overflows(u) THEN Append(parts, current) ELSE parts

Place ==
  /\ placing = "place" /\ units # <<>>
  /\ LET u == Head(units)
         part == IF Overflows(u) \/ current = NoPart THEN NewPart ELSE current
     IN  /\ parts' = Cut(u)
         /\ current' = [part EXCEPT !.lines = @ \o Chunk(u)]
         /\ carried' = IF u[3] THEN carried ELSE carried \o <<u[1]>>
         /\ prevStop' = u[2]
  /\ units' = Tail(units)
  /\ UNCHANGED <<body, placing>>

Finish ==
  /\ placing = "place" /\ units = <<>> /\ placing' = "done"
  /\ parts' = IF current = NoPart THEN parts ELSE Append(parts, current)
  /\ current' = NoPart
  /\ UNCHANGED <<body, units, carried, prevStop>>

-----------------------------------------------------------------------------
\* What "/-" and "-/" delimit, in a body that Lean reads; comments do not nest.
Commented(i) == \E j \in 1..(i - 1) : body[j] = "open" /\ \A k \in (j + 1)..(i - 1) : body[k] # "close"

Depth(i) == Cardinality({k \in 1..i : body[k] = "section" /\ ~Commented(k)})
            - Cardinality({k \in 1..i : body[k] = "end" /\ ~Commented(k)})

WellFormed ==
  \A i \in 1..Len(body) :
    /\ body[i] = "close" => Commented(i)
    /\ body[i] = "open" => ~Commented(i)

\* No comment of several lines stands between the blocks.
CommentsInBlocks == \A i \in 1..Len(body) : body[i] = "open" => Depth(i) > 0

SplitBegin ==
  /\ units = <<>> /\ carried = <<>> /\ current = NoPart /\ parts = <<>>
  /\ prevStop = 0 /\ placing = "scan"

SplitInit ==
  /\ \E n \in 1..BodyLines : body \in [1..n -> Kinds]
  /\ WellFormed /\ SplitBegin

SplitNext == Scan \/ Reject \/ Place \/ Finish

SplitSpec == SplitInit /\ [][SplitNext]_splitting

-----------------------------------------------------------------------------
Placed == placing = "done"
Parts == 1..Len(parts)
All(p) == parts[p].carried \o parts[p].lines

\* The last line that the first p parts take over.
Stop(p) == IF p = 0 THEN 0 ELSE Last(parts[p].lines)

\* Namespace-level lines: what a later line may depend on.
Context == {i \in 1..Len(body) : Depth(i) = 0 /\ ~Commented(i) /\ body[i] \in {"code", "note"}}

\* The units follow each other, and the lines that are repeated stand before them.
UnitsFollow ==
  /\ \A k \in 1..Len(units) : units[k][1] <= units[k][2]
  /\ \A k \in 1..Len(units) - 1 : units[k][2] < units[k + 1][1]
  /\ units # <<>> => prevStop < units[1][1]
  /\ ToSet(carried) \subseteq 1..prevStop

\* Each part takes over the lines after those of the part before it, some of them and
\* in place: nothing is dropped at a cut, nothing moves.
PartsFollow ==
  \A p \in Parts :
    /\ Stop(p - 1) < Stop(p)
    /\ parts[p].lines = [k \in 1..(Stop(p) - Stop(p - 1)) |-> Stop(p - 1) + k]

\* When the split is done no line is left, if it is not blank.
LinesSurvive ==
  Placed /\ CommentsInBlocks => \A i \in (Stop(Len(parts)) + 1)..Len(body) : body[i] = "blank"

\* "Namespace-level lines that are not blocks are repeated at the start of every
\* later part": whatever namespace-level line stands before a line of the body
\* stands before it in its part, in the same order and once.
ContextKept ==
  \A p \in Parts :
    /\ \A j, k \in DOMAIN All(p) : j < k => All(p)[j] < All(p)[k]
    /\ \A i \in ToSet(parts[p].lines) : {j \in Context : j < i} \subseteq ToSet(All(p))

\* A part opens and closes its own blocks, none of another.
PartsBalance == \A p \in Parts : Depth(Stop(p - 1)) = 0 /\ Depth(Stop(p)) = 0

\* The parts of a body have each of its lines once and in place, begin with whatever
\* stood before them at namespace level, and open and close their own blocks.
PartsAreWhole == UnitsFollow /\ PartsFollow /\ LinesSurvive /\ ContextKept /\ PartsBalance
=============================================================================
