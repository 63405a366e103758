-------------------------- MODULE MCLeanLspChecker --------------------------
(***************************************************************************)
(* TLC instances of LeanLspChecker, and its properties.                    *)
(***************************************************************************)
EXTENDS LeanLspCheckerProps, TLC

CONSTANTS h1, h2, a, b, c1, c2

TwoTexts == {"clean", "broken"}

\* Lean reports nothing for the one; an error and then a remark for the other,
\* so that the verdict depends on the first item surviving the second.
TwoReports == [t \in TwoTexts |-> IF t = "clean" THEN <<>> ELSE <<1, 3>>]

Symmetric == Permutations(Handlers) \cup Permutations(Files) \cup Permutations({c1, c2})
=============================================================================
