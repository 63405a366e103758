---------------------------- MODULE MCLspShutdown ----------------------------
(***************************************************************************)
(* TLC instances of LspShutdown.                                           *)
(***************************************************************************)
EXTENDS LspShutdown

CONSTANTS h1, a, c1, c2

TwoTexts == {"clean", "broken"}
TwoReports == [t \in TwoTexts |-> IF t = "clean" THEN <<>> ELSE <<1, 3>>]
=============================================================================
