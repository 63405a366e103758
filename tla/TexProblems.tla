------------------------------ MODULE TexProblems ------------------------------
(***************************************************************************)
(* What lean-coverage.py says of the blueprint's TeX.                      *)
(***************************************************************************)
EXTENDS TextModeScan, CrossReferences

\* What is reported of the TeX is what is wrong with it. text_mode_specials finds what
\* TeX stops at, all of it and nothing else, and an equation that the file leaves open,
\* each at its line, however many lines the scanner jumped over, where the file has none of
\* the oddities; cross_references finds a problem only where environments do not nest in
\* some chapter, a label is defined twice in the blueprint, or a reference or a citation has
\* none, and wherever that is so, if the keys of the citations with an optional argument,
\* which it does not read, are in the bibliography.
TexProblemsAreRight == SpecialsAreReported /\ LineIsRight /\ ReferencesAreRight
=============================================================================
