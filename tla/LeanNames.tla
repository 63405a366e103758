------------------------------- MODULE LeanNames -------------------------------
(***************************************************************************)
(* What the scripts that read Lean files without Lean are to find in them: *)
(* the names of their declarations (LeanScopes), for which port-pairing.py *)
(* first takes the comments out (StripComments).                           *)
(***************************************************************************)
EXTENDS LeanScopes, StripComments

\* Each of the four readers names the declarations of a file as Lean does, if the
\* file holds nothing that this reader does not expect; and what strip_comments leaves
\* for one of them to read is what Lean reads as code, on the lines it is on.
NamesAreFull ==
  /\ ScopesTypeOK
  /\ CoverageNames /\ DeadNames /\ PairingNames /\ ClashNames
  /\ StripsAsLean
=============================================================================
