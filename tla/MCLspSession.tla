---------------------------- MODULE MCLspSession ----------------------------
(***************************************************************************)
(* TLC instance of the life of a helper.  Its session: two callers of      *)
(* "start", and three processes to run "serve", so that one can die, one   *)
(* can hold the session and one can try for it.  Or its end: a check of a  *)
(* file with two texts, in a helper that is being stopped.  One of them is *)
(* looked at at a time.                                                    *)
(***************************************************************************)
EXTENDS LspSession, MCLspShutdown

CONSTANTS s1, s2, p1, p2, p3

VARIABLE looked

Session == looked = "session" /\ SessionNext /\ UNCHANGED <<looked, allvars>>
End == looked = "shutdown" /\ ShutdownNext /\ UNCHANGED <<looked, sessions>>

MCInit == looked \in {"session", "shutdown"} /\ SessionInit /\ ShutdownInit
MCNext == Session \/ End

MCSpec ==
  /\ MCInit /\ [][MCNext]_<<looked, sessions, allvars>>
  /\ \A s \in Starters : WF_sessions(StarterStep(s))
=============================================================================
