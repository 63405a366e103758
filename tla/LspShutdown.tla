----------------------------- MODULE LspShutdown -----------------------------
(***************************************************************************)
(* The end of serve() in scripts/lean-lsp-check.py, composed with the      *)
(* checker.  Once serve_forever has returned, because of "stop" or of an   *)
(* interrupt at the keyboard, the main thread runs checker.close() without *)
(* taking the lock, assignment by assignment between the steps of a        *)
(* handler.  Handler threads are daemon threads: those that were accepted  *)
(* earlier run on, and take the lock, until the process exits, which may   *)
(* be at any time once the main thread has left.                           *)
(***************************************************************************)
EXTENDS LeanLspCheckerProps

VARIABLE main   \* "serving"; "closing", with a client to close; "closed" or "raised",
                \* as client.close() returned or raised; "documents" and
                \* "diagnostics", each about to be cleared; "left": the finally
                \* block is through

allvars == <<vars, main>>

Interrupt ==
  /\ main = "serving" /\ serving # "no"
  /\ serving' = "no"
  /\ UNCHANGED <<lock, pc, request, result, client, tables, diagnostics, current,
                 scratch, server, flight, main>>

\* if self.client is not None
MainTests ==
  /\ main = "serving" /\ serving = "no"
  /\ main' = IF client = None THEN "documents" ELSE "closing"
  /\ UNCHANGED vars

\* self.client.close().  While __init__ is still running there may be nothing
\* to kill yet, which makes it raise; and so does a client that a handler has
\* taken away since the test.
MainCloses ==
  /\ main = "closing"
  /\ main' \in {"closed", "raised"}
  /\ IF client = None THEN main' = "raised" /\ UNCHANGED process
     ELSE \/ process' = [process EXCEPT ![client] = "dead"]
          \/ /\ main' = "raised"
             /\ IF process[client] = "alive"
                THEN process' = [process EXCEPT ![client] = "leaked"]
                ELSE UNCHANGED process
  /\ UNCHANGED <<session, client, tables, diagnostics, current, scratch, worker, sent,
                 flight>>

\* finally: self.client = None.  What was raised goes on from here.
MainDrops ==
  /\ main \in {"closed", "raised"}
  /\ client' = None
  /\ main' = IF main = "closed" THEN "documents" ELSE "left"
  /\ UNCHANGED <<session, tables, diagnostics, current, scratch, server, flight>>

MainClearsDocuments ==
  /\ main = "documents"
  /\ documents' = [f \in Files |-> None]
  /\ order' = <<>>
  /\ main' = "diagnostics"
  /\ UNCHANGED <<session, client, versions, diagnostics, current, scratch, server, flight>>

\* A comprehension that is iterating over diagnostics notices.
MainClearsDiagnostics ==
  /\ main = "diagnostics"
  /\ diagnostics' = {}
  /\ resized' = (resized \/ (Filtering /\ diagnostics # {}))
  /\ main' = "left"
  /\ UNCHANGED <<session, client, tables, current, kept, ask, server, flight>>

Interrupted(h) ==
  pc[h] = "init" /\ ~(\E c \in Clients : client = c /\ process[c] = "fresh")

\* The handler that creates a client finds it taken away when __init__, which
\* may have spawned a server by now, is done.
InitLost(h) ==
  /\ Interrupted(h)
  /\ Raise(h, 2, current)
  /\ \/ UNCHANGED process
     \/ \E c \in Clients : process[c] = "fresh"
                           /\ process' = [process EXCEPT ![c] = "alive"]
  /\ UNCHANGED <<serving, client, tables, diagnostics, current, worker, sent, flight>>

\* A request is served or, where another handler is at work, refused: also
\* after serve_forever has ended, if its thread had been started before.
Arrive(h) == (\E r \in Request : Admit(h, r)) \/ Refuse(h)

Handle(h) ==
  \/ ~Interrupted(h) /\ HandlerStep(h) /\ UNCHANGED main
  \/ InitLost(h) /\ UNCHANGED main

-----------------------------------------------------------------------------
ShutdownInit == Init /\ main = "serving"

ShutdownNext ==
  \/ \E h \in Handlers : Arrive(h) /\ UNCHANGED main
  \/ \E h \in Handlers : Handle(h)
  \/ Shutdown /\ UNCHANGED main
  \/ \E m \in flight : OnDiagnostics(m) /\ UNCHANGED main
  \/ Lean /\ UNCHANGED main
  \/ Interrupt \/ MainTests \/ MainCloses \/ MainDrops \/ MainClearsDocuments \/ MainClearsDiagnostics

\* No fairness: every thread ends with the process.
ShutdownSpec == ShutdownInit /\ [][ShutdownNext]_allvars

-----------------------------------------------------------------------------
\* Success is never reported for a text in which Lean reports an error, even
\* by a check that is running while the helper shuts down ("silence never
\* means success").
SilenceNeverMeansSuccess ==
  \A h \in Handlers :
    result[h] # None /\ request[h].op = "check" /\ result[h].exit = 0 =>
      ErrorSeverity \notin Reported(request[h].text)

\* However the shutdown cuts into a check, what it answers shows diagnostics
\* of the text it was asked about and of no other, and exit 1 means that Lean
\* does report an error in that text.
OwnTextOnly ==
  \A h \in Handlers :
    result[h] # None /\ request[h].op = "check" =>
      /\ result[h].sevs \subseteq Reported(request[h].text)
      /\ result[h].exit = 1 => ErrorSeverity \in Reported(request[h].text)
=============================================================================
