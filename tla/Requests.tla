------------------------------ MODULE Requests ------------------------------
(***************************************************************************)
(* How the Nest process serves requests. A handler runs one request: every *)
(* await between two SQL statements lets another handler take its turn, so *)
(* a statement is a step and req[h] holds where request h stands and what  *)
(* it has read. A request can be cut between two statements (a statement   *)
(* fails, the client is gone, the process dies); nothing undoes the        *)
(* statements it has run.                                                  *)
(***************************************************************************)
EXTENDS Integers, FiniteSetsExt

CONSTANTS Handlers,  \* requests in flight at the same time
          None       \* the value of an empty column, of a lookup that fails

VARIABLES req,       \* the request each handler is serving
          serial,    \* whether requests are served one at a time
          dropped    \* whether a request has been cut

reqVars == <<req, serial, dropped>>

Idle == [at |-> "idle"]

\* Requests are served one at a time, or overlap statement by statement.
RequestsInit(oneAtATime) ==
  /\ req = [h \in Handlers |-> Idle]
  /\ serial = oneAtATime
  /\ dropped = FALSE

Quiet == \A h \in Handlers : req[h] = Idle

\* A new request, that has read what r holds.
Begin(h, r) ==
  /\ req[h] = Idle
  /\ serial => Quiet
  /\ req' = [req EXCEPT ![h] = r]
  /\ UNCHANGED <<serial, dropped>>

\* A request of one statement starts and ends in one step.
AtOnce == (serial => Quiet) /\ UNCHANGED reqVars

At(h, point) == req[h].at = point
Goto(h, r) == req' = [req EXCEPT ![h] = r] /\ UNCHANGED <<serial, dropped>>
Done(h) == Goto(h, Idle)

\* One request is cut where it stands (once in a behaviour).
Drop(h) ==
  /\ req[h] # Idle
  /\ ~dropped
  /\ req' = [req EXCEPT ![h] = Idle]
  /\ dropped' = TRUE
  /\ UNCHANGED serial
=============================================================================
