--------------------------- MODULE ManagedDriver ---------------------------
(***************************************************************************)
(* What a connection manager promises to those who own it: at most one     *)
(* physical connection at a time, opened on demand, and a close() that is  *)
(* final.  ConnectionManager implements this specification, and            *)
(* ConnectionTargets and CoreShutdown rely on nothing else.                *)
(***************************************************************************)

VARIABLES
  physical,  \* the connection to the database: "none", "opening", "open"
  closing    \* close(): "no" before it is called, "yes", "done"

vars == <<physical, closing>>

TypeOK == physical \in {"none", "opening", "open"} /\ closing \in {"no", "yes", "done"}

Init == physical = "none" /\ closing = "no"

\* The first use opens the connection; after close() has begun no use does.
Open ==
  /\ physical = "none" /\ closing = "no"
  /\ physical' = "opening"
  /\ UNCHANGED closing

OpenSettles ==
  /\ physical = "opening"
  /\ physical' \in {"open", "none"}
  /\ UNCHANGED closing

\* close() latches, and is over at once when it finds nothing to wait for.
CloseBegins ==
  /\ closing = "no"
  /\ closing' = "yes" \/ (physical = "none" /\ closing' = "done")
  /\ UNCHANGED physical

\* close() waits for an open in flight, then releases what it opened.
CloseEnds ==
  /\ closing = "yes" /\ physical # "opening"
  /\ closing' = "done"
  /\ physical' = "none"

Next == Open \/ OpenSettles \/ CloseBegins \/ CloseEnds

Spec == Init /\ [][Next]_vars

=============================================================================
