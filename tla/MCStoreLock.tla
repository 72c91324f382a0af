---------------------------- MODULE MCStoreLock ----------------------------
(* Bounds for model checking StoreLock. *)
EXTENDS StoreLock

CONSTANTS p1, p2, p3, here, there

TwoProcs == {p1, p2}
ThreeProcs == {p1, p2, p3}

OneHost == [p \in TwoProcs |-> here]
ThreeOnOneHost == [p \in ThreeProcs |-> here]

\* Two processes share a host, the third has the directory mounted.
TwoHosts == [p \in ThreeProcs |-> IF p = p3 THEN there ELSE here]

\* What the next steps depend on: judged and attempt are local variables, and
\* of no account once they have been used.
Live == <<lock, written, running, holding, pc, token,
          [p \in Procs |-> IF pc[p] \in {"create", "read", "probe", "rename"} THEN attempt[p] ELSE 0],
          [p \in Procs |-> IF pc[p] \in {"probe", "rename", "remove"} THEN judged[p] ELSE 0],
          outcome, names, history>>
===========================================================================
