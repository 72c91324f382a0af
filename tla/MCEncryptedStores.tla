-------------------------- MODULE MCEncryptedStores --------------------------
(* Bounds for model checking EncryptedStores. *)
EXTENDS EncryptedStores, TLC

CONSTANTS p1, p2, connections, providers, rec, right, wrong

OneProc == {p1}
TwoProcs == {p1, p2}
BothStores == {connections, providers}
OnlyConnections == {connections}
OneRecord == {rec}
TwoPassphrases == {right, wrong}

\* Processes are interchangeable, and so are passphrases.
Symmetry == Permutations(TwoProcs) \cup Permutations(TwoPassphrases)
=============================================================================
