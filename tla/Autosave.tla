------------------------------ MODULE Autosave ------------------------------
(***************************************************************************)
(* What saving the Workspace promises about order: every write stores a    *)
(* state the user has seen and never an older one than the disk holds,     *)
(* except that a write given up on may still land later.                   *)
(*                                                                         *)
(* States are numbered in the order the user produced them.                *)
(***************************************************************************)
EXTENDS Naturals

VARIABLES
  latest,     \* the state on the screen
  saved,      \* the state on disk
  abandoned   \* states whose write was given up on

Init == latest = 0 /\ saved = 0 /\ abandoned = {}

Change ==
  /\ latest' = latest + 1
  /\ UNCHANGED <<saved, abandoned>>

Save ==
  /\ saved' \in saved .. latest
  /\ UNCHANGED <<latest, abandoned>>

GiveUp ==
  /\ \E s \in 0 .. latest : abandoned' = abandoned \cup {s}
  /\ UNCHANGED <<latest, saved>>

\* An abandoned write lands or is lost for good.
Resolve ==
  /\ saved' \in abandoned \cup {saved}
  /\ abandoned' \subseteq abandoned
  /\ UNCHANGED latest

Next == Change \/ Save \/ GiveUp \/ Resolve

Spec == Init /\ [][Next]_<<latest, saved, abandoned>>
=============================================================================
