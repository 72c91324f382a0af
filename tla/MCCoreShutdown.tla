--------------------------- MODULE MCCoreShutdown ---------------------------
(* Bounds for model checking CoreShutdown, and ConnectionTargets within it. *)
EXTENDS CoreShutdown

CONSTANTS a, b, u, s, r1, r2

TwoIds == {a, b}
OneUrl == {u}
TwoScopes == {"unpinned", s}
TwoRequests == {r1, r2}
=============================================================================
