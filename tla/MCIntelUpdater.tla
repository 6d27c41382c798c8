--------------------------- MODULE MCIntelUpdater ---------------------------
(* IntelUpdater for TLC. *)
EXTENDS IntelUpdater, TLC

CONSTANTS f1, f2

FeedSymmetry == Permutations({f1, f2})
============================================================================
