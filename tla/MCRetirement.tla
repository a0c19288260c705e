---------------------------- MODULE MCRetirement ----------------------------
(* Small instances of Retirement: more runtimes than the map keeps, and a  *)
(* queue that a runtime and another release can fill.                       *)
EXTENDS Retirement
CONSTANTS r1, r2, r3, x1, none

(* Retirement!PromisedCleanup (InvalidateNative, the retry worker and the   *)
(* cleanup worker) for one of the runtimes: the specification treats all    *)
(* of them alike.                                                           *)
PromisedCleanupOfOne == CleanupFollows(r1)
=============================================================================
