--------------------------- MODULE MCServiceSlots ---------------------------
(* Small instances of ServiceSlots.                                        *)
EXTENDS ServiceSlots
CONSTANTS t1, t2, t3, a, b, none
=============================================================================
