---------------------------- MODULE MCCppObjects ----------------------------
(* Small instances of CppObjects: an address that is used twice, a handle  *)
(* that is made again after a collection, a queue that a second release    *)
(* finds full.                                                             *)
EXTENDS CppObjects
CONSTANTS o1, o2, a1, a2, h1, h2, f1, c1, c2, none
=============================================================================
