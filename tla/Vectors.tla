------------------------------- MODULE Vectors -------------------------------
(***************************************************************************)
(* A std::vector as a sequence: a scan that erases elements keeps the      *)
(* others in their order.                                                  *)
(***************************************************************************)
EXTENDS Naturals, Sequences

(* The elements of s that are in S, in the order they have in s.           *)
Kept(s, S) ==
  LET kept[n \in 0 .. Len(s)] ==
        IF n = 0 THEN <<>>
        ELSE IF s[n] \in S THEN Append(kept[n - 1], s[n])
        ELSE kept[n - 1]
  IN  kept[Len(s)]
=============================================================================
