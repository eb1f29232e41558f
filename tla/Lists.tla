------------------------------- MODULE Lists -------------------------------
(***************************************************************************)
(* A list filtered, as Rust's retain and filter do it.  It is the          *)
(* SelectSeq of module Sequences with the test given as a set.             *)
(***************************************************************************)
EXTENDS Integers, SequencesExt

\* The elements of s that are in P, in their order.
Kept(s, P) ==
  LET kept[n \in 0 .. Len(s)] ==
        IF n = 0 THEN <<>>
        ELSE IF s[n] \in P THEN Append(kept[n - 1], s[n]) ELSE kept[n - 1]
  IN kept[Len(s)]
=============================================================================
