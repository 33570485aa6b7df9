--------------------------------- MODULE Lists ---------------------------------
(***************************************************************************)
(* What more than one module does with a sequence, as a recursive function  *)
(* and without an operator as a parameter, so that it can be reasoned about. *)
(***************************************************************************)
EXTENDS Naturals, Sequences

(* The elements of s that are in S, in their order: Vec::retain, filter and *)
(* the loops that skip what they cannot use.                                *)
Retain(s, S) ==
  LET kept[n \in 0..Len(s)] ==
        IF n = 0 THEN <<>>
        ELSE IF s[n] \in S THEN Append(kept[n - 1], s[n]) ELSE kept[n - 1]
  IN kept[Len(s)]
=============================================================================
