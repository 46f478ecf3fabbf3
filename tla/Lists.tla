-------------------------------- MODULE Lists --------------------------------
(***************************************************************************)
(* What a list comprehension of the code keeps of a list.                  *)
(***************************************************************************)
EXTENDS Naturals, Sequences

\* [x for x in s if x in S]: the elements of s that are in S, in their order.
Keep(s, S) ==
  LET kept[n \in 0 .. Len(s)] ==
        IF n = 0 THEN <<>>
        ELSE IF s[n] \in S THEN Append(kept[n - 1], s[n]) ELSE kept[n - 1]
  IN  kept[Len(s)]
=============================================================================
