------------------------------- MODULE Lists -------------------------------
(***************************************************************************)
(* What the list comprehensions of the source do: [x for x in s if ...].   *)
(***************************************************************************)
EXTENDS Naturals, Sequences

\* The elements of the sequence that are in the set, in order
Filtered(s, S) ==
    LET upTo[i \in 0 .. Len(s)] ==
          IF i = 0 THEN <<>> ELSE IF s[i] \in S THEN Append(upTo[i - 1], s[i]) ELSE upTo[i - 1]
    IN  upTo[Len(s)]
=============================================================================
