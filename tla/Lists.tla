------------------------------- MODULE Lists -------------------------------
(***************************************************************************)
(* What the lists of the server and the browser are made of: filter and    *)
(* sort of JavaScript's Array.prototype, by functions.                     *)
(***************************************************************************)
EXTENDS Naturals, Sequences, FiniteSets

\* The elements of s that are in T, in the order they have in s.
Filtered(s, T) ==
  LET chosen[i \in 0..Len(s)] ==
        IF i = 0 THEN <<>>
        ELSE IF s[i] \in T THEN Append(chosen[i - 1], s[i]) ELSE chosen[i - 1]
  IN  chosen[Len(s)]

\* The elements of the finite set S in the order R, a set of pairs: each stands
\* behind as many as come before it.
Ranked(S, R) ==
  [k \in 1..Cardinality(S) |->
     CHOOSE x \in S : Cardinality({y \in S : <<y, x>> \in R}) = k - 1]
=============================================================================
