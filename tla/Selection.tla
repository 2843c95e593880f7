------------------------------ MODULE Selection ------------------------------
(***************************************************************************)
(* What Vec::retain and Iterator::filter leave of a sequence: the elements *)
(* at some positions, in their order. SelectSeq says the same of a test of *)
(* the elements, but by a recursion that no theorem can be about.          *)
(***************************************************************************)
EXTENDS Integers, Sequences, FiniteSets

\* The elements of s at the positions in I: the n-th is at the position that n of
\* them do not exceed.
Retain(s, I) ==
    LET at == I \cap DOMAIN s
    IN [n \in 1..Cardinality(at) |->
           s[CHOOSE i \in at : Cardinality({j \in at : j <= i}) = n]]
==============================================================================
