------------------------------ MODULE ListOps ------------------------------
(***************************************************************************)
(* The list operation the client's Maps and arrays are built from: keep the *)
(* entries of a list that belong to a set, in order (Array.filter,          *)
(* Map.delete on the insertion order).  It is written without recursion, by *)
(* the rank of the kept positions, so that it can be reasoned about.        *)
(***************************************************************************)
EXTENDS Integers, Sequences, FiniteSets, Functions

\* The positions of q that hold an element of S.
Kept(q, S) == {i \in DOMAIN q : q[i] \in S}

\* How many kept positions there are up to i.
Rank(q, S, i) == Cardinality({k \in Kept(q, S) : k <= i})

\* The subsequence of q made of its entries in S.
Keep(q, S) ==
  [j \in 1 .. Cardinality(Kept(q, S)) |->
     q[CHOOSE i \in Kept(q, S) : Rank(q, S, i) = j]]

\* q without any occurrence of e.
Without(q, e) == Keep(q, Range(q) \ {e})

\* The first n entries of q, or all of them when q is shorter.
Prefix(q, n) == IF n >= Len(q) THEN q ELSE SubSeq(q, 1, n)

\* What Prefix(q, n) leaves out.
Suffix(q, n) == IF n >= Len(q) THEN << >> ELSE SubSeq(q, n + 1, Len(q))
=============================================================================
