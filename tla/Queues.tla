------------------------------- MODULE Queues -------------------------------
(***************************************************************************)
(* What VecDeque::retain leaves of a queue: the entries at the positions   *)
(* that pass, in their order.                                              *)
(***************************************************************************)
EXTENDS Naturals, Sequences, FiniteSets

(* How many positions of I are at or before i.                             *)
Rank(I, i) == Cardinality({j \in I : j <= i})

(* The k-th position of I.                                                 *)
Nth(I, k) == CHOOSE i \in I : Rank(I, i) = k

(* The entries of q at the positions in I.                                 *)
EntriesAt(q, I) == [k \in 1..Cardinality(I) |-> q[Nth(I, k)]]

(* The positions of q that hold a member of K.                             *)
Passing(q, K) == {i \in DOMAIN q : q[i] \in K}

(* The queue without the entries outside K.                                *)
Retain(q, K) == EntriesAt(q, Passing(q, K))
=============================================================================
