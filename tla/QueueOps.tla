------------------------------ MODULE QueueOps ------------------------------
(***************************************************************************)
(* The list surgery the session actor performs on `pending_inputs` (a Rust *)
(* VecDeque), as operators on sequences.  They are written with index sets *)
(* and Cardinality instead of recursion, so that what they preserve can be *)
(* proved without induction (module QueueOpsProofs).                       *)
(***************************************************************************)
EXTENDS Integers, FiniteSets, SequencesExt

(***************************************************************************)
(* The element of the index set K that has j elements of K at or below it. *)
(***************************************************************************)
Nth(K, j) == CHOOSE k \in K : Cardinality({m \in K : m <= k}) = j

(***************************************************************************)
(* The subsequence of s at the indices K, order preserved: the partition   *)
(* loops `for item in take(pending_inputs) { if keep { push_back } }`.     *)
(***************************************************************************)
Kept(s, K) == [j \in 1..Cardinality(K) |-> s[Nth(K, j)]]

(***************************************************************************)
(* s with only the elements that are in the set S.                         *)
(***************************************************************************)
Retain(s, S) == Kept(s, {i \in 1..Len(s) : s[i] \in S})

(***************************************************************************)
(* How many consecutive elements of s, from index i on, belong to S: the   *)
(* `while queue.get(i).is_some_and(..) { i += 1 }` loops.                  *)
(***************************************************************************)
RunLength(s, i, S) ==
    Cardinality({j \in i..Len(s) : \A k \in i..j : s[k] \in S})

(* Mutant: the last of the n is left behind. *)
DropFirstLess(s, n) == IF n = 0 THEN s ELSE SubSeq(s, n, Len(s))

(***************************************************************************)
(* s without its first n elements.                                         *)
(***************************************************************************)
DropFirst(s, n) == SubSeq(s, n + 1, Len(s))

(* Mutant: push without a cap. *)
PushUncapped(s, t, cap) == s \o t

(***************************************************************************)
(* Push with a cap that drops the oldest entries.                          *)
(***************************************************************************)
PushCapped(s, t, cap) ==
    LET all == s \o t
    IN  IF Len(all) > cap THEN DropFirst(all, Len(all) - cap) ELSE all
=============================================================================
