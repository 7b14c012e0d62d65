----------------------------- MODULE Selection -----------------------------
(***************************************************************************)
(* A loop that appends some elements of a sequence to another, as a        *)
(* recursive function that proofs can unfold.                              *)
(***************************************************************************)
EXTENDS Integers, Sequences

\* What has been appended after n elements; keep: the places of those that are.
ChosenUpTo(seq, keep) ==
  LET chosen[n \in 0..Len(seq)] ==
        IF n = 0 THEN << >>
        ELSE IF n \in keep THEN Append(chosen[n - 1], seq[n]) ELSE chosen[n - 1]
  IN  chosen

\* The elements in the places of keep, in their order.
Chosen(seq, keep) == ChosenUpTo(seq, keep)[Len(seq)]
=============================================================================
