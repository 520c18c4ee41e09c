------------------------------ MODULE Picking ------------------------------
(***************************************************************************)
(* Sequences whose elements are kept or passed over, in their order, as    *)
(* chats and registries do it with what they hold (filter, retain).        *)
(***************************************************************************)
EXTENDS Naturals, Sequences

\* What is in a set, of some items, in their order.
Picked(items, S) ==
  LET picked[k \in 0..Len(items)] ==
        IF k = 0 THEN <<>>
        ELSE IF items[k] \in S THEN Append(picked[k - 1], items[k]) ELSE picked[k - 1]
  IN  picked[Len(items)]
=============================================================================
