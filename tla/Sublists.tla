------------------------------ MODULE Sublists ------------------------------
(***************************************************************************)
(* Keeping some of the items of a list, in their order (Iterator::filter). *)
(* Like SelectSeq of the Sequences module, with a set in place of the test *)
(* and a definition that proofs can expand.                                *)
(***************************************************************************)
EXTENDS Naturals, Sequences

Within(list, S) ==
  LET kept[n \in 0 .. Len(list)] ==
        IF n = 0 THEN <<>>
        ELSE IF list[n] \in S THEN Append(kept[n - 1], list[n]) ELSE kept[n - 1]
  IN  kept[Len(list)]
=============================================================================
