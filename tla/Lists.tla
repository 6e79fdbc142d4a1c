-------------------------------- MODULE Lists --------------------------------
(***************************************************************************)
(* Lists filtered by a set of values.                                      *)
(***************************************************************************)
EXTENDS Integers, Sequences

(* The elements of the list that are in the set, in their order.            *)
Only(list, set) ==
  LET kept[n \in 0..Len(list)] ==
        IF n = 0 THEN << >>
        ELSE IF list[n] \in set THEN Append(kept[n - 1], list[n]) ELSE kept[n - 1]
  IN kept[Len(list)]
=============================================================================
