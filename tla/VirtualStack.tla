----------------------------- MODULE VirtualStack -----------------------------
(***************************************************************************)
(* What the stack of the JIT's virtual hardware promises a program: a      *)
(* bounded stack of words.  One pop too many is not refused on the spot,   *)
(* but it breaks the stack for good: nothing is pushed or popped after it. *)
(***************************************************************************)
EXTENDS Integers, Sequences

CONSTANTS Words,     \* the values of a cell
          Capacity   \* the cells of the stack

VARIABLES items, broken

vars == <<items, broken>>

Init == items = <<>> /\ broken = FALSE

Push == /\ ~broken /\ Len(items) < Capacity
        /\ \E w \in Words : items' = Append(items, w)
        /\ UNCHANGED broken

\* A push of a vector register leaves two entries with the same address.
PushTwice == /\ ~broken /\ Len(items) < Capacity - 1
             /\ \E w \in Words : items' = items \o <<w, w>>
             /\ UNCHANGED broken

Pop == /\ ~broken /\ items # <<>>
       /\ items' = SubSeq(items, 1, Len(items) - 1)
       /\ UNCHANGED broken

\* The stack is out of order: the program has ended or has popped too often.
Break == /\ broken' = TRUE
         /\ items' \in {items, <<>>}

Next == Push \/ PushTwice \/ Pop \/ Break

Spec == Init /\ [][Next]_vars
================================================================================
