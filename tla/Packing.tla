------------------------------ MODULE Packing ------------------------------
(***************************************************************************)
(* What a layout promises: things are given room one after another, no two *)
(* get room in common, and what a thing was given is never taken back.     *)
(***************************************************************************)
EXTENDS Naturals

VARIABLE room       \* thing -> its room, for the things that have one

Apart(a, b) == a.end <= b.start \/ b.end <= a.start

Init == room = << >>

Reserve(x) ==
  /\ DOMAIN room' = DOMAIN room \cup {x}
  /\ room'[x].start < room'[x].end
  /\ \A y \in DOMAIN room : room'[y] = room[y] /\ Apart(room'[x], room[y])

Next == \E x \in DOMAIN room' \ DOMAIN room : Reserve(x)

Spec == Init /\ [][Next]_room
=============================================================================
