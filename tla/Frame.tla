------------------------------- MODULE Frame -------------------------------
(***************************************************************************)
(* Pass 1 of the Raptor code generator, pre_scan_local_frame of            *)
(* T/raptor/driver.cts: every parameter and variable of a function is      *)
(* given a slot below the base pointer, in the order of a scan of the      *)
(* body.                                                                   *)
(*                                                                         *)
(* `declared` is what the scan finds, one record per declaration; the scan *)
(* of the tree is Scan of module Raptor, which runs the pass with the      *)
(* others.  A slot is the distance of its first byte below the base        *)
(* pointer (-rbp_offset) and its size.                                     *)
(***************************************************************************)
EXTENDS Integers, Sequences

CONSTANT Names    \* names of parameters and variables

Declaration == [name : Names, size : Nat, elem : Nat \ {0}]

VARIABLES
  declared,   \* the declarations of the function, parameters first
  scanned,    \* how many of them have a slot
  offset,     \* bytes in use below the base pointer
  slots,      \* vars: name -> slot, or NoSlot
  closed,     \* the scan is over
  total       \* total_stack_size, once the scan is over

frameVars == <<declared, scanned, offset, slots, closed, total>>

Slot == [at : Nat, size : Nat]
NoSlot == [at |-> 0, size |-> 0]
HasSlot(name) == \E k \in 1..scanned : declared[k].name = name

-----------------------------------------------------------------------------
(* Math.ceil(n / to) * to.                                                  *)
AlignUp(n, to) == ((n + to - 1) \div to) * to

Least(m, n) == IF m < n THEN m ELSE n

(* Mutants: the offset is rounded before the size is added; an array takes  *)
(* the room of one element; the offset runs the wrong way.                  *)
AlignThenAdd(used, d) == AlignUp(used, Least(d.elem, 8)) + d.size
OneElement(used, d) == AlignUp(used + d.elem, Least(d.elem, 8))
Upwards(used, d) == AlignUp(used - d.size, Least(d.elem, 8))

(* Room for one more declaration: its bytes, then padding below them.       *)
Extend(used, d) == AlignUp(used + d.size, Least(d.elem, 8))

Empty ==
  /\ scanned = 0
  /\ offset = 0
  /\ slots = [name \in Names |-> NoSlot]
  /\ closed = FALSE
  /\ total = 0

FrameInit == declared \in Seq(Declaration) /\ Empty

(* push_var, and its copy for arrays.  A name seen before is given another  *)
(* slot; vars keeps the last one.                                           *)
PushVar ==
  /\ scanned < Len(declared)
  /\ LET d == declared[scanned + 1]
     IN  /\ offset' = Extend(offset, d)
         /\ slots' = [slots EXCEPT ![d.name] = [at |-> Extend(offset, d), size |-> d.size]]
  /\ scanned' = scanned + 1
  /\ UNCHANGED <<declared, closed, total>>

(* Mutant: the frame is as large as its variables.                          *)
CloseUnaligned ==
  /\ scanned = Len(declared) /\ ~closed
  /\ closed' = TRUE
  /\ total' = offset
  /\ UNCHANGED <<declared, scanned, offset, slots>>

(* The frame is rounded up to sixteen, for the stack to be as aligned as it *)
(* was before it.                                                           *)
CloseFrame ==
  /\ scanned = Len(declared) /\ ~closed
  /\ closed' = TRUE
  /\ total' = AlignUp(offset, 16)
  /\ UNCHANGED <<declared, scanned, offset, slots>>

FrameNext == PushVar \/ CloseFrame

FrameSpec == FrameInit /\ [][FrameNext]_frameVars
-----------------------------------------------------------------------------
FrameTypeOK ==
  /\ declared \in Seq(Declaration)
  /\ scanned \in 0..Len(declared)
  /\ offset \in Nat
  /\ slots \in [Names -> Slot]
  /\ closed \in BOOLEAN
  /\ total \in Nat

(* The bytes of two variables that have slots are apart, also when a slot   *)
(* was given up for a later declaration of the same name.                   *)
SlotsApart ==
  \A m, n \in Names :
    m # n /\ HasSlot(m) /\ HasSlot(n)
      => slots[m].at - slots[m].size >= slots[n].at \/ slots[n].at - slots[n].size >= slots[m].at

(* All of them are inside the frame, a multiple of sixteen in size: no      *)
(* push of the body reaches a variable.                                     *)
SlotsInFrame ==
  closed =>
    /\ total % 16 = 0
    /\ \A n \in Names : slots[n].size <= slots[n].at /\ slots[n].at <= total

(* A variable starts where its elements may: 8 bytes are enough for all.    *)
SlotsAligned ==
  \A k \in 1..scanned :
    LET d == declared[k]
    IN  (\A j \in (k + 1)..scanned : declared[j].name # d.name)
          => slots[d.name].at % Least(d.elem, 8) = 0

(* Where compute_frame puts the variables: two never share a byte, all are  *)
(* between the frame pointer and the stack pointer, aligned, whatever the   *)
(* order of scalars and arrays and however often a name is declared again.  *)
SlotsPlaced == SlotsApart /\ SlotsInFrame /\ SlotsAligned
=============================================================================
