------------------------------- MODULE Registers -------------------------------
(***************************************************************************)
(* The general purpose registers of the JIT's virtual hardware.  $rax,     *)
(* $eax, $ax, $ah and $al are typed arrays of their own; every setter      *)
(* writes all of them, so that they look like one register.  A group is a  *)
(* record of the arrays: q, d, w, l and, for rax..rdx, h.                  *)
(*                                                                         *)
(* Byte stands for 2^8: a word is Byte^2, a double word Byte^4, a quad     *)
(* word Byte^8, as in the code.                                            *)
(***************************************************************************)
EXTENDS Integers

CONSTANT Byte

\* A byte has at most eight bits.
ASSUME ByteAssumption == Byte \in {2, 4, 8, 16, 32, 64, 128, 256}

Word  == Byte * Byte
DWord == Word * Word
QWord == DWord * DWord

ToInt32(n) == LET m == n % DWord IN IF 2 * m >= DWord THEN m - DWord ELSE m

\* a | b of naturals, bit by bit: nothing here is wider than the arrays of 64 bits.
OrBits[n \in 0..64] ==
  [a \in Nat |-> [b \in Nat |->
    IF n = 0 THEN 0
    ELSE 2 * OrBits[n - 1][a \div 2][b \div 2] + (IF (a % 2) + (b % 2) > 0 THEN 1 ELSE 0)]]

Or(a, b) == OrBits[64][a][b]

\* (old & ~mask) | value, kept in an array of size cells: value is not masked, so
\* what is above the mask leaks into the bits to be saved.  -1 is all ones.
Merge(old, mask, value, size) ==
  IF value < 0 THEN value % size ELSE Or(old - (old % mask), value) % size

NewGroup(fields) == [f \in fields |-> 0]

\* The arrays named in new take their new value, those the group lacks are skipped.
Update(g, new) == [f \in DOMAIN g |-> IF f \in DOMAIN new THEN new[f] ELSE g[f]]

\* set_register_$eax: the group of a 32-bit name
SetD(g, v) ==
  Update(g, [q |-> Merge(g.q, DWord, v, QWord), d |-> v % DWord, w |-> v % Word,
             h |-> (v % Word) \div Byte, l |-> v % Byte])

\* Mutant: the setter of a 16-bit name leaves the 64-bit array alone.
SetWNarrow(g, v) ==
  Update(g, [d |-> Merge(g.d, Word, v, DWord), w |-> v % Word,
             h |-> (v % Word) \div Byte, l |-> v % Byte])

\* set_register_$ax, set_register_$sp: the group of a 16-bit name
SetW(g, v) ==
  Update(g, [q |-> Merge(g.q, Word, v, QWord), d |-> Merge(g.d, Word, v, DWord),
             w |-> v % Word, h |-> (v % Word) \div Byte, l |-> v % Byte])

\* The group of a low byte: $ah is not written.
SetL(g, v) ==
  Update(g, [q |-> Merge(g.q, Byte, v, QWord), d |-> Merge(g.d, Byte, v, DWord),
             w |-> Merge(g.w, Byte, v, Word), l |-> v % Byte])

\* The group of a high byte: value << 8 over the bits of the old high byte.
SetH(g, v) ==
  LET over(old, size) ==
        Or(old - (old % Word) + (old % Byte), v * Byte) % size
  IN Update(g, [q |-> over(g.q, QWord), d |-> over(g.d, DWord), w |-> over(g.w, Word),
                h |-> v % Byte])

\* One register seen through its names: the narrow ones are the low bits of the wide.
Coherent(g) ==
  /\ g.d = g.q % DWord /\ g.w = g.d % Word /\ g.l = g.w % Byte
  /\ "h" \in DOMAIN g => g.h = g.w \div Byte
================================================================================
