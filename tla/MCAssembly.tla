---------------------------- MODULE MCAssembly ----------------------------
(* Operands chosen for the boundaries of the encoding: extended and special *)
(* registers in every field, each width, displacements and immediates on    *)
(* both sides of a byte, a word and a double word.                          *)
EXTENDS Assembly

MCLocals   == [b |-> [size |-> 1, rbp_offset |-> -1], d |-> [size |-> 4, rbp_offset |-> -200],
               q |-> [size |-> 8, rbp_offset |-> -16]]
MCvartable == [g |-> 8, h |-> 4]

Regs == {RegisterOperand(r) : r \in
           {Register(n, Qword) : n \in {0, 4, 9}} \union {Register(n, Dword) : n \in {0, 1, 13}}
           \union {Register(2, Word), Register(1, Byte), Register(6, Byte), Register(8, Byte), HighByte(4)}}
Imms == {ImmediateOperand(v) : v \in
           {Number(v) : v \in {0, -5, 127, 200, 300, 70000}} \union
           {[hi |-> 128, lo |-> 0], [hi |-> 512, lo |-> 1]}}
Vars == {ValueOperand(x) : x \in DOMAIN MCLocals \union DOMAIN MCvartable}
          \union {AddressOperand("q"), AddressOperand("g")}
Mems == {MemoryOperand(Register(n, Qword)) : n \in {3, 4, 5, 12, 13}}
          \union {MemoryOperand(Register(0, Dword))}
Sibs == {SibOperand(Register(b, Qword), Register(i, Qword), s, d) :
           b \in {0, 5, 9, 13}, i \in {1, 4, 10, 11, 12}, s \in {1, 2, 4, 8}, d \in {0, 8, 500}}
          \union {SibOperand(Register(0, Dword), Register(1, z), 1, 0) : z \in {Dword, Qword}}
AnyOf == Regs \union Imms \union Vars \union Mems

Pairs(ops, srcs, dsts) == {<<op, <<s, d>>>> : op \in ops, s \in srcs, d \in dsts}

Wanted ==
  Pairs({"add", "mov", "cmp", "lea", "movzx", "movsxd", "imul"}, AnyOf, Regs)
  \union Pairs({"sub", "mov"}, Regs \union Imms, Vars \union Mems)
  \union Pairs({"mov", "lea"}, Sibs, {RegisterOperand(Register(n, Qword)) : n \in {0, 9}})
  \union {<<op, <<o>>>> : op \in {"push", "pop", "inc", "neg", "idiv"}, o \in AnyOf \union {SegmentOperand("fs")}}
  \union {<<"imul", <<i, s, d>>>> : i \in Imms, s \in Regs, d \in Regs}
  \union {<<op, <<>>>> : op \in {"nop", "hlt", "std", "jmp"}}

MCSyscallArguments ==
  {<<>>} \union {<<a, b>> : a \in Vars \union {ImmediateOperand(Number(1))}, b \in Vars \union Regs}
MCCallees == {ValueOperand("f"), RegisterOperand(Register(0, Qword))}
===========================================================================
