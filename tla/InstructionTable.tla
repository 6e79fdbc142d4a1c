-------------------------- MODULE InstructionTable --------------------------
(***************************************************************************)
(* The descriptor table of the x86-64 target (hwm/tbl.cts): for each       *)
(* mnemonic the variants, in the order the encoder tries them.  A variant  *)
(* has the bytes of its opcode, the digit that fills the reg field of the  *)
(* ModR/M byte (NoDigit where an operand does), the rule that fixes the    *)
(* size of the operation, the way its immediate is written, and a slot for *)
(* each operand.  Only what the encoder reads is kept: requiresRexW and    *)
(* implicitRegFamily are never looked at when a variant is chosen.         *)
(***************************************************************************)
EXTENDS Integers, SequencesExt

Byte  == 1
Word  == 2
Dword == 4
Qword == 8
Sizes == {Byte, Word, Dword, Qword}
Wide  == {Word, Dword, Qword}

\* Operands as the encoder is given them: a register is its number in the
\* architecture, its width and whether it is one of ah, ch, dh, bh.
Register(n, s)  == [type |-> "Reg", size |-> s, num |-> n, high |-> FALSE]
HighByte(n)     == [type |-> "Reg", size |-> Byte, num |-> n, high |-> TRUE]
Segment(name)   == [type |-> "Sreg", size |-> Word, name |-> name]
Absent          == [type |-> "None"]

\* Encodings of a slot: the fields of ModR/M, the opcode itself, an
\* immediate, or nothing at all ("Implicit").
Slot(types, sizes, encoding) ==
  [types |-> types, sizes |-> sizes, encoding |-> encoding, is |-> Absent]
R(sizes)   == Slot({"Reg"}, sizes, "ModRM_Reg")
RM(sizes)  == Slot({"Reg", "Mem"}, sizes, "ModRM_RM")
O(sizes)   == Slot({"Reg"}, sizes, "OpcodeReg")
I(sizes)   == Slot({"Imm"}, sizes, "Immediate")
Implied(types, sizes, operand) ==
  [types |-> types, sizes |-> sizes, encoding |-> "Implicit", is |-> operand]

\* operationSizeMode: a size is one of the Explicit modes.
FromFirstRegMem == 0
MatchImplicit   == 16
NoDigit         == 8

Variant(opcode, slots, mode) ==
  [opcode |-> opcode, slots |-> slots, mode |-> mode, digit |-> NoDigit,
   immediate |-> "Standard", fixed |-> 0, matching |-> FALSE, noRex |-> FALSE]
Digit(d, v)    == [v EXCEPT !.digit = d]
Matching(v)    == [v EXCEPT !.matching = TRUE]
Fixed(s, v)    == [v EXCEPT !.immediate = "FixedSize", !.fixed = s]
Extended8(v)   == [v EXCEPT !.immediate = "SignExtendedByte", !.fixed = Byte]
NoRex(v)       == [v EXCEPT !.noRex = TRUE]

\* An immediate is at most a double word, except in mov r64, imm64.
ImmediateOf(s) == Min({s, Dword})

-----------------------------------------------------------------------------
(* The eight arithmetic instructions share one table; base is 8 * index.   *)

Arithmetic == <<"add", "or", "adc", "sbb", "and", "sub", "xor", "cmp">>

RegisterForms(base) ==
  << Matching(Variant(<<base>>,     <<RM({Byte}), R({Byte})>>, Byte)),
     Matching(Variant(<<base + 1>>, <<RM(Wide), R(Wide)>>, FromFirstRegMem)),
     Matching(Variant(<<base + 2>>, <<R({Byte}), RM({Byte})>>, Byte)),
     Matching(Variant(<<base + 3>>, <<R(Wide), RM(Wide)>>, FromFirstRegMem)) >>

\* Only the byte form names its register; the wide ones take any register of
\* the width.
AccumulatorForms(base) ==
  LET wide(s) == Fixed(ImmediateOf(s),
                   Variant(<<base + 5>>, <<Implied({"Reg"}, {s}, Absent),
                                           I({ImmediateOf(s)})>>, s))
  IN << Fixed(Byte, Variant(<<base + 4>>, <<Implied({"Reg"}, {Byte}, Register(0, Byte)),
                                            I({Byte})>>, MatchImplicit)),
        wide(Word), wide(Dword), wide(Qword) >>

ImmediateForms(index) ==
  LET full(opcode, s) == Digit(index, Fixed(ImmediateOf(s),
                           Variant(<<opcode>>, <<RM({s}), I({ImmediateOf(s)})>>, s)))
      short(s) == Digit(index, Extended8(
                    Variant(<<131>>, <<RM({s}), I({Byte})>>, s)))
  IN << full(128, Byte), full(129, Word), full(129, Dword), full(129, Qword),
        short(Word), short(Dword), short(Qword) >>

ArithmeticForms(index) ==
  RegisterForms(8 * index) \o AccumulatorForms(8 * index) \o ImmediateForms(index)

-----------------------------------------------------------------------------
(* Moves and extensions.                                                   *)

MovForms ==
  LET load(opcode, s)   == Fixed(s, Variant(<<opcode>>, <<O({s}), I({s})>>, s))
      store(opcode, s)  == Digit(0, Fixed(ImmediateOf(s),
                             Variant(<<opcode>>, <<RM({s}), I({ImmediateOf(s)})>>, s)))
  IN RegisterForms(136)
     \o << load(176, Byte), load(184, Word), load(184, Dword),
           store(199, Qword), load(184, Qword),
           store(198, Byte), store(199, Word), store(199, Dword) >>

LeaForms ==
  << Variant(<<141>>, <<R(Wide), Slot({"Mem"}, Sizes, "ModRM_RM")>>, FromFirstRegMem) >>

MovsxdForms ==
  << Matching(Variant(<<99>>, <<R({Dword}), RM({Dword})>>, FromFirstRegMem)),
     Variant(<<99>>, <<R({Qword}), RM({Dword})>>, FromFirstRegMem) >>

ExtendingForms(opcode) ==
  << Variant(<<15, opcode>>,     <<R(Wide), RM({Byte})>>, FromFirstRegMem),
     Variant(<<15, opcode + 1>>, <<R(Wide), RM({Word})>>, FromFirstRegMem) >>
MovsxForms == ExtendingForms(190)
MovzxForms == ExtendingForms(182)

-----------------------------------------------------------------------------
(* The stack.                                                              *)

SegmentForm(opcode, name) ==
  NoRex(Variant(<<15, opcode>>, <<Implied({"Sreg"}, {}, Segment(name))>>, Dword))

PushForms ==
  << Variant(<<80>>, <<O({Word, Qword})>>, FromFirstRegMem),
     Variant(<<104>>, <<I({Word, Dword})>>, Word),
     [Variant(<<106>>, <<I({Byte})>>, Byte) EXCEPT !.immediate = "SignExtendedByte"],
     Digit(6, Variant(<<255>>, <<RM(Wide)>>, FromFirstRegMem)),
     SegmentForm(160, "fs"), SegmentForm(168, "gs") >>

PopForms ==
  << Variant(<<88>>, <<O({Word, Qword})>>, FromFirstRegMem),
     Digit(0, Variant(<<143>>, <<RM(Wide)>>, FromFirstRegMem)),
     SegmentForm(161, "fs"), SegmentForm(169, "gs") >>

-----------------------------------------------------------------------------
(* Instructions of one operand, and imul, which also has two and three.    *)

StepForms(digit) ==
  LET form(opcode, s) == Digit(digit, Variant(<<opcode>>, <<RM({s})>>, FromFirstRegMem))
  IN << form(254, Byte), form(255, Word), form(255, Dword), form(255, Qword) >>
IncForms == StepForms(0)
DecForms == StepForms(1)

UnaryForms(digit) ==
  LET form(opcode, s) == Digit(digit, Variant(<<opcode>>, <<RM({s})>>, s))
  IN << form(246, Byte), form(247, Word), form(247, Dword), form(247, Qword) >>
NegForms  == UnaryForms(3)
MulForms  == UnaryForms(4)
DivForms  == UnaryForms(6)
IdivForms == UnaryForms(7)

ImulForms ==
  LET full(s) == Fixed(ImmediateOf(s),
                   Variant(<<105>>, <<R({s}), RM({s}), I({ImmediateOf(s)})>>, s))
  IN UnaryForms(5)
     \o << Matching(Variant(<<15, 175>>, <<R(Wide), RM(Wide)>>, FromFirstRegMem)),
           Extended8(Variant(<<107>>, <<R(Wide), RM(Wide), I({Byte})>>, FromFirstRegMem)),
           full(Word), full(Dword), full(Qword) >>

PlainOpcode ==
  [nop |-> 144, pushf |-> 156, popf |-> 157, hlt |-> 244,
   cmc |-> 245, clc |-> 248, stc |-> 249, cli |-> 250, sti |-> 251, cld |-> 252, std |-> 253]
PlainForms(mnemonic) == << Variant(<<PlainOpcode[mnemonic]>>, <<>>, FromFirstRegMem) >>

-----------------------------------------------------------------------------
OtherForms ==
  [mov |-> MovForms, lea |-> LeaForms, movsxd |-> MovsxdForms,
   movsx |-> MovsxForms, movzx |-> MovzxForms, push |-> PushForms, pop |-> PopForms,
   inc |-> IncForms, dec |-> DecForms, neg |-> NegForms, mul |-> MulForms,
   imul |-> ImulForms, div |-> DivForms, idiv |-> IdivForms]

ArithmeticSet ==
  [m \in Range(Arithmetic) |->
     ArithmeticForms((CHOOSE k \in DOMAIN Arithmetic : Arithmetic[k] = m) - 1)]

instructionSet == OtherForms @@ ArithmeticSet @@ [m \in DOMAIN PlainOpcode |-> PlainForms(m)]
=============================================================================
