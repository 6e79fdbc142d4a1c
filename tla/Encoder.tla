------------------------------ MODULE Encoder ------------------------------
(***************************************************************************)
(* The encoder of x86-64 instructions (hwm/main.cts): compile(mnemonic,    *)
(* operands) picks a variant of the table and appends its bytes.  It is a  *)
(* pure function here; the modules that drive it keep the bytes.           *)
(*                                                                         *)
(* A number is [hi, lo] with the value hi * 2^24 + lo and 0 <= lo < 2^24,  *)
(* so that the widths the code asks about (8, 16, 32 and 64 bits) fit the  *)
(* integers of the checker.                                                *)
(***************************************************************************)
EXTENDS InstructionTable, Bitwise

Number(n)   == [hi |-> n \div 16777216, lo |-> n % 16777216]
Small(v)    == v.hi \in {-1, 0}
Value(v)    == v.hi * 16777216 + v.lo
Between(v, a, b) == Small(v) /\ Value(v) \in a .. b

isSigned8Bit(v)    == Between(v, -128, 127)
isUnsigned8Bit(v)  == Between(v, 0, 255)
isSigned16Bit(v)   == Between(v, -32768, 32767)
isUnsigned16Bit(v) == Between(v, 0, 65535)
isSigned32Bit(v)   == v.hi \in -128 .. 127
isUnsigned32Bit(v) == v.hi \in 0 .. 255

\* The n bytes of v, the low one first.
RECURSIVE LittleEndian(_, _)
LittleEndian(v, n) ==
  IF n = 0 THEN <<>>
  ELSE <<v.lo % 256>> \o
       LittleEndian([hi |-> v.hi \div 256, lo |-> v.lo \div 256 + (v.hi % 256) * 65536], n - 1)

-----------------------------------------------------------------------------
(* Operands.                                                               *)

Code(r)        == r.num % 8
isExtended(r)  == r.num >= 8
requiresRex(r) == isExtended(r) \/ (r.size = Byte /\ r.num \in 4 .. 7 /\ ~r.high)

SizeOfImmediate(v) ==
  IF v.hi \notin -128 .. 255 THEN Qword
  ELSE IF isUnsigned8Bit(v) \/ isSigned8Bit(v) THEN Byte
  ELSE IF isUnsigned16Bit(v) \/ isSigned16Bit(v) THEN Word
  ELSE Dword

parseImm(v) == [type |-> "Imm", size |-> SizeOfImmediate(v), value |-> v]

NoRegister == [type |-> "None", size |-> 0]
parseMem(size, base, index, scale, displacement, ripRelative) ==
  [type |-> "Mem", size |-> size, base |-> base, index |-> index, scale |-> scale,
   displacement |-> displacement, ripRelative |-> ripRelative]

-----------------------------------------------------------------------------
(* Choice of the variant.                                                  *)

IndexOfFirst(s, Test(_)) ==
  LET found == {k \in DOMAIN s : Test(k)} IN IF found = {} THEN 0 ELSE Min(found)

\* Called twice, once while the variant is tried and once when it is chosen.
OperationSize(variant, operands) ==
  LET sized == IndexOfFirst(operands, LAMBDA k :
                 operands[k].type # "Imm" /\ variant.slots[k].encoding # "Implicit")
  IN CASE variant.mode \in Sizes         -> variant.mode
       [] variant.mode = MatchImplicit   -> variant.slots[1].is.size
       [] sized # 0                      -> operands[sized].size
       [] OTHER                          -> Dword

ImmediateFits(variant, slot, operand) ==
  CASE variant.immediate = "SignExtendedByte" ->
         operand.size = Byte \/ isSigned8Bit(operand.value)
    [] variant.immediate = "FixedSize" -> operand.size <= variant.fixed
    [] OTHER -> operand.size \in slot.sizes

SlotAccepts(variant, slot, operand) ==
  /\ operand.type \in slot.types
  /\ CASE slot.encoding = "Implicit" ->
            /\ slot.is # Absent => operand = slot.is
            /\ slot.sizes # {} => operand.size \in slot.sizes
       [] slot.encoding # "Implicit" /\ operand.type = "Imm" ->
            ImmediateFits(variant, slot, operand)
       [] OTHER ->
            /\ operand.size \in slot.sizes
            /\ variant.mode \in Sizes => operand.size = variant.mode

Accepts(variant, operands) ==
  /\ Len(variant.slots) = Len(operands)
  /\ \A k \in DOMAIN operands : SlotAccepts(variant, variant.slots[k], operands[k])
  /\ variant.matching =>
       \A j, k \in DOMAIN operands :
         {operands[j].type, operands[k].type} \subseteq {"Reg", "Mem"}
           => operands[j].size = operands[k].size

Candidates(mnemonic, operands) ==
  SelectSeq(instructionSet[mnemonic], LAMBDA variant : Accepts(variant, operands))

\* The candidates the rules of disambiguation prefer, the best one first.
Preferred(candidates, operands) ==
  IF candidates = <<>> THEN <<>> ELSE
  LET imm      == IndexOfFirst(operands, LAMBDA k : operands[k].type = "Imm")
      implicit == IndexOfFirst(operands, LAMBDA k :
                    Head(candidates).slots[k].encoding = "Implicit")
      Short(variant)  == imm # 0 /\ variant.immediate = "SignExtendedByte"
                                 /\ isSigned8Bit(operands[imm].value)
      Exact(variant)  == imm # 0 /\ variant.immediate = "FixedSize"
                                 /\ variant.fixed = operands[imm].size
      Named(variant)  == implicit # 0 /\ \E slot \in Range(variant.slots) :
                           slot.encoding = "Implicit" /\ slot.is = operands[implicit]
  IN SelectSeq(candidates, Short) \o SelectSeq(candidates, Exact) \o SelectSeq(candidates, Named)

findMatchingVariant(candidates, preferred) ==
  IF Len(candidates) = 1 THEN Head(candidates) ELSE Head(preferred \o candidates)

isAmbiguous(candidates, preferred) == Len(candidates) > 1 /\ preferred = <<>>

-----------------------------------------------------------------------------
(* Prefixes.                                                               *)

RegistersOf(operand) ==
  CASE operand.type = "Reg" -> {operand}
    [] operand.type = "Mem" -> {operand.base, operand.index} \ {NoRegister}
    [] OTHER -> {}

calculateRex(variant, operands, size) ==
  LET isReg(k) == operands[k].type = "Reg" /\ isExtended(operands[k])
      inMem(field(_)) == \E operand \in Range(operands) :
                 operand.type = "Mem" /\ field(operand) # NoRegister /\ isExtended(field(operand))
  IN [W |-> size = Qword,
      R |-> \E k \in DOMAIN operands : isReg(k) /\ variant.slots[k].encoding = "ModRM_Reg",
      X |-> inMem(LAMBDA m : m.index),
      B |-> \/ inMem(LAMBDA m : m.base)
            \/ \E k \in DOMAIN operands :
                 isReg(k) /\ variant.slots[k].encoding \in {"ModRM_RM", "OpcodeReg"},
      needed |-> size = Qword \/ \E operand \in Range(operands) :
                   \E r \in RegistersOf(operand) : requiresRex(r)]

RexBytes(rex) ==
  LET bit(b, weight) == IF b THEN weight ELSE 0
  IN IF rex.needed
     THEN <<64 + bit(rex.W, 8) + bit(rex.R, 4) + bit(rex.X, 2) + bit(rex.B, 1)>>
     ELSE <<>>

PrefixBytes(operands, size, rex) ==
  LET narrow == \E operand \in Range(operands) : operand.type = "Mem" /\
                  \E r \in RegistersOf(operand) : r.size = Dword
  IN (IF narrow THEN <<103>> ELSE <<>>) \o (IF size = Word THEN <<102>> ELSE <<>>)
     \o RexBytes(rex)

\* The register is added to an opcode of one byte only.
Opcode(variant, operands) ==
  LET coded == IndexOfFirst(operands, LAMBDA k : variant.slots[k].encoding = "OpcodeReg")
  IN IF Len(variant.opcode) > 1 \/ coded = 0 THEN variant.opcode
     ELSE <<variant.opcode[1] + Code(operands[coded])>>

-----------------------------------------------------------------------------
(* ModR/M, SIB and displacement.                                           *)

hasSib(m) == m.index # NoRegister \/ (m.base # NoRegister /\ Code(m.base) = 4)

\* Without the rule that rbp and r13 always have a displacement; for a mutant.
ModNoRule(m) ==
  IF m.displacement = 0 THEN 0
  ELSE IF m.base # NoRegister /\ m.displacement \in -128 .. 127 THEN 1 ELSE 2

Mod(m) ==
  CASE m.base = NoRegister -> IF m.index # NoRegister /\ m.displacement # 0 THEN 2 ELSE 0
    [] m.base # NoRegister /\ m.displacement # 0 ->
         IF m.displacement \in -128 .. 127 THEN 1 ELSE 2
    [] m.base # NoRegister /\ m.displacement = 0 -> IF Code(m.base) = 5 THEN 1 ELSE 0

Rm(m) == IF hasSib(m) THEN 4 ELSE IF m.base = NoRegister THEN 5 ELSE Code(m.base)

\* Eight is added to a field of three bits when REX extends it, and the
\* fields are joined with a bitwise or.
ExtendedField(code, extended) == IF extended /\ code < 4 THEN code + 8 ELSE code

SibByte(m, rex) ==
  LET scale == CASE m.scale = 1 -> 0 [] m.scale = 2 -> 1 [] m.scale = 4 -> 2 [] m.scale = 8 -> 3
      index == ExtendedField(IF m.index = NoRegister THEN 4 ELSE Code(m.index), rex.X)
      base  == IF m.base = NoRegister THEN 5 + (IF rex.B THEN 8 ELSE 0)
               ELSE ExtendedField(Code(m.base), rex.B)
  IN (((scale * 64) | (index * 8)) | base) % 256

DisplacementBytes(m) ==
  LET size == CASE Mod(m) = 1 -> 1
                [] Mod(m) = 2 \/ (Mod(m) = 0 /\ Rm(m) = 5) -> 4
                [] OTHER -> 0
  IN LittleEndian(Number(m.displacement), size)

needModRM(variant) == \E slot \in Range(variant.slots) : slot.encoding \in {"ModRM_Reg", "ModRM_RM"}

encode_modrm_sib_disp(variant, operands, rex) ==
  LET at(encoding) == IndexOfFirst(operands, LAMBDA k : variant.slots[k].encoding = encoding)
      reg == IF variant.digit # NoDigit THEN variant.digit ELSE Code(operands[at("ModRM_Reg")])
      rm  == operands[at("ModRM_RM")]
  IN IF rm.type = "Reg"
     THEN <<192 + reg * 8 + Code(rm)>>
     ELSE <<Mod(rm) * 64 + reg * 8 + Rm(rm)>>
          \o (IF hasSib(rm) THEN <<SibByte(rm, rex)>> ELSE <<>>)
          \o DisplacementBytes(rm)

-----------------------------------------------------------------------------
(* Immediates.  Buffer refuses a number out of the range of the write.     *)

EncodedSize(variant, operand) ==
  CASE variant.immediate = "SignExtendedByte" -> Byte
    [] variant.immediate = "FixedSize"        -> variant.fixed
    [] OTHER                                  -> operand.size

Writes(v, size) ==
  CASE size = Byte  -> isSigned8Bit(v)
    [] size = Word  -> isUnsigned16Bit(v)
    [] size = Dword -> isSigned32Bit(v)
    [] OTHER        -> TRUE

-----------------------------------------------------------------------------
(* compile: the bytes appended, the messages pushed on the journal, and    *)
(* whether the call threw, which ends the program.                         *)

Result(bytes, journal) == [bytes |-> bytes, journal |-> journal, thrown |-> FALSE]

HighByteMisused(operands, size) ==
  \E k \in DOMAIN operands :
    /\ operands[k].type = "Reg" /\ operands[k].high
    /\ \/ size # Byte
       \/ \E j \in 1 .. k - 1 : \E r \in RegistersOf(operands[j]) : requiresRex(r)

Encode(variant, operands, size, rex, imm, width) ==
  [bytes |-> PrefixBytes(operands, size, rex) \o Opcode(variant, operands)
             \o (IF needModRM(variant)
                 THEN encode_modrm_sib_disp(variant, operands, rex) ELSE <<>>)
             \o (IF imm = 0 THEN <<>> ELSE LittleEndian(operands[imm].value, width)),
   journal |-> (IF HighByteMisused(operands, size) THEN {"high byte"} ELSE {})
               \union (IF variant.immediate = "SignExtendedByte"
                             /\ ~isSigned8Bit(operands[imm].value)
                       THEN {"immediate"} ELSE {}),
   thrown |-> imm # 0 /\ ~Writes(operands[imm].value, width)]

EncodeVariant(variant, operands, size, imm) ==
  Encode(variant, operands, size, calculateRex(variant, operands, size), imm,
         IF imm = 0 THEN 0 ELSE EncodedSize(variant, operands[imm]))

EncodeChosen(variant, operands) ==
  EncodeVariant(variant, operands, OperationSize(variant, operands),
    IndexOfFirst(operands, LAMBDA k : variant.slots[k].encoding = "Immediate"))

EncodeBest(candidates, preferred, operands) ==
  IF candidates = <<>> THEN Result(<<>>, {"no variant"})
  ELSE LET code == EncodeChosen(findMatchingVariant(candidates, preferred), operands)
       IN IF isAmbiguous(candidates, preferred)
          THEN [code EXCEPT !.journal = @ \union {"ambiguous"}]
          ELSE code

EncodeAmong(candidates, operands) ==
  EncodeBest(candidates, Preferred(candidates, operands), operands)

\* An operand that is null (a segment register given to parseReg) throws as
\* soon as a variant looks at its type.
ReachesNull(variant, operands) ==
  /\ Len(variant.slots) = Len(operands)
  /\ \E k \in DOMAIN operands :
       /\ operands[k] = Absent
       /\ \/ \A j \in 1 .. k - 1 : SlotAccepts(variant, variant.slots[j], operands[j])
          \/ /\ variant.mode = FromFirstRegMem
             /\ \A j \in 1 .. k - 1 : operands[j].type = "Imm"

compile(mnemonic, operands) ==
  IF mnemonic \notin DOMAIN instructionSet
  THEN Result(<<>>, {"unknown mnemonic"})
  ELSE IF \E variant \in Range(instructionSet[mnemonic]) : ReachesNull(variant, operands)
  THEN [Result(<<>>, {}) EXCEPT !.thrown = TRUE]
  ELSE EncodeAmong(Candidates(mnemonic, operands), operands)
=============================================================================
