------------------------------ MODULE Decoder ------------------------------
(***************************************************************************)
(* The processor's side: what the instruction at a place of a 64-bit code  *)
(* segment means, read from its bytes by the architecture's rules for      *)
(* prefixes, opcode, ModR/M, SIB, displacement and immediate.  It knows    *)
(* nothing of the table of the encoder and is the reference the encoder is *)
(* checked against.                                                        *)
(***************************************************************************)
EXTENDS Encoder

RipBase == [type |-> "Rip"]

\* The byte at p of a text; what follows the text is taken to be nops.
ByteAt(text, p) == IF p <= Len(text) THEN text[p] ELSE 144

\* The signed number of n bytes at p; its upper 16 bits repeat its sign.
NumberAt(text, p, n) ==
  LET sign  == IF ByteAt(text, p + n - 1) < 128 THEN 0 ELSE 255
      b(i)  == IF i < n THEN ByteAt(text, p + i) ELSE sign
      top   == IF b(5) < 128 THEN b(5) ELSE b(5) - 256
  IN [hi |-> b(3) + b(4) * 256 + top * 65536, lo |-> b(0) + b(1) * 256 + b(2) * 65536]

-----------------------------------------------------------------------------
(* The opcodes: name and operands.  An operand is where it is found and    *)
(* its size; s is the size of the operation, p that of a push or pop.      *)

Shape(op, args) == [op |-> op, args |-> args]
At(where, size) == [where |-> where, size |-> size]

GroupF6 == <<"test", "test", "not", "neg", "mul", "imul", "div", "idiv">>

ArithmeticShape(b, s) ==
  Shape(Arithmetic[b \div 8 + 1],
        CASE b % 8 = 0 -> <<At("rm", 1), At("reg", 1)>>
          [] b % 8 = 1 -> <<At("rm", s), At("reg", s)>>
          [] b % 8 = 2 -> <<At("reg", 1), At("rm", 1)>>
          [] b % 8 = 3 -> <<At("reg", s), At("rm", s)>>
          [] b % 8 = 4 -> <<At("acc", 1), At("imm", 1)>>
          [] b % 8 = 5 -> <<At("acc", s), At("imm", Min({s, 4}))>>
          [] OTHER -> <<>>)

TwoByteShape(b, s) ==
  CASE b \in {182, 183} -> Shape("movzx", <<At("reg", s), At("rm", b - 181)>>)
    [] b \in {190, 191} -> Shape("movsx", <<At("reg", s), At("rm", b - 189)>>)
    [] b = 175 -> Shape("imul", <<At("reg", s), At("rm", s)>>)
    [] b \in {160, 168} -> Shape("push", <<At(IF b = 160 THEN "fs" ELSE "gs", 2)>>)
    [] b \in {161, 169} -> Shape("pop",  <<At(IF b = 161 THEN "fs" ELSE "gs", 2)>>)
    [] b = 5 -> Shape("syscall", <<>>)
    [] OTHER -> Shape("invalid", <<>>)

OneByteShape(b, digit, s, p) ==
  LET z == Min({s, 4})
  IN CASE b < 64 /\ b % 8 < 6 -> ArithmeticShape(b, s)
       [] b = 128 -> Shape(Arithmetic[digit + 1], <<At("rm", 1), At("imm", 1)>>)
       [] b = 129 -> Shape(Arithmetic[digit + 1], <<At("rm", s), At("imm", z)>>)
       [] b = 131 -> Shape(Arithmetic[digit + 1], <<At("rm", s), At("imm", 1)>>)
       [] b = 136 -> Shape("mov", <<At("rm", 1), At("reg", 1)>>)
       [] b = 137 -> Shape("mov", <<At("rm", s), At("reg", s)>>)
       [] b = 138 -> Shape("mov", <<At("reg", 1), At("rm", 1)>>)
       [] b = 139 -> Shape("mov", <<At("reg", s), At("rm", s)>>)
       [] b \in 176 .. 183 -> Shape("mov", <<At("opc", 1), At("imm", 1)>>)
       [] b \in 184 .. 191 -> Shape("mov", <<At("opc", s), At("imm", s)>>)
       [] b = 198 /\ digit = 0 -> Shape("mov", <<At("rm", 1), At("imm", 1)>>)
       [] b = 199 /\ digit = 0 -> Shape("mov", <<At("rm", s), At("imm", z)>>)
       [] b = 141 -> Shape("lea", <<At("reg", s), At("rm", 0)>>)
       [] b = 99  -> Shape("movsxd", <<At("reg", s), At("rm", 4)>>)
       [] b \in 80 .. 87 -> Shape("push", <<At("opc", p)>>)
       [] b \in 88 .. 95 -> Shape("pop", <<At("opc", p)>>)
       [] b = 104 -> Shape("push", <<At("imm", IF p = 2 THEN 2 ELSE 4)>>)
       [] b = 106 -> Shape("push", <<At("imm", 1)>>)
       [] b = 255 /\ digit = 6 -> Shape("push", <<At("rm", p)>>)
       [] b = 143 /\ digit = 0 -> Shape("pop", <<At("rm", p)>>)
       [] b \in {254, 255} /\ digit < 2 ->
            Shape(IF digit = 0 THEN "inc" ELSE "dec", <<At("rm", IF b = 254 THEN 1 ELSE s)>>)
       [] b \in {246, 247} -> Shape(GroupF6[digit + 1], <<At("rm", IF b = 246 THEN 1 ELSE s)>>)
       [] b = 107 -> Shape("imul", <<At("reg", s), At("rm", s), At("imm", 1)>>)
       [] b = 105 -> Shape("imul", <<At("reg", s), At("rm", s), At("imm", z)>>)
       [] b = 232 -> Shape("call", <<At("imm", 4)>>)
       [] b \in Range(PlainOpcode) ->
            Shape(CHOOSE m \in DOMAIN PlainOpcode : PlainOpcode[m] = b, <<>>)
       [] OTHER -> Shape("invalid", <<>>)

-----------------------------------------------------------------------------
(* Decoding, in the order of the bytes: prefixes, opcode, addressing,      *)
(* operands.  Each stage is given what the stages before it have found.    *)

isLegacy(b) == b \in {102, 103}
OpcodeStart(text, start) ==
  start + Cardinality({k \in 0 .. 1 : \A j \in 0 .. k : isLegacy(ByteAt(text, start + j))})

\* r is the place of the REX prefix, if there is one; R, X and B are what they
\* add to a field.
PrefixesAt(text, start, r, b) ==
  LET rex(w)      == b \in 64 .. 79 /\ (b \div w) % 2 = 1
      before(x)   == \E q \in start .. r - 1 : ByteAt(text, q) = x
  IN [any |-> b \in 64 .. 79, o |-> IF b \in 64 .. 79 THEN r + 1 ELSE r,
      R |-> IF rex(4) THEN 8 ELSE 0, X |-> IF rex(2) THEN 8 ELSE 0, B |-> IF rex(1) THEN 8 ELSE 0,
      size    |-> IF rex(8) THEN 8 ELSE IF before(102) THEN 2 ELSE 4,
      stack   |-> IF before(102) /\ ~rex(8) THEN 2 ELSE 8,
      address |-> IF before(103) THEN 4 ELSE 8]

\* m is the place of ModR/M.
FormAt(text, prefix, two) ==
  LET m == prefix.o + (IF two THEN 2 ELSE 1)
      b == ByteAt(text, m - 1)
  IN [m |-> m, opcode |-> b,
      shape |-> IF two THEN TwoByteShape(b, prefix.size)
                ELSE OneByteShape(b, (ByteAt(text, m) \div 8) % 8, prefix.size, prefix.stack)]

AddressingAt(m, modrm, sib, isUsed) ==
  LET mod      == modrm \div 64
      hasSIB   == isUsed /\ mod # 3 /\ modrm % 8 = 4
      baseless == mod = 0 /\ (IF hasSIB THEN sib ELSE modrm) % 8 = 5
  IN [mod |-> mod, reg |-> (modrm \div 8) % 8, rm |-> modrm % 8,
      hasSIB |-> hasSIB, baseless |-> baseless,
      scale |-> 2 ^ (sib \div 64), index |-> (sib \div 8) % 8,
      base  |-> (IF hasSIB THEN sib ELSE modrm) % 8,
      disp  |-> IF ~isUsed THEN m ELSE IF hasSIB THEN m + 2 ELSE m + 1,
      dispSize |-> IF ~isUsed \/ mod = 3 THEN 0
                   ELSE IF baseless \/ mod = 2 THEN 4 ELSE IF mod = 1 THEN 1 ELSE 0]

GeneralRegister(n, size, hasRex) ==
  IF size = 1 /\ ~hasRex /\ n \in 4 .. 7 THEN HighByte(n) ELSE Register(n, size)

MemoryOf(base, index, scale, displacement, size) ==
  [type |-> "Mem", base |-> base, index |-> index,
   scale |-> IF index = NoRegister THEN 1 ELSE scale,
   displacement |-> displacement, size |-> size]

MemoryAt(text, prefix, a, size) ==
  MemoryOf(IF ~a.baseless THEN Register(a.base + prefix.B, prefix.address)
           ELSE IF a.hasSIB THEN NoRegister ELSE RipBase,
           IF a.hasSIB /\ a.index + prefix.X # 4
           THEN Register(a.index + prefix.X, prefix.address) ELSE NoRegister,
           a.scale,
           IF a.dispSize = 0 THEN Number(0) ELSE NumberAt(text, a.disp, a.dispSize),
           size)

\* An immediate is its bytes at the size of the operation.
OperandAt(text, prefix, form, a, arg, immSize) ==
  CASE arg.where = "reg" -> GeneralRegister(a.reg + prefix.R, arg.size, prefix.any)
    [] arg.where = "rm" /\ a.mod = 3 -> GeneralRegister(a.rm + prefix.B, arg.size, prefix.any)
    [] arg.where = "rm" /\ a.mod # 3 -> MemoryAt(text, prefix, a, arg.size)
    [] arg.where = "opc" -> GeneralRegister((form.opcode % 8) + prefix.B, arg.size, prefix.any)
    [] arg.where = "acc" -> Register(0, arg.size)
    [] arg.where = "imm" ->
         [type |-> "Imm", bytes |-> LittleEndian(NumberAt(text, a.disp + a.dispSize, arg.size), immSize)]
    [] OTHER -> Segment(arg.where)

Whole(text, start, prefix, form, a) ==
  LET args == form.shape.args
      immediates == SelectSeq(args, LAMBDA arg : arg.where = "imm")
  IN [op |-> form.shape.op,
      args |-> [k \in DOMAIN args |-> OperandAt(text, prefix, form, a, args[k],
                  IF form.shape.op \in {"push", "call"} THEN prefix.stack ELSE args[1].size)],
      length |-> a.disp + a.dispSize - start
                 + (IF immediates = <<>> THEN 0 ELSE Head(immediates).size),
      ripField |-> IF a.baseless /\ a.dispSize = 4 /\ ~a.hasSIB THEN a.disp ELSE 0]

WithForm(text, start, prefix, form) ==
  Whole(text, start, prefix, form,
        AddressingAt(form.m, ByteAt(text, form.m), ByteAt(text, form.m + 1),
                     \E arg \in Range(form.shape.args) : arg.where \in {"rm", "reg"}))

WithPrefixes(text, start, prefix) ==
  WithForm(text, start, prefix, FormAt(text, prefix, ByteAt(text, prefix.o) = 15))

WithStart(text, start, r) ==
  WithPrefixes(text, start, PrefixesAt(text, start, r, ByteAt(text, r)))

\* The instruction at a place of the text, its length and the place of its
\* displacement if that is relative to rip.
Decode(text, start) == WithStart(text, start, OpcodeStart(text, start))
=============================================================================
