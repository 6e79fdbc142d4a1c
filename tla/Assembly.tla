------------------------------ MODULE Assembly ------------------------------
(***************************************************************************)
(* Instructions written in the source, from their parsed operands to the   *)
(* bytes and relocations of the function they stand in: the generic        *)
(* instruction, @syscall and @call of the Raptor driver and of the older   *)
(* compiler driver, over the encoder.  A function is a text of bytes, the  *)
(* relocations recorded in it and, for the properties, a log of what was   *)
(* asked of the encoder and where the answer went.                         *)
(***************************************************************************)
EXTENDS Decoder

CONSTANTS Locals,          \* local variables: name -> [size, rbp_offset]
          vartable,        \* variables of the data sections: name -> typeSize
          Instructions,    \* the <<mnemonic, operands>> a statement may hold
          SyscallArguments,\* the tuples of operands of @syscall
          Callees,         \* operands of @call
          MaxStatements    \* bound on the statements of the function

VARIABLES driver,    \* "raptor" or "compiler", which driver runs
          pending,   \* calls of compile the statement still has to make
          text,      \* bytes emitted so far
          relocs,    \* set of [offset, symbol, emitted]
          log,       \* sequence of [op, args, at, length]
          journal,   \* messages of the encoder, printed when all is written
          ended      \* the program ended with an exception

vars == <<driver, pending, text, relocs, log, journal, ended>>

-----------------------------------------------------------------------------
(* Operands of the source, after OperandParser.                            *)

RegisterOperand(reg)      == [kind |-> "register", reg |-> reg]
SegmentOperand(name)      == [kind |-> "segment_register", name |-> name]
ImmediateOperand(n)       == [kind |-> "immediate", value |-> n]
ValueOperand(name)        == [kind |-> "variable_value", name |-> name]
AddressOperand(name)      == [kind |-> "variable_address", name |-> name]
MemoryOperand(base)       == [kind |-> "memory_register", base |-> base]
SibOperand(base, index, scale, displacement) ==
  [kind |-> "memory_sib", base |-> base, index |-> index, scale |-> scale,
   displacement |-> displacement]

isSymbol(o) == o.kind \in {"variable_value", "variable_address"}
isGlobal(o) == isSymbol(o) /\ o.name \notin DOMAIN Locals

FramePointer == Register(5, Qword)
OnFrame(size, offset) == parseMem(size, FramePointer, NoRegister, 1, offset, FALSE)
OnRip(size)           == parseMem(size, NoRegister, NoRegister, 1, 0, TRUE)

\* A segment register is looked up among the general ones, which gives null.
operand_to_hwm(o) ==
  CASE o.kind = "register"         -> o.reg
    [] o.kind = "segment_register" -> Absent
    [] o.kind = "immediate"        -> parseImm(o.value)
    [] isGlobal(o)                 ->
         OnRip(IF o.kind = "variable_value" /\ o.name \in DOMAIN vartable
               THEN vartable[o.name] ELSE Qword)
    [] isSymbol(o) /\ ~isGlobal(o) ->
         OnFrame(IF o.kind = "variable_value" THEN Locals[o.name].size ELSE Qword,
                 Locals[o.name].rbp_offset)
    [] o.kind = "memory_register"  -> parseMem(Qword, o.base, NoRegister, 1, 0, FALSE)
    [] o.kind = "memory_sib"       ->
         parseMem(Qword, o.base, o.index, o.scale, o.displacement, FALSE)

-----------------------------------------------------------------------------
(* The calls a statement makes.  Each clears the source of the encoder,    *)
(* compiles one instruction and records a relocation per symbol where four *)
(* zero bytes are found; where there are none, "start" and "tail" say      *)
(* where it goes instead, and "must" throws.                               *)

Compile(mnemonic, operands, symbols, otherwise) ==
  [op |-> mnemonic, args |-> operands, symbols |-> symbols, otherwise |-> otherwise]

\* Code written without the encoder.
syscallCode == <<15, 5>>
callCode    == <<232, 0, 0, 0, 0>>
Syscall     == Compile("@syscall", <<>>, {}, "start")
DirectCall(name) == Compile("@call", <<parseImm(Number(0))>>, {name}, "start")

SymbolsOf(operands, Test(_)) == {o.name : o \in {x \in Range(operands) : Test(x)}}

-----------------------------------------------------------------------------
(* The Raptor driver.                                                      *)

\* The operands are written source first and compiled in reverse.
RaptorGeneric(mnemonic, operands) ==
  IF mnemonic \notin DOMAIN instructionSet THEN <<>>
  ELSE << Compile(mnemonic, Reverse([k \in DOMAIN operands |-> operand_to_hwm(operands[k])]),
                  SymbolsOf(operands, isGlobal), "start") >>

syscall_abi == <<0, 7, 6, 2, 10, 8, 9>>

\* One argument into its register; the kinds without a branch move nothing.
RaptorArgument(n, o) ==
  LET target == Register(n, Qword)
      Move(mnemonic, dst, src) ==
        << Compile(mnemonic, <<dst, src>>, SymbolsOf(<<o>>, isGlobal), "tail") >>
  IN CASE o.kind \in {"immediate", "register"} -> Move("mov", target, operand_to_hwm(o))
       [] o.kind = "variable_address" -> Move("lea", target, operand_to_hwm(o))
       [] o.kind = "variable_value" /\ isGlobal(o) -> Move("mov", target, OnRip(Qword))
       [] o.kind = "variable_value" /\ ~isGlobal(o) ->
            Move("mov", Register(n, Locals[o.name].size), operand_to_hwm(o))
       [] OTHER -> <<>>

CompileArguments(Argument(_, _), args) ==
  IF Len(args) > Len(syscall_abi) THEN <<>>
  ELSE FlattenSeq([k \in DOMAIN args |-> Argument(syscall_abi[k], args[k])]) \o <<Syscall>>

\* A call through a register is given to the encoder, whose table has none.
RaptorCall(o) ==
  IF o.kind = "register" THEN << Compile("call", <<o.reg>>, {}, "start") >>
  ELSE << DirectCall(o.name) >>

-----------------------------------------------------------------------------
(* The older driver.  It knows no locals, takes the size of a variable     *)
(* from the first register of the instruction, reverses two operands only, *)
(* drops the relocations of an instruction without code, and throws when   *)
(* the place of a relocation is not found.                                 *)

isRegister(o) == o.kind \in {"register", "segment_register"}

CompilerOperand(o, size) ==
  CASE isSymbol(o) -> OnRip(size)
    [] o.kind = "segment_register" -> Segment(o.name)
    [] OTHER -> operand_to_hwm(o)

\* mov &var, %reg becomes lea %reg, [var].
isLea(mnemonic, operands) ==
  /\ mnemonic = "mov" /\ Len(operands) = 2
  /\ operands[1].kind = "variable_address" /\ operands[2].kind = "register"

CompilerGeneric(mnemonic, operands) ==
  LET first == IndexOfFirst(operands, LAMBDA k : isRegister(operands[k]))
      size  == IF first # 0 /\ operands[first].kind = "register"
               THEN operands[first].reg.size ELSE Qword
      hwm   == [k \in DOMAIN operands |-> CompilerOperand(operands[k], size)]
  IN CASE \/ mnemonic \notin DOMAIN instructionSet
          \/ \E o \in Range(operands) : o.kind \in {"memory_register", "memory_sib"} -> <<>>
       [] isLea(mnemonic, operands) ->
            << Compile("lea", <<operands[2].reg, OnRip(Qword)>>, {operands[1].name}, "must") >>
       [] \E o \in Range(operands) : isSymbol(o) /\ o.name \notin DOMAIN vartable -> <<>>
       [] OTHER -> << Compile(mnemonic, IF Len(hwm) = 2 THEN Reverse(hwm) ELSE hwm,
                              SymbolsOf(operands, isSymbol), "must") >>

CompilerArgument(n, o) ==
  CASE o.kind \in {"immediate", "register"} ->
         << Compile("mov", <<Register(n, Qword), operand_to_hwm(o)>>, {}, "must") >>
    [] o.kind = "variable_address" ->
         << Compile("lea", <<Register(n, Qword), OnRip(Qword)>>, {o.name}, "must") >>
    [] OTHER -> <<>>

-----------------------------------------------------------------------------
Init ==
  /\ driver \in {"raptor", "compiler"}
  /\ text = <<>> /\ relocs = {} /\ log = <<>> /\ pending = <<>>
  /\ journal = {} /\ ended = FALSE

Statement(steps) ==
  /\ ~ended /\ pending = <<>> /\ Len(log) < MaxStatements
  /\ pending' = steps
  /\ UNCHANGED <<driver, text, relocs, log, journal, ended>>

CompileGeneric ==
  \E i \in Instructions :
    Statement(IF driver = "raptor" THEN RaptorGeneric(i[1], i[2]) ELSE CompilerGeneric(i[1], i[2]))

CompileSyscall ==
  \E args \in SyscallArguments :
    Statement(IF driver = "raptor" THEN CompileArguments(RaptorArgument, args)
              ELSE CompileArguments(CompilerArgument, args))

CompileCall ==
  \E callee \in Callees :
    \/ driver = "raptor" /\ Statement(RaptorCall(callee))
    \/ driver = "compiler" /\ callee.kind # "register" /\ Statement(<<DirectCall(callee.name)>>)

\* A search from the end, for a mutant.
LastIndexOfZeros(bytes) ==
  LET at == {k \in 1 .. Len(bytes) - 3 : \A j \in 0 .. 3 : bytes[k + j] = 0}
  IN IF at = {} THEN -1 ELSE Max(at) - 1

\* Buffer.indexOf of four zero bytes, -1 where there are none.
IndexOfZeros(bytes) ==
  LET at == {k \in 1 .. Len(bytes) - 3 : \A j \in 0 .. 3 : bytes[k + j] = 0}
  IN IF at = {} THEN -1 ELSE Min(at) - 1

\* Where a relocation of the instruction goes, from its first byte.
Field(step, bytes, zeros) ==
  IF zeros >= 0 THEN zeros ELSE IF step.otherwise = "tail" THEN Len(bytes) - 4 ELSE 0

Emit(step, code, zeros) ==
  /\ ended'   = (code.thrown \/ (step.otherwise = "must" /\ code.bytes # <<>>
                                 /\ step.symbols # {} /\ zeros < 0))
  /\ text'    = text \o code.bytes
  /\ relocs'  = relocs \union
       {[offset |-> Len(text) + Field(step, code.bytes, zeros), symbol |-> s,
         emitted |-> code.bytes # <<>>] :
          s \in IF step.otherwise = "must" /\ code.bytes = <<>> THEN {} ELSE step.symbols}
  /\ log'     = Append(log, [op |-> step.op, args |-> step.args, at |-> Len(text) + 1,
                             length |-> Len(code.bytes)])
  /\ journal' = journal \union code.journal
  /\ pending' = Tail(pending)
  /\ UNCHANGED driver

Answer(step, code) == Emit(step, code, IndexOfZeros(code.bytes))

CompileStep ==
  /\ ~ended /\ pending # <<>>
  /\ Answer(Head(pending),
       CASE Head(pending).op = "@syscall" -> Result(syscallCode, {})
         [] Head(pending).op = "@call"    -> Result(callCode, {})
         [] OTHER -> compile(Head(pending).op, Head(pending).args))

Next == CompileGeneric \/ CompileSyscall \/ CompileCall \/ CompileStep

Spec == Init /\ [][Next]_vars

-----------------------------------------------------------------------------
(* What the source asks of each instruction, in the decoder's terms.       *)

\* The operand as the instruction should execute it.
Meaning(op, args, operand) ==
  CASE operand.type = "Imm" ->
         [type |-> "Imm", bytes |-> LittleEndian(operand.value,
            IF op \in {"push", "@call"} THEN Qword ELSE args[1].size)]
    [] operand.type = "Mem" ->
         MemoryOf(IF operand.ripRelative THEN RipBase ELSE operand.base, operand.index,
                  operand.scale, Number(operand.displacement), IF op = "lea" THEN 0 ELSE operand.size)
    [] OTHER -> operand

Plain(op) == CASE op = "@call" -> "call" [] op = "@syscall" -> "syscall" [] OTHER -> op

Agree(code, entry) ==
  /\ code.op = Plain(entry.op) /\ code.length = entry.length
  /\ code.args = [k \in DOMAIN entry.args |-> Meaning(entry.op, entry.args, entry.args[k])]
isFaithful(entry) == Agree(Decode(text, entry.at), entry)

\* The forms the encoder gets wrong, each with the code that does it.
AnyRegister(args)  == UNION {RegistersOf(a) : a \in Range(args)}
ImmediateOver7Bits(args, k) == args[k].type = "Imm" /\ ~isSigned8Bit(args[k].value)

\* The wide accumulator forms take any register (tbl.cts:89-122).
TakesAccumulator(op, args) ==
  /\ op \in Range(Arithmetic) /\ args[1].type = "Reg" /\ args[1].size # Byte
  /\ args[1].num # 0 /\ ImmediateOver7Bits(args, 2)

\* Adding 8 to a field of SIB reaches into its neighbour (main.cts:323-331);
\* rsp as an index means none (318); registers of two widths share one prefix.
SpoilsSib(m) ==
  /\ m.index # NoRegister
  /\ \/ m.index.num = 4
     \/ isExtended(m.index) /\ Code(m.index) < 4 /\ m.scale \in {1, 4}
     \/ isExtended(m.base) /\ Code(m.base) < 4 /\ Code(m.index) % 2 = 0
     \/ m.base.size # m.index.size

\* ah to bh next to a REX prefix are spl to dil.
HighByteUnderRex(args) ==
  \E r \in AnyRegister(args) :
    /\ r.type = "Reg" /\ r.size = Byte /\ r.high
    /\ \E q \in AnyRegister(args) : requiresRex(q) \/ (q \in Range(args) /\ q.size = Qword)

\* push of more than a byte is given a word's prefix (tbl.cts:476-481); a
\* double word is pushed or popped as a quad word.
SpoilsStack(op, args) ==
  \/ op = "push" /\ ImmediateOver7Bits(args, 1)
  \/ op \in {"push", "pop"} /\ args[1].type \in {"Reg", "Mem"} /\ args[1].size = Dword

\* imul with an immediate byte does not compare its registers.
MixesSizes(op, args) == op = "imul" /\ Len(args) = 3 /\ args[1].size # args[2].size

Misencoded(op, args) ==
  \/ Len(args) = 2 /\ TakesAccumulator(op, args)
  \/ \E a \in Range(args) : a.type = "Mem" /\ SpoilsSib(a)
  \/ HighByteUnderRex(args)
  \/ SpoilsStack(op, args)
  \/ MixesSizes(op, args)

\* The short forms with the accumulator in them are used for the accumulator
\* (tbl.cts:88-112 name AX, EAX and RAX).
AccumulatorIsRax ==
  ~ended => \A entry \in Range(log) :
    entry.length > 0 /\ Len(entry.args) = 2 /\ TakesAccumulator(entry.op, entry.args)
      => isFaithful(entry)

\* Every instruction the encoder answered decodes, at its place in the
\* function, to what was asked, except exactly the forms above; one it did not
\* answer is on the journal (main.cts:914-1111, tbl.cts:18-930).
Decodes ==
  ~ended => \A entry \in Range(log) :
    IF entry.length = 0 THEN journal # {}
    ELSE isFaithful(entry) <=> ~Misencoded(entry.op, entry.args)

\* The four zeros found in the bytes are the displacement of the instruction
\* that names the symbol.  The exception is a statement of the Raptor driver
\* the encoder refused: its relocation stays and lies on whatever comes next
\* (driver.js:172, raptor/driver.cts:394-404, 659, 691).
FieldsFound ==
  ~ended => \A r \in relocs :
    IF r.emitted
    THEN \E entry \in Range(log) :
           \/ entry.op = "@call" /\ r.offset = entry.at
           \/ entry.length > 0 /\ r.offset + 1 = Decode(text, entry.at).ripField
    ELSE driver = "raptor" /\ "no variant" \in journal
=============================================================================
