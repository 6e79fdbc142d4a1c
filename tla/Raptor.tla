------------------------------- MODULE Raptor -------------------------------
(***************************************************************************)
(* A function through Raptor, T/raptor/driver.cts: the analyzer accepts or *)
(* refuses it, pass 1 gives variables their slots (module Frame), pass 2   *)
(* compiles the statements into one buffer whose jumps are patched on the  *)
(* way up, and the machine runs the buffer.                                *)
(*                                                                         *)
(* Code is a sequence of cells, numbered from 0 as bytes of a buffer are.  *)
(* A jump has its real length, with the 32-bit displacement in a cell of   *)
(* its own; an instruction that computes, loads or stores is one cell.     *)
(* Memory is the bytes below the base pointer.                             *)
(***************************************************************************)
EXTENDS Tree

CONSTANTS
  Names,      \* of parameters and variables
  Programs,   \* functions that are considered
  Values,     \* what variables hold
  Tags,       \* variants of a tagged union
  Junk,       \* bytes nobody wrote
  Nowhere     \* where a jump leads that leads to no instruction

VARIABLES
  phase,      \* "analyze", "scan", "compile", "run", "halted", "rejected"
  declared, scanned, offset, slots, closed, total,     \* pass 1, see Frame
  code,       \* the buffer of the function
  relocs,     \* relocations of calls: offset of the field and symbol
  ip,         \* offset of the next instruction
  flag,       \* the zero flag says: jump
  tag,        \* the variant in the register of an inspect
  memory,     \* distance below the base pointer -> byte
  seen        \* the last effect that can be observed from outside

frameVars == <<declared, scanned, offset, slots, closed, total>>
machineVars == <<ip, flag, tag, memory, seen>>
raptorVars == <<prog, phase, frameVars, code, relocs, machineVars>>

-----------------------------------------------------------------------------
(* Pass 1.  What the scan finds, in its order; it does not enter labels.    *)

(* Mutant: every variable takes one byte.                                   *)
OneByte(p) == [name |-> Name(p), size |-> 1, elem |-> 1]

Declared(p) == [name |-> Name(p), size |-> At(p).size, elem |-> At(p).elem]

RECURSIVE Scan(_), ScanFrom(_, _)
Scan(p) ==
  CASE Kind(p) \in {"param", "var", "bind", "array"} -> <<Declared(p)>>
    [] Kind(p) \in {"function", "block", "if", "while", "inspect", "case"} ->
         ScanFrom(p, 1)
    [] OTHER -> <<>>

ScanFrom(p, i) == IF i > Kids(p) THEN <<>> ELSE Scan(Append(p, i)) \o ScanFrom(p, i + 1)

Pass1 == INSTANCE Frame

-----------------------------------------------------------------------------
(* A result of pass 2: the code, the patches of jumps out of it, and its    *)
(* relocations; patches and relocations count from the start of the code.   *)
Cell(op, p) == [op |-> op, node |-> p, at |-> 0, size |-> 0, to |-> 0, tag |-> Junk]
Result(cells) == [code |-> cells, breaks |-> {}, continues |-> {}, relocs |-> {}]
Nothing == Result(<<>>)
Length(r) == Len(r.code)

Shift(set, by) == {[x EXCEPT !.at = @ + by] : x \in set}

(* Mutants: patches, or relocations, of the second part keep counting from  *)
(* its own start.                                                           *)
ThenPatchesUnmoved(r, s) ==
  [code |-> r.code \o s.code,
   breaks |-> r.breaks \cup s.breaks,
   continues |-> r.continues \cup s.continues,
   relocs |-> r.relocs \cup Shift(s.relocs, Length(r))]
ThenRelocsUnmoved(r, s) ==
  [code |-> r.code \o s.code,
   breaks |-> r.breaks \cup Shift(s.breaks, Length(r)),
   continues |-> r.continues \cup Shift(s.continues, Length(r)),
   relocs |-> r.relocs \cup s.relocs]

(* Buffer.concat([r, s]), with what belongs to s moved behind r.            *)
Then(r, s) ==
  [code |-> r.code \o s.code,
   breaks |-> r.breaks \cup Shift(s.breaks, Length(r)),
   continues |-> r.continues \cup Shift(s.continues, Length(r)),
   relocs |-> r.relocs \cup Shift(s.relocs, Length(r))]

Drop(r) == [r EXCEPT !.breaks = {}, !.continues = {}]

(* The instructions with a displacement: je and jne have it after two       *)
(* bytes, jmp and call after one.                                           *)
Displacement(p) == [i \in 1..4 |-> Cell("disp", p)]
Conditional(op, p) == Result(<<Cell(op, p), Cell("0F", p)>> \o Displacement(p))
Jmp(p) == Result(<<Cell("jmp", p)>> \o Displacement(p))

(* writeInt32LE(n, field).                                                  *)
Write(r, field, n) == [r EXCEPT !.code[field + 1].to = n]

(* Mutants: the displacement counts from the field; it is the target.       *)
AimFromField(r, field, target) == Write(r, field, target - field)
AimAbsolute(r, field, target) == Write(r, field, target)

(* A displacement counts from the end of its field, and of the instruction. *)
Aim(r, field, target) == Write(r, field, target - (field + 4))
RECURSIVE AimAll(_, _, _)
AimAll(r, fields, target) ==
  IF fields = {} THEN r
  ELSE LET field == CHOOSE x \in fields : TRUE
       IN  AimAll(Aim(r, field, target), fields \ {field}, target)

-----------------------------------------------------------------------------
(* A variable of the frame; one without a slot gives no code.               *)
Access(op, p, width) ==
  IF Pass1!HasSlot(Name(p))
  THEN Result(<<[Cell(op, p) EXCEPT !.at = slots[Name(p)].at, !.size = width]>>)
  ELSE Nothing

(* Declarations store as many bytes as the slot has, assignments and reads  *)
(* as many as their type.                                                   *)
CompileVariable(p) == Access("put", p, slots[Name(p)].size)
CompileSet(p) == Access("put", p, At(p).size)
CompileGet(p) == Access("get", p, At(p).size)

CompileCall(p) ==
  [Result(<<Cell("call", p)>> \o Displacement(p)) EXCEPT !.relocs = {[at |-> 1, symbol |-> Name(p)]}]

CompileJump(p) ==
  IF Kind(p) = "break" THEN [Jmp(p) EXCEPT !.breaks = {[at |-> 1, label |-> Name(p)]}]
                       ELSE [Jmp(p) EXCEPT !.continues = {[at |-> 1, label |-> Name(p)]}]

CompileReturn(p) == Result(<<Cell("leave", p)>>)

Compiled(p) == Result(<<Cell("test", p)>>)

CompileIf(p, then, else) ==
  LET test == Then(Compiled(p), Conditional("je", p))
      branch == Then(test, then)
      field == Length(Compiled(p)) + 2
      jump == Then(branch, Jmp(p))
      other == Then(jump, else)
  IN  IF Kids(p) = 1 THEN Write(branch, field, Length(then))
      ELSE Write(Write(other, field, Length(then) + 5), Length(branch) + 1, Length(else))

(* Mutant: a loop takes every patch, whatever its label.                    *)
OwnAll(patches, label) == patches

(* Patches without a label, or with the label of the loop, are its own.     *)
Own(patches, label) == {x \in patches : x.label \in {NoLabel, label}}
Fields(patches) == {x.at : x \in patches}

CompileWhile(p, body) ==
  LET test == Then(Compiled(p), Conditional("je", p))
      loop == Then(Then(test, body), Jmp(p))
      je == Length(Compiled(p)) + 2
      jmp == Length(test) + Length(body) + 1
      label == LabelOf(p)
      breaks == Own(loop.breaks, label)
      continues == Own(loop.continues, label)
      ends == AimAll(loop, {je} \cup Fields(breaks), Length(loop))
  IN  [AimAll(ends, {jmp} \cup Fields(continues), 0) EXCEPT
         !.breaks = @ \ breaks, !.continues = @ \ continues]

(* One case of an inspect, after what was compiled of it: its bindings and  *)
(* its body, or the body alone of the default one, which binds nothing.     *)
AddCase(r, p, case, content) ==
  LET inner == Drop(content)
      compare == Then(r, Result(<<[Cell("cmp", p) EXCEPT !.tag = Name(case)]>>))
      body == Then(Then(compare, Conditional("jne", p)), inner)
      ended == Then(body, Jmp(p))
  IN  IF Name(case) = Default THEN [result |-> Then(r, inner), exits |-> {}]
      ELSE [result |-> Aim(ended, Length(compare) + 2, Length(ended)),
            exits |-> {Length(body) + 1}]

RECURSIVE Compile(_), CompileAll(_, _), CompileCases(_, _, _, _)

(* The nodes of a list, one after the other.                                *)
CompileAll(r, paths) ==
  IF paths = <<>> THEN r ELSE CompileAll(Then(r, Compile(Head(paths))), Tail(paths))

KidsOf(p) == [i \in 1..Kids(p) |-> Append(p, i)]

(* The cases from the i-th on; the default one is the last to be compiled.  *)
CompileCases(p, i, r, exits) ==
  IF i > Kids(p) THEN AimAll(r, exits, Length(r))
  ELSE LET case == Append(p, i)
           added == AddCase(r, p, case, CompileAll(Nothing, KidsOf(case)))
       IN  CompileCases(p, IF Name(case) = Default THEN Kids(p) + 1 ELSE i + 1,
                        added.result, exits \cup added.exits)

Compile(p) ==
  CASE Kind(p) \in {"param", "var", "bind"} -> CompileVariable(p)
    [] Kind(p) = "array" -> Nothing
    [] Kind(p) = "set" -> CompileSet(p)
    [] Kind(p) = "get" -> CompileGet(p)
    [] Kind(p) = "call" -> CompileCall(p)
    [] Kind(p) \in {"break", "continue"} -> CompileJump(p)
    [] Kind(p) = "return" -> CompileReturn(p)
    [] Kind(p) = "block" -> CompileAll(Nothing, KidsOf(p))
    [] Kind(p) = "label" -> Compile(Append(p, 1))
    [] Kind(p) = "if" -> CompileIf(p, Compile(Append(p, 1)),
                                   IF Kids(p) = 2 THEN Compile(Append(p, 2)) ELSE Nothing)
    [] Kind(p) = "while" -> CompileWhile(p, Compile(Append(p, 1)))
    [] Kind(p) = "inspect" -> CompileCases(p, 1, Result(<<Cell("tag", p)>>), {})

(* The body after the spills of the parameters that come in registers;      *)
(* patches that reach it are lost.                                          *)
Spilled(p) == Kind(p) # "param" \/ p[1] <= 6
CompileBody == Drop(CompileAll(Nothing, SelectSeq(KidsOf(<<>>), Spilled)))

(* push %rbp; mov %rsp, %rbp, the frame if there is one, and the epilogue.  *)
Prologue == Result(<<Cell("enter", <<>>)>> \o (IF total = 0 THEN <<>> ELSE <<Cell("enter", <<>>)>>))
CompileFunction == Then(Then(Prologue, CompileBody), Result(<<Cell("leave", Done)>>))

(* An assignment to a name without a slot is an error of the code           *)
(* generator; like those of the analyzer, it ends the compilation.          *)
Unassignable == \E p \in NodesOf({"set"}) : ~Pass1!HasSlot(Name(p))

-----------------------------------------------------------------------------
Init ==
  /\ prog \in Programs
  /\ phase = "analyze"
  /\ declared = Scan(<<>>) /\ Pass1!Empty
  /\ code = <<>> /\ relocs = {} /\ memory = <<>>
  /\ ip = 0 /\ flag = FALSE /\ tag = Junk /\ seen = Junk

Analyze ==
  /\ phase = "analyze"
  /\ phase' = IF Accepted THEN "scan" ELSE "rejected"
  /\ UNCHANGED <<prog, frameVars, code, relocs, machineVars>>

ScanFrame ==
  /\ phase = "scan"
  /\ Pass1!FrameNext
  /\ phase' = IF closed' THEN "compile" ELSE "scan"
  /\ UNCHANGED <<prog, code, relocs, machineVars>>

Generate ==
  /\ phase = "compile" /\ ~Unassignable
  /\ phase' = "run"
  /\ code' = CompileFunction.code
  /\ relocs' = CompileFunction.relocs
  /\ memory' = [k \in 1..total |-> Junk]
  /\ UNCHANGED <<prog, frameVars, ip, flag, tag, seen>>

Refuse ==
  /\ phase = "compile" /\ Unassignable
  /\ phase' = "rejected"
  /\ UNCHANGED <<prog, frameVars, code, relocs, machineVars>>

-----------------------------------------------------------------------------
(* The machine.                                                             *)
Op(i) == IF i \in 0..(Len(code) - 1) THEN code[i + 1].op ELSE "none"
Target(i) ==
  IF Op(i) \in {"je", "jne"} THEN i + 6 + code[i + 3].to ELSE i + 5 + code[i + 2].to

Runs(op) == phase = "run" /\ Op(ip) = op
Instruction == code[ip + 1]
StayCompiled == UNCHANGED <<prog, frameVars, code, relocs>>

Enter ==
  /\ Runs("enter")
  /\ ip' = ip + 1
  /\ StayCompiled /\ UNCHANGED <<phase, flag, tag, memory, seen>>

Test ==
  /\ Runs("test")
  /\ flag' \in BOOLEAN
  /\ ip' = ip + 1
  /\ StayCompiled /\ UNCHANGED <<phase, tag, memory, seen>>

BranchOnFlag ==
  /\ Runs("je") \/ Runs("jne")
  /\ ip' = IF flag THEN Target(ip) ELSE ip + 6
  /\ StayCompiled /\ UNCHANGED <<phase, flag, tag, memory, seen>>

Jump ==
  /\ Runs("jmp")
  /\ ip' = Target(ip)
  /\ StayCompiled /\ UNCHANGED <<phase, flag, tag, memory, seen>>

LoadTag ==
  /\ Runs("tag")
  /\ tag' \in Tags
  /\ ip' = ip + 1
  /\ StayCompiled /\ UNCHANGED <<phase, flag, memory, seen>>

CompareTag ==
  /\ Runs("cmp")
  /\ flag' = (tag # Instruction.tag)
  /\ ip' = ip + 1
  /\ StayCompiled /\ UNCHANGED <<phase, tag, memory, seen>>

Bytes(at, size) == (at - size + 1)..at

Put ==
  /\ Runs("put")
  /\ \E v \in Values :
       memory' = [k \in DOMAIN memory |->
                    IF k \in Bytes(Instruction.at, Instruction.size) THEN v ELSE memory[k]]
  /\ ip' = ip + 1
  /\ StayCompiled /\ UNCHANGED <<phase, flag, tag, seen>>

(* What is read: a value if all bytes are of one.                           *)
Loaded(at, size) ==
  LET bytes == {memory[k] : k \in Bytes(at, size)}
  IN  IF Cardinality(bytes) = 1 THEN CHOOSE v \in bytes : TRUE ELSE Junk

Get ==
  /\ Runs("get")
  /\ seen' = Loaded(Instruction.at, Instruction.size)
  /\ ip' = ip + 1
  /\ StayCompiled /\ UNCHANGED <<phase, flag, tag, memory>>

(* The function called is the one whose relocation is at the field.         *)
Call ==
  /\ Runs("call")
  /\ \E r \in relocs : r.at = ip + 1 /\ seen' = r.symbol
  /\ ip' = ip + 5
  /\ StayCompiled /\ UNCHANGED <<phase, flag, tag, memory>>

Leave ==
  /\ Runs("leave")
  /\ phase' = "halted"
  /\ StayCompiled /\ UNCHANGED machineVars

Machine ==
  \/ Enter \/ Test \/ BranchOnFlag \/ Jump \/ LoadTag \/ CompareTag
  \/ Put \/ Get \/ Call \/ Leave

Next == Analyze \/ ScanFrame \/ Generate \/ Refuse \/ Machine

Spec == Init /\ [][Next]_raptorVars
-----------------------------------------------------------------------------
(* The node whose effect comes next when control is at offset i.  n bounds  *)
(* the number of jumps to follow.                                           *)
RECURSIVE Landing(_, _)
Landing(i, n) ==
  CASE n = 0 \/ Op(i) \in {"none", "disp", "0F"} -> Nowhere
    [] Op(i) = "enter" -> Landing(i + 1, n - 1)
    [] Op(i) = "jmp" -> Landing(Target(i), n - 1)
    [] Op(i) \in {"je", "jne"} -> Landing(IF flag THEN Target(i) ELSE i + 6, n - 1)
    [] Op(i) = "cmp" -> Landing(IF tag # code[i + 1].tag THEN Target(i + 1) ELSE i + 7, n - 1)
    [] OTHER -> code[i + 1].node

Here ==
  CASE phase = "run" -> Landing(ip, Len(code))
    [] phase = "halted" -> Done
    [] OTHER -> First(<<>>)

Alive(d) == phase = "run" /\ Here \notin {Done, Nowhere} /\ InScope(d, Here)
Store ==
  [d \in Variables |->
     IF Alive(d) /\ Pass1!HasSlot(Name(d)) THEN Loaded(slots[Name(d)].at, At(d).size) ELSE Junk]

(* The code does what the tree means: control, scopes, loops, jumps,        *)
(* variables.                                                               *)
Meaning == INSTANCE Structured WITH here <- Here, store <- Store
Structured == Meaning!Spec

-----------------------------------------------------------------------------
TypeOK ==
  /\ phase \in {"analyze", "scan", "compile", "run", "halted", "rejected"}
  /\ Pass1!FrameTypeOK
  /\ ip \in 0..Len(code)
  /\ flag \in BOOLEAN
  /\ tag \in Tags \cup {Junk}
  /\ memory \in [1..(IF code = <<>> THEN 0 ELSE total) -> Values \cup {Junk}]

Generated == phase \in {"run", "halted"}
Offsets == 0..(Len(code) - 1)

(* A break leaves the loop it names, a continue repeats it, also where      *)
(* control never comes.                                                     *)
JumpsReachTarget ==
  Generated =>
    \A i \in Offsets :
      Op(i) = "jmp" /\ code[i + 1].node \in Jumps
        => Landing(i, Len(code)) = First(code[i + 1].node)

(* Relocations and fields of calls are the same, with the symbol called.    *)
RelocsOnCalls ==
  Generated =>
    relocs = {[at |-> i + 1, symbol |-> Name(code[i + 1].node)] : i \in {j \in Offsets : Op(j) = "call"}}

(* Where pass 1 puts the variables of the function: see Frame.              *)
SlotsPlaced == Pass1!SlotsPlaced

(* Every variable has a slot, large enough for what is assigned to it, and   *)
(* an assignment touches no other variable that exists at the time.         *)
SlotOfItsOwn ==
  Generated =>
    LET stored(d) == Bytes(slots[Name(d)].at, At(d).size)
    IN  /\ \A d \in Variables : Pass1!HasSlot(Name(d)) /\ slots[Name(d)].size >= At(d).size
        /\ \A d, e \in Variables : InScope(d, e) => stored(d) \cap stored(e) = {}
=============================================================================
