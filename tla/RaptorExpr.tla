----------------------------- MODULE RaptorExpr -----------------------------
(***************************************************************************)
(* Expressions, assignments, declarations and calls of the Raptor code     *)
(* generator (T/raptor/driver.cts): Code gives the instructions they are   *)
(* compiled to, the actions run them on a Machine one by one, and Meaning  *)
(* says what the program means.                                            *)
(*                                                                         *)
(* A program is one statement over the variables of Locals, which have     *)
(* slots below rbp, and of Globals.  Its nodes are records:                *)
(*   lit v | var x | glob x | par e | neg e | not e | step pre inc e       *)
(*   bin op l r | idx base index n | fld arrow base at n | addr e          *)
(*   deref e | call f args this | ctor f args | union tag args n           *)
(* and, as statements only, assign op l r, decl x init, build x f args.    *)
(* An annotation of a type that the analyzer leaves out is NoType.         *)
(***************************************************************************)
EXTENDS Machine

CONSTANTS
  Locals,      \* name -> [at, n, sg]: distance below rbp, size, signed
  Programs,    \* the statements considered
  Format,      \* of the program: "exec", "so" or "ko"
  Rbp,         \* where the frame is
  FrameSize,   \* its size, a multiple of sixteen
  Memory       \* the contents of the memory at the start

ASSUME ExprAssumption ==
  /\ DOMAIN Memory = 0..Top - 1
  /\ Rbp % 8 = 0 /\ FrameSize % 16 = 0
  /\ Format \in {"exec", "so", "ko"}
  /\ \A x \in DOMAIN Locals : Locals[x].at \in Nat /\ Locals[x].n \in Nat

VARIABLES
  program,     \* the statement
  code,        \* what is left of its instructions
  m            \* the machine

vars == <<program, code, m>>

AlignUp(n, to) == ((n + to - 1) \div to) * to
NoType == [n |-> 0, sg |-> FALSE]
Int32 == [n |-> 4, sg |-> TRUE]
Bool == [n |-> 1, sg |-> FALSE]
Pointer == [n |-> 8, sg |-> FALSE]

Rax == Reg("rax")
Rcx == Reg("rcx")
R10 == Reg("r10")
Slot(x) == Mem("rbp", -Locals[x].at)

(* Where an access to a global ends up, counted from the global.  The       *)
(* linker allows for the four bytes of the field itself; the kernel, which  *)
(* patches modules, does not.                                               *)
Landing(addend) == IF Format = "ko" THEN addend + 4 ELSE addend
Global(x, addend) == Rip(x, Landing(addend))
PlaceAddend == IF Format = "exec" THEN 0 ELSE -4

Relations == {"==", "!=", "<", "<=", ">", ">="}

-----------------------------------------------------------------------------
(* What the analyzer finds as the type of a node: arithmetic has the type   *)
(* of its left operand.                                                     *)
RECURSIVE Visited(_)
Visited(e) ==
  CASE e.k = "lit" -> Int32
    [] e.k = "var" -> [n |-> Locals[e.x].n, sg |-> Locals[e.x].sg]
    [] e.k = "glob" -> Int32
    [] e.k \in {"idx", "fld", "deref"} -> [n |-> e.n, sg |-> TRUE]
    [] e.k \in {"par", "neg", "step", "not"} -> Visited(e.e)
    [] e.k = "bin" -> IF e.op \in Relations \cup {"&&", "||"}
                      THEN Bool ELSE Visited(e.l)
    [] e.k = "addr" -> Pointer
    [] e.k \in {"ctor", "union"} -> [n |-> e.n, sg |-> FALSE]
    [] e.k = "call" -> [n |-> Functions[e.f].ret, sg |-> Functions[e.f].sg]

(* The annotation on the node: calls and arithmetic get none.               *)
Bare(e) == e.k = "call" \/ (e.k = "bin" /\ e.op \notin Relations \cup {"&&", "||"})
AnnotatedSize(e) == IF Bare(e) THEN 8 ELSE Visited(e).n

(* get_operand_info: eight unsigned bytes where nothing is known.           *)
RECURSIVE Info(_)
Info(e) == IF e.k = "par" THEN Info(e.e)
           ELSE IF Bare(e) THEN Pointer ELSE Visited(e)

(* Integer promotion of compile_expr_to_reg.                                *)
OpSize(e) == LET n == Max({Info(e.l).n, Info(e.r).n})
             IN  IF e.op \in {"&&", "||"} THEN n ELSE Max({n, 4})
OpSigned(e) == Info(e.l).sg \/ Info(e.r).sg

-----------------------------------------------------------------------------
(* Code of expressions.  Expr leaves a value, or the address of a thing     *)
(* larger than eight bytes, in register r; Address leaves an address.       *)
RECURSIVE Expr(_, _), Address(_, _)

FromRax(r) == IF r = "rax" THEN <<>> ELSE <<Mov(r, "rax")>>

LoadVariable(r, t, whole, o) ==
  <<CASE whole -> I("lea", 8, Reg(r), o)
      [] ~whole /\ t.n = 4 /\ t.sg -> Ext(TRUE, 4, Reg(r), o)
      [] ~whole /\ t.n < 4 -> Ext(t.sg, t.n, Reg(r), o)
      [] OTHER -> I("mov", t.n, Reg(r), o)>>

LoadPlain(r, n, o) ==
  <<IF n < 4 THEN Ext(FALSE, n, Reg(r), o) ELSE I("mov", n, Reg(r), o)>>

Subscript(e, r) ==
  Expr(e.base, "r10") \o <<Push("r10")>> \o Expr(e.index, "rcx")
    \o <<Pop("r10"),
         I("lea", 8, Reg(r), Sib("r10", "rcx", IF e.n \in {1, 2, 4, 8} THEN e.n ELSE 1))>>

Arguments(args) ==
  FoldRight(LAMBDA arg, rest : rest \o Expr(arg, "rax") \o <<Push("rax")>>, args, <<>>)

PopArguments(total) == [k \in 1..Min({total, 6}) |-> Pop(ArgRegs[k])]
StackSlots(total) == 8 * Max({0, total - 6})
(* Mutant: an odd argument on the stack gets no padding.                    *)
PaddingNone(total) == 0
Padding(total) == (16 - (StackSlots(total) % 16)) % 16

This(e) ==
  IF e.this = <<>> THEN <<>>
  ELSE (IF e.this[1].arrow THEN Expr(e.this[1].e, "rax") ELSE Address(e.this[1].e, "rax"))
         \o <<Push("rax")>>

(* Mutant: what is left of the arguments stays on the stack.                *)
CleanupPadding(total) == Add(Padding(total))
Cleanup(total) == Add(Padding(total) + StackSlots(total))

(* compile_hl_call_statement.                                               *)
HlCall(e) ==
  LET ret == Functions[e.f].ret
      room == IF ret > 8 THEN AlignUp(ret, 16) ELSE 0
      own == Len(e.args) + Len(e.this)
      total == own + Bit(ret > 16)
  IN  Sub(room) \o Sub(Padding(total)) \o Arguments(e.args) \o This(e)
        \o (IF ret > 16
            THEN <<I("lea", 8, Rax, Mem("rsp", 8 * own + Padding(total))), Push("rax")>>
            ELSE <<>>)
        \o PopArguments(total) \o <<Call(e.f)>> \o Cleanup(total)
        \o (IF ret \in 9..16
            THEN <<I("mov", 8, Mem("rsp", 0), Rax),
                   I("mov", 8, Mem("rsp", 8), Reg("rdx"))>>
            ELSE <<>>)
        \o (IF ret > 8 THEN <<Mov("rax", "rsp")>> ELSE <<>>)

(* Type { ... } builds an object on the stack.                              *)
Temporary(e, r) ==
  LET total == Len(e.args) + 1
      room == AlignUp(e.n, 16)
  IN  Sub(room) \o <<Mov("r10", "rsp")>> \o Sub(Padding(total)) \o Arguments(e.args)
        \o <<Push("r10")>> \o PopArguments(total) \o <<Call(e.f)>> \o Cleanup(total)
        \o (IF e.n > 8 THEN <<Mov(r, "rsp")>>
            ELSE <<I("mov", e.n, Reg(r), Mem("rsp", 0))>> \o Add(room))
        \o FromRax(r)

(* The tag and the payload of a variant, at a place in memory.              *)
RECURSIVE Payload(_, _, _, _)
Payload(args, base, at, large) ==
  IF args = <<>> THEN <<>>
  ELSE LET n == AnnotatedSize(args[1])
       IN  Expr(args[1], "rax")
             \o (IF large /\ n > 8
                 THEN <<I("lea", 8, Reg("rdi"), Mem(base, at)), Copy("rdi", "rax", n)>>
                 ELSE <<I("mov", n, Mem(base, at), Rax)>>)
             \o Payload(Tail(args), base, at + n, large)

Variant(e, base, at, large) ==
  <<I("mov", 4, Mem(base, at), Imm(e.tag))>> \o Payload(e.args, base, at + 4, large)

UnionValue(e, r) ==
  LET room == AlignUp(e.n, 16)
  IN  Sub(room) \o Variant(e, "rsp", 0, TRUE)
        \o (IF e.n > 8 THEN <<Mov(r, "rsp")>>
            ELSE <<I("mov", e.n, Reg(r), Mem("rsp", 0))>> \o Add(room))

Negation(e, r) ==
  LET n == Visited(e).n
  IN  Expr(e.e, "rax") \o <<I("neg", n, Rax, Rax)>>
        \o (IF r = "rax" THEN <<>> ELSE <<I("mov", n, Reg(r), Rax)>>)

(* ++ and --, before or after the value is taken.                           *)
Step(e, r) ==
  LET n == AnnotatedSize(e.e)
      there == Mem("r11", 0)
      change == I(IF e.inc THEN "add" ELSE "sub", n, there, Imm(1))
  IN  Address(e.e, "r11")
        \o (IF e.pre THEN <<change>> \o LoadPlain("rax", n, there)
            ELSE LoadPlain("rax", n, there) \o <<Push("rax"), change, Pop("rax")>>)
        \o FromRax(r)

(* A two-operand mul is no instruction: the encoder emits nothing for it.   *)
(* Neither do the operators that have no branch.                            *)
Operation(e) ==
  LET n == OpSize(e)  sg == OpSigned(e)
  IN  CASE e.op = "+" -> <<I("add", n, Rax, Rcx)>>
        [] e.op = "-" -> <<I("sub", n, Rax, Rcx)>>
        [] e.op = "*" -> IF sg THEN <<I("imul", n, Rax, Rcx)>> ELSE <<>>
        [] e.op = "/" -> <<Div(sg, n)>>
        [] e.op = "%" -> <<Div(sg, n), I("mov", n, Rax, Reg("rdx"))>>
        [] e.op = "&&" -> <<I("nz", 8, Rax, Rax), I("nz", 8, Rcx, Rcx), I("and", 8, Rax, Rcx)>>
        [] e.op = "||" -> <<I("or", 8, Rax, Rcx), I("nz", 8, Rax, Rax)>>
        [] e.op \in Relations -> <<Cmp(e.op, sg, n)>>
        [] OTHER -> <<>>

(* Mutant: the right operand is computed while the left one is in rax only. *)
BinaryUnsaved(e, r) ==
  Expr(e.l, "rax") \o Expr(e.r, "rcx") \o Operation(e) \o FromRax(r)
Binary(e, r) ==
  Expr(e.l, "rax") \o <<Push("rax")>> \o Expr(e.r, "rcx") \o <<Pop("rax")>>
    \o Operation(e) \o FromRax(r)

Expr(e, r) ==
  CASE e.k = "par" -> Expr(e.e, r)
    [] e.k = "lit" -> <<I("mov", 8, Reg(r), Imm(e.v))>>
    [] e.k = "var" ->
         LoadVariable(r, Visited(e), Locals[e.x].n > 8, Slot(e.x))
    [] e.k = "glob" -> LoadVariable(r, Int32, FALSE, Global(e.x, -4))
    [] e.k = "call" -> HlCall(e) \o FromRax(r)
    [] e.k = "ctor" -> Temporary(e, r)
    [] e.k = "union" -> UnionValue(e, r)
    [] e.k = "idx" -> Subscript(e, "r11") \o LoadPlain(r, e.n, Mem("r11", 0))
    [] e.k = "fld" -> Address(e, "r11") \o LoadPlain(r, e.n, Mem("r11", 0))
    [] e.k = "addr" -> IF e.e.k = "glob" THEN <<I("lea", 8, Reg(r), Global(e.e.x, 0))>>
                       ELSE IF e.e.k \in {"var", "fld"} THEN Address(e.e, r) ELSE <<>>
    [] e.k = "neg" -> Negation(e, r)
    [] e.k = "not" -> Expr(e.e, "rax") \o <<I("isz", 8, Rax, Rax)>> \o FromRax(r)
    [] e.k = "step" -> Step(e, r)
    [] e.k = "bin" -> Binary(e, r)
    [] e.k = "deref" -> <<>>

Address(e, r) ==
  CASE e.k = "var" -> <<I("lea", 8, Reg(r), Slot(e.x))>>
    [] e.k = "glob" -> <<I("lea", 8, Reg(r), Global(e.x, PlaceAddend))>>
    [] e.k = "fld" ->
         (IF e.arrow THEN Expr(e.base, r) ELSE Address(e.base, r))
           \o (IF e.at > 0 THEN <<I("add", 8, Reg(r), Imm(e.at))>> ELSE <<>>)
    [] e.k = "idx" -> Subscript(e, r)
    [] e.k = "deref" -> Expr(e.e, r)

-----------------------------------------------------------------------------
(* Code of statements.                                                      *)
Freed(e, n) == IF e.k \in {"call", "ctor"} THEN Add(AlignUp(n, 16)) ELSE <<>>

(* r10 holds the address while the arguments of a variant are computed.     *)
AssignVariant(s) == Address(s.l, "r10") \o Variant(s.r, "r10", 0, FALSE)

CompoundOps == ("+=" :> "add") @@ ("-=" :> "sub") @@ ("*=" :> "imul")

Compound(s, n) ==
  LET t == Info(s.l)
      there == Mem("r10", 0)
      load == IF n < 4 \/ (n = 4 /\ t.sg) THEN Ext(t.sg, n, Rax, there)
              ELSE I("mov", n, Rax, there)
      change == IF s.op \in DOMAIN CompoundOps
                THEN <<I(CompoundOps[s.op], 8, Rax, Rcx)>> ELSE <<>>
  IN  <<load>> \o change \o <<I("mov", n, there, Rax)>>

(* compile_assignment_stmt; an idiv of two operands is no instruction.      *)
Assignment(s) ==
  LET n == AnnotatedSize(s.l)
  IN  IF s.op = "=" /\ s.r.k = "union" THEN AssignVariant(s)
      ELSE Expr(s.r, "rcx") \o <<Push("rcx")>> \o Address(s.l, "r10") \o <<Pop("rcx")>>
             \o (IF s.op # "=" THEN Compound(s, n)
                 ELSE IF n > 8 THEN <<Copy("r10", "rcx", n)>> \o Freed(s.r, n)
                 ELSE <<I("mov", n, Mem("r10", 0), Rcx)>>)

(* compile_variable_decl_local.                                             *)
Declaration(s) ==
  LET n == Locals[s.x].n
      load == Expr(s.init, "rax")
  IN  IF s.init.k = "union" THEN Variant(s.init, "rbp", -Locals[s.x].at, TRUE)
      ELSE IF load = <<>> THEN <<>>
      ELSE load \o (IF n > 8
                    THEN <<I("lea", 8, Reg("rdi"), Slot(s.x)), Copy("rdi", "rax", n)>>
                           \o Freed(s.init, n)
                    ELSE <<I("mov", n, Slot(s.x), Rax)>>)

(* Type x { ... } builds the object in the slot of x.                       *)
Build(s) ==
  LET total == Len(s.args) + 1
  IN  Sub(Padding(total)) \o Arguments(s.args)
        \o <<I("lea", 8, Rax, Slot(s.x)), Push("rax")>> \o PopArguments(total)
        \o <<Call(s.f)>> \o Cleanup(total)

(* compile_local_statement.  A variant that nobody takes is removed from    *)
(* the stack; names, fields, elements, lists and literals give no code.     *)
Code(s) ==
  CASE s.k = "assign" -> Assignment(s)
    [] s.k = "decl" -> Declaration(s)
    [] s.k = "build" -> Build(s)
    [] s.k \in {"call", "union", "neg", "not", "step", "addr", "deref"} ->
         Expr(s, "rax") \o (IF s.k = "union" /\ s.n > 8 THEN Add(AlignUp(s.n, 16)) ELSE <<>>)
    [] OTHER -> <<>>

(* A binary expression must be an assignment: the other operators end the   *)
(* compilation.                                                             *)
Refused(s) == s.k = "bin"
-----------------------------------------------------------------------------
(* Running the code.                                                        *)
Start ==
  [reg |-> [r \in Registers |->
              CASE r = "rsp" -> Rbp - FrameSize [] r = "rbp" -> Rbp [] OTHER -> W(8) - 3],
   mem |-> Memory, log |-> <<>>]

Init ==
  /\ program \in Programs /\ ~Refused(program)
  /\ code = Code(program)
  /\ m = Start

Run ==
  /\ code # <<>>
  /\ m' = Execute(m, Head(code))
  /\ code' = Tail(code)
  /\ UNCHANGED program

Next == Run

Spec == Init /\ [][Next]_vars

-----------------------------------------------------------------------------
(* What a program means: values are integers, things larger than eight      *)
(* bytes are lists of bytes; s is the memory and the calls so far.          *)
RECURSIVE Type(_), Value(_, _), Place(_, _), Values(_, _), Written(_, _)

(* Operands of up to four bytes are promoted to int.                        *)
Promoted(e) == LET n == Max({4, Type(e.l).n, Type(e.r).n})
               IN  [n |-> n, sg |-> n = 4]

Type(e) ==
  CASE e.k \in {"par", "neg", "step"} -> Type(e.e)
    [] e.k = "not" -> Bool
    [] e.k = "bin" ->
         IF e.op \in Relations \cup {"&&", "||"} THEN Bool ELSE Promoted(e)
    [] OTHER -> Visited(e)

Typed(v, t) == Num(v, t.n, t.sg)
Read(s, a, t) == IF t.n > 8 THEN Peek(s.mem, a, t.n) ELSE Typed(Load(s.mem, a, t.n), t)
Wrote(s, a, n, v) ==
  [s EXCEPT !.mem = IF n > 8 THEN Poke(@, a, v) ELSE Store(@, a, n, v)]
Passed(v, n) == IF n > 8 THEN v ELSE Low(v, n)
Called(s, f, args) == [s EXCEPT !.log = Append(@, [f |-> f, args |-> args])]

Arithmetic(op, a, b) ==
  CASE op \in {"+", "+="} -> a + b
    [] op \in {"-", "-="} -> a - b
    [] op \in {"*", "*="} -> Product(Low(a, 8), Low(b, 8))
    [] op \in {"/", "/="} -> IF b = 0 THEN 0 ELSE Quotient(a, b)
    [] op = "%" -> IF b = 0 THEN 0 ELSE Remainder(a, b)

(* The arguments of a call, the last one first.                             *)
Values(args, s) ==
  IF args = <<>> THEN [v |-> <<>>, s |-> s]
  ELSE LET last == Value(Last(args), s)
           others == Values(Front(args), last.s)
       IN  [v |-> Append(others.v, last.v), s |-> others.s]

(* The bytes of a variant: the tag, then the arguments, the first one first.*)
Written(args, s) ==
  IF args = <<>> THEN [v |-> <<>>, s |-> s]
  ELSE LET one == Value(args[1], s)
           n == Type(args[1]).n
           rest == Written(Tail(args), one.s)
       IN  [v |-> (IF n > 8 THEN one.v ELSE Bytes(Low(one.v, n), n)) \o rest.v,
            s |-> rest.s]

Place(e, s) ==
  CASE e.k = "var" -> [v |-> Rbp - Locals[e.x].at, s |-> s]
    [] e.k = "glob" -> [v |-> Globals[e.x], s |-> s]
    [] e.k = "deref" -> Value(e.e, s)
    [] e.k = "fld" ->
         LET base == IF e.arrow THEN Value(e.base, s) ELSE Place(e.base, s)
         IN  [base EXCEPT !.v = @ + e.at]
    [] e.k = "idx" ->
         LET base == Value(e.base, s)
             index == Value(e.index, base.s)
         IN  [v |-> Low(base.v + index.v * e.n, 8), s |-> index.s]

Value(e, s) ==
  CASE e.k = "lit" -> [v |-> e.v, s |-> s]
    [] e.k = "par" -> Value(e.e, s)
    [] e.k \in {"var", "glob", "deref", "fld", "idx"} ->
         LET at == Place(e, s) IN [at EXCEPT !.v = Read(at.s, at.v, Type(e))]
    [] e.k = "addr" -> Place(e.e, s)
    [] e.k = "neg" -> LET a == Value(e.e, s) IN [a EXCEPT !.v = Typed(-a.v, Type(e))]
    [] e.k = "not" -> LET a == Value(e.e, s) IN [a EXCEPT !.v = Bit(a.v = 0)]
    [] e.k = "step" ->
         LET at == Place(e.e, s)
             old == Read(at.s, at.v, Type(e))
             new == Typed(IF e.inc THEN old + 1 ELSE old - 1, Type(e))
         IN  [v |-> IF e.pre THEN new ELSE old,
              s |-> Wrote(at.s, at.v, Type(e).n, Low(new, Type(e).n))]
    [] e.k = "bin" ->
         LET a == Value(e.l, s)
             b == Value(e.r, a.s)
             wide == Promoted(e)
             x == Typed(a.v, wide)  y == Typed(b.v, wide)
         IN  [v |-> CASE e.op \in Relations -> Bit(Holds(e.op, x, y))
                      [] e.op = "&&" -> IF a.v = 0 THEN 0 ELSE Bit(b.v # 0)
                      [] e.op = "||" -> IF a.v # 0 THEN 1 ELSE Bit(b.v # 0)
                      [] OTHER -> Typed(Arithmetic(e.op, x, y), wide),
              s |-> IF (e.op = "&&" /\ a.v = 0) \/ (e.op = "||" /\ a.v # 0)
                    THEN a.s ELSE b.s]
    [] e.k = "call" ->
         LET args == Values(e.args, s)
             this == IF e.this = <<>> THEN [v |-> 0, s |-> args.s]
                     ELSE IF e.this[1].arrow THEN Value(e.this[1].e, args.s)
                     ELSE Place(e.this[1].e, args.s)
             all == IF e.this = <<>> THEN args.v ELSE <<this.v>> \o args.v
             sig == Functions[e.f]
             passed == [k \in 1..Len(all) |-> Passed(all[k], sig.ps[k])]
         IN  [v |-> IF sig.ret > 8 THEN Filled(e.f, passed, sig.ret)
                    ELSE Num(Mix(e.f, passed), sig.ret, sig.sg),
              s |-> Called(this.s, e.f, passed)]
    [] e.k = "ctor" ->
         LET args == Values(e.args, s)
             sig == Functions[e.f]
             passed == [k \in 1..Len(args.v) |-> Passed(args.v[k], sig.ps[k])]
             bytes == Filled(e.f, passed, sig.ret)
         IN  [v |-> IF e.n > 8 THEN bytes ELSE MapThenSumSet(LAMBDA k : bytes[k] * W(k - 1), 1..e.n),
              s |-> Called(args.s, e.f, passed)]
    [] e.k = "union" ->
         LET rest == Written(e.args, s)
             bytes == Bytes(e.tag, 4) \o rest.v
         IN  [v |-> IF e.n > 8 THEN bytes ELSE MapThenSumSet(LAMBDA k : bytes[k] * W(k - 1), 1..e.n),
              s |-> rest.s]
    [] e.k = "assign" ->
         LET r == Value(e.r, s)
             at == Place(e.l, r.s)
             t == Type(e.l)
             v == IF e.op = "=" THEN r.v ELSE Arithmetic(e.op, Read(at.s, at.v, t), r.v)
         IN  [v |-> v, s |-> Wrote(at.s, at.v, t.n, Passed(v, t.n))]
    [] e.k = "decl" ->
         LET r == Value(e.init, s)
             n == Locals[e.x].n
         IN  [r EXCEPT !.s = Wrote(@, Rbp - Locals[e.x].at, n, Passed(r.v, n))]
    [] e.k = "build" ->
         LET args == Values(e.args, s)
             sig == Functions[e.f]
             passed == [k \in 1..Len(args.v) |-> Passed(args.v[k], sig.ps[k])]
             bytes == Filled(e.f, passed, sig.ret)
         IN  [v |-> bytes,
              s |-> [Called(args.s, e.f, passed) EXCEPT
                       !.mem = Poke(@, Rbp - Locals[e.x].at, bytes)]]

Meaning(p) == Value(p, [mem |-> Memory, log |-> <<>>]).s
-----------------------------------------------------------------------------
(* What the generator gets right: Exact(e, n, r) is that the low n bytes of *)
(* register r are those of the value.  Everything it leaves out goes wrong  *)
(* for some program: see AnyExpression.                                     *)
RECURSIVE Exact(_, _, _), Reachable(_), Leaf(_), Effect(_)

(* Nothing in e uses r10, or calls.                                         *)
Leaf(e) == CASE e.k \in {"lit", "var", "glob"} -> TRUE
             [] e.k \in {"par", "neg", "not"} -> Leaf(e.e)
             [] e.k = "bin" -> Leaf(e.l) /\ Leaf(e.r)
             [] e.k = "fld" -> Leaf(e.base)
             [] OTHER -> FALSE

(* Something of e happens besides its value.                                *)
Effect(e) == CASE e.k \in {"par", "neg", "not", "addr", "deref"} -> Effect(e.e)
               [] e.k = "bin" -> Effect(e.l) \/ Effect(e.r)
               [] e.k = "fld" -> Effect(e.base)
               [] e.k = "idx" -> Effect(e.base) \/ Effect(e.index)
               [] e.k = "union" -> \E k \in 1..Len(e.args) : Effect(e.args[k])
               [] OTHER -> e.k \in {"call", "step", "ctor"}

(* Address(e, r) is the place.                                              *)
Reachable(e) ==
  CASE e.k = "var" -> TRUE
    [] e.k = "glob" -> Landing(PlaceAddend) = 0
    [] e.k = "deref" -> Exact(e.e, 8, "r10")
    [] e.k = "fld" -> IF e.arrow THEN Exact(e.base, 8, "r11") ELSE Reachable(e.base)
    [] e.k = "idx" -> /\ e.n \in {1, 2, 4, 8}
                      /\ Exact(e.base, 8, "r10")
                      /\ Exact(e.index, 8, "rcx")
    [] OTHER -> FALSE

(* Larger things are passed in place, from a variable.                      *)
Given(args, sizes) ==
  \A k \in 1..Len(args) :
    IF sizes[k] > 8 THEN args[k].k = "var" ELSE Exact(args[k], sizes[k], "rax")

CallExact(e) ==
  /\ Given(e.args, [k \in 1..Len(e.args) |-> Functions[e.f].ps[k + Len(e.this)]])
  /\ e.this # <<>> => IF e.this[1].arrow THEN Exact(e.this[1].e, 8, "rax")
                      ELSE Reachable(e.this[1].e)

(* A variant's arguments are written with the size of their annotation.     *)
VariantExact(e) ==
  \A k \in 1..Len(e.args) :
    LET n == Type(e.args[k]).n
    IN  Exact(e.args[k], n, "rax") /\ AnnotatedSize(e.args[k]) = n

BuildExact(f, args) ==
  /\ Given(args, Functions[f].ps)
  /\ \A k \in 1..Len(args) : Functions[f].ps[k] <= 8

SameSign(e) == OpSigned(e) = Promoted(e).sg

AssignHandled(p, n) ==
  /\ Reachable(p.l)
  /\ CASE p.op # "=" -> p.op # "/=" /\ n <= 8 /\ Exact(p.r, n, "rcx")
       [] p.op = "=" /\ p.r.k = "union" ->
            VariantExact(p.r) /\ \A k \in 1..Len(p.r.args) : Leaf(p.r.args[k])
       [] p.op = "=" /\ p.r.k # "union" /\ n > 8 ->
            p.r.k = "var" \/ (p.r.k = "call" /\ CallExact(p.r))
       [] OTHER -> Exact(p.r, n, "rcx")

DeclHandled(e, n) ==
  CASE e.k = "union" -> VariantExact(e)
    [] e.k = "call" /\ n > 8 -> CallExact(e)
    [] e.k = "ctor" /\ n > 8 ->
         BuildExact(e.f, e.args) /\ \A k \in 1..Len(e.args) : Leaf(e.args[k])
    [] OTHER -> (n > 8 /\ e.k = "var") \/ (n <= 8 /\ Exact(e, n, "rax"))

Exact(e, n, r) ==
  CASE e.k = "lit" -> TRUE
    [] e.k = "par" -> Exact(e.e, n, r)
    [] e.k = "var" -> Locals[e.x].n <= 8
    [] e.k = "glob" -> Landing(-4) = 0
    [] e.k = "addr" -> \/ e.e.k = "glob" /\ Landing(0) = 0
                       \/ e.e.k \in {"var", "fld"} /\ Reachable(e.e)
    [] e.k = "neg" -> n <= Visited(e).n /\ Exact(e.e, Visited(e).n, "rax")
    [] e.k = "not" -> Exact(e.e, 8, "rax")
    [] e.k = "step" -> Reachable(e.e) /\ (n <= Type(e).n \/ ~Type(e).sg)
    [] e.k = "fld" -> Reachable(e) /\ n <= e.n
    [] e.k = "idx" -> Reachable(e) /\ n <= e.n
    [] e.k = "call" ->
         n <= Functions[e.f].ret /\ Functions[e.f].ret <= 8 /\ CallExact(e)
    [] e.k = "ctor" ->
         /\ r = "rax" /\ n <= e.n /\ e.n <= 8
         /\ Given(e.args, Functions[e.f].ps)
         /\ \A k \in 1..Len(e.args) : Leaf(e.args[k])
    [] e.k = "union" ->
         n <= e.n /\ e.n <= 8 /\ VariantExact(e)
    [] e.k = "bin" /\ e.op \in {"+", "-", "*"} ->
         /\ n <= OpSize(e) /\ Exact(e.l, n, "rax") /\ Exact(e.r, n, "rcx")
         /\ n <= Type(e).n
         /\ e.op = "*" => OpSigned(e)
    [] e.k = "bin" /\ e.op \in {"/", "%"} ->
         /\ n <= OpSize(e) /\ n <= Type(e).n /\ SameSign(e)
         /\ Exact(e.l, OpSize(e), "rax") /\ Exact(e.r, OpSize(e), "rcx")
    [] e.k = "bin" /\ e.op \in Relations ->
         /\ SameSign(e)
         /\ Exact(e.l, OpSize(e), "rax") /\ Exact(e.r, OpSize(e), "rcx")
    [] e.k = "bin" /\ e.op \in {"&&", "||"} ->
         /\ Exact(e.l, 8, "rax") /\ Exact(e.r, 8, "rcx") /\ ~Effect(e.r)
    [] e.k = "assign" -> AssignHandled(e, Type(e.l).n)
    [] e.k = "decl" -> DeclHandled(e.init, Locals[e.x].n)
    [] e.k = "build" -> BuildExact(e.f, e.args)
    [] OTHER -> FALSE

(* Of the statements, those that give no code.                              *)
Silent(p) ==
  \/ p.k = "addr" /\ p.e.k \notin {"var", "glob", "fld"}
  \/ p.k \in {"lit", "var", "glob", "par", "idx", "fld", "deref", "ctor"}

(* As a statement, what gives no code must have no effect.                  *)
Handled(p) ==
  CASE Silent(p) -> ~Effect(p)
    [] p.k = "union" -> VariantExact(p)
    [] OTHER -> Exact(p, 0, "rax")

HandledPrograms == {p \in Programs : ~Refused(p) /\ Handled(p)}

Calls(log) == [k \in 1..Len(log) |-> [f |-> log[k].f, args |-> log[k].args]]

(* The variables and the calls are those the program means.                 *)
Meanings == [p \in Programs |-> Meaning(p)]

AsMeant(p) ==
  LET s == Meanings[p]
  IN  /\ \A x \in (Rbp - FrameSize)..(Top - 1) : m.mem[x] = s.mem[x]
      /\ Calls(m.log) = s.log

-----------------------------------------------------------------------------
(* Of the programs the generator handles, what the instructions do at the   *)
(* end to variables, and what they call with which arguments, is what the   *)
(* program means: no operand is lost in the pushes, calls and narrower      *)
(* registers between (compile_expr_to_reg, compile_assignment_stmt,         *)
(* compile_variable_decl_local, compile_hl_call_statement).                 *)
ResultsRight == code = <<>> /\ program \in HandledPrograms => AsMeant(program)

(* The stack pointer comes back to the bottom of the frame, and is never    *)
(* above it on the way: no push or temporary is left, none is taken twice.  *)
StackKept ==
  /\ program \in HandledPrograms => m.reg["rsp"] <= Rbp - FrameSize
  /\ code = <<>> /\ program \in HandledPrograms => m.reg["rsp"] = Rbp - FrameSize

RECURSIVE CallsIn(_)
CallsIn(e) == CASE e.k \in {"par", "neg", "not", "step", "addr", "deref"} -> CallsIn(e.e)
                [] e.k = "bin" -> CallsIn(e.l) + CallsIn(e.r)
                [] e.k = "idx" -> CallsIn(e.base) + CallsIn(e.index)
                [] e.k = "fld" -> CallsIn(e.base)
                [] e.k \in {"call", "ctor", "union", "build"} ->
                     MapThenSumSet(LAMBDA k : CallsIn(e.args[k]), 1..Len(e.args))
                       + (IF e.k = "union" THEN 0 ELSE 1)
                [] e.k = "assign" -> CallsIn(e.l) + CallsIn(e.r)
                [] e.k = "decl" -> CallsIn(e.init)
                [] OTHER -> 0

Outermost(p) ==
  CASE p.k = "assign" -> CallsIn(p.l) = 0 /\ p.r.k \in {"call", "ctor"}
    [] p.k = "decl" -> p.init.k \in {"call", "ctor"}
    [] OTHER -> p.k \in {"call", "build"}

(* A call that no pushed operand or argument waits for is made with the     *)
(* stack pointer a multiple of sixteen away from the frame pointer: the     *)
(* padding is right for any number of arguments, with and without an object *)
(* or a place for the result.  Whether that is aligned is up to the frame:  *)
(* see AlignedBeforeCall.                                                   *)
CallsAligned ==
  CallsIn(program) = 1 /\ Outermost(program)
    => \A k \in 1..Len(m.log) : (m.log[k].rsp - Rbp) % 16 = 0

(* driver.cts:829: the frame is rounded "to keep %rsp 16-byte-aligned       *)
(* before any CALL instruction".  It is the distance of rsp from rbp that   *)
(* is rounded, and rbp itself is not aligned in the main of an executable,  *)
(* which the kernel enters without a call (987-1002).                       *)
AlignedBeforeCall == \A k \in 1..Len(m.log) : m.log[k].rsp % 16 = 0

(* changelogs/v32.0.0-rev1.0/changelog:617 says that any expression is      *)
(* evaluated and its value loaded into the requested register.              *)
AnyExpression == code = <<>> => AsMeant(program)
=============================================================================
