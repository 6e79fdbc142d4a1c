------------------------------ MODULE MCLinker ------------------------------
(***************************************************************************)
(* Programs for Linker: every order of a variable, a caller and a callee   *)
(* that the drivers treat differently, for both drivers and the three      *)
(* formats.                                                                *)
(***************************************************************************)
EXTENDS Linker

Var(name, section, size, binding) ==
  [kind |-> "var", name |-> name, section |-> section, size |-> size,
   binding |-> binding, bss |-> FALSE]
Uninitialised(name, size) == [Var(name, ".data", size, "GLOBAL") EXCEPT !.bss = TRUE]
Fn(name, role, public, size, references) ==
  [kind |-> "fn", name |-> name, role |-> role, public |-> public, size |-> size,
   refs |-> references]
Ref(name, place, use) == [name |-> name, at |-> place, use |-> use]
Info == [kind |-> "modinfo", size |-> 11]

Program(f, raptor, items) == [format |-> f, raptor |-> raptor, items |-> items]

d == Var("d", ".data", 5, "GLOBAL")
c == Var("c", ".rodata", 3, "GLOBAL")
s == Var("s", ".rodata", 3, "LOCAL")    \* a string literal: Raptor only
z == Uninitialised("z", 8)              \* Raptor only

f(public) == Fn("f", "plain", public, 13, << >>)
g(public, references) == Fn("g", "plain", public, 27, references)
main(references) == Fn("main", "main", TRUE, 35, references)
init(references) == Fn("init", "init", TRUE, 19, references)
exit == Fn("exit", "exit", TRUE, 9, << >>)

callF == Ref("f", 6, "call")
instrF == Ref("f", 6, "instr")
callG == Ref("g", 11, "call")
callExternal(use) == Ref("e", 11, use)
addressD == Ref("d", 18, "address")
valueD == Ref("d", 26, "value")
addressS == Ref("s", 18, "address")
addressExternal == Ref("e", 18, "address")
addressModule == Ref("this_module", 18, "address")

(* Executables: with and without constants, callee before or after main,    *)
(* perhaps an external function, which is reached through dynamic linking.  *)
Executables ==
  UNION {LET fn == main(<<call, addressD, valueD>>)
         IN {Program("exec", raptor, <<d, fn, f(public), c>>),
             Program("exec", raptor, <<c, d, f(public), fn, g(public, <<callF>>)>>)}
         : raptor \in BOOLEAN, public \in BOOLEAN, call \in {callF, instrF}}
  \cup UNION {{Program("exec", raptor, <<main(<<callExternal("call")>>)>>),
               Program("exec", raptor, <<c, d, main(<<callF, callExternal("instr")>>), f(TRUE)>>),
               Program("exec", raptor, <<main(<< >>)>>),
               Program("exec", raptor, <<main(<<callF, callG>>), g(TRUE, <<callF>>), f(FALSE), d, c>>),
               Program("exec", raptor, <<d, g(TRUE, <<callG>>)>>)}
              : raptor \in BOOLEAN}
  \cup {Program("exec", TRUE, <<z, d, s, main(<<addressS, valueD>>)>>),
        Program("exec", TRUE, <<z, init(<< >>), exit, main(<<Ref("init", 6, "call")>>)>>)}

SharedObjects ==
  UNION {{Program("so", raptor, <<d, f(public), g(~public, <<callF>>), main(<< >>)>>),
          Program("so", raptor, <<d, g(public, <<callF, addressD>>), f(TRUE)>>),
          Program("so", raptor, <<d, g(TRUE, <<callF>>), f(public), c>>),
          Program("so", raptor, <<g(TRUE, <<callExternal("call")>>), f(public)>>)}
         : raptor \in BOOLEAN, public \in BOOLEAN}
  \cup {Program("so", TRUE, <<z, s, f(TRUE), g(TRUE, <<addressS>>)>>)}

Modules ==
  UNION {{Program("ko", raptor, <<Info, Info, d, init(<<callExternal("call")>>), exit>>),
          Program("ko", raptor, <<Info, init(<<callF>>), f(public), main(<< >>)>>),
          Program("ko", raptor, <<d, f(public), g(~public, <<callF, callExternal("instr")>>),
                                  init(<<callG, addressD>>), exit>>),
          Program("ko", raptor, <<Info, f(public)>>)}
         : raptor \in BOOLEAN, public \in BOOLEAN}
  \cup UNION {{Program("ko", raptor, <<g(TRUE, <<addressExternal>>), init(references)>>)
               : references \in {<< >>, <<callExternal("call"), addressModule>>}}
              : raptor \in BOOLEAN}

MCPrograms == Executables \cup SharedObjects \cup Modules

MCHash == [name \in {"d", "c", "s", "z", "f", "g", "e", "main", "init", "exit", "this_module"} |->
             CASE name = "d" -> 0 [] name = "c" -> 3 [] name = "f" -> 1 [] name = "g" -> 4
               [] name = "main" -> 7 [] OTHER -> 2]
=============================================================================
