---------------------------- MODULE MCRaptorExpr ----------------------------
(***************************************************************************)
(* Statements over a frame with variables of every width, an array, two    *)
(* structures and a pointer; functions that take one to eight arguments    *)
(* and return one to twenty-four bytes.                                    *)
(***************************************************************************)
EXTENDS RaptorExpr

Local(at, n, sg) == [at |-> at, n |-> n, sg |-> sg]

MCByte == 4
MCTop == 256
(* The frame pointer of a function, and that of the main of an executable,  *)
(* which is entered with an aligned stack and no return address on it.      *)
MCRbp == 240
MCEntryRbp == 232
MCFrameSize == 96
MCGlobals == "g" :> 248
(* int a, b; an enumeration u; char c; bool t; int16_t w; an array arr of   *)
(* two int and a pointer p to it; structures s, q; a union x.               *)
MCLocals ==
  ("a" :> Local(4, 4, TRUE)) @@ ("b" :> Local(8, 4, TRUE)) @@ ("u" :> Local(12, 4, FALSE))
  @@ ("c" :> Local(13, 1, TRUE)) @@ ("t" :> Local(14, 1, FALSE)) @@ ("w" :> Local(16, 2, TRUE))
  @@ ("arr" :> Local(32, 4, TRUE)) @@ ("p" :> Local(40, 8, FALSE))
  @@ ("s" :> Local(56, 12, FALSE)) @@ ("q" :> Local(80, 24, FALSE)) @@ ("x" :> Local(88, 8, FALSE))

Function(ps, ret, ctor, id) ==
  [ps |-> ps, ret |-> ret, sg |-> TRUE, ctor |-> ctor, id |-> id]
MCFunctions ==
  ("f" :> Function(<<4>>, 4, FALSE, 1)) @@ ("two" :> Function(<<4, 4>>, 1, FALSE, 2))
  @@ ("sum" :> Function(<<4, 4, 4, 4, 4, 4, 4, 8>>, 4, FALSE, 3))
  @@ ("seven" :> Function(<<8, 4, 4, 4, 4, 4, 4>>, 4, FALSE, 4))
  @@ ("of" :> Function(<<12, 4>>, 4, FALSE, 5)) @@ ("get" :> Function(<<8, 4>>, 4, FALSE, 6))
  @@ ("mid" :> Function(<<4, 4>>, 12, FALSE, 7)) @@ ("big" :> Function(<<4, 4>>, 24, FALSE, 8))
  @@ ("Small" :> Function(<<4, 4>>, 8, TRUE, 9)) @@ ("S" :> Function(<<4, 4>>, 12, TRUE, 10))

Put2(mem, a, n, v) == Poke(mem, a, Bytes(v % W(n), n))
MemoryAt(rbp) ==
  LET zero == [k \in 0..MCTop - 1 |-> k % 3]
      put(mem, x, v) == Put2(mem, rbp - MCLocals[x].at, MCLocals[x].n, v)
      scalars == put(put(put(put(put(put(zero, "a", -3), "b", 5), "u", 2), "c", -1), "w", -9), "t", 1)
      arr == Put2(Put2(scalars, rbp - 32, 4, 7), rbp - 28, 4, -2)
  IN  Put2(put(arr, "p", rbp - 32), 248, 4, -6)
MCMemory == MemoryAt(MCRbp)
MCEntryMemory == MemoryAt(MCEntryRbp)

-----------------------------------------------------------------------------
Lit(v) == [k |-> "lit", v |-> v]
Var(x) == [k |-> "var", x |-> x]
G == [k |-> "glob", x |-> "g"]
One(k, e) == [k |-> k, e |-> e]
Bin(op, l, r) == [k |-> "bin", op |-> op, l |-> l, r |-> r]
Fld(arrow, base, at, n) == [k |-> "fld", arrow |-> arrow, base |-> base, at |-> at, n |-> n]
Idx(base, index, n) == [k |-> "idx", base |-> base, index |-> index, n |-> n]
StepOf(pre, inc, e) == [k |-> "step", pre |-> pre, inc |-> inc, e |-> e]
CallOf(f, args) == [k |-> "call", f |-> f, args |-> args, this |-> <<>>]
Method(arrow, e, args) ==
  [k |-> "call", f |-> "get", args |-> args, this |-> <<[arrow |-> arrow, e |-> e]>>]
Ctor(f, n, args) == [k |-> "ctor", f |-> f, n |-> n, args |-> args]
Union(n, tag, args) == [k |-> "union", n |-> n, tag |-> tag, args |-> args]

Ops == {"+", "-", "*", "/", "%", "&&", "||", "<", ">=", "=="}
Scalars == {Var("a"), Var("u"), Var("c"), Var("w"), Var("t"), G, Lit(2)}
Few == {Var("a"), Var("b"), Lit(2)}

Places == {Var("a"), Var("c"), Fld(FALSE, Var("s"), 4, 4), Fld(TRUE, Var("p"), 4, 2),
           Idx(Var("p"), Lit(1), 4), [k |-> "deref", e |-> Var("p"), n |-> 4],
           Idx(Var("p"), Bin("<", Var("a"), CallOf("f", <<Lit(2)>>)), 1), G}
Simple ==
  {Bin(op, l, r) : op \in Ops, l \in Scalars, r \in Scalars}
  \cup {One(k, e) : k \in {"neg", "not", "par"}, e \in Scalars}
  \cup {StepOf(pre, inc, e) : pre \in BOOLEAN, inc \in BOOLEAN, e \in Places}
Addresses == {One("addr", e) : e \in {Var("arr"), Fld(FALSE, Var("s"), 4, 4), G, Idx(Var("p"), Lit(1), 4)}}
Compound2 ==
  {CallOf("f", <<Var("a")>>), CallOf("two", <<Var("a"), Var("c")>>),
   CallOf("sum", <<Var("a"), Var("b"), Lit(1), Var("c"), Lit(3), Var("u"), Lit(4), Var("p")>>),
   CallOf("seven", <<Var("p"), Var("b"), Lit(1), Var("c"), Lit(3), Var("u"), Lit(4)>>),
   CallOf("of", <<Var("s"), Var("b")>>), Method(FALSE, Var("s"), <<Var("b")>>),
   Method(TRUE, Var("p"), <<Lit(1)>>), Bin("+", Var("a"), Var("b")), Bin("<", Var("a"), Var("b")),
   Bin("-", Var("b"), Lit(2)), One("neg", Var("a")), StepOf(FALSE, TRUE, Var("a")),
   StepOf(TRUE, FALSE, Var("b")), Idx(Var("p"), Bin("<", Var("c"), Var("b")), 4),
   Fld(TRUE, Var("p"), 4, 4), One("par", Bin("-", Var("a"), Var("b"))), One("not", Var("c"))}
(* Compounds of four bytes, for the payload of a variant.                   *)
Ints == {e \in Compound2 \cup Few : Type(e).n = 4}
Nested ==
  {Bin(op, l, r) : op \in Ops, l \in Compound2 \cup Few, r \in Compound2 \cup Few}
  \cup {CallOf("two", <<l, r>>) : l \in Compound2, r \in Compound2}
  \cup {Method(FALSE, Var("s"), <<e>>) : e \in Compound2}
  \cup {CallOf("f", <<e>>) : e \in Simple}
  \cup {Idx(Var("p"), Bin("<", e, Lit(1)), 4) : e \in Compound2}

Assign(op, l, r) == [k |-> "assign", op |-> op, l |-> l, r |-> r]
Decl(x, e) == [k |-> "decl", x |-> x, init |-> e]
MCPrograms ==
  {Assign("=", Var("a"), e) : e \in Simple \cup Nested}
  \cup {Assign(op, l, r) : op \in {"=", "+=", "-=", "*=", "/="}, l \in Places, r \in Compound2 \cup Few}
  \cup {Assign("=", Var("p"), e) : e \in Addresses} \cup {Decl("p", e) : e \in Addresses}
  \cup {Decl(x, e) : x \in {"b", "c", "w", "t"}, e \in Simple \cup Compound2}
  \cup {Decl("x", e) : e \in {Ctor("Small", 8, <<l, r>>) : l \in Few, r \in Compound2}
                             \cup {Union(8, 1, <<l>>) : l \in Ints}}
  \cup {Decl("s", e) : e \in {CallOf("mid", <<l, r>>) : l \in Few, r \in Compound2}
                             \cup {Ctor("S", 12, <<l, r>>) : l \in Compound2, r \in Few}
                             \cup {Union(12, 3, <<l, r>>) : l \in Few, r \in Few}}
  \cup {Decl("q", CallOf("big", <<l, r>>)) : l \in Few, r \in Compound2}
  \cup {Assign("=", Var("q"), CallOf("big", <<l, r>>)) : l \in Few, r \in Compound2}
  \cup {Assign("=", Var("s"), e) : e \in {CallOf("mid", <<Lit(1), Lit(2)>>), Ctor("S", 12, <<Lit(1), Lit(2)>>)}
                                         \cup {Union(12, 3, <<l, r>>) : l \in Few, r \in Ints}}
  \cup {[k |-> "build", x |-> "s", f |-> "S", args |-> <<l, r>>] : l \in Compound2, r \in Compound2}
  \cup Compound2 \cup Addresses
  \cup {Union(8, 1, <<e>>) : e \in Ints} \cup {Union(12, 3, <<l, r>>) : l \in Few, r \in Ints}

(* One call, of one argument to eight.                                      *)
MCCalls == {e \in Compound2 : e.k = "call"} \cup {Assign("=", Var("a"), e) : e \in {e \in Compound2 : e.k = "call"}}
=============================================================================
