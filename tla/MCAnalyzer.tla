---------------------------- MODULE MCAnalyzer ----------------------------
(* Programs of declarations that use every construct, in every order. *)
EXTENDS Analyzer

\* Types as written.
T(n)        == [t |-> "name", path |-> <<n>>]
TPtr(x)     == [t |-> "pointer", of |-> x]
TConst(x)   == [t |-> "const", of |-> x]
TBox(x)     == [t |-> "template", path |-> <<"box">>, args |-> <<x>>]
TIn(ns, n, x) == [t |-> "template", path |-> <<ns, n>>, args |-> <<x>>]
TNsBox(x)   == [t |-> "template", path |-> <<"std", "cell">>, args |-> <<x>>]
I32 == T("int32_t")
Char == T("char")

\* Expressions.
Num        == [e |-> "literal", lit |-> "number"]
True       == [e |-> "literal", lit |-> "boolean"]
Str        == [e |-> "literal", lit |-> "string"]
Me       == [e |-> "this"]
N(p)       == [e |-> "name", path |-> p]
V(n)       == N(<<n>>)
Inst(p, t) == [e |-> "instance", path |-> p, args |-> <<t>>]
Dot(b, n)  == [e |-> "member", base |-> b, op |-> ".", name |-> n]
Arrow(b, n) == [e |-> "member", base |-> b, op |-> "->", name |-> n]
Calls(c, a) == [e |-> "call", caller |-> c, args |-> a]
Made(t, a) == [e |-> "braces", type |-> t, args |-> a]
Bin(op, l, r) == [e |-> op, left |-> l, right |-> r]
Un(op, x)  == [e |-> op, of |-> x]
Cast(how, t, x) == [e |-> "cast", how |-> how, type |-> t, of |-> x]
Measure(t) == [e |-> "sizeof", type |-> t]

\* Statements and declarations.
Stmt(x)     == [k |-> "expression", x |-> x]
Block(s)    == [k |-> "block", body |-> s]
Loop(c, s)  == [k |-> "while", condition |-> Stmt(c), body |-> Block(s)]
Labelled(l, s) == [k |-> "label", label |-> l, statement |-> s]
JumpTo(l)   == [k |-> "jump", label |-> l]
When(c, s)  == [k |-> "if", condition |-> Stmt(c), branches |-> <<Block(s)>>]
Var(n, t, i) == [k |-> "variable", name |-> n, type |-> t, init |-> i, hasBraces |-> FALSE,
                 extern |-> FALSE]
VarOf(n, t, b) == [k |-> "variable", name |-> n, type |-> t, init |-> b, hasBraces |-> TRUE, extern |-> FALSE]
Param(n, t) == [name |-> n, type |-> t]
Func(struct, n, tp, ps, r, b) ==
    [k |-> "function", ns |-> <<>>, struct |-> struct, name |-> <<n>>, tparams |-> tp, params |-> ps,
     ret |-> r, qualifier |-> "", access |-> "pub", body |-> b, instance |-> None]
Ctor(f)     == [f EXCEPT !.qualifier = "constructor"]
Dtor(f)     == [f EXCEPT !.qualifier = "destructor"]
Field(n, t, a) == [name |-> n, type |-> t, access |-> a]
Struct(n, tp, f) == [k |-> "struct", name |-> <<n>>, tparams |-> tp, fields |-> f, instance |-> None]
Space(n, b) == [k |-> "namespace", name |-> n, body |-> b]

\* A plain struct with a private field, its methods, one of which uses templates.
Car == Struct("Car", <<>>, <<Field("c", Char, "pub"), Field("n", I32, "pub"),
                             Field("key", TPtr(TConst(Char)), "priv"), Field("s", T("int16_t"), "priv")>>)
CarNew  == Ctor(Func(<<"Car">>, "init", <<>>, <<Param("n", I32)>>, <<T("Car")>>,
                     <<Stmt(Bin("assign", Arrow(Me, "n"), V("n"))),
                       Stmt(Bin("assign", Arrow(Me, "key"), Str)), Stmt(Me)>>))
CarGet  == Func(<<"Car">>, "get", <<>>, <<>>, <<T("int16_t")>>, <<Stmt(Arrow(Me, "s"))>>)
CarEnd  == Dtor(Func(<<"Car">>, "end", <<>>, <<>>, <<>>, <<>>))
CarUse  == Func(<<"Car">>, "use", <<>>, <<Param("o", TPtr(T("Self")))>>, <<>>,
                <<Stmt(Arrow(V("o"), "s")), Stmt(Calls(Inst(<<"same">>, I32), <<Num>>)),
                  Stmt(Arrow(Me, "s"))>>)
CarPeek == Func(<<>>, "peek", <<>>, <<Param("o", T("Car"))>>, <<I32>>, <<Stmt(Dot(V("o"), "s"))>>)
CarMain == Func(<<>>, "main", <<>>, <<>>, <<>>,
                <<VarOf("a", T("Car"), <<Num>>), Var("b", TPtr(T("Car")), <<Un("address", V("a"))>>),
                  Stmt(Bin("assign", Dot(V("a"), "n"), Calls(Arrow(V("b"), "get"), <<>>))),
                  Var("z", I32, <<Measure(T("Car"))>>)>>)

\* Function templates: one with a loop and a local, one that calls itself.
Same == Func(<<>>, "same", <<"T">>, <<Param("v", T("T"))>>, <<T("T")>>,
             <<Var("w", T("T"), <<V("v")>>), Loop(True, <<JumpTo("")>>), Stmt(V("w"))>>)
Again == Func(<<>>, "again", <<"T">>, <<Param("v", T("T"))>>, <<>>,
              <<Stmt(Calls(Inst(<<"again">>, T("T")), <<V("v")>>))>>)
UseThem == Func(<<>>, "both", <<>>, <<Param("w", I32)>>, <<>>,
                <<Loop(Bin("compare", V("w"), Num),
                       <<Stmt(Calls(Inst(<<"same">>, I32), <<V("w")>>)), JumpTo("")>>),
                  Stmt(Calls(Inst(<<"again">>, Char), <<Num>>))>>)

\* A struct template with a constructor and a method, and a function over it.
BoxStruct == Struct("box", <<"T">>, <<Field("full", T("bool"), "priv"), Field("v", T("T"), "pub")>>)
BoxNew == Ctor(Func(<<"box">>, "init", <<"T">>, <<Param("v", T("T"))>>, <<TBox(T("T"))>>,
                    <<Stmt(Bin("assign", Arrow(Me, "full"), True)),
                      Stmt(Bin("assign", Arrow(Me, "v"), V("v"))), Stmt(Me)>>))
BoxGet == Func(<<"box">>, "get", <<>>, <<>>, <<T("T")>>, <<Stmt(Arrow(Me, "v"))>>)
BoxAll == Space(<<"std">>, <<Struct("cell", <<"T">>, <<Field("v", TPtr(T("T")), "pub")>>),
                             Ctor(Func(<<"cell">>, "init", <<"T">>, <<Param("v", TPtr(T("T")))>>,
                                       <<TNsBox(T("T"))>>, <<Stmt(Me)>>)),
                             Func(<<>>, "fill", <<"T">>, <<Param("v", TPtr(T("T")))>>, <<TNsBox(T("T"))>>,
                                  <<Stmt(Made(TNsBox(T("T")), <<V("v")>>))>>)>>)
UseBox == Func(<<>>, "ubox", <<>>, <<>>, <<>>,
               <<VarOf("b", TBox(I32), <<Num>>), Stmt(Calls(Dot(V("b"), "get"), <<>>))>>)
UseCell == Func(<<>>, "ucell", <<>>, <<Param("p", TPtr(Char))>>, <<>>,
                <<Stmt(Calls(Inst(<<"std", "fill">>, Char), <<V("p")>>)),
                  Var("c", TPtr(TNsBox(Char)), <<Cast("static_cast", TPtr(TNsBox(Char)), V("p"))>>)>>)

\* A function template whose parameter is an instance of a struct template with
\* a method that calls the function: it is asked for while it is being built.
Ring == Space(<<"ring">>, <<
    Struct("iter", <<"T">>, <<Field("at", TPtr(T("T")), "pub")>>),
    Func(<<>>, "ends", <<"T">>, <<Param("i", TPtr(TIn("ring", "iter", T("T"))))>>, <<>>, <<>>),
    Func(<<"iter">>, "end", <<"T">>, <<>>, <<>>,
         <<Stmt(Calls(Inst(<<"ring", "ends">>, T("T")), <<Me>>))>>),
    Func(<<>>, "twice", <<>>, <<Param("i", TPtr(TIn("ring", "iter", I32)))>>, <<>>, <<>>)>>)
UseRing == Func(<<>>, "uring", <<>>, <<>>, <<>>,
                <<Stmt(Inst(<<"ring", "ends">>, I32)), Stmt(Inst(<<"ring", "ends">>, Char))>>)

\* A namespace with overloads, a constant, an anonymous namespace.
Names == Space(<<"std">>, <<Var("MAX", TConst(I32), <<Num>>),
            Func(<<>>, "f", <<>>, <<Param("x", T("bool"))>>, <<>>, <<>>),
            Func(<<>>, "f", <<>>, <<Param("x", I32)>>, <<>>, <<Stmt(Calls(V("f"), <<V("MAX")>>))>>),
            Space(None, <<Func(<<>>, "hid", <<>>, <<>>, <<I32>>, <<Stmt(V("MAX"))>>)>>),
            Func(<<>>, "g", <<>>, <<>>, <<>>, <<Stmt(Calls(N(<<"this", "hid">>), <<>>))>>)>>)
UseNames == Func(<<>>, "names", <<>>, <<Param("p", TPtr(I32))>>, <<>>,
               <<Stmt(Calls(N(<<"std", "f">>), <<True>>)),
                 When(True, <<Var("p", TPtr(Char), <<V("p")>>)>>),
                 Stmt(Bin("assign", Bin("index", V("p"), Num), Num)), Stmt(N(<<"std", "MAX">>)),
                 Stmt(Un("dereference", V("p"))), Stmt(Calls(V("f"), <<Num>>))>>)
Plain == Func(<<>>, "f", <<>>, <<Param("x", I32)>>, <<I32>>, <<Stmt(V("x"))>>)

\* An enumeration, a union, a function that inspects one.
Shape == [k |-> "union", name |-> <<"Shape">>,
          variants |-> <<[name |-> "Circle", payload |-> <<I32>>],
                         [name |-> "Square", payload |-> <<T("char"), I32>>]>>]
Color == [k |-> "enum", name |-> <<"Color">>, members |-> {"RED"}]
UseShape == Func(<<>>, "inspect", <<>>, <<Param("c", T("Color"))>>, <<>>,
    <<Var("s", T("Shape"), <<Calls(N(<<"Shape", "Circle">>), <<Num>>)>>),
      Labelled("out", Loop(Bin("compare", V("c"), N(<<"Color", "RED">>)),
        <<[k |-> "inspect", target |-> V("s"),
           cases |-> <<[variant |-> "Square", names |-> <<"a", "b">>,
                        body |-> Block(<<Stmt(V("b")), Loop(True, <<JumpTo("out")>>)>>)],
                       [variant |-> "_", names |-> <<>>, body |-> Block(<<JumpTo("")>>)]>>]>>)),
      Labelled("blk", Block(<<Stmt(V("s"))>>))>>)

\* Programs that are refused: jumps and declarations out of place.
LostJump == Func(<<>>, "lost", <<>>, <<>>, <<>>, <<Labelled("l", Block(<<JumpTo("l")>>))>>)
Inner    == Space(None, <<Space(None, <<>>)>>)
BadLabel == Func(<<>>, "label", <<>>, <<>>, <<>>, <<Labelled("l", Stmt(Num))>>)
Nested   == Func(<<>>, "outer", <<>>, <<>>, <<>>, <<Plain>>)

MCItems ==
    [car |-> Car, new |-> CarNew, get |-> CarGet, end |-> CarEnd, use |-> CarUse,
     peek |-> CarPeek, main |-> CarMain, same |-> Same, again |-> Again, both |-> UseThem,
     box |-> BoxStruct, boxnew |-> BoxNew, boxget |-> BoxGet, cell |-> BoxAll, ubox |-> UseBox,
     ucell |-> UseCell, names |-> Names, unames |-> UseNames, plain |-> Plain,
     shape |-> Shape, color |-> Color, ushape |-> UseShape, lost |-> LostJump,
     ring |-> Ring, uring |-> UseRing, anon |-> Inner, label |-> BadLabel, nested |-> Nested, top |-> Stmt(Num)]

RECURSIVE PartsT(_), PartsE(_), ExprsOf(_)
PartsT(t) == {t} \cup (CASE t.t = "name" -> {}
                         [] t.t = "template" -> UNION {PartsT(t.args[i]) : i \in DOMAIN t.args}
                         [] OTHER -> PartsT(t.of))
PartsE(x) ==
    {x} \cup UNION {PartsE(x[f]) : f \in DOMAIN x \cap {"base", "caller", "left", "right", "of"}}
        \cup (IF x.e \in {"call", "braces"} THEN UNION {PartsE(x.args[i]) : i \in DOMAIN x.args} ELSE {})
TypesE(x) == (IF "type" \in DOMAIN x THEN {x.type} ELSE {})
             \cup (IF x.e = "instance" THEN ToSet(x.args) ELSE {})

\* The nodes of a declaration.
RECURSIVE NodesOf(_)
NodesOf(n) ==
    {n} \cup (IF n.k \in {"block", "function", "namespace"}
              THEN UNION {NodesOf(n.body[i]) : i \in DOMAIN n.body} ELSE {})
        \cup (IF n.k = "while" THEN NodesOf(n.condition) \cup NodesOf(n.body) ELSE {})
        \cup (IF n.k = "if" THEN NodesOf(n.condition) \cup UNION {NodesOf(n.branches[i]) : i \in DOMAIN n.branches} ELSE {})
        \cup (IF n.k = "label" THEN NodesOf(n.statement) ELSE {})
        \cup (IF n.k = "inspect" THEN UNION {NodesOf(n.cases[i].body) : i \in DOMAIN n.cases} ELSE {})

ExprsOf(n) ==
    CASE n.k = "expression" -> {n.x}
      [] n.k = "variable" -> ToSet(n.init)
      [] n.k = "inspect" -> {n.target}
      [] OTHER -> {}
TypesOf(n) ==
    CASE n.k = "variable" -> {n.type}
      [] n.k = "function" -> ToSet(n.ret) \cup {n.params[i].type : i \in DOMAIN n.params}
      [] n.k = "struct" -> {n.fields[i].type : i \in DOMAIN n.fields}
      [] n.k = "union" -> UNION {ToSet(n.variants[i].payload) : i \in DOMAIN n.variants}
      [] OTHER -> {}

MCNodes == UNION {NodesOf(MCItems[d]) : d \in DOMAIN MCItems}
MCExprs == UNION {PartsE(x) : x \in UNION {ExprsOf(n) : n \in MCNodes}}
MCTypeExprs == UNION {PartsT(t) : t \in UNION {TypesOf(n) : n \in MCNodes}
                                         \cup UNION {TypesE(x) : x \in MCExprs}}

\* The types these programs can name.
Bases ==
    {Primitive(p) : p \in DOMAIN PrimitiveSize}
    \cup {Declared("struct", n) : n \in {<<"Car">>, <<"box", "7int32_t">>, <<"std", "cell", "c">>,
                                          <<"ring", "iter", "7int32_t">>, <<"ring", "iter", "c">>}}
    \cup {Declared("union", <<"Shape">>), Declared("enum", <<"Color">>),
          Alias(<<"7int32_t">>, Qual(Primitive("int32_t"))), Alias(<<"c">>, Qual(Primitive("char")))}
Quals(types) == {[type |-> t, const |-> c] : t \in types, c \in BOOLEAN}
MCQualTypes ==
    LET q0 == Quals(Bases)
        q1 == Quals({Pointer(q) : q \in q0})
    IN  q0 \cup q1 \cup Quals({Pointer(q) : q \in q1}) \cup Quals({Reference(q) : q \in q0})
=============================================================================
