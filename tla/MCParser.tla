------------------------------ MODULE MCParser ------------------------------
(* Every pair of operators, every construct, and small graphs of imports.   *)
EXTENDS ModuleExpander, Grammar, FiniteSets, TLC

VARIABLE meant     \* path -> the statements that the file was written for
vars == <<expanderVars, meant>>

MCNumbers == {"1", "2"}
MCTexts == {"'a'", "'b'", "'m'", "'l'", "'gone'"}
MainFile == <<"here", "'m'">>
FileA == <<"here", "'a'">>
FileB == <<"here", "'b'">>
LibFile == <<"lib", "'l'">>

a == Id("a")
b == Id("b")
c == Id("c")
d == Id("d")
T == Id("T")
One == Lit("1")
Generically == Call(Gen(Id("f"), <<T>>), <<Id("y")>>)
Increment(x) == Post("++", x)

-----------------------------------------------------------------------------
(* Expressions: two operators, with a leaf of every kind in every place.     *)
Operators == {"=", "||", "&&", "|", "&", "==", "<", ">", ">>", "-", "*"}
Few == {"&&", "==", "<", ">>", "-", "*"}
Leaves == {Increment(a), Generically, Pre("-", a), Pre("*", a), Sub(a, One), Mem(".", a, Id("x")), Call(a, <<>>)}

Pairs(o1, o2, x, y, z) == {Bin(o1, Bin(o2, x, y), z), Bin(o1, x, Bin(o2, y, z))}
PairExprs == UNION {Pairs(o1, o2, a, b, c) : o1 \in Operators, o2 \in Operators}
LeafExprs ==
  UNION {UNION {Pairs(o1, o2, l, b, c), Pairs(o1, o2, b, l, c), Pairs(o1, o2, b, c, l)}
         : o1 \in Few, o2 \in Few, l \in Leaves}
\* Comparisons on both sides of a logical operator, assignments in a row, types in a call.
MoreExprs ==
  {Bin(o, Bin("<", a, b), Bin(">", x, d)) : o \in {"&&", "||", "&"}, x \in {c, Pre("-", c), Group(c)}}
  \cup {Bin("=", a, Bin("=", b, Bin("=", c, d))), Call(a, <<Bin("=", b, c)>>), Sub(a, Bin("<", b, c))}
  \cup {Call(Gen(Mem("::", a, b), <<t>>), <<c>>) :
          t \in {T, Post("*", T), Pre("const", T), Gen(T, <<T>>), Mem("::", a, T), <<"post", "*", Pre("const", T)>>}}
  \cup {<<"cast", "static_cast", Gen(T, <<T>>), Bin(">", a, b)>>, Lit("nullptr"), Lit("true"), <<"this", "this">>,
        Mem("->", <<"this", "this">>, a), Call(Mem(".", a, b), <<One, Bin("-", c, d)>>), <<"init", a, <<b, One>>>>,
        Pre("&", Sub(a, b)), Pre("!", Call(a, <<b>>)), Pre("-", Mem(".", a, b))}
  \cup {Increment(x) : x \in {a, Sub(a, One), Mem(".", a, b)}}
Exprs == PairExprs \cup LeafExprs \cup MoreExprs
Samples == {a, Bin("<", a, b), Bin("-", a, Bin("*", b, Call(c, <<d>>))), Generically, Bin("&&", Bin("<", a, b), Bin(">", c, d)),
            Bin("<", a, Bin(">>", b, One)), Bin("-", Increment(a), b), Group(Bin("=", a, b)),
            Bin("&&", Bin("<", a, b), Group(Bin(">", c, d)))}

-----------------------------------------------------------------------------
(* Statements.                                                               *)
None == <<"nothing">>
Var(mods, type, name, dims, init) == <<"var", mods, type, Id(name), dims, init>>
Init1(x) == Var(<<>>, T, "v", <<>>, x)
Param(mods, type, variadic, name) == <<"param", mods, type, variadic, name>>
Fn(name, params, return, body, how) == <<"fn", <<>>, "fn", name, params, return, body, how>>
Blocks(s) == <<"block", s>>
Set(x) == Bin("=", a, x)

Plain ==
  {Var(<<"const">>, Post("*", T), "v", <<>>, Pre("&", a)), Var(<<>>, Gen(T, <<Gen(T, <<T>>)>>), "v", <<>>, None),
   Var(<<>>, T, "v", <<One, None>>, None), Var(<<>>, Gen(Mem("::", a, T), <<T, T>>), "v", <<>>, <<"init", None, <<a, One>>>>),
   Var(<<>>, Post("const", T), "v", <<>>, None),
   Set(Bin("=", b, c)), Set(Bin("=", b, Bin("=", c, d))), Bin("+=", Pre("*", a), One), Bin("=", Mem("->", a, b), c), Bin("=", Sub(a, b), One),
   Call(a, <<b>>), Increment(a), Generically,
   <<"return", None>>, <<"jump", "break", "none">>, <<"jump", "continue", "lap">>,
   <<"ins", "mov", <<<<"reg", "%", Id("rax")>>, <<"reg", "$", One>>>>>>, <<"ins", "call", <<Pre("&", a)>>>>,
   <<"section", "data", Blocks(<<<<"entry", a, Gen(T, <<T>>)>>>>)>>,
   <<"struct", "S", <<<<"field", "pub", <<>>, T, a, <<>>>>, <<"field", "priv", <<"const">>, Post("*", T), b, <<One>>>>>>>>,
   <<"enum", "E", <<a>>>>, <<"enum", "E", <<a, b>>>>, <<"enum", "E", <<Bin("=", a, One), Bin("=", b, One)>>>>,
   <<"union", "U", <<Call(a, <<Post("*", T)>>), b, Call(c, <<T, T>>)>>>>,
   <<"namespace", "none", Blocks(<<Init1(a)>>)>>, <<"namespace", "n", Blocks(<<Fn(a, <<>>, None, Blocks(<<>>), "body")>>)>>,
   <<"template", <<"T", "U">>, <<"struct", "S", <<<<"field", "pub", <<>>, T, a, <<>>>>>>>>>>,
   <<"template", <<"T">>, Fn(a, <<Param(<<"const">>, Post("*", T), FALSE, b), Param(<<>>, T, FALSE, None)>>,
                             Gen(T, <<T>>), Blocks(<<<<"return", None>>>>), "body")>>,
   Fn(a, <<Param(<<>>, T, TRUE, b)>>, T, Blocks(<<>>), "body"), Fn(Mem("::", a, b), <<>>, Post("*", T), Blocks(<<>>), "body"),
   Fn(a, <<>>, None, None, "default"), Fn(a, <<>>, None, None, "delete"),
   <<"inspect", a, <<<<"case", Call(Mem("::", a, b), <<c>>), Blocks(<<Set(c)>>)>>, <<"case", Id("_"), Blocks(<<>>)>>>>>>}

Around(x) ==
  {Init1(x), Set(x), <<"return", x>>, Call(a, <<x, b>>), <<"while", x, Blocks(<<Set(x), Increment(b)>>)>>,
   <<"if", x, Set(x), None>>, <<"if", a, <<"if", b, Set(c), Blocks(<<Set(x)>>)>>, None>>,
   <<"label", "lap", <<"while", a, Blocks(<<<<"jump", "break", "lap">>>>)>>>>, Set(Sub(a, x)),
   <<"inspect", x, <<<<"case", Id("_"), Blocks(<<Set(x)>>)>>>>>>}

Statements == Plain \cup {Init1(x) : x \in Exprs} \cup UNION {Around(x) : x \in Samples}

-----------------------------------------------------------------------------
(* Files. A file with imports has a declaration before, between and after.   *)
Mark(name, i) == Var(<<>>, T, name \o <<"0", "1", "2", "3">>[i + 1], <<>>, None)
Gets(how, text) == <<"ins", how, <<Lit(text)>>>>
File(name, imports) ==
  FlattenSeq([i \in DOMAIN imports |-> <<Mark(name, i - 1), imports[i]>>]) \o <<Mark(name, Len(imports))>>

ToA == Gets("import", "'a'")
ToB == Gets("import", "'b'")
ToM == Gets("import", "'m'")
ToL == Gets("include", "'l'")
ToNone == Gets("include", "'gone'")

Files(m, fa, fb, fl) ==
  [p \in {MainFile, FileA, FileB, LibFile} |->
     CASE p = MainFile -> File("m", m) [] p = FileA -> File("a", fa)
       [] p = FileB -> File("b", fb) [] p = LibFile -> File("l", fl)]
Graphs ==
  {Files(m, fa, fb, fl) : m \in {<<ToA>>, <<ToA, ToB>>, <<ToB, ToL>>, <<ToA, ToB, ToA>>, <<ToM, ToB>>, <<ToNone>>},
                          fa \in {<<>>, <<ToB>>, <<ToM>>, <<ToA>>}, fb \in {<<>>, <<ToA>>, <<ToL, ToA>>},
                          fl \in {<<>>, <<ToL>>, <<Gets("import", "'a'")>>}}
Alone == {MainFile :> <<s>> : s \in Statements}
\* The same statement in a file that is imported.
Imported == {(MainFile :> <<ToA>>) @@ (FileA :> <<s>>) : s \in Plain}

Init ==
  /\ meant \in Graphs \cup Alone \cup Imported
  /\ disk = [p \in DOMAIN meant |-> Text(meant[p])]
  /\ loaded = {}
  /\ stack = <<>>
  /\ ast = <<>>
  /\ status = "start"

Next == Expander /\ UNCHANGED meant
Spec == Init /\ [][Next]_vars /\ WF_vars(Next)

-----------------------------------------------------------------------------
(* What is known to go wrong, by the tree that was meant.                    *)

\* The nodes below a node.
Kids(n) ==
  CASE n[1] \in {"bin", "cast"} -> <<n[3], n[4]>>
    [] n[1] \in {"pre", "post", "mem"} -> <<n[3]>>
    [] n[1] \in {"call", "inspect"} -> <<n[2]>> \o n[3]
    [] n[1] = "sub" -> <<n[2], n[3]>>
    [] n[1] \in {"list", "init"} -> n[3]
    [] n[1] = "var" -> <<n[6]>>
    [] n[1] = "case" -> <<n[3]>>
    [] n[1] = "label" -> <<n[3]>>
    [] n[1] \in {"if", "while", "return"} -> Tail(n)
    [] n[1] = "block" -> n[2]
    [] OTHER -> <<>>

RECURSIVE Below(_), First(_)
Below(n) == {n} \cup UNION {Below(Kids(n)[i]) : i \in DOMAIN Kids(n)}
All(nodes) == UNION {Below(nodes[i]) : i \in DOMAIN nodes}

\* What an expression begins with.
First(n) ==
  CASE n[1] = "bin" -> First(n[3])
    [] n[1] \in {"call", "sub"} -> First(n[2])
    [] OTHER -> n

IsAssignment(n) == n[1] = "bin" /\ Rung(n) = 1
IsExpression(n) == n[1] \in Expressions

\* The loop ends after an increment: the operators that follow are left to whoever called.
AfterIncrement(n) == n[1] = "bin" /\ First(n)[1] = "post" /\ First(n)[2] \in {"++", "--"}
\* Type arguments bind as loosely as a comparison.
LooseGeneric(n) ==
  \/ n[1] = "bin" /\ Rung(n) >= 8 /\ First(n[4])[1] = "gen"
  \/ n[1] = "pre" /\ First(n[3])[1] = "gen"
\* An assignment is no element of a list, and no operand of another one but that of a statement.
InnerAssignment(n) ==
  \/ n[1] \in {"call", "list", "init"} /\ \E i \in DOMAIN n[3] : IsAssignment(n[3][i])
  \/ IsExpression(n) /\ IsAssignment(n) /\ IsAssignment(n[4]) /\ IsAssignment(n[4][4])
  \/ n[1] \in {"var", "return"} /\ LET x == n[Len(n)] IN IsExpression(x) /\ IsAssignment(x) /\ IsAssignment(x[4])
\* The members of an enumeration become one list.
LostMembers(n) == n[1] = "enum" /\ Len(n[3]) > 1
\* A function that returns a pointer, and one without a body.
LostFunction(n) == n[1] = "fn" /\ (n[6][1] = "post" \/ n[7] = None)

\* A comparison whose next tokens look like type arguments.
Leads == {"=", "(", "[", "||", "&&", "|", "&", "==", "return", ",", "v", "{", ";", "."}
LooksLike(t, i) ==
  /\ t[i] = "<" /\ IsName(t[i - 1]) /\ t[i - 2] \in Leads
  /\ IsName(t[i + 1])
  /\ \/ t[i + 2] \in {">", ">>"}
     \/ /\ t[i + 2] \in {"&&", "&", "*"}
        /\ ~IsName(t[i + 3])
        /\ \E j \in i + 3 .. Len(t) : t[j] \in {">", ">>"} /\ \A k \in i .. j : t[k] \notin {";", "{"}
FalseGeneric(nodes) == LET t == Body(nodes) IN \E i \in 3 .. Len(t) - 3 : LooksLike(t, i)

\* Three points are joined in the main file only.
Variadics(nodes) ==
  \E n \in ToSet(nodes) : LET f == IF n[1] = "template" THEN n[3] ELSE n
                          IN  f[1] = "fn" /\ \E i \in DOMAIN f[5] : f[5][i][4]

Troubled(nodes) ==
  \/ FalseGeneric(nodes)
  \/ \E n \in All(nodes) : \/ AfterIncrement(n) \/ LooseGeneric(n) \/ InnerAssignment(n)
                           \/ LostMembers(n) \/ LostFunction(n)

-----------------------------------------------------------------------------
Ended == status \in {"done", "refused"}
Single == Cardinality(DOMAIN meant) < 4
Subject == IF FileA \in DOMAIN meant THEN FileA ELSE MainFile

\* A file is read as it was written, the statements and the operands of every operator being
\* those that the precedences and the brackets say, as the main file and as an import; all
\* files but those with one of the constructs above, and none of those.
ReadAsWritten ==
  Single /\ Ended => ((status = "done" /\ ast = meant[Subject])
                        <=> ~(Troubled(meant[Subject]) \/ (Subject = FileA /\ Variadics(meant[FileA]))))

\* The members of an enumeration get the values 0, 1, ... one by one.
EnumMembersSequential ==
  Single /\ status = "done" =>
    \A i \in DOMAIN ast : ast[i][1] = "enum" => EnumMembers(ast[i]) = EnumMembers(meant[Subject][i])

-----------------------------------------------------------------------------
DeclaredIn(f) == {n \in ToSet(meant[f]) : ~IsImport(n)}
TargetOf(f, n) == <<IF n[2] = "include" THEN Library ELSE f[1], n[3][1][2]>>
ImportedBy(f) == {TargetOf(f, n) : n \in {x \in ToSet(meant[f]) : IsImport(x)}}

RECURSIVE Closure(_)
Closure(files) ==
  LET more == files \cup UNION {ImportedBy(f) : f \in files \cap DOMAIN meant}
  IN  IF more = files THEN files ELSE Closure(more)
Reached == Closure({MainFile})
Place(n) == CHOOSE i \in DOMAIN ast : ast[i] = n

\* Every file that the main file reaches is in the tree exactly once, whatever the cycles, and
\* it is all there; the process ends if and only if one of them is missing.
EachFileOnce ==
  ~Single /\ Ended =>
    /\ status = "refused" <=> ~(Reached \subseteq DOMAIN meant)
    /\ status = "done" => /\ ToSet(ast) = UNION {DeclaredIn(f) : f \in Reached}
                          /\ IsInjective(ast)

\* What a file declares comes before the statements that follow its import, unless it imports,
\* through others perhaps, the file that has the import.
DeclaredBeforeUse ==
  ~Single /\ status = "done" =>
    \A f \in Reached : \A i, j \in DOMAIN meant[f] :
      i < j /\ IsImport(meant[f][i]) /\ ~IsImport(meant[f][j]) =>
        LET g == TargetOf(f, meant[f][i])
        IN  f \in Closure({g}) \/ \A n \in DeclaredIn(g) : Place(n) < Place(meant[f][j])

\* The tree of a program of several files is as if each file were pasted where it is first
\* needed (ModuleExpander.expand).
FilesInOrder == EachFileOnce /\ DeclaredBeforeUse
=============================================================================
