------------------------------ MODULE Grammar ------------------------------
(***************************************************************************)
(* How a tree of Raptor is written: the tokens that mean it, by the        *)
(* precedences and associativities of the language (the comments of the    *)
(* enum Precedence in src/parsing/parser.cts, those of C++), whatever the  *)
(* parser makes of them. What the parser reads is compared with this.      *)
(*                                                                         *)
(* Angle brackets of type arguments are written <: and :> so that they can *)
(* be told from comparisons; Spelled makes them < and >, two in a row >>.  *)
(***************************************************************************)
EXTENDS Integers, Sequences, SequencesExt

\* The ladder, loosest first; the binary operators of a rung associate to the left.
Ladder ==
  <<{"=", "+=", "-=", "*=", "/=", "%="}, {"||"}, {"&&"}, {"|"}, {"^"}, {"&"}, {"==", "!="}, {"<", ">", "<=", ">="},
    {"<<", ">>"}, {"+", "-"}, {"*", "/", "%"}>>
Unary == Len(Ladder) + 1
Postfix == Unary + 1

Rung(n) ==
  CASE n[1] = "bin" -> CHOOSE i \in DOMAIN Ladder : n[2] \in Ladder[i]
    [] n[1] = "pre" -> Unary
    [] OTHER -> Postfix

Group(n) == <<"list", "tuple", <<n>>>>
AtLeast(rung, n) == IF Rung(n) >= rung THEN n ELSE Group(n)

Id(x) == <<"id", x>>
Lit(x) == <<"lit", x>>
Bin(op, l, r) ==
  LET rung == CHOOSE i \in DOMAIN Ladder : op \in Ladder[i]
  IN  IF rung = 1 THEN <<"bin", op, AtLeast(rung + 1, l), AtLeast(rung, r)>>
      ELSE <<"bin", op, AtLeast(rung, l), AtLeast(rung + 1, r)>>
Pre(op, x) == <<"pre", op, AtLeast(Unary, x)>>
Post(op, x) == <<"post", op, AtLeast(Postfix, x)>>
Call(f, args) == <<"call", f, args>>
Sub(b, i) == <<"sub", b, i>>
Mem(op, b, m) == <<"mem", op, b, m>>
Gen(b, types) == <<"gen", b, types>>

RECURSIVE Written(_), Listed(_, _)
Listed(nodes, between) ==
  IF nodes = <<>> THEN <<>>
  ELSE IF Len(nodes) = 1 THEN Written(nodes[1])
  ELSE Written(Head(nodes)) \o between \o Listed(Tail(nodes), between)

Semicolon(n) ==
  IF n[1] \in {"ins", "section", "if", "while", "return", "block", "label", "jump", "struct", "namespace",
               "enum", "union", "template", "inspect", "var", "fn", "entry"}
  THEN Written(n) ELSE Written(n) \o <<";">>
Body(nodes) == FlattenSeq([i \in DOMAIN nodes |-> Semicolon(nodes[i])])
OptName(n) == IF n = "none" THEN <<>> ELSE <<n>>

WrittenExpression(n) ==
  CASE n[1] \in {"id", "lit", "this"} -> IF n[1] = "this" THEN <<"this">> ELSE <<n[2]>>
    [] n[1] = "bin" -> Written(n[3]) \o <<n[2]>> \o Written(n[4])
    [] n[1] = "pre" -> <<n[2]>> \o Written(n[3])
    [] n[1] = "reg" -> <<n[2]>> \o Written(n[3])
    [] n[1] = "post" -> Written(n[3]) \o <<n[2]>>
    [] n[1] = "call" -> Written(n[2]) \o <<"(">> \o Listed(n[3], <<",">>) \o <<")">>
    [] n[1] = "sub" -> Written(n[2]) \o <<"[">> \o Written(n[3]) \o <<"]">>
    [] n[1] = "mem" -> Written(n[3]) \o <<n[2]>> \o Written(n[4])
    [] n[1] = "gen" -> Written(n[2]) \o <<"<:">> \o Listed(n[3], <<",">>) \o <<":>">>
    [] n[1] = "cast" -> <<n[2], "<:">> \o Written(n[3]) \o <<":>", "(">> \o Written(n[4]) \o <<")">>
    [] n[1] = "init" -> (IF n[2] = <<"nothing">> THEN <<>> ELSE Written(n[2]))
                        \o <<"{">> \o Listed(n[3], <<",">>) \o <<"}">>
    [] n[1] = "list" -> IF n[2] = "comma" THEN Listed(n[3], <<",">>)
                        ELSE <<"(">> \o Listed(n[3], <<",">>) \o <<")">>

RECURSIVE Sizes(_)
Sizes(dims) ==
  IF dims = <<>> THEN <<>>
  ELSE <<"[">> \o (IF dims[1] = <<"nothing">> THEN <<>> ELSE Written(dims[1])) \o <<"]">> \o Sizes(Tail(dims))

\* An initial value in braces follows the name, any other one an equals sign.
Initial(n) ==
  CASE n = <<"nothing">> -> <<>>
    [] n[1] = "init" /\ n[2] = <<"nothing">> -> Written(n)
    [] OTHER -> <<"=">> \o Written(n)

Variadic(n) == IF n[4] THEN <<"...">> ELSE <<>>
FunctionEnd(n) == IF n[8] = "body" THEN Written(n[7]) ELSE <<"=", n[8], ";">>

WrittenDeclaration(n) ==
  CASE n[1] = "var" -> n[2] \o Written(n[3]) \o Written(n[4]) \o Sizes(n[5]) \o Initial(n[6]) \o <<";">>
    [] n[1] = "field" -> <<n[2], ":">> \o n[3] \o Written(n[4]) \o Written(n[5]) \o Sizes(n[6]) \o <<";">>
    [] n[1] = "param" -> n[2] \o Written(n[3]) \o Variadic(n)
                         \o (IF n[5] = <<"nothing">> THEN <<>> ELSE Written(n[5]))
    [] n[1] = "fn" -> n[2] \o <<n[3]>> \o Written(n[4]) \o <<"(">> \o Listed(n[5], <<",">>) \o <<")">>
                      \o (IF n[6] = <<"nothing">> THEN <<>> ELSE <<"->">> \o Written(n[6])) \o FunctionEnd(n)
    [] n[1] = "struct" -> <<"struct", n[2], "{">> \o Listed(n[3], <<>>) \o <<"}">>
    [] n[1] = "enum" -> <<"enum", n[2], "{">> \o Listed(n[3], <<",">>) \o <<"}">>
    [] n[1] = "union" -> <<"union", n[2], "{">> \o Listed(n[3], <<",">>) \o <<"}">>
    [] n[1] = "namespace" -> <<"namespace">> \o OptName(n[2]) \o Written(n[3])
    [] n[1] = "template" ->
         <<"template", "<:">>
         \o FlattenSeq([i \in DOMAIN n[2] |-> (IF i > 1 THEN <<",">> ELSE <<>>) \o <<"typename", n[2][i]>>])
         \o <<":>">> \o Written(n[3])

WrittenStatement(n) ==
  CASE n[1] = "ins" -> <<"@", n[2]>> \o Listed(n[3], <<",">>) \o <<";">>
    [] n[1] = "section" -> <<"@", "section", n[2]>> \o Written(n[3])
    [] n[1] = "entry" -> Written(n[2]) \o <<":">> \o Written(n[3]) \o <<";">>
    [] n[1] = "block" -> <<"{">> \o Body(n[2]) \o <<"}">>
    [] n[1] = "if" -> <<"if", "(">> \o Written(n[2]) \o <<")">> \o Semicolon(n[3])
                      \o (IF n[4] = <<"nothing">> THEN <<>> ELSE <<"else">> \o Semicolon(n[4]))
    [] n[1] = "while" -> <<"while", "(">> \o Written(n[2]) \o <<")">> \o Semicolon(n[3])
    [] n[1] = "label" -> <<n[2], ":">> \o Written(n[3])
    [] n[1] = "jump" -> <<n[2]>> \o OptName(n[3]) \o <<";">>
    [] n[1] = "return" -> <<"return">> \o (IF n[2] = <<"nothing">> THEN <<>> ELSE Written(n[2])) \o <<";">>
    [] n[1] = "inspect" -> <<"inspect", "(">> \o Written(n[2]) \o <<")", "{">> \o Listed(n[3], <<>>) \o <<"}">>
    [] n[1] = "case" -> Written(n[2]) \o <<"=>">> \o Written(n[3])

Expressions ==
  {"id", "lit", "this", "bin", "pre", "reg", "post", "call", "sub", "mem", "gen", "cast", "init", "list"}
Declarations == {"var", "field", "param", "fn", "struct", "enum", "union", "namespace", "template"}
Written(n) ==
  CASE n[1] \in Expressions -> WrittenExpression(n)
    [] n[1] \in Declarations -> WrittenDeclaration(n)
    [] OTHER -> WrittenStatement(n)

\* What the lexer makes of it.
RECURSIVE Spelled(_)
Spelled(toks) ==
  IF toks = <<>> THEN <<"EOF">>
  ELSE IF Len(toks) >= 2 /\ toks[1] = ":>" /\ toks[2] = ":>" THEN <<">>">> \o Spelled(SubSeq(toks, 3, Len(toks)))
  ELSE <<CASE toks[1] = "<:" -> "<" [] toks[1] = ":>" -> ">" [] OTHER -> toks[1]>> \o Spelled(Tail(toks))

Dots(toks) ==
  FlattenSeq([i \in DOMAIN toks |-> IF toks[i] = "..." THEN <<".", ".", ".">> ELSE <<toks[i]>>])
Text(nodes) == Dots(Spelled(Body(nodes)))
=============================================================================
