------------------------------- MODULE Parser -------------------------------
(***************************************************************************)
(* The recursive descent parser of Raptor (src/parsing/parser.cts): from   *)
(* the tokens of a file to its statements.                                 *)
(*                                                                         *)
(* A token is a string, its spelling; every token that is not punctuation, *)
(* a number or a text is an identifier, keywords included. The last token  *)
(* is "EOF".                                                               *)
(*                                                                         *)
(* The parser is a record: the tokens (a speculation that succeeds splits  *)
(* >> in place), the position, how many generic brackets are open, the     *)
(* access of the struct's next field, and whether it still runs: an        *)
(* ExpressionException ends the process. Each operator below is a method;  *)
(* it takes the parser and returns [n, s], a node and the parser after it. *)
(*                                                                         *)
(* A node is a tuple that begins with its kind:                            *)
(*   id lit this gen mem call sub pre post reg bin list init cast          *)
(*   ins section var fn param if while jump label return block entry       *)
(*   struct field namespace enum union template inspect case               *)
(***************************************************************************)
EXTENDS Integers, Sequences

CONSTANTS
  Numbers,   \* tokens that are numbers
  Texts      \* tokens that are strings

LOWEST == 0
COMMA == 10
ASSIGNMENT == 20
LOGICAL_OR == 30
LOGICAL_AND == 40
BITWISE_OR == 50
BITWISE_XOR == 60
BITWISE_AND == 70
EQUALITY == 80
RELATIONAL == 90
SHIFT == 110
ADDITIVE == 120
MULTIPLICATIVE == 130
PREFIX == 150
POSTFIX == 160
SCOPE == 170

Punctuation ==
  {"@", ",", ";", ":", ".", "$", "!", "|", "&", "*", "(", ")", "[", "]", "{", "}", "+", "-",
   "++", "--", "~", "<", ">", "%", "^", "/", "=", "+=", "-=", "*=", "/=", "%=", "==", "!=",
   "<<", ">>", "<=", ">=", "&&", "||", "...", "->", "=>", "::", "EOF", "none"}

Assignments == {"=", "+=", "-=", "*=", "/=", "%="}
BinaryOperators ==
  {":", "*", "/", "%", "+", "-", "<<", ">>", "<", "<=", ">", ">=", "==", "!=",
   "&", "^", "|", "&&", "||"} \cup Assignments
PrefixOperators == {"++", "--", "+", "-", "!", "~", "*", "&"}
AccessModifiers == {"pub", "priv", "protected"}
CvModifiers == {"const", "volatile"}
Modifiers ==
  CvModifiers \cup AccessModifiers \cup {"static", "constexpr", "__init", "__exit", "__share__"}
Qualifiers == {"fn", "constructor", "destructor"}
Casts == {"static_cast", "const_cast", "dynamic_cast", "reinterpret_cast"}

IsName(t) == t \notin Punctuation \cup Numbers \cup Texts
Nothing == <<"nothing">>

(***************************************************************************)
(* The stream of tokens.                                                   *)
(***************************************************************************)
Reading(tokens) == [toks |-> tokens, pos |-> 1, angles |-> 0, access |-> "pub", ok |-> TRUE]

Peek(s, k) == IF s.pos + k <= Len(s.toks) THEN s.toks[s.pos + k] ELSE "none"
At(s, t) == Peek(s, 0) = t
Advance(s) == [s EXCEPT !.pos = IF @ <= Len(s.toks) THEN @ + 1 ELSE @]
Dead(s) == [s EXCEPT !.ok = FALSE, !.pos = Len(s.toks)]
Expect(s, t) == IF At(s, t) THEN Advance(s) ELSE Dead(s)
ExpectName(s) == IF IsName(Peek(s, 0)) THEN Advance(s) ELSE Dead(s)
ConsumeIf(s, t) == IF At(s, t) THEN Advance(s) ELSE s

\* A speculation that fails gives back the position, not the tokens it has split.
Restore(s, position) == [s EXCEPT !.pos = position]

\* Of >> and >= the first half is taken and the second stays in the stream.
ExpectGreater(s) ==
  CASE At(s, ">") -> Advance(s)
    [] At(s, ">>") -> [s EXCEPT !.toks[s.pos] = ">"]
    [] At(s, ">=") -> [s EXCEPT !.toks[s.pos] = "="]
    [] OTHER -> Dead(s)

(***************************************************************************)
(* Precedences.                                                            *)
(***************************************************************************)
Precedence(t, angles) ==
  CASE t \in Assignments \cup {":"} -> ASSIGNMENT
    [] t = "," -> COMMA
    [] t = "||" -> LOGICAL_OR
    [] t = "&&" -> LOGICAL_AND
    [] t = "|" -> BITWISE_OR
    [] t = "^" -> BITWISE_XOR
    [] t = "&" -> BITWISE_AND
    [] t \in {"==", "!="} -> EQUALITY
    [] t \in {"<", "<=", ">="} -> RELATIONAL
    [] t = ">" -> IF angles = 0 THEN RELATIONAL ELSE LOWEST
    [] t = "<<" -> SHIFT
    [] t = ">>" -> IF angles = 0 THEN SHIFT ELSE LOWEST
    [] t \in {"+", "-"} -> ADDITIVE
    [] t \in {"*", "/", "%"} -> MULTIPLICATIVE
    [] t \in {".", "->"} -> POSTFIX
    [] t = "::" -> SCOPE
    [] OTHER -> LOWEST

TypeSuffix(t, inType) == inType /\ t \in {"*", "&", "&&"} \cup Modifiers

NextPrecedence(s, brace, inType) ==
  LET t == Peek(s, 0)
  IN  CASE brace /\ t = "{" -> LOWEST
        [] TypeSuffix(t, inType) -> POSTFIX
        [] t \in {"++", "--", "(", "["} \/ (t = "{" /\ ~brace) -> POSTFIX
        [] OTHER -> Precedence(t, s.angles)

\* Mutant: one less instead of one more.
RightOperandBelow(op) == Precedence(op, 0) - (IF op \in Assignments THEN 0 ELSE 1)

RightOperand(op) == Precedence(op, 0) + (IF op \in Assignments THEN 0 ELSE 1)

\* What follows a < that may open type arguments.
LooksGeneric(s) ==
  \/ Peek(s, 1) = ">"
  \/ /\ IsName(Peek(s, 1))
     /\ \/ Peek(s, 2) \in {">", ",", ">>", "*", "&", "&&", "::", "<"}
        \/ Peek(s, 1) \in CvModifiers /\ IsName(Peek(s, 2))

(***************************************************************************)
(* Expressions.                                                            *)
(***************************************************************************)
\* The methods that call each other: Method(<<name, arguments>>, s) runs one of them.
RECURSIVE Method(_, _)
Expression(s, min, brace, inType) == Method(<<"expression", min, brace, inType>>, s)
Climb(p, min, brace, inType) == Method(<<"climb", p.n, min, brace, inType>>, p.s)
Prefix(s, inType) == Method(<<"prefix", inType>>, s)
Primary(s) == Method(<<"primary">>, s)
Commas(s, what) == Method(<<"commas", what>>, s)
Many(s, what, found) == Method(<<"many", what, found>>, s)
Statement(s) == Method(<<"statement">>, s)

Closed(s, close, what) ==
  LET items == IF At(s, close) THEN [n |-> <<>>, s |-> s] ELSE Commas(s, what)
  IN  [n |-> items.n, s |-> Expect(items.s, close)]

Tuple(s) ==
  LET items == Closed(Advance(s), ")", "argument")
  IN  [n |-> <<"list", "tuple", items.n>>, s |-> items.s]

Initializer(s, named) ==
  LET items == Closed(Advance(s), "}", "argument")
  IN  [n |-> <<"init", named, items.n>>, s |-> items.s]

\* The attempt to read < as the start of type arguments: [n, s, yes].
Generic(s) ==
  LET inside == Advance([s EXCEPT !.angles = @ + 1])
      types == IF At(inside, ">") THEN [n |-> <<>>, s |-> inside] ELSE Commas(inside, "type")
      closes == types.s.ok /\ Peek(types.s, 0) \in {">", ">>", ">="}
      after == IF closes THEN ExpectGreater(types.s)
               ELSE IF types.s.ok THEN Restore(types.s, s.pos) ELSE types.s
  IN  [n |-> types.n, yes |-> closes, s |-> [after EXCEPT !.angles = s.angles]]

NoGeneric(s) == [n |-> <<>>, yes |-> FALSE, s |-> s]
IsIdentifier(n) == n[1] \in {"id", "gen", "mem"}

\* One turn of the loop, at a token that binds tighter than min and opens no type arguments.
Infix(p, min, brace, inType) ==
  LET s == p.s
      t == Peek(s, 0)
      after == Advance(s)
      more(n, rest) == Climb([n |-> n, s |-> rest], min, brace, inType)
  IN  CASE t = "(" ->
             LET args == Closed(after, ")", "argument") IN more(<<"call", p.n, args.n>>, args.s)
        [] t = "[" ->
             LET index == Expression(after, LOWEST, FALSE, FALSE)
             IN  more(<<"sub", p.n, index.n>>, Expect(index.s, "]"))
        [] t \in {".", "->", "::"} ->
             LET member == Expression(after, POSTFIX, brace, inType)
             IN  more(<<"mem", t, p.n, member.n>>, member.s)
        [] TypeSuffix(t, inType) -> more(<<"post", t, p.n>>, after)
        [] t \in {"++", "--"} -> [n |-> <<"post", t, p.n>>, s |-> after]
        [] t \in BinaryOperators /\ ~TypeSuffix(t, inType) ->
             LET right == Expression(after, RightOperand(t), brace, inType)
             IN  more(<<"bin", t, p.n, right.n>>, right.s)
        [] t = "," ->
             LET rest == Commas(after, "argument")
             IN  more(<<"list", "comma", <<p.n>> \o rest.n>>, rest.s)
        [] t = "{" ->
             LET items == Initializer(s, p.n) IN more(items.n, items.s)
        [] OTHER -> p

ClimbOn(p, min, brace, inType) ==
  IF ~p.s.ok \/ min >= NextPrecedence(p.s, brace, inType) THEN p
  ELSE LET generic == IF At(p.s, "<") /\ IsIdentifier(p.n) /\ LooksGeneric(p.s)
                      THEN Generic(p.s) ELSE NoGeneric(p.s)
       IN  IF ~generic.s.ok THEN [n |-> p.n, s |-> generic.s]
           ELSE IF generic.yes
           THEN Climb([n |-> <<"gen", p.n, generic.n>>, s |-> generic.s], min, brace, inType)
           ELSE Infix([n |-> p.n, s |-> generic.s], min, brace, inType)

AtPrefix(s, inType) ==
  LET t == Peek(s, 0)
      modifier == inType /\ t \in Modifiers
      operand == Expression(Advance(s), IF t \in Modifiers THEN SCOPE ELSE PREFIX, FALSE, inType)
  IN  CASE ~s.ok \/ t = "none" -> [n |-> Nothing, s |-> Dead(s)]
        [] t = "(" -> Tuple(s)
        [] t = "{" -> Initializer(s, Nothing)
        [] t = "[" -> [n |-> Nothing, s |-> Dead(s)]
        [] t \in PrefixOperators \/ modifier -> [n |-> <<"pre", t, operand.n>>, s |-> operand.s]
        [] OTHER -> Primary(s)

Cast(s) ==
  LET open == Expect(Advance(s), "<")
      type == Expression([open EXCEPT !.angles = @ + 1], LOWEST, FALSE, TRUE)
      greater == ExpectGreater([type.s EXCEPT !.angles = s.angles])
      operand == Expression(Expect(greater, "("), LOWEST, FALSE, FALSE)
  IN  [n |-> <<"cast", Peek(s, 0), type.n, operand.n>>, s |-> Expect(operand.s, ")")]

\* parse_instruction_operand.
Operand(s) ==
  LET t == Peek(s, 0)
      after == Advance(s)
      value == IF t = "$" THEN Primary(after)
               ELSE Expression(after, Precedence("&", 0), FALSE, FALSE)
  IN  IF t = "%" THEN [n |-> <<"reg", "%", <<"id", Peek(after, 0)>>>>, s |-> ExpectName(after)]
      ELSE [n |-> <<"reg", t, value.n>>, s |-> value.s]

AtPrimary(s) ==
  LET t == Peek(s, 0)
      leaf(kind) == [n |-> <<kind, t>>, s |-> Advance(s)]
  IN  CASE t \in Numbers \cup Texts \cup {"true", "false", "nullptr"} -> leaf("lit")
        [] t \in {"%", "$", "&"} -> Operand(s)
        [] t \in Casts -> Cast(s)
        [] t = "this" -> leaf("this")
        [] IsName(t) /\ t \notin Casts \cup {"true", "false", "nullptr", "this"} -> leaf("id")
        [] OTHER -> [n |-> Nothing, s |-> Dead(s)]

TypeOf(s) == Expression(s, ASSIGNMENT, FALSE, TRUE)

RECURSIVE ModifiersOf(_, _)
ModifiersOf(s, found) ==
  IF Peek(s, 0) \in Modifiers THEN ModifiersOf(Advance(s), Append(found, Peek(s, 0)))
  ELSE [n |-> found, s |-> s]

Parameter(s) ==
  LET mods == ModifiersOf(s, <<>>)
      type == TypeOf(mods.s)
      dots == ConsumeIf(type.s, "...")
      name == IF IsName(Peek(dots, 0)) THEN Primary(dots) ELSE [n |-> Nothing, s |-> dots]
      end == IF At(type.s, "...") THEN name.s ELSE ConsumeIf(name.s, "...")
      variadic == At(type.s, "...") \/ At(name.s, "...")
  IN  [n |-> <<"param", mods.n, type.n, variadic, name.n>>, s |-> end]

AtCommas(s, what) ==
  LET item == CASE what = "argument" -> Expression(s, ASSIGNMENT, FALSE, FALSE)
                [] what = "type" -> TypeOf(s)
                [] what = "parameter" -> Parameter(s)
      rest == Commas(Advance(item.s), what)
  IN  IF At(item.s, ",") THEN [n |-> <<item.n>> \o rest.n, s |-> rest.s]
      ELSE [n |-> <<item.n>>, s |-> item.s]

(***************************************************************************)
(* Statements.                                                             *)
(***************************************************************************)
\* The items up to the closing brace.
Braces(s, what) == Many(Expect(s, "{"), what, <<>>)

Block(s) == LET body == Braces(s, "statement") IN [n |-> <<"block", body.n>>, s |-> body.s]
BlockOrStatement(s) == IF At(s, "{") THEN Block(s) ELSE Statement(s)

Parenthesized(s) ==
  LET inner == Expression(Expect(s, "("), LOWEST, FALSE, FALSE)
  IN  [n |-> inner.n, s |-> Expect(inner.s, ")")]

RECURSIVE Dimensions(_, _)
Dimensions(s, found) ==
  LET inner == Advance(s)
      size == IF At(inner, "]") THEN [n |-> Nothing, s |-> inner]
              ELSE Expression(inner, LOWEST, FALSE, FALSE)
  IN  IF ~At(s, "[") THEN [n |-> found, s |-> s]
      ELSE Dimensions(Expect(size.s, "]"), Append(found, size.n))

Instruction(s) ==
  LET named == ExpectName(Expect(s, "@"))
      name == Peek(s, 1)
      section == name = "section" /\ IsName(Peek(named, 0)) /\ Peek(named, 1) = "{"
      block == Block(Advance(named))
      operands == IF Peek(named, 0) \in {";", "EOF"} THEN [n |-> <<>>, s |-> named]
                  ELSE Commas(named, "argument")
  IN  IF section THEN [n |-> <<"section", Peek(named, 0), block.n>>, s |-> ConsumeIf(block.s, ";")]
      ELSE [n |-> <<"ins", name, operands.n>>, s |-> ConsumeIf(operands.s, ";")]

Variable(mods, type, s) ==
  LET name == Expression(s, POSTFIX, FALSE, FALSE)
      dims == Dimensions(name.s, <<>>)
      init == CASE At(dims.s, "=") -> Expression(Advance(dims.s), LOWEST, FALSE, FALSE)
                [] At(dims.s, "{") -> Prefix(dims.s, FALSE)
                [] OTHER -> [n |-> Nothing, s |-> dims.s]
  IN  [n |-> <<"var", mods, type, name.n, dims.n, init.n>>, s |-> Expect(init.s, ";")]

\* After the = of "= default" one token too many is taken: the keyword.
Function(mods, s) ==
  LET name == Expression(ExpectName(s), POSTFIX, FALSE, FALSE)
      none == [n |-> <<>>, s |-> name.s]
      params == IF At(name.s, "(") THEN Closed(Advance(name.s), ")", "parameter") ELSE none
      return == IF At(params.s, "->") THEN Expression(Advance(params.s), ASSIGNMENT, TRUE, FALSE)
                ELSE [n |-> Nothing, s |-> params.s]
      body == Block(return.s)
      keyword == Advance(Advance(return.s))
      how == Peek(keyword, 0)
      node(b, h) == <<"fn", mods, Peek(s, 0), name.n, params.n, return.n, b, h>>
  IN  CASE At(return.s, "{") -> [n |-> node(body.n, "body"), s |-> ConsumeIf(body.s, ";")]
        [] At(return.s, "=") ->
             [n |-> node(Nothing, how),
              s |-> IF how \in {"default", "delete"} THEN Expect(Advance(keyword), ";") ELSE Dead(keyword)]
        [] OTHER -> [n |-> Nothing, s |-> Dead(return.s)]

\* What begins with neither an instruction nor a keyword.
Simple(s) ==
  LET mods == ModifiersOf(s, <<>>)
      base == TypeOf(mods.s)
      t == Peek(base.s, 0)
      value == Expression(Advance(base.s), LOWEST, FALSE, FALSE)
      type == TypeOf(Advance(base.s))
  IN  IF Peek(mods.s, 0) \in Qualifiers THEN Function(mods.n, mods.s)
      ELSE IF IsName(t) THEN Variable(mods.n, base.n, base.s)
      ELSE IF mods.n # <<>> THEN [n |-> Nothing, s |-> Dead(base.s)]
      ELSE CASE t = ":" -> [n |-> <<"entry", base.n, type.n>>, s |-> Expect(type.s, ";")]
             [] t \in Assignments ->
                  [n |-> <<"bin", t, base.n, value.n>>, s |-> Expect(value.s, ";")]
             [] OTHER -> [n |-> base.n, s |-> Expect(base.s, ";")]

If(s) ==
  LET condition == Parenthesized(Advance(s))
      then == BlockOrStatement(condition.s)
      else == IF At(then.s, "else") THEN BlockOrStatement(Advance(then.s))
              ELSE [n |-> Nothing, s |-> then.s]
  IN  [n |-> <<"if", condition.n, then.n, else.n>>, s |-> else.s]

While(s) ==
  LET condition == Parenthesized(Advance(s))
      body == BlockOrStatement(condition.s)
  IN  [n |-> <<"while", condition.n, body.n>>, s |-> body.s]

Jump(s) ==
  LET named == IsName(Peek(s, 1))
  IN  [n |-> <<"jump", Peek(s, 0), IF named THEN Peek(s, 1) ELSE "none">>,
       s |-> Expect(IF named THEN Advance(Advance(s)) ELSE Advance(s), ";")]

Label(s) ==
  LET loop == Statement(Expect(Advance(s), ":"))
  IN  [n |-> <<"label", Peek(s, 0), loop.n>>, s |-> loop.s]

Return(s) ==
  LET value == IF Peek(s, 1) = ";" THEN [n |-> Nothing, s |-> Advance(s)]
               ELSE Expression(Advance(s), LOWEST, FALSE, FALSE)
  IN  [n |-> <<"return", value.n>>, s |-> Expect(value.s, ";")]

\* A name after the keyword, then items in braces.
Named(s, kind, what) ==
  LET items == Braces(ExpectName(Advance(s)), what)
  IN  [n |-> <<kind, Peek(s, 1), items.n>>, s |-> ConsumeIf(items.s, ";")]

Struct(s) == Named([s EXCEPT !.access = "pub"], "struct", "field")

IsAccessLabel(s) == Peek(s, 0) \in AccessModifiers /\ Peek(s, 1) = ":"

\* A field, or the label that changes the access of the ones that follow.
Field(s) ==
  LET mods == ModifiersOf(s, <<>>)
      type == TypeOf(mods.s)
      name == Expression(type.s, POSTFIX, FALSE, FALSE)
      dims == Dimensions(name.s, <<>>)
  IN  IF IsAccessLabel(s)
      THEN [n |-> Nothing, s |-> [Advance(Advance(s)) EXCEPT !.access = Peek(s, 0)]]
      ELSE [n |-> <<"field", s.access, mods.n, type.n, name.n, dims.n>>, s |-> Expect(dims.s, ";")]

Namespace(s) ==
  LET named == IsName(Peek(s, 1))
      after == IF named THEN Advance(Advance(s)) ELSE Advance(s)
      body == Block(after)
  IN  [n |-> <<"namespace", IF named THEN Peek(s, 1) ELSE "none", body.n>>, s |-> ConsumeIf(body.s, ";")]

Variant(s) ==
  LET name == IF IsName(Peek(s, 0)) THEN [n |-> <<"id", Peek(s, 0)>>, s |-> Advance(s)]
              ELSE Expression(s, POSTFIX, FALSE, FALSE)
      types == Closed(Advance(name.s), ")", "type")
  IN  IF At(name.s, "(") THEN [n |-> <<"call", name.n, types.n>>, s |-> types.s] ELSE name

RECURSIVE TemplateParameters(_, _)
TemplateParameters(s, found) ==
  LET start == ConsumeIf(s, "typename")
  IN  IF Peek(s, 0) \in {">", "EOF"} THEN [n |-> found, s |-> ExpectGreater(s)]
      ELSE TemplateParameters(ConsumeIf(ExpectName(start), ","), Append(found, Peek(start, 0)))

Template(s) ==
  LET params == TemplateParameters(Expect(Advance(s), "<"), <<>>)
      mods == ModifiersOf(params.s, <<>>)
      of == IF At(params.s, "struct") THEN Struct(params.s)
            ELSE IF Peek(mods.s, 0) \in Qualifiers THEN Function(mods.n, mods.s)
            ELSE [n |-> Nothing, s |-> Dead(mods.s)]
  IN  [n |-> <<"template", params.n, of.n>>, s |-> of.s]

Case(s) ==
  LET pattern == IF At(s, "_") THEN [n |-> <<"id", "_">>, s |-> Advance(s)]
                 ELSE Expression(s, ASSIGNMENT, FALSE, FALSE)
      body == Block(Expect(pattern.s, "=>"))
  IN  [n |-> <<"case", pattern.n, body.n>>, s |-> ConsumeIf(body.s, ",")]

Inspect(s) ==
  LET target == Parenthesized(Advance(s))
      cases == Braces(target.s, "case")
  IN  [n |-> <<"inspect", target.n, cases.n>>, s |-> cases.s]

\* One item of a pair of braces; a comma may follow a member and a variant.
Item(s, what) ==
  LET member == IF what = "member" THEN Expression(s, LOWEST, FALSE, FALSE) ELSE Variant(s)
  IN  CASE what = "statement" -> Statement(s)
        [] what = "field" -> Field(s)
        [] what = "case" -> Case(s)
        [] what \in {"member", "variant"} -> [n |-> member.n, s |-> ConsumeIf(member.s, ",")]

IsLabel(s) ==
  IsName(Peek(s, 0)) /\ Peek(s, 1) = ":" /\ Peek(s, 2) = "while" /\ Peek(s, 0) \notin AccessModifiers

\* The loop over items; what gives no node is the label of an access.
AtMany(s, what, found) ==
  LET item == Item(s, what)
  IN  IF Peek(s, 0) \in {"}", "EOF", "none"} THEN [n |-> found, s |-> Expect(s, "}")]
      ELSE Many(item.s, what, IF item.n = Nothing THEN found ELSE Append(found, item.n))

AtStatement(s) ==
  LET t == Peek(s, 0)
  IN  CASE t = "@" -> Instruction(s)
        [] t = "if" -> If(s)
        [] t = "while" -> While(s)
        [] t = "return" -> Return(s)
        [] t \in {"break", "continue"} -> Jump(s)
        [] OTHER ->
             IF IsLabel(s) THEN Label(s)
             ELSE CASE t = "template" -> Template(s)
                    [] t = "inspect" -> Inspect(s)
                    [] t = "struct" -> Struct(s)
                    [] t = "namespace" -> Namespace(s)
                    [] t = "enum" -> Named(s, "enum", "member")
                    [] t = "union" -> Named(s, "union", "variant")
                    [] OTHER -> Simple(s)

Method(m, s) ==
  CASE m[1] = "expression" -> Climb(Prefix(s, m[4]), m[2], m[3], m[4])
    [] m[1] = "climb" -> ClimbOn([n |-> m[2], s |-> s], m[3], m[4], m[5])
    [] m[1] = "prefix" -> AtPrefix(s, m[2])
    [] m[1] = "primary" -> AtPrimary(s)
    [] m[1] = "commas" -> AtCommas(s, m[2])
    [] m[1] = "many" -> AtMany(s, m[2], m[3])
    [] m[1] = "statement" -> AtStatement(s)

RECURSIVE TranslationUnit(_, _)
TranslationUnit(s, found) ==
  IF Peek(s, 0) \in {"EOF", "none"} THEN [n |-> found, s |-> s]
  ELSE LET statement == Statement(s) IN TranslationUnit(statement.s, Append(found, statement.n))

\* parse_translation_unit on the tokens of a file.
Parse(tokens) == TranslationUnit(Reading(tokens), <<>>)

(***************************************************************************)
(* What the semantic analyzer takes for the members of an enumeration: the *)
(* items of node.members, which has no field elements, each named by its   *)
(* first token; the nth has the value n - 1.                               *)
(***************************************************************************)
RECURSIVE StartToken(_)
StartToken(n) ==
  CASE n[1] \in {"bin", "list"} -> StartToken(IF n[1] = "list" THEN n[3][1] ELSE n[3])
    [] n[1] \in {"mem", "call", "gen", "sub"} -> StartToken(IF n[1] = "mem" THEN n[3] ELSE n[2])
    [] OTHER -> n[2]

EnumMembers(enum) == [i \in DOMAIN enum[3] |-> StartToken(enum[3][i])]
=============================================================================
