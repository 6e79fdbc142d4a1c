------------------------------ MODULE Analyzer ------------------------------
(***************************************************************************)
(* The semantic analyzer: semantic_analyzer.cts with type_resolver.cts and *)
(* emit_identifier.  The recursive visit is an agenda: its head is the     *)
(* node being visited, the rest is what the callers still have to do, the  *)
(* restoring of saved fields included.  An expression is evaluated in one  *)
(* step unless it asks for a template instance that does not exist; then   *)
(* the tasks of the instance go in front and the expression is taken up    *)
(* again.  The clone of a template is its node with the substitution sub   *)
(* of its parameters.                                                      *)
(***************************************************************************)
EXTENDS TypeSystem, FiniteSets, SequencesExt

CONSTANTS Items,        \* name -> top-level declaration: what programs are made of
          Nodes,        \* the nodes of their trees, closed under parts
          TypeExprs,    \* the type expressions in them, closed under parts
          Exprs,        \* the expressions in them, closed under parts
          MaxDecls,     \* bound on the declarations of a program
          MaxAgenda     \* depth of visits the stack of the process allows

VARIABLES agenda,         \* what is left of the visits that have started
          declared,       \* the declarations taken from the source so far
          envs,           \* every Environment: name -> records
          environment,    \* the current one and its parents, innermost first
          typeTable,      \* name -> declared type
          templates,      \* templateRegistry
          owner,          \* _currentStruct, _currentFunction._ownerStruct and
                          \* typeTable._currentStruct: always set together
          namespacePath, hasAnonymousNamespace, loopStack,
          astRoot,        \* the clones pushed on astRoot: of a template (method 0)
                          \* or of one of its methods
          symbols,        \* _mangledName of every function declared
          calls,          \* _mangledName of every function a node refers to
          failed          \* the exception that ended the process, or ""

context == <<envs, environment, owner, namespacePath, hasAnonymousNamespace, loopStack>>
tables  == <<typeTable, templates, astRoot, symbols>>
vars    == <<agenda, declared, context, tables, calls, failed>>

Global == 1                     \* the Environment of the constructor
None   == <<>>                  \* null, as a name
NoSub  == <<>>                  \* the node is not a clone

\* The parts that the parser gives a node of each kind.
HasParts(n) ==
    /\ "k" \in DOMAIN n
    /\ n.k \in {"function", "struct"} => {"tparams", "instance"} \subseteq DOMAIN n
    /\ n.k \in {"namespace", "function", "block"} => "body" \in DOMAIN n /\ n.body \in Seq(Nodes)
    /\ n.k = "while" => n.condition \in Nodes /\ n.body \in Nodes
    /\ n.k = "if" => n.condition \in Nodes /\ n.branches \in Seq(Nodes)
    /\ n.k = "label" => n.statement \in Nodes
    /\ n.k = "inspect" => /\ n.cases \in Seq(ToSet(n.cases))
                         /\ \A i \in DOMAIN n.cases : n.cases[i].body \in Nodes

ASSUME NodesAssumption ==
    /\ \A d \in DOMAIN Items : Items[d] \in Nodes
    /\ \A n \in Nodes : HasParts(n) /\ (n.k \in {"function", "struct"} => n.instance = None)

Has(f, x)     == x \in DOMAIN f
With(f, x, v) == [y \in DOMAIN f \cup {x} |-> IF y = x THEN v ELSE f[y]]

-----------------------------------------------------------------------------
(* Names. *)

\* Environment.resolve: the records in the nearest environment that has them.
Holder(name) == SelectInSeq(environment, LAMBDA e : Has(envs[e], name))
Records(name) == IF Holder(name) = 0 THEN <<>> ELSE envs[environment[Holder(name)]][name]

\* The name under every prefix of the namespace, the longest first.
Prefixed(name) ==
    [i \in 1..Len(namespacePath) + 1 |->
        SubSeq(namespacePath, 1, Len(namespacePath) + 1 - i) \o name]

\* The names of a clone: a parameter gives way to its mangled argument.
Substitute(sub, path) ==
    FlattenSeq([i \in DOMAIN path |-> IF Has(sub, path[i]) THEN sub[path[i]] ELSE <<path[i]>>])

\* emit_identifier: this:: is the anonymous namespace of the current one.
Emit(sub, path) ==
    LET raw == Substitute(sub, path)
    IN  IF Len(path) > 1 /\ path[1] = "this"
        THEN namespacePath \o <<"$anon">> \o Tail(raw)
        ELSE raw

-----------------------------------------------------------------------------
(* What the evaluation of a type or an expression gives: a value of a type,  *)
(* a set of functions, a variant of a union, the instance it needs first, or *)
(* the exception.                                                            *)

Value(q, refs)     == [r |-> "value", q |-> q, refs |-> refs]
Functions(fns, one, refs) == [r |-> "functions", fns |-> fns, one |-> one, refs |-> refs]
Variant(q, payload) == [r |-> "variant", q |-> q, payload |-> payload, refs |-> {}]
Need(template, args) == [r |-> "need", template |-> template, args |-> args]
Failure(why)       == [r |-> "failure", why |-> why]

Stops(r)   == r.r \in {"need", "failure"}
IsTyped(r) == r.r \in {"value", "variant"}

\* The results are taken in order; the first that stops is the result.
InOrder(results, result) ==
    LET bad == FirstIn(results, Stops) IN IF bad = <<>> THEN result ELSE bad[1]

Refs(results)  == UNION {results[i].refs : i \in DOMAIN results}
Types(results) == [i \in DOMAIN results |-> results[i].q]

-----------------------------------------------------------------------------
(* Templates: what instantiate_template decides before it builds anything.   *)

InstanceName(template, args) ==
    template \o FlattenSeq([i \in DOMAIN args |-> Mangle(args[i])])

\* Mutant: only types are looked for.
ExistsType(name) == Has(typeTable, name)


Exists(name) == Has(typeTable, name) \/ Records(name) # <<>>

\* found is the template, value(i) what follows when its instance i exists.  A
\* template that was not declared is refused where the instance is made.
InstanceOf(found, args, instance, value(_)) ==
    IF Len(templates[found].params) # Len(args) THEN Failure("template arguments")
    ELSE InOrder(args, IF Exists(instance) THEN value(instance) ELSE Need(found, Types(args)))

Found(name, found, args, value(_)) ==
    IF found = <<>> THEN Need(name, <<>>)
    ELSE InstanceOf(found[1], args, InstanceName(found[1], Types(args)), value)

\* name is the template as it is written.
Instance(name, args, value(_)) ==
    Found(name, FirstIn(<<name>> \o Prefixed(name), LAMBDA n : Has(templates, n)), args, value)

-----------------------------------------------------------------------------
(* TypeResolver. *)

\* resolve_inner of a plain name.
TypeIn(found) == IF found = <<>> THEN Failure("unknown type")
                 ELSE Value(Qual(typeTable[found[1]].type), {})

NamedType(name) ==
    IF name = <<"Self">> /\ owner # None THEN TypeIn(<<owner>>)
    ELSE TypeIn(FirstIn(Prefixed(name), LAMBDA n : Has(typeTable, n)))

Written(name) == TypeIn(IF Has(typeTable, name) THEN <<name>> ELSE <<>>)

\* resolve_declaration_type.  The instance of a template is looked up under
\* the name as it was written, without the prefix the template was found by.
TypeOf(sub) ==
    LET ty[t \in TypeExprs] ==
          CASE t.t = "pointer" ->
                 InOrder(<<ty[t.of]>>, Value(Qual(Pointer(ty[t.of].q)), {}))
            [] t.t = "reference" ->
                 InOrder(<<ty[t.of]>>, Value(Qual(Reference(ty[t.of].q)), {}))
            [] t.t = "const" ->
                 InOrder(<<ty[t.of]>>, Value(WithConst(ty[t.of].q), {}))
            [] t.t = "name" -> NamedType(Emit(sub, t.path))
            [] t.t = "template" ->
                 LET name == Emit(sub, t.path)
                     args == [i \in DOMAIN t.args |-> ty[t.args[i]]]
                 IN  Instance(name, args, LAMBDA instance : Written(InstanceName(name, Types(args))))
    IN  ty

-----------------------------------------------------------------------------
(* Expressions. *)

\* checkMemberAccess.
MayAccess(struct, access) == access = "pub" \/ owner = struct

\* A member of the struct: a field, or else the methods of the name; the
\* access of the first method stands for all.
MemberOf(name, fields, methods, refs) ==
    IF fields # <<>>
    THEN IF MayAccess(name, fields[1].access) THEN Value(fields[1].q, refs)
         ELSE Failure("private")
    ELSE IF methods = <<>> THEN Failure("no member")
    ELSE IF MayAccess(name, methods[1].access)
    THEN Functions([i \in DOMAIN methods |->
                      [params |-> Tail(methods[i].params), ret |-> methods[i].ret,
                       symbol |-> methods[i].symbol]], FALSE, refs)
    ELSE Failure("private")

StructMember(type, member, refs) ==
    IF type.kind # "struct" THEN Failure("not a struct")
    ELSE MemberOf(type.name,
                  FirstIn(typeTable[type.name].fields, LAMBDA f : f.name = member),
                  SelectSeq(typeTable[type.name].methods, LAMBDA m : m.name = member), refs)

\* obj.member and ptr->member.
Member(base, op, member) ==
    IF ~IsTyped(base) THEN Failure("not a struct")
    ELSE IF op = "." THEN StructMember(Resolve(base.q).type, member, base.refs)
    ELSE IF IsA(base.q, "pointer") THEN StructMember(Pointee(base.q).type, member, base.refs)
    ELSE Failure("not a pointer")

\* The members of enumerations and unions, seen before any other name: the
\* type under every prefix, the last piece the member.
InType(t, member) ==
    CASE t.type.kind = "enum" ->
           <<IF member \in t.members THEN Value(Qual(t.type), {}) ELSE Failure("no member")>>
      [] t.type.kind = "union" ->
           <<IF Has(t.variants, member) THEN Variant(Qual(t.type), t.variants[member])
             ELSE Failure("no variant")>>
      [] OTHER -> <<>>

InFoundType(found, member) == IF found = <<>> THEN <<>> ELSE InType(typeTable[found[1]], member)

MemberOfType(name) ==
    IF Len(name) < 2 THEN <<>>
    ELSE InFoundType(FirstIn(Prefixed(Front(name)), LAMBDA n : Has(typeTable, n)), Last(name))

\* The records a name stands for: a name with :: as it is, any other under
\* every prefix through the whole chain of environments, the longest first.
Named(name, qualified) ==
    IF qualified THEN Records(name)
    ELSE LET found == FirstIn(Prefixed(name), LAMBDA n : Records(n) # <<>>)
         IN  IF found = <<>> THEN <<>> ELSE Records(found[1])

SymbolsValue(syms) ==
    CASE syms = <<>> -> Failure("undeclared")
      [] Len(syms) = 1 /\ syms[1].kind = "variable" -> Value(syms[1].q, {})
      [] OTHER -> Functions([i \in DOMAIN syms |-> syms[i].fn], Len(syms) = 1,
                            IF Len(syms) = 1 THEN {syms[1].fn.symbol} ELSE {})

NameValue(name, qualified) == SymbolsValue(Named(name, qualified))

Chosen(best, refs) ==
    IF best = <<>> THEN Failure("no overload")
    ELSE Value(best[1].ret, refs \cup {best[1].symbol})

\* A single function takes more arguments than it has parameters, unchecked.
CallOne(f, args, refs) ==
    IF \/ Len(f.params) > Len(args)
       \/ Len(f.params) = Len(args) /\ ~Fits(f.params, Types(args), CheckInitialization)
    THEN Failure("arguments") ELSE Value(f.ret, refs)

\* Call: the arguments are visited after the caller and before any check.
Call(caller, args, refs) ==
    CASE caller.r = "variant" ->
           IF Len(args) = Len(caller.payload) THEN Value(caller.q, refs) ELSE Failure("payload")
      [] caller.r = "value" -> Failure("not a function")
      [] caller.r = "functions" /\ caller.one -> CallOne(caller.fns[1], args, refs)
      [] caller.r = "functions" /\ ~caller.one ->
           Chosen(ChooseOverload(caller.fns, Types(args)), refs)

\* findConstructor for the struct of type q.
Constructed(q, found, refs) ==
    IF found = <<>> THEN Failure("no constructor") ELSE Value(q, refs \cup {found[1].symbol})

Construct(q, args) ==
    LET ctors == SelectSeq(typeTable[Resolve(q).type.name].methods, LAMBDA m : m.ctor)
    IN  IF ~IsA(q, "struct") THEN Failure("not a struct")
        ELSE Constructed(q, FindConstructor([i \in DOMAIN ctors |->
                              [params |-> Tail(ctors[i].params), symbol |-> ctors[i].symbol]],
                              Types(args)), Refs(args))

\* Literal.
LiteralType ==
    [number |-> Qual(Primitive("int32_t")), boolean |-> Qual(Primitive("bool")),
     nullptr |-> Qual(Primitive("nullptr")), char |-> Qual(Primitive("char")),
     string |-> Qual(Pointer(WithConst(Qual(Primitive("char")))))]

\* ThisExpression, also met as an identifier.
This ==
    IF owner = None THEN Failure("this outside a method")
    ELSE Value(Qual(Pointer(Qual(Declared("struct", owner)))), {})

\* BinaryExpression: an assignment, or an operator that gives bool.
Assigned(l, r) ==
    InOrder(<<l, r>>, IF CheckAssignment(l.q, r.q) THEN Value(l.q, Refs(<<l, r>>))
                      ELSE Failure("assignment"))
Compared(l, r) == InOrder(<<l, r>>, Value(Qual(Primitive("bool")), Refs(<<l, r>>)))

\* UnaryExpression.
AddressOf(o) == InOrder(<<o>>, Value(Qual(Pointer(o.q)), o.refs))
Dereferenced(o) ==
    InOrder(<<o>>, IF IsA(o.q, "pointer") THEN Value(Pointee(o.q), o.refs)
                   ELSE Failure("not a pointer"))

\* SubscriptExpression: the index may be anything.
Indexed(l, r) ==
    InOrder(<<l, r>>, IF IsA(l.q, "pointer") THEN Value(Pointee(l.q), Refs(<<l, r>>))
                      ELSE Failure("not a pointer"))

\* ImplicitCast, a List in front of an operand.
CastTo(how, type, o) ==
    InOrder(<<type, o>>, IF CheckCast(how, o.q, type.q) THEN Value(type.q, o.refs)
                         ELSE Failure("cast"))

\* sizeof is a call of its name.
SizeOfType(type) == InOrder(<<type>>, Value(Qual(Primitive("int32_t")), {}))

Braces(type, args) == InOrder(<<type>> \o args, Construct(type.q, args))
Called(caller, args) ==
    InOrder(<<caller>> \o args, Call(caller, args, caller.refs \cup Refs(args)))

\* Identifier: a member of a type comes before any other name.
Identifier(member, name, qualified) ==
    IF member # <<>> THEN member[1] ELSE NameValue(name, qualified)

\* visit of an expression; ty resolves the types in it.
EvalWith(sub, ty) ==
    LET ev[x \in Exprs] ==
          CASE x.e = "literal"  -> Value(LiteralType[x.lit], {})
            [] x.e = "this"     -> This
            [] x.e = "name"     -> Identifier(MemberOfType(Emit(sub, x.path)), Emit(sub, x.path),
                                              Len(x.path) > 1)
            [] x.e = "instance" -> Instance(Emit(sub, x.path),
                                            [i \in DOMAIN x.args |-> ty[x.args[i]]],
                                            LAMBDA i : NameValue(i, Len(x.path) > 1))
            [] x.e = "member"   -> InOrder(<<ev[x.base]>>, Member(ev[x.base], x.op, x.name))
            [] x.e = "call"     -> Called(ev[x.caller], [i \in DOMAIN x.args |-> ev[x.args[i]]])
            [] x.e = "braces"   -> Braces(ty[x.type], [i \in DOMAIN x.args |-> ev[x.args[i]]])
            [] x.e = "assign"   -> Assigned(ev[x.left], ev[x.right])
            [] x.e = "compare"  -> Compared(ev[x.left], ev[x.right])
            [] x.e = "address"  -> AddressOf(ev[x.of])
            [] x.e = "index"    -> Indexed(ev[x.left], ev[x.right])
            [] x.e = "dereference" -> Dereferenced(ev[x.of])
            [] x.e = "cast"     -> CastTo(x.how, ty[x.type], ev[x.of])
            [] x.e = "sizeof"   -> SizeOfType(ty[x.type])
    IN  ev

Eval(sub) == EvalWith(sub, TypeOf(sub))

-----------------------------------------------------------------------------
(* The agenda. *)

Visit(node, scope, sub) == [do |-> "visit", node |-> node, scope |-> scope, sub |-> sub]
VisitAll(nodes, scope, sub) == [i \in DOMAIN nodes |-> Visit(nodes[i], scope, sub)]

Running == failed = "" /\ agenda # <<>>
Task == Head(agenda)
Node == Task.node
Rest == Tail(agenda)

At(kind)   == Running /\ Task.do = "visit" /\ Node.k = kind
Doing(what) == Running /\ Task.do = what

\* An ExpressionException ends the process.
Fail(why) ==
    /\ failed' = why
    /\ UNCHANGED <<agenda, declared, context, tables, calls>>

Goes(tasks) == agenda' = tasks \o Rest /\ UNCHANGED <<declared, failed>>

\* A new Environment under the current one.
Open(symbolsOf) ==
    /\ envs' = Append(envs, symbolsOf)
    /\ environment' = <<Len(envs) + 1>> \o environment

Empty == [n \in {} |-> <<>>]
Variable(q) == [kind |-> "variable", q |-> q]

\* Environment.define.
WithRecord(symbolsOf, name, record) ==
    With(symbolsOf, name, Append(IF Has(symbolsOf, name) THEN symbolsOf[name] ELSE <<>>, record))
Define(name, record) ==
    envs' = [envs EXCEPT ![environment[1]] = WithRecord(@, name, record)]
HasOwn(name) == Has(envs[environment[1]], name)

-----------------------------------------------------------------------------
(* instantiate_template, once the instance is known to be missing: the       *)
(* global environment, the namespace of a function template (none for a      *)
(* struct), the clone of the declaration, then the clones of the methods     *)
(* registered so far; the caller's context is restored by the last task.     *)

RegisterAliases(args) ==
    LET new == {i \in DOMAIN args : ~Has(typeTable, Mangle(args[i]))}
        entry(i) == [type |-> Alias(Mangle(args[i]), Resolve(args[i])), size |-> 0]
    IN  typeTable' = [n \in DOMAIN typeTable \cup {Mangle(args[i]) : i \in new} |->
                        IF Has(typeTable, n) THEN typeTable[n]
                        ELSE entry(CHOOSE i \in new : Mangle(args[i]) = n)]

Clone(template, name) == [template.node EXCEPT !.tparams = <<>>, !.instance = name]
CloneMethod(method, name) == [method EXCEPT !.tparams = <<>>, !.struct = name]

InstanceTasks(template, name, sub) ==
    LET one(node, i) == <<Visit(node, "Global", sub), [do |-> "push", name |-> name, method |-> i]>>
        method(i) == one(CloneMethod(template.methods[i], name), i)
    IN  one(Clone(template, name), 0)
        \o FlattenSeq([i \in DOMAIN template.methods |-> method(i)])
        \o <<[do |-> "restore", environment |-> environment, path |-> namespacePath]>>

Instantiate(need) ==
    LET template == templates[need.template]
        name == InstanceName(need.template, need.args)
        sub == [p \in ToSet(template.params) |->
                  Mangle(need.args[CHOOSE i \in DOMAIN need.args : template.params[i] = p])]
        tasks == InstanceTasks(template, name, sub) \o agenda
    IN  IF ~Has(templates, need.template) THEN Fail("undeclared template")
        ELSE IF Len(tasks) > MaxAgenda THEN Fail("stack")
        ELSE /\ ~Exists(name)
             /\ agenda' = tasks
             /\ RegisterAliases(need.args)
             /\ environment' = <<Global>>
             /\ namespacePath' = template.path
             /\ UNCHANGED <<declared, failed, envs, owner, hasAnonymousNamespace, loopStack,
                            templates, astRoot, symbols, calls>>

\* astRoot.push of an instance, _alreadyAnalyzed.
PushInstance ==
    /\ Doing("push")
    /\ astRoot' = Append(astRoot, [name |-> Task.name, method |-> Task.method])
    /\ Goes(<<>>)
    /\ UNCHANGED <<context, typeTable, templates, symbols, calls>>

RestoreContext ==
    /\ Doing("restore")
    /\ environment' = Task.environment
    /\ namespacePath' = Task.path
    /\ Goes(<<>>)
    /\ UNCHANGED <<envs, owner, hasAnonymousNamespace, loopStack, tables, calls>>

\* What follows the evaluation of the results that the head task asks for:
\* the visit is refused, or done.
Settle(results, refused, done) ==
    LET bad == FirstIn(results, Stops)
    IN  IF bad # <<>> /\ bad[1].r = "need" THEN Instantiate(bad[1])
        ELSE IF bad # <<>> THEN Fail(bad[1].why)
        ELSE IF refused THEN Fail(Task.do)
        ELSE done /\ calls' = calls \cup Refs(results)

-----------------------------------------------------------------------------
(* Declarations. *)

\* analyze: the next node of the source, if guard_global_scope lets it pass.
TakeDeclaration ==
    /\ failed = "" /\ agenda = <<>> /\ Len(declared) < MaxDecls
    /\ \E d \in DOMAIN Items \ ToSet(declared) :
         IF Items[d].k \in {"variable", "function", "struct", "namespace", "enum", "union"}
         THEN /\ declared' = Append(declared, d)
              /\ agenda' = <<Visit(Items[d], "Global", NoSub)>>
              /\ UNCHANGED <<context, tables, calls, failed>>
         ELSE Fail("not allowed in global scope")

QualifiedName(name) == IF namespacePath = <<>> THEN name ELSE namespacePath \o name

\* A list in braces makes a struct by a constructor, and nothing else.
FromBraces(type, args) ==
    IF Stops(type) \/ ~Node.hasBraces THEN <<>>
    ELSE IF IsA(type.q, "pointer") THEN <<Failure("pointer from list")>>
    ELSE IF IsA(type.q, "struct") THEN Append(args, InOrder(args, Construct(type.q, args)))
    ELSE <<>>

VariableOf(name, type, init, made) ==
    IF HasOwn(name) THEN Fail("redefinition")
    ELSE Settle(<<type>> \o made \o init,
           \/ \E i \in DOMAIN init : ~CheckInitializer(type.q, init[i].q)
           \/ type.q.const /\ Node.init = <<>> /\ ~Node.hasBraces /\ ~Node.extern,
           /\ Define(name, Variable(type.q))
           /\ Goes(<<>>)
           /\ UNCHANGED <<environment, owner, namespacePath, hasAnonymousNamespace,
                          loopStack, tables>>)

\* VariableDeclaration.  Only a global takes the prefix of its namespace.
VariableFrom(type, values) ==
    VariableOf(IF Task.scope = "Global" THEN QualifiedName(<<Node.name>>) ELSE <<Node.name>>,
               type,
               IF Node.hasBraces THEN <<>> ELSE values,
               FromBraces(type, values))

DeclareVariable ==
    /\ At("variable")
    /\ VariableFrom(TypeOf(Task.sub)[Node.type],
                    [i \in DOMAIN Node.init |-> Eval(Task.sub)[Node.init[i]]])

\* FunctionDeclaration, up to the moment when the struct of a method is known.
\* A function of a template struct waits in the registry; so does a template.
DeclareFunction ==
    /\ At("function")
    /\ LET inst == Node.instance # None
           name == IF inst THEN Node.instance
                   ELSE namespacePath \o Node.ns \o Node.struct \o Node.name
           struct == IF inst \/ Node.struct = None THEN None ELSE QualifiedName(Node.struct)
           register(key, value) ==
               /\ templates' = With(templates, key, value)
               /\ Goes(<<>>)
               /\ UNCHANGED <<context, typeTable, astRoot, symbols, calls>>
       IN  IF Task.scope = "Local" THEN Fail("not allowed in local scope")
           ELSE IF struct # None /\ Has(templates, struct)
           THEN register(struct, [templates[struct] EXCEPT !.methods = Append(@, Node)])
           ELSE IF Node.tparams # <<>>
           THEN register(name, [params |-> Node.tparams, node |-> Node, methods |-> <<>>,
                                path |-> namespacePath])
           ELSE IF struct # None
                   /\ ~(Has(typeTable, struct) /\ typeTable[struct].type.kind = "struct")
           THEN Fail("unknown struct")
           ELSE /\ owner' = IF struct # None THEN struct ELSE owner
                /\ Goes(<<[do |-> "signature", node |-> Node, name |-> name, struct |-> struct,
                           sub |-> Task.sub]>>)
                /\ UNCHANGED <<envs, environment, namespacePath, hasAnonymousNamespace,
                               loopStack, tables, calls>>

\* The types of the parameters as the node has them once this and the hidden
\* pointer of a large result have been put in front.
Parameters(ret, struct, users) ==
    (IF SizeOf(typeTable, ret) > 16 /\ Node.qualifier = "" THEN <<Qual(Pointer(ret))>> ELSE <<>>)
    \o (IF struct # None THEN <<Qual(Pointer(Qual(Declared("struct", struct))))>> ELSE <<>>)
    \o users

\* Mutant: the parameters count, their types do not.
UniqueNameByCount(name, params) ==
    IF name = <<"main">> \/ params = <<>> THEN name
    ELSE name \o <<ToString(Len(params))>>

\* unique_mangled_name: the base name and the names of the parameter types.
UniqueName(name, params) ==
    IF Node.qualifier = "destructor" THEN name \o <<"dtor">>
    ELSE IF name = <<"main">> THEN name
    ELSE IF params = <<>> THEN name \o <<"void">>
    ELSE name \o FlattenSeq([i \in DOMAIN params |-> TypeName(params[i].type)])

\* A constructor that gives its own struct gives a pointer to it.
ResultType(ret, struct) ==
    IF Node.qualifier = "constructor" /\ struct # None /\ Resolve(ret).type = Declared("struct", struct)
    THEN Qual(Pointer(Qual(Declared("struct", struct)))) ELSE ret

\* The symbols of the function's own environment.
OwnSymbols(users) ==
    LET named == [i \in DOMAIN users |-> <<Node.params[i].name>>]
        this == <<Variable(Qual(Pointer(Qual(Declared("struct", Task.struct)))))>>
        own == [n \in ToSet(named) |->
                  <<Variable(users[CHOOSE i \in DOMAIN users : named[i] = n].q)>>]
    IN  IF Task.struct = None \/ Has(own, <<"this">>) THEN own ELSE With(own, <<"this">>, this)

FieldNamed(struct, name) ==
    \E i \in DOMAIN typeTable[struct].fields : typeTable[struct].fields[i].name = name

\* The function goes under its base name, with its unique name, in the current
\* environment and in the methods of its struct; then its body is visited.
Declare(users, fn) ==
    /\ envs' = Append([envs EXCEPT ![environment[1]] =
                        WithRecord(@, Task.name, [kind |-> "function", fn |-> fn])],
                      OwnSymbols(users))
    /\ environment' = <<Len(envs) + 1>> \o environment
    /\ typeTable' = IF Task.struct = None THEN typeTable
                    ELSE [typeTable EXCEPT ![Task.struct].methods = Append(@,
                           [name |-> Last(Node.name), params |-> fn.params, ret |-> fn.ret,
                            symbol |-> fn.symbol, ctor |-> Node.qualifier = "constructor",
                            access |-> Node.access])]
    /\ symbols' = Append(symbols, fn.symbol)
    /\ Goes(VisitAll(Node.body, "Local", Task.sub)
            \o <<[do |-> "leaveFunction", saved |-> environment, struct |-> Task.struct]>>)
    /\ UNCHANGED <<owner, namespacePath, hasAnonymousNamespace, loopStack, templates, astRoot>>

Function(ret, params) ==
    [params |-> params, ret |-> ret, symbol |-> UniqueName(Task.name, params)]

FunctionOf(ret, users) == Function(ret, Parameters(ret, Task.struct, Types(users)))

Signature(result, users) ==
    Settle(<<result>> \o users,
      \/ Node.qualifier = "destructor" /\ Node.params # <<>>
      \/ Task.struct # None /\ FieldNamed(Task.struct, Last(Node.name)),
      Declare(users, FunctionOf(ResultType(result.q, Task.struct), users)))

\* The rest of FunctionDeclaration up to its body.
DeclareSignature ==
    /\ Doing("signature")
    /\ Signature(IF Node.ret = <<>> THEN Value(Qual(Primitive("void")), {})
                 ELSE TypeOf(Task.sub)[Node.ret[1]],
                 [i \in DOMAIN Node.params |-> TypeOf(Task.sub)[Node.params[i].type]])

\* Mutant: the struct stays current after its method.
LeaveFunctionOwned ==
    /\ Doing("leaveFunction")
    /\ environment' = Task.saved
    /\ Goes(<<>>)
    /\ UNCHANGED <<envs, owner, namespacePath, hasAnonymousNamespace, loopStack, tables, calls>>


LeaveFunction ==
    /\ Doing("leaveFunction")
    /\ environment' = Task.saved
    /\ owner' = IF Task.struct # None THEN None ELSE owner
    /\ Goes(<<>>)
    /\ UNCHANGED <<envs, namespacePath, hasAnonymousNamespace, loopStack, tables, calls>>

\* TypeTable.register.
RegisterType(name, entry) ==
    /\ typeTable' = With(typeTable, name, entry)
    /\ Goes(<<>>)
    /\ UNCHANGED <<context, templates, astRoot, symbols>>

\* StructDeclaration: the type is registered after its fields were resolved.
Layout(types) ==
    FoldLeftDomain(LAMBDA layout, i : PlaceField(layout, Node.fields[i].name, types[i].q,
                                                 Node.fields[i].access, typeTable),
                   EmptyLayout, Node.fields)

StructEntry(name, layout) ==
    [type |-> Declared("struct", name), fields |-> layout.fields, methods |-> <<>>,
     size |-> TotalSize(layout), align |-> layout.align]

StructFrom(name, types) ==
    Settle(types, FALSE, RegisterType(name, StructEntry(name, Layout(types))))

DeclareStruct ==
    /\ At("struct")
    /\ LET name == QualifiedName(IF Node.instance # None THEN Node.instance ELSE Node.name)
       IN  IF Node.tparams # <<>>
           THEN /\ templates' = With(templates, name, [params |-> Node.tparams, node |-> Node,
                                                       methods |-> <<>>, path |-> None])
                /\ Goes(<<>>)
                /\ UNCHANGED <<context, typeTable, astRoot, symbols, calls>>
           ELSE StructFrom(name, [i \in DOMAIN Node.fields |->
                                    TypeOf(Task.sub)[Node.fields[i].type]])

DeclareEnum ==
    /\ At("enum")
    /\ RegisterType(QualifiedName(Node.name),
                    [type |-> Declared("enum", QualifiedName(Node.name)),
                     members |-> Node.members, size |-> 4])
    /\ UNCHANGED calls

\* UnionDeclaration: the payload of a variant is the sum of its sizes.
Bytes(payload) == FoldLeft(LAMBDA n, r : n + SizeOf(typeTable, r.q), 0, payload)
Largest(payloads) ==
    FoldLeft(LAMBDA n, p : IF Bytes(p) > n THEN Bytes(p) ELSE n, 0, payloads)

UnionFrom(name, payloads) ==
    Settle(FlattenSeq(payloads), FALSE,
      RegisterType(name, [type |-> Declared("union", name), size |-> UnionSize(Largest(payloads)),
        variants |-> [v \in {Node.variants[i].name : i \in DOMAIN Node.variants} |->
          Types(payloads[CHOOSE i \in DOMAIN Node.variants : Node.variants[i].name = v])]]))

DeclareUnion ==
    /\ At("union")
    /\ UnionFrom(QualifiedName(Node.name),
                 [i \in DOMAIN Node.variants |->
                    [j \in DOMAIN Node.variants[i].payload |->
                       TypeOf(Task.sub)[Node.variants[i].payload[j]]]])

\* NamespaceDeclaration: the statements are visited in the current environment.
EnterNamespace ==
    /\ At("namespace")
    /\ IF Node.name = None /\ hasAnonymousNamespace THEN Fail("nested anonymous namespace")
       ELSE /\ namespacePath' = Append(namespacePath, IF Node.name = None THEN "$anon" ELSE Node.name[1])
            /\ hasAnonymousNamespace' = (Node.name = None \/ hasAnonymousNamespace)
            /\ Goes(VisitAll(Node.body, Task.scope, Task.sub)
                    \o <<[do |-> "leaveNamespace", anonymous |-> hasAnonymousNamespace]>>)
            /\ UNCHANGED <<envs, environment, owner, loopStack, tables, calls>>

\* Mutant: the anonymous namespace is left and not forgotten.
LeaveNamespaceMarked ==
    /\ Doing("leaveNamespace")
    /\ namespacePath' = Front(namespacePath)
    /\ Goes(<<>>)
    /\ UNCHANGED <<envs, environment, owner, hasAnonymousNamespace, loopStack, tables, calls>>


LeaveNamespace ==
    /\ Doing("leaveNamespace")
    /\ namespacePath' = Front(namespacePath)
    /\ hasAnonymousNamespace' = Task.anonymous
    /\ Goes(<<>>)
    /\ UNCHANGED <<envs, environment, owner, loopStack, tables, calls>>

-----------------------------------------------------------------------------
(* Statements. *)

Expression ==
    /\ At("expression")
    /\ Settle(<<Eval(Task.sub)[Node.x]>>, FALSE,
              Goes(<<>>) /\ UNCHANGED <<context, tables>>)

\* IfStatement; a ReturnStatement is an expression or nothing.
If ==
    /\ At("if")
    /\ Goes(VisitAll(<<Node.condition>> \o Node.branches, Task.scope, Task.sub))
    /\ UNCHANGED <<context, tables, calls>>

EnterBlock ==
    /\ At("block")
    /\ Open(Empty)
    /\ Goes(VisitAll(Node.body, Task.scope, Task.sub)
            \o <<[do |-> "leaveBlock", saved |-> environment]>>)
    /\ UNCHANGED <<owner, namespacePath, hasAnonymousNamespace, loopStack, tables, calls>>

LeaveBlock ==
    /\ Doing("leaveBlock")
    /\ environment' = Task.saved
    /\ Goes(<<>>)
    /\ UNCHANGED <<envs, owner, namespacePath, hasAnonymousNamespace, loopStack, tables, calls>>

\* LabelStatement: a loop or a block.
Label ==
    /\ At("label")
    /\ IF Node.statement.k \notin {"while", "block"} THEN Fail("label")
       ELSE /\ loopStack' = Append(loopStack, [label |-> Node.label,
                                               isLoop |-> Node.statement.k = "while"])
            /\ Goes(<<Visit(Node.statement, Task.scope, Task.sub), [do |-> "popLoop"]>>)
            /\ UNCHANGED <<envs, environment, owner, namespacePath, hasAnonymousNamespace,
                           tables, calls>>

\* WhileStatement: it counts as the loop of its label when that is on top.
While ==
    /\ At("while")
    /\ LET needsPush == loopStack = <<>> \/ ~Last(loopStack).isLoop
           visits == VisitAll(<<Node.condition, Node.body>>, Task.scope, Task.sub)
       IN  /\ loopStack' = IF needsPush THEN Append(loopStack, [label |-> "", isLoop |-> TRUE])
                           ELSE loopStack
           /\ Goes(visits \o (IF needsPush THEN <<[do |-> "popLoop"]>> ELSE <<>>))
           /\ UNCHANGED <<envs, environment, owner, namespacePath, hasAnonymousNamespace,
                          tables, calls>>

PopLoop ==
    /\ Doing("popLoop")
    /\ loopStack' = Front(loopStack)
    /\ Goes(<<>>)
    /\ UNCHANGED <<envs, environment, owner, namespacePath, hasAnonymousNamespace, tables, calls>>

\* JumpStatement: some loop, and the label if one is named.
MayJump(label) ==
    /\ \E i \in DOMAIN loopStack : loopStack[i].isLoop
    /\ label = "" \/ \E i \in DOMAIN loopStack : loopStack[i].label = label

Jump ==
    /\ At("jump")
    /\ IF MayJump(Node.label) THEN Goes(<<>>) /\ UNCHANGED <<context, tables, calls>>
       ELSE Fail("jump")

\* InspectStatement.
InspectOf(target) ==
    Settle(<<target>>, ~(IsTyped(target) /\ IsA(target.q, "union")),
      /\ Goes([i \in DOMAIN Node.cases |->
                 [do |-> "case", case |-> Node.cases[i], scope |-> Task.scope,
                  sub |-> Task.sub, union |-> Resolve(target.q).type.name]])
      /\ UNCHANGED <<context, tables>>)

Inspect == At("inspect") /\ InspectOf(Eval(Task.sub)[Node.target])

\* One turn of its loop: an environment with the payload bound to the names.
InspectCase ==
    /\ Doing("case")
    /\ LET c == Task.case
           variants == typeTable[Task.union].variants
       IN  IF c.variant # "_" /\ ~Has(variants, c.variant) THEN Fail("no variant")
           ELSE IF c.variant # "_" /\ Len(c.names) > Len(variants[c.variant]) THEN Fail("payload")
           ELSE /\ Open([n \in {<<c.names[i]>> : i \in DOMAIN c.names} |->
                           <<Variable(variants[c.variant][CHOOSE i \in DOMAIN c.names : <<c.names[i]>> = n])>>])
                /\ Goes(<<Visit(c.body, Task.scope, Task.sub),
                          [do |-> "leaveBlock", saved |-> environment]>>)
                /\ UNCHANGED <<owner, namespacePath, hasAnonymousNamespace, loopStack, tables, calls>>

-----------------------------------------------------------------------------

Init ==
    /\ agenda = <<>> /\ declared = <<>> /\ failed = ""
    /\ envs = <<Empty>> /\ environment = <<Global>>
    /\ typeTable = [n \in {<<p>> : p \in DOMAIN PrimitiveSize} |->
                      [type |-> Primitive(n[1]), size |-> PrimitiveSize[n[1]]]]
    /\ templates = Empty /\ owner = None
    /\ namespacePath = <<>> /\ hasAnonymousNamespace = FALSE /\ loopStack = <<>>
    /\ astRoot = <<>> /\ symbols = <<>> /\ calls = {}

Ended ==
    /\ \/ failed # ""
       \/ agenda = <<>> /\ (Len(declared) = MaxDecls \/ DOMAIN Items = ToSet(declared))
    /\ UNCHANGED vars

Next ==
    \/ TakeDeclaration \/ DeclareVariable \/ DeclareFunction \/ DeclareSignature
    \/ LeaveFunction \/ DeclareStruct \/ DeclareEnum \/ DeclareUnion
    \/ EnterNamespace \/ LeaveNamespace \/ PushInstance \/ RestoreContext
    \/ Expression \/ If \/ EnterBlock \/ LeaveBlock \/ Label \/ While \/ PopLoop
    \/ Jump \/ Inspect \/ InspectCase \/ Ended

Spec == Init /\ [][Next]_vars

-----------------------------------------------------------------------------
(* Properties. *)

\* Between two declarations of the source nothing of the last one is left:
\* every field a handler saves and overwrites, in any nesting of functions,
\* namespaces, loops and instances, has its value back (the pairs of save and
\* restore in 1360-1651, 2021-2047, 2205-2260 and 509-559).
ContextRestored ==
    agenda = <<>> => /\ environment = <<Global>>
                     /\ namespacePath = <<>> /\ ~hasAnonymousNamespace
                     /\ loopStack = <<>>

\* The tasks of the instance that is being built, or else of the declaration.
Inside == {i \in DOMAIN agenda : \A j \in 1..i : agenda[j].do # "restore"}
Leaving == {i \in Inside : agenda[i].do \in {"leaveBlock", "leaveFunction"}}

\* A name is only ever looked for in the blocks and the function around it and
\* in the global environment: an instance made in the middle of a function does
\* not see the variables there (the way up to globalEnv, 512-517).
ScopesOwn ==
    /\ ToSet(environment) \subseteq DOMAIN envs /\ Last(environment) = Global
    /\ Len(environment) = 1 + Cardinality(Leaving)

\* What is in force while something is visited is what its place in the source
\* says, in the middle of any nesting as well as after it.
ContextKept == ContextRestored /\ ScopesOwn

\* While a struct is the current one, it is that of the innermost method whose
\* visit is not over: once the methods of a struct are left, checkMemberAccess
\* (1645-1649) no longer takes what follows for one of them.
OwnerPending ==
    owner # None =>
      /\ Has(typeTable, owner)
      /\ \E i \in DOMAIN agenda :
            /\ agenda[i].do \in {"signature", "leaveFunction"} /\ agenda[i].struct = owner
            /\ \A j \in 1..i - 1 :
                  agenda[j].do \in {"signature", "leaveFunction"} => agenda[j].struct = None

\* The current struct is the one of the function whose body is being visited.
OwnerIsCaller ==
    \A i \in Inside :
      (agenda[i].do = "leaveFunction" /\ \A j \in 1..i - 1 : agenda[j].do # "leaveFunction")
        => owner = agenda[i].struct

\* No clone is on astRoot twice: no instance was asked for again while its own
\* signature or fields were resolved.
BuiltOnce == \A i, j \in DOMAIN astRoot : astRoot[i] = astRoot[j] => i = j

\* A program that passes refers only to functions it has, and every name that
\* goes into the assembly means one function (unique_mangled_name, 1560-1571),
\* unless an instance was built twice.
CallsResolved ==
    (agenda = <<>> /\ failed = "") =>
      /\ calls \subseteq ToSet(symbols)
      /\ BuiltOnce => \A i, j \in DOMAIN symbols :
                       symbols[i] \in calls /\ symbols[i] = symbols[j] => i = j

\* The step begins to build the instance: its clone is to be visited next.
Begins(name) ==
    /\ Len(agenda') > Len(agenda) /\ Head(agenda').do = "visit"
    /\ Head(agenda').node.k \in {"function", "struct"}
    /\ Head(agenda').node.instance = name /\ name # None

\* An instance that is complete is never built again, whoever asks for it, in
\* whatever namespace, block or other instance (443-448): under its name it is
\* found from everywhere.
InstancesOnce ==
    [][\A i \in DOMAIN astRoot : astRoot[i].method = 0 => ~Begins(astRoot[i].name)]_vars

\* The fields of every struct lie apart from each other and inside its size,
\* primitive fields and pointers at multiples of their size.
FieldsApart ==
    \A n \in DOMAIN typeTable : typeTable[n].type.kind = "struct" =>
      LET f == typeTable[n].fields
      IN  \A i \in DOMAIN f :
            /\ f[i].offset + SizeOf(typeTable, f[i].q) <= typeTable[n].size
            /\ Resolve(f[i].q).type.kind \in {"primitive", "pointer"} =>
                 f[i].offset % SizeOf(typeTable, f[i].q) = 0
            /\ \A j \in DOMAIN f : i < j =>
                 f[i].offset + SizeOf(typeTable, f[i].q) <= f[j].offset
=============================================================================
