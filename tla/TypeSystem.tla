----------------------------- MODULE TypeSystem -----------------------------
(***************************************************************************)
(* Types, their names and their conversions: type-checker.cts and          *)
(* mangle.cts.  A qualified type is [type, const] (volatile, handled as    *)
(* const everywhere, is left out).  A name is the sequence of the pieces   *)
(* that the code glues with "__" or nothing, so the prefix of a namespace, *)
(* a mangled argument and the split at "__" are exact, and names that      *)
(* become the same string are the same sequence.                           *)
(***************************************************************************)
EXTENDS Integers, Sequences

\* The qualified types a program names, closed under what they point to.
CONSTANT QualTypes

ClosedUnderPointee(T) ==
    \A q \in T : q.type.kind \in {"pointer", "reference"} => q.type.to \in T

ASSUME QualTypesClosed == ClosedUnderPointee(QualTypes)

-----------------------------------------------------------------------------
(* QualType and the classes under AnyType. *)

Qual(t)     == [type |-> t, const |-> FALSE]
WithConst(q) == [q EXCEPT !.const = TRUE]
Primitive(n) == [kind |-> "primitive", name |-> <<n>>]
Declared(kind, name) == [kind |-> kind, name |-> name]      \* struct, enum, union
Pointer(q)   == [kind |-> "pointer", to |-> q]
Reference(q) == [kind |-> "reference", to |-> q]
Alias(name, q) == [kind |-> "alias", name |-> name, under |-> q]

PrimitiveSize ==
    [void |-> 1, char |-> 1, bool |-> 1, int16_t |-> 2, int32_t |-> 4, nullptr |-> 8]

\* QualType.resolve: an alias gives way to its type, const on either is kept.
\* The aliases the analyzer registers stand for resolved types.
Resolve(q) ==
    IF q.type.kind = "alias"
    THEN [type |-> q.type.under.type, const |-> q.const \/ q.type.under.const]
    ELSE q

IsA(q, kind)   == Resolve(q).type.kind = kind
IsPrim(q, n)   == Resolve(q).type = Primitive(n)
Pointee(q)     == Resolve(Resolve(q).type.to)

-----------------------------------------------------------------------------
(* ItaniumMangler: const is K, a pointer P, a reference R; two primitives   *)
(* have a letter, every other name its length in front.                     *)

PrimitiveCode ==
    [void |-> "v", char |-> "c", bool |-> "4bool", int16_t |-> "7int16_t",
     int32_t |-> "7int32_t", nullptr |-> "7nullptr"]

MangleType[q \in QualTypes] ==
    LET t == q.type
        const(r) == IF r.const THEN <<"K">> ELSE <<>>
    IN  CASE t.kind = "primitive" -> <<PrimitiveCode[t.name[1]]>>
          [] t.kind = "pointer"   -> <<"P">> \o const(t.to) \o MangleType[t.to]
          [] t.kind = "reference" -> <<"R">> \o const(t.to) \o MangleType[t.to]
          [] t.kind = "alias"     -> const(t.under) \o MangleType[t.under]
          [] OTHER                -> <<"#">> \o t.name

Mangle(q) == (IF q.const THEN <<"K">> ELSE <<>>) \o MangleType[q]

\* The name a class gives its type.  A pointer is named after the mangled
\* type it points to, a reference after the type it refers to: int32_t& and
\* int32_t have one name.
TypeName(t) ==
    CASE t.kind = "pointer"   -> Mangle(t.to)
      [] t.kind = "reference" -> IF t.to.type.kind = "pointer" THEN Mangle(t.to.type.to)
                                 ELSE t.to.type.name
      [] OTHER -> t.name

SameName(q, r) == TypeName(Resolve(q).type) = TypeName(Resolve(r).type)

-----------------------------------------------------------------------------
(* is_assignable_to of every class, TypeChecker. *)

\* A pointer to a pointer compares its pointees by name, then by the same
\* rules one level down; void is compatible in both directions.
Assignable[s \in QualTypes, d \in QualTypes] ==
    LET src == Resolve(s)
        dst == Resolve(d)
    IN  CASE src.type = Primitive("nullptr") ->
               dst.type.kind = "pointer" \/ dst.type = Primitive("nullptr")
          [] src.type.kind = "primitive" /\ src.type # Primitive("nullptr") ->
               dst.type.kind = "primitive" /\ (src.const => dst.const)
          [] src.type.kind = "pointer" ->
               /\ dst.type.kind = "pointer"
               /\ LET p == Pointee(src)
                      r == Pointee(dst)
                  IN  \/ IsPrim(p, "void") \/ IsPrim(r, "void")
                      \/ /\ p.const => r.const
                         /\ SameName(p, r) \/ Assignable[p, r]
          [] src.type.kind = "reference" ->
               /\ dst.type.kind = "reference"
               /\ Pointee(src).const => Pointee(dst).const
               /\ Assignable[Pointee(src), Pointee(dst)]
          [] OTHER -> dst.type.kind = src.type.kind /\ dst.type.name = src.type.name

\* check_assignment.
CheckAssignment(lhs, rhs) == ~Resolve(lhs).const /\ Assignable[rhs, lhs]

\* check_initialization: a const reference also binds a converted value, a
\* plain one binds a reference only.
CheckInitialization(lhs, rhs) ==
    LET l == Resolve(lhs)
        r == Resolve(rhs)
        referred == IF IsA(r, "reference") THEN Pointee(r) ELSE r
    IN  IF l.type.kind = "reference"
        THEN \/ Pointee(l).const /\ Assignable[referred, Pointee(l)]
             \/ IsA(r, "reference") /\ Assignable[r, l]
        ELSE Assignable[r, l]

\* InitializerChecker.check: nullptr needs a pointer.
CheckInitializer(lhs, rhs) ==
    IF IsPrim(rhs, "nullptr")
    THEN IsA(lhs, "pointer") \/ IsPrim(lhs, "nullptr")
    ELSE CheckInitialization(lhs, rhs)

\* check_static_cast and its siblings: only const_cast and dynamic_cast refuse.
CheckCast(how, src, dst) ==
    CASE how = "const_cast" ->
           /\ IsA(src, "pointer") \/ IsA(src, "reference")
           /\ IsA(dst, "pointer") \/ IsA(dst, "reference")
           /\ SameName(Pointee(src), Pointee(dst))
      [] how = "dynamic_cast" -> FALSE
      [] how \in {"static_cast", "reinterpret_cast"} -> TRUE

-----------------------------------------------------------------------------
(* Overloads.  A candidate is [params, ret, symbol]; the first that matches  *)
(* exactly is taken, then the first that the arguments convert to.           *)

FirstIn(fns, ok(_)) ==
    LET good == {i \in DOMAIN fns : ok(fns[i])}
    IN  IF good = {} THEN <<>>
        ELSE <<fns[CHOOSE i \in good : \A j \in good : i <= j]>>

FirstMatch(fns, exact(_), implicit(_)) ==
    LET best == FirstIn(fns, exact) IN IF best # <<>> THEN best ELSE FirstIn(fns, implicit)

Fits(params, args, ok(_, _)) ==
    /\ Len(params) = Len(args)
    /\ \A i \in DOMAIN args : ok(params[i], args[i])

\* The loops of Call over an overload set; params are the user's, without the
\* first parameter when the candidate is a method.
ChooseOverload(fns, args) ==
    FirstMatch(fns, LAMBDA f : Fits(f.params, args, SameName),
                    LAMBDA f : Fits(f.params, args, CheckInitialization))

\* findConstructor: as for a call, but the exact match compares const too.
FindConstructor(ctors, args) ==
    FirstMatch(ctors,
               LAMBDA f : Fits(f.params, args,
                               LAMBDA p, a : SameName(p, a)
                                             /\ Resolve(p).const = Resolve(a).const),
               LAMBDA f : Fits(f.params, args, CheckInitialization))

-----------------------------------------------------------------------------
(* Sizes and the layout of a struct. *)

\* size(): table gives the sizes of the declared types.
SizeOf(table, q) ==
    LET t == Resolve(q).type
    IN  CASE t.kind = "primitive" -> PrimitiveSize[t.name[1]]
          [] t.kind = "pointer"   -> 8
          [] t.kind = "reference" -> 0
          [] t.kind = "enum"      -> 4
          [] OTHER -> table[t.name].size

RoundUp(n, a) == ((n + a - 1) \div a) * a

\* One turn of the loop over the fields: alignment is the size, at most 8.
FieldSize(table, q)  == LET s == SizeOf(table, q) IN IF s = 0 THEN 8 ELSE s
FieldAlign(table, q) == LET s == FieldSize(table, q) IN IF s < 8 THEN s ELSE 8

\* Mutant: the fields follow each other without alignment.
PlaceFieldPacked(layout, name, q, access, table) ==
    [fields |-> Append(layout.fields,
                       [name |-> name, q |-> q, offset |-> layout.end,
                        size |-> FieldSize(table, q), access |-> access]),
     end    |-> layout.end + FieldSize(table, q),
     align  |-> 8]


PlaceField(layout, name, q, access, table) ==
    LET align  == FieldAlign(table, q)
        offset == RoundUp(layout.end, align)
    IN  [fields |-> Append(layout.fields,
                           [name |-> name, q |-> q, offset |-> offset,
                            size |-> FieldSize(table, q), access |-> access]),
         end    |-> offset + FieldSize(table, q),
         align  |-> IF align > layout.align THEN align ELSE layout.align]

EmptyLayout == [fields |-> <<>>, end |-> 0, align |-> 1]

\* An empty struct has one byte.
TotalSize(layout) ==
    IF layout.end = 0 THEN 1 ELSE RoundUp(layout.end, layout.align)

\* TaggedUnionType.size: four bytes of tag and the largest payload.
UnionSize(payload) == RoundUp(payload + 4, 8)
=============================================================================
