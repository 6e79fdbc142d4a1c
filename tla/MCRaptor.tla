------------------------------ MODULE MCRaptor ------------------------------
(***************************************************************************)
(* Functions of a few statements: every kind of statement in every kind of *)
(* body, two loops with every jump in them, inspects in and around loops,  *)
(* names that are declared again when the first is out of scope.           *)
(***************************************************************************)
EXTENDS Raptor

CONSTANTS a, b, v, w, x, y, l, f

Node(kind, name, size, kids) ==
  [kind |-> kind, name |-> name, size |-> size, elem |-> size, kids |-> kids]
Leaf(kind, name) == Node(kind, name, 0, <<>>)
Function(kids) == Node("function", f, 0, kids)
Param(name, size) == Node("param", name, size, <<>>)
Var(name, size) == Node("var", name, size, <<>>)
Array(name, size, elem) == [Node("array", name, size, <<>>) EXCEPT !.elem = elem]
Bind(name, size) == Node("bind", name, size, <<>>)
Assign(name, size) == Node("set", name, size, <<>>)
Load(name, size) == Node("get", name, size, <<>>)
Do == Leaf("call", f)
Block(kids) == Node("block", NoLabel, 0, kids)
If(kids) == Node("if", NoLabel, 0, kids)
While(kids) == Node("while", NoLabel, 0, <<Block(kids)>>)
Labelled(loop) == Node("label", l, 0, <<loop>>)
Break(label) == Leaf("break", label)
Continue(label) == Leaf("continue", label)
Ret == Leaf("return", NoLabel)
Inspect(cases) == Node("inspect", NoLabel, 0, cases)
Case(name, kids) == Node("case", name, 0, kids)

-----------------------------------------------------------------------------
Jumping == {Break(NoLabel), Break(l), Continue(NoLabel), Continue(l)}
Plain == {Assign(x, 4), Load(x, 4), Do, Ret}

(* Two loops, the outer one with a label, and a jump in each, under a       *)
(* condition or not.                                                        *)
Loops ==
  {Function(<<Do, Var(x, 4),
     Labelled(While(<<If(<<j>>), While(<<i, Load(x, 4)>>), Assign(x, 4)>>)), Load(x, 4)>>) :
     j \in Jumping, i \in {If(<<k>>) : k \in Jumping} \cup Jumping \cup Plain}

(* Branches with and without else, blocks and single statements, and what   *)
(* follows them.                                                            *)
Branches ==
  {Function(<<Param(x, 4), If(branches), i>>) :
     branches \in {<<j>> : j \in Plain} \cup {<<j, k>> : j, k \in Plain}
                  \cup {<<Block(<<j, k>>), Block(<<>>)>> : j, k \in Plain},
     i \in {Load(x, 4), Do}}

(* A tagged union: cases with bindings, with and without a default one, in  *)
(* a loop and with one inside.                                              *)
Inspects ==
  {Function(<<Do, Param(x, 8),
     While(<<Inspect(<<Case(a, <<Bind(y, 2), Block(<<Load(y, 2), i>>)>>), second>>), Load(x, 8)>>)>>) :
     i \in {While(<<If(<<j>>), Do>>) : j \in {Break(NoLabel), Continue(NoLabel)}} \cup {Assign(x, 8), Ret},
     second \in {Case(b, <<Block(<<Do>>)>>),
                 Case(b, <<Bind(y, 2), Block(<<Assign(y, 2), Load(y, 2)>>)>>),
                 Case(Default, <<Block(<<Do>>)>>)}}

(* Scopes: siblings with the same name, variables of a body that is         *)
(* entered again.                                                           *)
Scopes ==
  {Function(<<Param(x, 8), Param(y, 1),
     While(<<Var(v, 4), Assign(x, 8), If(<<Block(<<Var(w, 1), Load(v, 4), Assign(w, 1), Load(w, 1)>>)>>), Assign(v, 4), Load(y, 1)>>),
     If(<<Block(<<Var(v, 4), Load(x, 8), Load(v, 4)>>), Block(<<Var(w, 1), Assign(y, 1), Load(w, 1)>>)>>)>>)}

(* Frames: three declarations of all sizes, structures and arrays among     *)
(* them, and blocks that declare the same name again.                       *)
Sizes == {1, 2, 4, 8, 12, 24}
Declare(name) ==
  {Var(name, n) : n \in Sizes} \cup {Array(name, 3, 1), Array(name, 6, 2), Array(name, 20, 4)}
Frames ==
  {Function(<<Param(v, n), d, e>>) : n \in Sizes, d \in Declare(w), e \in Declare(x)}
  \cup {Function(<<If(<<Block(<<d>>), Block(<<e, d>>)>>)>>) : d \in Declare(v), e \in Declare(w)}

(* Each of if, while and inspect inside each.                               *)
Nests ==
  LET jump == {Break(NoLabel), Continue(NoLabel)}
  IN  {Function(<<Do, While(<<If(<<Block(<<Do, While(<<If(<<j>>), Do>>), k>>),
                                   Inspect(<<Case(a, <<Block(<<If(<<Do, Ret>>),
                                                               While(<<Inspect(<<Case(b, <<Block(<<Do>>)>>)>>), i>>)>>)>>)>>)>>),
                              Do>>)>>) : i, j, k \in jump}

(* What is refused.                                                         *)
Refused ==
  {Function(<<Do, Break(NoLabel)>>),
   Function(<<Do, While(<<Break(l)>>)>>),
   Function(<<Do, Labelled(While(<<Do>>)), While(<<Continue(l)>>)>>),
   Function(<<Param(x, 4), Var(x, 4)>>),
   Function(<<Do, Labelled(While(<<Var(x, 4), Assign(x, 4)>>))>>)}

MCPrograms == Loops \cup Branches \cup Inspects \cup Scopes \cup Frames \cup Nests \cup Refused

-----------------------------------------------------------------------------
(* What the runs above leave out.                                           *)

(* A jump out of an inspect.                                                *)
InspectJumps ==
  {Function(<<Do, While(<<Inspect(<<Case(a, <<Block(<<j>>)>>)>>), Do>>)>>) : j \in {Break(NoLabel), Continue(NoLabel)}}

(* A variable of a labelled loop.                                           *)
LabelledVariables == {Function(<<Do, Labelled(While(<<Var(x, 4), Load(x, 4)>>))>>)}

(* A variable that shadows another.                                         *)
Shadows == {Function(<<Param(x, 4), If(<<Block(<<Var(x, 4), Assign(x, 4)>>)>>), Load(x, 4)>>)}

(* Siblings with the same name and different sizes.                         *)
Siblings ==
  {Function(<<Do, If(<<Block(<<Var(x, 8), Load(x, 8)>>), Block(<<Var(x, 1), Load(x, 1)>>)>>)>>)}

SharedNames == LabelledVariables \cup Shadows \cup Siblings
=============================================================================
