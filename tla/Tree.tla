-------------------------------- MODULE Tree --------------------------------
(***************************************************************************)
(* The syntax tree of a Raptor function, as far as control flow and scopes *)
(* go (the statements of src/parsing/parser.cts), and what its nodes see   *)
(* of each other.                                                          *)
(*                                                                         *)
(* A node is a record [kind, name, size, elem, kids] and is identified by its    *)
(* path, the positions that lead to it; the function is the path <<>>.     *)
(*   kind       name           kids                                        *)
(*   function                  parameters, then the statements of the body *)
(*   param, var, bind  its own none; size is that of its type              *)
(*   array      its own        none; elem is the size of its elements      *)
(*   set, get   the variable   none; size is that of its type              *)
(*   call       the function   none                                        *)
(*   block                     statements                                  *)
(*   if                        then branch, and else branch if there is one*)
(*   while                     body                                        *)
(*   label      its own        a while                                     *)
(*   break, continue  label, or NoLabel                                    *)
(*   return                    none                                        *)
(*   inspect                   cases                                       *)
(*   case       tag, or Default    bindings, none for Default; a block     *)
(* What an expression computes is not followed: set, get, call and         *)
(* conditions stand for all of them.                                       *)
(***************************************************************************)
EXTENDS Integers, Sequences, SequencesExt, FiniteSets

CONSTANTS
  NoLabel,   \* of a jump: to the innermost loop
  Default,   \* of a case: for all tags
  Done       \* the place of control when the function is over

VARIABLE prog      \* the function

RECURSIVE Descendant(_, _)
Descendant(node, p) == IF p = <<>> THEN node ELSE Descendant(node.kids[Head(p)], Tail(p))

At(p) == Descendant(prog, p)
Kind(p) == At(p).kind
Name(p) == At(p).name
Kids(p) == Len(At(p).kids)

Parent(p) == Front(p)
Ancestors(p) == {SubSeq(p, 1, k) : k \in 0..(Len(p) - 1)}
Deepest(paths) == CHOOSE p \in paths : \A q \in paths : Len(q) <= Len(p)

RECURSIVE NodesBelow(_)
NodesBelow(p) == {p} \cup UNION {NodesBelow(Append(p, i)) : i \in 1..Kids(p)}
Nodes == NodesBelow(<<>>)
NodesOf(kinds) == {p \in Nodes : Kind(p) \in kinds}

-----------------------------------------------------------------------------
(* Scopes.  A declaration is seen by what follows it in the node it stands *)
(* in: a block, the parameters and body of a function, or a case.          *)
Variables == NodesOf({"param", "var", "bind", "array"})

InScope(d, p) ==
  /\ Len(d) <= Len(p)
  /\ IsPrefix(Parent(d), p)
  /\ Last(d) < p[Len(d)]

(* The declaration a name means at p: the innermost, then the latest.       *)
Visible(name, p) ==
  CHOOSE d \in Variables :
    /\ Name(d) = name /\ InScope(d, p)
    /\ \A e \in Variables : Name(e) = name /\ InScope(e, p) => Len(e) <= Len(d)

(* Jumps.                                                                   *)
Jumps == NodesOf({"break", "continue"})
LoopsAround(p) == {q \in Ancestors(p) : Kind(q) = "while"}
LabelOf(loop) == IF Kind(Parent(loop)) = "label" THEN Name(Parent(loop)) ELSE NoLabel

-----------------------------------------------------------------------------
(* The loop a jump leaves or repeats: the innermost one, or the innermost   *)
(* with its label.                                                          *)
LoopOf(j) ==
  Deepest({q \in LoopsAround(j) : Name(j) = NoLabel \/ LabelOf(q) = Name(j)})

(* First(p): the node executed first when control enters p.  After(p): the  *)
(* node executed when p is over.                                            *)
RECURSIVE First(_), After(_)
First(p) ==
  CASE Kind(p) \in {"function", "block"} -> IF Kids(p) = 0 THEN After(p) ELSE First(Append(p, 1))
    [] Kind(p) \in {"label", "case"} -> First(Append(p, 1))
    [] Kind(p) = "array" -> After(p)
    [] Kind(p) = "break" -> After(LoopOf(p))
    [] Kind(p) = "continue" -> LoopOf(p)
    [] OTHER -> p

After(p) ==
  IF p = <<>> THEN Done
  ELSE LET parent == Parent(p)
       IN  CASE Kind(parent) = "while" -> parent
             [] Kind(parent) \in {"function", "block", "case"} /\ Last(p) < Kids(parent)
                  -> First(Append(parent, Last(p) + 1))
             [] OTHER -> After(parent)

-----------------------------------------------------------------------------
(* What the analyzer refuses: a name declared twice in one environment, a   *)
(* jump outside of every loop, a jump to a label that is not around it.     *)
Redefinition ==
  \E d, e \in Variables : d # e /\ Name(d) = Name(e) /\ Parent(d) = Parent(e)

StrayJump == \E j \in Jumps : LoopsAround(j) = {}

UnknownLabel ==
  \E j \in Jumps :
    /\ Name(j) # NoLabel
    /\ \A q \in Ancestors(j) : ~(Kind(q) = "label" /\ Name(q) = Name(j))

Accepted == ~Redefinition /\ ~StrayJump /\ ~UnknownLabel
=============================================================================
