----------------------------- MODULE Structured -----------------------------
(***************************************************************************)
(* What a Raptor function means, by the structure of its tree: control is  *)
(* at a node, every declaration has a place of its own for as long as it   *)
(* is in scope, names mean the innermost declaration, and a jump goes to   *)
(* the loop it names.  No code, no addresses.                              *)
(***************************************************************************)
EXTENDS Tree

CONSTANTS
  Programs,   \* functions that are considered
  Values,     \* what variables hold
  Tags,       \* variants of a tagged union
  Junk        \* the value of a variable that is not in scope

VARIABLES
  here,       \* the node to be executed next
  store,      \* declaration -> value
  seen        \* the last effect that can be observed from outside

structuredVars == <<prog, here, store, seen>>

-----------------------------------------------------------------------------
(* The case a tag selects: the first that names it or accepts all.          *)
Selected(p, tag) == {i \in 1..Kids(p) : Name(Append(p, i)) \in {tag, Default}}
CaseFor(p, tag) ==
  IF Selected(p, tag) = {} THEN After(p)
  ELSE First(Append(p, CHOOSE i \in Selected(p, tag) : \A j \in Selected(p, tag) : i <= j))

-----------------------------------------------------------------------------
(* Control moves to q; what is not in scope there is forgotten.             *)
Goto(q, values) ==
  /\ here' = q
  /\ store' = [d \in Variables |-> IF q # Done /\ InScope(d, q) THEN values[d] ELSE Junk]
  /\ UNCHANGED prog

Is(kinds) == here # Done /\ Kind(here) \in kinds

Init ==
  /\ prog \in Programs
  /\ here = First(<<>>)
  /\ store = [d \in Variables |-> Junk]
  /\ seen = Junk

Declare ==
  /\ Is({"param", "var", "bind"})
  /\ \E v \in Values : Goto(After(here), [store EXCEPT ![here] = v])
  /\ UNCHANGED seen

Assign ==
  /\ Is({"set"})
  /\ \E v \in Values : Goto(After(here), [store EXCEPT ![Visible(Name(here), here)] = v])
  /\ UNCHANGED seen

Read ==
  /\ Is({"get"})
  /\ seen' = store[Visible(Name(here), here)]
  /\ Goto(After(here), store)

Call ==
  /\ Is({"call"})
  /\ seen' = Name(here)
  /\ Goto(After(here), store)

Branch ==
  /\ Is({"if"})
  /\ \/ Goto(First(Append(here, 1)), store)
     \/ Goto(IF Kids(here) = 2 THEN First(Append(here, 2)) ELSE After(here), store)
  /\ UNCHANGED seen

Loop ==
  /\ Is({"while"})
  /\ Goto(First(Append(here, 1)), store) \/ Goto(After(here), store)
  /\ UNCHANGED seen

Select ==
  /\ Is({"inspect"})
  /\ \E tag \in Tags : Goto(CaseFor(here, tag), store)
  /\ UNCHANGED seen

Return ==
  /\ Is({"return"})
  /\ Goto(Done, store)
  /\ UNCHANGED seen

Next == Declare \/ Assign \/ Read \/ Call \/ Branch \/ Loop \/ Select \/ Return

Spec == Init /\ [][Next]_structuredVars
=============================================================================
