--------------------------- MODULE AnalyzerProofs ---------------------------
(***************************************************************************)
(* Proofs about the analyzer for every set of declarations, however deep   *)
(* they are nested and whatever instances they ask for.                    *)
(*                                                                         *)
(* Everything that a handler saves and puts back is in the tasks that are  *)
(* left.  The invariant reads them as one path: each task undoes a change, *)
(* and together they lead from the context in force back to the one of the *)
(* constructor.  A handler changes the context and puts a task with the    *)
(* way back in front; a task at the head takes its own step of the way.    *)
(***************************************************************************)
EXTENDS Analyzer, ListProofs, FiniteSetTheorems

-----------------------------------------------------------------------------
(* Lists of anything. *)

IsList(s) == \E S : s \in Seq(S)

(* A list has a length and is defined on the numbers up to it.               *)
LEMMA ListFacts ==
  ASSUME NEW s, IsList(s)
  PROVE  Len(s) \in Nat /\ DOMAIN s = 1..Len(s)
BY DEF IsList

(* A function on 1..n is a list of that length.                              *)
LEMMA ListOfFunction ==
  ASSUME NEW n \in Nat, NEW s, s = [i \in 1..n |-> s[i]]
  PROVE  IsList(s) /\ Len(s) = n
<1>1. s \in Seq({s[i] : i \in 1..n})
  OBVIOUS
<1>2. Len(s) = n
  BY <1>1
<1>. QED BY <1>1, <1>2 DEF IsList

(* The list of one element.                                                  *)
LEMMA ListOfOne ==
  ASSUME NEW x
  PROVE  /\ IsList(<<x>>) /\ Len(<<x>>) = 1 /\ <<x>>[1] = x
         /\ DOMAIN <<x>> = 1..1
<1>1. <<x>> \in Seq({x})
  OBVIOUS
<1>2. IsList(<<x>>)
  BY <1>1, Zenon DEF IsList
<1>3. Len(<<x>>) = 1 /\ <<x>>[1] = x /\ DOMAIN <<x>> = 1..1
  OBVIOUS
<1>. QED BY <1>2, <1>3, Zenon

(* One list behind another: its length and its elements.                     *)
LEMMA ListConcat ==
  ASSUME NEW s, NEW t, IsList(s), IsList(t)
  PROVE  /\ IsList(s \o t)
         /\ Len(s \o t) = Len(s) + Len(t)
         /\ \A i \in 1..Len(s) : (s \o t)[i] = s[i]
         /\ \A i \in 1..Len(t) : (s \o t)[Len(s) + i] = t[i]
<1>1. PICK S : s \in Seq(S)
  BY DEF IsList
<1>2. PICK T : t \in Seq(T)
  BY DEF IsList
<1>3. s \in Seq(S \cup T) /\ t \in Seq(S \cup T)
  BY <1>1, <1>2
<1>4. s \o t \in Seq(S \cup T)
  BY <1>3
<1>. QED BY <1>3, <1>4 DEF IsList

(* What Append adds, Front takes away.                                       *)
LEMMA ListAppend ==
  ASSUME NEW s, NEW x, IsList(s)
  PROVE  /\ IsList(Append(s, x)) /\ Len(Append(s, x)) = Len(s) + 1
         /\ Front(Append(s, x)) = s
<1>1. PICK S : s \in Seq(S)
  BY DEF IsList
<1>2. s \in Seq(S \cup {x}) /\ x \in S \cup {x}
  BY <1>1
<1>3. /\ Append(s, x) \in Seq(S \cup {x})
      /\ Len(Append(s, x)) = Len(s) + 1
      /\ SubSeq(Append(s, x), 1, Len(s)) = s
  BY <1>2
<1>. QED BY <1>2, <1>3 DEF IsList, Front

(* A list is its head in front of its tail.                                  *)
LEMMA ListTail ==
  ASSUME NEW s, IsList(s), s # <<>>
  PROVE  /\ IsList(Tail(s)) /\ Len(s) = Len(Tail(s)) + 1 /\ Head(s) = s[1]
         /\ s = <<Head(s)>> \o Tail(s)
         /\ \A i \in 1..Len(Tail(s)) : Tail(s)[i] = s[i + 1]
<1>1. PICK S : s \in Seq(S)
  BY DEF IsList
<1>2. Tail(s) \in Seq(S) /\ Len(s) = Len(Tail(s)) + 1 /\ Head(s) = s[1] /\ Head(s) \in S
  BY <1>1
<1>3. \A i \in 1..Len(Tail(s)) : Tail(s)[i] = s[i + 1]
  BY <1>1
<1>4. s = <<Head(s)>> \o Tail(s)
  BY <1>1, <1>2
<1>. QED BY <1>2, <1>3, <1>4 DEF IsList

(* Front gives a list.                                                       *)
LEMMA ListFront ==
  ASSUME NEW s, IsList(s)
  PROVE  IsList(Front(s))
<1>1. PICK S : s \in Seq(S)
  BY DEF IsList
<1>2. Len(s) \in Nat /\ \A i \in 1..(Len(s) - 1) : i \in 1..Len(s) /\ s[i] \in S
  BY <1>1
<1>3. Front(s) \in Seq(S)
  BY <1>1, <1>2 DEF Front
<1>. QED BY <1>3 DEF IsList

-----------------------------------------------------------------------------
(* What a task that is left of a visit does to the context, and what a list  *)
(* of them does: the tasks of a list lead from one context to another.       *)

Idle == {"visit", "push", "signature", "case"}

Context(e, p, n, l) == [environment |-> e, path |-> p, anonymous |-> n, loops |-> l]

(* The clone of a template is visited in the global environment, that of a   *)
(* struct outside of any namespace.                                          *)
IsClone(t) == t.do \in {"visit", "signature"} /\ t.node.k \in {"function", "struct"} /\ t.node.instance # None
AtHome(t, a) == a.environment = <<Global>> /\ (t.node.k = "struct" => a.path = <<>>)

Still(t)    == t.do \in Idle /\ ~IsClone(t)
Rests(t, a) == t.do \in Idle /\ (IsClone(t) => AtHome(t, a))

Undoes(t, a, b) ==
  \/ /\ Rests(t, a)
     /\ b = a
  \/ /\ t.do \in {"leaveBlock", "leaveFunction"}
     /\ \E e : a.environment = <<e>> \o t.saved
     /\ b = Context(t.saved, a.path, a.anonymous, a.loops)
  \/ /\ t.do = "restore"
     /\ a.environment = <<Global>>
     /\ b = Context(t.environment, t.path, a.anonymous, a.loops)
  \/ /\ t.do = "leaveNamespace"
     /\ b = Context(a.environment, Front(a.path), t.anonymous, a.loops)
  \/ /\ t.do = "popLoop"
     /\ b = Context(a.environment, a.path, a.anonymous, Front(a.loops))

Along(h, ts) == \A i \in 1..Len(ts) : Undoes(ts[i], h[i - 1], h[i])
Leads(ts, a, b) == \E h : h[0] = a /\ h[Len(ts)] = b /\ Along(h, ts)

(* Where nothing is left the context is the one to be reached.               *)
LEMMA NothingLeads ==
  ASSUME NEW a, NEW b, Leads(<<>>, a, b)
  PROVE  a = b
BY DEF Leads

(* One task leads as far as it undoes.                                       *)
LEMMA OneLeads ==
  ASSUME NEW t, NEW a, NEW b, Undoes(t, a, b)
  PROVE  Leads(<<t>>, a, b)
<1>. DEFINE h == [i \in 0..1 |-> IF i = 0 THEN a ELSE b]
<1>1. h[0] = a /\ h[1] = b
  OBVIOUS
<1>2. Len(<<t>>) = 1 /\ <<t>>[1] = t
  OBVIOUS
<1>. HIDE DEF h
<1>3. ASSUME NEW i \in 1..1 PROVE Undoes(<<t>>[i], h[i - 1], h[i])
  <2>1. i = 1 /\ i - 1 = 0
    OBVIOUS
  <2>. QED BY <1>1, <1>2, <2>1
<1>. QED BY <1>1, <1>2, <1>3 DEF Leads, Along

(* Tasks that undo nothing lead nowhere.                                     *)
LEMMA IdleLeads ==
  ASSUME NEW ts, IsList(ts), NEW a, \A i \in 1..Len(ts) : Rests(ts[i], a)
  PROVE  Leads(ts, a, a)
<1>. DEFINE h == [i \in 0..Len(ts) |-> a]
<1>1. Len(ts) \in Nat
  BY ListFacts
<1>2. \A i \in 0..Len(ts) : h[i] = a
  OBVIOUS
<1>3. 0 \in 0..Len(ts) /\ Len(ts) \in 0..Len(ts) /\ \A i \in 1..Len(ts) : i - 1 \in 0..Len(ts) /\ i \in 0..Len(ts)
  BY <1>1
<1>. HIDE DEF h
<1>4. Along(h, ts)
  BY <1>2, <1>3 DEF Along, Undoes
<1>. QED BY <1>2, <1>3, <1>4 DEF Leads

(* Tasks in front of others lead where the others start.                     *)
LEMMA ConcatLeads ==
  ASSUME NEW s, IsList(s), NEW t, IsList(t),
         NEW a, NEW b, NEW c, Leads(s, a, b), Leads(t, b, c)
  PROVE  Leads(s \o t, a, c)
<1>1. PICK f : f[0] = a /\ f[Len(s)] = b /\ Along(f, s)
  BY DEF Leads
<1>2. PICK g : g[0] = b /\ g[Len(t)] = c /\ Along(g, t)
  BY DEF Leads
<1>3. PICK m \in Nat : m = Len(s)
  BY ListFacts
<1>4. PICK n \in Nat : n = Len(t)
  BY ListFacts
<1>5. PICK u : u = s \o t
  OBVIOUS
<1>6. Len(u) = m + n /\ (\A i \in 1..m : u[i] = s[i]) /\ \A i \in 1..n : u[m + i] = t[i]
  BY <1>3, <1>4, <1>5, ListConcat
<1>. DEFINE h == [i \in 0..(m + n) |-> IF i <= m THEN f[i] ELSE g[i - m]]
<1>7. (\A i \in 0..m : h[i] = f[i]) /\ \A i \in 0..n : h[m + i] = g[i]
  <2>1. \A i \in 0..m : h[i] = f[i]
    OBVIOUS
  <2>2. ASSUME NEW i \in 0..n PROVE h[m + i] = g[i]
    <3>1. CASE i = 0
      BY <1>1, <1>2, <1>3, <3>1
    <3>2. CASE i # 0
      <4>1. ~(m + i <= m) /\ (m + i) - m = i /\ m + i \in 0..(m + n)
        BY <3>2
      <4>. QED BY <4>1
    <3>. QED BY <3>1, <3>2
  <2>. QED BY <2>1, <2>2
<1>. HIDE DEF h
<1>8. ASSUME NEW i \in 1..(m + n) PROVE Undoes(u[i], h[i - 1], h[i])
  <2>1. CASE i <= m
    <3>1. i \in 1..m /\ i \in 0..m /\ i - 1 \in 0..m
      BY <2>1
    <3>2. Undoes(s[i], f[i - 1], f[i])
      BY <1>1, <1>3, <3>1 DEF Along
    <3>. QED BY <1>6, <1>7, <3>1, <3>2
  <2>2. CASE ~(i <= m)
    <3>1. PICK j \in 1..n : i = m + j
      <4>1. i - m \in 1..n /\ i = m + (i - m)
        BY <2>2
      <4>. QED BY <4>1
    <3>2. j \in 0..n /\ j - 1 \in 0..n /\ i - 1 = m + (j - 1)
      BY <3>1
    <3>3. Undoes(t[j], g[j - 1], g[j])
      BY <1>2, <1>4, <3>1 DEF Along
    <3>4. h[i] = g[j]
      BY <1>7, <3>1, <3>2
    <3>5. h[i - 1] = g[j - 1]
      BY <1>7, <3>2
    <3>6. u[i] = t[j]
      BY <1>6, <3>1
    <3>. QED BY <3>3, <3>4, <3>5, <3>6
  <2>. QED BY <2>1, <2>2
<1>9. h[0] = a /\ h[m + n] = c
  <2>1. 0 \in 0..m /\ n \in 0..n
    OBVIOUS
  <2>. QED BY <1>1, <1>2, <1>4, <1>7, <2>1
<1>10. Along(h, u)
  BY <1>6, <1>8 DEF Along
<1>11. Leads(u, a, c)
  BY <1>6, <1>9, <1>10 DEF Leads
<1>. QED BY <1>5, <1>11

(* The first step of the way is that of the head.                            *)
LEMMA HeadLeads ==
  ASSUME NEW ts, IsList(ts), ts # <<>>, NEW a, NEW c, Leads(ts, a, c)
  PROVE  \E b : Undoes(Head(ts), a, b) /\ Leads(Tail(ts), b, c)
<1>1. PICK h : h[0] = a /\ h[Len(ts)] = c /\ Along(h, ts)
  BY DEF Leads
<1>2. PICK r : r = Tail(ts)
  OBVIOUS
<1>3. IsList(r) /\ Len(ts) = Len(r) + 1 /\ Head(ts) = ts[1] /\ \A i \in 1..Len(r) : r[i] = ts[i + 1]
  BY <1>2, ListTail
<1>4. PICK n \in Nat : n = Len(r)
  BY <1>3, ListFacts
<1>. DEFINE g == [i \in 0..n |-> h[i + 1]]
<1>5. \A i \in 0..n : g[i] = h[i + 1]
  OBVIOUS
<1>. HIDE DEF g
<1>6. ASSUME NEW i \in 1..n PROVE Undoes(r[i], g[i - 1], g[i])
  <2>1. i + 1 \in 1..(n + 1) /\ (i + 1) - 1 = i /\ i \in 0..n /\ i - 1 \in 0..n /\ (i - 1) + 1 = i
    OBVIOUS
  <2>2. Undoes(ts[i + 1], h[i], h[i + 1])
    BY <1>1, <1>3, <1>4, <2>1 DEF Along
  <2>3. g[i - 1] = h[i] /\ g[i] = h[i + 1]
    BY <1>5, <2>1
  <2>. QED BY <1>3, <1>4, <2>2, <2>3
<1>7. g[0] = h[1] /\ g[n] = c
  <2>1. 0 \in 0..n /\ n \in 0..n /\ 0 + 1 = 1
    OBVIOUS
  <2>. QED BY <1>1, <1>3, <1>4, <1>5, <2>1
<1>8. Leads(r, h[1], c)
  BY <1>4, <1>6, <1>7 DEF Leads, Along
<1>9. Undoes(ts[1], h[0], h[1])
  <2>1. 1 \in 1..(n + 1) /\ 1 - 1 = 0
    OBVIOUS
  <2>. QED BY <1>1, <1>3, <1>4, <2>1 DEF Along
<1>. QED BY <1>1, <1>2, <1>3, <1>8, <1>9

(* The leaves that are left in a list from a place on, up to the end of the  *)
(* instance that is being built.                                             *)
Leaves(ts, k) ==
  {i \in (k + 1)..Len(ts) : /\ ts[i].do \in {"leaveBlock", "leaveFunction"}
                            /\ \A j \in (k + 1)..i : ts[j].do # "restore"}

(* What one more task in front adds to the leaves that are left.             *)
LEMMA LeavesStep ==
  ASSUME NEW ts, NEW n \in Nat, Len(ts) = n, NEW k \in 1..n
  PROVE  /\ ts[k].do = "restore" => Leaves(ts, k - 1) = {}
         /\ ts[k].do \in {"leaveBlock", "leaveFunction"} => Leaves(ts, k - 1) = Leaves(ts, k) \cup {k}
         /\ ts[k].do \notin {"leaveBlock", "leaveFunction", "restore"} => Leaves(ts, k - 1) = Leaves(ts, k)
         /\ k \notin Leaves(ts, k)
<1>1. (k - 1) + 1 = k /\ k \in k..n
  OBVIOUS
<1>2. Leaves(ts, k - 1) =
        {i \in k..n : ts[i].do \in {"leaveBlock", "leaveFunction"} /\ \A j \in k..i : ts[j].do # "restore"}
  BY <1>1 DEF Leaves
<1>3. k \notin Leaves(ts, k)
  BY DEF Leaves
<1>4. ASSUME ts[k].do = "restore" PROVE Leaves(ts, k - 1) = {}
  <2>1. \A i \in k..n : k \in k..i
    OBVIOUS
  <2>. QED BY <1>2, <1>4, <2>1
<1>5. ASSUME ts[k].do # "restore", NEW i \in k..n, i # k
      PROVE  i \in Leaves(ts, k - 1) <=> i \in Leaves(ts, k)
  <2>1. i \in (k + 1)..n
    BY <1>5
  <2>2. \A j \in k..i : j = k \/ j \in (k + 1)..i
    OBVIOUS
  <2>3. \A j \in (k + 1)..i : j \in k..i
    OBVIOUS
  <2>4. (\A j \in k..i : ts[j].do # "restore") <=> \A j \in (k + 1)..i : ts[j].do # "restore"
    BY <1>5, <2>2, <2>3
  <2>. QED BY <1>2, <2>1, <2>4 DEF Leaves
<1>6. ASSUME ts[k].do # "restore"
      PROVE  k \in Leaves(ts, k - 1) <=> ts[k].do \in {"leaveBlock", "leaveFunction"}
  <2>1. \A j \in k..k : j = k
    OBVIOUS
  <2>2. \A j \in k..k : ts[j].do # "restore"
    BY <1>6, <2>1
  <2>. QED BY <1>1, <1>2, <2>2
<1>7. \A i \in Leaves(ts, k) : i \in k..n
  BY DEF Leaves
<1>8. \A i \in Leaves(ts, k - 1) : i \in k..n
  BY <1>2
<1>9. ASSUME ts[k].do \in {"leaveBlock", "leaveFunction"} PROVE Leaves(ts, k - 1) = Leaves(ts, k) \cup {k}
  <2>1. ASSUME NEW i \in Leaves(ts, k - 1) PROVE i \in Leaves(ts, k) \cup {k}
    BY <1>5, <1>8, <1>9, <2>1
  <2>2. ASSUME NEW i \in Leaves(ts, k) PROVE i \in Leaves(ts, k - 1)
    BY <1>3, <1>5, <1>7, <1>9, <2>2
  <2>. QED BY <1>6, <1>9, <2>1, <2>2
<1>10. ASSUME ts[k].do \notin {"leaveBlock", "leaveFunction", "restore"} PROVE Leaves(ts, k - 1) = Leaves(ts, k)
  <2>1. ASSUME NEW i \in Leaves(ts, k - 1) PROVE i \in Leaves(ts, k)
    BY <1>5, <1>6, <1>8, <1>10, <2>1
  <2>2. ASSUME NEW i \in Leaves(ts, k) PROVE i \in Leaves(ts, k - 1)
    BY <1>3, <1>5, <1>7, <1>10, <2>2
  <2>. QED BY <2>1, <2>2
<1>. QED BY <1>3, <1>4, <1>9, <1>10

(* The length of the chain of environments that a list unwinds.              *)
LEMMA ChainLength ==
  ASSUME NEW ts, IsList(ts), NEW a, NEW b, Leads(ts, a, b),
         b.environment = <<Global>>,
         \A i \in DOMAIN ts : ts[i].do \in {"leaveBlock", "leaveFunction"} => IsList(ts[i].saved)
  PROVE  Len(a.environment) = 1 + Cardinality(Leaves(ts, 0))
<1>1. PICK h : h[0] = a /\ h[Len(ts)] = b /\ Along(h, ts)
  BY DEF Leads
<1>2. PICK N \in Nat : N = Len(ts)
  BY ListFacts
<1>. DEFINE Right(k) == IsFiniteSet(Leaves(ts, k)) /\ Len(h[k].environment) = 1 + Cardinality(Leaves(ts, k))
            S == {n \in 0..N : Right(N - n)}
<1>3. 0 \in S
  <2>1. Leaves(ts, N) = {}
    BY <1>2 DEF Leaves
  <2>2. Cardinality({}) = 0 /\ IsFiniteSet({})
    BY FS_EmptySet
  <2>3. Len(<<Global>>) = 1
    OBVIOUS
  <2>4. Len(h[N].environment) = 1 + Cardinality(Leaves(ts, N))
    <3>1. h[N].environment = <<Global>>
      BY <1>1, <1>2
    <3>. QED BY <2>1, <2>2, <2>3, <3>1
  <2>5. N - 0 = N /\ 0 \in 0..N
    OBVIOUS
  <2>6. Right(N)
    BY <2>1, <2>2, <2>4
  <2>. HIDE DEF Right
  <2>. QED BY <2>5, <2>6
<1>4. ASSUME NEW n \in 0..(N - 1), n \in S PROVE n + 1 \in S
  <2>1. PICK k \in 1..N : k = N - n /\ k - 1 = N - (n + 1) /\ n + 1 \in 0..N
    OBVIOUS
  <2>2. Right(k)
    BY <1>4, <2>1
  <2>3. Undoes(ts[k], h[k - 1], h[k])
    BY <1>1, <1>2, <2>1 DEF Along
  <2>4. /\ ts[k].do = "restore" => Leaves(ts, k - 1) = {}
        /\ ts[k].do \in {"leaveBlock", "leaveFunction"} => Leaves(ts, k - 1) = Leaves(ts, k) \cup {k}
        /\ ts[k].do \notin {"leaveBlock", "leaveFunction", "restore"} => Leaves(ts, k - 1) = Leaves(ts, k)
        /\ k \notin Leaves(ts, k)
    BY <1>2, <2>1, LeavesStep
  <2>5. CASE ts[k].do = "restore"
    <3>1. Leaves(ts, k - 1) = {} /\ h[k - 1].environment = <<Global>>
      BY <2>3, <2>4, <2>5 DEF Undoes, Rests, Idle
    <3>2. Cardinality({}) = 0 /\ IsFiniteSet({})
      BY FS_EmptySet
    <3>3. Len(<<Global>>) = 1
      OBVIOUS
    <3>4. Right(k - 1)
      BY <3>1, <3>2, <3>3
    <3>. HIDE DEF Right
    <3>. QED BY <2>1, <3>4
  <2>6. CASE ts[k].do \in {"leaveBlock", "leaveFunction"}
    <3>1. PICK e : h[k - 1].environment = <<e>> \o ts[k].saved
      BY <2>3, <2>6 DEF Undoes, Rests, Idle
    <3>2. h[k].environment = ts[k].saved
      BY <2>3, <2>6 DEF Undoes, Rests, Idle, Context
    <3>3. k \in DOMAIN ts
      BY <1>2, <2>1, ListFacts
    <3>4. IsList(ts[k].saved)
      BY <2>6, <3>3
    <3>5. Len(<<e>> \o ts[k].saved) = 1 + Len(ts[k].saved) /\ Len(ts[k].saved) \in Nat
      BY <3>4, ListConcat, ListOfOne, ListFacts
    <3>6. /\ IsFiniteSet(Leaves(ts, k) \cup {k})
          /\ Cardinality(Leaves(ts, k) \cup {k}) = Cardinality(Leaves(ts, k)) + 1
      BY <2>2, <2>4, FS_AddElement
    <3>7. Cardinality(Leaves(ts, k)) \in Nat
      BY <2>2, FS_CardinalityType
    <3>8. /\ IsFiniteSet(Leaves(ts, k - 1))
          /\ Cardinality(Leaves(ts, k - 1)) = Cardinality(Leaves(ts, k)) + 1
      BY <2>4, <2>6, <3>6
    <3>9. Len(h[k - 1].environment) = 1 + Len(h[k].environment)
      BY <3>1, <3>2, <3>5
    <3>10. Len(h[k].environment) = 1 + Cardinality(Leaves(ts, k))
      BY <2>2
    <3>12. Len(h[k - 1].environment) = 1 + Cardinality(Leaves(ts, k - 1))
      <4>. HIDE DEF Right
      <4>. QED BY <3>7, <3>8, <3>9, <3>10
    <3>11. Right(k - 1)
      BY <3>8, <3>12
    <3>. HIDE DEF Right
    <3>. QED BY <2>1, <3>11
  <2>7. CASE ts[k].do \notin {"leaveBlock", "leaveFunction", "restore"}
    <3>1. h[k].environment = h[k - 1].environment
      BY <2>3, <2>7 DEF Undoes, Rests, Idle, Context
    <3>2. Right(k - 1)
      BY <2>2, <2>4, <2>7, <3>1
    <3>. QED BY <2>1, <3>2
  <2>. QED BY <2>5, <2>6, <2>7
<1>5. \A n \in 0..N : n \in S
  <2>. HIDE DEF S
  <2>. QED BY <1>2, <1>3, <1>4, InductionUpTo
<1>6. Right(0)
  <2>1. N \in 0..N /\ N - N = 0
    OBVIOUS
  <2>. QED BY <1>5, <2>1
<1>. QED BY <1>1, <1>6, Zenon

(* FlattenSeq gives a list of what the lists in its argument hold.           *)
LEMMA FlattenHolds ==
  ASSUME NEW V, NEW seqs \in Seq(Seq(V))
  PROVE  FlattenSeq(seqs) \in Seq(V)
<1>1. PICK N \in Nat : N = Len(seqs)
  OBVIOUS
<1>2. CASE N = 0
  <2>1. FlattenSeq(seqs) = seqs
    BY <1>1, <1>2 DEF FlattenSeq
  <2>2. seqs = <<>>
    BY <1>1, <1>2, EmptySeq
  <2>. QED BY <2>1, <2>2
<1>3. CASE N # 0
  <2>. DEFINE Def(f) == [i \in 1..N |-> IF i = 1 THEN seqs[i] ELSE f[i - 1] \o seqs[i]]
              step == [k \in 1..(N - 1) |-> [v \in Seq(V) |-> v \o seqs[k + 1]]]
  <2>1. \A i \in 1..N : seqs[i] \in Seq(V)
    BY <1>1
  <2>2. N - 1 \in Nat /\ seqs[1] \in Seq(V)
    BY <1>3, <2>1
  <2>3. step \in [1..(N - 1) -> [Seq(V) -> Seq(V)]]
    <3>1. ASSUME NEW k \in 1..(N - 1), NEW v \in Seq(V) PROVE v \o seqs[k + 1] \in Seq(V)
      <4>1. seqs[k + 1] \in Seq(V)
        BY <2>1
      <4>. QED BY <4>1
    <3>. QED BY <3>1
  <2>4. PICK f \in [0..(N - 1) -> Seq(V)] : Steps(f, N - 1, seqs[1], step)
    <3>. HIDE DEF step
    <3>. QED BY <2>2, <2>3, Recursion
  <2>5. f[0] = seqs[1] /\ \A k \in 1..(N - 1) : f[k] = f[k - 1] \o seqs[k + 1]
    <3>1. \A k \in 1..(N - 1) : f[k - 1] \in Seq(V)
      BY <2>4
    <3>. QED BY <2>4, <3>1 DEF Steps
  <2>. DEFINE g == [i \in 1..N |-> f[i - 1]]
  <2>6. g = Def(g)
    <3>1. ASSUME NEW i \in 1..N
          PROVE  g[i] = IF i = 1 THEN seqs[i] ELSE g[i - 1] \o seqs[i]
      <4>1. CASE i = 1
        BY <2>5, <4>1
      <4>2. CASE i # 1
        <5>1. i - 1 \in 1..(N - 1) /\ (i - 1) + 1 = i /\ i - 1 \in 1..N
          BY <4>2
        <5>2. f[i - 1] = f[(i - 1) - 1] \o seqs[i]
          BY <2>5, <5>1
        <5>. QED BY <4>2, <5>1, <5>2
      <4>. QED BY <4>1, <4>2
    <3>. QED BY <3>1
  <2>. DEFINE flatten == CHOOSE e : e = Def(e)
  <2>7. flatten = Def(flatten)
    <3>. HIDE DEF g
    <3>. QED BY <2>6
  <2>8. FlattenSeq(seqs) = flatten[N]
    BY <1>1, <1>3 DEF FlattenSeq
  <2>. HIDE DEF flatten
  <2>9. flatten[1] = seqs[1] /\ \A i \in 1..(N - 1) : flatten[i + 1] = flatten[i] \o seqs[i + 1]
    <3>1. 1 \in 1..N
      BY <1>3
    <3>2. \A i \in 1..(N - 1) : i + 1 \in 1..N /\ i + 1 # 1 /\ (i + 1) - 1 = i
      OBVIOUS
    <3>. QED BY <2>7, <3>1, <3>2
  <2>. DEFINE S == {i \in 0..(N - 1) : flatten[i + 1] \in Seq(V)}
  <2>10. 0 \in S
    BY <2>2, <2>9
  <2>11. ASSUME NEW i \in 0..((N - 1) - 1), i \in S PROVE i + 1 \in S
    <3>1. i + 1 \in 1..(N - 1) /\ i + 1 \in 0..(N - 1) /\ (i + 1) + 1 \in 1..N
      OBVIOUS
    <3>2. flatten[i + 1] \in Seq(V) /\ seqs[(i + 1) + 1] \in Seq(V)
      BY <2>1, <2>11, <3>1
    <3>3. flatten[(i + 1) + 1] = flatten[i + 1] \o seqs[(i + 1) + 1]
      BY <2>9, <3>1
    <3>4. flatten[(i + 1) + 1] \in Seq(V)
      BY <3>2, <3>3
    <3>. QED BY <3>1, <3>4
  <2>12. \A i \in 0..(N - 1) : i \in S
    <3>. HIDE DEF S
    <3>. QED BY <2>2, <2>10, <2>11, InductionUpTo
  <2>13. N - 1 \in 0..(N - 1) /\ (N - 1) + 1 = N
    BY <2>2
  <2>14. flatten[N] \in Seq(V)
    BY <2>12, <2>13
  <2>. QED BY <2>8, <2>14
<1>. QED BY <1>2, <1>3

-----------------------------------------------------------------------------
(* The invariant: the tasks that are left lead from the context in force to  *)
(* that of the constructor, and everything they restore is a context.        *)

Now     == Context(environment, namespacePath, hasAnonymousNamespace, loopStack)
AtStart == Context(<<Global>>, <<>>, FALSE, <<>>)

ChainOK(e, n) == e \in Seq(1..n) /\ e # <<>> /\ Last(e) = Global

TaskOK(t, n) ==
  /\ t.do = "visit" => HasParts(t.node)
  /\ t.do = "signature" => HasParts(t.node) /\ t.node.k = "function"
  /\ t.do = "case" => t.case.body \in Nodes
  /\ t.do \in {"leaveBlock", "leaveFunction"} => ChainOK(t.saved, n)
  /\ t.do = "restore" => ChainOK(t.environment, n) /\ IsList(t.path)

TasksOK(ts, n) == IsList(ts) /\ \A i \in DOMAIN ts : TaskOK(ts[i], n)

MethodOK(m) == HasParts(m) /\ m.k = "function" /\ m.instance = None

TemplateOK(t) ==
  /\ DOMAIN t = {"params", "node", "methods", "path"}
  /\ HasParts(t.node) /\ t.node.k \in {"function", "struct"}
  /\ IsList(t.methods)
  /\ \A i \in DOMAIN t.methods : MethodOK(t.methods[i])
  /\ IsList(t.path) /\ (t.node.k = "struct" => t.path = <<>>)

TemplatesOK == \A n \in DOMAIN templates : TemplateOK(templates[n])

ContextInv ==
  /\ IsList(envs) /\ Len(envs) >= 1
  /\ TasksOK(agenda, Len(envs))
  /\ TemplatesOK
  /\ ChainOK(environment, Len(envs))
  /\ IsList(namespacePath)
  /\ IsList(loopStack)
  /\ Leads(agenda, Now, AtStart)

(* The constructor makes the context that is led back to.                    *)
LEMMA ContextInit == Init => ContextInv
<1>. SUFFICES ASSUME Init PROVE ContextInv
  OBVIOUS
<1>1. /\ agenda = <<>> /\ envs = <<Empty>> /\ environment = <<Global>> /\ templates = Empty
      /\ namespacePath = <<>> /\ hasAnonymousNamespace = FALSE /\ loopStack = <<>>
  BY Zenon DEF Init
<1>2. IsList(<<>>) /\ DOMAIN <<>> = {} /\ Len(<<>>) = 0
  <2>1. <<>> \in Seq({})
    OBVIOUS
  <2>2. IsList(<<>>)
    BY <2>1, Zenon DEF IsList
  <2>3. DOMAIN <<>> = {} /\ Len(<<>>) = 0
    OBVIOUS
  <2>. QED BY <2>2, <2>3
<1>3. IsList(envs) /\ Len(envs) = 1
  BY <1>1, ListOfOne
<1>4. TasksOK(agenda, Len(envs))
  BY <1>1, <1>2 DEF TasksOK
<1>5. TemplatesOK
  <2>1. DOMAIN templates = {}
    BY <1>1 DEF Empty
  <2>. QED BY <2>1 DEF TemplatesOK
<1>6. ChainOK(environment, Len(envs))
  BY <1>1, <1>3 DEF ChainOK, Last, Global
<1>7. Now = AtStart
  BY <1>1 DEF Now, AtStart
<1>8. Leads(agenda, Now, AtStart)
  <2>1. \A i \in 1..Len(<<>>) : Rests(<<>>[i], AtStart)
    BY <1>2
  <2>2. Leads(<<>>, AtStart, AtStart)
    BY <1>2, <2>1, IdleLeads
  <2>. QED BY <1>1, <1>7, <2>2
<1>9. IsList(namespacePath) /\ IsList(loopStack)
  BY <1>1, <1>2
<1>. QED BY <1>3, <1>4, <1>5, <1>6, <1>8, <1>9 DEF ContextInv

(* Tasks stay good when environments are added.                              *)
LEMMA MoreEnvironments ==
  ASSUME NEW m \in Nat, NEW n \in Nat, m <= n
  PROVE  /\ \A e : ChainOK(e, m) => ChainOK(e, n)
         /\ \A ts : TasksOK(ts, m) => TasksOK(ts, n)
<1>1. ASSUME NEW e, ChainOK(e, m) PROVE ChainOK(e, n)
  <2>1. e \in Seq(1..n)
    <3>1. e \in Seq(1..m)
      BY <1>1 DEF ChainOK
    <3>2. Len(e) \in Nat /\ DOMAIN e = 1..Len(e) /\ e = [i \in 1..Len(e) |-> e[i]] /\ \A i \in 1..Len(e) : e[i] \in 1..m
      BY <3>1
    <3>3. \A i \in 1..Len(e) : e[i] \in 1..n
      BY <3>2
    <3>. QED BY <3>2, <3>3
  <2>. QED BY <1>1, <2>1 DEF ChainOK
<1>2. ASSUME NEW ts, TasksOK(ts, m) PROVE TasksOK(ts, n)
  BY <1>1, <1>2 DEF TasksOK, TaskOK
<1>. QED BY <1>1, <1>2

(* Good tasks in front of good tasks.                                        *)
LEMMA ConcatTasks ==
  ASSUME NEW n, NEW s, NEW t, TasksOK(s, n), TasksOK(t, n)
  PROVE  TasksOK(s \o t, n)
<1>1. IsList(s) /\ IsList(t)
  BY DEF TasksOK
<1>2. PICK u : u = s \o t
  OBVIOUS
<1>3. PICK a \in Nat : a = Len(s) /\ DOMAIN s = 1..a
  BY <1>1, ListFacts
<1>4. PICK b \in Nat : b = Len(t) /\ DOMAIN t = 1..b
  BY <1>1, ListFacts
<1>5. IsList(u) /\ Len(u) = a + b /\ (\A i \in 1..a : u[i] = s[i]) /\ \A i \in 1..b : u[a + i] = t[i]
  BY <1>1, <1>2, <1>3, <1>4, ListConcat
<1>6. ASSUME NEW i \in DOMAIN u PROVE TaskOK(u[i], n)
  <2>1. i \in 1..(a + b)
    BY <1>5, ListFacts
  <2>2. CASE i \in 1..a
    BY <1>3, <1>5, <2>2 DEF TasksOK
  <2>3. CASE i \notin 1..a
    <3>1. i - a \in 1..b /\ i = a + (i - a)
      BY <2>1, <2>3
    <3>2. u[i] = t[i - a]
      BY <1>5, <3>1
    <3>. QED BY <1>4, <3>1, <3>2 DEF TasksOK
  <2>. QED BY <2>2, <2>3
<1>. QED BY <1>2, <1>5, <1>6 DEF TasksOK

(* The head and the tail of good tasks are good.                             *)
LEMMA TailTasks ==
  ASSUME NEW n, NEW s, TasksOK(s, n), s # <<>>
  PROVE  TasksOK(Tail(s), n) /\ TaskOK(Head(s), n)
<1>1. PICK r : r = Tail(s)
  OBVIOUS
<1>2. IsList(s) /\ IsList(r) /\ Len(s) = Len(r) + 1 /\ Head(s) = s[1] /\ \A i \in 1..Len(r) : r[i] = s[i + 1]
  BY <1>1, ListTail DEF TasksOK
<1>3. PICK m \in Nat : m = Len(r) /\ DOMAIN r = 1..m
  BY <1>2, ListFacts
<1>4. DOMAIN s = 1..(m + 1)
  BY <1>2, <1>3, ListFacts
<1>5. ASSUME NEW i \in 1..m PROVE TaskOK(r[i], n)
  <2>1. i + 1 \in DOMAIN s
    BY <1>4
  <2>. QED BY <1>2, <1>3, <2>1 DEF TasksOK
<1>6. 1 \in DOMAIN s
  BY <1>4
<1>. QED BY <1>1, <1>2, <1>3, <1>5, <1>6 DEF TasksOK

(* The list of one good task.                                                *)
LEMMA OneTask ==
  ASSUME NEW n, NEW t, TaskOK(t, n)
  PROVE  TasksOK(<<t>>, n)
<1>1. IsList(<<t>>) /\ <<t>>[1] = t /\ DOMAIN <<t>> = 1..1
  BY ListOfOne
<1>2. \A i \in 1..1 : i = 1
  OBVIOUS
<1>. QED BY <1>1, <1>2 DEF TasksOK

(* The empty list of tasks.                                                  *)
LEMMA NoTask ==
  ASSUME NEW n
  PROVE  TasksOK(<<>>, n) /\ \A i \in DOMAIN <<>> : Still(<<>>[i])
<1>1. <<>> \in Seq({}) /\ DOMAIN <<>> = {}
  OBVIOUS
<1>2. IsList(<<>>)
  BY <1>1, Zenon DEF IsList
<1>. QED BY <1>1, <1>2 DEF TasksOK

(* The visits of a list of nodes are good and undo nothing.                  *)
LEMMA VisitTasks ==
  ASSUME NEW nodes \in Seq(Nodes), NEW scope, NEW sub, NEW n
  PROVE  /\ TasksOK(VisitAll(nodes, scope, sub), n)
         /\ \A i \in DOMAIN VisitAll(nodes, scope, sub) : Still(VisitAll(nodes, scope, sub)[i])
<1>1. PICK m \in Nat : m = Len(nodes) /\ DOMAIN nodes = 1..m
  OBVIOUS
<1>2. PICK v : v = VisitAll(nodes, scope, sub)
  OBVIOUS
<1>3. v = [i \in 1..m |-> Visit(nodes[i], scope, sub)]
  BY <1>1, <1>2 DEF VisitAll
<1>4. IsList(v) /\ DOMAIN v = 1..m
  <2>1. v = [i \in 1..m |-> v[i]]
    BY <1>3
  <2>. QED BY <1>3, <2>1, ListOfFunction
<1>5. ASSUME NEW i \in 1..m PROVE v[i].do = "visit" /\ HasParts(v[i].node) /\ ~IsClone(v[i])
  <2>1. v[i].do = "visit" /\ v[i].node = nodes[i]
    BY <1>3 DEF Visit
  <2>2. nodes[i] \in Nodes
    BY <1>1
  <2>. QED BY <2>1, <2>2, NodesAssumption DEF IsClone
<1>6. \A i \in 1..m : TaskOK(v[i], n)
  BY <1>5 DEF TaskOK
<1>. QED BY <1>2, <1>4, <1>5, <1>6 DEF TasksOK, Still, Idle

(* A task at the head undoes something and leaves the rest; new tasks that   *)
(* lead back to where the rest starts may stand in its place.                *)
LEMMA HeadDone ==
  ASSUME NEW ts, NEW n, TasksOK(ts, n), ts # <<>>, NEW a, NEW c, Leads(ts, a, c)
  PROVE  /\ TasksOK(Tail(ts), n) /\ TaskOK(Head(ts), n)
         /\ \E b : Undoes(Head(ts), a, b) /\ Leads(Tail(ts), b, c)
<1>1. IsList(ts)
  BY DEF TasksOK
<1>. QED BY <1>1, TailTasks, HeadLeads

(* Without a head that undoes nothing the rest leads as far.                 *)
LEMMA IdleHead ==
  ASSUME NEW ts, NEW n, TasksOK(ts, n), ts # <<>>, NEW a, NEW c, Leads(ts, a, c),
         Head(ts).do \in Idle
  PROVE  TasksOK(Tail(ts), n) /\ TaskOK(Head(ts), n) /\ Leads(Tail(ts), a, c)
<1>1. PICK b : Undoes(Head(ts), a, b) /\ Leads(Tail(ts), b, c)
  BY HeadDone
<1>2. b = a
  BY <1>1 DEF Undoes, Rests, Idle
<1>. QED BY <1>1, <1>2, HeadDone

(* Good tasks that lead to where the others start may stand in front of them. *)
LEMMA InFront ==
  ASSUME NEW n, NEW new, TasksOK(new, n), NEW rest, TasksOK(rest, n),
         NEW a, NEW b, NEW c, Leads(new, a, b), Leads(rest, b, c)
  PROVE  TasksOK(new \o rest, n) /\ Leads(new \o rest, a, c)
<1>1. IsList(new) /\ IsList(rest)
  BY DEF TasksOK
<1>2. TasksOK(new \o rest, n)
  BY ConcatTasks
<1>3. Leads(new \o rest, a, c)
  BY <1>1, ConcatLeads
<1>. QED BY <1>2, <1>3

(* Good tasks that undo nothing leave the context where it is.               *)
LEMMA IdleTasks ==
  ASSUME NEW n, NEW ts, TasksOK(ts, n), NEW a, \A i \in DOMAIN ts : Rests(ts[i], a)
  PROVE  Leads(ts, a, a)
<1>1. IsList(ts)
  BY DEF TasksOK
<1>2. DOMAIN ts = 1..Len(ts)
  BY <1>1, ListFacts
<1>. QED BY <1>1, <1>2, IdleLeads

(* Tasks that are no clones may be done anywhere.                            *)
LEMMA StillTasks ==
  ASSUME NEW n, NEW ts, TasksOK(ts, n), \A i \in DOMAIN ts : Still(ts[i]), NEW a
  PROVE  Leads(ts, a, a)
<1>1. \A i \in DOMAIN ts : Rests(ts[i], a)
  BY DEF Still, Rests
<1>. QED BY <1>1, IdleTasks

-----------------------------------------------------------------------------
(* The kinds of steps. *)

(* Nothing of the context changes.                                           *)
LEMMA Stays ==
  ASSUME ContextInv,
         UNCHANGED <<agenda, templates, environment, namespacePath, hasAnonymousNamespace, loopStack>>,
         IsList(envs'), Len(envs') = Len(envs)
  PROVE  ContextInv'
<1>1. Now' = Now /\ AtStart' = AtStart
  BY DEF Now, AtStart
<1>2. TemplatesOK'
  BY DEF ContextInv, TemplatesOK
<1>. QED BY <1>1, <1>2 DEF ContextInv

(* A refusal changes nothing but that the process ends.                      *)
LEMMA FailStays ==
  ASSUME ContextInv, NEW why, Fail(why)
  PROVE  ContextInv'
<1>1. /\ UNCHANGED <<agenda, templates, environment, namespacePath, hasAnonymousNamespace, loopStack>>
      /\ envs' = envs
  BY DEF Fail, context, tables
<1>2. IsList(envs') /\ Len(envs') = Len(envs)
  BY <1>1 DEF ContextInv
<1>. QED BY <1>1, <1>2, Stays

(* The task at the head gives way to others that restore nothing.            *)
LEMMA Rested ==
  ASSUME ContextInv, agenda # <<>>, Task.do \in Idle,
         NEW ts, TasksOK(ts, Len(envs)), \A i \in DOMAIN ts : Rests(ts[i], Now),
         agenda' = ts \o Rest, TemplatesOK',
         UNCHANGED <<environment, namespacePath, hasAnonymousNamespace, loopStack>>,
         IsList(envs'), Len(envs') = Len(envs)
  PROVE  ContextInv'
<1>1. Now' = Now /\ AtStart' = AtStart
  BY DEF Now, AtStart
<1>2. PICK n : n = Len(envs)
  OBVIOUS
<1>3. TasksOK(agenda, n) /\ Leads(agenda, Now, AtStart)
  BY <1>2 DEF ContextInv
<1>4. TasksOK(Rest, n) /\ Leads(Rest, Now, AtStart)
  BY <1>3, IdleHead DEF Task, Rest
<1>5. Leads(ts, Now, Now)
  BY <1>2, IdleTasks
<1>6. TasksOK(ts \o Rest, n) /\ Leads(ts \o Rest, Now, AtStart)
  BY <1>2, <1>4, <1>5, InFront
<1>7. TasksOK(agenda', Len(envs')) /\ Leads(agenda', Now', AtStart')
  BY <1>1, <1>2, <1>6
<1>. QED BY <1>2, <1>7 DEF ContextInv

(* The same when no clone is among them.                                     *)
LEMMA Replaced ==
  ASSUME ContextInv, agenda # <<>>, Task.do \in Idle,
         NEW ts, TasksOK(ts, Len(envs)), \A i \in DOMAIN ts : Still(ts[i]),
         agenda' = ts \o Rest, TemplatesOK',
         UNCHANGED <<environment, namespacePath, hasAnonymousNamespace, loopStack>>,
         IsList(envs'), Len(envs') = Len(envs)
  PROVE  ContextInv'
<1>1. \A i \in DOMAIN ts : Rests(ts[i], Now)
  BY DEF Still, Rests
<1>. QED BY <1>1, Rested

(* An environment is opened under the current one for the tasks ts, and t    *)
(* closes it.                                                                *)
LEMMA Opened ==
  ASSUME ContextInv, agenda # <<>>, Task.do \in Idle,
         NEW ts, TasksOK(ts, Len(envs)), \A i \in DOMAIN ts : Still(ts[i]),
         NEW t, t.do \in {"leaveBlock", "leaveFunction"} /\ t.saved = environment,
         agenda' = (ts \o <<t>>) \o Rest,
         environment' = <<Len(envs) + 1>> \o environment,
         UNCHANGED <<namespacePath, hasAnonymousNamespace, loopStack, templates>>,
         IsList(envs') /\ Len(envs') = Len(envs) + 1
  PROVE  ContextInv'
<1>1. PICK n : n = Len(envs)
  OBVIOUS
<1>2. n \in Nat /\ n >= 1
  BY <1>1, ListFacts DEF ContextInv
<1>3. TasksOK(agenda, n) /\ Leads(agenda, Now, AtStart) /\ ChainOK(environment, n)
  BY <1>1 DEF ContextInv
<1>4. TasksOK(Rest, n) /\ Leads(Rest, Now, AtStart)
  BY <1>3, IdleHead DEF Task, Rest
<1>5. TaskOK(t, n)
  BY <1>3 DEF TaskOK
<1>6. TasksOK(<<t>>, n)
  BY <1>5, OneTask
<1>7. PICK inside : inside = Context(<<n + 1>> \o environment, namespacePath, hasAnonymousNamespace, loopStack)
  OBVIOUS
<1>8. Now' = inside /\ AtStart' = AtStart
  BY <1>1, <1>7 DEF Now, AtStart
<1>9. Leads(ts, inside, inside)
  BY <1>1, StillTasks
<1>10. Undoes(t, inside, Now)
  <2>1. inside.environment = <<n + 1>> \o t.saved
    BY <1>7 DEF Context
  <2>2. Now = Context(t.saved, inside.path, inside.anonymous, inside.loops)
    BY <1>7 DEF Context, Now
  <2>. QED BY <2>1, <2>2 DEF Undoes
<1>11. Leads(<<t>>, inside, Now)
  BY <1>10, OneLeads
<1>12. PICK new : new = ts \o <<t>>
  OBVIOUS
<1>13. TasksOK(new, n) /\ Leads(new, inside, Now)
  BY <1>1, <1>6, <1>9, <1>11, <1>12, InFront
<1>14. TasksOK(new \o Rest, n) /\ Leads(new \o Rest, inside, AtStart)
  BY <1>4, <1>13, InFront
<1>15. TasksOK(new \o Rest, n + 1)
  BY <1>2, <1>14, MoreEnvironments
<1>16. ChainOK(environment', n + 1)
  <2>1. PICK e \in Seq(1..n) : e = environment
    BY <1>3 DEF ChainOK
  <2>2. e # <<>> /\ Last(e) = Global /\ environment' = <<n + 1>> \o e
    BY <1>1, <1>3, <2>1 DEF ChainOK
  <2>3. e \in Seq(1..(n + 1)) /\ n + 1 \in 1..(n + 1)
    <3>1. \A i \in 1..Len(e) : e[i] \in 1..(n + 1)
      BY <1>2
    <3>. QED BY <1>2, <3>1
  <2>4. <<n + 1>> \o e \in Seq(1..(n + 1)) /\ Len(<<n + 1>> \o e) = 1 + Len(e) /\ Len(e) \in Nat
    BY <2>3
  <2>5. (<<n + 1>> \o e)[1 + Len(e)] = e[Len(e)]
    <3>1. Len(e) \in Nat \ {0}
      BY <2>2, <2>1, EmptySeq
    <3>. QED BY <2>3, <3>1
  <2>6. Last(<<n + 1>> \o e) = Global
    BY <2>2, <2>4, <2>5 DEF Last
  <2>7. <<n + 1>> \o e # <<>>
    BY <2>4
  <2>. QED BY <2>2, <2>4, <2>6, <2>7 DEF ChainOK
<1>17. TemplatesOK'
  BY DEF ContextInv, TemplatesOK
<1>18. IsList(namespacePath') /\ IsList(loopStack')
  BY DEF ContextInv
<1>19. TasksOK(agenda', Len(envs')) /\ Leads(agenda', Now', AtStart') /\ ChainOK(environment', Len(envs')) /\ Len(envs') >= 1
  BY <1>1, <1>2, <1>8, <1>12, <1>14, <1>15, <1>16
<1>. QED BY <1>17, <1>18, <1>19 DEF ContextInv

(* The empty list in front of a list.                                        *)
LEMMA NothingInFront ==
  ASSUME NEW s, IsList(s)
  PROVE  <<>> \o s = s
BY DEF IsList

(* An update keeps a list and its length.                                    *)
LEMMA ListExcept ==
  ASSUME NEW s, IsList(s), NEW k, NEW v
  PROVE  IsList([s EXCEPT ![k] = v]) /\ Len([s EXCEPT ![k] = v]) = Len(s)
<1>1. PICK n \in Nat : n = Len(s) /\ DOMAIN s = 1..n
  BY ListFacts
<1>2. PICK t : t = [s EXCEPT ![k] = v]
  OBVIOUS
<1>3. t = [i \in 1..n |-> t[i]]
  BY <1>1, <1>2
<1>. QED BY <1>1, <1>2, <1>3, ListOfFunction

(* The task at the head is done and what it undoes is undone.                *)
LEMMA Undone ==
  ASSUME ContextInv, agenda # <<>>, Goes(<<>>),
         \A b : Undoes(Task, Now, b) => b = Now',
         UNCHANGED <<envs, templates>>,
         ChainOK(environment', Len(envs)), IsList(namespacePath'), IsList(loopStack')
  PROVE  ContextInv'
<1>1. PICK n : n = Len(envs)
  OBVIOUS
<1>2. TasksOK(agenda, n) /\ Leads(agenda, Now, AtStart)
  BY <1>1 DEF ContextInv
<1>3. PICK b : Undoes(Head(agenda), Now, b) /\ Leads(Tail(agenda), b, AtStart)
  BY <1>2, HeadDone
<1>4. b = Now'
  BY <1>3 DEF Task
<1>5. TasksOK(Rest, n) /\ Leads(Rest, Now', AtStart)
  <2>1. TasksOK(Rest, n)
    BY <1>2, TailTasks DEF Rest
  <2>. QED BY <2>1, <1>3, <1>4 DEF Rest
<1>6. agenda' = Rest
  <2>1. IsList(Rest)
    BY <1>5 DEF TasksOK
  <2>2. agenda' = <<>> \o Rest
    BY DEF Goes
  <2>. QED BY <2>1, <2>2, NothingInFront
<1>7. AtStart' = AtStart /\ TemplatesOK'
  BY DEF AtStart, ContextInv, TemplatesOK
<1>8. TasksOK(agenda', Len(envs')) /\ Leads(agenda', Now', AtStart')
  BY <1>1, <1>5, <1>6, <1>7
<1>9. IsList(envs') /\ Len(envs') >= 1 /\ Len(envs') = Len(envs)
  BY DEF ContextInv
<1>. QED BY <1>7, <1>8, <1>9 DEF ContextInv

(* The tasks ts are done with something of the context changed, and t undoes *)
(* the change.                                                               *)
LEMMA Wrapped ==
  ASSUME ContextInv, agenda # <<>>, Task.do \in Idle,
         NEW ts, TasksOK(ts, Len(envs)), \A i \in DOMAIN ts : Still(ts[i]),
         NEW t, TaskOK(t, Len(envs)), Undoes(t, Now', Now),
         agenda' = (ts \o <<t>>) \o Rest,
         UNCHANGED <<envs, environment, templates>>,
         IsList(namespacePath'), IsList(loopStack')
  PROVE  ContextInv'
<1>1. PICK n : n = Len(envs)
  OBVIOUS
<1>2. TasksOK(agenda, n) /\ Leads(agenda, Now, AtStart)
  BY <1>1 DEF ContextInv
<1>3. TasksOK(Rest, n) /\ Leads(Rest, Now, AtStart)
  BY <1>2, IdleHead DEF Task, Rest
<1>4. PICK inside : inside = Now'
  OBVIOUS
<1>5. TasksOK(<<t>>, n) /\ Leads(<<t>>, inside, Now)
  BY <1>1, <1>4, OneTask, OneLeads
<1>6. Leads(ts, inside, inside)
  BY <1>1, StillTasks
<1>7. PICK new : new = ts \o <<t>>
  OBVIOUS
<1>8. TasksOK(new, n) /\ Leads(new, inside, Now)
  BY <1>1, <1>5, <1>6, <1>7, InFront
<1>9. TasksOK(new \o Rest, n) /\ Leads(new \o Rest, inside, AtStart)
  BY <1>3, <1>8, InFront
<1>10. AtStart' = AtStart /\ TemplatesOK'
  BY DEF AtStart, ContextInv, TemplatesOK
<1>11. TasksOK(agenda', Len(envs')) /\ Leads(agenda', Now', AtStart')
  BY <1>1, <1>4, <1>7, <1>9, <1>10
<1>12. IsList(envs') /\ Len(envs') >= 1 /\ ChainOK(environment', Len(envs'))
  BY DEF ContextInv
<1>. QED BY <1>10, <1>11, <1>12 DEF ContextInv

(* A clone is a node with the parts of the declaration.                      *)
LEMMA SameParts ==
  ASSUME NEW node, HasParts(node), node.k \in {"function", "struct"},
         NEW c, DOMAIN c = DOMAIN node, c.k = node.k, "body" \in DOMAIN node => c.body = node.body
  PROVE  HasParts(c)
BY DEF HasParts

(* The clone of a declaration, for an instance.                              *)
LEMMA CloneParts ==
  ASSUME NEW template, NEW name, HasParts(template.node), template.node.k \in {"function", "struct"}
  PROVE  HasParts(Clone(template, name))
<1>1. PICK node : node = template.node
  OBVIOUS
<1>2. PICK c : c = [node EXCEPT !.tparams = <<>>, !.instance = name]
  OBVIOUS
<1>3. "k" \in DOMAIN node
  BY <1>1 DEF HasParts
<1>4. DOMAIN c = DOMAIN node /\ c.k = node.k /\ ("body" \in DOMAIN node => c.body = node.body)
  BY <1>2, <1>3
<1>5. HasParts(c)
  BY <1>1, <1>4, SameParts
<1>. QED BY <1>1, <1>2, <1>5 DEF Clone

(* The clone of a method of a template.                                      *)
LEMMA CloneMethodParts ==
  ASSUME NEW method, NEW name, HasParts(method), method.k = "function"
  PROVE  HasParts(CloneMethod(method, name))
<1>1. PICK c : c = [method EXCEPT !.tparams = <<>>, !.struct = name]
  OBVIOUS
<1>2. "k" \in DOMAIN method
  BY DEF HasParts
<1>3. DOMAIN c = DOMAIN method /\ c.k = method.k /\ ("body" \in DOMAIN method => c.body = method.body)
  BY <1>1, <1>2
<1>4. HasParts(c)
  BY <1>3, SameParts
<1>. QED BY <1>1, <1>4 DEF CloneMethod

(* A task of an instance: it is no push of the instance itself unless it is  *)
(* the second one, behind the visit of the clone.                            *)
Builds(t, a, n) == t.do \in {"visit", "push"} /\ TaskOK(t, n) /\ Rests(t, a)
PushesWhole(t)  == t.do = "push" /\ t.method = 0

(* The tasks that build one instance: a visit of a clone and a push.         *)
LEMMA BuildTasks ==
  ASSUME NEW node, HasParts(node), NEW sub, NEW name, NEW i, NEW n, NEW a,
         node.k \in {"function", "struct"} /\ node.instance # None =>
           a.environment = <<Global>> /\ (node.k = "struct" => a.path = <<>>)
  PROVE  /\ Builds(Visit(node, "Global", sub), a, n)
         /\ Builds([do |-> "push", name |-> name, method |-> i], a, n)
         /\ ~PushesWhole(Visit(node, "Global", sub))
         /\ PushesWhole([do |-> "push", name |-> name, method |-> i]) => i = 0
<1>1. PICK v : v = Visit(node, "Global", sub)
  OBVIOUS
<1>2. v.do = "visit" /\ v.node = node
  BY <1>1 DEF Visit
<1>3. Builds(v, a, n) /\ ~PushesWhole(v)
  BY <1>2 DEF Builds, PushesWhole, TaskOK, Rests, Idle, IsClone, AtHome
<1>4. PICK t : t = [do |-> "push", name |-> name, method |-> i]
  OBVIOUS
<1>5. t.do = "push" /\ t.method = i
  BY <1>4
<1>6. Builds(t, a, n) /\ (PushesWhole(t) => i = 0)
  BY <1>5 DEF Builds, PushesWhole, TaskOK, Rests, Idle, IsClone
<1>. QED BY <1>1, <1>3, <1>4, <1>6

(* The tasks of a list of such pairs are all of that kind.                   *)
LEMMA TasksIn ==
  ASSUME NEW n, NEW a, NEW V, \A t \in V : Builds(t, a, n), NEW ts \in Seq(V)
  PROVE  TasksOK(ts, n) /\ \A i \in DOMAIN ts : ts[i] \in V
<1>1. \A i \in DOMAIN ts : ts[i] \in V
  OBVIOUS
<1>2. IsList(ts)
  BY Zenon DEF IsList
<1>. QED BY <1>1, <1>2 DEF TasksOK, Builds

(* Lists of such tasks, one after the other.                                 *)
LEMMA FlattenTasks ==
  ASSUME NEW n, NEW a, NEW V, \A t \in V : Builds(t, a, n),
         NEW m \in Nat, NEW ms, ms = [i \in 1..m |-> ms[i]], \A i \in 1..m : ms[i] \in Seq(V)
  PROVE  TasksOK(FlattenSeq(ms), n) /\ \A i \in DOMAIN FlattenSeq(ms) : FlattenSeq(ms)[i] \in V
<1>1. ms \in Seq(Seq(V))
  OBVIOUS
<1>2. FlattenSeq(ms) \in Seq(V)
  BY <1>1, FlattenHolds
<1>. QED BY <1>2, TasksIn

(* The clone of a declaration is that of the instance.                       *)
LEMMA CloneNamed ==
  ASSUME NEW template, NEW name, HasParts(template.node), template.node.k \in {"function", "struct"}
  PROVE  LET c == Clone(template, name)
         IN  c.k = template.node.k /\ c.instance = name /\ c.tparams = <<>>
<1>1. PICK node : node = template.node
  OBVIOUS
<1>2. {"k", "tparams", "instance"} \subseteq DOMAIN node
  BY <1>1 DEF HasParts
<1>3. PICK c : c = [node EXCEPT !.tparams = <<>>, !.instance = name]
  OBVIOUS
<1>4. c.k = node.k /\ c.instance = name /\ c.tparams = <<>>
  BY <1>2, <1>3
<1>. QED BY <1>1, <1>3, <1>4 DEF Clone

(* The clone of a method is not one of an instance.                          *)
LEMMA CloneMethodNamed ==
  ASSUME NEW method, NEW name, MethodOK(method)
  PROVE  CloneMethod(method, name).instance = None
<1>1. {"k", "tparams", "instance"} \subseteq DOMAIN method
  BY DEF HasParts, MethodOK
<1>2. PICK c : c = [method EXCEPT !.tparams = <<>>, !.struct = name]
  OBVIOUS
<1>3. c.instance = method.instance
  BY <1>1, <1>2
<1>. QED BY <1>2, <1>3 DEF CloneMethod, MethodOK

(* The tasks of an instance: the visit of the clone and its push, those of   *)
(* the methods, and the restoring task.                                      *)
Makes(ts, template, name, sub, n, a) ==
  /\ TasksOK(ts, n) /\ Len(ts) >= 2
  /\ \A i \in DOMAIN ts : Builds(ts[i], a, n) /\ (i # 2 => ~PushesWhole(ts[i]))
  /\ ts[1] = Visit(Clone(template, name), "Global", sub)
  /\ ts[2].name = name
  /\ InstanceTasks(template, name, sub) =
       ts \o <<[do |-> "restore", environment |-> environment, path |-> namespacePath]>>

LEMMA InstanceInFront ==
  ASSUME NEW template, TemplateOK(template), NEW name, NEW sub, NEW n,
         NEW a, a.environment = <<Global>>, a.path = template.path
  PROVE  \E ts : Makes(ts, template, name, sub, n, a)
<1>. DEFINE Pushed(i) == [do |-> "push", name |-> name, method |-> i]
            Built(i) == Visit(CloneMethod(template.methods[i], name), "Global", sub)
            Whole == Visit(Clone(template, name), "Global", sub)
            Done == [do |-> "push", name |-> name, method |-> 0]
            one(node, i) == <<Visit(node, "Global", sub), [do |-> "push", name |-> name, method |-> i]>>
            method(i) == one(CloneMethod(template.methods[i], name), i)
            Part(t) == Builds(t, a, n) /\ ~PushesWhole(t)
<1>1. PICK m \in Nat : m = Len(template.methods) /\ DOMAIN template.methods = 1..m
  BY ListFacts DEF TemplateOK
<1>2. PICK ms : ms = [i \in DOMAIN template.methods |-> method(i)]
  OBVIOUS
<1>3. \A i \in 1..m : ms[i] = <<Built(i), Pushed(i)>>
  BY <1>1, <1>2, Zenon
<1>4. ASSUME NEW i \in 1..m PROVE Part(Built(i)) /\ Part(Pushed(i))
  <2>1. MethodOK(template.methods[i])
    BY <1>1 DEF TemplateOK
  <2>2. HasParts(CloneMethod(template.methods[i], name))
    BY <2>1, CloneMethodParts DEF MethodOK
  <2>3. CloneMethod(template.methods[i], name).instance = None
    BY <2>1, CloneMethodNamed
  <2>4. i # 0
    OBVIOUS
  <2>. QED BY <2>2, <2>3, <2>4, BuildTasks
<1>5. Builds(Whole, a, n) /\ ~PushesWhole(Whole) /\ Builds(Done, a, n) /\ Done.name = name
  <2>1. HasParts(Clone(template, name))
    BY CloneParts DEF TemplateOK
  <2>2. Clone(template, name).k = "struct" => a.path = <<>>
    BY CloneNamed DEF TemplateOK
  <2>. QED BY <2>1, <2>2, BuildTasks
<1>6. InstanceTasks(template, name, sub) =
        (<<Whole, Done>> \o FlattenSeq(ms))
          \o <<[do |-> "restore", environment |-> environment, path |-> namespacePath]>>
  BY <1>2, Zenon DEF InstanceTasks
<1>. DEFINE V == {Built(i) : i \in 1..m} \cup {Pushed(i) : i \in 1..m}
<1>7. \A i \in 1..m : Built(i) \in V /\ Pushed(i) \in V
  OBVIOUS
<1>8. \A t \in V : Part(t)
  <2>. HIDE DEF Part, Built, Pushed
  <2>. QED BY <1>4
<1>9. DOMAIN ms = 1..m /\ ms = [i \in 1..m |-> ms[i]]
  <2>. HIDE DEF method
  <2>. QED BY <1>1, <1>2
<1>. HIDE DEF V, Built, Pushed, Whole, Done, method, one
<1>10. ASSUME NEW i \in 1..m PROVE ms[i] \in Seq(V)
  <2>1. PICK x \in V, y \in V : ms[i] = <<x, y>>
    BY <1>3, <1>7
  <2>. QED BY <2>1
<1>11. PICK flat : flat = FlattenSeq(ms)
  OBVIOUS
<1>12. TasksOK(flat, n) /\ \A i \in DOMAIN flat : Part(flat[i])
  <2>1. \A t \in V : Builds(t, a, n)
    BY <1>8
  <2>2. TasksOK(flat, n) /\ \A i \in DOMAIN flat : flat[i] \in V
    BY <2>1, <1>9, <1>10, <1>11, FlattenTasks
  <2>. QED BY <1>8, <2>2
<1>. HIDE DEF Part
<1>13. PICK w : w = <<Whole, Done>>
  OBVIOUS
<1>14. TasksOK(w, n) /\ Len(w) = 2 /\ DOMAIN w = 1..2 /\ w[1] = Whole /\ w[2] = Done
  <2>1. w \in Seq({Whole, Done}) /\ Len(w) = 2 /\ w[1] = Whole /\ w[2] = Done
    BY <1>13
  <2>2. \A t \in {Whole, Done} : Builds(t, a, n)
    BY <1>5
  <2>3. TasksOK(w, n)
    BY <2>1, <2>2, TasksIn
  <2>4. DOMAIN w = 1..2
    BY <2>1
  <2>. QED BY <2>1, <2>3, <2>4
<1>15. PICK ts : ts = w \o flat
  OBVIOUS
<1>16. TasksOK(ts, n)
  BY <1>12, <1>14, <1>15, ConcatTasks
<1>17. IsList(w) /\ IsList(flat) /\ IsList(ts)
  BY <1>12, <1>14, <1>16 DEF TasksOK
<1>18. PICK b \in Nat : b = Len(flat) /\ DOMAIN flat = 1..b
  BY <1>17, ListFacts
<1>19. Len(ts) = 2 + b /\ (\A i \in 1..2 : ts[i] = w[i]) /\ \A i \in 1..b : ts[2 + i] = flat[i]
  <2>1. /\ Len(ts) = Len(w) + Len(flat) /\ (\A i \in 1..Len(w) : ts[i] = w[i])
        /\ \A i \in 1..Len(flat) : ts[Len(w) + i] = flat[i]
    BY <1>15, <1>17, ListConcat
  <2>. QED BY <1>14, <1>18, <2>1
<1>20. DOMAIN ts = 1..(2 + b) /\ ts[1] = Whole /\ ts[2] = Done
  <2>1. 1 \in 1..2 /\ 2 \in 1..2
    OBVIOUS
  <2>. QED BY <1>14, <1>17, <1>19, <2>1, ListFacts
<1>21. ASSUME NEW i \in 1..(2 + b) PROVE Builds(ts[i], a, n) /\ (i # 2 => ~PushesWhole(ts[i]))
  <2>1. CASE i \in 1..2
    <3>1. i = 1 \/ i = 2
      BY <2>1
    <3>. QED BY <1>5, <1>20, <3>1
  <2>2. CASE i \notin 1..2
    <3>1. i - 2 \in 1..b /\ i = 2 + (i - 2)
      BY <2>2
    <3>2. ts[i] = flat[i - 2]
      BY <1>19, <3>1
    <3>3. Part(ts[i])
      BY <1>12, <1>18, <3>1, <3>2
    <3>. QED BY <3>3 DEF Part
  <2>. QED BY <2>1, <2>2
<1>22. InstanceTasks(template, name, sub) =
         ts \o <<[do |-> "restore", environment |-> environment, path |-> namespacePath]>>
  BY <1>6, <1>11, <1>13, <1>15
<1>23. ts[1] = Visit(Clone(template, name), "Global", sub) /\ ts[2].name = name /\ Len(ts) >= 2
  BY <1>5, <1>19, <1>20 DEF Whole
<1>. QED BY <1>16, <1>20, <1>21, <1>22, <1>23 DEF Makes

(* An instance is made in the context of its template, and the context of    *)
(* the one who asks for it is put back after it.                             *)
LEMMA InstantiateStep ==
  ASSUME ContextInv, NEW need, Instantiate(need)
  PROVE  ContextInv'
<1>1. CASE ~Has(templates, need.template)
  <2>1. Fail("undeclared template")
    BY <1>1, Zenon DEF Instantiate
  <2>. QED BY <2>1, FailStays
<1>2. CASE \E why : Fail(why)
  BY <1>2, FailStays
<1>3. CASE Has(templates, need.template) /\ ~\E why : Fail(why)
  <2>1. PICK template : template = templates[need.template]
    OBVIOUS
  <2>2. PICK name, sub :
          /\ agenda' = InstanceTasks(template, name, sub) \o agenda
          /\ environment' = <<Global>> /\ namespacePath' = template.path
          /\ UNCHANGED <<envs, hasAnonymousNamespace, loopStack, templates>>
    BY <1>3, <2>1, Zenon DEF Instantiate
  <2>3. TemplateOK(template)
    BY <1>3, <2>1 DEF ContextInv, TemplatesOK, Has
  <2>4. PICK n \in Nat : n = Len(envs) /\ n >= 1
    BY ListFacts DEF ContextInv
  <2>5. PICK last : last = [do |-> "restore", environment |-> environment, path |-> namespacePath]
    OBVIOUS
  <2>6. PICK ts : /\ TasksOK(ts, n) /\ \A i \in DOMAIN ts : Rests(ts[i], Now')
                  /\ InstanceTasks(template, name, sub) = ts \o <<last>>
    <3>1. PICK a : a = Now'
      OBVIOUS
    <3>2. a.environment = <<Global>> /\ a.path = template.path
      BY <2>2, <3>1 DEF Now, Context
    <3>3. PICK ts : Makes(ts, template, name, sub, n, a)
      BY <2>3, <3>2, InstanceInFront
    <3>. QED BY <2>5, <3>1, <3>3 DEF Makes, Builds
  <2>7. TasksOK(agenda, n) /\ Leads(agenda, Now, AtStart) /\ ChainOK(environment, n) /\ IsList(namespacePath)
    BY <2>4 DEF ContextInv
  <2>8. last.do = "restore" /\ last.environment = environment /\ last.path = namespacePath
    BY <2>5
  <2>9. TaskOK(last, n)
    BY <2>7, <2>8 DEF TaskOK
  <2>10. PICK inside : inside = Now'
    OBVIOUS
  <2>11. inside.environment = <<Global>> /\ inside.anonymous = hasAnonymousNamespace /\ inside.loops = loopStack
    BY <2>2, <2>10 DEF Now, Context
  <2>12. Undoes(last, inside, Now)
    BY <2>8, <2>11 DEF Undoes, Now
  <2>13. TasksOK(<<last>>, n) /\ Leads(<<last>>, inside, Now)
    BY <2>9, <2>12, OneTask, OneLeads
  <2>14. Leads(ts, inside, inside)
    BY <2>6, <2>10, IdleTasks
  <2>15. PICK new : new = ts \o <<last>>
    OBVIOUS
  <2>16. TasksOK(new, n) /\ Leads(new, inside, Now)
    BY <2>6, <2>13, <2>14, <2>15, InFront
  <2>17. TasksOK(new \o agenda, n) /\ Leads(new \o agenda, inside, AtStart)
    BY <2>7, <2>16, InFront
  <2>18. AtStart' = AtStart /\ TemplatesOK'
    BY <2>2 DEF AtStart, ContextInv, TemplatesOK
  <2>19. TasksOK(agenda', Len(envs')) /\ Leads(agenda', Now', AtStart')
    BY <2>2, <2>4, <2>6, <2>10, <2>15, <2>17, <2>18
  <2>20. ChainOK(environment', Len(envs'))
    BY <2>2, <2>4 DEF ChainOK, Global, Last
  <2>21. IsList(namespacePath') /\ IsList(loopStack') /\ IsList(envs') /\ Len(envs') >= 1
    BY <2>2, <2>3 DEF TemplateOK, ContextInv
  <2>. QED BY <2>18, <2>19, <2>20, <2>21 DEF ContextInv
<1>. QED BY <1>1, <1>2, <1>3

-----------------------------------------------------------------------------
(* One lemma per action, or two for what shares its shape.                   *)

(* While the analyzer runs the head is a good task.                          *)
LEMMA HeadTask ==
  ASSUME ContextInv, Running
  PROVE  agenda # <<>> /\ TaskOK(Task, Len(envs))
<1>1. agenda # <<>> /\ TasksOK(agenda, Len(envs))
  BY DEF ContextInv, Running
<1>. QED BY <1>1, TailTasks DEF Task

(* The node that is visited has the parts of its kind.                       *)
LEMMA HeadNode ==
  ASSUME ContextInv, NEW kind, At(kind)
  PROVE  /\ agenda # <<>> /\ Task.do \in Idle
         /\ HasParts(Node) /\ Node.k = kind
<1>1. agenda # <<>> /\ TaskOK(Task, Len(envs)) /\ Task.do = "visit" /\ Node.k = kind
  BY HeadTask DEF At
<1>. QED BY <1>1 DEF TaskOK, Node, Idle

(* What is visited is visited where it may be.                               *)
LEMMA HeadRests ==
  ASSUME ContextInv, agenda # <<>>, Task.do \in Idle
  PROVE  Rests(Task, Now)
<1>1. TasksOK(agenda, Len(envs)) /\ Leads(agenda, Now, AtStart)
  BY DEF ContextInv
<1>2. \E b : Undoes(Task, Now, b)
  BY <1>1, HeadDone DEF Task
<1>. QED BY <1>2 DEF Undoes, Idle

(* The head is done and the tasks that follow it are not touched.            *)
LEMMA NextTask ==
  ASSUME ContextInv, agenda # <<>>, Task.do \in Idle, Goes(<<>>), TemplatesOK',
         UNCHANGED <<environment, namespacePath, hasAnonymousNamespace, loopStack>>,
         IsList(envs'), Len(envs') = Len(envs)
  PROVE  ContextInv'
<1>1. PICK ts : ts = <<>>
  OBVIOUS
<1>2. TasksOK(ts, Len(envs)) /\ \A i \in DOMAIN ts : Still(ts[i])
  BY <1>1, NoTask
<1>3. agenda' = ts \o Rest
  BY <1>1 DEF Goes
<1>. QED BY <1>2, <1>3, Replaced

(* The same when the whole context is left alone.                            *)
LEMMA NextTaskAlone ==
  ASSUME ContextInv, agenda # <<>>, Task.do \in Idle, Goes(<<>>), UNCHANGED <<context, templates>>
  PROVE  ContextInv'
<1>1. UNCHANGED <<environment, namespacePath, hasAnonymousNamespace, loopStack>> /\ envs' = envs
  BY DEF context
<1>2. TemplatesOK' /\ IsList(envs') /\ Len(envs') = Len(envs)
  BY <1>1 DEF ContextInv, TemplatesOK
<1>. QED BY <1>1, <1>2, NextTask

(* analyze takes a declaration when nothing is left, in the first context.   *)
LEMMA TakeDeclarationStep ==
  ASSUME ContextInv, TakeDeclaration
  PROVE  ContextInv'
<1>1. PICK d \in DOMAIN Items :
         \/ \E why : Fail(why)
         \/ /\ agenda' = <<Visit(Items[d], "Global", NoSub)>>
            /\ UNCHANGED <<context, tables>>
  BY Zenon DEF TakeDeclaration
<1>2. CASE \E why : Fail(why)
  BY <1>2, FailStays
<1>3. CASE agenda' = <<Visit(Items[d], "Global", NoSub)>> /\ UNCHANGED <<context, tables>>
  <2>1. agenda = <<>>
    BY DEF TakeDeclaration
  <2>2. Now = AtStart
    BY <2>1, NothingLeads DEF ContextInv
  <2>3. PICK t : t = Visit(Items[d], "Global", NoSub)
    OBVIOUS
  <2>4. t.do = "visit" /\ t.node = Items[d]
    BY <2>3 DEF Visit
  <2>5. HasParts(t.node) /\ ~IsClone(t)
    BY <2>4, NodesAssumption DEF IsClone
  <2>6. TaskOK(t, Len(envs))
    BY <2>4, <2>5 DEF TaskOK
  <2>7. TasksOK(<<t>>, Len(envs))
    BY <2>6, OneTask
  <2>8. Undoes(t, Now, Now)
    BY <2>4, <2>5 DEF Undoes, Rests, Idle
  <2>9. Leads(<<t>>, Now, AtStart)
    BY <2>2, <2>8, OneLeads
  <2>10. UNCHANGED <<envs, environment, namespacePath, hasAnonymousNamespace, loopStack, templates>>
    BY <1>3 DEF context, tables
  <2>11. Now' = Now /\ AtStart' = AtStart /\ TemplatesOK'
    BY <2>10 DEF Now, AtStart, ContextInv, TemplatesOK
  <2>12. TasksOK(agenda', Len(envs')) /\ Leads(agenda', Now', AtStart')
    BY <1>3, <2>3, <2>7, <2>9, <2>10, <2>11
  <2>. QED BY <2>10, <2>11, <2>12 DEF ContextInv
<1>. QED BY <1>1, <1>2, <1>3

(* define adds no environment.                                               *)
LEMMA DefineKeeps ==
  ASSUME ContextInv, NEW name, NEW record, Define(name, record)
  PROVE  IsList(envs') /\ Len(envs') = Len(envs)
<1>1. PICK v : envs' = [envs EXCEPT ![environment[1]] = v]
  BY Zenon DEF Define
<1>2. IsList(envs)
  BY DEF ContextInv
<1>. QED BY <1>1, <1>2, ListExcept

(* VariableDeclaration.                                                      *)
LEMMA DeclareVariableStep ==
  ASSUME ContextInv, DeclareVariable
  PROVE  ContextInv'
<1>1. PICK name, type, values, made : VariableOf(name, type, values, made)
  BY Zenon DEF DeclareVariable, VariableFrom
<1>2. \/ \E why : Fail(why)
      \/ \E need : Instantiate(need)
      \/ /\ Define(name, Variable(type.q))
         /\ Goes(<<>>)
         /\ UNCHANGED <<environment, owner, namespacePath, hasAnonymousNamespace, loopStack, tables>>
  BY <1>1, Zenon DEF VariableOf, Settle
<1>3. CASE /\ Define(name, Variable(type.q))
           /\ Goes(<<>>)
           /\ UNCHANGED <<environment, owner, namespacePath, hasAnonymousNamespace, loopStack, tables>>
  <2>1. agenda # <<>> /\ Task.do \in Idle
    BY HeadNode DEF DeclareVariable
  <2>2. IsList(envs') /\ Len(envs') = Len(envs)
    BY <1>3, DefineKeeps
  <2>3. TemplatesOK'
    BY <1>3 DEF ContextInv, TemplatesOK, tables
  <2>. QED BY <1>3, <2>1, <2>2, <2>3, NextTask
<1>. QED BY <1>2, <1>3, FailStays, InstantiateStep

(* A template that is registered is good if its declaration is.              *)
LEMMA WithTemplate ==
  ASSUME TemplatesOK, NEW name, NEW t, TemplateOK(t), templates' = With(templates, name, t)
  PROVE  TemplatesOK'
<1>1. PICK f : f = templates /\ \A n \in DOMAIN f : TemplateOK(f[n])
  BY DEF TemplatesOK
<1>2. PICK g : g = With(f, name, t)
  OBVIOUS
<1>3. ASSUME NEW n \in DOMAIN g PROVE TemplateOK(g[n])
  <2>1. n = name \/ n \in DOMAIN f
    BY <1>2 DEF With
  <2>2. g[n] = IF n = name THEN t ELSE f[n]
    BY <1>2 DEF With
  <2>. QED BY <1>1, <2>1, <2>2
<1>4. templates' = g
  BY <1>1, <1>2
<1>. QED BY <1>3, <1>4 DEF TemplatesOK

(* A method waits in the registry with the others of its template.           *)
LEMMA WithMethod ==
  ASSUME NEW t, TemplateOK(t), NEW node, MethodOK(node)
  PROVE  TemplateOK([t EXCEPT !.methods = Append(@, node)])
<1>1. PICK u : u = [t EXCEPT !.methods = Append(@, node)]
  OBVIOUS
<1>2. DOMAIN t = {"params", "node", "methods", "path"}
  BY DEF TemplateOK
<1>3. DOMAIN u = DOMAIN t /\ u.node = t.node /\ u.path = t.path /\ u.methods = Append(t.methods, node)
  BY <1>1, <1>2
<1>4. PICK m : m = t.methods
  OBVIOUS
<1>5. PICK S : m \in Seq(S)
  BY <1>4 DEF TemplateOK, IsList
<1>6. PICK a : a = Append(m, node)
  OBVIOUS
<1>7. a \in Seq(S \cup {node}) /\ Len(a) = Len(m) + 1 /\ Len(m) \in Nat
      /\ a[Len(m) + 1] = node /\ \A i \in 1..Len(m) : a[i] = m[i]
  BY <1>5, <1>6
<1>8. IsList(a) /\ DOMAIN a = 1..(Len(m) + 1)
  BY <1>7 DEF IsList
<1>9. ASSUME NEW i \in DOMAIN a PROVE MethodOK(a[i])
  <2>1. CASE i = Len(m) + 1
    BY <1>7, <2>1
  <2>2. CASE i # Len(m) + 1
    <3>1. i \in 1..Len(m) /\ i \in DOMAIN m
      BY <1>5, <1>7, <1>8, <2>2
    <3>2. a[i] = m[i]
      BY <1>7, <3>1
    <3>. QED BY <1>4, <3>1, <3>2 DEF TemplateOK
  <2>. QED BY <2>1, <2>2
<1>10. TemplateOK(u)
  BY <1>2, <1>3, <1>4, <1>6, <1>8, <1>9 DEF TemplateOK
<1>. QED BY <1>1, <1>10

(* The rest of a FunctionDeclaration is a good task.                         *)
LEMMA SignatureTask ==
  ASSUME HasParts(Node), Node.k = "function", NEW name, NEW struct, NEW sub, NEW n,
         Task.do = "visit", NEW a, Rests(Task, a)
  PROVE  LET t == [do |-> "signature", node |-> Node, name |-> name, struct |-> struct, sub |-> sub]
         IN  TasksOK(<<t>>, n) /\ \A i \in DOMAIN <<t>> : Rests(<<t>>[i], a)
<1>1. PICK t : t = [do |-> "signature", node |-> Node, name |-> name, struct |-> struct, sub |-> sub]
  OBVIOUS
<1>2. t.do = "signature" /\ t.node = Node
  BY <1>1
<1>3. TaskOK(t, n) /\ Rests(t, a)
  BY <1>2 DEF TaskOK, Rests, Idle, IsClone, AtHome, Node
<1>4. TasksOK(<<t>>, n)
  BY <1>3, OneTask
<1>5. \A i \in DOMAIN <<t>> : Rests(<<t>>[i], a)
  BY <1>3, ListOfOne
<1>. QED BY <1>1, <1>4, <1>5

(* FunctionDeclaration: registered, refused, or its signature is next.       *)
LEMMA DeclareFunctionStep ==
  ASSUME ContextInv, DeclareFunction
  PROVE  ContextInv'
<1>1. agenda # <<>> /\ Task.do \in Idle /\ HasParts(Node) /\ Node.k = "function" /\ Task.do = "visit"
  BY HeadNode DEF DeclareFunction, At
<1>2. \/ \E why : Fail(why)
      \/ \E key, value :
            /\ \/ \E struct : Has(templates, struct) /\ Node.instance = None
                              /\ value = [templates[struct] EXCEPT !.methods = Append(@, Node)]
               \/ value = [params |-> Node.tparams, node |-> Node, methods |-> <<>>,
                           path |-> namespacePath]
            /\ templates' = With(templates, key, value)
            /\ Goes(<<>>)
            /\ UNCHANGED <<context, typeTable, astRoot, symbols, calls>>
      \/ \E name, struct :
            /\ Goes(<<[do |-> "signature", node |-> Node, name |-> name, struct |-> struct,
                       sub |-> Task.sub]>>)
            /\ UNCHANGED <<envs, environment, namespacePath, hasAnonymousNamespace, loopStack, tables, calls>>
  BY Zenon DEF DeclareFunction
<1>3. ASSUME NEW key, NEW value,
             templates' = With(templates, key, value), Goes(<<>>), UNCHANGED context,
             \/ \E struct : Has(templates, struct) /\ Node.instance = None
                            /\ value = [templates[struct] EXCEPT !.methods = Append(@, Node)]
             \/ value = [params |-> Node.tparams, node |-> Node, methods |-> <<>>, path |-> namespacePath]
      PROVE  ContextInv'
  <2>1. TemplateOK(value)
    <3>1. CASE \E struct : Has(templates, struct) /\ Node.instance = None
                           /\ value = [templates[struct] EXCEPT !.methods = Append(@, Node)]
      <4>1. PICK struct : Has(templates, struct) /\ Node.instance = None
                          /\ value = [templates[struct] EXCEPT !.methods = Append(@, Node)]
        BY <3>1
      <4>2. TemplateOK(templates[struct])
        BY <4>1 DEF ContextInv, TemplatesOK, Has
      <4>3. MethodOK(Node)
        BY <1>1, <4>1 DEF MethodOK
      <4>. QED BY <4>1, <4>2, <4>3, WithMethod
    <3>2. CASE value = [params |-> Node.tparams, node |-> Node, methods |-> <<>>, path |-> namespacePath]
      <4>1. /\ DOMAIN value = {"params", "node", "methods", "path"}
            /\ value.node = Node /\ value.methods = <<>> /\ value.path = namespacePath
        BY <3>2
      <4>2. IsList(<<>>) /\ DOMAIN <<>> = {}
        BY NoTask DEF TasksOK
      <4>3. IsList(namespacePath)
        BY DEF ContextInv
      <4>. QED BY <1>1, <4>1, <4>2, <4>3 DEF TemplateOK
    <3>. QED BY <1>3, <3>1, <3>2
  <2>2. TemplatesOK'
    BY <1>3, <2>1, WithTemplate DEF ContextInv
  <2>3. UNCHANGED <<environment, namespacePath, hasAnonymousNamespace, loopStack>> /\ envs' = envs
    BY <1>3 DEF context
  <2>4. IsList(envs') /\ Len(envs') = Len(envs)
    BY <2>3 DEF ContextInv
  <2>. QED BY <1>1, <1>3, <2>2, <2>3, <2>4, NextTask
<1>4. ASSUME NEW name, NEW struct,
             Goes(<<[do |-> "signature", node |-> Node, name |-> name, struct |-> struct, sub |-> Task.sub]>>),
             UNCHANGED <<envs, environment, namespacePath, hasAnonymousNamespace, loopStack, tables, calls>>
      PROVE  ContextInv'
  <2>1. PICK ts : ts = <<[do |-> "signature", node |-> Node, name |-> name, struct |-> struct, sub |-> Task.sub]>>
    OBVIOUS
  <2>2. TasksOK(ts, Len(envs)) /\ \A i \in DOMAIN ts : Rests(ts[i], Now)
    <3>1. Rests(Task, Now)
      BY <1>1, HeadRests
    <3>. QED BY <1>1, <2>1, <3>1, SignatureTask
  <2>3. agenda' = ts \o Rest
    BY <1>4, <2>1 DEF Goes
  <2>4. TemplatesOK' /\ IsList(envs') /\ Len(envs') = Len(envs)
    BY <1>4 DEF ContextInv, TemplatesOK, tables
  <2>. QED BY <1>1, <1>4, <2>2, <2>3, <2>4, Rested
<1>. QED BY <1>2, <1>3, <1>4, FailStays

(* The signature: an environment is opened for the body.                     *)
LEMMA DeclareSignatureStep ==
  ASSUME ContextInv, DeclareSignature
  PROVE  ContextInv'
<1>1. agenda # <<>> /\ TaskOK(Task, Len(envs)) /\ Task.do = "signature"
  BY HeadTask DEF DeclareSignature, Doing
<1>2. HasParts(Node) /\ Node.k = "function" /\ Task.do \in Idle
  BY <1>1 DEF TaskOK, Node, Idle
<1>3. PICK result, users : Signature(result, users)
  BY Zenon DEF DeclareSignature
<1>4. \/ \E why : Fail(why)
      \/ \E need : Instantiate(need)
      \/ \E fn : Declare(users, fn)
  BY <1>3, Zenon DEF Signature, Settle
<1>5. ASSUME NEW fn, Declare(users, fn) PROVE ContextInv'
  <2>1. PICK t : t = [do |-> "leaveFunction", saved |-> environment, struct |-> Task.struct]
    OBVIOUS
  <2>2. t.do \in {"leaveBlock", "leaveFunction"} /\ t.saved = environment
    BY <2>1
  <2>3. PICK ts : ts = VisitAll(Node.body, "Local", Task.sub)
    OBVIOUS
  <2>4. TasksOK(ts, Len(envs)) /\ \A i \in DOMAIN ts : Still(ts[i])
    <3>1. Node.body \in Seq(Nodes)
      BY <1>2 DEF HasParts
    <3>. QED BY <2>3, <3>1, VisitTasks
  <2>5. /\ agenda' = (ts \o <<t>>) \o Rest
        /\ environment' = <<Len(envs) + 1>> \o environment
        /\ UNCHANGED <<namespacePath, hasAnonymousNamespace, loopStack, templates>>
    BY <1>5, <2>1, <2>3, Zenon DEF Declare, Goes
  <2>6. PICK v, own : envs' = Append([envs EXCEPT ![environment[1]] = v], own)
    BY <1>5, Zenon DEF Declare
  <2>7. IsList(envs') /\ Len(envs') = Len(envs) + 1
    <3>1. PICK d : d = [envs EXCEPT ![environment[1]] = v]
      OBVIOUS
    <3>2. IsList(d) /\ Len(d) = Len(envs)
      BY <3>1, ListExcept DEF ContextInv
    <3>3. IsList(Append(d, own)) /\ Len(Append(d, own)) = Len(envs) + 1
      BY <3>2, ListAppend
    <3>. QED BY <2>6, <3>1, <3>3
  <2>8. agenda # <<>> /\ Task.do \in Idle
    BY <1>1, <1>2
  <2>9. TasksOK(ts, Len(envs))
    BY <2>4
  <2>10. \A i \in DOMAIN ts : Still(ts[i])
    BY <2>4
  <2>11. UNCHANGED <<namespacePath, hasAnonymousNamespace, loopStack, templates>>
    BY <2>5
  <2>12. agenda' = (ts \o <<t>>) \o Rest
    BY <2>5
  <2>13. environment' = <<Len(envs) + 1>> \o environment
    BY <2>5
  <2>. QED BY <2>2, <2>7, <2>8, <2>9, <2>10, <2>11, <2>12, <2>13, Opened
<1>. QED BY <1>4, <1>5, FailStays, InstantiateStep

(* The end of a function or block: the environment from before it.           *)
LEMMA LeaveFunctionStep ==
  ASSUME ContextInv, LeaveFunction \/ LeaveBlock
  PROVE  ContextInv'
<1>1. /\ agenda # <<>> /\ TaskOK(Task, Len(envs)) /\ Task.do \in {"leaveBlock", "leaveFunction"}
      /\ environment' = Task.saved /\ Goes(<<>>)
      /\ UNCHANGED <<envs, namespacePath, hasAnonymousNamespace, loopStack, tables>>
  BY HeadTask DEF LeaveFunction, LeaveBlock, Doing
<1>2. ChainOK(environment', Len(envs))
  BY <1>1 DEF TaskOK
<1>3. UNCHANGED <<envs, templates>>
  BY <1>1 DEF tables
<1>4. IsList(namespacePath') /\ IsList(loopStack')
  BY <1>1 DEF ContextInv
<1>5. Now' = Context(Task.saved, namespacePath, hasAnonymousNamespace, loopStack)
  BY <1>1 DEF Now
<1>6. ASSUME NEW b, Undoes(Task, Now, b) PROVE b = Now'
  <2>1. b = Context(Task.saved, Now.path, Now.anonymous, Now.loops)
    BY <1>1, <1>6 DEF Undoes, Rests, Idle
  <2>2. Now.path = namespacePath /\ Now.anonymous = hasAnonymousNamespace /\ Now.loops = loopStack
    BY DEF Now, Context
  <2>. QED BY <1>5, <2>1, <2>2
<1>. QED BY <1>1, <1>2, <1>3, <1>4, <1>6, Undone

(* The end of an instance: environment and namespace from before it.         *)
LEMMA RestoreContextStep ==
  ASSUME ContextInv, RestoreContext
  PROVE  ContextInv'
<1>1. /\ agenda # <<>> /\ TaskOK(Task, Len(envs)) /\ Task.do = "restore"
      /\ environment' = Task.environment /\ namespacePath' = Task.path /\ Goes(<<>>)
      /\ UNCHANGED <<envs, hasAnonymousNamespace, loopStack, tables>>
  BY HeadTask DEF RestoreContext, Doing
<1>2. ChainOK(environment', Len(envs)) /\ IsList(namespacePath')
  BY <1>1 DEF TaskOK
<1>3. UNCHANGED <<envs, templates>>
  BY <1>1 DEF tables
<1>4. IsList(loopStack')
  BY <1>1 DEF ContextInv
<1>5. Now' = Context(Task.environment, Task.path, hasAnonymousNamespace, loopStack)
  BY <1>1 DEF Now
<1>6. ASSUME NEW b, Undoes(Task, Now, b) PROVE b = Now'
  <2>1. b = Context(Task.environment, Task.path, Now.anonymous, Now.loops)
    BY <1>1, <1>6 DEF Undoes, Rests, Idle
  <2>2. Now.anonymous = hasAnonymousNamespace /\ Now.loops = loopStack
    BY DEF Now, Context
  <2>. QED BY <1>5, <2>1, <2>2
<1>. QED BY <1>1, <1>2, <1>3, <1>4, <1>6, Undone

(* The end of a namespace: one name less, and the flag from before it.       *)
LEMMA LeaveNamespaceStep ==
  ASSUME ContextInv, LeaveNamespace
  PROVE  ContextInv'
<1>1. /\ agenda # <<>> /\ Task.do = "leaveNamespace"
      /\ namespacePath' = Front(namespacePath) /\ hasAnonymousNamespace' = Task.anonymous
      /\ Goes(<<>>)
      /\ UNCHANGED <<envs, environment, loopStack, tables>>
  BY HeadTask DEF LeaveNamespace, Doing
<1>2. ChainOK(environment', Len(envs)) /\ IsList(loopStack')
  BY <1>1 DEF ContextInv
<1>3. IsList(namespacePath')
  BY <1>1, ListFront DEF ContextInv
<1>4. UNCHANGED <<envs, templates>>
  BY <1>1 DEF tables
<1>5. Now' = Context(environment, Front(namespacePath), Task.anonymous, loopStack)
  BY <1>1 DEF Now
<1>6. ASSUME NEW b, Undoes(Task, Now, b) PROVE b = Now'
  <2>1. b = Context(Now.environment, Front(Now.path), Task.anonymous, Now.loops)
    BY <1>1, <1>6 DEF Undoes, Rests, Idle
  <2>2. Now.environment = environment /\ Now.path = namespacePath /\ Now.loops = loopStack
    BY DEF Now, Context
  <2>. QED BY <1>5, <2>1, <2>2
<1>. QED BY <1>1, <1>2, <1>3, <1>4, <1>6, Undone

(* The end of a loop or label: one record less.                              *)
LEMMA PopLoopStep ==
  ASSUME ContextInv, PopLoop
  PROVE  ContextInv'
<1>1. /\ agenda # <<>> /\ Task.do = "popLoop"
      /\ loopStack' = Front(loopStack) /\ Goes(<<>>)
      /\ UNCHANGED <<envs, environment, namespacePath, hasAnonymousNamespace, tables>>
  BY HeadTask DEF PopLoop, Doing
<1>2. ChainOK(environment', Len(envs)) /\ IsList(namespacePath')
  BY <1>1 DEF ContextInv
<1>3. IsList(loopStack')
  BY <1>1, ListFront DEF ContextInv
<1>4. UNCHANGED <<envs, templates>>
  BY <1>1 DEF tables
<1>5. Now' = Context(environment, namespacePath, hasAnonymousNamespace, Front(loopStack))
  BY <1>1 DEF Now
<1>6. ASSUME NEW b, Undoes(Task, Now, b) PROVE b = Now'
  <2>1. b = Context(Now.environment, Now.path, Now.anonymous, Front(Now.loops))
    BY <1>1, <1>6 DEF Undoes, Rests, Idle
  <2>2. /\ Now.environment = environment /\ Now.path = namespacePath
        /\ Now.anonymous = hasAnonymousNamespace /\ Now.loops = loopStack
    BY DEF Now, Context
  <2>. QED BY <1>5, <2>1, <2>2
<1>. QED BY <1>1, <1>2, <1>3, <1>4, <1>6, Undone

(* A type that is registered is not part of the context.                     *)
LEMMA RegisterTypeStep ==
  ASSUME ContextInv, NEW name, NEW entry, RegisterType(name, entry), agenda # <<>>, Task.do \in Idle
  PROVE  ContextInv'
<1>1. Goes(<<>>) /\ UNCHANGED <<context, templates>>
  BY DEF RegisterType
<1>. QED BY <1>1, NextTaskAlone

(* StructDeclaration: a template, or a type once its fields are resolved.    *)
LEMMA DeclareStructStep ==
  ASSUME ContextInv, DeclareStruct
  PROVE  ContextInv'
<1>1. agenda # <<>> /\ Task.do \in Idle /\ HasParts(Node) /\ Node.k = "struct"
  BY HeadNode DEF DeclareStruct
<1>2. PICK name :
        \/ /\ templates' = With(templates, name, [params |-> Node.tparams, node |-> Node,
                                                  methods |-> <<>>, path |-> None])
           /\ Goes(<<>>)
           /\ UNCHANGED context
        \/ \E types : StructFrom(name, types)
  BY Zenon DEF DeclareStruct
<1>3. CASE \E types : StructFrom(name, types)
  <2>1. \/ \E why : Fail(why)
        \/ \E need : Instantiate(need)
        \/ \E entry : RegisterType(name, entry)
    BY <1>3, Zenon DEF StructFrom, Settle
  <2>. QED BY <1>1, <2>1, FailStays, InstantiateStep, RegisterTypeStep
<1>4. CASE /\ templates' = With(templates, name, [params |-> Node.tparams, node |-> Node,
                                                  methods |-> <<>>, path |-> None])
           /\ Goes(<<>>)
           /\ UNCHANGED context
  <2>1. PICK t : t = [params |-> Node.tparams, node |-> Node, methods |-> <<>>, path |-> None]
    OBVIOUS
  <2>2. /\ DOMAIN t = {"params", "node", "methods", "path"}
        /\ t.node = Node /\ t.methods = <<>> /\ t.path = <<>>
    BY <2>1 DEF None
  <2>3. IsList(<<>>) /\ DOMAIN <<>> = {}
    BY NoTask DEF TasksOK
  <2>5. TemplateOK(t)
    BY <1>1, <2>2, <2>3 DEF TemplateOK
  <2>6. TemplatesOK'
    BY <1>4, <2>1, <2>5, WithTemplate DEF ContextInv
  <2>7. UNCHANGED <<environment, namespacePath, hasAnonymousNamespace, loopStack>> /\ envs' = envs
    BY <1>4 DEF context
  <2>8. IsList(envs') /\ Len(envs') = Len(envs)
    BY <2>7 DEF ContextInv
  <2>. QED BY <1>1, <1>4, <2>6, <2>7, <2>8, NextTask
<1>. QED BY <1>2, <1>3, <1>4

(* EnumDeclaration.                                                          *)
LEMMA DeclareEnumStep ==
  ASSUME ContextInv, DeclareEnum
  PROVE  ContextInv'
<1>1. agenda # <<>> /\ Task.do \in Idle
  BY HeadNode DEF DeclareEnum
<1>2. \E name, entry : RegisterType(name, entry)
  BY Zenon DEF DeclareEnum
<1>. QED BY <1>1, <1>2, RegisterTypeStep

(* UnionDeclaration.                                                         *)
LEMMA DeclareUnionStep ==
  ASSUME ContextInv, DeclareUnion
  PROVE  ContextInv'
<1>1. agenda # <<>> /\ Task.do \in Idle
  BY HeadNode DEF DeclareUnion
<1>2. \E name, payloads : UnionFrom(name, payloads)
  BY Zenon DEF DeclareUnion
<1>3. \/ \E why : Fail(why)
      \/ \E need : Instantiate(need)
      \/ \E name, entry : RegisterType(name, entry)
  BY <1>2, Zenon DEF UnionFrom, Settle
<1>. QED BY <1>1, <1>3, FailStays, InstantiateStep, RegisterTypeStep

(* The push of an instance.                                                  *)
LEMMA PushInstanceStep ==
  ASSUME ContextInv, PushInstance
  PROVE  ContextInv'
<1>1. agenda # <<>> /\ Task.do = "push" /\ Goes(<<>>) /\ UNCHANGED <<context, templates>>
  BY HeadTask DEF PushInstance, Doing
<1>. QED BY <1>1, NextTaskAlone DEF Idle

(* An expression, or the instance it asks for.                               *)
LEMMA ExpressionStep ==
  ASSUME ContextInv, Expression
  PROVE  ContextInv'
<1>1. agenda # <<>> /\ Task.do \in Idle
  BY HeadNode DEF Expression
<1>2. \/ \E why : Fail(why)
      \/ \E need : Instantiate(need)
      \/ Goes(<<>>) /\ UNCHANGED <<context, tables>>
  BY Zenon DEF Expression, Settle
<1>3. CASE Goes(<<>>) /\ UNCHANGED <<context, tables>>
  <2>1. UNCHANGED <<context, templates>>
    BY <1>3 DEF tables
  <2>. QED BY <1>1, <1>3, <2>1, NextTaskAlone
<1>. QED BY <1>2, <1>3, FailStays, InstantiateStep

(* JumpStatement.                                                            *)
LEMMA JumpStep ==
  ASSUME ContextInv, Jump
  PROVE  ContextInv'
<1>1. agenda # <<>> /\ Task.do \in Idle
  BY HeadNode DEF Jump
<1>2. \/ \E why : Fail(why)
      \/ Goes(<<>>) /\ UNCHANGED <<context, tables, calls>>
  BY Zenon DEF Jump
<1>3. CASE Goes(<<>>) /\ UNCHANGED <<context, tables, calls>>
  <2>1. UNCHANGED <<context, templates>>
    BY <1>3 DEF tables
  <2>. QED BY <1>1, <1>3, <2>1, NextTaskAlone
<1>. QED BY <1>2, <1>3, FailStays

(* A node in front of nodes.                                                 *)
LEMMA NodeList ==
  ASSUME NEW n \in Nodes, NEW ns \in Seq(Nodes)
  PROVE  <<n>> \o ns \in Seq(Nodes)
OBVIOUS

(* IfStatement: condition and branches are visited in turn.                  *)
LEMMA IfStep ==
  ASSUME ContextInv, If
  PROVE  ContextInv'
<1>1. agenda # <<>> /\ Task.do \in Idle /\ HasParts(Node) /\ Node.k = "if"
  BY HeadNode DEF If
<1>2. PICK ts : ts = VisitAll(<<Node.condition>> \o Node.branches, Task.scope, Task.sub)
  OBVIOUS
<1>3. TasksOK(ts, Len(envs)) /\ \A i \in DOMAIN ts : Still(ts[i])
  <2>1. Node.condition \in Nodes /\ Node.branches \in Seq(Nodes)
    BY <1>1 DEF HasParts
  <2>2. <<Node.condition>> \o Node.branches \in Seq(Nodes)
    BY <2>1, NodeList
  <2>. QED BY <1>2, <2>2, VisitTasks
<1>4. agenda' = ts \o Rest /\ UNCHANGED <<context, tables>>
  BY <1>2 DEF If, Goes
<1>5. UNCHANGED <<environment, namespacePath, hasAnonymousNamespace, loopStack>> /\ envs' = envs
  BY <1>4 DEF context
<1>6. TemplatesOK' /\ IsList(envs') /\ Len(envs') = Len(envs)
  BY <1>4, <1>5 DEF ContextInv, TemplatesOK, tables
<1>. QED BY <1>1, <1>3, <1>4, <1>5, <1>6, Replaced

(* InspectStatement: its cases are next.                                     *)
LEMMA InspectStep ==
  ASSUME ContextInv, Inspect
  PROVE  ContextInv'
<1>1. agenda # <<>> /\ Task.do \in Idle /\ HasParts(Node) /\ Node.k = "inspect"
  BY HeadNode DEF Inspect
<1>2. \/ \E why : Fail(why)
      \/ \E need : Instantiate(need)
      \/ \E u :
           /\ Goes([i \in DOMAIN Node.cases |->
                      [do |-> "case", case |-> Node.cases[i], scope |-> Task.scope,
                       sub |-> Task.sub, union |-> u]])
           /\ UNCHANGED <<context, tables>>
  BY Zenon DEF Inspect, InspectOf, Settle
<1>3. ASSUME NEW u,
             Goes([i \in DOMAIN Node.cases |->
                     [do |-> "case", case |-> Node.cases[i], scope |-> Task.scope,
                      sub |-> Task.sub, union |-> u]]),
             UNCHANGED <<context, tables>>
      PROVE  ContextInv'
  <2>1. PICK cs : cs = Node.cases
    OBVIOUS
  <2>2. cs \in Seq(ToSet(cs)) /\ \A i \in DOMAIN cs : cs[i].body \in Nodes
    BY <1>1, <2>1 DEF HasParts
  <2>3. PICK m \in Nat : m = Len(cs) /\ DOMAIN cs = 1..m
    BY <2>2
  <2>4. PICK ts : ts = [i \in 1..m |-> [do |-> "case", case |-> cs[i], scope |-> Task.scope,
                                        sub |-> Task.sub, union |-> u]]
    OBVIOUS
  <2>5. IsList(ts) /\ DOMAIN ts = 1..m
    <3>1. ts = [i \in 1..m |-> ts[i]]
      BY <2>4
    <3>. QED BY <2>4, <3>1, ListOfFunction
  <2>6. ASSUME NEW i \in 1..m PROVE TaskOK(ts[i], Len(envs)) /\ Still(ts[i])
    <3>1. ts[i].do = "case" /\ ts[i].case = cs[i]
      BY <2>4
    <3>2. cs[i].body \in Nodes
      BY <2>2, <2>3
    <3>. QED BY <3>1, <3>2 DEF TaskOK, Still, Idle, IsClone
  <2>7. TasksOK(ts, Len(envs)) /\ \A i \in DOMAIN ts : Still(ts[i])
    BY <2>5, <2>6 DEF TasksOK
  <2>8. agenda' = ts \o Rest
    BY <1>3, <2>1, <2>3, <2>4 DEF Goes
  <2>9. UNCHANGED <<environment, namespacePath, hasAnonymousNamespace, loopStack>> /\ envs' = envs
    BY <1>3 DEF context
  <2>10. TemplatesOK' /\ IsList(envs') /\ Len(envs') = Len(envs)
    BY <1>3, <2>9 DEF ContextInv, TemplatesOK, tables
  <2>. QED BY <1>1, <2>7, <2>8, <2>9, <2>10, Replaced
<1>. QED BY <1>2, <1>3, FailStays, InstantiateStep

(* BlockStatement: an environment is opened.                                 *)
LEMMA EnterBlockStep ==
  ASSUME ContextInv, EnterBlock
  PROVE  ContextInv'
<1>1. agenda # <<>> /\ Task.do \in Idle /\ HasParts(Node) /\ Node.k = "block"
  BY HeadNode DEF EnterBlock
<1>2. PICK t : t = [do |-> "leaveBlock", saved |-> environment]
  OBVIOUS
<1>3. t.do \in {"leaveBlock", "leaveFunction"} /\ t.saved = environment
  BY <1>2
<1>4. PICK ts : ts = VisitAll(Node.body, Task.scope, Task.sub)
  OBVIOUS
<1>5. Node.body \in Seq(Nodes)
  BY <1>1 DEF HasParts
<1>6. TasksOK(ts, Len(envs))
  BY <1>4, <1>5, VisitTasks
<1>7. \A i \in DOMAIN ts : Still(ts[i])
  BY <1>4, <1>5, VisitTasks
<1>8. agenda' = (ts \o <<t>>) \o Rest
  BY <1>2, <1>4 DEF EnterBlock, Goes
<1>9. environment' = <<Len(envs) + 1>> \o environment
  BY DEF EnterBlock, Open
<1>10. UNCHANGED <<namespacePath, hasAnonymousNamespace, loopStack, templates>>
  BY DEF EnterBlock, tables
<1>11. IsList(envs') /\ Len(envs') = Len(envs) + 1
  <2>1. envs' = Append(envs, Empty) /\ IsList(envs)
    BY DEF EnterBlock, Open, ContextInv
  <2>. QED BY <2>1, ListAppend
<1>12. agenda # <<>> /\ Task.do \in Idle
  BY <1>1
<1>. QED BY <1>3, <1>6, <1>7, <1>8, <1>9, <1>10, <1>11, <1>12, Opened

(* A case: an environment with the names of the payload.                     *)
LEMMA InspectCaseStep ==
  ASSUME ContextInv, InspectCase
  PROVE  ContextInv'
<1>1. agenda # <<>> /\ TaskOK(Task, Len(envs)) /\ Task.do = "case"
  BY HeadTask DEF InspectCase, Doing
<1>2. \/ \E why : Fail(why)
      \/ \E own : /\ Open(own)
                  /\ Goes(<<Visit(Task.case.body, Task.scope, Task.sub),
                            [do |-> "leaveBlock", saved |-> environment]>>)
                  /\ UNCHANGED <<owner, namespacePath, hasAnonymousNamespace, loopStack, tables, calls>>
  BY Zenon DEF InspectCase
<1>3. ASSUME NEW own, Open(own),
             Goes(<<Visit(Task.case.body, Task.scope, Task.sub),
                    [do |-> "leaveBlock", saved |-> environment]>>),
             UNCHANGED <<owner, namespacePath, hasAnonymousNamespace, loopStack, tables, calls>>
      PROVE  ContextInv'
  <2>1. PICK t : t = [do |-> "leaveBlock", saved |-> environment]
    OBVIOUS
  <2>2. t.do \in {"leaveBlock", "leaveFunction"} /\ t.saved = environment
    BY <2>1
  <2>3. PICK v : v = Visit(Task.case.body, Task.scope, Task.sub)
    OBVIOUS
  <2>4. v.do = "visit" /\ v.node = Task.case.body
    BY <2>3 DEF Visit
  <2>5. HasParts(v.node) /\ ~IsClone(v)
    BY <1>1, <2>4, NodesAssumption DEF TaskOK, IsClone
  <2>6. TaskOK(v, Len(envs)) /\ Still(v)
    BY <2>4, <2>5 DEF TaskOK, Still, Idle
  <2>7. PICK ts : ts = <<v>>
    OBVIOUS
  <2>8. TasksOK(ts, Len(envs))
    BY <2>6, <2>7, OneTask
  <2>9. \A i \in DOMAIN ts : Still(ts[i])
    BY <2>6, <2>7, ListOfOne
  <2>10. agenda' = (ts \o <<t>>) \o Rest
    <3>1. <<v, t>> = <<v>> \o <<t>>
      OBVIOUS
    <3>2. agenda' = <<v, t>> \o Rest
      BY <1>3, <2>1, <2>3 DEF Goes
    <3>. QED BY <2>7, <3>1, <3>2
  <2>11. environment' = <<Len(envs) + 1>> \o environment
    BY <1>3 DEF Open
  <2>12. UNCHANGED <<namespacePath, hasAnonymousNamespace, loopStack, templates>>
    BY <1>3 DEF tables
  <2>13. IsList(envs') /\ Len(envs') = Len(envs) + 1
    <3>1. envs' = Append(envs, own) /\ IsList(envs)
      BY <1>3 DEF Open, ContextInv
    <3>. QED BY <3>1, ListAppend
  <2>14. agenda # <<>> /\ Task.do \in Idle
    BY <1>1 DEF Idle
  <2>. QED BY <2>2, <2>8, <2>9, <2>10, <2>11, <2>12, <2>13, <2>14, Opened
<1>. QED BY <1>2, <1>3, FailStays

(* NamespaceDeclaration: a name more, and the task that takes it away.       *)
LEMMA EnterNamespaceStep ==
  ASSUME ContextInv, EnterNamespace
  PROVE  ContextInv'
<1>1. agenda # <<>> /\ Task.do \in Idle /\ HasParts(Node) /\ Node.k = "namespace"
  BY HeadNode DEF EnterNamespace
<1>2. \/ \E why : Fail(why)
      \/ \E x :
           /\ x = (IF Node.name = None THEN "$anon" ELSE Node.name[1])
           /\ namespacePath' = Append(namespacePath, x)
           /\ Goes(VisitAll(Node.body, Task.scope, Task.sub)
                   \o <<[do |-> "leaveNamespace", anonymous |-> hasAnonymousNamespace]>>)
           /\ UNCHANGED <<envs, environment, owner, loopStack, tables, calls>>
  BY Zenon DEF EnterNamespace
<1>3. ASSUME NEW x, x = (IF Node.name = None THEN "$anon" ELSE Node.name[1]),
             namespacePath' = Append(namespacePath, x),
             Goes(VisitAll(Node.body, Task.scope, Task.sub)
                  \o <<[do |-> "leaveNamespace", anonymous |-> hasAnonymousNamespace]>>),
             UNCHANGED <<envs, environment, owner, loopStack, tables, calls>>
      PROVE  ContextInv'
  <2>4. IsList(Append(namespacePath, x)) /\ Front(Append(namespacePath, x)) = namespacePath
    BY ListAppend DEF ContextInv
  <2>5. PICK t : t = [do |-> "leaveNamespace", anonymous |-> hasAnonymousNamespace]
    OBVIOUS
  <2>6. t.do = "leaveNamespace" /\ t.anonymous = hasAnonymousNamespace
    BY <2>5
  <2>7. TaskOK(t, Len(envs))
    BY <2>6 DEF TaskOK
  <2>8. PICK ts : ts = VisitAll(Node.body, Task.scope, Task.sub)
    OBVIOUS
  <2>9. Node.body \in Seq(Nodes)
    BY <1>1 DEF HasParts
  <2>10. TasksOK(ts, Len(envs)) /\ \A i \in DOMAIN ts : Still(ts[i])
    BY <2>8, <2>9, VisitTasks
  <2>11. agenda' = (ts \o <<t>>) \o Rest
    BY <1>3, <2>5, <2>8 DEF Goes
  <2>12. UNCHANGED <<envs, environment, templates>> /\ loopStack' = loopStack
    BY <1>3 DEF tables
  <2>13. Undoes(t, Now', Now)
    <3>1. PICK b : b = Now'
      OBVIOUS
    <3>2. b.environment = environment /\ b.path = Append(namespacePath, x) /\ b.loops = loopStack
      BY <1>3, <2>12, <3>1 DEF Now, Context
    <3>3. Now = Context(b.environment, Front(b.path), t.anonymous, b.loops)
      BY <2>4, <2>6, <3>2 DEF Now
    <3>4. Undoes(t, b, Now)
      BY <2>6, <3>3 DEF Undoes
    <3>. QED BY <3>1, <3>4
  <2>14. IsList(namespacePath') /\ IsList(loopStack')
    BY <1>3, <2>4, <2>12 DEF ContextInv
  <2>15. UNCHANGED <<envs, environment, templates>>
    BY <2>12
  <2>. QED BY <1>1, <2>7, <2>10, <2>11, <2>13, <2>14, <2>15, Wrapped
<1>. QED BY <1>2, <1>3, FailStays

(* What pushes one record on the stack of loops and pops it.                 *)
LEMMA LoopPushed ==
  ASSUME ContextInv, agenda # <<>>, Task.do \in Idle,
         NEW ts, TasksOK(ts, Len(envs)) /\ \A i \in DOMAIN ts : Still(ts[i]),
         agenda' = (ts \o <<[do |-> "popLoop"]>>) \o Rest,
         NEW x, loopStack' = Append(loopStack, x),
         UNCHANGED <<envs, environment, namespacePath, hasAnonymousNamespace, templates>>
  PROVE  ContextInv'
<1>1. PICK t : t = [do |-> "popLoop"]
  OBVIOUS
<1>2. t.do = "popLoop"
  BY <1>1
<1>3. TaskOK(t, Len(envs))
  BY <1>2 DEF TaskOK
<1>4. IsList(Append(loopStack, x)) /\ Front(Append(loopStack, x)) = loopStack
  BY ListAppend DEF ContextInv
<1>5. Undoes(t, Now', Now)
  <2>1. PICK b : b = Now'
    OBVIOUS
  <2>2. /\ b.environment = environment /\ b.path = namespacePath
        /\ b.anonymous = hasAnonymousNamespace /\ b.loops = Append(loopStack, x)
    BY <2>1 DEF Now, Context
  <2>3. Now = Context(b.environment, b.path, b.anonymous, Front(b.loops))
    BY <1>4, <2>2 DEF Now
  <2>4. Undoes(t, b, Now)
    BY <1>2, <2>3 DEF Undoes
  <2>. QED BY <2>1, <2>4
<1>6. agenda' = (ts \o <<t>>) \o Rest
  BY <1>1
<1>7. IsList(namespacePath') /\ IsList(loopStack')
  BY <1>4 DEF ContextInv
<1>8. UNCHANGED <<envs, environment, templates>>
  OBVIOUS
<1>. QED BY <1>3, <1>5, <1>6, <1>7, <1>8, Wrapped

(* LabelStatement: a record for the loop or block, and the task that pops it. *)
LEMMA LabelStep ==
  ASSUME ContextInv, Label
  PROVE  ContextInv'
<1>1. agenda # <<>> /\ Task.do \in Idle /\ HasParts(Node) /\ Node.k = "label"
  BY HeadNode DEF Label
<1>2. \/ \E why : Fail(why)
      \/ \E x :
           /\ loopStack' = Append(loopStack, x)
           /\ Goes(<<Visit(Node.statement, Task.scope, Task.sub), [do |-> "popLoop"]>>)
           /\ UNCHANGED <<envs, environment, owner, namespacePath, hasAnonymousNamespace, tables, calls>>
  BY Zenon DEF Label
<1>3. ASSUME NEW x, loopStack' = Append(loopStack, x),
             Goes(<<Visit(Node.statement, Task.scope, Task.sub), [do |-> "popLoop"]>>),
             UNCHANGED <<envs, environment, owner, namespacePath, hasAnonymousNamespace, tables, calls>>
      PROVE  ContextInv'
  <2>1. PICK v : v = Visit(Node.statement, Task.scope, Task.sub)
    OBVIOUS
  <2>2. v.do = "visit" /\ v.node = Node.statement
    BY <2>1 DEF Visit
  <2>3. Node.statement \in Nodes
    BY <1>1 DEF HasParts
  <2>4. HasParts(v.node) /\ ~IsClone(v)
    BY <2>2, <2>3, NodesAssumption DEF IsClone
  <2>5. TaskOK(v, Len(envs)) /\ Still(v)
    BY <2>2, <2>4 DEF TaskOK, Still, Idle
  <2>6. PICK ts : ts = <<v>>
    OBVIOUS
  <2>7. TasksOK(ts, Len(envs)) /\ \A i \in DOMAIN ts : Still(ts[i])
    BY <2>5, <2>6, OneTask, ListOfOne
  <2>8. PICK t : t = [do |-> "popLoop"]
    OBVIOUS
  <2>9. agenda' = (ts \o <<t>>) \o Rest
    <3>1. <<v, t>> = <<v>> \o <<t>>
      OBVIOUS
    <3>2. agenda' = <<v, t>> \o Rest
      BY <1>3, <2>1, <2>8 DEF Goes
    <3>. QED BY <2>6, <3>1, <3>2
  <2>10. UNCHANGED <<envs, environment, namespacePath, hasAnonymousNamespace, templates>>
    BY <1>3 DEF tables
  <2>. QED BY <1>1, <1>3, <2>7, <2>8, <2>9, <2>10, LoopPushed
<1>. QED BY <1>2, <1>3, FailStays

(* WhileStatement: a record of its own unless the label has pushed one.      *)
LEMMA WhileStep ==
  ASSUME ContextInv, While
  PROVE  ContextInv'
<1>1. agenda # <<>> /\ Task.do \in Idle /\ HasParts(Node) /\ Node.k = "while"
  BY HeadNode DEF While
<1>2. PICK ts : ts = VisitAll(<<Node.condition, Node.body>>, Task.scope, Task.sub)
  OBVIOUS
<1>3. TasksOK(ts, Len(envs)) /\ \A i \in DOMAIN ts : Still(ts[i])
  <2>1. Node.condition \in Nodes /\ Node.body \in Nodes
    BY <1>1 DEF HasParts
  <2>2. <<Node.condition, Node.body>> \in Seq(Nodes)
    BY <2>1
  <2>. QED BY <1>2, <2>2, VisitTasks
<1>4. UNCHANGED <<envs, environment, namespacePath, hasAnonymousNamespace, templates>>
  BY DEF While, tables
<1>5. \/ /\ \E x : loopStack' = Append(loopStack, x)
         /\ agenda' = (ts \o <<[do |-> "popLoop"]>>) \o Rest
      \/ /\ loopStack' = loopStack
         /\ agenda' = (ts \o <<>>) \o Rest
  BY <1>2, Zenon DEF While, Goes
<1>6. CASE loopStack' = loopStack /\ agenda' = (ts \o <<>>) \o Rest
  <2>1. ts \o <<>> = ts
    BY <1>3 DEF TasksOK, IsList
  <2>2. agenda' = ts \o Rest
    BY <1>6, <2>1
  <2>3. TemplatesOK' /\ IsList(envs') /\ Len(envs') = Len(envs)
    BY <1>4 DEF ContextInv, TemplatesOK
  <2>4. UNCHANGED <<environment, namespacePath, hasAnonymousNamespace, loopStack>>
    BY <1>4, <1>6
  <2>. QED BY <1>1, <1>3, <2>2, <2>3, <2>4, Replaced
<1>7. CASE /\ \E x : loopStack' = Append(loopStack, x)
           /\ agenda' = (ts \o <<[do |-> "popLoop"]>>) \o Rest
  <2>1. PICK x : loopStack' = Append(loopStack, x)
    BY <1>7
  <2>2. agenda' = (ts \o <<[do |-> "popLoop"]>>) \o Rest
    BY <1>7
  <2>. QED BY <1>1, <1>3, <1>4, <2>1, <2>2, LoopPushed
<1>. QED BY <1>5, <1>6, <1>7

-----------------------------------------------------------------------------
(* The invariant holds in every state.                                       *)

(* Every step keeps the invariant.                                           *)
LEMMA ContextNext ==
  ASSUME ContextInv, [Next]_vars
  PROVE  ContextInv'
<1>1. CASE UNCHANGED vars
  <2>1. /\ UNCHANGED <<agenda, templates, environment, namespacePath, hasAnonymousNamespace, loopStack>>
        /\ envs' = envs
    BY <1>1 DEF vars, context, tables
  <2>2. IsList(envs') /\ Len(envs') = Len(envs)
    BY <2>1 DEF ContextInv
  <2>. QED BY <2>1, <2>2, Stays
<1>2. CASE \/ TakeDeclaration \/ DeclareVariable \/ DeclareFunction \/ DeclareSignature
           \/ LeaveFunction \/ DeclareStruct \/ DeclareEnum \/ DeclareUnion
  BY <1>2, TakeDeclarationStep, DeclareVariableStep, DeclareFunctionStep, DeclareSignatureStep,
     LeaveFunctionStep, DeclareStructStep, DeclareEnumStep, DeclareUnionStep
<1>3. CASE \/ EnterNamespace \/ LeaveNamespace \/ PushInstance \/ RestoreContext
           \/ Expression \/ If \/ EnterBlock \/ LeaveBlock
  BY <1>3, EnterNamespaceStep, LeaveNamespaceStep, PushInstanceStep, RestoreContextStep,
     ExpressionStep, IfStep, EnterBlockStep, LeaveFunctionStep
<1>4. CASE Label \/ While \/ PopLoop \/ Jump \/ Inspect \/ InspectCase
  BY <1>4, LabelStep, WhileStep, PopLoopStep, JumpStep, InspectStep, InspectCaseStep
<1>5. CASE Ended
  BY <1>1, <1>5 DEF Ended
<1>6. [Next]_vars
  OBVIOUS
<1>. QED BY <1>1, <1>2, <1>3, <1>4, <1>5, <1>6, Zenon DEF Next

(* What is left to do always undoes what was done.                           *)
THEOREM ContextHeld == Spec => []ContextInv
<1>1. Init => ContextInv
  BY ContextInit
<1>2. ContextInv /\ [Next]_vars => ContextInv'
  BY ContextNext
<1>. QED BY <1>1, <1>2, PTL DEF Spec

(* When nothing is left the context is that of the constructor.              *)
LEMMA RestoredAtRest == ContextInv => ContextRestored
<1>. SUFFICES ASSUME ContextInv, agenda = <<>> PROVE ContextRestored
  BY DEF ContextRestored
<1>1. Now = AtStart
  BY NothingLeads DEF ContextInv
<1>2. /\ Now.environment = environment /\ Now.path = namespacePath
      /\ Now.anonymous = hasAnonymousNamespace /\ Now.loops = loopStack
  BY DEF Now, Context
<1>3. /\ AtStart.environment = <<Global>> /\ AtStart.path = <<>>
      /\ AtStart.anonymous = FALSE /\ AtStart.loops = <<>>
  BY DEF AtStart, Context
<1>. QED BY <1>1, <1>2, <1>3 DEF ContextRestored

(* The leaving tasks before the first restoring one are the ones inside.     *)
LEMMA LeavingIs ==
  ASSUME IsList(agenda)
  PROVE  Leaves(agenda, 0) = Leaving
<1>1. PICK n \in Nat : n = Len(agenda) /\ DOMAIN agenda = 1..n
  BY ListFacts
<1>2. ASSUME NEW i \in Leaves(agenda, 0) PROVE i \in Leaving
  BY <1>1, <1>2 DEF Leaves, Leaving, Inside
<1>3. ASSUME NEW i \in Leaving PROVE i \in Leaves(agenda, 0)
  BY <1>1, <1>3 DEF Leaves, Leaving, Inside
<1>. QED BY <1>2, <1>3

(* The environments in force are those of the leaves that are left.          *)
LEMMA ScopesOwned == ContextInv => ScopesOwn
<1>. SUFFICES ASSUME ContextInv PROVE ScopesOwn
  OBVIOUS
<1>1. IsList(agenda) /\ Leads(agenda, Now, AtStart)
  BY DEF ContextInv, TasksOK
<1>2. AtStart.environment = <<Global>>
  BY DEF AtStart, Context
<1>3. ASSUME NEW i \in DOMAIN agenda, agenda[i].do \in {"leaveBlock", "leaveFunction"}
      PROVE  IsList(agenda[i].saved)
  <2>1. ChainOK(agenda[i].saved, Len(envs))
    BY <1>3 DEF ContextInv, TasksOK, TaskOK
  <2>. QED BY <2>1, Zenon DEF ChainOK, IsList
<1>4. Len(Now.environment) = 1 + Cardinality(Leaves(agenda, 0))
  BY <1>1, <1>2, <1>3, ChainLength
<1>5. Len(environment) = 1 + Cardinality(Leaving)
  <2>1. Now.environment = environment
    BY DEF Now, Context
  <2>2. Leaves(agenda, 0) = Leaving
    BY <1>1, LeavingIs
  <2>. QED BY <1>4, <2>1, <2>2
<1>6. ToSet(environment) \subseteq DOMAIN envs
  <2>1. PICK n \in Nat : n = Len(envs) /\ DOMAIN envs = 1..n
    BY ListFacts DEF ContextInv
  <2>2. environment \in Seq(1..n)
    BY <2>1 DEF ContextInv, ChainOK
  <2>. QED BY <2>1, <2>2 DEF ToSet
<1>7. Last(environment) = Global
  BY DEF ContextInv, ChainOK
<1>. QED BY <1>5, <1>6, <1>7 DEF ScopesOwn

(* In every state what is in force is what the place in the source says; between *)
(* declarations all that was saved and overwritten has its value back.       *)
THEOREM ContextIsKept == Spec => []ContextKept
<1>1. ContextInv => ContextKept
  BY RestoredAtRest, ScopesOwned DEF ContextKept
<1>. QED BY <1>1, ContextHeld, PTL

-----------------------------------------------------------------------------
(* The current struct: the first method task that is left is of it.          *)

OfMethod(t) == t.do \in {"signature", "leaveFunction"} /\ t.struct # None

Innermost(ts, o) ==
  o # None => \E i \in 1..Len(ts) :
                /\ ts[i].do \in {"signature", "leaveFunction"} /\ ts[i].struct = o
                /\ \A j \in 1..(i - 1) : ~OfMethod(ts[j])

Known == owner # None => Has(typeTable, owner)
OwnerInv == Innermost(agenda, owner) /\ Known

(* Tasks of no method in front do not change the innermost method.           *)
LEMMA InnermostInFront ==
  ASSUME NEW ts, IsList(ts), NEW rest, IsList(rest), NEW o, Innermost(rest, o),
         \A i \in DOMAIN ts : ~OfMethod(ts[i])
  PROVE  Innermost(ts \o rest, o)
<1>. SUFFICES ASSUME o # None PROVE Innermost(ts \o rest, o)
  BY DEF Innermost
<1>1. PICK u : u = ts \o rest
  OBVIOUS
<1>2. PICK m \in Nat : m = Len(ts) /\ DOMAIN ts = 1..m
  BY ListFacts
<1>3. PICK n \in Nat : n = Len(rest)
  BY ListFacts
<1>4. Len(u) = m + n /\ (\A i \in 1..m : u[i] = ts[i]) /\ \A i \in 1..n : u[m + i] = rest[i]
  BY <1>1, <1>2, <1>3, ListConcat
<1>5. PICK k \in 1..n : /\ rest[k].do \in {"signature", "leaveFunction"} /\ rest[k].struct = o
                        /\ \A j \in 1..(k - 1) : ~OfMethod(rest[j])
  BY <1>3 DEF Innermost
<1>6. m + k \in 1..(m + n) /\ u[m + k] = rest[k]
  BY <1>4
<1>7. ASSUME NEW j \in 1..((m + k) - 1) PROVE ~OfMethod(u[j])
  <2>1. CASE j <= m
    <3>1. j \in 1..m
      BY <2>1
    <3>. QED BY <1>2, <1>4, <3>1
  <2>2. CASE ~(j <= m)
    <3>1. j - m \in 1..(k - 1) /\ j - m \in 1..n /\ j = m + (j - m)
      BY <2>2
    <3>2. u[j] = rest[j - m]
      BY <1>4, <3>1
    <3>. QED BY <1>5, <3>1, <3>2
  <2>. QED BY <2>1, <2>2
<1>8. Innermost(u, o)
  BY <1>4, <1>5, <1>6, <1>7 DEF Innermost
<1>. QED BY <1>1, <1>8

(* Neither does the end of a task of no method.                              *)
LEMMA InnermostTail ==
  ASSUME NEW ts, IsList(ts), ts # <<>>, NEW o, Innermost(ts, o), ~OfMethod(Head(ts))
  PROVE  Innermost(Tail(ts), o)
<1>. SUFFICES ASSUME o # None PROVE Innermost(Tail(ts), o)
  BY DEF Innermost
<1>1. PICK r : r = Tail(ts)
  OBVIOUS
<1>2. IsList(r) /\ Len(ts) = Len(r) + 1 /\ Head(ts) = ts[1] /\ \A i \in 1..Len(r) : r[i] = ts[i + 1]
  BY <1>1, ListTail
<1>3. PICK n \in Nat : n = Len(r)
  BY <1>2, ListFacts
<1>4. PICK k \in 1..(n + 1) : /\ ts[k].do \in {"signature", "leaveFunction"} /\ ts[k].struct = o
                              /\ \A j \in 1..(k - 1) : ~OfMethod(ts[j])
  BY <1>2, <1>3 DEF Innermost
<1>5. k # 1
  BY <1>2, <1>4 DEF OfMethod
<1>6. k - 1 \in 1..n /\ r[k - 1] = ts[k]
  <2>1. k - 1 \in 1..n /\ (k - 1) + 1 = k
    BY <1>5
  <2>. QED BY <1>2, <1>3, <2>1
<1>7. ASSUME NEW j \in 1..((k - 1) - 1) PROVE ~OfMethod(r[j])
  <2>1. j \in 1..n /\ j + 1 \in 1..(k - 1)
    OBVIOUS
  <2>2. r[j] = ts[j + 1]
    BY <1>2, <1>3, <2>1
  <2>. QED BY <1>4, <2>1, <2>2
<1>8. Innermost(r, o)
  BY <1>3, <1>4, <1>6, <1>7 DEF Innermost
<1>. QED BY <1>1, <1>8

(* A method task at the head is of the current struct, if there is one.      *)
LEMMA InnermostHead ==
  ASSUME NEW ts, IsList(ts), ts # <<>>, NEW o, Innermost(ts, o), OfMethod(Head(ts)), o # None
  PROVE  Head(ts).struct = o
<1>1. Head(ts) = ts[1]
  BY ListTail
<1>2. PICK n \in Nat : n = Len(ts)
  BY ListFacts
<1>3. PICK k \in 1..n : /\ ts[k].do \in {"signature", "leaveFunction"} /\ ts[k].struct = o
                        /\ \A j \in 1..(k - 1) : ~OfMethod(ts[j])
  BY <1>2 DEF Innermost
<1>4. k = 1
  <2>1. k # 1 => 1 \in 1..(k - 1)
    OBVIOUS
  <2>. QED BY <1>1, <1>3, <2>1
<1>. QED BY <1>1, <1>3, <1>4

(* A list whose first task is a method task of o.                            *)
LEMMA InnermostFirst ==
  ASSUME NEW t, t.do \in {"signature", "leaveFunction"}, NEW rest, IsList(rest)
  PROVE  Innermost(<<t>> \o rest, t.struct)
<1>1. PICK u : u = <<t>> \o rest
  OBVIOUS
<1>2. PICK n \in Nat : n = Len(rest)
  BY ListFacts
<1>3. IsList(<<t>>) /\ Len(<<t>>) = 1 /\ <<t>>[1] = t
  BY ListOfOne
<1>4. Len(u) = 1 + n /\ u[1] = t
  BY <1>1, <1>2, <1>3, ListConcat
<1>5. 1 \in 1..(1 + n) /\ \A j \in 1..(1 - 1) : FALSE
  OBVIOUS
<1>6. Innermost(u, t.struct)
  BY <1>4, <1>5 DEF Innermost
<1>. QED BY <1>1, <1>6

-----------------------------------------------------------------------------

Grows == DOMAIN typeTable \subseteq DOMAIN typeTable'

(* No type is ever taken away.                                               *)
LEMMA KnownStays ==
  ASSUME Known, Grows, owner' = owner
  PROVE  Known'
BY DEF Known, Grows, Has

(* Nothing is done.                                                          *)
LEMMA OwnerSame ==
  ASSUME OwnerInv, UNCHANGED <<agenda, owner>>, Grows
  PROVE  OwnerInv'
BY KnownStays DEF OwnerInv

(* Tasks of no method stand in front of the others.                          *)
LEMMA OwnerInFront ==
  ASSUME OwnerInv, IsList(agenda),
         NEW ts, IsList(ts), \A i \in DOMAIN ts : ~OfMethod(ts[i]),
         agenda' = ts \o agenda, owner' = owner, Grows
  PROVE  OwnerInv'
<1>1. Innermost(ts \o agenda, owner)
  BY InnermostInFront DEF OwnerInv
<1>2. Innermost(agenda', owner')
  BY <1>1
<1>. QED BY <1>2, KnownStays DEF OwnerInv

(* They take the place of a head of no method.                               *)
LEMMA OwnerReplaced ==
  ASSUME OwnerInv, IsList(agenda), agenda # <<>>, ~OfMethod(Task),
         NEW ts, IsList(ts), \A i \in DOMAIN ts : ~OfMethod(ts[i]),
         agenda' = ts \o Rest, owner' = owner, Grows
  PROVE  OwnerInv'
<1>1. Innermost(Rest, owner)
  BY InnermostTail DEF OwnerInv, Task, Rest
<1>2. IsList(Rest)
  BY ListTail DEF Rest
<1>3. Innermost(ts \o Rest, owner)
  BY <1>1, <1>2, InnermostInFront
<1>4. Innermost(agenda', owner')
  BY <1>3
<1>. QED BY <1>4, KnownStays DEF OwnerInv

(* A head of no method is done.                                              *)
LEMMA OwnerNextTask ==
  ASSUME OwnerInv, IsList(agenda), agenda # <<>>, ~OfMethod(Task), Goes(<<>>), owner' = owner, Grows
  PROVE  OwnerInv'
<1>1. PICK ts : ts = <<>>
  OBVIOUS
<1>2. IsList(ts) /\ \A i \in DOMAIN ts : ~OfMethod(ts[i])
  <2>1. <<>> \in Seq({}) /\ DOMAIN <<>> = {}
    OBVIOUS
  <2>2. IsList(<<>>)
    BY <2>1, Zenon DEF IsList
  <2>. QED BY <1>1, <2>1, <2>2
<1>3. agenda' = ts \o Rest
  BY <1>1 DEF Goes
<1>. QED BY <1>2, <1>3, OwnerReplaced

(* Visits are of no method.                                                  *)
LEMMA VisitsOfNoMethod ==
  ASSUME NEW nodes \in Seq(Nodes), NEW scope, NEW sub
  PROVE  /\ IsList(VisitAll(nodes, scope, sub))
         /\ \A i \in DOMAIN VisitAll(nodes, scope, sub) : ~OfMethod(VisitAll(nodes, scope, sub)[i])
<1>1. IsList(VisitAll(nodes, scope, sub))
  BY VisitTasks DEF TasksOK
<1>2. PICK m \in Nat : m = Len(nodes) /\ DOMAIN nodes = 1..m
  OBVIOUS
<1>3. PICK v : v = VisitAll(nodes, scope, sub)
  OBVIOUS
<1>4. v = [i \in 1..m |-> Visit(nodes[i], scope, sub)]
  BY <1>2, <1>3 DEF VisitAll
<1>5. \A i \in DOMAIN v : v[i].do = "visit"
  BY <1>4 DEF Visit
<1>6. \A i \in DOMAIN v : ~OfMethod(v[i])
  BY <1>5 DEF OfMethod
<1>. QED BY <1>1, <1>3, <1>6

(* A list of one task, of two, and one with a task behind.                   *)
LEMMA OneOfNoMethod ==
  ASSUME NEW t, ~OfMethod(t)
  PROVE  IsList(<<t>>) /\ \A i \in DOMAIN <<t>> : ~OfMethod(<<t>>[i])
BY ListOfOne

(* Two lists of tasks of no method.                                          *)
LEMMA ConcatOfNoMethod ==
  ASSUME NEW s, IsList(s), \A i \in DOMAIN s : ~OfMethod(s[i]),
         NEW t, IsList(t), \A i \in DOMAIN t : ~OfMethod(t[i])
  PROVE  IsList(s \o t) /\ \A i \in DOMAIN (s \o t) : ~OfMethod((s \o t)[i])
<1>1. PICK u : u = s \o t
  OBVIOUS
<1>2. PICK a \in Nat : a = Len(s) /\ DOMAIN s = 1..a
  BY ListFacts
<1>3. PICK b \in Nat : b = Len(t) /\ DOMAIN t = 1..b
  BY ListFacts
<1>4. IsList(u) /\ Len(u) = a + b /\ (\A i \in 1..a : u[i] = s[i]) /\ \A i \in 1..b : u[a + i] = t[i]
  BY <1>1, <1>2, <1>3, ListConcat
<1>5. DOMAIN u = 1..(a + b)
  BY <1>4, ListFacts
<1>6. ASSUME NEW i \in 1..(a + b) PROVE ~OfMethod(u[i])
  <2>1. CASE i <= a
    <3>1. i \in 1..a
      BY <2>1
    <3>. QED BY <1>2, <1>4, <3>1
  <2>2. CASE ~(i <= a)
    <3>1. i - a \in 1..b /\ i = a + (i - a)
      BY <2>2
    <3>2. u[i] = t[i - a]
      BY <1>4, <3>1
    <3>. QED BY <1>3, <3>1, <3>2
  <2>. QED BY <2>1, <2>2
<1>. QED BY <1>1, <1>4, <1>5, <1>6

(* Lists may be put together in either order.                                *)
LEMMA ListAssociates ==
  ASSUME NEW s, IsList(s), NEW t, IsList(t), NEW u, IsList(u)
  PROVE  (s \o t) \o u = s \o (t \o u)
<1>1. PICK S : s \in Seq(S)
  BY DEF IsList
<1>2. PICK T : t \in Seq(T)
  BY DEF IsList
<1>3. PICK U : u \in Seq(U)
  BY DEF IsList
<1>4. PICK V : V = S \cup T \cup U
  OBVIOUS
<1>5. s \in Seq(V) /\ t \in Seq(V) /\ u \in Seq(V)
  BY <1>1, <1>2, <1>3, <1>4
<1>. QED BY <1>5, ConcatAssociative

(* A refusal.                                                                *)
LEMMA OwnerFail ==
  ASSUME OwnerInv, NEW why, Fail(why)
  PROVE  OwnerInv'
<1>1. UNCHANGED <<agenda, owner>> /\ Grows
  BY DEF Fail, context, tables, Grows
<1>. QED BY <1>1, OwnerSame

(* The tasks of an instance are of no method when they are made; the methods of *)
(* a struct become current one by one when they are visited.                 *)
LEMMA OwnerInstantiate ==
  ASSUME ContextInv, OwnerInv, NEW need, Instantiate(need)
  PROVE  OwnerInv'
<1>1. \/ \E why : Fail(why)
      \/ /\ Has(templates, need.template)
         /\ \E template, name, sub :
              /\ template = templates[need.template]
              /\ agenda' = InstanceTasks(template, name, sub) \o agenda
         /\ RegisterAliases(need.args)
         /\ owner' = owner
  BY Zenon DEF Instantiate
<1>2. CASE /\ Has(templates, need.template)
           /\ \E template, name, sub :
                /\ template = templates[need.template]
                /\ agenda' = InstanceTasks(template, name, sub) \o agenda
           /\ RegisterAliases(need.args)
           /\ owner' = owner
  <2>1. PICK template, name, sub :
          /\ template = templates[need.template]
          /\ agenda' = InstanceTasks(template, name, sub) \o agenda
    BY <1>2
  <2>2. TemplateOK(template)
    BY <1>2, <2>1 DEF ContextInv, TemplatesOK, Has
  <2>3. PICK last : last = [do |-> "restore", environment |-> environment, path |-> namespacePath]
    OBVIOUS
  <2>4. PICK ts : /\ TasksOK(ts, Len(envs)) /\ \A i \in DOMAIN ts : ts[i].do \in {"visit", "push"}
                  /\ InstanceTasks(template, name, sub) = ts \o <<last>>
    <3>1. PICK a : a = Context(<<Global>>, template.path, FALSE, <<>>)
      OBVIOUS
    <3>2. a.environment = <<Global>> /\ a.path = template.path
      BY <3>1 DEF Context
    <3>3. PICK ts : Makes(ts, template, name, sub, Len(envs), a)
      BY <2>2, <3>2, InstanceInFront
    <3>. QED BY <2>3, <3>3 DEF Makes, Builds
  <2>5. IsList(ts) /\ \A i \in DOMAIN ts : ~OfMethod(ts[i])
    BY <2>4 DEF TasksOK, OfMethod
  <2>6. last.do = "restore"
    BY <2>3
  <2>7. IsList(<<last>>) /\ \A i \in DOMAIN <<last>> : ~OfMethod(<<last>>[i])
    BY <2>6, OneOfNoMethod DEF OfMethod
  <2>8. PICK new : new = ts \o <<last>>
    OBVIOUS
  <2>9. IsList(new) /\ \A i \in DOMAIN new : ~OfMethod(new[i])
    BY <2>5, <2>7, <2>8, ConcatOfNoMethod
  <2>10. agenda' = new \o agenda
    BY <2>1, <2>4, <2>8
  <2>11. Grows
    BY <1>2, Zenon DEF RegisterAliases, Grows
  <2>12. IsList(agenda)
    BY DEF ContextInv, TasksOK
  <2>. QED BY <1>2, <2>9, <2>10, <2>11, <2>12, OwnerInFront
<1>. QED BY <1>1, <1>2, OwnerFail

(* Nothing is left when analyze takes a declaration: no struct is current.   *)
LEMMA OwnerTakeDeclaration ==
  ASSUME ContextInv, OwnerInv, TakeDeclaration
  PROVE  OwnerInv'
<1>1. PICK d :
         \/ \E why : Fail(why)
         \/ /\ agenda' = <<Visit(Items[d], "Global", NoSub)>>
            /\ UNCHANGED <<context, tables>>
  BY Zenon DEF TakeDeclaration
<1>2. CASE agenda' = <<Visit(Items[d], "Global", NoSub)>> /\ UNCHANGED <<context, tables>>
  <2>1. agenda = <<>>
    BY DEF TakeDeclaration
  <2>2. Len(<<>>) = 0 /\ 1..0 = {}
    OBVIOUS
  <2>3. owner = None
    BY <2>1, <2>2 DEF OwnerInv, Innermost
  <2>4. owner' = None
    BY <1>2, <2>3 DEF context
  <2>. QED BY <2>4 DEF OwnerInv, Innermost, Known
<1>. QED BY <1>1, <1>2, OwnerFail

(* A visit is of no method.                                                  *)
LEMMA VisitingHead ==
  ASSUME ContextInv, NEW kind, At(kind)
  PROVE  IsList(agenda) /\ agenda # <<>> /\ ~OfMethod(Task) /\ HasParts(Node) /\ Node.k = kind
<1>1. Task.do = "visit" /\ agenda # <<>> /\ HasParts(Node) /\ Node.k = kind
  BY HeadNode DEF At
<1>2. ~OfMethod(Task)
  BY <1>1 DEF OfMethod
<1>. QED BY <1>1, <1>2 DEF ContextInv, TasksOK

(* VariableDeclaration.                                                      *)
LEMMA OwnerDeclareVariable ==
  ASSUME ContextInv, OwnerInv, DeclareVariable
  PROVE  OwnerInv'
<1>1. PICK name, type, values, made : VariableOf(name, type, values, made)
  BY Zenon DEF DeclareVariable, VariableFrom
<1>2. \/ \E why : Fail(why)
      \/ \E need : Instantiate(need)
      \/ Goes(<<>>) /\ UNCHANGED <<owner, tables>>
  BY <1>1, Zenon DEF VariableOf, Settle
<1>3. CASE Goes(<<>>) /\ UNCHANGED <<owner, tables>>
  <2>1. IsList(agenda) /\ agenda # <<>> /\ ~OfMethod(Task)
    BY VisitingHead DEF DeclareVariable
  <2>2. owner' = owner /\ Grows
    BY <1>3 DEF tables, Grows
  <2>. QED BY <1>3, <2>1, <2>2, OwnerNextTask
<1>. QED BY <1>2, <1>3, OwnerFail, OwnerInstantiate

(* FunctionDeclaration: the struct of a method becomes the current one, and the *)
(* method is the innermost.                                                  *)
LEMMA OwnerDeclareFunction ==
  ASSUME ContextInv, OwnerInv, DeclareFunction
  PROVE  OwnerInv'
<1>1. IsList(agenda) /\ agenda # <<>> /\ ~OfMethod(Task)
  BY VisitingHead DEF DeclareFunction
<1>2. \/ \E why : Fail(why)
      \/ Goes(<<>>) /\ UNCHANGED <<context, typeTable>>
      \/ \E name, struct :
            /\ struct = None \/ Has(typeTable, struct)
            /\ owner' = IF struct # None THEN struct ELSE owner
            /\ Goes(<<[do |-> "signature", node |-> Node, name |-> name, struct |-> struct,
                       sub |-> Task.sub]>>)
            /\ UNCHANGED tables
  BY Zenon DEF DeclareFunction, tables
<1>3. CASE Goes(<<>>) /\ UNCHANGED <<context, typeTable>>
  <2>1. owner' = owner /\ Grows
    BY <1>3 DEF context, Grows
  <2>. QED BY <1>1, <1>3, <2>1, OwnerNextTask
<1>4. ASSUME NEW name, NEW struct, struct = None \/ Has(typeTable, struct),
             owner' = IF struct # None THEN struct ELSE owner,
             Goes(<<[do |-> "signature", node |-> Node, name |-> name, struct |-> struct, sub |-> Task.sub]>>),
             UNCHANGED tables
      PROVE  OwnerInv'
  <2>1. PICK t : t = [do |-> "signature", node |-> Node, name |-> name, struct |-> struct, sub |-> Task.sub]
    OBVIOUS
  <2>2. t.do = "signature" /\ t.struct = struct
    BY <2>1
  <2>3. agenda' = <<t>> \o Rest
    BY <1>4, <2>1 DEF Goes
  <2>4. Grows
    BY <1>4 DEF tables, Grows
  <2>5. CASE struct = None
    <3>1. ~OfMethod(t)
      BY <2>2, <2>5 DEF OfMethod
    <3>2. IsList(<<t>>) /\ \A i \in DOMAIN <<t>> : ~OfMethod(<<t>>[i])
      BY <3>1, OneOfNoMethod
    <3>3. owner' = owner
      BY <1>4, <2>5
    <3>4. PICK ts : ts = <<t>>
      OBVIOUS
    <3>. QED BY <1>1, <2>3, <2>4, <3>2, <3>3, <3>4, OwnerReplaced
  <2>6. CASE struct # None
    <3>1. IsList(Rest)
      BY <1>1, ListTail DEF Rest
    <3>2. Innermost(<<t>> \o Rest, t.struct)
      BY <2>2, <3>1, InnermostFirst
    <3>3. owner' = struct /\ Has(typeTable, struct)
      BY <1>4, <2>6
    <3>4. Innermost(agenda', owner')
      BY <2>2, <2>3, <3>2, <3>3
    <3>5. Known'
      BY <2>4, <3>3 DEF Known, Grows, Has
    <3>. QED BY <3>4, <3>5 DEF OwnerInv
  <2>. QED BY <2>5, <2>6
<1>. QED BY <1>2, <1>3, <1>4, OwnerFail

(* The signature gives way to the body and the end of the method.            *)
LEMMA OwnerDeclareSignature ==
  ASSUME ContextInv, OwnerInv, DeclareSignature
  PROVE  OwnerInv'
<1>1. agenda # <<>> /\ TaskOK(Task, Len(envs)) /\ Task.do = "signature" /\ IsList(agenda)
  BY HeadTask DEF DeclareSignature, Doing, ContextInv, TasksOK
<1>2. Node.body \in Seq(Nodes)
  BY <1>1 DEF TaskOK, Node, HasParts
<1>3. PICK result, users : Signature(result, users)
  BY Zenon DEF DeclareSignature
<1>4. \/ \E why : Fail(why)
      \/ \E need : Instantiate(need)
      \/ \E fn : Declare(users, fn)
  BY <1>3, Zenon DEF Signature, Settle
<1>5. ASSUME NEW fn, Declare(users, fn) PROVE OwnerInv'
  <2>1. PICK t : t = [do |-> "leaveFunction", saved |-> environment, struct |-> Task.struct]
    OBVIOUS
  <2>2. t.do = "leaveFunction" /\ t.struct = Task.struct
    BY <2>1
  <2>3. PICK ts : ts = VisitAll(Node.body, "Local", Task.sub)
    OBVIOUS
  <2>4. IsList(ts) /\ \A i \in DOMAIN ts : ~OfMethod(ts[i])
    BY <1>2, <2>3, VisitsOfNoMethod
  <2>5. agenda' = (ts \o <<t>>) \o Rest /\ owner' = owner
    BY <1>5, <2>1, <2>3, Zenon DEF Declare, Goes
  <2>6. Grows
    BY <1>5 DEF Declare, Grows
  <2>7. IsList(<<t>>) /\ IsList(Rest)
    BY <1>1, ListOfOne, ListTail DEF Rest
  <2>8. CASE Task.struct = None
    <3>1. ~OfMethod(t) /\ ~OfMethod(Task)
      BY <2>2, <2>8 DEF OfMethod
    <3>2. IsList(<<t>>) /\ \A i \in DOMAIN <<t>> : ~OfMethod(<<t>>[i])
      BY <3>1, OneOfNoMethod
    <3>3. PICK new : new = ts \o <<t>>
      OBVIOUS
    <3>4. IsList(new) /\ \A i \in DOMAIN new : ~OfMethod(new[i])
      BY <2>4, <3>2, <3>3, ConcatOfNoMethod
    <3>5. agenda' = new \o Rest /\ owner' = owner
      BY <2>5, <3>3
    <3>. QED BY <1>1, <2>6, <3>1, <3>4, <3>5, OwnerReplaced
  <2>9. CASE Task.struct # None
    <3>1. OfMethod(Head(agenda))
      BY <1>1, <2>9 DEF OfMethod, Task
    <3>2. owner # None => t.struct = owner
      BY <1>1, <2>2, <3>1, InnermostHead DEF OwnerInv, Task
    <3>3. Innermost(<<t>> \o Rest, t.struct)
      BY <2>2, <2>7, InnermostFirst
    <3>4. Innermost(<<t>> \o Rest, owner)
      <4>1. CASE owner = None
        BY <4>1 DEF Innermost
      <4>2. CASE owner # None
        BY <3>2, <3>3, <4>2
      <4>. QED BY <4>1, <4>2
    <3>5. IsList(<<t>> \o Rest)
      BY <2>7, ListConcat
    <3>6. Innermost(ts \o (<<t>> \o Rest), owner)
      BY <2>4, <3>4, <3>5, InnermostInFront
    <3>7. (ts \o <<t>>) \o Rest = ts \o (<<t>> \o Rest)
      BY <2>4, <2>7, ListAssociates
    <3>8. Innermost(agenda', owner')
      BY <2>5, <3>6, <3>7
    <3>. QED BY <2>5, <2>6, <3>8, KnownStays DEF OwnerInv
  <2>. QED BY <2>8, <2>9
<1>. QED BY <1>4, <1>5, OwnerFail, OwnerInstantiate

(* The end of a method: there is no current struct.                          *)
LEMMA OwnerLeaveFunction ==
  ASSUME ContextInv, OwnerInv, LeaveFunction
  PROVE  OwnerInv'
<1>1. /\ agenda # <<>> /\ IsList(agenda) /\ Task.do = "leaveFunction"
      /\ owner' = (IF Task.struct # None THEN None ELSE owner) /\ Goes(<<>>) /\ UNCHANGED tables
  BY HeadTask DEF LeaveFunction, Doing, ContextInv, TasksOK
<1>2. CASE Task.struct # None
  <2>1. owner' = None
    BY <1>1, <1>2
  <2>. QED BY <2>1 DEF OwnerInv, Innermost, Known
<1>3. CASE Task.struct = None
  <2>1. ~OfMethod(Task) /\ owner' = owner /\ Grows
    BY <1>1, <1>3 DEF OfMethod, tables, Grows
  <2>. QED BY <1>1, <2>1, OwnerNextTask
<1>. QED BY <1>2, <1>3

(* The other tasks that end something, and the push of an instance.          *)
LEMMA OwnerEnds ==
  ASSUME ContextInv, OwnerInv,
         LeaveBlock \/ LeaveNamespace \/ PopLoop \/ RestoreContext \/ PushInstance
  PROVE  OwnerInv'
<1>1. /\ agenda # <<>> /\ IsList(agenda)
      /\ Task.do \in {"leaveBlock", "leaveNamespace", "popLoop", "restore", "push"}
      /\ Goes(<<>>) /\ owner' = owner /\ typeTable' = typeTable
  BY HeadTask DEF LeaveBlock, LeaveNamespace, PopLoop, RestoreContext, PushInstance,
     Doing, context, tables, ContextInv, TasksOK
<1>2. ~OfMethod(Task) /\ Grows
  BY <1>1 DEF OfMethod, Grows
<1>. QED BY <1>1, <1>2, OwnerNextTask

(* A type is registered.                                                     *)
LEMMA OwnerRegisters ==
  ASSUME ContextInv, OwnerInv, IsList(agenda), agenda # <<>>, ~OfMethod(Task),
         NEW name, NEW entry, RegisterType(name, entry)
  PROVE  OwnerInv'
<1>1. typeTable' = With(typeTable, name, entry) /\ Goes(<<>>) /\ owner' = owner
  BY DEF RegisterType, context
<1>2. Grows
  BY <1>1 DEF With, Grows
<1>. QED BY <1>1, <1>2, OwnerNextTask

(* The declarations of types.                                                *)
LEMMA OwnerDeclareType ==
  ASSUME ContextInv, OwnerInv, DeclareStruct \/ DeclareEnum \/ DeclareUnion
  PROVE  OwnerInv'
<1>1. IsList(agenda) /\ agenda # <<>> /\ ~OfMethod(Task)
  BY VisitingHead DEF DeclareStruct, DeclareEnum, DeclareUnion
<1>2. CASE DeclareStruct
  <2>1. \/ Goes(<<>>) /\ UNCHANGED <<context, typeTable>>
        \/ \E name, types : StructFrom(name, types)
    BY <1>2, Zenon DEF DeclareStruct
  <2>2. CASE Goes(<<>>) /\ UNCHANGED <<context, typeTable>>
    <3>1. owner' = owner /\ Grows
      BY <2>2 DEF context, Grows
    <3>. QED BY <1>1, <2>2, <3>1, OwnerNextTask
  <2>3. CASE \E name, types : StructFrom(name, types)
    <3>1. \/ \E why : Fail(why)
          \/ \E need : Instantiate(need)
          \/ \E name, entry : RegisterType(name, entry)
      BY <2>3, Zenon DEF StructFrom, Settle
    <3>. QED BY <1>1, <3>1, OwnerFail, OwnerInstantiate, OwnerRegisters
  <2>. QED BY <2>1, <2>2, <2>3
<1>3. CASE DeclareEnum
  <2>1. \E name, entry : RegisterType(name, entry)
    BY <1>3, Zenon DEF DeclareEnum
  <2>. QED BY <1>1, <2>1, OwnerRegisters
<1>4. CASE DeclareUnion
  <2>1. \E name, payloads : UnionFrom(name, payloads)
    BY <1>4, Zenon DEF DeclareUnion
  <2>2. \/ \E why : Fail(why)
        \/ \E need : Instantiate(need)
        \/ \E name, entry : RegisterType(name, entry)
    BY <2>1, Zenon DEF UnionFrom, Settle
  <2>. QED BY <1>1, <2>2, OwnerFail, OwnerInstantiate, OwnerRegisters
<1>. QED BY <1>2, <1>3, <1>4

(* Expressions and jumps.                                                    *)
LEMMA OwnerExpression ==
  ASSUME ContextInv, OwnerInv, Expression \/ Jump
  PROVE  OwnerInv'
<1>1. IsList(agenda) /\ agenda # <<>> /\ ~OfMethod(Task)
  BY VisitingHead DEF Expression, Jump
<1>2. \/ \E why : Fail(why)
      \/ \E need : Instantiate(need)
      \/ Goes(<<>>) /\ UNCHANGED <<context, tables>>
  BY Zenon DEF Expression, Jump, Settle
<1>3. CASE Goes(<<>>) /\ UNCHANGED <<context, tables>>
  <2>1. owner' = owner /\ Grows
    BY <1>3 DEF context, tables, Grows
  <2>. QED BY <1>1, <1>3, <2>1, OwnerNextTask
<1>. QED BY <1>2, <1>3, OwnerFail, OwnerInstantiate

(* Visits with a task behind them that is of no method.                      *)
LEMMA OwnerVisits ==
  ASSUME OwnerInv, IsList(agenda), agenda # <<>>, ~OfMethod(Task),
         NEW nodes \in Seq(Nodes), NEW scope, NEW sub, NEW t, ~OfMethod(t),
         \/ agenda' = VisitAll(nodes, scope, sub) \o Rest
         \/ agenda' = (VisitAll(nodes, scope, sub) \o <<t>>) \o Rest,
         owner' = owner, typeTable' = typeTable
  PROVE  OwnerInv'
<1>1. PICK ts : ts = VisitAll(nodes, scope, sub)
  OBVIOUS
<1>2. IsList(ts) /\ \A i \in DOMAIN ts : ~OfMethod(ts[i])
  BY <1>1, VisitsOfNoMethod
<1>3. PICK new : new = ts \o <<t>>
  OBVIOUS
<1>4. IsList(<<t>>) /\ \A i \in DOMAIN <<t>> : ~OfMethod(<<t>>[i])
  BY OneOfNoMethod
<1>5. IsList(new) /\ \A i \in DOMAIN new : ~OfMethod(new[i])
  BY <1>2, <1>3, <1>4, ConcatOfNoMethod
<1>6. agenda' = ts \o Rest \/ agenda' = new \o Rest
  BY <1>1, <1>3
<1>7. Grows
  BY DEF Grows
<1>. QED BY <1>2, <1>5, <1>6, <1>7, OwnerReplaced

(* Statements that are visits, with or without something at the end.         *)
LEMMA OwnerStatements ==
  ASSUME ContextInv, OwnerInv, If \/ EnterBlock \/ While
  PROVE  OwnerInv'
<1>1. IsList(agenda) /\ agenda # <<>> /\ ~OfMethod(Task) /\ HasParts(Node)
  BY VisitingHead DEF If, EnterBlock, While
<1>2. owner' = owner /\ typeTable' = typeTable
  BY DEF If, EnterBlock, While, context, tables
<1>3. CASE If
  <2>1. Node.condition \in Nodes /\ Node.branches \in Seq(Nodes)
    BY <1>1, <1>3 DEF HasParts, If, At
  <2>2. <<Node.condition>> \o Node.branches \in Seq(Nodes)
    BY <2>1, NodeList
  <2>3. agenda' = VisitAll(<<Node.condition>> \o Node.branches, Task.scope, Task.sub) \o Rest
    BY <1>3, Zenon DEF If, Goes
  <2>. QED BY <1>1, <1>2, <2>2, <2>3, OwnerVisits
<1>4. CASE EnterBlock
  <2>1. Node.body \in Seq(Nodes)
    BY <1>1, <1>4 DEF HasParts, EnterBlock, At
  <2>2. PICK t : t = [do |-> "leaveBlock", saved |-> environment]
    OBVIOUS
  <2>3. ~OfMethod(t)
    <3>1. t.do = "leaveBlock"
      BY <2>2
    <3>. QED BY <3>1 DEF OfMethod
  <2>4. agenda' = (VisitAll(Node.body, Task.scope, Task.sub) \o <<t>>) \o Rest
    BY <1>4, <2>2, Zenon DEF EnterBlock, Goes
  <2>. QED BY <1>1, <1>2, <2>1, <2>3, <2>4, OwnerVisits
<1>5. CASE While
  <2>1. Node.condition \in Nodes /\ Node.body \in Nodes
    BY <1>1, <1>5 DEF HasParts, While, At
  <2>2. PICK ns \in Seq(Nodes) : ns = <<Node.condition, Node.body>>
    <3>1. <<Node.condition, Node.body>> \in Seq(Nodes)
      BY <2>1
    <3>. QED BY <3>1, Zenon
  <2>3. PICK t : t = [do |-> "popLoop"]
    OBVIOUS
  <2>4. ~OfMethod(t)
    <3>1. t.do = "popLoop"
      BY <2>3
    <3>. QED BY <3>1 DEF OfMethod
  <2>5. PICK ts : ts = VisitAll(ns, Task.scope, Task.sub)
    OBVIOUS
  <2>6. \/ agenda' = (ts \o <<>>) \o Rest
        \/ agenda' = (ts \o <<t>>) \o Rest
    BY <1>5, <2>2, <2>3, <2>5, Zenon DEF While, Goes
  <2>7. ts \o <<>> = ts
    <3>1. IsList(ts)
      BY <2>5, VisitsOfNoMethod
    <3>. QED BY <3>1 DEF IsList
  <2>8. \/ agenda' = VisitAll(ns, Task.scope, Task.sub) \o Rest
        \/ agenda' = (VisitAll(ns, Task.scope, Task.sub) \o <<t>>) \o Rest
    BY <2>5, <2>6, <2>7
  <2>. QED BY <1>1, <1>2, <2>4, <2>8, OwnerVisits
<1>. QED BY <1>3, <1>4, <1>5

(* NamespaceDeclaration.                                                     *)
LEMMA OwnerEnterNamespace ==
  ASSUME ContextInv, OwnerInv, EnterNamespace
  PROVE  OwnerInv'
<1>1. IsList(agenda) /\ agenda # <<>> /\ ~OfMethod(Task) /\ HasParts(Node) /\ Node.k = "namespace"
  BY VisitingHead DEF EnterNamespace
<1>2. \/ \E why : Fail(why)
      \/ /\ Goes(VisitAll(Node.body, Task.scope, Task.sub)
                 \o <<[do |-> "leaveNamespace", anonymous |-> hasAnonymousNamespace]>>)
         /\ UNCHANGED <<owner, tables>>
  BY Zenon DEF EnterNamespace
<1>3. CASE /\ Goes(VisitAll(Node.body, Task.scope, Task.sub)
                   \o <<[do |-> "leaveNamespace", anonymous |-> hasAnonymousNamespace]>>)
           /\ UNCHANGED <<owner, tables>>
  <2>1. PICK t : t = [do |-> "leaveNamespace", anonymous |-> hasAnonymousNamespace]
    OBVIOUS
  <2>2. ~OfMethod(t)
    <3>1. t.do = "leaveNamespace"
      BY <2>1
    <3>. QED BY <3>1 DEF OfMethod
  <2>3. Node.body \in Seq(Nodes)
    BY <1>1 DEF HasParts
  <2>4. agenda' = (VisitAll(Node.body, Task.scope, Task.sub) \o <<t>>) \o Rest
    BY <1>3, <2>1 DEF Goes
  <2>5. owner' = owner /\ typeTable' = typeTable
    BY <1>3 DEF tables
  <2>. QED BY <1>1, <2>2, <2>3, <2>4, <2>5, OwnerVisits
<1>. QED BY <1>2, <1>3, OwnerFail

(* A visit and a task behind it.                                             *)
LEMMA OwnerVisit ==
  ASSUME OwnerInv, IsList(agenda), agenda # <<>>, ~OfMethod(Task),
         NEW node, NEW scope, NEW sub, NEW t, ~OfMethod(t),
         Goes(<<Visit(node, scope, sub), t>>), owner' = owner, typeTable' = typeTable
  PROVE  OwnerInv'
<1>1. PICK v : v = Visit(node, scope, sub)
  OBVIOUS
<1>2. ~OfMethod(v)
  <2>1. v.do = "visit"
    BY <1>1 DEF Visit
  <2>. QED BY <2>1 DEF OfMethod
<1>3. PICK ts : ts = <<v>> \o <<t>>
  OBVIOUS
<1>4. IsList(ts) /\ \A i \in DOMAIN ts : ~OfMethod(ts[i])
  <2>1. IsList(<<v>>) /\ \A i \in DOMAIN <<v>> : ~OfMethod(<<v>>[i])
    BY <1>2, OneOfNoMethod
  <2>2. IsList(<<t>>) /\ \A i \in DOMAIN <<t>> : ~OfMethod(<<t>>[i])
    BY OneOfNoMethod
  <2>. QED BY <1>3, <2>1, <2>2, ConcatOfNoMethod
<1>5. agenda' = ts \o Rest
  <2>1. <<v, t>> = <<v>> \o <<t>>
    OBVIOUS
  <2>. QED BY <1>1, <1>3, <2>1 DEF Goes
<1>6. Grows
  BY DEF Grows
<1>. QED BY <1>4, <1>5, <1>6, OwnerReplaced

(* LabelStatement.                                                           *)
LEMMA OwnerLabel ==
  ASSUME ContextInv, OwnerInv, Label
  PROVE  OwnerInv'
<1>1. IsList(agenda) /\ agenda # <<>> /\ ~OfMethod(Task)
  BY VisitingHead DEF Label
<1>2. \/ \E why : Fail(why)
      \/ /\ Goes(<<Visit(Node.statement, Task.scope, Task.sub), [do |-> "popLoop"]>>)
         /\ UNCHANGED <<owner, tables>>
  BY Zenon DEF Label
<1>3. CASE /\ Goes(<<Visit(Node.statement, Task.scope, Task.sub), [do |-> "popLoop"]>>)
           /\ UNCHANGED <<owner, tables>>
  <2>1. PICK t : t = [do |-> "popLoop"]
    OBVIOUS
  <2>2. ~OfMethod(t)
    <3>1. t.do = "popLoop"
      BY <2>1
    <3>. QED BY <3>1 DEF OfMethod
  <2>3. Goes(<<Visit(Node.statement, Task.scope, Task.sub), t>>)
    BY <1>3, <2>1
  <2>4. owner' = owner /\ typeTable' = typeTable
    BY <1>3 DEF tables
  <2>. QED BY <1>1, <2>2, <2>3, <2>4, OwnerVisit
<1>. QED BY <1>2, <1>3, OwnerFail

(* A case.                                                                   *)
LEMMA OwnerInspectCase ==
  ASSUME ContextInv, OwnerInv, InspectCase
  PROVE  OwnerInv'
<1>1. /\ agenda # <<>> /\ IsList(agenda) /\ Task.do = "case"
  BY HeadTask DEF InspectCase, Doing, ContextInv, TasksOK
<1>2. ~OfMethod(Task)
  BY <1>1 DEF OfMethod
<1>3. \/ \E why : Fail(why)
      \/ /\ Goes(<<Visit(Task.case.body, Task.scope, Task.sub),
                   [do |-> "leaveBlock", saved |-> environment]>>)
         /\ UNCHANGED <<owner, tables>>
  BY Zenon DEF InspectCase
<1>4. CASE /\ Goes(<<Visit(Task.case.body, Task.scope, Task.sub),
                     [do |-> "leaveBlock", saved |-> environment]>>)
           /\ UNCHANGED <<owner, tables>>
  <2>1. PICK t : t = [do |-> "leaveBlock", saved |-> environment]
    OBVIOUS
  <2>2. ~OfMethod(t)
    <3>1. t.do = "leaveBlock"
      BY <2>1
    <3>. QED BY <3>1 DEF OfMethod
  <2>3. Goes(<<Visit(Task.case.body, Task.scope, Task.sub), t>>)
    BY <1>4, <2>1
  <2>4. owner' = owner /\ typeTable' = typeTable
    BY <1>4 DEF tables
  <2>. QED BY <1>1, <1>2, <2>2, <2>3, <2>4, OwnerVisit
<1>. QED BY <1>3, <1>4, OwnerFail

(* InspectStatement.                                                         *)
LEMMA OwnerInspect ==
  ASSUME ContextInv, OwnerInv, Inspect
  PROVE  OwnerInv'
<1>1. IsList(agenda) /\ agenda # <<>> /\ ~OfMethod(Task) /\ HasParts(Node) /\ Node.k = "inspect"
  BY VisitingHead DEF Inspect
<1>2. \/ \E why : Fail(why)
      \/ \E need : Instantiate(need)
      \/ \E u :
           /\ Goes([i \in DOMAIN Node.cases |->
                      [do |-> "case", case |-> Node.cases[i], scope |-> Task.scope,
                       sub |-> Task.sub, union |-> u]])
           /\ UNCHANGED <<context, tables>>
  BY Zenon DEF Inspect, InspectOf, Settle
<1>3. ASSUME NEW u,
             Goes([i \in DOMAIN Node.cases |->
                     [do |-> "case", case |-> Node.cases[i], scope |-> Task.scope,
                      sub |-> Task.sub, union |-> u]]),
             UNCHANGED <<context, tables>>
      PROVE  OwnerInv'
  <2>1. PICK cs : cs = Node.cases
    OBVIOUS
  <2>2. cs \in Seq(ToSet(cs))
    BY <1>1, <2>1 DEF HasParts
  <2>3. PICK m \in Nat : m = Len(cs) /\ DOMAIN cs = 1..m
    BY <2>2
  <2>4. PICK ts : ts = [i \in 1..m |-> [do |-> "case", case |-> cs[i], scope |-> Task.scope,
                                        sub |-> Task.sub, union |-> u]]
    OBVIOUS
  <2>5. IsList(ts) /\ DOMAIN ts = 1..m
    <3>1. ts = [i \in 1..m |-> ts[i]]
      BY <2>4
    <3>. QED BY <2>4, <3>1, ListOfFunction
  <2>6. \A i \in DOMAIN ts : ~OfMethod(ts[i])
    <3>1. \A i \in 1..m : ts[i].do = "case"
      BY <2>4
    <3>. QED BY <2>5, <3>1 DEF OfMethod
  <2>7. agenda' = ts \o Rest
    BY <1>3, <2>1, <2>3, <2>4 DEF Goes
  <2>8. owner' = owner /\ Grows
    BY <1>3 DEF context, tables, Grows
  <2>. QED BY <1>1, <2>5, <2>6, <2>7, <2>8, OwnerReplaced
<1>. QED BY <1>2, <1>3, OwnerFail, OwnerInstantiate

(* Every step keeps the second invariant.                                    *)
LEMMA OwnerNext ==
  ASSUME ContextInv, OwnerInv, [Next]_vars
  PROVE  OwnerInv'
<1>1. CASE UNCHANGED vars
  <2>1. UNCHANGED <<agenda, owner>> /\ Grows
    BY <1>1 DEF vars, context, tables, Grows
  <2>. QED BY <2>1, OwnerSame
<1>2. CASE \/ TakeDeclaration \/ DeclareVariable \/ DeclareFunction \/ DeclareSignature
           \/ LeaveFunction \/ DeclareStruct \/ DeclareEnum \/ DeclareUnion
  BY <1>2, OwnerTakeDeclaration, OwnerDeclareVariable, OwnerDeclareFunction, OwnerDeclareSignature,
     OwnerLeaveFunction, OwnerDeclareType
<1>3. CASE \/ EnterNamespace \/ LeaveNamespace \/ PushInstance \/ RestoreContext
           \/ Expression \/ If \/ EnterBlock \/ LeaveBlock
  BY <1>3, OwnerEnterNamespace, OwnerEnds, OwnerExpression, OwnerStatements
<1>4. CASE Label \/ While \/ PopLoop \/ Jump \/ Inspect \/ InspectCase
  BY <1>4, OwnerLabel, OwnerStatements, OwnerEnds, OwnerExpression, OwnerInspect, OwnerInspectCase
<1>5. CASE Ended
  BY <1>1, <1>5 DEF Ended
<1>6. [Next]_vars
  OBVIOUS
<1>. QED BY <1>1, <1>2, <1>3, <1>4, <1>5, <1>6, Zenon DEF Next

(* At first there is no current struct.                                      *)
LEMMA OwnerInit == Init => OwnerInv
<1>1. Init => owner = None
  BY Zenon DEF Init
<1>. QED BY <1>1 DEF OwnerInv, Innermost, Known

(* The two invariants give the property.                                     *)
LEMMA OwnerOf == ContextInv /\ OwnerInv => OwnerPending
<1>. SUFFICES ASSUME ContextInv, OwnerInv, owner # None PROVE OwnerPending
  BY DEF OwnerPending
<1>1. Has(typeTable, owner)
  BY DEF OwnerInv, Known
<1>2. PICK n : n = Len(agenda) /\ DOMAIN agenda = 1..n
  BY ListFacts DEF ContextInv, TasksOK
<1>3. PICK i \in 1..n : /\ agenda[i].do \in {"signature", "leaveFunction"} /\ agenda[i].struct = owner
                        /\ \A j \in 1..(i - 1) : ~OfMethod(agenda[j])
  BY <1>2 DEF OwnerInv, Innermost
<1>. QED BY <1>1, <1>2, <1>3 DEF OwnerPending, OfMethod

(* In every state the current struct is that of the innermost method whose visit *)
(* is not over: nobody else has access to its private members.               *)
THEOREM OwnerIsPending == Spec => []OwnerPending
<1>1. Init => ContextInv /\ OwnerInv
  BY ContextInit, OwnerInit
<1>2. ContextInv /\ OwnerInv /\ [Next]_vars => (ContextInv /\ OwnerInv)'
  BY ContextNext, OwnerNext
<1>3. ContextInv /\ OwnerInv => OwnerPending
  BY OwnerOf
<1>. QED BY <1>1, <1>2, <1>3, PTL DEF Spec

-----------------------------------------------------------------------------
(* An instance that is complete is known under its name: a struct as a type, *)
(* a function in the global environment.                                     *)

Registered(n) == Has(typeTable, n) \/ Has(envs[Global], n)

(* No environment has a name without records.                                *)
FilledEnv(e) == \A n \in DOMAIN e : IsList(e[n]) /\ e[n] # <<>>
Filled == \A k \in DOMAIN envs : FilledEnv(envs[k])

Complete ==
  \A i \in DOMAIN astRoot :
    astRoot[i].method = 0 /\ astRoot[i].name # None => Registered(astRoot[i].name)

(* The task is the declaration of the clone, or the rest of it: when it is   *)
(* done the instance n is registered.                                        *)
Building(t, n) ==
  \/ /\ t.do = "visit" /\ t.scope = "Global" /\ t.node.k \in {"function", "struct"}
     /\ t.node.instance = n /\ t.node.tparams = <<>>
  \/ t.do = "signature" /\ t.node.instance = n /\ t.name = n /\ t.struct = None

(* An instance that is still to be pushed is registered, or its declaration  *)
(* comes just before.                                                        *)
Pending(ts) ==
  \A i \in DOMAIN ts :
    PushesWhole(ts[i]) /\ ts[i].name # None =>
      Registered(ts[i].name) \/ (i > 1 /\ Building(ts[i - 1], ts[i].name))

InstanceInv == IsList(astRoot) /\ Filled /\ Complete /\ Pending(agenda)

(* What the property says of a step.                                         *)
Once == \A i \in DOMAIN astRoot : astRoot[i].method = 0 => ~Begins(astRoot[i].name)

(* Nothing that is registered is ever forgotten.                             *)
Remembers == Grows /\ DOMAIN envs[Global] \subseteq DOMAIN envs'[Global]

LEMMA StaysRegistered ==
  ASSUME Remembers
  PROVE  \A n : Registered(n) => Registered(n)'
BY DEF Remembers, Grows, Registered, Has

LEMMA StaysComplete ==
  ASSUME Complete, Remembers, astRoot' = astRoot
  PROVE  Complete'
<1>1. \A n : Registered(n) => Registered(n)'
  BY StaysRegistered
<1>. QED BY <1>1 DEF Complete

(* A set of numbers up to n has a least one.                                 *)
LEMMA LeastOf ==
  ASSUME NEW n \in Nat, NEW I, I \subseteq 1..n, I # {}
  PROVE  Min(I) \in I
<1>. DEFINE S == {k \in 0..n : (\E i \in I : i <= k) => \E m \in I : \A j \in I : m <= j}
<1>1. 0 \in S
  OBVIOUS
<1>2. ASSUME NEW k \in 0..(n - 1), k \in S PROVE k + 1 \in S
  <2>1. CASE \E i \in I : i <= k
    BY <1>2, <2>1
  <2>2. CASE ~\E i \in I : i <= k
    <3>1. \A j \in I : j \in Nat /\ k + 1 <= j
      BY <2>2
    <3>2. ASSUME NEW i \in I, i <= k + 1 PROVE \A j \in I : i <= j
      BY <3>1, <3>2
    <3>. QED BY <3>2
  <2>. QED BY <2>1, <2>2
<1>3. \A k \in 0..n : k \in S
  <2>. HIDE DEF S
  <2>. QED BY <1>1, <1>2, InductionUpTo
<1>4. PICK i : i \in I
  OBVIOUS
<1>5. i <= n /\ n \in 0..n
  BY <1>4
<1>6. \E m \in I : \A j \in I : m <= j
  BY <1>3, <1>4, <1>5
<1>. QED BY <1>6 DEF Min

(* What is in the global environment is found from every environment.        *)
LEMMA FoundFromAnywhere ==
  ASSUME ContextInv, Filled, NEW n, Registered(n)
  PROVE  Exists(n)
<1>1. CASE Has(typeTable, n)
  BY <1>1 DEF Exists
<1>2. CASE Has(envs[Global], n)
  <2>1. PICK m \in Nat : m = Len(environment) /\ m >= 1 /\ environment[m] = Global
    <3>1. environment \in Seq(1..Len(envs)) /\ environment # <<>> /\ environment[Len(environment)] = Global
      BY DEF ContextInv, ChainOK, Last
    <3>. QED BY <3>1, EmptySeq
  <2>2. PICK I : I = {i \in 1..m : Has(envs[environment[i]], n)}
    OBVIOUS
  <2>3. m \in I /\ I \subseteq 1..m
    BY <1>2, <2>1, <2>2
  <2>4. Min(I) \in I
    BY <2>3, LeastOf
  <2>5. Holder(n) = Min(I)
    BY <2>1, <2>2, <2>3 DEF Holder, SelectInSeq
  <2>6. PICK k \in 1..m : k = Holder(n) /\ Has(envs[environment[k]], n)
    BY <2>2, <2>4, <2>5
  <2>7. environment[k] \in DOMAIN envs
    <3>1. environment \in Seq(1..Len(envs)) /\ IsList(envs)
      BY DEF ContextInv, ChainOK
    <3>2. environment[k] \in 1..Len(envs)
      BY <2>1, <3>1
    <3>. QED BY <3>1, <3>2, ListFacts
  <2>8. envs[environment[k]][n] # <<>>
    BY <2>6, <2>7 DEF Filled, FilledEnv, Has
  <2>9. Records(n) = envs[environment[k]][n]
    BY <2>6 DEF Records
  <2>. QED BY <2>8, <2>9 DEF Exists
<1>. QED BY <1>1, <1>2 DEF Registered

-----------------------------------------------------------------------------
(* Steps that begin no instance. *)

(* A task that pushes no instance and does not visit the clone of one.       *)
Plain(t) == ~PushesWhole(t) /\ ~(t.do = "visit" /\ IsClone(t))

(* When nothing is added to the agenda nothing is begun.                     *)
LEMMA NotLonger ==
  ASSUME ~(Len(agenda') > Len(agenda))
  PROVE  Once
BY DEF Once, Begins

(* The agenda is left alone.                                                 *)
LEMMA InstanceSame ==
  ASSUME ContextInv, InstanceInv, UNCHANGED <<agenda, astRoot>>, Remembers, Filled'
  PROVE  InstanceInv' /\ Once
<1>1. Pending(agenda)'
  <2>1. \A n : Registered(n) => Registered(n)'
    BY StaysRegistered
  <2>2. agenda' = agenda
    OBVIOUS
  <2>. QED BY <2>1, <2>2 DEF InstanceInv, Pending
<1>2. Complete' /\ IsList(astRoot')
  BY StaysComplete DEF InstanceInv
<1>3. Len(agenda) \in Nat
  BY ListFacts DEF ContextInv, TasksOK
<1>4. ~(Len(agenda') > Len(agenda))
  BY <1>3
<1>. QED BY <1>1, <1>2, <1>4, NotLonger DEF InstanceInv

(* Nothing at all is done.                                                   *)
LEMMA InstanceStutters ==
  ASSUME ContextInv, InstanceInv, UNCHANGED <<agenda, astRoot, envs, typeTable>>
  PROVE  InstanceInv' /\ Once
<1>1. Remembers
  BY DEF Remembers, Grows
<1>2. Filled'
  BY DEF InstanceInv, Filled, FilledEnv
<1>. QED BY <1>1, <1>2, InstanceSame

(* A refusal.                                                                *)
LEMMA InstanceFail ==
  ASSUME ContextInv, InstanceInv, NEW why, Fail(why)
  PROVE  InstanceInv' /\ Once
<1>1. UNCHANGED <<agenda, astRoot, envs, typeTable>>
  BY DEF Fail, context, tables
<1>. QED BY <1>1, InstanceStutters

(* Plain tasks take the place of the head.  If the head was to register an   *)
(* instance, it has done so or leaves that to the last of them.              *)
LEMMA InstanceReplaced ==
  ASSUME ContextInv, InstanceInv, agenda # <<>>,
         NEW ts, IsList(ts), \A i \in DOMAIN ts : Plain(ts[i]),
         agenda' = ts \o Rest, astRoot' = astRoot, Remembers, Filled',
         \A n : n # None /\ Building(Task, n) =>
                  Registered(n)' \/ (ts # <<>> /\ Building(ts[Len(ts)], n))
  PROVE  InstanceInv' /\ Once
<1>1. IsList(agenda)
  BY DEF ContextInv, TasksOK
<1>2. PICK r : r = Rest
  OBVIOUS
<1>3. IsList(r) /\ Len(agenda) = Len(r) + 1 /\ Task = agenda[1] /\ \A i \in 1..Len(r) : r[i] = agenda[i + 1]
  BY <1>1, <1>2, ListTail DEF Rest, Task
<1>4. PICK a \in Nat : a = Len(ts) /\ DOMAIN ts = 1..a
  BY ListFacts
<1>5. PICK b \in Nat : b = Len(r) /\ DOMAIN r = 1..b
  BY <1>3, ListFacts
<1>6. PICK u : u = ts \o r
  OBVIOUS
<1>7. IsList(u) /\ Len(u) = a + b /\ (\A i \in 1..a : u[i] = ts[i]) /\ \A i \in 1..b : u[a + i] = r[i]
  BY <1>3, <1>4, <1>5, <1>6, ListConcat
<1>8. DOMAIN u = 1..(a + b) /\ DOMAIN agenda = 1..(b + 1)
  BY <1>1, <1>3, <1>5, <1>7, ListFacts
<1>9. \A n : Registered(n) => Registered(n)'
  BY StaysRegistered
<1>10. ASSUME NEW i \in 1..(a + b), PushesWhole(u[i]), u[i].name # None
       PROVE  Registered(u[i].name)' \/ (i > 1 /\ Building(u[i - 1], u[i].name))
  <2>1. i \notin 1..a
    BY <1>4, <1>7, <1>10 DEF Plain
  <2>2. PICK j \in 1..b : i = a + j
    <3>1. i - a \in 1..b /\ i = a + (i - a)
      BY <2>1
    <3>. QED BY <3>1
  <2>3. u[i] = agenda[j + 1] /\ j + 1 \in DOMAIN agenda /\ (j + 1) - 1 = j
    BY <1>3, <1>5, <1>7, <1>8, <2>2
  <2>4. Registered(u[i].name) \/ Building(agenda[j], u[i].name)
    BY <1>10, <2>3 DEF InstanceInv, Pending
  <2>5. CASE Registered(u[i].name)
    BY <1>9, <2>5
  <2>6. CASE Building(agenda[j], u[i].name) /\ j = 1
    <3>1. Registered(u[i].name)' \/ (ts # <<>> /\ Building(ts[a], u[i].name))
      BY <1>3, <1>4, <1>10, <2>6
    <3>2. ASSUME ts # <<>>, Building(ts[a], u[i].name) PROVE i > 1 /\ Building(u[i - 1], u[i].name)
      <4>1. a >= 1
        BY <1>4, <3>2, ListTail, ListFacts
      <4>2. a \in 1..a /\ i - 1 = a /\ i > 1
        BY <2>2, <2>6, <4>1
      <4>. QED BY <1>7, <3>2, <4>2
    <3>. QED BY <3>1, <3>2
  <2>7. CASE Building(agenda[j], u[i].name) /\ j # 1
    <3>1. j - 1 \in 1..b /\ (j - 1) + 1 = j /\ i - 1 = a + (j - 1) /\ i > 1
      BY <2>2, <2>7
    <3>2. u[i - 1] = agenda[j]
      BY <1>3, <1>5, <1>7, <3>1
    <3>. QED BY <2>7, <3>1, <3>2
  <2>. QED BY <2>4, <2>5, <2>6, <2>7
<1>11. agenda' = u
  BY <1>2, <1>6
<1>12. Pending(agenda)'
  BY <1>8, <1>10, <1>11 DEF Pending
<1>13. Complete' /\ IsList(astRoot')
  BY StaysComplete DEF InstanceInv
<1>14. ASSUME NEW n PROVE ~Begins(n)
  <2>1. CASE a = 0
    <3>1. ~(Len(agenda') > Len(agenda))
      BY <1>3, <1>5, <1>7, <1>11, <2>1
    <3>. QED BY <3>1 DEF Begins
  <2>2. CASE a # 0
    <3>1. 1 \in 1..a /\ u # <<>>
      BY <1>7, <2>2
    <3>2. Head(u) = ts[1]
      BY <1>7, <3>1, ListTail
    <3>3. Plain(ts[1])
      BY <1>4, <3>1
    <3>. QED BY <1>11, <3>2, <3>3 DEF Begins, Plain, IsClone
  <2>. QED BY <2>1, <2>2
<1>. QED BY <1>12, <1>13, <1>14 DEF InstanceInv, Once

(* The head is done, and registers nothing or has done so.                   *)
LEMMA InstanceNextTask ==
  ASSUME ContextInv, InstanceInv, agenda # <<>>, Goes(<<>>), astRoot' = astRoot, Remembers, Filled',
         \A n : n # None /\ Building(Task, n) => Registered(n)'
  PROVE  InstanceInv' /\ Once
<1>1. PICK ts : ts = <<>>
  OBVIOUS
<1>2. IsList(ts) /\ \A i \in DOMAIN ts : Plain(ts[i])
  <2>1. <<>> \in Seq({}) /\ DOMAIN <<>> = {}
    OBVIOUS
  <2>2. IsList(<<>>)
    BY <2>1, Zenon DEF IsList
  <2>. QED BY <1>1, <2>1, <2>2
<1>3. agenda' = ts \o Rest
  BY <1>1 DEF Goes
<1>. QED BY <1>2, <1>3, InstanceReplaced

-----------------------------------------------------------------------------
(* What is defined, and in which environments. *)

(* The environments are left alone.                                          *)
LEMMA EnvsKept ==
  ASSUME InstanceInv, envs' = envs, Grows
  PROVE  Remembers /\ Filled'
BY DEF InstanceInv, Remembers, Filled, FilledEnv

(* The environment of the constructor is there.                              *)
LEMMA GlobalThere ==
  ASSUME ContextInv
  PROVE  Global \in DOMAIN envs
<1>1. DOMAIN envs = 1..Len(envs) /\ Len(envs) \in Nat /\ Len(envs) >= 1
  BY ListFacts DEF ContextInv
<1>. QED BY <1>1 DEF Global

(* One more record under a name.                                             *)
LEMMA WithRecordFilled ==
  ASSUME NEW e, FilledEnv(e), NEW name, NEW record
  PROVE  /\ FilledEnv(WithRecord(e, name, record))
         /\ DOMAIN WithRecord(e, name, record) = DOMAIN e \cup {name}
<1>1. PICK old : old = IF Has(e, name) THEN e[name] ELSE <<>>
  OBVIOUS
<1>2. IsList(old)
  <2>1. <<>> \in Seq({})
    OBVIOUS
  <2>2. IsList(<<>>)
    BY <2>1, Zenon DEF IsList
  <2>. QED BY <1>1, <2>2 DEF FilledEnv, Has
<1>3. PICK list : list = Append(old, record)
  OBVIOUS
<1>4. IsList(list) /\ list # <<>>
  <2>1. Len(old) \in Nat /\ Len(list) = Len(old) + 1 /\ IsList(list)
    BY <1>2, <1>3, ListAppend, ListFacts
  <2>2. Len(<<>>) = 0
    OBVIOUS
  <2>. QED BY <2>1, <2>2
<1>5. PICK f : f = WithRecord(e, name, record)
  OBVIOUS
<1>6. f = [y \in DOMAIN e \cup {name} |-> IF y = name THEN list ELSE e[y]]
  BY <1>1, <1>3, <1>5, Zenon DEF WithRecord, With
<1>7. DOMAIN f = DOMAIN e \cup {name} /\ \A n \in DOMAIN f : f[n] = IF n = name THEN list ELSE e[n]
  BY <1>6
<1>8. FilledEnv(f)
  BY <1>4, <1>7 DEF FilledEnv
<1>. QED BY <1>5, <1>7, <1>8

(* define: one more record in the current environment.                       *)
LEMMA RecordAdded ==
  ASSUME ContextInv, InstanceInv, NEW name, NEW record,
         NEW d, d = [envs EXCEPT ![environment[1]] = WithRecord(@, name, record)]
  PROVE  /\ IsList(d) /\ Len(d) = Len(envs)
         /\ \A k \in DOMAIN d : FilledEnv(d[k])
         /\ DOMAIN envs[Global] \subseteq DOMAIN d[Global]
         /\ environment = <<Global>> => Has(d[Global], name)
<1>1. IsList(d) /\ Len(d) = Len(envs)
  <2>1. IsList(envs)
    BY DEF ContextInv
  <2>2. PICK v : v = WithRecord(envs[environment[1]], name, record)
    OBVIOUS
  <2>3. d = [envs EXCEPT ![environment[1]] = v]
    BY <2>2
  <2>4. PICK k : k = environment[1]
    OBVIOUS
  <2>5. d = [envs EXCEPT ![k] = v]
    BY <2>3, <2>4
  <2>6. IsList([envs EXCEPT ![k] = v]) /\ Len([envs EXCEPT ![k] = v]) = Len(envs)
    BY <2>1, ListExcept
  <2>. QED BY <2>5, <2>6
<1>2. DOMAIN d = DOMAIN envs /\ \A k \in DOMAIN envs :
        d[k] = IF k = environment[1] THEN WithRecord(envs[k], name, record) ELSE envs[k]
  OBVIOUS
<1>3. \A k \in DOMAIN envs : FilledEnv(envs[k])
  BY DEF InstanceInv, Filled
<1>4. ASSUME NEW k \in DOMAIN envs
      PROVE  /\ FilledEnv(d[k]) /\ DOMAIN envs[k] \subseteq DOMAIN d[k]
             /\ k = environment[1] => name \in DOMAIN d[k]
  <2>1. PICK e : e = envs[k] /\ FilledEnv(e)
    BY <1>3
  <2>2. PICK f : f = WithRecord(e, name, record)
    OBVIOUS
  <2>3. FilledEnv(f) /\ DOMAIN f = DOMAIN e \cup {name}
    BY <2>1, <2>2, WithRecordFilled
  <2>4. d[k] = IF k = environment[1] THEN f ELSE e
    BY <1>2, <2>1, <2>2
  <2>. QED BY <2>1, <2>3, <2>4
<1>5. Global \in DOMAIN envs
  BY GlobalThere
<1>6. ASSUME environment = <<Global>> PROVE Has(d[Global], name)
  <2>1. environment[1] = Global
    BY <1>6
  <2>. QED BY <1>4, <1>5, <2>1 DEF Has
<1>. QED BY <1>1, <1>2, <1>4, <1>5, <1>6

(* An environment is added.                                                  *)
LEMMA EnvironmentAdded ==
  ASSUME NEW d, IsList(d), Len(d) >= 1, \A k \in DOMAIN d : FilledEnv(d[k]),
         NEW own, FilledEnv(own), NEW e, e = Append(d, own)
  PROVE  (\A k \in DOMAIN e : FilledEnv(e[k])) /\ e[Global] = d[Global]
<1>1. PICK m \in Nat : m = Len(d) /\ DOMAIN d = 1..m /\ m >= 1
  BY ListFacts
<1>2. PICK S : d \in Seq(S)
  BY DEF IsList
<1>3. d \in Seq(S \cup {own}) /\ own \in S \cup {own}
  BY <1>2
<1>4. e \in Seq(S \cup {own}) /\ Len(e) = m + 1 /\ (\A k \in 1..m : e[k] = d[k]) /\ e[m + 1] = own
  BY <1>1, <1>3
<1>5. DOMAIN e = 1..(m + 1)
  BY <1>4
<1>6. ASSUME NEW k \in 1..(m + 1) PROVE FilledEnv(e[k])
  <2>1. k \in 1..m \/ k = m + 1
    OBVIOUS
  <2>. QED BY <1>1, <1>4, <2>1
<1>. QED BY <1>1, <1>4, <1>5, <1>6 DEF Global

(* The symbols of a function's own environment have one record each.         *)
LEMMA OwnFilled ==
  ASSUME NEW users
  PROVE  FilledEnv(OwnSymbols(users))
<1>. DEFINE named == [i \in DOMAIN users |-> <<Node.params[i].name>>]
            record(n) == Variable(users[CHOOSE i \in DOMAIN users : named[i] = n].q)
            this == <<Variable(Qual(Pointer(Qual(Declared("struct", Task.struct)))))>>
            own == [n \in ToSet(named) |-> <<record(n)>>]
<1>1. \A x : IsList(<<x>>) /\ <<x>> # <<>>
  BY ListOfOne
<1>2. PICK f : f = own
  OBVIOUS
<1>3. FilledEnv(f)
  BY <1>1, <1>2 DEF FilledEnv
<1>4. PICK t : t = this
  OBVIOUS
<1>5. IsList(t) /\ t # <<>>
  BY <1>1, <1>4
<1>6. PICK g : g = With(f, <<"this">>, t)
  OBVIOUS
<1>7. FilledEnv(g)
  BY <1>3, <1>5, <1>6 DEF With, FilledEnv
<1>8. OwnSymbols(users) = f \/ OwnSymbols(users) = g
  BY <1>2, <1>4, <1>6, Zenon DEF OwnSymbols
<1>. QED BY <1>3, <1>7, <1>8

-----------------------------------------------------------------------------
(* Every action registers what it should, and only Instantiate begins.       *)

(* An instance is made when it is not registered: the clone is visited first, *)
(* and its push is the next task.                                            *)
LEMMA InstanceMade ==
  ASSUME ContextInv, InstanceInv,
         NEW template, TemplateOK(template), NEW name, NEW sub, ~Exists(name),
         agenda' = InstanceTasks(template, name, sub) \o agenda,
         UNCHANGED <<astRoot, envs>>, Grows
  PROVE  InstanceInv' /\ Once
<1>1. IsList(agenda)
  BY DEF ContextInv, TasksOK
<1>2. PICK a : a = Context(<<Global>>, template.path, FALSE, <<>>)
  OBVIOUS
<1>3. a.environment = <<Global>> /\ a.path = template.path
  BY <1>2 DEF Context
<1>4. PICK ts : Makes(ts, template, name, sub, Len(envs), a)
  BY <1>3, InstanceInFront
<1>5. PICK last : last = [do |-> "restore", environment |-> environment, path |-> namespacePath]
  OBVIOUS
<1>6. last.do = "restore"
  BY <1>5
<1>7. PICK new : new = ts \o <<last>>
  OBVIOUS
<1>8. PICK u : u = new \o agenda
  OBVIOUS
<1>9. agenda' = u
  BY <1>4, <1>5, <1>7, <1>8 DEF Makes
<1>10. PICK m \in Nat : m = Len(ts) /\ DOMAIN ts = 1..m /\ m >= 2 /\ IsList(ts)
  BY <1>4, ListFacts DEF Makes, TasksOK
<1>11. IsList(<<last>>) /\ Len(<<last>>) = 1 /\ <<last>>[1] = last
  BY ListOfOne
<1>12. IsList(new) /\ Len(new) = m + 1 /\ (\A i \in 1..m : new[i] = ts[i]) /\ new[m + 1] = last
  <2>1. /\ IsList(new) /\ Len(new) = m + 1 /\ (\A i \in 1..m : new[i] = ts[i])
        /\ \A i \in 1..1 : new[m + i] = <<last>>[i]
    BY <1>7, <1>10, <1>11, ListConcat
  <2>. QED BY <1>11, <2>1
<1>13. PICK b \in Nat : b = Len(agenda) /\ DOMAIN agenda = 1..b
  BY <1>1, ListFacts
<1>14. /\ IsList(u) /\ Len(u) = (m + 1) + b
       /\ (\A i \in 1..(m + 1) : u[i] = new[i]) /\ \A i \in 1..b : u[(m + 1) + i] = agenda[i]
  <2>1. PICK k : k = m + 1
    OBVIOUS
  <2>2. IsList(new) /\ Len(new) = k
    BY <1>12, <2>1
  <2>3. /\ IsList(u) /\ Len(u) = Len(new) + Len(agenda)
        /\ (\A i \in 1..Len(new) : u[i] = new[i]) /\ \A i \in 1..Len(agenda) : u[Len(new) + i] = agenda[i]
    BY <1>1, <1>8, <2>2, ListConcat
  <2>. QED BY <1>13, <2>1, <2>2, <2>3
<1>15. DOMAIN u = 1..((m + 1) + b)
  BY <1>14, ListFacts
<1>16. PICK c : c = Clone(template, name) /\ c.k \in {"function", "struct"} /\ c.instance = name /\ c.tparams = <<>>
  BY CloneNamed DEF TemplateOK
<1>17. u[1].do = "visit" /\ u[1].scope = "Global" /\ u[1].node = c /\ u[2].name = name
  <2>1. u[1] = ts[1] /\ u[2] = ts[2]
    BY <1>10, <1>12, <1>14
  <2>. QED BY <1>4, <1>16, <2>1 DEF Makes, Visit
<1>18. Remembers /\ Filled'
  BY EnvsKept
<1>19. \A n : Registered(n) => Registered(n)'
  BY <1>18, StaysRegistered
<1>20. ASSUME NEW i \in 1..((m + 1) + b), PushesWhole(u[i]), u[i].name # None
       PROVE  Registered(u[i].name)' \/ (i > 1 /\ Building(u[i - 1], u[i].name))
  <2>1. CASE i \in 1..m
    <3>1. u[i] = ts[i]
      BY <1>12, <1>14, <2>1
    <3>2. i = 2
      BY <1>4, <1>10, <1>20, <2>1, <3>1 DEF Makes
    <3>. QED BY <1>16, <1>17, <3>2 DEF Building
  <2>2. CASE i = m + 1
    <3>1. u[i] = last
      BY <1>12, <1>14, <2>2
    <3>. QED BY <1>6, <1>20, <3>1 DEF PushesWhole
  <2>3. CASE i \notin 1..(m + 1)
    <3>1. PICK j \in 1..b : i = (m + 1) + j
      <4>1. i - (m + 1) \in 1..b /\ i = (m + 1) + (i - (m + 1))
        BY <2>3
      <4>. QED BY <4>1
    <3>2. u[i] = agenda[j]
      BY <1>14, <3>1
    <3>3. Registered(u[i].name) \/ (j > 1 /\ Building(agenda[j - 1], u[i].name))
      BY <1>13, <1>20, <3>2 DEF InstanceInv, Pending
    <3>4. ASSUME j > 1 PROVE i > 1 /\ u[i - 1] = agenda[j - 1]
      <4>1. j - 1 \in 1..b /\ i - 1 = (m + 1) + (j - 1) /\ i > 1
        BY <3>1, <3>4
      <4>. QED BY <1>14, <4>1
    <3>. QED BY <1>19, <3>3, <3>4
  <2>. QED BY <2>1, <2>2, <2>3
<1>21. Pending(agenda)'
  BY <1>9, <1>15, <1>20 DEF Pending
<1>22. Complete' /\ IsList(astRoot')
  BY <1>18, StaysComplete DEF InstanceInv
<1>23. ASSUME NEW i \in DOMAIN astRoot, astRoot[i].method = 0 PROVE ~Begins(astRoot[i].name)
  <2>. SUFFICES ASSUME Begins(astRoot[i].name) PROVE FALSE
    OBVIOUS
  <2>1. Head(u) = u[1]
    <3>1. u # <<>>
      BY <1>14
    <3>. QED BY <1>14, <3>1, ListTail
  <2>2. name = astRoot[i].name /\ name # None
    BY <1>9, <1>16, <1>17, <2>1 DEF Begins
  <2>3. Registered(name)
    BY <1>23, <2>2 DEF InstanceInv, Complete
  <2>. QED BY <2>3, FoundFromAnywhere DEF InstanceInv
<1>. QED BY <1>18, <1>21, <1>22, <1>23 DEF InstanceInv, Once

(* instantiate_template.                                                     *)
LEMMA InstanceInstantiate ==
  ASSUME ContextInv, InstanceInv, NEW need, Instantiate(need)
  PROVE  InstanceInv' /\ Once
<1>1. \/ \E why : Fail(why)
      \/ /\ Has(templates, need.template)
         /\ \E template, name, sub :
              /\ template = templates[need.template] /\ ~Exists(name)
              /\ agenda' = InstanceTasks(template, name, sub) \o agenda
         /\ RegisterAliases(need.args)
         /\ UNCHANGED <<astRoot, envs>>
  BY Zenon DEF Instantiate
<1>2. CASE /\ Has(templates, need.template)
           /\ \E template, name, sub :
                /\ template = templates[need.template] /\ ~Exists(name)
                /\ agenda' = InstanceTasks(template, name, sub) \o agenda
           /\ RegisterAliases(need.args)
           /\ UNCHANGED <<astRoot, envs>>
  <2>1. PICK template, name, sub :
          /\ template = templates[need.template] /\ ~Exists(name)
          /\ agenda' = InstanceTasks(template, name, sub) \o agenda
    BY <1>2
  <2>2. TemplateOK(template)
    BY <1>2, <2>1 DEF ContextInv, TemplatesOK, Has
  <2>3. Grows
    BY <1>2, Zenon DEF RegisterAliases, Grows
  <2>. QED BY <1>2, <2>1, <2>2, <2>3, InstanceMade
<1>. QED BY <1>1, <1>2, InstanceFail

(* analyze takes a declaration of the source, which is no instance.          *)
LEMMA InstanceTakeDeclaration ==
  ASSUME ContextInv, InstanceInv, TakeDeclaration
  PROVE  InstanceInv' /\ Once
<1>1. PICK d \in DOMAIN Items :
         \/ \E why : Fail(why)
         \/ /\ agenda' = <<Visit(Items[d], "Global", NoSub)>>
            /\ UNCHANGED <<context, tables>>
  BY Zenon DEF TakeDeclaration
<1>2. CASE agenda' = <<Visit(Items[d], "Global", NoSub)>> /\ UNCHANGED <<context, tables>>
  <2>1. PICK t : t = Visit(Items[d], "Global", NoSub)
    OBVIOUS
  <2>2. t.do = "visit" /\ t.node = Items[d]
    BY <2>1 DEF Visit
  <2>3. UNCHANGED <<envs, astRoot>> /\ Grows
    BY <1>2 DEF context, tables, Grows
  <2>4. Remembers /\ Filled'
    BY <2>3, EnvsKept
  <2>5. Complete' /\ IsList(astRoot')
    BY <2>3, <2>4, StaysComplete DEF InstanceInv
  <2>6. DOMAIN <<t>> = 1..1 /\ <<t>>[1] = t /\ Head(<<t>>) = t
    OBVIOUS
  <2>7. \A i \in 1..1 : i = 1
    OBVIOUS
  <2>8. agenda' = <<t>>
    BY <1>2, <2>1
  <2>9. Pending(agenda)'
    BY <2>2, <2>6, <2>7, <2>8 DEF Pending, PushesWhole
  <2>10. Once
    BY <2>2, <2>6, <2>8, NodesAssumption DEF Once, Begins
  <2>. QED BY <2>4, <2>5, <2>9, <2>10 DEF InstanceInv
<1>. QED BY <1>1, <1>2, InstanceFail

(* The push of an instance that is complete, or of one of its methods.       *)
LEMMA InstancePush ==
  ASSUME ContextInv, InstanceInv, PushInstance
  PROVE  InstanceInv' /\ Once
<1>1. /\ agenda # <<>> /\ IsList(agenda) /\ Task.do = "push" /\ Goes(<<>>)
      /\ astRoot' = Append(astRoot, [name |-> Task.name, method |-> Task.method])
      /\ envs' = envs /\ typeTable' = typeTable
  BY HeadTask DEF PushInstance, Doing, context, ContextInv, TasksOK
<1>2. PICK r : r = Rest
  OBVIOUS
<1>3. IsList(r) /\ Len(agenda) = Len(r) + 1 /\ Task = agenda[1] /\ \A i \in 1..Len(r) : r[i] = agenda[i + 1]
  BY <1>1, <1>2, ListTail DEF Rest, Task
<1>4. PICK b \in Nat : b = Len(r) /\ DOMAIN r = 1..b
  BY <1>3, ListFacts
<1>5. DOMAIN agenda = 1..(b + 1)
  BY <1>1, <1>3, <1>4, ListFacts
<1>6. agenda' = r
  BY <1>1, <1>2, <1>3, NothingInFront DEF Goes
<1>7. Remembers /\ Filled'
  BY <1>1, EnvsKept DEF Grows
<1>8. \A n : Registered(n) => Registered(n)'
  BY <1>7, StaysRegistered
<1>9. ASSUME NEW i \in 1..b, PushesWhole(r[i]), r[i].name # None
      PROVE  Registered(r[i].name)' \/ (i > 1 /\ Building(r[i - 1], r[i].name))
  <2>1. r[i] = agenda[i + 1] /\ i + 1 \in DOMAIN agenda /\ (i + 1) - 1 = i
    BY <1>3, <1>4, <1>5
  <2>2. Registered(r[i].name) \/ Building(agenda[i], r[i].name)
    BY <1>9, <2>1 DEF InstanceInv, Pending
  <2>3. CASE i = 1
    <3>1. ~Building(agenda[i], r[i].name)
      BY <1>1, <1>3, <2>3 DEF Building
    <3>. QED BY <1>8, <2>2, <3>1
  <2>4. CASE i # 1
    <3>1. i - 1 \in 1..b /\ (i - 1) + 1 = i /\ i > 1
      BY <2>4
    <3>2. r[i - 1] = agenda[i]
      BY <1>3, <1>4, <3>1
    <3>. QED BY <1>8, <2>2, <3>1, <3>2
  <2>. QED BY <2>3, <2>4
<1>10. Pending(agenda)'
  BY <1>4, <1>6, <1>9 DEF Pending
<1>11. PICK a \in Nat : a = Len(astRoot) /\ DOMAIN astRoot = 1..a
  BY ListFacts DEF InstanceInv
<1>12. PICK x : x = [name |-> Task.name, method |-> Task.method]
  OBVIOUS
<1>13. PICK S : astRoot \in Seq(S)
  BY DEF InstanceInv, IsList
<1>14. /\ astRoot' \in Seq(S \cup {x}) /\ Len(astRoot') = a + 1
       /\ (\A i \in 1..a : astRoot'[i] = astRoot[i]) /\ astRoot'[a + 1] = x
  <2>1. astRoot \in Seq(S \cup {x}) /\ x \in S \cup {x}
    BY <1>13
  <2>2. astRoot' = Append(astRoot, x)
    BY <1>1, <1>12
  <2>. QED BY <1>11, <2>1, <2>2
<1>15. IsList(astRoot') /\ DOMAIN astRoot' = 1..(a + 1)
  <2>1. IsList(astRoot')
    BY <1>14, Zenon DEF IsList
  <2>. QED BY <1>14, <2>1
<1>16. ASSUME Task.method = 0, Task.name # None PROVE Registered(Task.name)
  <2>1. 1 \in DOMAIN agenda /\ ~(1 > 1)
    BY <1>5
  <2>2. PushesWhole(agenda[1])
    BY <1>1, <1>3, <1>16 DEF PushesWhole
  <2>. QED BY <1>3, <1>16, <2>1, <2>2 DEF InstanceInv, Pending
<1>17. ASSUME NEW i \in 1..(a + 1), astRoot'[i].method = 0,
              NEW n, n = astRoot'[i].name, n # None
       PROVE  Registered(n)'
  <2>1. CASE i \in 1..a
    <3>1. astRoot'[i] = astRoot[i]
      BY <1>14, <2>1
    <3>2. Registered(n)
      BY <1>11, <1>17, <2>1, <3>1 DEF InstanceInv, Complete
    <3>. QED BY <1>8, <3>2
  <2>2. CASE i \notin 1..a
    <3>1. i = a + 1
      BY <2>2
    <3>2. astRoot'[i] = x /\ x.method = Task.method /\ x.name = Task.name
      BY <1>12, <1>14, <3>1
    <3>3. Registered(n)
      BY <1>16, <1>17, <3>2
    <3>. QED BY <1>8, <3>3
  <2>. QED BY <2>1, <2>2
<1>18. Complete'
  BY <1>15, <1>17 DEF Complete, Registered
<1>19. ~(Len(agenda') > Len(agenda))
  BY <1>3, <1>4, <1>6
<1>. QED BY <1>7, <1>10, <1>15, <1>18, <1>19, NotLonger DEF InstanceInv

(* The tasks that end something.                                             *)
LEMMA InstanceEnds ==
  ASSUME ContextInv, InstanceInv,
         LeaveFunction \/ LeaveBlock \/ LeaveNamespace \/ PopLoop \/ RestoreContext
  PROVE  InstanceInv' /\ Once
<1>1. /\ agenda # <<>>
      /\ Task.do \in {"leaveFunction", "leaveBlock", "leaveNamespace", "popLoop", "restore"}
      /\ Goes(<<>>) /\ UNCHANGED <<envs, typeTable, astRoot>>
  BY HeadTask DEF LeaveFunction, LeaveBlock, LeaveNamespace, PopLoop, RestoreContext, Doing, context, tables
<1>2. Remembers /\ Filled'
  BY <1>1, EnvsKept DEF Grows
<1>3. \A n : ~Building(Task, n)
  BY <1>1 DEF Building
<1>. QED BY <1>1, <1>2, <1>3, InstanceNextTask

(* What is visited and is neither a function nor a struct is no instance.    *)
LEMMA OtherHead ==
  ASSUME ContextInv, NEW kind, At(kind), kind \notin {"function", "struct"}
  PROVE  agenda # <<>> /\ HasParts(Node) /\ Node.k = kind /\ \A n : ~Building(Task, n)
<1>1. agenda # <<>> /\ HasParts(Node) /\ Node.k = kind
  BY HeadNode
<1>2. Task.do = "visit"
  BY DEF At
<1>. QED BY <1>1, <1>2 DEF Building, Node

(* VariableDeclaration.                                                      *)
LEMMA InstanceDeclareVariable ==
  ASSUME ContextInv, InstanceInv, DeclareVariable
  PROVE  InstanceInv' /\ Once
<1>1. PICK name, type, values, made : VariableOf(name, type, values, made)
  BY Zenon DEF DeclareVariable, VariableFrom
<1>2. \/ \E why : Fail(why)
      \/ \E need : Instantiate(need)
      \/ Define(name, Variable(type.q)) /\ Goes(<<>>) /\ UNCHANGED tables
  BY <1>1, Zenon DEF VariableOf, Settle
<1>3. CASE Define(name, Variable(type.q)) /\ Goes(<<>>) /\ UNCHANGED tables
  <2>1. agenda # <<>> /\ \A n : ~Building(Task, n)
    BY OtherHead DEF DeclareVariable
  <2>2. PICK d : d = [envs EXCEPT ![environment[1]] = WithRecord(@, name, Variable(type.q))]
    OBVIOUS
  <2>3. (\A k \in DOMAIN d : FilledEnv(d[k])) /\ DOMAIN envs[Global] \subseteq DOMAIN d[Global]
    BY <2>2, RecordAdded
  <2>4. envs' = d
    BY <1>3, <2>2 DEF Define
  <2>5. Filled'
    BY <2>3, <2>4 DEF Filled, FilledEnv
  <2>6. Remembers /\ astRoot' = astRoot
    BY <1>3, <2>3, <2>4 DEF Remembers, Grows, tables
  <2>. QED BY <1>3, <2>1, <2>5, <2>6, InstanceNextTask
<1>. QED BY <1>2, <1>3, InstanceFail, InstanceInstantiate

(* FunctionDeclaration: of an instance the signature is next.                *)
LEMMA InstanceDeclareFunction ==
  ASSUME ContextInv, InstanceInv, DeclareFunction
  PROVE  InstanceInv' /\ Once
<1>1. agenda # <<>> /\ Task.do = "visit" /\ HasParts(Node) /\ Node.k = "function"
  BY HeadNode DEF DeclareFunction, At
<1>2. \/ \E why : Fail(why)
      \/ /\ Goes(<<>>) /\ UNCHANGED <<context, typeTable, astRoot>>
         /\ Node.instance = None \/ Node.tparams # <<>>
      \/ \E name, struct :
            /\ Node.instance # None => name = Node.instance /\ struct = None
            /\ Goes(<<[do |-> "signature", node |-> Node, name |-> name, struct |-> struct,
                       sub |-> Task.sub]>>)
            /\ UNCHANGED <<envs, tables>>
  <2>. DEFINE inst == Node.instance # None
              name == IF inst THEN Node.instance ELSE namespacePath \o Node.ns \o Node.struct \o Node.name
              struct == IF inst \/ Node.struct = None THEN None ELSE QualifiedName(Node.struct)
              register(key, value) ==
                 /\ templates' = With(templates, key, value)
                 /\ Goes(<<>>)
                 /\ UNCHANGED <<context, typeTable, astRoot, symbols, calls>>
  <2>1. \/ \E why : Fail(why)
        \/ struct # None /\ \E key, value : register(key, value)
        \/ Node.tparams # <<>> /\ \E key, value : register(key, value)
        \/ /\ Goes(<<[do |-> "signature", node |-> Node, name |-> name, struct |-> struct,
                      sub |-> Task.sub]>>)
           /\ UNCHANGED <<envs, tables>>
    BY Zenon DEF DeclareFunction
  <2>2. inst => name = Node.instance /\ struct = None
    OBVIOUS
  <2>3. ASSUME NEW key, NEW value, register(key, value)
        PROVE  Goes(<<>>) /\ UNCHANGED <<context, typeTable, astRoot>>
    BY <2>3
  <2>. HIDE DEF name, struct, register
  <2>. QED BY <2>1, <2>2, <2>3, Zenon
<1>3. CASE /\ Goes(<<>>) /\ UNCHANGED <<context, typeTable, astRoot>>
           /\ Node.instance = None \/ Node.tparams # <<>>
  <2>1. \A n : n # None => ~Building(Task, n)
    BY <1>1, <1>3 DEF Building, Node
  <2>2. envs' = envs /\ Grows
    BY <1>3 DEF context, Grows
  <2>3. Remembers /\ Filled'
    BY <2>2, EnvsKept
  <2>. QED BY <1>1, <1>3, <2>1, <2>3, InstanceNextTask
<1>4. ASSUME NEW name, NEW struct, Node.instance # None => name = Node.instance /\ struct = None,
             Goes(<<[do |-> "signature", node |-> Node, name |-> name, struct |-> struct, sub |-> Task.sub]>>),
             UNCHANGED <<envs, tables>>
      PROVE  InstanceInv' /\ Once
  <2>1. PICK t : t = [do |-> "signature", node |-> Node, name |-> name, struct |-> struct, sub |-> Task.sub]
    OBVIOUS
  <2>2. t.do = "signature" /\ t.node = Node /\ t.name = name /\ t.struct = struct
    BY <2>1
  <2>3. PICK ts : ts = <<t>>
    OBVIOUS
  <2>4. IsList(ts) /\ Len(ts) = 1 /\ ts[1] = t /\ DOMAIN ts = 1..1
    BY <2>3, ListOfOne
  <2>5. ts # <<>> /\ \A i \in 1..1 : i = 1
    BY <2>3
  <2>6. \A i \in DOMAIN ts : Plain(ts[i])
    BY <2>2, <2>4, <2>5 DEF Plain, PushesWhole
  <2>7. agenda' = ts \o Rest
    BY <1>4, <2>1, <2>3 DEF Goes
  <2>8. astRoot' = astRoot /\ Grows /\ envs' = envs
    BY <1>4 DEF tables, Grows
  <2>9. Remembers /\ Filled'
    BY <2>8, EnvsKept
  <2>10. ASSUME NEW n, n # None, Building(Task, n) PROVE Building(ts[Len(ts)], n)
    <3>1. Node.instance = n
      BY <1>1, <2>10 DEF Building, Node
    <3>. QED BY <1>4, <2>2, <2>4, <2>10, <3>1 DEF Building
  <2>. QED BY <1>1, <2>4, <2>5, <2>6, <2>7, <2>8, <2>9, <2>10, InstanceReplaced
<1>. QED BY <1>2, <1>3, <1>4, InstanceFail

(* The visits of nodes of the source are plain.                              *)
LEMMA VisitsPlain ==
  ASSUME NEW nodes \in Seq(Nodes), NEW scope, NEW sub
  PROVE  /\ IsList(VisitAll(nodes, scope, sub))
         /\ \A i \in DOMAIN VisitAll(nodes, scope, sub) : Plain(VisitAll(nodes, scope, sub)[i])
<1>1. PICK v : v = VisitAll(nodes, scope, sub)
  OBVIOUS
<1>2. IsList(v) /\ \A i \in DOMAIN v : Still(v[i])
  BY <1>1, VisitTasks DEF TasksOK
<1>3. PICK m \in Nat : m = Len(nodes) /\ DOMAIN nodes = 1..m
  OBVIOUS
<1>4. v = [i \in 1..m |-> Visit(nodes[i], scope, sub)]
  BY <1>1, <1>3 DEF VisitAll
<1>5. \A i \in DOMAIN v : v[i].do = "visit"
  BY <1>4 DEF Visit
<1>6. \A i \in DOMAIN v : Plain(v[i])
  BY <1>2, <1>5 DEF Plain, PushesWhole, Still
<1>. QED BY <1>1, <1>2, <1>6

(* Plain tasks in front of plain tasks.                                      *)
LEMMA ConcatPlain ==
  ASSUME NEW s, IsList(s), \A i \in DOMAIN s : Plain(s[i]),
         NEW t, IsList(t), \A i \in DOMAIN t : Plain(t[i])
  PROVE  IsList(s \o t) /\ \A i \in DOMAIN (s \o t) : Plain((s \o t)[i])
<1>1. PICK u : u = s \o t
  OBVIOUS
<1>2. PICK a \in Nat : a = Len(s) /\ DOMAIN s = 1..a
  BY ListFacts
<1>3. PICK b \in Nat : b = Len(t) /\ DOMAIN t = 1..b
  BY ListFacts
<1>4. IsList(u) /\ Len(u) = a + b /\ (\A i \in 1..a : u[i] = s[i]) /\ \A i \in 1..b : u[a + i] = t[i]
  BY <1>1, <1>2, <1>3, ListConcat
<1>5. DOMAIN u = 1..(a + b)
  BY <1>4, ListFacts
<1>6. ASSUME NEW i \in 1..(a + b) PROVE Plain(u[i])
  <2>1. CASE i <= a
    <3>1. i \in 1..a
      BY <2>1
    <3>. QED BY <1>2, <1>4, <3>1
  <2>2. CASE ~(i <= a)
    <3>1. i - a \in 1..b /\ i = a + (i - a)
      BY <2>2
    <3>2. u[i] = t[i - a]
      BY <1>4, <3>1
    <3>. QED BY <1>3, <3>1, <3>2
  <2>. QED BY <2>1, <2>2
<1>. QED BY <1>1, <1>4, <1>5, <1>6

(* A task that ends something is plain.                                      *)
LEMMA EndPlain ==
  ASSUME NEW t, t.do \notin {"visit", "push"}
  PROVE  Plain(t) /\ IsList(<<t>>) /\ \A i \in DOMAIN <<t>> : Plain(<<t>>[i])
<1>1. Plain(t)
  BY DEF Plain, PushesWhole
<1>. QED BY <1>1, ListOfOne

(* Visits of nodes of the source take the place of the head, with a task     *)
(* behind them or without.                                                   *)
LEMMA InstanceVisits ==
  ASSUME ContextInv, InstanceInv, agenda # <<>>,
         \A n : n # None /\ Building(Task, n) => Registered(n)',
         NEW nodes \in Seq(Nodes), NEW scope, NEW sub, NEW t, t.do \notin {"visit", "push"},
         \/ agenda' = VisitAll(nodes, scope, sub) \o Rest
         \/ agenda' = (VisitAll(nodes, scope, sub) \o <<t>>) \o Rest,
         astRoot' = astRoot, Remembers, Filled'
  PROVE  InstanceInv' /\ Once
<1>1. PICK ts : ts = VisitAll(nodes, scope, sub)
  OBVIOUS
<1>2. IsList(ts) /\ \A i \in DOMAIN ts : Plain(ts[i])
  BY <1>1, VisitsPlain
<1>3. PICK new : new = ts \o <<t>>
  OBVIOUS
<1>4. IsList(<<t>>) /\ \A i \in DOMAIN <<t>> : Plain(<<t>>[i])
  BY EndPlain
<1>5. IsList(new) /\ \A i \in DOMAIN new : Plain(new[i])
  BY <1>2, <1>3, <1>4, ConcatPlain
<1>6. agenda' = ts \o Rest \/ agenda' = new \o Rest
  BY <1>1, <1>3
<1>. QED BY <1>2, <1>5, <1>6, InstanceReplaced

(* The signature: the function is in the current environment, that of an     *)
(* instance in the global one.                                               *)
LEMMA InstanceDeclareSignature ==
  ASSUME ContextInv, InstanceInv, DeclareSignature
  PROVE  InstanceInv' /\ Once
<1>1. agenda # <<>> /\ TaskOK(Task, Len(envs)) /\ Task.do = "signature"
  BY HeadTask DEF DeclareSignature, Doing
<1>2. Node.body \in Seq(Nodes) /\ Node.k = "function"
  BY <1>1 DEF TaskOK, Node, HasParts
<1>3. PICK result, users : Signature(result, users)
  BY Zenon DEF DeclareSignature
<1>4. \/ \E why : Fail(why)
      \/ \E need : Instantiate(need)
      \/ \E fn : Declare(users, fn)
  BY <1>3, Zenon DEF Signature, Settle
<1>5. ASSUME NEW fn, Declare(users, fn) PROVE InstanceInv' /\ Once
  <2>1. PICK t : t = [do |-> "leaveFunction", saved |-> environment, struct |-> Task.struct]
    OBVIOUS
  <2>2. t.do \notin {"visit", "push"}
    <3>1. t.do = "leaveFunction"
      BY <2>1
    <3>. QED BY <3>1
  <2>3. agenda' = (VisitAll(Node.body, "Local", Task.sub) \o <<t>>) \o Rest /\ astRoot' = astRoot
    BY <1>5, <2>1, Zenon DEF Declare, Goes
  <2>4. Grows
    BY <1>5 DEF Declare, Grows
  <2>5. PICK d : d = [envs EXCEPT ![environment[1]] =
                        WithRecord(@, Task.name, [kind |-> "function", fn |-> fn])]
    OBVIOUS
  <2>6. /\ IsList(d) /\ Len(d) = Len(envs) /\ (\A k \in DOMAIN d : FilledEnv(d[k]))
        /\ DOMAIN envs[Global] \subseteq DOMAIN d[Global]
        /\ environment = <<Global>> => Has(d[Global], Task.name)
    BY <2>5, RecordAdded
  <2>7. PICK own : own = OwnSymbols(users) /\ FilledEnv(own)
    BY OwnFilled
  <2>8. envs' = Append(d, own)
    BY <1>5, <2>5, <2>7, Zenon DEF Declare
  <2>9. Len(d) >= 1
    BY <2>6 DEF ContextInv
  <2>10. PICK e : e = Append(d, own)
    OBVIOUS
  <2>11. (\A k \in DOMAIN e : FilledEnv(e[k])) /\ e[Global] = d[Global]
    BY <2>6, <2>7, <2>9, <2>10, EnvironmentAdded
  <2>12. Filled'
    BY <2>8, <2>10, <2>11 DEF Filled, FilledEnv
  <2>13. Remembers
    BY <2>4, <2>6, <2>8, <2>10, <2>11 DEF Remembers
  <2>14. ASSUME NEW n, n # None, Building(Task, n) PROVE Registered(n)'
    <3>1. IsClone(Task) /\ Task.name = n
      BY <1>1, <1>2, <2>14 DEF Building, IsClone, Node
    <3>2. Rests(Task, Now)
      BY <1>1, HeadRests DEF Idle
    <3>3. environment = <<Global>>
      BY <3>1, <3>2 DEF Rests, AtHome, Now, Context
    <3>4. n \in DOMAIN envs'[Global]
      BY <2>6, <2>8, <2>10, <2>11, <3>1, <3>3 DEF Has
    <3>. QED BY <3>4 DEF Registered, Has
  <2>. QED BY <1>1, <1>2, <2>2, <2>3, <2>12, <2>13, <2>14, InstanceVisits
<1>. QED BY <1>4, <1>5, InstanceFail, InstanceInstantiate

(* A type is registered: that of an instance under its name.                 *)
LEMMA InstanceRegisters ==
  ASSUME ContextInv, InstanceInv, agenda # <<>>,
         NEW name, NEW entry, RegisterType(name, entry),
         \A n : n # None /\ Building(Task, n) => n = name
  PROVE  InstanceInv' /\ Once
<1>1. typeTable' = With(typeTable, name, entry) /\ Goes(<<>>) /\ UNCHANGED <<envs, astRoot>>
  BY DEF RegisterType, context
<1>2. DOMAIN typeTable' = DOMAIN typeTable \cup {name}
  BY <1>1 DEF With
<1>3. Remembers /\ Filled'
  BY <1>1, <1>2, EnvsKept DEF Grows
<1>4. ASSUME NEW n, n # None, Building(Task, n) PROVE Registered(n)'
  BY <1>2, <1>4 DEF Registered, Has
<1>. QED BY <1>1, <1>3, <1>4, InstanceNextTask

(* StructDeclaration: the instance of a template is outside of any namespace. *)
LEMMA InstanceDeclareStruct ==
  ASSUME ContextInv, InstanceInv, DeclareStruct
  PROVE  InstanceInv' /\ Once
<1>1. agenda # <<>> /\ Task.do = "visit" /\ HasParts(Node) /\ Node.k = "struct"
  BY HeadNode DEF DeclareStruct, At
<1>2. PICK name : name = QualifiedName(IF Node.instance # None THEN Node.instance ELSE Node.name)
  OBVIOUS
<1>3. \/ Node.tparams # <<>> /\ Goes(<<>>) /\ UNCHANGED <<context, typeTable, astRoot>>
      \/ \E types : StructFrom(name, types)
  BY <1>2, Zenon DEF DeclareStruct
<1>4. CASE Node.tparams # <<>> /\ Goes(<<>>) /\ UNCHANGED <<context, typeTable, astRoot>>
  <2>1. \A n : ~Building(Task, n)
    BY <1>1, <1>4 DEF Building, Node
  <2>2. envs' = envs /\ Grows
    BY <1>4 DEF context, Grows
  <2>3. Remembers /\ Filled'
    BY <2>2, EnvsKept
  <2>. QED BY <1>1, <1>4, <2>1, <2>3, InstanceNextTask
<1>5. CASE \E types : StructFrom(name, types)
  <2>1. \/ \E why : Fail(why)
        \/ \E need : Instantiate(need)
        \/ \E entry : RegisterType(name, entry)
    BY <1>5, Zenon DEF StructFrom, Settle
  <2>2. ASSUME NEW n, n # None, Building(Task, n) PROVE n = name
    <3>1. IsClone(Task) /\ Node.instance = n
      BY <1>1, <2>2 DEF Building, IsClone, Node
    <3>2. Rests(Task, Now)
      BY <1>1, HeadRests DEF Idle
    <3>3. namespacePath = <<>>
      BY <1>1, <3>1, <3>2 DEF Rests, AtHome, Now, Context, Node
    <3>. QED BY <1>2, <2>2, <3>1, <3>3 DEF QualifiedName
  <2>. QED BY <1>1, <2>1, <2>2, InstanceFail, InstanceInstantiate, InstanceRegisters
<1>. QED BY <1>3, <1>4, <1>5

(* EnumDeclaration and UnionDeclaration.                                     *)
LEMMA InstanceDeclareType ==
  ASSUME ContextInv, InstanceInv, DeclareEnum \/ DeclareUnion
  PROVE  InstanceInv' /\ Once
<1>1. agenda # <<>> /\ \A n : ~Building(Task, n)
  BY OtherHead DEF DeclareEnum, DeclareUnion
<1>2. \/ \E why : Fail(why)
      \/ \E need : Instantiate(need)
      \/ \E name, entry : RegisterType(name, entry)
  <2>1. DeclareUnion => \E name, payloads : UnionFrom(name, payloads)
    BY Zenon DEF DeclareUnion
  <2>2. ASSUME NEW name, NEW payloads, UnionFrom(name, payloads)
        PROVE  \/ \E why : Fail(why)
               \/ \E need : Instantiate(need)
               \/ \E n, entry : RegisterType(n, entry)
    BY <2>2, Zenon DEF UnionFrom, Settle
  <2>3. DeclareEnum => \E name, entry : RegisterType(name, entry)
    BY Zenon DEF DeclareEnum
  <2>. QED BY <2>1, <2>2, <2>3
<1>. QED BY <1>1, <1>2, InstanceFail, InstanceInstantiate, InstanceRegisters

(* Expressions and jumps.                                                    *)
LEMMA InstanceExpression ==
  ASSUME ContextInv, InstanceInv, Expression \/ Jump
  PROVE  InstanceInv' /\ Once
<1>1. agenda # <<>> /\ \A n : ~Building(Task, n)
  BY OtherHead DEF Expression, Jump
<1>2. \/ \E why : Fail(why)
      \/ \E need : Instantiate(need)
      \/ Goes(<<>>) /\ UNCHANGED <<context, tables>>
  BY Zenon DEF Expression, Jump, Settle
<1>3. CASE Goes(<<>>) /\ UNCHANGED <<context, tables>>
  <2>1. envs' = envs /\ Grows /\ astRoot' = astRoot
    BY <1>3 DEF context, tables, Grows
  <2>2. Remembers /\ Filled'
    BY <2>1, EnvsKept
  <2>. QED BY <1>1, <1>3, <2>1, <2>2, InstanceNextTask
<1>. QED BY <1>2, <1>3, InstanceFail, InstanceInstantiate

(* An environment is opened under the current one.                           *)
LEMMA InstanceOpens ==
  ASSUME ContextInv, InstanceInv, NEW own, FilledEnv(own), Open(own), typeTable' = typeTable
  PROVE  Remembers /\ Filled'
<1>1. IsList(envs) /\ Len(envs) >= 1 /\ \A k \in DOMAIN envs : FilledEnv(envs[k])
  BY DEF ContextInv, InstanceInv, Filled
<1>2. PICK e : e = Append(envs, own)
  OBVIOUS
<1>3. (\A k \in DOMAIN e : FilledEnv(e[k])) /\ e[Global] = envs[Global]
  BY <1>1, <1>2, EnvironmentAdded
<1>4. envs' = e
  BY <1>2 DEF Open
<1>. QED BY <1>3, <1>4 DEF Remembers, Grows, Filled, FilledEnv

(* Statements that are visits, with or without something at the end.         *)
LEMMA InstanceStatements ==
  ASSUME ContextInv, InstanceInv, If \/ EnterBlock \/ While
  PROVE  InstanceInv' /\ Once
<1>1. agenda # <<>> /\ HasParts(Node) /\ \A n : ~Building(Task, n)
  BY OtherHead DEF If, EnterBlock, While
<1>2. typeTable' = typeTable /\ astRoot' = astRoot
  BY DEF If, EnterBlock, While, tables
<1>3. CASE If
  <2>1. Node.condition \in Nodes /\ Node.branches \in Seq(Nodes)
    BY <1>1, <1>3 DEF HasParts, If, At
  <2>2. <<Node.condition>> \o Node.branches \in Seq(Nodes)
    BY <2>1, NodeList
  <2>3. agenda' = VisitAll(<<Node.condition>> \o Node.branches, Task.scope, Task.sub) \o Rest
    BY <1>3, Zenon DEF If, Goes
  <2>4. PICK t : t = [do |-> "popLoop"]
    OBVIOUS
  <2>5. t.do \notin {"visit", "push"}
    <3>1. t.do = "popLoop"
      BY <2>4
    <3>. QED BY <3>1
  <2>6. Remembers /\ Filled'
    <3>1. envs' = envs /\ Grows
      BY <1>2, <1>3 DEF If, context, Grows
    <3>. QED BY <3>1, EnvsKept
  <2>. QED BY <1>1, <1>2, <2>2, <2>3, <2>5, <2>6, InstanceVisits
<1>4. CASE EnterBlock
  <2>1. Node.body \in Seq(Nodes)
    BY <1>1, <1>4 DEF HasParts, EnterBlock, At
  <2>2. PICK t : t = [do |-> "leaveBlock", saved |-> environment]
    OBVIOUS
  <2>3. t.do \notin {"visit", "push"}
    <3>1. t.do = "leaveBlock"
      BY <2>2
    <3>. QED BY <3>1
  <2>4. agenda' = (VisitAll(Node.body, Task.scope, Task.sub) \o <<t>>) \o Rest
    BY <1>4, <2>2, Zenon DEF EnterBlock, Goes
  <2>5. FilledEnv(Empty)
    <3>1. DOMAIN Empty = {}
      BY DEF Empty
    <3>. QED BY <3>1 DEF FilledEnv
  <2>6. Open(Empty)
    BY <1>4 DEF EnterBlock
  <2>7. Remembers /\ Filled'
    BY <1>2, <2>5, <2>6, InstanceOpens
  <2>. QED BY <1>1, <1>2, <2>1, <2>3, <2>4, <2>7, InstanceVisits
<1>5. CASE While
  <2>1. Node.condition \in Nodes /\ Node.body \in Nodes
    BY <1>1, <1>5 DEF HasParts, While, At
  <2>2. PICK ns \in Seq(Nodes) : ns = <<Node.condition, Node.body>>
    <3>1. <<Node.condition, Node.body>> \in Seq(Nodes)
      BY <2>1
    <3>. QED BY <3>1, Zenon
  <2>3. PICK t : t = [do |-> "popLoop"]
    OBVIOUS
  <2>4. t.do \notin {"visit", "push"}
    <3>1. t.do = "popLoop"
      BY <2>3
    <3>. QED BY <3>1
  <2>5. PICK ts : ts = VisitAll(ns, Task.scope, Task.sub)
    OBVIOUS
  <2>6. \/ agenda' = (ts \o <<>>) \o Rest
        \/ agenda' = (ts \o <<t>>) \o Rest
    BY <1>5, <2>2, <2>3, <2>5, Zenon DEF While, Goes
  <2>7. ts \o <<>> = ts
    <3>1. IsList(ts)
      BY <2>5, VisitsPlain
    <3>. QED BY <3>1 DEF IsList
  <2>8. \/ agenda' = VisitAll(ns, Task.scope, Task.sub) \o Rest
        \/ agenda' = (VisitAll(ns, Task.scope, Task.sub) \o <<t>>) \o Rest
    BY <2>5, <2>6, <2>7
  <2>9. Remembers /\ Filled'
    <3>1. envs' = envs /\ Grows
      BY <1>2, <1>5 DEF While, Grows
    <3>. QED BY <3>1, EnvsKept
  <2>. QED BY <1>1, <1>2, <2>4, <2>8, <2>9, InstanceVisits
<1>. QED BY <1>3, <1>4, <1>5

(* NamespaceDeclaration.                                                     *)
LEMMA InstanceEnterNamespace ==
  ASSUME ContextInv, InstanceInv, EnterNamespace
  PROVE  InstanceInv' /\ Once
<1>1. agenda # <<>> /\ HasParts(Node) /\ Node.k = "namespace" /\ \A n : ~Building(Task, n)
  BY OtherHead DEF EnterNamespace
<1>2. \/ \E why : Fail(why)
      \/ /\ Goes(VisitAll(Node.body, Task.scope, Task.sub)
                 \o <<[do |-> "leaveNamespace", anonymous |-> hasAnonymousNamespace]>>)
         /\ UNCHANGED <<envs, tables>>
  BY Zenon DEF EnterNamespace
<1>3. CASE /\ Goes(VisitAll(Node.body, Task.scope, Task.sub)
                   \o <<[do |-> "leaveNamespace", anonymous |-> hasAnonymousNamespace]>>)
           /\ UNCHANGED <<envs, tables>>
  <2>1. PICK t : t = [do |-> "leaveNamespace", anonymous |-> hasAnonymousNamespace]
    OBVIOUS
  <2>2. t.do \notin {"visit", "push"}
    <3>1. t.do = "leaveNamespace"
      BY <2>1
    <3>. QED BY <3>1
  <2>3. Node.body \in Seq(Nodes)
    BY <1>1 DEF HasParts
  <2>4. agenda' = (VisitAll(Node.body, Task.scope, Task.sub) \o <<t>>) \o Rest
    BY <1>3, <2>1 DEF Goes
  <2>5. envs' = envs /\ Grows /\ astRoot' = astRoot
    BY <1>3 DEF tables, Grows
  <2>6. Remembers /\ Filled'
    BY <2>5, EnvsKept
  <2>. QED BY <1>1, <2>2, <2>3, <2>4, <2>5, <2>6, InstanceVisits
<1>. QED BY <1>2, <1>3, InstanceFail

(* A visit of a node of the source and a task behind it.                     *)
LEMMA InstanceVisit ==
  ASSUME ContextInv, InstanceInv, agenda # <<>>, \A n : ~Building(Task, n),
         NEW node \in Nodes, NEW scope, NEW sub, NEW t, t.do \notin {"visit", "push"},
         Goes(<<Visit(node, scope, sub), t>>), astRoot' = astRoot, Remembers, Filled'
  PROVE  InstanceInv' /\ Once
<1>1. PICK v : v = Visit(node, scope, sub)
  OBVIOUS
<1>2. Plain(v)
  <2>1. v.do = "visit" /\ v.node = node
    BY <1>1 DEF Visit
  <2>. QED BY <2>1, NodesAssumption DEF Plain, PushesWhole, IsClone
<1>3. PICK ts : ts = <<v>> \o <<t>>
  OBVIOUS
<1>4. IsList(ts) /\ \A i \in DOMAIN ts : Plain(ts[i])
  <2>1. IsList(<<v>>) /\ \A i \in DOMAIN <<v>> : Plain(<<v>>[i])
    BY <1>2, ListOfOne
  <2>2. IsList(<<t>>) /\ \A i \in DOMAIN <<t>> : Plain(<<t>>[i])
    BY EndPlain
  <2>. QED BY <1>3, <2>1, <2>2, ConcatPlain
<1>5. agenda' = ts \o Rest
  <2>1. <<v, t>> = <<v>> \o <<t>>
    OBVIOUS
  <2>. QED BY <1>1, <1>3, <2>1 DEF Goes
<1>. QED BY <1>4, <1>5, InstanceReplaced

(* LabelStatement.                                                           *)
LEMMA InstanceLabel ==
  ASSUME ContextInv, InstanceInv, Label
  PROVE  InstanceInv' /\ Once
<1>1. agenda # <<>> /\ Node.statement \in Nodes /\ \A n : ~Building(Task, n)
  BY OtherHead DEF Label, HasParts
<1>2. \/ \E why : Fail(why)
      \/ /\ Goes(<<Visit(Node.statement, Task.scope, Task.sub), [do |-> "popLoop"]>>)
         /\ UNCHANGED <<envs, tables>>
  BY Zenon DEF Label
<1>3. CASE /\ Goes(<<Visit(Node.statement, Task.scope, Task.sub), [do |-> "popLoop"]>>)
           /\ UNCHANGED <<envs, tables>>
  <2>1. PICK t : t = [do |-> "popLoop"]
    OBVIOUS
  <2>2. t.do \notin {"visit", "push"}
    <3>1. t.do = "popLoop"
      BY <2>1
    <3>. QED BY <3>1
  <2>3. Goes(<<Visit(Node.statement, Task.scope, Task.sub), t>>)
    BY <1>3, <2>1
  <2>4. envs' = envs /\ Grows /\ astRoot' = astRoot
    BY <1>3 DEF tables, Grows
  <2>5. Remembers /\ Filled'
    BY <2>4, EnvsKept
  <2>. QED BY <1>1, <2>2, <2>3, <2>4, <2>5, InstanceVisit
<1>. QED BY <1>2, <1>3, InstanceFail

(* A case: an environment with one record for each name of the payload.      *)
LEMMA InstanceInspectCase ==
  ASSUME ContextInv, InstanceInv, InspectCase
  PROVE  InstanceInv' /\ Once
<1>1. agenda # <<>> /\ Task.do = "case" /\ Task.case.body \in Nodes
  BY HeadTask DEF InspectCase, Doing, TaskOK
<1>2. \A n : ~Building(Task, n)
  BY <1>1 DEF Building
<1>. DEFINE c == Task.case
            variants == typeTable[Task.union].variants
            record(n) == Variable(variants[c.variant][CHOOSE i \in DOMAIN c.names : <<c.names[i]>> = n])
            own == [n \in {<<c.names[i]>> : i \in DOMAIN c.names} |-> <<record(n)>>]
<1>3. \/ \E why : Fail(why)
      \/ /\ Open(own)
         /\ Goes(<<Visit(Task.case.body, Task.scope, Task.sub),
                   [do |-> "leaveBlock", saved |-> environment]>>)
         /\ UNCHANGED tables
  BY Zenon DEF InspectCase
<1>4. FilledEnv(own)
  <2>1. \A x : IsList(<<x>>) /\ <<x>> # <<>>
    BY ListOfOne
  <2>2. PICK names : names = {<<c.names[i]>> : i \in DOMAIN c.names}
    OBVIOUS
  <2>3. own = [n \in names |-> <<record(n)>>]
    BY <2>2
  <2>. HIDE DEF record
  <2>4. PICK f : f = [n \in names |-> <<record(n)>>]
    OBVIOUS
  <2>5. FilledEnv(f)
    BY <2>1, <2>4 DEF FilledEnv
  <2>. HIDE DEF own
  <2>. QED BY <2>3, <2>4, <2>5
<1>. HIDE DEF own
<1>5. CASE /\ Open(own)
           /\ Goes(<<Visit(Task.case.body, Task.scope, Task.sub),
                     [do |-> "leaveBlock", saved |-> environment]>>)
           /\ UNCHANGED tables
  <2>1. PICK t : t = [do |-> "leaveBlock", saved |-> environment]
    OBVIOUS
  <2>2. t.do \notin {"visit", "push"}
    <3>1. t.do = "leaveBlock"
      BY <2>1
    <3>. QED BY <3>1
  <2>3. Goes(<<Visit(Task.case.body, Task.scope, Task.sub), t>>)
    BY <1>5, <2>1
  <2>4. typeTable' = typeTable /\ astRoot' = astRoot
    BY <1>5 DEF tables
  <2>5. Remembers /\ Filled'
    BY <1>4, <1>5, <2>4, InstanceOpens
  <2>. QED BY <1>1, <1>2, <2>2, <2>3, <2>4, <2>5, InstanceVisit
<1>. QED BY <1>3, <1>5, InstanceFail

(* InspectStatement.                                                         *)
LEMMA InstanceInspect ==
  ASSUME ContextInv, InstanceInv, Inspect
  PROVE  InstanceInv' /\ Once
<1>1. agenda # <<>> /\ HasParts(Node) /\ Node.k = "inspect" /\ \A n : ~Building(Task, n)
  BY OtherHead DEF Inspect
<1>2. \/ \E why : Fail(why)
      \/ \E need : Instantiate(need)
      \/ \E u :
           /\ Goes([i \in DOMAIN Node.cases |->
                      [do |-> "case", case |-> Node.cases[i], scope |-> Task.scope,
                       sub |-> Task.sub, union |-> u]])
           /\ UNCHANGED <<context, tables>>
  BY Zenon DEF Inspect, InspectOf, Settle
<1>3. ASSUME NEW u,
             Goes([i \in DOMAIN Node.cases |->
                     [do |-> "case", case |-> Node.cases[i], scope |-> Task.scope,
                      sub |-> Task.sub, union |-> u]]),
             UNCHANGED <<context, tables>>
      PROVE  InstanceInv' /\ Once
  <2>1. PICK cs : cs = Node.cases
    OBVIOUS
  <2>2. cs \in Seq(ToSet(cs))
    BY <1>1, <2>1 DEF HasParts
  <2>3. PICK m \in Nat : m = Len(cs) /\ DOMAIN cs = 1..m
    BY <2>2
  <2>4. PICK ts : ts = [i \in 1..m |-> [do |-> "case", case |-> cs[i], scope |-> Task.scope,
                                        sub |-> Task.sub, union |-> u]]
    OBVIOUS
  <2>5. IsList(ts) /\ DOMAIN ts = 1..m
    <3>1. ts = [i \in 1..m |-> ts[i]]
      BY <2>4
    <3>. QED BY <2>4, <3>1, ListOfFunction
  <2>6. \A i \in DOMAIN ts : Plain(ts[i])
    <3>1. \A i \in 1..m : ts[i].do = "case"
      BY <2>4
    <3>. QED BY <2>5, <3>1 DEF Plain, PushesWhole
  <2>7. agenda' = ts \o Rest
    BY <1>3, <2>1, <2>3, <2>4 DEF Goes
  <2>8. envs' = envs /\ Grows /\ astRoot' = astRoot
    BY <1>3 DEF context, tables, Grows
  <2>9. Remembers /\ Filled'
    BY <2>8, EnvsKept
  <2>. QED BY <1>1, <2>5, <2>6, <2>7, <2>8, <2>9, InstanceReplaced
<1>. QED BY <1>2, <1>3, InstanceFail, InstanceInstantiate

(* Every step keeps the third invariant, and begins no instance that is      *)
(* complete.                                                                 *)
LEMMA InstanceNext ==
  ASSUME ContextInv, InstanceInv, [Next]_vars
  PROVE  InstanceInv' /\ Once
<1>1. CASE UNCHANGED vars
  <2>1. UNCHANGED <<agenda, astRoot, envs, typeTable>>
    BY <1>1 DEF vars, context, tables
  <2>. QED BY <2>1, InstanceStutters
<1>2. CASE \/ TakeDeclaration \/ DeclareVariable \/ DeclareFunction \/ DeclareSignature
           \/ LeaveFunction \/ DeclareStruct \/ DeclareEnum \/ DeclareUnion
  BY <1>2, InstanceTakeDeclaration, InstanceDeclareVariable, InstanceDeclareFunction,
     InstanceDeclareSignature, InstanceEnds, InstanceDeclareStruct, InstanceDeclareType
<1>3. CASE \/ EnterNamespace \/ LeaveNamespace \/ PushInstance \/ RestoreContext
           \/ Expression \/ If \/ EnterBlock \/ LeaveBlock
  BY <1>3, InstanceEnterNamespace, InstanceEnds, InstancePush, InstanceExpression, InstanceStatements
<1>4. CASE Label \/ While \/ PopLoop \/ Jump \/ Inspect \/ InspectCase
  BY <1>4, InstanceLabel, InstanceStatements, InstanceEnds, InstanceExpression, InstanceInspect,
     InstanceInspectCase
<1>5. CASE Ended
  BY <1>1, <1>5 DEF Ended
<1>6. [Next]_vars
  OBVIOUS
<1>. QED BY <1>1, <1>2, <1>3, <1>4, <1>5, <1>6, Zenon DEF Next

(* At first nothing is defined and no instance asked for.                    *)
LEMMA InstanceInit == Init => InstanceInv
<1>. SUFFICES ASSUME Init PROVE InstanceInv
  OBVIOUS
<1>1. agenda = <<>> /\ envs = <<Empty>> /\ astRoot = <<>>
  BY Zenon DEF Init
<1>2. <<>> \in Seq({}) /\ DOMAIN <<>> = {} /\ DOMAIN Empty = {}
  BY DEF Empty
<1>3. IsList(<<>>)
  BY <1>2, Zenon DEF IsList
<1>4. Filled
  <2>1. DOMAIN <<Empty>> = 1..1 /\ <<Empty>>[1] = Empty /\ \A i \in 1..1 : i = 1
    OBVIOUS
  <2>. QED BY <1>1, <1>2, <2>1 DEF Filled, FilledEnv
<1>. QED BY <1>1, <1>2, <1>3, <1>4 DEF InstanceInv, Complete, Pending

(* No step begins to build an instance that is complete, whatever program is *)
(* analyzed: under its name it is found from wherever it is asked for.       *)
THEOREM InstancesBuiltOnce == Spec => InstancesOnce
<1>1. Init => ContextInv /\ InstanceInv
  BY ContextInit, InstanceInit
<1>2. ContextInv /\ InstanceInv /\ [Next]_vars => (ContextInv /\ InstanceInv)'
  BY ContextNext, InstanceNext
<1>3. ContextInv /\ InstanceInv /\ [Next]_vars =>
        [\A i \in DOMAIN astRoot : astRoot[i].method = 0 => ~Begins(astRoot[i].name)]_vars
  BY InstanceNext DEF Once
<1>. QED BY <1>1, <1>2, <1>3, PTL DEF Spec, InstancesOnce
=============================================================================
