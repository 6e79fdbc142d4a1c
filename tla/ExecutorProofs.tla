--------------------------- MODULE ExecutorProofs ---------------------------
(***************************************************************************)
(* Proofs about the interpreter's flow of control, for every program, disk *)
(* and depth of the stack: what the executors keep in static fields agrees *)
(* with the executors there are.                                           *)
(***************************************************************************)
EXTENDS Executor, TLAPS, FiniteSetTheorems, SequenceTheorems

IsRecord(f) ==
  /\ f = [kind |-> f.kind, file |-> f.file, code |-> f.code, at |-> f.at, pc |-> f.pc,
          saved |-> f.saved]
  /\ f.saved = [env |-> f.saved.env, mode |-> f.saved.mode, dir |-> f.saved.dir]
  /\ f.kind \in {"file", "main", "jump"}

\* The executor of the main file is the outermost.
IsStack(fs) ==
  /\ fs \in Seq(Range(fs)) /\ fs # <<>>
  /\ \A i \in 1..Len(fs) : IsRecord(fs[i])
  /\ fs[Len(fs)].kind = "file"

\* How many files are being read at an executor, its own counted.
Files(fs, i) == {j \in FilesOf(fs) : j >= i}
Rank(fs, i) == Cardinality(Files(fs, i))

MainsIn(fs) == {i \in DOMAIN fs : fs[i].kind = "main"}

\* Every executor is of the file that was the last to be opened when it was started.
FilesFollow(fs, names) ==
  /\ names \in Seq(Range(names))
  /\ Len(names) = Rank(fs, 1)
  /\ names[1] = Main
  /\ \A i \in 1..Len(fs) : fs[i].file = names[Rank(fs, i)]
  /\ \A i, j \in 1..Len(names) : names[i] = names[j] => i = j

\* There is one main at most, it was started in global code, and by the main file.
MainOnce(fs, e, has) ==
  /\ e \in {"global", "local"} /\ has \in BOOLEAN
  /\ (e = "local") <=> (MainsIn(fs) # {})
  /\ \A i, j \in MainsIn(fs) : i = j
  /\ has => MainsIn(fs) = {}
  /\ \A i \in MainsIn(fs) : fs[i].file = Main /\ fs[i].saved.env = "global"

ModeAt(rank) == IF rank > 1 THEN "module" ELSE "main"

\* A file puts back the mode of the file that imported it.
ModeFollows(fs, m) ==
  /\ m = ModeAt(Rank(fs, 1))
  /\ \A i \in FilesOf(fs) : i < Len(fs) => fs[i].saved.mode = ModeAt(Rank(fs, i) - 1)

ExecutorInv ==
  Running =>
    /\ IsStack(frames)
    /\ FilesFollow(frames, files)
    /\ MainOnce(frames, env, hasMain)
    /\ ModeFollows(frames, mode)

-----------------------------------------------------------------------------
\* What the invariant looks at in an executor: running it changes none of it.
Alike(f, g) == f.kind = g.kind /\ f.file = g.file /\ f.saved = g.saved

SameStack(gs, fs) == Len(gs) = Len(fs) /\ \A i \in 1..Len(fs) : Alike(gs[i], fs[i])
OnTopOf(gs, fs) == Len(gs) = Len(fs) + 1 /\ \A i \in 1..Len(fs) : Alike(gs[i + 1], fs[i])

LEMMA StackTyped ==
  ASSUME NEW fs, IsStack(fs)
  PROVE  Len(fs) \in Nat \ {0} /\ DOMAIN fs = 1..Len(fs)
<1>1. fs \in Seq(Range(fs)) /\ fs # <<>>
  BY DEF IsStack
<1> QED
  BY <1>1, LenProperties, EmptySeq

(* A sequence put on top of another one.                                    *)
LEMMA PushedSequence ==
  ASSUME NEW f, NEW S, NEW fs \in Seq(S)
  PROVE  LET gs == <<f>> \o fs
         IN  /\ gs \in Seq(Range(gs))
             /\ gs # <<>>
             /\ Len(gs) = Len(fs) + 1
             /\ gs[1] = f
             /\ \A i \in 1..Len(fs) : gs[i + 1] = fs[i]
<1> DEFINE T == S \cup {f}
           gs == <<f>> \o fs
<1>1. <<f>> \in Seq(T) /\ Len(<<f>>) = 1 /\ <<f>>[1] = f
  OBVIOUS
<1>2. fs \in Seq(T) /\ Len(fs) \in Nat
  OBVIOUS
<1>3. /\ gs \in Seq(T)
      /\ Len(gs) = Len(fs) + 1
      /\ \A i \in 1..(Len(fs) + 1) : gs[i] = IF i <= 1 THEN f ELSE fs[i - 1]
  BY <1>1, <1>2, ConcatProperties
<1>5. gs \in Seq(Range(gs))
  BY <1>3, SeqOfRange
<1>6. gs # <<>> /\ gs[1] = f
  BY <1>2, <1>3
<1>7. ASSUME NEW i \in 1..Len(fs) PROVE gs[i + 1] = fs[i]
  BY <1>2, <1>3, <1>7
<1> QED
  BY <1>3, <1>5, <1>6, <1>7

(* What is left when the top is taken off.                                  *)
LEMMA TailSequence ==
  ASSUME NEW S, NEW fs \in Seq(S), fs # <<>>
  PROVE  LET gs == Tail(fs)
         IN  /\ gs \in Seq(Range(gs)) /\ gs \in Seq(S)
             /\ Len(gs) = Len(fs) - 1
             /\ \A i \in 1..Len(gs) : gs[i] = fs[i + 1]
<1> DEFINE gs == Tail(fs)
<1>1. /\ gs \in Seq(S)
      /\ Len(gs) = Len(fs) - 1
      /\ \A i \in 1..Len(gs) : gs[i] = fs[i + 1]
  BY HeadTailProperties
<1>3. gs \in Seq(Range(gs))
  BY <1>1, SeqOfRange
<1> QED
  BY <1>1, <1>3

(* Moving a set of numbers by one changes nothing of its size.              *)
LEMMA ShiftedCardinality ==
  ASSUME NEW S \in SUBSET Int, IsFiniteSet(S)
  PROVE  LET T == {i + 1 : i \in S}
         IN  IsFiniteSet(T) /\ Cardinality(T) = Cardinality(S)
<1> DEFINE T == {i + 1 : i \in S}
           shift == [i \in S |-> i + 1]
<1>1. shift \in Bijection(S, T)
  <2>1. shift \in [S -> T]
    OBVIOUS
  <2>2. \A i, j \in S : shift[i] = shift[j] => i = j
    OBVIOUS
  <2>3. \A t \in T : \E i \in S : shift[i] = t
    OBVIOUS
  <2> QED
    BY <2>1, <2>2, <2>3 DEF Bijection, Injection, IsInjective, Surjection
<1>2. ExistsBijection(S, T)
  BY <1>1 DEF ExistsBijection
<1> QED
  BY <1>2, FS_Bijection

LEMMA RankType ==
  ASSUME NEW fs, IsStack(fs)
  PROVE  \A i : IsFiniteSet(Files(fs, i)) /\ Rank(fs, i) \in Nat
<1>1. DOMAIN fs = 1..Len(fs) /\ Len(fs) \in Nat
  BY StackTyped
<1>2. IsFiniteSet(1..Len(fs))
  BY <1>1, FS_Interval
<1>3. \A i : Files(fs, i) \in SUBSET (1..Len(fs))
  BY <1>1 DEF Files, FilesOf
<1> QED
  BY <1>2, <1>3, FS_Subset, FS_CardinalityType DEF Rank

(* The rank of an executor is at least 1, and at most that of the top.      *)
LEMMA RankRange ==
  ASSUME NEW fs, IsStack(fs), NEW i \in 1..Len(fs)
  PROVE  Rank(fs, i) \in 1..Rank(fs, 1)
<1>1. DOMAIN fs = 1..Len(fs) /\ Len(fs) \in Nat
  BY StackTyped
<1>2. Len(fs) \in Files(fs, i)
  BY <1>1 DEF Files, FilesOf, IsStack
<1>3. Rank(fs, i) \in Nat /\ Rank(fs, 1) \in Nat
  BY RankType
<1>4. Rank(fs, i) # 0
  BY <1>2, RankType, FS_EmptySet DEF Rank
<1>5. Files(fs, i) \in SUBSET Files(fs, 1)
  BY <1>1 DEF Files, FilesOf
<1>6. Rank(fs, i) <= Rank(fs, 1)
  BY <1>5, RankType, FS_Subset DEF Rank
<1> QED
  BY <1>3, <1>4, <1>6

LEMMA RankOfSame ==
  ASSUME NEW fs, IsStack(fs), NEW gs, IsStack(gs), SameStack(gs, fs)
  PROVE  FilesOf(gs) = FilesOf(fs) /\ MainsIn(gs) = MainsIn(fs) /\ \A i : Rank(gs, i) = Rank(fs, i)
<1>1. DOMAIN fs = 1..Len(fs) /\ DOMAIN gs = 1..Len(fs)
  BY StackTyped DEF SameStack
<1>2. FilesOf(gs) = FilesOf(fs) /\ MainsIn(gs) = MainsIn(fs)
  BY <1>1 DEF SameStack, Alike, FilesOf, MainsIn
<1> QED
  BY <1>2 DEF Rank, Files

(* Under a new top every rank is what it was; the top's own is one more     *)
(* when it reads a file.                                                    *)
LEMMA RankOnTop ==
  ASSUME NEW fs, IsStack(fs), NEW gs, IsStack(gs), OnTopOf(gs, fs)
  PROVE  /\ FilesOf(gs) = {i + 1 : i \in FilesOf(fs)} \cup {i \in {1} : gs[1].kind = "file"}
         /\ MainsIn(gs) = {i + 1 : i \in MainsIn(fs)} \cup {i \in {1} : gs[1].kind = "main"}
         /\ \A i \in 1..Len(fs) : Rank(gs, i + 1) = Rank(fs, i)
         /\ Rank(gs, 1) = Rank(fs, 1) + (IF gs[1].kind = "file" THEN 1 ELSE 0)
<1>1. DOMAIN fs = 1..Len(fs) /\ DOMAIN gs = 1..(Len(fs) + 1) /\ Len(fs) \in Nat \ {0}
  BY StackTyped DEF OnTopOf
<1>2. \A i \in DOMAIN fs : i \in Int /\ i + 1 \in DOMAIN gs /\ gs[i + 1].kind = fs[i].kind
  BY <1>1 DEF OnTopOf, Alike
<1>3. \A i \in DOMAIN gs : i # 1 => i - 1 \in DOMAIN fs /\ i = (i - 1) + 1
  BY <1>1
<1>4. FilesOf(gs) = {i + 1 : i \in FilesOf(fs)} \cup {i \in {1} : gs[1].kind = "file"}
  BY <1>1, <1>2, <1>3 DEF FilesOf
<1>5. MainsIn(gs) = {i + 1 : i \in MainsIn(fs)} \cup {i \in {1} : gs[1].kind = "main"}
  BY <1>1, <1>2, <1>3 DEF MainsIn
<1>6. \A i : Files(fs, i) \in SUBSET Int
  BY <1>1 DEF Files, FilesOf
<1>7. ASSUME NEW i \in 1..Len(fs) PROVE Rank(gs, i + 1) = Rank(fs, i)
  <2>1. Files(gs, i + 1) = {j + 1 : j \in Files(fs, i)}
    BY <1>1, <1>4 DEF Files, FilesOf
  <2> QED
    BY <2>1, <1>6, RankType, ShiftedCardinality DEF Rank
<1>8. Rank(gs, 1) = Rank(fs, 1) + (IF gs[1].kind = "file" THEN 1 ELSE 0)
  <2> DEFINE T == {j + 1 : j \in Files(fs, 1)}
  <2>1. IsFiniteSet(T) /\ Cardinality(T) = Rank(fs, 1) /\ Rank(fs, 1) \in Nat
    BY <1>6, RankType, ShiftedCardinality DEF Rank
  <2>2. 1 \notin T
    BY <1>1 DEF Files, FilesOf
  <2>3. CASE gs[1].kind = "file"
    <3>1. Files(gs, 1) = T \cup {1}
      BY <1>1, <1>4, <2>3 DEF Files, FilesOf
    <3> QED
      BY <3>1, <2>1, <2>2, <2>3, FS_AddElement DEF Rank
  <2>4. CASE gs[1].kind # "file"
    <3>1. Files(gs, 1) = T
      BY <1>1, <1>4, <2>4 DEF Files, FilesOf
    <3> QED
      BY <3>1, <2>1, <2>4 DEF Rank
  <2> QED
    BY <2>3, <2>4
<1> QED
  BY <1>4, <1>5, <1>7, <1>8

-----------------------------------------------------------------------------
(* Going on with the next instruction.                                      *)
LEMMA PassedStack ==
  ASSUME NEW fs, IsStack(fs), NEW pc
  PROVE  LET gs == <<[fs[1] EXCEPT !.pc = pc]>> \o Tail(fs)
         IN  IsStack(gs) /\ SameStack(gs, fs)
<1> DEFINE top == [fs[1] EXCEPT !.pc = pc]
           rest == Tail(fs)
           gs == <<top>> \o rest
<1>1. Len(fs) \in Nat \ {0} /\ fs \in Seq(Range(fs)) /\ fs # <<>>
  BY StackTyped DEF IsStack
<1>2. /\ rest \in Seq(Range(rest))
      /\ Len(rest) = Len(fs) - 1
      /\ \A i \in 1..Len(rest) : rest[i] = fs[i + 1]
  BY <1>1, TailSequence
<1>3. /\ gs \in Seq(Range(gs)) /\ gs # <<>>
      /\ Len(gs) = Len(fs)
      /\ gs[1] = top
      /\ \A i \in 1..Len(rest) : gs[i + 1] = rest[i]
  <2> HIDE DEF top, rest
  <2>1. Len(rest) + 1 = Len(fs)
    BY <1>1, <1>2
  <2> QED
    BY <1>2, <2>1, PushedSequence
<1>4. IsRecord(fs[1])
  BY <1>1 DEF IsStack
<1>5. IsRecord(top) /\ Alike(top, fs[1])
  BY <1>4 DEF IsRecord, Alike
<1>6. ASSUME NEW i \in 1..Len(fs), i # 1 PROVE gs[i] = fs[i]
  <2>1. i - 1 \in 1..Len(rest) /\ (i - 1) + 1 = i
    BY <1>1, <1>2, <1>6
  <2> QED
    BY <1>2, <1>3, <2>1
<1> HIDE DEF gs, top
<1>7. SameStack(gs, fs)
  BY <1>3, <1>5, <1>6 DEF SameStack, Alike
<1>8. \A i \in 1..Len(gs) : IsRecord(gs[i])
  BY <1>3, <1>5, <1>6 DEF IsStack
<1>9. gs[Len(gs)].kind = "file"
  BY <1>1, <1>3, <1>7 DEF IsStack, SameStack, Alike
<1> QED
  BY <1>3, <1>7, <1>8, <1>9 DEF IsStack, gs, top

LEMMA PushedStack ==
  ASSUME NEW fs, IsStack(fs), NEW f, IsRecord(f)
  PROVE  LET gs == <<f>> \o fs
         IN  IsStack(gs) /\ OnTopOf(gs, fs) /\ gs[1] = f
<1> DEFINE gs == <<f>> \o fs
<1>1. Len(fs) \in Nat \ {0} /\ fs \in Seq(Range(fs))
  BY StackTyped DEF IsStack
<1>2. /\ gs \in Seq(Range(gs)) /\ gs # <<>>
      /\ Len(gs) = Len(fs) + 1
      /\ gs[1] = f
      /\ \A i \in 1..Len(fs) : gs[i + 1] = fs[i]
  BY <1>1, PushedSequence
<1> HIDE DEF gs
<1>3. ASSUME NEW i \in 1..Len(gs) PROVE IsRecord(gs[i])
  <2>1. CASE i = 1
    BY <1>2, <2>1
  <2>2. CASE i # 1
    <3>1. i - 1 \in 1..Len(fs) /\ (i - 1) + 1 = i
      BY <1>1, <1>2, <2>2
    <3> QED
      BY <1>2, <3>1 DEF IsStack
  <2> QED
    BY <2>1, <2>2
<1>4. gs[Len(gs)].kind = "file"
  BY <1>1, <1>2 DEF IsStack
<1>5. OnTopOf(gs, fs)
  BY <1>2 DEF OnTopOf, Alike
<1> QED
  BY <1>2, <1>3, <1>4, <1>5 DEF IsStack, gs

LEMMA DroppedStack ==
  ASSUME NEW fs, IsStack(fs), Len(fs) > 1
  PROVE  IsStack(Tail(fs)) /\ OnTopOf(fs, Tail(fs))
<1> DEFINE gs == Tail(fs)
<1>1. Len(fs) \in Nat \ {0} /\ fs \in Seq(Range(fs)) /\ fs # <<>>
  BY StackTyped DEF IsStack
<1>2. /\ gs \in Seq(Range(gs))
      /\ Len(gs) = Len(fs) - 1
      /\ \A i \in 1..Len(gs) : gs[i] = fs[i + 1]
  BY <1>1, TailSequence
<1> HIDE DEF gs
<1>3. gs # <<>>
  BY <1>1, <1>2, EmptySeq
<1>4. \A i \in 1..Len(gs) : i + 1 \in 1..Len(fs) /\ gs[i] = fs[i + 1]
  BY <1>1, <1>2
<1>5. \A i \in 1..Len(gs) : IsRecord(gs[i])
  BY <1>4 DEF IsStack
<1>6. Len(gs) \in 1..Len(gs) /\ Len(gs) + 1 = Len(fs)
  BY <1>1, <1>2
<1>7. gs[Len(gs)].kind = "file"
  BY <1>4, <1>6 DEF IsStack
<1>8. OnTopOf(fs, gs)
  BY <1>4, <1>6 DEF OnTopOf, Alike
<1> QED
  BY <1>2, <1>3, <1>5, <1>7, <1>8 DEF IsStack, gs

-----------------------------------------------------------------------------
(* What each part of the invariant says of a stack and of the one under its *)
(* top.                                                                     *)
LEMMA SameContext ==
  ASSUME NEW fs, IsStack(fs), NEW gs, IsStack(gs), SameStack(gs, fs),
         NEW names, NEW e, NEW has, NEW m,
         FilesFollow(fs, names), MainOnce(fs, e, has), ModeFollows(fs, m)
  PROVE  FilesFollow(gs, names) /\ MainOnce(gs, e, has) /\ ModeFollows(gs, m)
<1>1. FilesOf(gs) = FilesOf(fs) /\ MainsIn(gs) = MainsIn(fs) /\ \A i : Rank(gs, i) = Rank(fs, i)
  BY RankOfSame
<1>2. DOMAIN fs = 1..Len(fs) /\ Len(gs) = Len(fs) /\ \A i \in 1..Len(fs) : Alike(gs[i], fs[i])
  BY StackTyped DEF SameStack
<1>3. FilesFollow(gs, names)
  BY <1>1, <1>2 DEF FilesFollow, Alike
<1>4. MainOnce(gs, e, has)
  BY <1>1, <1>2 DEF MainOnce, MainsIn, Alike
<1>5. ModeFollows(gs, m)
  BY <1>1, <1>2 DEF ModeFollows, FilesOf, Alike
<1> QED
  BY <1>3, <1>4, <1>5

LEMMA FilesUnder ==
  ASSUME NEW fs, IsStack(fs), NEW gs, IsStack(gs), OnTopOf(gs, fs),
         gs[1].kind # "file", NEW names
  PROVE  /\ FilesFollow(fs, names) /\ gs[1].file = fs[1].file => FilesFollow(gs, names)
         /\ FilesFollow(gs, names) => FilesFollow(fs, names)
<1>1. /\ \A i \in 1..Len(fs) : Rank(gs, i + 1) = Rank(fs, i)
      /\ Rank(gs, 1) = Rank(fs, 1)
  BY RankOnTop, RankType
<1>2. /\ Len(fs) \in Nat \ {0} /\ Len(gs) = Len(fs) + 1
      /\ \A i \in 1..Len(fs) : i + 1 \in 1..Len(gs) /\ gs[i + 1].file = fs[i].file
  BY StackTyped DEF OnTopOf, Alike
<1>3. ASSUME FilesFollow(fs, names), gs[1].file = fs[1].file PROVE FilesFollow(gs, names)
  <2>1. ASSUME NEW i \in 1..Len(gs) PROVE gs[i].file = names[Rank(gs, i)]
    <3>1. CASE i = 1
      BY <1>1, <1>2, <1>3, <3>1 DEF FilesFollow
    <3>2. CASE i # 1
      <4>1. i - 1 \in 1..Len(fs) /\ (i - 1) + 1 = i
        BY <1>2, <3>2
      <4> QED
        BY <1>1, <1>2, <1>3, <4>1 DEF FilesFollow
    <3> QED
      BY <3>1, <3>2
  <2> QED
    BY <2>1, <1>1, <1>3 DEF FilesFollow
<1>4. ASSUME FilesFollow(gs, names) PROVE FilesFollow(fs, names)
  BY <1>1, <1>2, <1>4 DEF FilesFollow
<1> QED
  BY <1>3, <1>4

LEMMA ModeUnder ==
  ASSUME NEW fs, IsStack(fs), NEW gs, IsStack(gs), OnTopOf(gs, fs),
         gs[1].kind # "file", NEW m
  PROVE  ModeFollows(fs, m) <=> ModeFollows(gs, m)
<1>1. /\ FilesOf(gs) = {i + 1 : i \in FilesOf(fs)}
      /\ \A i \in 1..Len(fs) : Rank(gs, i + 1) = Rank(fs, i)
      /\ Rank(gs, 1) = Rank(fs, 1)
  BY RankOnTop, RankType
<1>2. /\ Len(fs) \in Nat \ {0} /\ Len(gs) = Len(fs) + 1
      /\ \A i \in FilesOf(fs) : i \in 1..Len(fs) /\ gs[i + 1].saved = fs[i].saved
  BY StackTyped DEF OnTopOf, Alike, FilesOf
<1> QED
  BY <1>1, <1>2 DEF ModeFollows

LEMMA MainUnder ==
  ASSUME NEW fs, IsStack(fs), NEW gs, IsStack(gs), OnTopOf(gs, fs),
         gs[1].kind # "main", NEW e, NEW has
  PROVE  MainOnce(fs, e, has) <=> MainOnce(gs, e, has)
<1>1. MainsIn(gs) = {i + 1 : i \in MainsIn(fs)}
  BY RankOnTop
<1>2. \A i \in MainsIn(fs) : i \in Int /\ gs[i + 1].saved = fs[i].saved /\ gs[i + 1].file = fs[i].file
  BY StackTyped DEF OnTopOf, Alike, MainsIn
<1>3. \A i, j \in MainsIn(fs) : i + 1 = j + 1 <=> i = j
  BY <1>2
<1> QED
  BY <1>1, <1>2, <1>3 DEF MainOnce

(* main is entered from global code of the main file, and left for good.    *)
LEMMA MainEntered ==
  ASSUME NEW fs, IsStack(fs), NEW gs, IsStack(gs), OnTopOf(gs, fs), gs[1].kind = "main",
         gs[1].file = Main, gs[1].saved.env = "global", MainOnce(fs, "global", FALSE)
  PROVE  MainOnce(gs, "local", FALSE)
<1>1. MainsIn(gs) = {1}
  BY RankOnTop DEF MainOnce
<1> QED
  BY <1>1 DEF MainOnce

LEMMA MainLeft ==
  ASSUME NEW fs, IsStack(fs), NEW gs, IsStack(gs), OnTopOf(gs, fs), gs[1].kind = "main",
         NEW e, NEW has, MainOnce(gs, e, has)
  PROVE  gs[1].saved.env = "global" /\ MainOnce(fs, "global", TRUE)
<1>1. MainsIn(gs) = {i + 1 : i \in MainsIn(fs)} \cup {1}
  BY RankOnTop
<1>2. \A i \in MainsIn(fs) : i \in Int /\ i + 1 # 1
  BY StackTyped DEF MainsIn
<1>3. MainsIn(fs) = {}
  BY <1>1, <1>2 DEF MainOnce
<1> QED
  BY <1>1, <1>3 DEF MainOnce

(* A file is opened by a file of its rank less one, and closed in the same  *)
(* order.                                                                   *)
LEMMA ModeOpened ==
  ASSUME NEW fs, IsStack(fs), NEW gs, IsStack(gs), OnTopOf(gs, fs), gs[1].kind = "file",
         NEW m
  PROVE  /\ ModeFollows(fs, m) /\ gs[1].saved.mode = m => ModeFollows(gs, "module")
         /\ ModeFollows(gs, "module") => ModeFollows(fs, gs[1].saved.mode)
<1>1. /\ FilesOf(gs) = {i + 1 : i \in FilesOf(fs)} \cup {1}
      /\ \A i \in 1..Len(fs) : Rank(gs, i + 1) = Rank(fs, i)
      /\ Rank(gs, 1) = Rank(fs, 1) + 1
  BY RankOnTop
<1>2. /\ Len(fs) \in Nat \ {0} /\ Len(gs) = Len(fs) + 1
      /\ \A i \in FilesOf(fs) : i \in 1..Len(fs) /\ gs[i + 1].saved = fs[i].saved
  BY StackTyped DEF OnTopOf, Alike, FilesOf
<1>3. Rank(fs, 1) \in Nat \ {0}
  BY <1>2, RankRange, RankType
<1>4. ModeAt(Rank(gs, 1)) = "module" /\ Rank(gs, 1) - 1 = Rank(fs, 1)
  BY <1>1, <1>3 DEF ModeAt
<1>5. ASSUME ModeFollows(fs, m), gs[1].saved.mode = m PROVE ModeFollows(gs, "module")
  <2>1. ASSUME NEW i \in FilesOf(gs), i < Len(gs)
        PROVE  gs[i].saved.mode = ModeAt(Rank(gs, i) - 1)
    <3>1. CASE i = 1
      BY <1>4, <1>5, <3>1 DEF ModeFollows
    <3>2. CASE i # 1
      <4>1. PICK j \in FilesOf(fs) : i = j + 1
        BY <1>1, <3>2
      <4>2. j < Len(fs)
        BY <1>2, <2>1, <4>1
      <4> QED
        BY <1>1, <1>2, <1>5, <4>1, <4>2 DEF ModeFollows
    <3> QED
      BY <3>1, <3>2
  <2> QED
    BY <1>4, <2>1 DEF ModeFollows
<1>6. ASSUME ModeFollows(gs, "module") PROVE ModeFollows(fs, gs[1].saved.mode)
  <2>1. gs[1].saved.mode = ModeAt(Rank(fs, 1))
    BY <1>1, <1>2, <1>4, <1>6 DEF ModeFollows
  <2>2. ASSUME NEW i \in FilesOf(fs), i < Len(fs)
        PROVE  fs[i].saved.mode = ModeAt(Rank(fs, i) - 1)
    <3>1. i + 1 \in FilesOf(gs) /\ i + 1 < Len(gs)
      BY <1>1, <1>2, <2>2
    <3> QED
      BY <1>1, <1>2, <1>6, <3>1 DEF ModeFollows
  <2> QED
    BY <2>1, <2>2 DEF ModeFollows
<1> QED
  BY <1>5, <1>6

LEMMA FilesOpened ==
  ASSUME NEW fs, IsStack(fs), NEW gs, IsStack(gs), OnTopOf(gs, fs), gs[1].kind = "file",
         NEW names, FilesFollow(fs, names), \A i \in DOMAIN names : names[i] # gs[1].file
  PROVE  FilesFollow(gs, Append(names, gs[1].file))
<1> DEFINE path == gs[1].file
           T == Range(names) \cup {path}
           all == Append(names, path)
<1>1. /\ \A i \in 1..Len(fs) : Rank(gs, i + 1) = Rank(fs, i) /\ Rank(fs, i) \in 1..Rank(fs, 1)
      /\ Rank(gs, 1) = Rank(fs, 1) + 1
      /\ Rank(fs, 1) \in Nat
  BY RankOnTop, RankRange, RankType
<1>2. /\ Len(fs) \in Nat \ {0} /\ Len(gs) = Len(fs) + 1
      /\ \A i \in 1..Len(fs) : gs[i + 1].file = fs[i].file
  BY StackTyped DEF OnTopOf, Alike
<1>3. /\ names \in Seq(Range(names)) /\ Len(names) = Rank(fs, 1) /\ DOMAIN names = 1..Len(names)
  BY LenProperties DEF FilesFollow
<1>4. names \in Seq(T)
  BY <1>3, SeqMonotonic
<1>5. /\ all \in Seq(T)
      /\ Len(all) = Len(names) + 1
      /\ \A i \in 1..Len(names) : all[i] = names[i]
      /\ all[Len(names) + 1] = path
  <2> HIDE DEF path, T
  <2>1. path \in T
    BY DEF T
  <2> QED
    BY <1>4, <2>1, AppendProperties
<1> HIDE DEF all
<1>6. all \in Seq(Range(all))
  BY <1>5, SeqOfRange
<1>7. ASSUME NEW i \in 1..Len(gs) PROVE gs[i].file = all[Rank(gs, i)]
  <2>1. CASE i = 1
    BY <1>1, <1>3, <1>5, <2>1
  <2>2. CASE i # 1
    <3>1. i - 1 \in 1..Len(fs) /\ (i - 1) + 1 = i
      BY <1>2, <2>2
    <3>2. gs[i].file = fs[i - 1].file /\ Rank(gs, i) = Rank(fs, i - 1)
      BY <1>1, <1>2, <3>1
    <3>3. Rank(fs, i - 1) \in 1..Len(names)
      BY <1>1, <1>3, <3>1
    <3>4. fs[i - 1].file = names[Rank(fs, i - 1)]
      BY <3>1 DEF FilesFollow
    <3> QED
      BY <1>5, <3>2, <3>3, <3>4
  <2> QED
    BY <2>1, <2>2
<1>8. ASSUME NEW i \in 1..Len(all), NEW j \in 1..Len(all), all[i] = all[j] PROVE i = j
  <2>1. \A k \in 1..Len(all) : k \in 1..Len(names) \/ k = Len(names) + 1
    BY <1>1, <1>3, <1>5
  <2> QED
    BY <2>1, <1>3, <1>5, <1>8 DEF FilesFollow
<1>9. all[1] = Main /\ Len(all) = Rank(gs, 1)
  BY <1>1, <1>2, <1>3, <1>5 DEF FilesFollow
<1> QED
  BY <1>6, <1>7, <1>8, <1>9 DEF FilesFollow, all

LEMMA FilesClosed ==
  ASSUME NEW fs, IsStack(fs), NEW gs, IsStack(gs), OnTopOf(gs, fs), gs[1].kind = "file",
         NEW names, FilesFollow(gs, names)
  PROVE  FilesFollow(fs, SubSeq(names, 1, Len(names) - 1))
<1> DEFINE rest == SubSeq(names, 1, Len(names) - 1)
<1>1. /\ \A i \in 1..Len(fs) : Rank(gs, i + 1) = Rank(fs, i) /\ Rank(fs, i) \in 1..Rank(fs, 1)
      /\ Rank(gs, 1) = Rank(fs, 1) + 1
      /\ Rank(fs, 1) \in Nat
  BY RankOnTop, RankRange, RankType
<1>2. /\ Len(fs) \in Nat \ {0} /\ Len(gs) = Len(fs) + 1
      /\ \A i \in 1..Len(fs) : i + 1 \in 1..Len(gs) /\ gs[i + 1].file = fs[i].file
  BY StackTyped DEF OnTopOf, Alike
<1>3. names \in Seq(Range(names)) /\ Len(names) = Rank(fs, 1) + 1 /\ Rank(fs, 1) # 0
  BY <1>1, <1>2 DEF FilesFollow
<1>4. /\ rest \in Seq(Range(names))
      /\ Len(rest) = Rank(fs, 1)
      /\ \A i \in 1..Len(rest) : rest[i] = names[i] /\ i \in 1..Len(names)
  <2>1. \A i \in 1..(Len(names) - 1) : names[i] \in Range(names)
    BY <1>1, <1>3, ElementOfSeq
  <2> QED
    BY <1>1, <1>3, <2>1, SubSeqProperties
<1> HIDE DEF rest
<1>5. rest \in Seq(Range(rest))
  BY <1>4, SeqOfRange
<1>6. \A i \in 1..Len(fs) : fs[i].file = rest[Rank(fs, i)]
  BY <1>1, <1>2, <1>4 DEF FilesFollow
<1> QED
  BY <1>1, <1>3, <1>4, <1>5, <1>6 DEF FilesFollow, rest

-----------------------------------------------------------------------------
LEMMA ExecutorInit == Init => ExecutorInv
<1> SUFFICES ASSUME Init PROVE ExecutorInv
  OBVIOUS
<1> DEFINE top == Frame("file", Main, disk[Main], <<1>>)
<1>1. IsRecord(top) /\ top.kind = "file" /\ top.file = Main
  BY DEF Frame, IsRecord
<1>2. frames = <<top>> /\ files = <<Main>> /\ env = "global" /\ mode = "main" /\ hasMain = FALSE
  BY DEF Init
<1> HIDE DEF top
<1>3. frames \in Seq({top}) /\ Len(frames) = 1 /\ frames[1] = top /\ DOMAIN frames = {1}
  BY <1>2
<1>4. frames \in Seq(Range(frames)) /\ frames # <<>>
  BY <1>3, SeqOfRange, EmptySeq
<1>5. IsStack(frames)
  BY <1>1, <1>3, <1>4 DEF IsStack
<1>6. FilesOf(frames) = {1} /\ MainsIn(frames) = {}
  BY <1>1, <1>3 DEF FilesOf, MainsIn
<1>7. Rank(frames, 1) = 1
  <2>1. Files(frames, 1) = {1}
    BY <1>6 DEF Files
  <2> QED
    BY <2>1, FS_Singleton DEF Rank
<1>8. FilesFollow(frames, files)
  <2>1. files \in Seq({Main}) /\ Len(files) = 1 /\ files[1] = Main
    BY <1>2
  <2>2. files \in Seq(Range(files))
    BY <2>1, SeqOfRange
  <2> QED
    BY <1>1, <1>3, <1>7, <2>1, <2>2 DEF FilesFollow
<1>9. MainOnce(frames, env, hasMain)
  BY <1>2, <1>6 DEF MainOnce
<1>10. ModeFollows(frames, mode)
  BY <1>2, <1>3, <1>6, <1>7 DEF ModeFollows, ModeAt
<1> QED
  BY <1>5, <1>8, <1>9, <1>10 DEF ExecutorInv

(* Stopping leaves nothing to be said.                                      *)
LEMMA StopKeeps ==
  ASSUME NEW how, how # "running", Stop(how)
  PROVE  ExecutorInv'
BY DEF Stop, ExecutorInv, Running

LEMMA GoKeeps ==
  ASSUME ExecutorInv, Running, Go, UNCHANGED shared
  PROVE  ExecutorInv'
<1>1. IsStack(frames)
  BY DEF ExecutorInv
<1>2. IsStack(frames') /\ SameStack(frames', frames)
  BY <1>1, PassedStack DEF Go, Passed, Top
<1>3. FilesFollow(frames', files) /\ MainOnce(frames', env, hasMain) /\ ModeFollows(frames', mode)
  BY <1>1, <1>2, SameContext DEF ExecutorInv
<1> QED
  BY <1>2, <1>3 DEF ExecutorInv, shared

(* What is under a new executor is what was there, one instruction on.      *)
LEMMA EnterPushes ==
  ASSUME ExecutorInv, Running, NEW f, IsRecord(f), Enter(f), status' = "running"
  PROVE  IsStack(frames') /\ OnTopOf(frames', frames) /\ frames'[1] = f
<1>1. IsStack(frames)
  BY DEF ExecutorInv
<1>2. frames' = <<f>> \o Passed
  BY DEF Enter, Stop
<1>3. IsStack(Passed) /\ SameStack(Passed, frames)
  BY <1>1, PassedStack DEF Passed, Top
<1>4. IsStack(frames') /\ OnTopOf(frames', Passed) /\ frames'[1] = f
  BY <1>2, <1>3, PushedStack
<1>5. OnTopOf(frames', frames)
  BY <1>3, <1>4 DEF OnTopOf, SameStack, Alike
<1> QED
  BY <1>4, <1>5

(* A jump adds an executor of the file it is in.                            *)
LEMMA JumpKeeps ==
  ASSUME ExecutorInv, Running, NEW l, Jump(l), UNCHANGED shared
  PROVE  ExecutorInv'
<1>1. CASE status' # "running"
  BY <1>1 DEF ExecutorInv, Running
<1>2. CASE status' = "running"
  <2> DEFINE f == BodyOf(l)
  <2>1. Enter(f)
    BY <1>2 DEF Jump, Stop
  <2>2. IsRecord(f) /\ f.kind = "jump" /\ f.file = frames[1].file
    BY DEF BodyOf, Frame, IsRecord, Top
  <2> HIDE DEF f
  <2>3. IsStack(frames') /\ OnTopOf(frames', frames) /\ frames'[1] = f
    BY <1>2, <2>1, <2>2, EnterPushes
  <2>4. IsStack(frames) /\ FilesFollow(frames, files) /\ MainOnce(frames, env, hasMain)
          /\ ModeFollows(frames, mode)
    BY DEF ExecutorInv
  <2>5. FilesFollow(frames', files)
    BY <2>2, <2>3, <2>4, FilesUnder
  <2>6. MainOnce(frames', env, hasMain)
    BY <2>2, <2>3, <2>4, MainUnder
  <2>7. ModeFollows(frames', mode)
    BY <2>2, <2>3, <2>4, ModeUnder
  <2> QED
    BY <2>3, <2>5, <2>6, <2>7 DEF ExecutorInv, shared
<1> QED
  BY <1>1, <1>2

LEMMA FunctionKeeps ==
  ASSUME ExecutorInv, Function
  PROVE  ExecutorInv'
<1>1. Running
  BY DEF Function, Fetch, Fetched
<1>2. CASE status' # "running"
  BY <1>2 DEF ExecutorInv, Running
<1>3. CASE status' = "running" /\ Go /\ UNCHANGED env
  BY <1>1, <1>3, GoKeeps DEF Function, shared
<1>4. CASE status' = "running" /\ ~(Go /\ UNCHANGED env)
  <2> DEFINE f == Frame("main", Top.file, Instr[4], Append(Top.at, Top.pc))
  <2>1. Enter(f) /\ env = "global" /\ mode = "main" /\ ~hasMain /\ env' = "local"
    BY <1>4 DEF Function, Stop
  <2>2. UNCHANGED <<mode, hasMain, files>>
    BY DEF Function
  <2>3. IsRecord(f) /\ f.kind = "main" /\ f.file = frames[1].file /\ f.saved.env = env
    BY DEF Frame, IsRecord, Top
  <2> HIDE DEF f
  <2>4. IsStack(frames') /\ OnTopOf(frames', frames) /\ frames'[1] = f
    BY <1>1, <1>4, <2>1, <2>3, EnterPushes
  <2>5. IsStack(frames) /\ FilesFollow(frames, files) /\ MainOnce(frames, env, hasMain)
          /\ ModeFollows(frames, mode)
    BY <1>1 DEF ExecutorInv
  <2>6. frames[1].file = Main
    <3>1. Len(frames) \in Nat \ {0} /\ Rank(frames, 1) \in Nat
      BY <2>5, StackTyped, RankType
    <3>2. Rank(frames, 1) \in 1..Rank(frames, 1)
      BY <2>5, <3>1, RankRange
    <3>3. Rank(frames, 1) = 1
      BY <2>1, <2>5, <3>1, <3>2 DEF ModeFollows, ModeAt
    <3> QED
      BY <2>5, <3>1, <3>3 DEF FilesFollow
  <2>7. FilesFollow(frames', files)
    BY <2>3, <2>4, <2>5, FilesUnder
  <2>8. hasMain = FALSE
    BY <2>1, <2>5 DEF MainOnce
  <2>9. MainOnce(frames', "local", FALSE)
    BY <2>1, <2>3, <2>4, <2>5, <2>6, <2>8, MainEntered
  <2>10. ModeFollows(frames', mode)
    BY <2>3, <2>4, <2>5, ModeUnder
  <2> QED
    BY <2>1, <2>2, <2>4, <2>7, <2>8, <2>9, <2>10 DEF ExecutorInv
<1> QED
  BY <1>2, <1>3, <1>4

LEMMA ImportKeeps ==
  ASSUME ExecutorInv, Import
  PROVE  ExecutorInv'
<1>1. Running
  BY DEF Import, Fetch, Fetched
<1>2. CASE status' # "running"
  BY <1>2 DEF ExecutorInv, Running
<1>3. CASE status' = "running" /\ Go /\ UNCHANGED <<mode, dir, files, loads>>
  BY <1>1, <1>3, GoKeeps DEF Import, shared
<1>4. CASE status' = "running" /\ ~(Go /\ UNCHANGED <<mode, dir, files, loads>>)
  <2> DEFINE path == <<dir \o Instr[2], Instr[3]>>
             f == [Frame("file", path, disk[path], <<loads + 1>>) EXCEPT !.saved.dir = Parent(dir)]
  <2>1. /\ Enter(f) /\ mode' = "module" /\ files' = Append(files, path)
        /\ path \notin {files[i] : i \in DOMAIN files}
    BY <1>4 DEF Import, Stop
  <2>2. UNCHANGED <<env, hasMain>>
    BY DEF Import
  <2>3. IsRecord(f) /\ f.kind = "file" /\ f.file = path /\ f.saved.mode = mode
    <3> HIDE DEF path
    <3>1. f = [kind |-> "file", file |-> path, code |-> disk[path], at |-> <<loads + 1>>, pc |-> 1,
               saved |-> [env |-> env, mode |-> mode, dir |-> Parent(dir)]]
      BY DEF Frame
    <3> QED
      BY <3>1 DEF IsRecord
  <2> HIDE DEF f, path
  <2>4. IsStack(frames') /\ OnTopOf(frames', frames) /\ frames'[1] = f
    BY <1>1, <1>4, <2>1, <2>3, EnterPushes
  <2>5. IsStack(frames) /\ FilesFollow(frames, files) /\ MainOnce(frames, env, hasMain)
          /\ ModeFollows(frames, mode)
    BY <1>1 DEF ExecutorInv
  <2>6. FilesFollow(frames', files')
    BY <2>1, <2>3, <2>4, <2>5, FilesOpened
  <2>7. MainOnce(frames', env, hasMain)
    BY <2>3, <2>4, <2>5, MainUnder
  <2>8. ModeFollows(frames', "module")
    BY <2>3, <2>4, <2>5, ModeOpened
  <2> QED
    BY <2>1, <2>2, <2>4, <2>6, <2>7, <2>8 DEF ExecutorInv
<1> QED
  BY <1>2, <1>3, <1>4

(* The outermost executor reads the main file, so a jump or main has one    *)
(* under it.                                                                *)
LEMMA OthersBelow ==
  ASSUME NEW fs, IsStack(fs), fs[1].kind # "file"
  PROVE  Len(fs) > 1
BY StackTyped DEF IsStack

LEMMA LeaveJumpKeeps ==
  ASSUME ExecutorInv, LeaveJump
  PROVE  ExecutorInv'
<1>1. Running /\ frames[1].kind = "jump" /\ UNCHANGED shared
  BY DEF LeaveJump, Ended, Top
<1>2. IsStack(frames) /\ FilesFollow(frames, files) /\ MainOnce(frames, env, hasMain)
        /\ ModeFollows(frames, mode)
  BY <1>1 DEF ExecutorInv
<1>3. CASE status' # "running"
  BY <1>3 DEF ExecutorInv, Running
<1>4. CASE status' = "running"
  <2>1. frames' = Tail(frames)
    BY <1>4 DEF LeaveJump, Stop, Drop
  <2>2. IsStack(frames') /\ OnTopOf(frames, frames')
    BY <1>1, <1>2, <2>1, DroppedStack, OthersBelow
  <2>3. FilesFollow(frames', files) /\ MainOnce(frames', env, hasMain) /\ ModeFollows(frames', mode)
    BY <1>1, <1>2, <2>2, FilesUnder, MainUnder, ModeUnder
  <2> QED
    BY <1>1, <2>2, <2>3 DEF ExecutorInv, shared
<1> QED
  BY <1>3, <1>4

LEMMA LeaveMainKeeps ==
  ASSUME ExecutorInv, LeaveMain
  PROVE  ExecutorInv'
<1>1. Running /\ frames[1].kind = "main" /\ UNCHANGED <<mode, files>>
  BY DEF LeaveMain, Ended, Top
<1>2. IsStack(frames) /\ FilesFollow(frames, files) /\ MainOnce(frames, env, hasMain)
        /\ ModeFollows(frames, mode)
  BY <1>1 DEF ExecutorInv
<1>3. CASE status' # "running"
  BY <1>3 DEF ExecutorInv, Running
<1>4. CASE status' = "running"
  <2>1. frames' = Tail(frames) /\ env' = frames[1].saved.env /\ hasMain' = TRUE
    BY <1>4 DEF LeaveMain, Stop, Drop, Top
  <2>2. IsStack(frames') /\ OnTopOf(frames, frames')
    BY <1>1, <1>2, <2>1, DroppedStack, OthersBelow
  <2>3. frames[1].saved.env = "global" /\ MainOnce(frames', "global", TRUE)
    BY <1>1, <1>2, <2>2, MainLeft
  <2>4. FilesFollow(frames', files) /\ ModeFollows(frames', mode)
    BY <1>1, <1>2, <2>2, FilesUnder, ModeUnder
  <2> QED
    BY <1>1, <2>1, <2>2, <2>3, <2>4 DEF ExecutorInv
<1> QED
  BY <1>3, <1>4

LEMMA LeaveFileKeeps ==
  ASSUME ExecutorInv, LeaveFile
  PROVE  ExecutorInv'
<1>1. Running /\ frames[1].kind = "file" /\ Len(frames) > 1 /\ UNCHANGED <<env, hasMain>>
  BY DEF LeaveFile, Ended, Top
<1>2. IsStack(frames) /\ FilesFollow(frames, files) /\ MainOnce(frames, env, hasMain)
        /\ ModeFollows(frames, mode)
  BY <1>1 DEF ExecutorInv
<1>3. CASE status' # "running"
  BY <1>3 DEF ExecutorInv, Running
<1>4. CASE status' = "running"
  <2>1. /\ frames' = Tail(frames) /\ mode' = frames[1].saved.mode
        /\ files' = SubSeq(files, 1, Len(files) - 1)
    BY <1>4 DEF LeaveFile, Stop, Drop, Top
  <2>2. IsStack(frames') /\ OnTopOf(frames, frames')
    BY <1>1, <1>2, <2>1, DroppedStack
  <2>3. FilesFollow(frames', files')
    BY <1>1, <1>2, <2>1, <2>2, FilesClosed
  <2>4. MainOnce(frames', env, hasMain)
    BY <1>1, <1>2, <2>2, MainUnder
  <2>5. mode = "module"
    <3>1. Rank(frames, 1) = Rank(frames', 1) + 1
      BY <1>1, <1>2, <2>2, RankOnTop
    <3>2. Len(frames') \in Nat \ {0} /\ Rank(frames', 1) \in Nat
      BY <2>2, StackTyped, RankType
    <3>3. Rank(frames', 1) \in 1..Rank(frames', 1)
      BY <2>2, <3>2, RankRange
    <3> QED
      BY <1>2, <3>1, <3>2, <3>3 DEF ModeFollows, ModeAt
  <2>6. ModeFollows(frames', frames[1].saved.mode)
    BY <1>1, <1>2, <2>2, <2>5, ModeOpened
  <2> QED
    BY <1>1, <2>1, <2>2, <2>3, <2>4, <2>6 DEF ExecutorInv
<1> QED
  BY <1>3, <1>4

LEMMA ExecutorStep == ExecutorInv /\ [Next]_vars => ExecutorInv'
<1> SUFFICES ASSUME ExecutorInv, [Next]_vars PROVE ExecutorInv'
  OBVIOUS
<1>1. CASE Refuse
  BY <1>1, StopKeeps DEF Refuse
<1>2. CASE Skip
  BY <1>2, GoKeeps DEF Skip, Fetch, Fetched
<1>3. CASE Label
  <2>1. Running /\ UNCHANGED shared /\ (Stop("crashed") \/ Go)
    BY <1>3 DEF Label, Fetch, Fetched
  <2> QED
    BY <2>1, StopKeeps, GoKeeps
<1>4. CASE Goto
  BY <1>4, JumpKeeps DEF Goto, Fetch, Fetched
<1>5. CASE JumpIf
  <2>1. Running /\ UNCHANGED shared /\ (Jump(Instr[2]) \/ Go)
    BY <1>5 DEF JumpIf, Fetch, Fetched
  <2> QED
    BY <2>1, JumpKeeps, GoKeeps
<1>6. CASE Cmp
  BY <1>6, GoKeeps DEF Cmp, Fetch, Fetched
<1>7. CASE Add
  BY <1>7, GoKeeps DEF Add, Fetch, Fetched
<1>8. CASE Call
  <2>1. Running /\ UNCHANGED shared /\ (Stop("refused") \/ Go)
    BY <1>8 DEF Call, Fetch, Fetched
  <2> QED
    BY <2>1, StopKeeps, GoKeeps
<1>9. CASE Exit
  BY <1>9, StopKeeps DEF Exit
<1>10. CASE Export
  BY <1>10, StopKeeps DEF Export
<1>11. CASE Function
  BY <1>11, FunctionKeeps
<1>12. CASE Import
  BY <1>12, ImportKeeps
<1>13. CASE LeaveJump
  BY <1>13, LeaveJumpKeeps
<1>14. CASE LeaveMain
  BY <1>14, LeaveMainKeeps
<1>15. CASE LeaveFile
  BY <1>15, LeaveFileKeeps
<1>16. CASE Finish
  <2>1. Stop("refused") \/ Stop("done")
    BY <1>16 DEF Finish
  <2> QED
    BY <2>1, StopKeeps
<1>17. CASE UNCHANGED vars
  BY <1>17 DEF vars, shared, ExecutorInv, Running
<1> QED
  BY <1>1, <1>2, <1>3, <1>4, <1>5, <1>6, <1>7, <1>8, <1>9, <1>10, <1>11, <1>12, <1>13,
     <1>14, <1>15, <1>16, <1>17 DEF Next

(* The ranks of the invariant are the positions the property speaks of.     *)
LEMMA ExecutorInvMeans == ExecutorInv => ContextOfFrames
<1> SUFFICES ASSUME ExecutorInv, Running PROVE ContextOfFrames
  BY DEF ContextOfFrames
<1>1. IsStack(frames) /\ FilesFollow(frames, files) /\ MainOnce(frames, env, hasMain)
        /\ ModeFollows(frames, mode)
  BY DEF ExecutorInv
<1>2. DOMAIN frames = 1..Len(frames) /\ Len(frames) \in Nat \ {0}
  BY <1>1, StackTyped
<1>3. Rank(frames, 1) = Cardinality(FilesOf(frames)) /\ Rank(frames, 1) \in Nat
  <2>1. Files(frames, 1) = FilesOf(frames)
    BY <1>2 DEF Files, FilesOf
  <2> QED
    BY <1>1, <2>1, RankType DEF Rank
<1>4. (env = "local") = ("main" \in KindsIn(frames))
  BY <1>1 DEF MainOnce, MainsIn, KindsIn
<1>5. (mode = "module") = (Cardinality(FilesOf(frames)) > 1)
  BY <1>1, <1>3 DEF ModeFollows, ModeAt
<1>6. Len(files) = Cardinality(FilesOf(frames))
  BY <1>1, <1>3 DEF FilesFollow
<1>7. ASSUME NEW i \in FilesOf(frames)
      PROVE  frames[i].file = files[Cardinality({j \in FilesOf(frames) : j >= i})]
  BY <1>1, <1>2 DEF FilesFollow, Rank, Files, FilesOf
<1>8. \A i, j \in DOMAIN files : files[i] = files[j] => i = j
  <2>1. DOMAIN files = 1..Len(files)
    BY <1>1, LenProperties DEF FilesFollow
  <2> QED
    BY <1>1, <2>1 DEF FilesFollow
<1>9. Cardinality({i \in DOMAIN frames : frames[i].kind = "main"}) <= (IF hasMain THEN 0 ELSE 1)
  <2>1. CASE MainsIn(frames) = {}
    <3>1. Cardinality(MainsIn(frames)) = 0
      BY <2>1, FS_EmptySet
    <3> QED
      BY <3>1 DEF MainsIn
  <2>2. CASE MainsIn(frames) # {}
    <3>1. PICK i \in MainsIn(frames) : TRUE
      BY <2>2
    <3>2. MainsIn(frames) = {i} /\ ~hasMain
      BY <1>1, <2>2, <3>1 DEF MainOnce
    <3>3. Cardinality(MainsIn(frames)) = 1
      BY <3>2, FS_Singleton
    <3> QED
      BY <3>2, <3>3 DEF MainsIn
  <2> QED
    BY <2>1, <2>2
<1>10. \A i \in DOMAIN frames : frames[i].kind = "main" => frames[i].file = Main
  BY <1>1 DEF MainOnce, MainsIn
<1> QED
  BY <1>4, <1>5, <1>6, <1>7, <1>8, <1>9, <1>10 DEF ContextOfFrames

(* The static fields agree with the executors there are, in every program:  *)
(* code is local exactly in main, a file a module exactly under an import,  *)
(* no file is read inside itself, and main is run once, by the main file.   *)
THEOREM ContextAlwaysOfFrames == Spec => []ContextOfFrames
<1>1. Init => ExecutorInv
  BY ExecutorInit
<1>2. ExecutorInv /\ [Next]_vars => ExecutorInv'
  BY ExecutorStep
<1>3. ExecutorInv => ContextOfFrames
  BY ExecutorInvMeans
<1> QED
  BY <1>1, <1>2, <1>3, PTL DEF Spec
=============================================================================
