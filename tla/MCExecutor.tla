----------------------------- MODULE MCExecutor -----------------------------
(***************************************************************************)
(* Main files of up to two declarations and a main of up to three          *)
(* instructions, before or after them, beside two other files; and what    *)
(* the programs mean, as a function of their text.                         *)
(***************************************************************************)
EXTENDS Executor, SequencesExt

MainFile == <<<<"home", "work">>, "main">>
F(d, n) == <<<<"home", "work">> \o d, n>>
Fn(body) == <<"function", "main", FALSE, body>>

MCDeclarations ==
  { <<"label", "a", <<<<"add", 1>>, <<"cmp", 3>>, <<"jnz", "a">>, <<"add", 4>>>>>>,
    <<"label", "a", <<<<"jle", "b">>, <<"jmp", "a">>>>>>,
    <<"label", "a", <<<<"label", "b", <<<<"add", 2>>>>>>, <<"goto", "b">>>>>>,
    <<"label", "b", <<<<"add", 1>>, <<"exit">>>>>>,
    <<"label", "b", <<<<"goto", "a">>, <<"cmp", 2>>>>>>,
    <<"import", <<>>, "m">>, <<"import", <<"lib">>, "m">>, <<"local">>, <<"section">>,
    <<"ret">>, <<"function", "f", TRUE, <<<<"add", 1>>>>>>, <<"function", "main", TRUE, <<>>>> }

MCSteps ==
  { <<"add", 1>>, <<"cmp", 2>>, <<"goto", "a">>, <<"goto", "b">>, <<"jle", "b">>, <<"jnz", "a">>,
    <<"import", <<>>, "m">>, <<"ret">>, <<"exit">> }
MCRareSteps ==
  { <<<<"call", "malloc">>, <<"add", 1>>>>, <<<<"call", "print">>>>, <<<<"export">>>>, <<Fn(<<>>)>>,
    <<<<"import", <<"lib">>, "m">>, <<"goto", "a">>>>,
    <<<<"label", "b", <<>>>>, <<"goto", "b">>, <<"add", 1>>>> }

SeqsUpTo(S, n) == UNION {[1..k -> S] : k \in 0..n}
MCBodies == SeqsUpTo(MCSteps, 3) \cup MCRareSteps
MCFiles ==
  LET few == {<<>>} \cup {<<d>> : d \in MCDeclarations}
      short == SeqsUpTo(MCSteps, 1) \cup MCRareSteps \cup {<<<<"goto", "a">>, <<"goto", "b">>>>}
  IN  {ds \o <<Fn(b)>> : ds \in few, b \in MCBodies}
      \cup {ds \o <<Fn(b)>> : ds \in SeqsUpTo(MCDeclarations, 2), b \in short}
      \cup {<<Fn(<<<<"add", 1>>>>)>> \o ds : ds \in few \cup {<<>>, <<Fn(<<>>)>>}}
      \cup few
MCModules ==
  { <<<<"label", "a", <<<<"add", 2>>>>>>, <<"import", <<>>, "main">>, Fn(<<<<"add", 5>>>>)>>,
    <<<<"import", <<"lib">>, "m">>, <<"label", "b", <<<<"add", 3>>>>>>>>,
    <<<<"goto", "a">>>> }

MCDisks ==
  {(MainFile :> m) @@ (F(<<>>, "m") :> n) @@ (F(<<"lib">>, "m") :> o) :
     m \in MCFiles, n \in MCModules, o \in {<<<<"label", "b", <<<<"add", 1>>>>>>>>, <<Fn(<<>>)>>}}

(***************************************************************************)
(* The meaning of a program: a block is run where it stands, a jump runs   *)
(* the block of its label and goes on, an import starts from the directory *)
(* of the file it is in. "odd" collects what this program does otherwise.  *)
(***************************************************************************)
Here(ctx, at) == [ctx EXCEPT !.depth = @ + 1, !.at = at]

RECURSIVE Block(_, _, _)
Inside(code, ctx, st) ==
  IF ctx.depth > MaxDepth THEN [st EXCEPT !.end = "crashed", !.odd = @ \cup {"too deep"}]
  ELSE Block(code, ctx, st)

Jumped(l, ctx, st) ==
  IF l \in DOMAIN st.labels THEN Inside(st.labels[l].code, Here(ctx, st.labels[l].at), st)
  ELSE [st EXCEPT !.end = "refused"]

Declared(i, at, st) ==
  [st EXCEPT !.labels = (i[2] :> [code |-> i[3], at |-> at]) @@ @,
             !.odd = IF at \in st.seen THEN @ \cup {"label again"} ELSE @,
             !.seen = @ \cup {at}]

Imported(i, ctx, st) ==
  LET path == <<ctx.open[1][1] \o i[2], i[3]>>
      again == ctx.unit \in st.importers
      read == Inside(disk[path],
                     [Here(ctx, <<st.units + 1>>) EXCEPT
                        !.open = <<path>> \o @, !.unit = st.units + 1],
                     [st EXCEPT !.units = @ + 1])
  IN  IF again THEN [st EXCEPT !.end = "unknown", !.odd = @ \cup {"import again"}]
      ELSE IF path \in ToSet(ctx.open) THEN st
      ELSE IF path \notin DOMAIN disk THEN [st EXCEPT !.end = "refused"]
      ELSE [read EXCEPT !.importers = @ \cup {ctx.unit}]

Mained(i, at, ctx, st) ==
  IF i[3] \/ ctx.local THEN [st EXCEPT !.end = "refused"]
  ELSE IF Len(ctx.open) > 1 THEN st
  ELSE IF st.main THEN [st EXCEPT !.end = "refused"]
  ELSE [Inside(i[4], [Here(ctx, at) EXCEPT !.local = TRUE], st) EXCEPT !.main = TRUE]

Meant(i, at, ctx, st) ==
  IF ~ctx.local /\ i[1] \notin {"import", "export", "label", "function", "local", "section"}
  THEN [st EXCEPT !.end = "refused"]
  ELSE CASE i[1] = "add" -> [st EXCEPT !.eax = (@ + i[2]) % Word]
         [] i[1] = "cmp" -> [st EXCEPT !.equal = st.eax = i[2], !.less = st.eax < i[2]]
         [] i[1] = "exit" -> [st EXCEPT !.end = "exited"]
         [] i[1] = "export" -> [st EXCEPT !.end = "refused"]
         [] i[1] = "call" -> IF i[2] = "malloc" THEN st ELSE [st EXCEPT !.end = "refused"]
         [] i[1] \in {"goto", "jmp"} -> Jumped(i[2], ctx, st)
         [] i[1] = "jnz" -> IF st.equal THEN st ELSE Jumped(i[2], ctx, st)
         [] i[1] = "jle" -> IF st.less THEN [st EXCEPT !.odd = @ \cup {"less"}, !.end = "unknown"]
                            ELSE IF st.equal THEN Jumped(i[2], ctx, st) ELSE st
         [] i[1] = "label" -> Declared(i, at, st)
         [] i[1] = "import" -> Imported(i, ctx, st)
         [] i[1] = "function" /\ i[2] = "main" -> Mained(i, at, ctx, st)
         [] OTHER -> st

Block(code, ctx, st) ==
  FoldLeft(LAMBDA s, k : IF s.end # "" THEN s ELSE Meant(code[k], Append(ctx.at, k), ctx, s),
           st, [k \in 1..Len(code) |-> k])

Meaning ==
  LET st == Inside(disk[Main],
                   [depth |-> 1, at |-> <<1>>, open |-> <<Main>>, unit |-> 1, local |-> FALSE],
                   [eax |-> 0, equal |-> FALSE, less |-> FALSE, labels |-> <<>>, seen |-> {},
                    importers |-> {}, units |-> 1, main |-> FALSE, end |-> "", odd |-> {}])
  IN  [st EXCEPT !.end = IF @ # "" THEN @ ELSE IF st.main THEN "done" ELSE "refused"]

\* A program that has ended has done what its text means, however main, jumps and imports
\* are nested; excepted are the programs that do one of four things: a file imports a
\* second time (module-member.js:44 keeps the parent of the directory), a label inside a
\* label is declared a second time (branch-member.js:12), jle is asked after a comparison
\* with a greater number (jump-member.js:17), or the stack is not deep enough.
RunsAsMeant ==
  status # "running" =>
    \/ Meaning.odd # {}
    \/ Meaning.end = status /\ Meaning.eax = cpu.eax
=============================================================================
