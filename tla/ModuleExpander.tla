--------------------------- MODULE ModuleExpander ---------------------------
(***************************************************************************)
(* From the main file to one tree: core.js reads and parses it, and the    *)
(* ModuleExpander (src/parsing/module_expander.cts) puts in the place of   *)
(* every @import and @include at the top of a file what that file          *)
(* contains, once.                                                         *)
(*                                                                         *)
(* A path is <<directory, name>>. An import is looked for in the           *)
(* directory of the file that has it, an include in that of the library.   *)
(* The files on disk are what the lexer makes of them, three points being  *)
(* three tokens: the main file's are joined before it is parsed            *)
(* (transform-v2.js), those of the others are not.                         *)
(***************************************************************************)
EXTENDS Parser, SequencesExt

CONSTANTS
  Main,      \* the path of the file to compile
  Library    \* the directory of the library

VARIABLES
  disk,      \* path -> tokens, for the files that exist
  loaded,    \* loadedFiles
  stack,     \* the calls of expand: [file, nodes still to go through]
  ast,       \* expandedAST of all calls, in the order of the result
  status     \* "start", "expanding", "done", or "refused" when the process has ended

expanderVars == <<disk, loaded, stack, ast, status>>

\* Transformer.transform: "..." is one token, ".." is an error ("none" here).
RECURSIVE Transform(_)
Transform(toks) ==
  IF toks = <<>> THEN <<>>
  ELSE IF Len(toks) >= 3 /\ SubSeq(toks, 1, 3) = <<".", ".", ".">>
  THEN <<"...">> \o Transform(SubSeq(toks, 4, Len(toks)))
  ELSE IF Len(toks) >= 2 /\ SubSeq(toks, 1, 2) = <<".", ".">> THEN <<"none">>
  ELSE <<Head(toks)>> \o Transform(Tail(toks))

Refuse ==
  /\ status' = "refused"
  /\ stack' = <<>>

\* The file is parsed and expand is called on its nodes; a refused token ends the process.
Enter(file, unit, rest) ==
  IF unit.s.ok
  THEN stack' = <<[file |-> file, nodes |-> unit.n]>> \o rest /\ UNCHANGED status
  ELSE Refuse

Start ==
  /\ status = "start"
  /\ loaded' = loaded \cup {Main}
  /\ LET tokens == Transform(disk[Main])
         unit == Parse(tokens)
     IN  IF "none" \notin ToSet(tokens) /\ unit.s.ok
         THEN /\ stack' = <<[file |-> Main, nodes |-> unit.n]>>
              /\ status' = "expanding"
         ELSE Refuse
  /\ UNCHANGED <<disk, ast>>

Top == stack[1]
Node == Head(Top.nodes)
Rest == <<[Top EXCEPT !.nodes = Tail(@)]>> \o Tail(stack)
Expanding == status = "expanding" /\ stack # <<>>
IsImport(node) == node[1] = "ins" /\ node[2] \in {"import", "include"}

\* The operand is expected to be a text; of anything else the name is not a path.
Target(node) ==
  IF Len(node[3]) > 0 /\ node[3][1][1] = "lit"
  THEN <<IF node[2] = "include" THEN Library ELSE Top.file[1], node[3][1][2]>>
  ELSE <<"nowhere", "nothing">>

KeepNode ==
  /\ Expanding /\ Top.nodes # <<>> /\ ~IsImport(Node)
  /\ ast' = Append(ast, Node)
  /\ stack' = Rest
  /\ UNCHANGED <<disk, loaded, status>>

\* Mutant: a file is remembered when all of it has been expanded.
ImportRemembersLate ==
  /\ Expanding /\ Top.nodes # <<>> /\ IsImport(Node)
  /\ \/ Target(Node) \in loaded /\ stack' = Rest /\ UNCHANGED <<loaded, status>>
     \/ /\ Target(Node) \notin loaded
        /\ Target(Node) \in DOMAIN disk
        /\ loaded' = IF \E i \in DOMAIN stack : stack[i].file = Target(Node)
                     THEN loaded \cup {Target(Node)} ELSE loaded
        /\ Enter(Target(Node), Parse(disk[Target(Node)]), Rest)
     \/ Target(Node) \notin loaded \cup DOMAIN disk /\ Refuse /\ UNCHANGED loaded
  /\ UNCHANGED <<disk, ast>>

\* Mutant: what a file contains is put after the statements that follow the import.
ImportPutsLast ==
  /\ Expanding /\ Top.nodes # <<>> /\ IsImport(Node)
  /\ \/ Target(Node) \in loaded /\ stack' = Rest /\ UNCHANGED <<loaded, status>>
     \/ /\ Target(Node) \in DOMAIN disk \ loaded
        /\ loaded' = loaded \cup {Target(Node)}
        /\ stack' = <<Rest[1], [file |-> Target(Node), nodes |-> Parse(disk[Target(Node)]).n]>> \o Tail(Rest)
        /\ UNCHANGED status
     \/ Target(Node) \notin loaded \cup DOMAIN disk /\ Refuse /\ UNCHANGED loaded
  /\ UNCHANGED <<disk, ast>>

\* An import of a file seen before is dropped; a file that is not there ends the process.
Import ==
  /\ Expanding /\ Top.nodes # <<>> /\ IsImport(Node)
  /\ \/ /\ Target(Node) \in loaded
        /\ stack' = Rest
        /\ UNCHANGED <<loaded, status>>
     \/ /\ Target(Node) \notin loaded
        /\ Target(Node) \in DOMAIN disk
        /\ loaded' = loaded \cup {Target(Node)}
        /\ Enter(Target(Node), Parse(disk[Target(Node)]), Rest)
     \/ /\ Target(Node) \notin loaded \cup DOMAIN disk
        /\ Refuse
        /\ UNCHANGED loaded
  /\ UNCHANGED <<disk, ast>>

\* A call of expand is over.
Leave ==
  /\ Expanding /\ Top.nodes = <<>>
  /\ stack' = Tail(stack)
  /\ status' = IF Len(stack) = 1 THEN "done" ELSE status
  /\ UNCHANGED <<disk, loaded, ast>>

Expander == Start \/ KeepNode \/ Import \/ Leave
=============================================================================
