---------------------------- MODULE MCMultiboot ----------------------------
(***************************************************************************)
(* Command lines for Multiboot: two jobs with every combination of         *)
(* outcomes, fewer or more outputs than sources, the same output twice,    *)
(* no target, no source.                                                   *)
(***************************************************************************)
EXTENDS Multiboot

CONSTANTS a, b, c

Cmd(sources, outputs) ==
  [sources |-> sources, outputs |-> outputs, target |-> TRUE, emergency |-> FALSE]
Emergency(command) == [command EXCEPT !.emergency = TRUE]
NoTarget(command) == [command EXCEPT !.target = FALSE]

MCFiles == {a, b, c}

Pairs == {Cmd(<<first, second>>, <<a, b>>) : first \in Outcomes, second \in Outcomes}
MCBuilds ==
  Pairs \cup {Emergency(pair) : pair \in Pairs}
    \cup {NoTarget(Cmd(<<"compiles">>, <<c>>)),
          Cmd(<<"compiles", "compiles">>, <<c>>), Cmd(<<"compiles">>, <<c, b>>),
          Cmd(<<"compiles", "missing", "compiles">>, <<b, c, b>>),
          Cmd(<<"compiles">>, << >>), Cmd(<< >>, <<a>>)}
=============================================================================
