--------------------------- MODULE MCConstructRun ---------------------------
(***************************************************************************)
(* Three threads build a project of one source and two scripts, each of    *)
(* which adds a source of its own; what one defines is for its source, the *)
(* other defines something while that source may be compiled.              *)
(***************************************************************************)
EXTENDS ConstructRun

Compiles(s) == [do |-> "compile", what |-> s]
DefinesIt(d) == [do |-> "define", what |-> d]
Runs == [do |-> "run"]

AllSources == {"a", "b", "c", "s", "t"}
ScriptNames == {"s", "t"}
ScriptedProject == <<"a", "s", "t">>

ScriptProgram == [s |-> <<Runs, DefinesIt("D"), Compiles("b")>>, t |-> <<Compiles("c"), DefinesIt("E")>>]
=============================================================================
