------------------------------- MODULE Loops -------------------------------
(***************************************************************************)
(* The loops of the code, for the modules that translate them.             *)
(***************************************************************************)
EXTENDS Integers, Sequences, SequencesExt

\* A step that is taken so many times; a step that leaves its argument alone ends the loop.
Repeat(Step(_), x, times) == FoldLeft(LAMBDA y, i : Step(y), x, [i \in 1 .. times |-> i])
=============================================================================
