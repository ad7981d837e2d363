-------------------- MODULE MCLoopConditionExplicitizer --------------------
(***************************************************************************)
(* Every loop, with integers of three bits where they have a width.        *)
(***************************************************************************)
EXTENDS LoopConditionExplicitizer

MCShapes == Shape
MCValues == -4 .. 7
=============================================================================
