---------------------------- MODULE MCFileTools ----------------------------
(***************************************************************************)
(* Two sessions with two calls and one.                                    *)
(***************************************************************************)
EXTENDS FileTools, TLC

MCSessionOf == [c1 |-> "s1", c2 |-> "s1", c3 |-> "s2"]

TextSymmetry == Permutations(Texts)
=============================================================================
