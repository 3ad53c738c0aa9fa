---------------------------- MODULE MCCodingApp ----------------------------
(* CodingApp on small instances. *)
EXTENDS CodingApp, TLC

\* Files, contents and calls are only compared with one another.
Symmetry == Permutations(Files) \cup Permutations(Contents) \cup Permutations(Tools)
=============================================================================
