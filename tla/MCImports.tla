----------------------------- MODULE MCImports -----------------------------
(***************************************************************************)
(* Small instances of Imports.  Jobs name rows, and are interchangeable.   *)
(***************************************************************************)
EXTENDS Imports, TLC

JobsSymmetry == Permutations(Jobs)
=============================================================================
