----------------------------- MODULE MCExecute -----------------------------
(***************************************************************************)
(* Instances of Execute for TLC.  Two rules and the drafts "wide" and      *)
(* "narrow", of which the first covers the second, give every comparison   *)
(* outcome; "odd" cannot be normalised.                                    *)
(***************************************************************************)
EXTENDS Execute, TLC

CONSTANTS j1, j2, p1, p2

MCCovers == {<<"wide", "narrow">>} \cap (Drafts \X Drafts)

PushersSymmetry == Permutations(Pushers)
============================================================================
