---------------------------- MODULE MCLocalHalf ----------------------------
(* An instance of LocalHalf: a project with three nested projects, one of  *)
(* which has a project of its own: one more subtree than the channel holds.  *)
EXTENDS LocalHalf

MCNested == <<0, 1, 1, 3, 1>>
=============================================================================
