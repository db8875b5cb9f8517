--------------------------- MODULE MCProjectSync ----------------------------
(* The instance of ProjectSync for TLC. *)
EXTENDS ProjectSync
=============================================================================
