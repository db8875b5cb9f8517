------------------------- MODULE MCManifestProject --------------------------
(* Instances of ManifestProject for TLC. *)
EXTENDS ManifestProject, TLC
=============================================================================
