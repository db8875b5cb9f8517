--------------------------- MODULE MCNetworkHalf ---------------------------
(* Instances of NetworkHalf: projects with names of their own, and projects *)
(* that share a name.                                                       *)
EXTENDS NetworkHalf

MCNames    == {"app", "lib", "doc"}
MCDistinct == <<"app", "lib", "doc">>
MCShared   == <<"app", "app", "lib", "doc">>
=============================================================================
