------------------------- MODULE MCOpticalLinkage -------------------------
(* An instance of OpticalLinkage for TLC: a task that takes photos. *)
EXTENDS OpticalLinkage

Photos == <<"photo">>
=============================================================================
