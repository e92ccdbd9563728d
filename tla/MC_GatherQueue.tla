--------------------------- MODULE MC_GatherQueue ---------------------------
(***************************************************************************)
(* A page gathered under a profile that can be deleted, then that page     *)
(* again (or its retry) or another one.                                    *)
(***************************************************************************)
EXTENDS GatherQueue

CONSTANTS p, q, a, b

MCAsked == << {<<p, b>>}, {<<p, b>>, <<q, a>>} >>
=============================================================================
