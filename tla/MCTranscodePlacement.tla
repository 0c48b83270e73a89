------------------------ MODULE MCTranscodePlacement ------------------------
(* Small instances of TranscodePlacement.                                  *)
EXTENDS TranscodePlacement

CONSTANTS n1, n2
=============================================================================
