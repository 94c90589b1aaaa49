--------------------------- MODULE MCBlockwiseRun ---------------------------
(***************************************************************************)
(* Two samples or targets with two block sizes each, started three times.  *)
(***************************************************************************)
EXTENDS BlockwiseRun

===========================================================================
