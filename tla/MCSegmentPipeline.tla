------------------------- MODULE MCSegmentPipeline -------------------------
(***************************************************************************)
(* SegmentPipeline on small segments.                                      *)
(***************************************************************************)
EXTENDS SegmentPipeline
=============================================================================
