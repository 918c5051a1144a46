--------------------------- MODULE MCContentServer --------------------------
(***************************************************************************)
(* ContentServer for the numbers of createContent.sh and few frames.       *)
(***************************************************************************)
EXTENDS ContentServer
=============================================================================
