-------------------------- MODULE MCChunkDownload --------------------------
(***************************************************************************)
(* ChunkDownload on a source of a few bytes.                               *)
(***************************************************************************)
EXTENDS ChunkDownload
=============================================================================
