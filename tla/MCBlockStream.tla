---------------------------- MODULE MCBlockStream ---------------------------
(***************************************************************************)
(* BlockStream with a few bytes.                                           *)
(***************************************************************************)
EXTENDS BlockStream
=============================================================================
