----------------------------- MODULE MCDOMParser ----------------------------
(***************************************************************************)
(* DOMParser on all documents of a few events.                             *)
(***************************************************************************)
EXTENDS DOMParser
=============================================================================
