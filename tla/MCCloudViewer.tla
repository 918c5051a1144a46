--------------------------- MODULE MCCloudViewer ---------------------------
(***************************************************************************)
(* CloudViewer on a few frames.                                            *)
(***************************************************************************)
EXTENDS CloudViewer
=============================================================================
