-------------------------- MODULE MCBoundedBuffer --------------------------
(***************************************************************************)
(* BoundedBuffer on small sets of threads and messages.  The threads and   *)
(* the messages are interchangeable, but liveness is checked in the same   *)
(* run, so no symmetry is declared.                                        *)
(***************************************************************************)
EXTENDS BoundedBuffer
=============================================================================
