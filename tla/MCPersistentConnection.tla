----------------------- MODULE MCPersistentConnection -----------------------
(***************************************************************************)
(* PersistentConnection with responses of different lengths.               *)
(***************************************************************************)
EXTENDS PersistentConnection, TLC

CONSTANTS c1, c2, c3

TwoSizes == c1 :> 2 @@ c2 :> 1
ThreeSizes == TwoSizes @@ c3 :> 0
=============================================================================
