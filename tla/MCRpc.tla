-------------------------------- MODULE MCRpc --------------------------------
(***************************************************************************)
(* Rpc with two or three callers.                                          *)
(***************************************************************************)
EXTENDS Rpc
CONSTANTS c1, c2, c3
TwoCallers == {c1, c2}
BothKinds == {"async", "sync"}
OnlySecond == {c2}
=============================================================================
