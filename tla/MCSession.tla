-------------------------------- MODULE MCSession --------------------------------
(***************************************************************************)
(* An instance of Session for TLC: three tasks, transactions of two rows,  *)
(* and two tables.  No symmetry, for WaitersServed is a liveness property. *)
(***************************************************************************)
EXTENDS Session

CONSTANTS t1, t2, t3, row1, row2

MCTask == {t1, t2, t3}
MCRow == {row1, row2}
MCTable == {"node", "step"}
=============================================================================
