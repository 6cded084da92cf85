---------------------------- MODULE MCNodeTableStore ----------------------------
(***************************************************************************)
(* A table with room for one remote node of two, saved at most every other *)
(* tick of ten seconds on a clock that wraps, and two faults.              *)
(***************************************************************************)
EXTENDS NodeTableStore, TLC

CONSTANTS me, a, b

MCShortId == (me :> 1) @@ (a :> 2) @@ (b :> 1)

================================================================================
