------------------------------ MODULE MCRadioLink ------------------------------
(***************************************************************************)
(* Two senders for the one slot that is left beside this device's own.     *)
(* Numbers are counted modulo 6; the counter of a wraps in its sixth or    *)
(* third packet.                                                           *)
(***************************************************************************)
EXTENDS RadioLink, TLC

CONSTANTS me, a, b

MCShortId == (me :> 1) @@ (a :> 2) @@ (b :> 2)

MCFirstIdx == (a :> {0, 3}) @@ (b :> {0})

MCLastIdx == (a :> 8) @@ (b :> 1)

MCIndices == 1 .. 8

================================================================================
