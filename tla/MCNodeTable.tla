------------------------------ MODULE MCNodeTable ------------------------------
(***************************************************************************)
(* A table of three slots that four nodes compete for, two of which share  *)
(* a short id, as do this device and the fourth.  One tick of four seconds *)
(* already makes an entry stale (interval 1 s plus grace 2 s).             *)
(***************************************************************************)
EXTENDS NodeTable, TLC

CONSTANTS me, a, b, c

MCShortId == (me :> 1) @@ (a :> 2) @@ (b :> 2) @@ (c :> 1)

\* a and b are interchangeable.
MCSymmetry == Permutations({a, b})

================================================================================
