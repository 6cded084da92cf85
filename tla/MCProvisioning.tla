---------------------------- MODULE MCProvisioning -----------------------------
(***************************************************************************)
(* A radio whose registers may hold anything, four kinds of flash (erased, *)
(* a Dog's, one of a newer firmware with a role and a radio profile that   *)
(* this one does not know, a tracker's with an illegal record), two        *)
(* commands and two faults.                                                *)
(***************************************************************************)
EXTENDS Provisioning, TLC

Store(cur, radio, prev, i, s, d) ==
  ("role_cur" :> cur) @@ ("prof_cur" :> radio) @@ ("role_prev" :> prev)
    @@ ("prof_prev" :> radio) @@ ("interval" :> i) @@ ("silence" :> s) @@ ("dist" :> d)

MCFirstStores ==
  { Store(Absent, Absent, Absent, Absent, Absent, Absent),
    Store(1, 0, 2, 11, 5, 15),
    Store(7, 9, 1, 20, 255, 100),
    Store(2, 0, 0, 360, 11, 30) }

================================================================================
