---------------------------- MODULE MCBleMailboxes -----------------------------
(***************************************************************************)
(* Two names; of the four profiles a phone may ask for, the ids 0 and 3 of *)
(* either type, two exist; four requests of the phone.                     *)
(***************************************************************************)
EXTENDS BleMailboxes

================================================================================
