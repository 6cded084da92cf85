------------------------------ MODULE MCBleSnapshot ------------------------------
(***************************************************************************)
(* One record to a page and room for three of four nodes: up to three      *)
(* pages, and while they are read an eviction, of a node that may return.  *)
(***************************************************************************)
EXTENDS BleSnapshot

================================================================================
