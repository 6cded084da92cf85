---------------------------- MODULE MCBleSubscription ----------------------------
(***************************************************************************)
(* Three nodes for a table with room for two, batches of one record, a     *)
(* window of two passes as in the firmware.                                *)
(***************************************************************************)
EXTENDS BleSubscription, TLC

NodesAndFacts == Permutations(Nodes) \cup Permutations(Facts)

================================================================================
