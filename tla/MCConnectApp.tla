----------------------------- MODULE MCConnectApp ------------------------------
(***************************************************************************)
(* Two devices in reach and one refresh of the user at a time.             *)
(***************************************************************************)
EXTENDS ConnectApp, TLC

CONSTANTS d1, d2

MCSymmetry == Permutations(Devices)

================================================================================
