------------------------------- MODULE MCBeaconTx -------------------------------
(***************************************************************************)
(* Intervals as small as their order allows: minimum interval 1, silence 3,*)
(* jitter 1, backoff 1 doubling to 2, a loop up to a tick late, on a clock *)
(* that wraps after 6 ticks.                                               *)
(***************************************************************************)
EXTENDS BeaconTx

================================================================================
