---------------------------- MODULE MCStatsStore ----------------------------
(* The statistics store on a small instance: one device with a board that  *)
(* anomaly() watches and one that it does not.                             *)
EXTENDS StatsStore
CONSTANTS dex, badges
Highest == [f \in Field |-> IF f = dex THEN 2 ELSE 0]
=============================================================================
