--------------------------- MODULE MCMonitorWarn ---------------------------
(***************************************************************************)
(* Small instance of MonitorWarn: two legs in one expiry, a third in       *)
(* another.                                                                *)
(***************************************************************************)
EXTENDS MonitorWarn, TLC

CONSTANTS callWarn, putWarn, farWarn, near, far

MCGroupOf == callWarn :> near @@ putWarn :> near @@ farWarn :> far
==============================================================================
