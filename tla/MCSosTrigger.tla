---------------------------- MODULE MCSosTrigger ----------------------------
(* SosTrigger on a handful of users, sessions and simultaneous calls: see   *)
(* MCSosTrigger.cfg.                                                        *)
EXTENDS SosTrigger
=============================================================================
