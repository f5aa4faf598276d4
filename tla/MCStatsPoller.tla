--------------------------- MODULE MCStatsPoller ---------------------------
(* Finite instances of StatsPoller.                                        *)
EXTENDS StatsPoller
=============================================================================
