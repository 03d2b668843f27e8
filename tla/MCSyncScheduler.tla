-------------------------- MODULE MCSyncScheduler --------------------------
(* Two tickers, one subscribed and one followed while it is held; the       *)
(* second day is no trading day, the third a Monday.                        *)
EXTENDS SyncScheduler

Slots == {"p1", "p2"}
Firms == {"old", "new"}
=============================================================================
