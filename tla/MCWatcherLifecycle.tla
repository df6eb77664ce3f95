--------------------------- MODULE MCWatcherLifecycle ---------------------------
(***************************************************************************)
(* WatcherLifecycle with two servers, one restart and slots for daemons.   *)
(***************************************************************************)
EXTENDS WatcherLifecycle
=============================================================================
