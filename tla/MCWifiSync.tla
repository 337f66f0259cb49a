----------------------------- MODULE MCWifiSync -----------------------------
(* Five recordings, two of them made before the SD card was fitted.       *)
EXTENDS WifiSync
=============================================================================
