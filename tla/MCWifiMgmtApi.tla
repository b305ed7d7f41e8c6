--------------------------- MODULE MCWifiMgmtApi ---------------------------
(* Small instances of WifiMgmtApi for TLC.                                   *)
EXTENDS WifiMgmtApi

\* One of each kind of call.
AllOps == {"connect", "connect_nowait", "disconnect", "scan", "ap_start",
           "ap_stop", "monitor_start"}
============================================================================
