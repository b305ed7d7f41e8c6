---------------------------- MODULE MCWifiMgmt ----------------------------
(* Small instances of WifiMgmt for TLC.                                      *)
EXTENDS WifiMgmt

\* Commands of the station API.
StaCmds == {Msg("SCAN_CMD", "none"), Msg("CONNECT_CMD", "cfg_blocked"),
            Msg("DISCONNECT_CMD", "none")}

\* And those that make a soft AP of it and back.
StaApCmds == StaCmds \cup {Msg("SWITCH_MODE_CMD", "STA"), Msg("SWITCH_MODE_CMD", "AP"),
                          Msg("START_AP_CMD", "none")}
===========================================================================
