-------------------------- MODULE MCWifiMgmtStale --------------------------
(* One behaviour of WifiMgmt with the limits of the code: a schedule in which  *)
(* the task lags behind the MAC, so that messages of a connection attempt are  *)
(* still queued when the retry timeout has begun the next one.                 *)
EXTENDS MCWifiMgmt

VARIABLE turn    \* the steps of the schedule taken so far

SendScan == ApiSend /\ queue' = Append(queue, Msg("SCAN_CMD", "none"))
SendConnect == ApiSend /\ queue' = Append(queue, Msg("CONNECT_CMD", "cfg_blocked"))
ScanStarts == ScanCmd /\ mac_scan'
ScanEnds == MacScanEnd /\ queue' = Append(queue, Msg("SCAN_DONE", "none"))
ScanFails == MacScanEnd /\ queue' = Append(queue, Msg("SCAN_FAIL", "fail"))
RetryPlanned == StaScanFail /\ retry_timers' = 1
Retry == ConnectRetry /\ mac_scan'
Attempt == StaScanDone /\ mac_link' = "pending"
Associates == MacConnectInd /\ mac_link' = "assoc"
AddressFound == DhcpPolling /\ Has(queue', "DHCP_SUCCESS")

\* What happens in turn i.  Three scans end before their ends are handled; an
\* association of the first attempt ends, then its retry timeout expires, and
\* so it goes again: the third attempt is led to CONNECTED by ASSOC_SUCCESS
\* and DHCP_START of the second, while its own association is under way.
Happens(i) ==
    CASE i = 0 -> StaInit
      [] i \in 1..3 -> SendScan
      [] i = 4 -> SendConnect
      [] i \in {5, 7, 9} -> ScanStarts
      [] i \in {6, 10} -> ScanFails
      [] i \in {8, 14, 19} -> ScanEnds
      [] i = 11 -> StaIdleConnectCmd /\ mac_scan'
      [] i \in {12, 17} -> RetryPlanned
      [] i \in {13, 18, 24} -> Attempt
      [] i \in {15, 20} -> Associates
      [] i \in {16, 23} -> Retry
      [] i \in {21, 25} -> StaConnectAssocSuccess
      [] i = 22 -> MacDhcpStart
      [] i = 26 -> StaHandshakeDhcpStart
      [] i = 27 -> AddressFound
      [] i = 28 -> StaDhcpSuccess
      [] OTHER -> FALSE

StaleSpec ==
    /\ Init /\ turn = 0
    /\ [][Happens(turn) /\ turn' = turn + 1]_<<vars, turn>>
============================================================================
