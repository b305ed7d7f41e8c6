------------------------------ MODULE WifiMgmt ------------------------------
(***************************************************************************)
(* The Wi-Fi management task of wifi_manager/wifi_management.c for the     *)
(* default interface (vif 0): the event queue served by the event loop,    *)
(* the three state machines that share one state field (station, soft AP,  *)
(* monitor), their timers, the queue that wakes blocked callers, and the   *)
(* MAC firmware and supplicant as the environment that answers.            *)
(*                                                                         *)
(* One step of the task is one call of wifi_mgmt_cb_run_state_machine or   *)
(* of one timer callback: the task is single threaded, so a handler runs   *)
(* to its end before the next message or timer.  Time is abstract: a       *)
(* registered timer may fire at any moment.                                *)
(***************************************************************************)
EXTENDS Naturals, Sequences, FiniteSets

CONSTANTS
    QueueCap,            \* MGMT_TASK_QUEUE_SIZE (24 in the code)
    WaitCap,             \* MGMT_WAIT_QUEUE_MSG_SIZE (5)
    ConnectRetryLimit,   \* WIFI_MGMT_CONNECT_RETRY_LIMIT (3)
    RoamingRetryLimit,   \* WIFI_MGMT_ROAMING_RETRY_LIMIT (100)
    DhcpPollingLimit,    \* WIFI_MGMT_DHCP_POLLING_LIMIT (200)
    CountMod,            \* 2^8, dhcp_polling_count is a uint8_t
    Cmds,                \* the messages the API functions may send
    Flags,               \* the flags of the task they may write
    MaxCmds,             \* bound: messages sent and flags written by the API
    MaxInds              \* bound: link losses and roaming hints of the MAC

ASSUME LimitsAssumption ==
    /\ QueueCap \in Nat /\ QueueCap > 0
    /\ WaitCap \in Nat
    /\ ConnectRetryLimit \in Nat /\ ConnectRetryLimit > 0
    /\ RoamingRetryLimit \in Nat /\ RoamingRetryLimit > 0
    /\ DhcpPollingLimit \in Nat /\ DhcpPollingLimit > 0
    /\ CountMod \in Nat /\ CountMod > DhcpPollingLimit
    /\ MaxCmds \in Nat /\ MaxInds \in Nat

-----------------------------------------------------------------------------
(* Interface types, states and messages                                    *)

Types == {"STA", "AP", "MONITOR"}

\* The union of MAINTAIN_CONNECTION_state, MAINTAIN_SOFTAP_state and
\* MAINTAIN_MONITOR_state: one number read by three machines.  WPS (1 for
\* the station) is compiled out.
IDLE == 0
SCAN == 2
CONNECT == 3
HANDSHAKE == 4
DHCP == 5
CONNECTED == 6
INIT == 0
STARTED == 1

Linking == {SCAN, CONNECT, HANDSHAKE, DHCP}

Events == {"INIT", "SWITCH_MODE_CMD", "RX_EAPOL", "SCAN_CMD", "CONNECT_CMD",
           "DISCONNECT_CMD", "AUTO_CONNECT_CMD", "SCAN_DONE", "SCAN_FAIL",
           "ASSOC_SUCCESS", "DHCP_START", "DHCP_SUCCESS", "DHCP_FAIL",
           "CONNECT_SUCCESS", "CONNECT_FAIL", "DISCONNECT", "ROAMING_START",
           "START_AP_CMD", "MONITOR_START_CMD", "FT_ROAMING_CMD"}

\* What a message carries: reason 0 and no parameter ("none"), a failure
\* reason, a disconnect reason, a station configuration (conn_blocked set or
\* not) or the type asked for.  NO_BEACON also stands for RECV_DEAUTH and
\* UNSPECIFIED, which the code treats alike; FROM_UI for the reasons after
\* which it gives up.
Args == {"none", "fail", "NO_BEACON", "SA_QUERY_FAIL", "FROM_UI",
         "cfg_blocked", "cfg_nowait"} \cup Types

Msgs == [ev : Events, arg : Args]

Msg(e, a) == [ev |-> e, arg |-> a]

WaitEvts == [evt : {"SCAN_DONE", "CONN_DONE", "DISCONN_DONE",
                    "AP_START_DONE", "MONITOR_START_DONE"},
             reason : {"SUCCESS", "FAIL"}]

WaitEvt(e, r) == [evt |-> e, reason |-> r]

ASSUME CmdsAssumption == Cmds \subseteq Msgs

VARIABLES
    wvif_type,      \* wifi_vif_tab[0].wvif_type
    sm_init,        \* sm->init
    sm_state,       \* the state union
    retry_count, delayed_connect_retry,
    dhcp_polling_count,
    preroam_enable, preroam_start,
    preroam_bk,     \* preroam_bssid_bk is not the zero address
    polling_scan,
    scan_blocked, conn_blocked,
    retry_timers,   \* registered timeouts of mgmt_connect_retry
    dhcp_timers,    \* ... of mgmt_dhcp_polling
    link_timers,    \* ... of mgmt_link_status_polling
    queue,          \* messages posted to the management task
    wait_queue,     \* mgmt_wait_queue
    dropped,        \* history: a message nobody retries found the queue full
    mac_type,       \* type of the MAC interface
    mac_scan,       \* the MAC is scanning
    mac_link,       \* the MAC's and the supplicant's view of the link
    mac_late,       \* a DISCONNECT(FROM_UI) indication is still to come
    cmds, inds      \* spent parts of MaxCmds and MaxInds

smVars == <<wvif_type, sm_init, sm_state, retry_count, delayed_connect_retry>>
roamVars == <<preroam_enable, preroam_start, preroam_bk, polling_scan>>
blockVars == <<scan_blocked, conn_blocked>>
timerVars == <<retry_timers, dhcp_timers, link_timers>>
qVars == <<queue, dropped>>
macVars == <<mac_type, mac_scan, mac_link, mac_late>>
envVars == <<cmds, inds>>

vars == <<smVars, dhcp_polling_count, roamVars, blockVars, timerVars, qVars,
          wait_queue, macVars, envVars>>

\* The link as the MAC and the supplicant see it: nothing, association asked
\* for, associated with EAPOL running, associated with EAPOL stopped after a
\* failure, port opened, DHCP_START indicated.
Links == {"none", "pending", "assoc", "stopped", "open", "up"}

-----------------------------------------------------------------------------
(* Queues                                                                  *)

Capped(q, x, cap) == IF Len(q) < cap THEN Append(q, x) ELSE q

\* eloop_event_send / eloop_message_send whose result the caller ignores.
Send(q, m) == /\ queue' = Capped(q, m, QueueCap)
              /\ dropped' = (dropped \/ Len(q) >= QueueCap)

NoSend(q) == queue' = q /\ UNCHANGED dropped

Has(q, e) == \E i \in 1..Len(q) : q[i].ev = e

Pending(e) == Has(queue, e)

\* mgmt_post_conn_done: only when a caller is waiting.
PostConnDone(w, r) ==
    IF conn_blocked THEN Capped(w, WaitEvt("CONN_DONE", r), WaitCap) ELSE w

\* mgmt_post_scan_done: the same for scan_blocked.
PostScanDone(w, r) ==
    IF scan_blocked THEN Capped(w, WaitEvt("SCAN_DONE", r), WaitCap) ELSE w

\* mgmt_post_disconn_done: whether or not anybody waits.
PostDisconnDone(w) == Capped(w, WaitEvt("DISCONN_DONE", "SUCCESS"), WaitCap)

\* The task's loop has fetched a message with event e.
Fetch(e) == queue # <<>> /\ Head(queue).ev = e

\* sm->reason as the callers of mgmt_post_conn_done see it: reason 0 is
\* MAC_ST_SUCCESSFUL.
ReasonOf(m) == IF m.arg = "none" THEN "SUCCESS" ELSE "FAIL"

-----------------------------------------------------------------------------
(* State entries.  Each operator is the body of one SM_STATE: it gives the  *)
(* variables its body assigns; w and q are the wait queue and the message   *)
(* queue as the handler has left them so far.                               *)

\* wifi_netlink_disconnect_req: the link is gone; a MAC that had one may
\* report the disconnection later.
DisconnectReq ==
    /\ mac_link' = "none"
    /\ mac_late' = (mac_late \/ mac_link # "none")

\* wifi_netlink_scan_set and its variants: the MAC runs one scan at a time
\* and may refuse any.
ScanSet(ok) == /\ ok => ~mac_scan
               /\ mac_scan' = (mac_scan \/ ok)

\* Mutants of EnterIdle: the retry timer survives; the MAC is not told.
EnterIdleKeepsRetry(w) ==
    /\ sm_state' = IDLE /\ delayed_connect_retry' = FALSE
    /\ dhcp_timers' = 0 /\ link_timers' = 0 /\ UNCHANGED retry_timers
    /\ DisconnectReq /\ wait_queue' = PostDisconnDone(w)

EnterIdleKeepsLink(w) ==
    /\ sm_state' = IDLE /\ delayed_connect_retry' = FALSE
    /\ dhcp_timers' = 0 /\ link_timers' = 0 /\ retry_timers' = 0
    /\ UNCHANGED <<mac_link, mac_late>> /\ wait_queue' = PostDisconnDone(w)

EnterIdle(w) ==
    /\ sm_state' = IDLE
    /\ delayed_connect_retry' = FALSE
    /\ dhcp_timers' = 0 /\ link_timers' = 0 /\ retry_timers' = 0
    /\ DisconnectReq
    /\ wait_queue' = PostDisconnDone(w)

\* Mutants of EnterScan: a timer survives; a refused scan goes unreported.
EnterScanKeepsDhcp(q, delayed) ==
    /\ sm_state' = SCAN /\ link_timers' = 0 /\ UNCHANGED dhcp_timers
    /\ NoSend(q) /\ IF delayed THEN UNCHANGED mac_scan ELSE ScanSet(~mac_scan)

EnterScanKeepsPolling(q, delayed) ==
    /\ sm_state' = SCAN /\ dhcp_timers' = 0 /\ UNCHANGED link_timers
    /\ NoSend(q) /\ IF delayed THEN UNCHANGED mac_scan ELSE ScanSet(~mac_scan)

EnterScanSilent(q, delayed) ==
    /\ sm_state' = SCAN /\ dhcp_timers' = 0 /\ link_timers' = 0 /\ NoSend(q)
    /\ IF delayed THEN UNCHANGED mac_scan ELSE \E ok \in BOOLEAN : ScanSet(ok)

EnterScan(q, delayed) ==
    /\ sm_state' = SCAN
    /\ dhcp_timers' = 0 /\ link_timers' = 0
    /\ \/ delayed /\ NoSend(q) /\ UNCHANGED mac_scan
       \/ ~delayed /\ ScanSet(TRUE) /\ NoSend(q)
       \/ ~delayed /\ ScanSet(FALSE) /\ Send(q, Msg("SCAN_FAIL", "none"))

\* Mutant: a refused connection request is not reported.
EnterConnectSilent(q) ==
    /\ sm_state' = CONNECT /\ NoSend(q)
    /\ UNCHANGED mac_link \/ mac_link' = "pending"

\* wifi_netlink_connect_req fails when no candidate AP was found, when the
\* MAC interface is not a station or when the MAC refuses.
EnterConnect(q) ==
    /\ sm_state' = CONNECT
    /\ \/ mac_type = "STA" /\ mac_link' = "pending" /\ NoSend(q)
       \/ UNCHANGED mac_link /\ Send(q, Msg("CONNECT_FAIL", "fail"))

\* wifi_netlink_associate_done: with security EAPOL goes on, without it the
\* port is opened at once.
EnterHandshake ==
    /\ sm_state' = HANDSHAKE
    /\ mac_link' \in {mac_link, IF mac_link = "assoc" THEN "open" ELSE mac_link}

\* Mutant: polling is only scheduled when no address is configured.
EnterDhcpNoTimer ==
    /\ sm_state' = DHCP /\ UNCHANGED <<dhcp_polling_count, dhcp_timers>>

\* A static address leaves the polling counter as it was.
EnterDhcp ==
    /\ sm_state' = DHCP
    /\ dhcp_polling_count' \in {dhcp_polling_count, DhcpPollingLimit}
    /\ dhcp_timers' = dhcp_timers + 1

EnterConnected(q) ==
    /\ sm_state' = CONNECTED
    /\ IF conn_blocked
       THEN /\ wait_queue' = PostConnDone(wait_queue, "SUCCESS")
            /\ conn_blocked' = FALSE /\ NoSend(q)
       ELSE /\ UNCHANGED <<wait_queue, conn_blocked>>
            /\ Send(q, Msg("CONNECT_SUCCESS", "none"))
    /\ preroam_start' = FALSE /\ preroam_bk' = FALSE
    /\ UNCHANGED <<preroam_enable, polling_scan>>

\* mgmt_connect_retry_param_set
RetryParamSet(roaming) ==
    retry_count' = (IF roaming THEN RoamingRetryLimit ELSE ConnectRetryLimit) - 1

\* mgmt_register_delayed_connect_retry: one timer, however often it is asked.
RegisterDelayedConnectRetry ==
    retry_timers' = IF retry_timers = 0 THEN 1 ELSE retry_timers

\* mgmt_preroam_rollback: go back to the AP left for roaming.
PreroamRollback(q) ==
    IF preroam_start /\ preroam_bk
    THEN /\ preroam_start' = FALSE /\ preroam_bk' = FALSE
         /\ Send(q, Msg("CONNECT_CMD", "none"))
    ELSE NoSend(q) /\ UNCHANGED <<preroam_start, preroam_bk>>

\* "all connecting retries failed"
GiveUp(m) ==
    /\ retry_count = 0
    /\ PreroamRollback(Tail(queue))
    /\ EnterIdle(PostConnDone(wait_queue, ReasonOf(m)))
    /\ conn_blocked' = FALSE
    /\ UNCHANGED <<mac_scan, retry_count, preroam_enable, polling_scan>>

\* wifi_wpa_sta_sm_step(DISCONNECT): stop EAPOL, the MAC is not told.
StopEapol == /\ mac_link' = IF mac_link = "assoc" THEN "stopped" ELSE mac_link
             /\ UNCHANGED mac_late

\* A failed attempt: CONNECT only resets SAE; HANDSHAKE and DHCP stop EAPOL
\* and tell the MAC unless the loss came from it.
FailLink ==
    \/ sm_state = CONNECT /\ UNCHANGED <<mac_link, mac_late>>
    \/ sm_state # CONNECT /\ Fetch("DISCONNECT") /\ StopEapol
    \/ sm_state # CONNECT /\ ~Fetch("DISCONNECT") /\ DisconnectReq

\* Mutants of RetryLater: no look at the retries left; the retries restart.
RetryLaterUnchecked ==
    /\ delayed_connect_retry' = TRUE /\ EnterScan(Tail(queue), TRUE)
    /\ RegisterDelayedConnectRetry
    /\ FailLink
    /\ UNCHANGED <<wait_queue, conn_blocked, retry_count, roamVars>>

RetryLaterRestarts ==
    /\ delayed_connect_retry' = TRUE /\ EnterScan(Tail(queue), TRUE)
    /\ RegisterDelayedConnectRetry /\ RetryParamSet(FALSE)
    /\ FailLink
    /\ UNCHANGED <<wait_queue, conn_blocked, roamVars>>

RetryLater ==
    /\ retry_count > 0
    /\ delayed_connect_retry' = TRUE
    /\ EnterScan(Tail(queue), TRUE)
    /\ RegisterDelayedConnectRetry
    /\ FailLink
    /\ UNCHANGED <<wait_queue, conn_blocked, retry_count, roamVars>>

\* mgmt_link_is_ongoing: whoever waits for a connection is told FAILURE.
LinkIsOngoing ==
    /\ wait_queue' = Capped(wait_queue, WaitEvt("CONN_DONE", "FAIL"), WaitCap)
    /\ conn_blocked' = FALSE
    /\ NoSend(Tail(queue))
    /\ UNCHANGED <<smVars, dhcp_polling_count, roamVars, scan_blocked,
                   timerVars, macVars, envVars>>

\* A message the machine ignores, or an unexpected event.
Ignore == /\ NoSend(Tail(queue))
          /\ UNCHANGED <<smVars, dhcp_polling_count, roamVars, blockVars,
                         timerVars, wait_queue, macVars, envVars>>

-----------------------------------------------------------------------------
(* Station: SM_STEP(MAINTAIN_CONNECTION)                                    *)

Sta(s) == wvif_type = "STA" /\ sm_init /\ sm_state = s

\* The first message, or INIT, clears the state machine data.
StaInit ==
    /\ queue # <<>> /\ wvif_type = "STA"
    /\ ~Fetch("SWITCH_MODE_CMD") /\ (sm_init => Fetch("INIT"))
    /\ sm_init' = TRUE
    /\ RetryParamSet(FALSE)
    /\ EnterIdle(wait_queue)
    /\ dhcp_polling_count' = 0
    /\ preroam_enable' = TRUE /\ preroam_start' = FALSE /\ preroam_bk' = FALSE
    /\ polling_scan' = FALSE /\ scan_blocked' = FALSE
    /\ NoSend(Tail(queue))
    /\ UNCHANGED <<wvif_type, conn_blocked, mac_type, mac_scan, envVars>>

\* SCAN_CMD where it is served: idle or connected station, running soft AP
\* or monitor.
ScanCmd ==
    /\ Fetch("SCAN_CMD") /\ sm_init
    /\ \/ wvif_type = "STA" /\ sm_state \in {IDLE, CONNECTED}
       \/ wvif_type \in {"AP", "MONITOR"} /\ sm_state = STARTED
    /\ \/ ScanSet(TRUE) /\ UNCHANGED <<wait_queue, scan_blocked>>
       \/ /\ ScanSet(FALSE)
          /\ wait_queue' = PostScanDone(wait_queue, "FAIL")
          /\ scan_blocked' = FALSE
    /\ NoSend(Tail(queue))
    /\ UNCHANGED <<smVars, dhcp_polling_count, roamVars, conn_blocked,
                   timerVars, mac_type, mac_link, mac_late, envVars>>

\* The end of a scan where only a waiting caller cares for it: SCAN_DONE,
\* and SCAN_FAIL except for an idle station, which ignores it.  (A connected
\* station falls through from SCAN_DONE to SCAN_FAIL, whose post then finds
\* scan_blocked cleared.)
ScanOver ==
    /\ queue # <<>> /\ sm_init
    /\ Head(queue).ev \in {"SCAN_DONE", "SCAN_FAIL"}
    /\ \/ Sta(IDLE) /\ Fetch("SCAN_DONE")
       \/ Sta(CONNECTED) /\ (Fetch("SCAN_DONE") => ~polling_scan)
       \/ wvif_type \in {"AP", "MONITOR"} /\ sm_state = STARTED
    /\ wait_queue' = PostScanDone(wait_queue,
                         IF Fetch("SCAN_DONE") THEN "SUCCESS" ELSE "FAIL")
    /\ scan_blocked' = FALSE
    /\ NoSend(Tail(queue))
    /\ UNCHANGED <<smVars, dhcp_polling_count, roamVars, conn_blocked,
                   timerVars, macVars, envVars>>

\* CONNECT_CMD copies the caller's configuration, conn_blocked included; the
\* command the task sends itself carries none.
CopyCfg(m) == conn_blocked' = IF m.arg = "none" THEN conn_blocked
                              ELSE m.arg = "cfg_blocked"

StaIdleConnectCmd ==
    /\ Sta(IDLE) /\ Fetch("CONNECT_CMD")
    /\ CopyCfg(Head(queue))
    /\ RetryParamSet(FALSE)
    /\ EnterScan(Tail(queue), delayed_connect_retry)
    /\ UNCHANGED <<wvif_type, sm_init, delayed_connect_retry,
                   dhcp_polling_count, roamVars, scan_blocked, retry_timers,
                   wait_queue, mac_type, mac_link, mac_late, envVars>>

\* AUTO_CONNECT_CMD: no stored AP, or retry as often as when roaming.
StaIdleAutoConnectCmd ==
    /\ Sta(IDLE) /\ Fetch("AUTO_CONNECT_CMD")
    /\ \/ /\ EnterIdle(wait_queue)
          /\ NoSend(Tail(queue))
          /\ UNCHANGED <<retry_count, mac_scan>>
       \/ /\ RetryParamSet(TRUE)
          /\ EnterScan(Tail(queue), delayed_connect_retry)
          /\ UNCHANGED <<delayed_connect_retry, retry_timers, wait_queue,
                         mac_link, mac_late>>
    /\ UNCHANGED <<wvif_type, sm_init, dhcp_polling_count, roamVars,
                   blockVars, mac_type, envVars>>

StaIdleDisconnectCmd ==
    /\ Sta(IDLE) /\ Fetch("DISCONNECT_CMD")
    /\ wait_queue' = PostDisconnDone(wait_queue)
    /\ NoSend(Tail(queue))
    /\ UNCHANGED <<smVars, dhcp_polling_count, roamVars, blockVars,
                   timerVars, macVars, envVars>>

\* A command for a station that is busy linking.
StaLinkingCmd ==
    /\ sm_state \in Linking /\ Sta(sm_state)
    /\ Fetch("SCAN_CMD") \/ Fetch("CONNECT_CMD")
    /\ LinkIsOngoing

\* DISCONNECT_CMD stops whatever is going on; CONNECT_FAIL does the same to
\* a scanning station.
StaToIdle ==
    /\ queue # <<>>
    /\ \/ sm_state \in Linking \cup {CONNECTED} /\ Fetch("DISCONNECT_CMD")
       \/ sm_state = SCAN /\ Fetch("CONNECT_FAIL")
    /\ Sta(sm_state)
    /\ EnterIdle(wait_queue)
    /\ NoSend(Tail(queue))
    /\ UNCHANGED <<wvif_type, sm_init, retry_count, dhcp_polling_count,
                   roamVars, blockVars, mac_type, mac_scan, envVars>>

StaScanDone ==
    /\ Sta(SCAN) /\ Fetch("SCAN_DONE")
    /\ EnterConnect(Tail(queue))
    /\ UNCHANGED <<wvif_type, sm_init, retry_count, delayed_connect_retry,
                   dhcp_polling_count, roamVars, blockVars, timerVars,
                   wait_queue, mac_type, mac_scan, mac_late, envVars>>

StaScanFail ==
    /\ Sta(SCAN) /\ Fetch("SCAN_FAIL")
    /\ \/ /\ retry_count > 0
          /\ RegisterDelayedConnectRetry
          /\ NoSend(Tail(queue))
          /\ UNCHANGED <<sm_state, retry_count, delayed_connect_retry,
                         roamVars, conn_blocked, dhcp_timers, link_timers,
                         wait_queue, mac_scan, mac_link, mac_late>>
       \/ GiveUp(Head(queue))
    /\ UNCHANGED <<wvif_type, sm_init, dhcp_polling_count, scan_blocked,
                   mac_type, envVars>>

StaConnectAssocSuccess ==
    /\ Sta(CONNECT) /\ Fetch("ASSOC_SUCCESS")
    /\ EnterHandshake
    /\ NoSend(Tail(queue))
    /\ UNCHANGED <<wvif_type, sm_init, retry_count, delayed_connect_retry,
                   dhcp_polling_count, roamVars, blockVars, timerVars,
                   wait_queue, mac_type, mac_scan, mac_late, envVars>>

StaHandshakeDhcpStart ==
    /\ Sta(HANDSHAKE) /\ Fetch("DHCP_START")
    /\ EnterDhcp
    /\ NoSend(Tail(queue))
    /\ UNCHANGED <<wvif_type, sm_init, retry_count, delayed_connect_retry,
                   roamVars, blockVars, retry_timers, link_timers,
                   wait_queue, macVars, envVars>>

StaDhcpSuccess ==
    /\ Sta(DHCP) /\ Fetch("DHCP_SUCCESS")
    /\ EnterConnected(Tail(queue))
    /\ retry_timers' = 0
    /\ UNCHANGED <<wvif_type, sm_init, retry_count, delayed_connect_retry,
                   dhcp_polling_count, scan_blocked, dhcp_timers, link_timers,
                   macVars, envVars>>

\* A failed attempt in CONNECT, HANDSHAKE or DHCP: retry later or give up.
StaLinkFailed ==
    /\ queue # <<>>
    /\ \/ /\ sm_state \in {CONNECT, HANDSHAKE, DHCP}
          /\ Fetch("CONNECT_FAIL") \/ Fetch("DISCONNECT")
       \/ sm_state = DHCP /\ Fetch("DHCP_FAIL")
    /\ Sta(sm_state)
    /\ RetryLater \/ GiveUp(Head(queue))
    /\ UNCHANGED <<wvif_type, sm_init, dhcp_polling_count, scan_blocked,
                   mac_type, envVars>>

\* Mutant: a failed handshake is not reported.
StaRxEapolSilent ==
    /\ Fetch("RX_EAPOL") /\ sm_state = HANDSHAKE /\ Sta(sm_state)
    /\ mac_link' = "stopped" /\ NoSend(Tail(queue))
    /\ UNCHANGED <<smVars, dhcp_polling_count, roamVars, blockVars,
                   timerVars, wait_queue, mac_type, mac_scan, mac_late,
                   envVars>>

\* wifi_wpa_sta_eapol_key_sm_step: the frame is ignored when EAPOL does not
\* run; it goes on, completes the handshake and opens the port, or fails.
StaRxEapol ==
    /\ Fetch("RX_EAPOL")
    /\ sm_state \in {HANDSHAKE, DHCP, CONNECTED} /\ Sta(sm_state)
    /\ \/ UNCHANGED mac_link /\ NoSend(Tail(queue))
       \/ mac_link = "assoc" /\ mac_link' = "open" /\ NoSend(Tail(queue))
       \/ /\ mac_link \in {"assoc", "up"} /\ mac_link' = "stopped"
          /\ Send(Tail(queue), Msg("CONNECT_FAIL", "fail"))
    /\ UNCHANGED <<smVars, dhcp_polling_count, roamVars, blockVars,
                   timerVars, wait_queue, mac_type, mac_scan, mac_late,
                   envVars>>

\* CONNECT_CMD of a connected station: leave the AP, then start over.  The
\* two entries' effects are the sequence IDLE; SCAN.
StaConnectedConnectCmd ==
    /\ Sta(CONNECTED) /\ Fetch("CONNECT_CMD")
    /\ CopyCfg(Head(queue))
    /\ delayed_connect_retry' = FALSE /\ retry_timers' = 0
    /\ DisconnectReq
    /\ wait_queue' = PostDisconnDone(wait_queue)
    /\ RetryParamSet(FALSE)
    /\ EnterScan(Tail(queue), FALSE)
    /\ UNCHANGED <<wvif_type, sm_init, dhcp_polling_count, roamVars,
                   scan_blocked, mac_type, envVars>>

\* mgmt_connected_scan_done: nothing better found; a better AP in the same
\* mobility domain (polling stops, and FT starts if the gain is enough); or
\* another better AP to reconnect to.
ConnectedScanDone(q) ==
    \/ NoSend(q) /\ UNCHANGED link_timers
    \/ /\ link_timers' = 0
       /\ NoSend(q) \/ Send(q, Msg("FT_ROAMING_CMD", "none"))
    \/ Send(q, Msg("CONNECT_CMD", "none")) /\ UNCHANGED link_timers

StaConnectedPollingScanDone ==
    /\ Sta(CONNECTED) /\ Fetch("SCAN_DONE") /\ polling_scan
    /\ polling_scan' = FALSE
    /\ ConnectedScanDone(Tail(queue))
    /\ wait_queue' = PostScanDone(wait_queue, "SUCCESS")
    /\ scan_blocked' = FALSE
    /\ UNCHANGED <<smVars, dhcp_polling_count, preroam_enable, preroam_start,
                   preroam_bk, conn_blocked, retry_timers, dhcp_timers,
                   macVars, envVars>>

\* Mutant: a loss that is not worth a reconnection is ignored.
StaConnectedDisconnectIgnored ==
    Sta(CONNECTED) /\ Fetch("DISCONNECT") /\ Ignore

\* Loss of the link: come back as when roaming, or go idle.
StaConnectedDisconnect ==
    /\ Sta(CONNECTED) /\ Fetch("DISCONNECT")
    /\ \/ /\ Head(queue).arg \in {"NO_BEACON", "SA_QUERY_FAIL"}
          /\ IF Head(queue).arg = "SA_QUERY_FAIL" THEN DisconnectReq ELSE StopEapol
          /\ RetryParamSet(TRUE)
          /\ EnterScan(Tail(queue), delayed_connect_retry)
          /\ UNCHANGED <<delayed_connect_retry, retry_timers, wait_queue>>
       \/ /\ Head(queue).arg \notin {"NO_BEACON", "SA_QUERY_FAIL"}
          /\ EnterIdle(wait_queue)
          /\ NoSend(Tail(queue))
          /\ UNCHANGED <<retry_count, mac_scan>>
    /\ UNCHANGED <<wvif_type, sm_init, dhcp_polling_count, roamVars,
                   blockVars, mac_type, envVars>>

\* Every hint registers a polling timer, whether or not one is pending.
StaConnectedRoamingStart ==
    /\ Sta(CONNECTED) /\ Fetch("ROAMING_START") /\ preroam_enable
    /\ preroam_start' = TRUE /\ preroam_bk' = TRUE
    /\ link_timers' = link_timers + 1
    /\ NoSend(Tail(queue))
    /\ UNCHANGED <<smVars, dhcp_polling_count, preroam_enable, polling_scan,
                   blockVars, retry_timers, dhcp_timers, wait_queue, macVars,
                   envVars>>

\* FT reassociation is asked of the MAC; a failure is reported as
\* CONNECT_FAIL and EAPOL stops.
StaConnectedFtRoamingCmd ==
    /\ Sta(CONNECTED) /\ Fetch("FT_ROAMING_CMD")
    /\ \/ UNCHANGED mac_link /\ NoSend(Tail(queue))
       \/ /\ mac_link = "up" /\ mac_link' = "stopped"
          /\ Send(Tail(queue), Msg("CONNECT_FAIL", "fail"))
    /\ UNCHANGED <<smVars, dhcp_polling_count, roamVars, blockVars,
                   timerVars, wait_queue, mac_type, mac_scan, mac_late,
                   envVars>>

\* The events each station state acts upon.
StaHandles(s) ==
    CASE s = IDLE -> {"SCAN_CMD", "CONNECT_CMD", "AUTO_CONNECT_CMD",
                      "SCAN_DONE", "DISCONNECT_CMD"}
      [] s = SCAN -> {"SCAN_CMD", "CONNECT_CMD", "DISCONNECT_CMD",
                      "CONNECT_FAIL", "SCAN_DONE", "SCAN_FAIL"}
      [] s = CONNECT -> {"SCAN_CMD", "CONNECT_CMD", "DISCONNECT_CMD",
                         "ASSOC_SUCCESS", "CONNECT_FAIL", "DISCONNECT"}
      [] s = HANDSHAKE -> {"SCAN_CMD", "CONNECT_CMD", "DISCONNECT_CMD",
                           "RX_EAPOL", "CONNECT_FAIL", "DISCONNECT",
                           "DHCP_START"}
      [] s = DHCP -> {"SCAN_CMD", "CONNECT_CMD", "DISCONNECT_CMD",
                      "RX_EAPOL", "CONNECT_FAIL", "DISCONNECT",
                      "DHCP_SUCCESS", "DHCP_FAIL"}
      [] OTHER -> {"SCAN_CMD", "CONNECT_CMD", "DISCONNECT_CMD", "SCAN_DONE",
                   "SCAN_FAIL", "RX_EAPOL", "DISCONNECT", "FT_ROAMING_CMD"}
                  \cup (IF preroam_enable THEN {"ROAMING_START"} ELSE {})

StaIgnore ==
    /\ queue # <<>> /\ Sta(sm_state)
    /\ Head(queue).ev \notin StaHandles(sm_state)
                             \cup {"INIT", "SWITCH_MODE_CMD"}
    /\ Ignore

StaStep ==
    \/ StaInit \/ StaIdleConnectCmd \/ StaIdleAutoConnectCmd
    \/ StaIdleDisconnectCmd \/ StaLinkingCmd \/ StaToIdle \/ StaScanDone
    \/ StaScanFail \/ StaConnectAssocSuccess \/ StaHandshakeDhcpStart
    \/ StaDhcpSuccess \/ StaLinkFailed \/ StaRxEapol
    \/ StaConnectedConnectCmd \/ StaConnectedPollingScanDone
    \/ StaConnectedDisconnect \/ StaConnectedRoamingStart
    \/ StaConnectedFtRoamingCmd \/ StaIgnore

-----------------------------------------------------------------------------
(* Soft AP and monitor: SM_STEP(MAINTAIN_SOFTAP), SM_STEP(MAINTAIN_MONITOR) *)

\* The command that starts a machine, the type it runs on and its answer.
StartCmd == [AP |-> "START_AP_CMD", MONITOR |-> "MONITOR_START_CMD"]
StartDone == [AP |-> "AP_START_DONE", MONITOR |-> "MONITOR_START_DONE"]

\* Mutant: the type of the MAC interface is not checked.
ApMonitorStartUnchecked ==
    /\ wvif_type \in {"AP", "MONITOR"} /\ sm_state = INIT
    /\ Fetch(StartCmd[wvif_type])
    /\ sm_state' = STARTED
    /\ NoSend(Tail(queue))
    /\ UNCHANGED <<wvif_type, sm_init, retry_count, delayed_connect_retry,
                   dhcp_polling_count, roamVars, blockVars, timerVars,
                   wait_queue, macVars, envVars>>

\* wifi_netlink_ap_start and wifi_netlink_monitor_start refuse a MAC
\* interface of another type.
ApMonitorStart ==
    /\ wvif_type \in {"AP", "MONITOR"} /\ sm_state = INIT
    /\ Fetch(StartCmd[wvif_type])
    /\ \/ /\ mac_type = wvif_type
          /\ sm_state' = STARTED
          /\ wait_queue' = Capped(wait_queue,
                               WaitEvt(StartDone[wvif_type], "SUCCESS"), WaitCap)
       \/ /\ sm_state' = INIT
          /\ wait_queue' = Capped(wait_queue,
                               WaitEvt(StartDone[wvif_type], "FAIL"), WaitCap)
    /\ NoSend(Tail(queue))
    /\ UNCHANGED <<wvif_type, sm_init, retry_count, delayed_connect_retry,
                   dhcp_polling_count, roamVars, blockVars, timerVars,
                   macVars, envVars>>

ApMonitorIgnore ==
    /\ queue # <<>> /\ wvif_type \in {"AP", "MONITOR"}
    /\ Head(queue).ev \notin {"SWITCH_MODE_CMD"} \cup
           (IF sm_state = INIT THEN {StartCmd[wvif_type]}
            ELSE {"SCAN_CMD", "SCAN_DONE", "SCAN_FAIL"})
    /\ Ignore

-----------------------------------------------------------------------------
(* mgmt_switch_mode: SWITCH_MODE_CMD in any machine                         *)

SwitchModeSame ==
    /\ Fetch("SWITCH_MODE_CMD") /\ Head(queue).arg = wvif_type
    /\ Ignore

\* The old machine is reset, the configuration of the old type is wiped and
\* the new type is recorded before the MAC is asked to change its interface:
\* it may refuse to drop the old type, or to take the new one.
SwitchMode ==
    /\ Fetch("SWITCH_MODE_CMD")
    /\ Head(queue).arg \in Types \ {wvif_type}
    /\ wvif_type' = Head(queue).arg
    /\ IF wvif_type = "STA"
       THEN EnterIdle(wait_queue) /\ conn_blocked' = FALSE
       ELSE /\ sm_state' = INIT
            /\ UNCHANGED <<delayed_connect_retry, timerVars, mac_link,
                           mac_late, wait_queue, conn_blocked>>
    /\ \/ /\ mac_type' \in {mac_type, "UNKNOWN"}
          /\ UNCHANGED <<sm_init, retry_count, polling_scan>>
       \/ /\ mac_type' = wvif_type'
          /\ sm_init' = TRUE
          /\ IF wvif_type' = "STA"
             THEN polling_scan' = FALSE /\ RetryParamSet(FALSE)
             ELSE UNCHANGED <<polling_scan, retry_count>>
    /\ NoSend(Tail(queue))
    /\ UNCHANGED <<dhcp_polling_count, preroam_enable, preroam_start,
                   preroam_bk, scan_blocked, mac_scan, envVars>>

\* One message handled by wifi_mgmt_cb_run_state_machine.
Handle == StaStep \/ ScanCmd \/ ScanOver \/ ApMonitorStart \/ ApMonitorIgnore
          \/ SwitchModeSame \/ SwitchMode

-----------------------------------------------------------------------------
(* Timer callbacks, run by the same task between messages                   *)

\* Mutant: the retry is not counted.
ConnectRetryUncounted ==
    /\ retry_timers > 0
    /\ retry_timers' = retry_timers - 1 /\ delayed_connect_retry' = FALSE
    /\ EnterScan(queue, FALSE)
    /\ UNCHANGED <<wvif_type, sm_init, retry_count, dhcp_polling_count,
                   roamVars, blockVars, wait_queue, mac_type, mac_link,
                   mac_late, envVars>>

\* mgmt_connect_retry: whatever the state, back to SCAN.
ConnectRetry ==
    /\ retry_timers > 0
    /\ retry_timers' = retry_timers - 1
    /\ retry_count' = retry_count - 1
    /\ delayed_connect_retry' = FALSE
    /\ EnterScan(queue, FALSE)
    /\ UNCHANGED <<wvif_type, sm_init, dhcp_polling_count, roamVars,
                   blockVars, wait_queue, mac_type, mac_link, mac_late,
                   envVars>>

\* mgmt_dhcp_polling
DhcpPolling ==
    /\ dhcp_timers > 0
    /\ \/ /\ Send(queue, Msg("DHCP_SUCCESS", "none"))
          /\ dhcp_timers' = dhcp_timers - 1
          /\ UNCHANGED dhcp_polling_count
       \/ /\ dhcp_polling_count' = (dhcp_polling_count + CountMod - 1) % CountMod
          /\ IF dhcp_polling_count' # 0
             THEN NoSend(queue) /\ UNCHANGED dhcp_timers
             ELSE /\ Send(queue, Msg("DHCP_FAIL", "none"))
                  /\ dhcp_timers' = dhcp_timers - 1
    /\ UNCHANGED <<smVars, roamVars, blockVars, retry_timers, link_timers,
                   wait_queue, macVars, envVars>>

\* mgmt_link_status_polling: the signal has recovered; or poll again, with a
\* scan in the rounds polling_scan_count selects; or roaming is off.
LinkStatusPolling ==
    /\ link_timers > 0
    /\ \/ /\ preroam_enable /\ preroam_start
          /\ \/ /\ link_timers' = link_timers - 1
                /\ preroam_start' = FALSE /\ preroam_bk' = FALSE
                /\ UNCHANGED <<polling_scan, mac_scan>>
             \/ /\ \/ polling_scan' = TRUE /\ \E ok \in BOOLEAN : ScanSet(ok)
                   \/ UNCHANGED <<polling_scan, mac_scan>>
                /\ UNCHANGED <<link_timers, preroam_start, preroam_bk>>
       \/ /\ ~(preroam_enable /\ preroam_start)
          /\ link_timers' = link_timers - 1
          /\ UNCHANGED <<preroam_start, preroam_bk, polling_scan, mac_scan>>
    /\ UNCHANGED <<smVars, dhcp_polling_count, preroam_enable, blockVars,
                   retry_timers, dhcp_timers, qVars, wait_queue, mac_type,
                   mac_link, mac_late, envVars>>

Timers == ConnectRetry \/ DhcpPolling \/ LinkStatusPolling

-----------------------------------------------------------------------------
(* The MAC and the supplicant: wifi_netlink_msg_forward turns what they     *)
(* report into messages and ignores a full queue.                           *)

Report(m) == /\ Send(queue, m)
             /\ UNCHANGED <<smVars, dhcp_polling_count, roamVars, blockVars,
                            timerVars, wait_queue, mac_type, cmds>>

MacScanEnd ==
    /\ mac_scan /\ mac_scan' = FALSE
    /\ Report(Msg("SCAN_DONE", "none")) \/ Report(Msg("SCAN_FAIL", "fail"))
    /\ UNCHANGED <<mac_link, mac_late, inds>>

MacConnectInd ==
    /\ mac_link = "pending"
    /\ \/ mac_link' = "assoc" /\ Report(Msg("ASSOC_SUCCESS", "none"))
       \/ mac_link' = "none" /\ Report(Msg("CONNECT_FAIL", "fail"))
    /\ UNCHANGED <<mac_scan, mac_late, inds>>

\* An EAPOL frame for the supplicant (one waiting at a time: bound).
MacRxEapol ==
    /\ mac_link \in {"assoc", "up"} /\ ~Pending("RX_EAPOL")
    /\ mac_link = "up" => inds < MaxInds
    /\ inds' = IF mac_link = "up" THEN inds + 1 ELSE inds
    /\ Report(Msg("RX_EAPOL", "none"))
    /\ UNCHANGED <<mac_scan, mac_link, mac_late>>

MacDhcpStart ==
    /\ mac_link = "open" /\ mac_link' = "up"
    /\ Report(Msg("DHCP_START", "none"))
    /\ UNCHANGED <<mac_scan, mac_late, inds>>

\* Beacon loss, a deauthentication or a handshake timeout.
MacDisconnect ==
    /\ mac_link \in {"assoc", "stopped", "open", "up"} /\ mac_link' = "none"
    /\ inds < MaxInds /\ inds' = inds + 1
    /\ \E r \in {"NO_BEACON", "FROM_UI"} : Report(Msg("DISCONNECT", r))
    /\ UNCHANGED <<mac_scan, mac_late>>

\* The SA query of the supplicant failed; the MAC keeps its link.
WpaSaQueryFail ==
    /\ mac_link = "up" /\ inds < MaxInds /\ inds' = inds + 1
    /\ Report(Msg("DISCONNECT", "SA_QUERY_FAIL"))
    /\ UNCHANGED <<mac_scan, mac_link, mac_late>>

\* The indication that answers an earlier wifi_netlink_disconnect_req.
MacLateDisconnect ==
    /\ mac_late /\ mac_late' = FALSE
    /\ Report(Msg("DISCONNECT", "FROM_UI"))
    /\ UNCHANGED <<mac_scan, mac_link, inds>>

\* The signal of the AP is below the roaming threshold.
MacRoaming ==
    /\ mac_link = "up" /\ inds < MaxInds /\ inds' = inds + 1
    /\ Report(Msg("ROAMING_START", "none"))
    /\ UNCHANGED <<mac_scan, mac_link, mac_late>>

Mac == MacScanEnd \/ MacConnectInd \/ MacRxEapol \/ MacDhcpStart
       \/ MacDisconnect \/ WpaSaQueryFail \/ MacLateDisconnect \/ MacRoaming

-----------------------------------------------------------------------------
(* Callers of the API, as far as the task can tell them apart: the messages *)
(* they post (a failed post is reported to the caller), the flags they set  *)
(* and the wait queue they empty.                                           *)

ApiSend ==
    /\ cmds < MaxCmds /\ cmds' = cmds + 1
    /\ Len(queue) < QueueCap
    /\ \E m \in Cmds : queue' = Append(queue, m)
    /\ UNCHANGED <<smVars, dhcp_polling_count, roamVars, blockVars, timerVars,
                   dropped, wait_queue, macVars, inds>>

\* wifi_management_scan sets scan_blocked after it has sent SCAN_CMD.
ApiScanBlocked ==
    /\ "scan_blocked" \in Flags
    /\ cmds < MaxCmds /\ cmds' = cmds + 1
    /\ scan_blocked' = ~scan_blocked
    /\ UNCHANGED <<smVars, dhcp_polling_count, roamVars, conn_blocked,
                   timerVars, qVars, wait_queue, macVars, inds>>

\* wifi_management_roaming_set writes preroam_enable from the caller's task.
ApiRoamingSet ==
    /\ "preroam_enable" \in Flags
    /\ cmds < MaxCmds /\ cmds' = cmds + 1
    /\ preroam_enable' = ~preroam_enable
    /\ UNCHANGED <<smVars, dhcp_polling_count, preroam_start, preroam_bk,
                   polling_scan, blockVars, timerVars, qVars, wait_queue,
                   macVars, inds>>

\* mgmt_wait_queue_fetch and mgmt_wait_queue_flush take events one by one.
ApiFetch ==
    /\ wait_queue # <<>> /\ wait_queue' = Tail(wait_queue)
    /\ UNCHANGED <<smVars, dhcp_polling_count, roamVars, blockVars, timerVars,
                   qVars, macVars, envVars>>

Api == ApiSend \/ ApiScanBlocked \/ ApiRoamingSet \/ ApiFetch

-----------------------------------------------------------------------------
\* wifi_management_init: INIT is posted, and the commands that reconnect to a
\* stored AP when that is configured.  netlink_start has made vif 0 a station.
BootMsgs == <<Msg("INIT", "none"), Msg("SWITCH_MODE_CMD", "STA"),
              Msg("AUTO_CONNECT_CMD", "none")>>

Init ==
    /\ wvif_type = "STA" /\ sm_init = FALSE /\ sm_state = IDLE
    /\ retry_count = 0 /\ delayed_connect_retry = FALSE
    /\ dhcp_polling_count = 0
    /\ preroam_enable = FALSE /\ preroam_start = FALSE /\ preroam_bk = FALSE
    /\ polling_scan = FALSE
    /\ scan_blocked = FALSE /\ conn_blocked = FALSE
    /\ retry_timers = 0 /\ dhcp_timers = 0 /\ link_timers = 0
    /\ \E n \in {1, 3} : queue = SubSeq(BootMsgs, 1, n)
    /\ wait_queue = <<>> /\ dropped = FALSE
    /\ mac_type = "STA" /\ mac_scan = FALSE /\ mac_link = "none"
    /\ mac_late = FALSE
    /\ cmds = 0 /\ inds = 0

Next == Handle \/ Timers \/ Mac \/ Api

Spec == Init /\ [][Next]_vars

\* A four-way handshake is finite: its frames complete or fail it in the end.
HandshakeEnds == StaRxEapol /\ mac_link' # mac_link

\* The task serves its queue and its expired timers; the MAC ends a scan and
\* an association it has accepted and indicates an opened port; an AP goes on
\* with a handshake it has begun.  Nothing is assumed of the callers, of link
\* losses or of late indications.
Fairness ==
    /\ WF_vars(Handle)
    /\ WF_vars(ConnectRetry) /\ WF_vars(DhcpPolling)
    /\ WF_vars(MacScanEnd) /\ WF_vars(MacConnectInd)
    /\ WF_vars(MacDhcpStart) /\ WF_vars(MacRxEapol)
    /\ SF_vars(HandshakeEnds)

FairSpec == Spec /\ Fairness

-----------------------------------------------------------------------------
(* Properties                                                               *)

\* The counters, states and timers of the machine, and the MAC.
FieldType ==
    /\ wvif_type \in Types
    /\ sm_state \in {IDLE, STARTED, CONNECTED} \cup Linking
    /\ retry_count \in Nat
    /\ dhcp_polling_count \in 0..CountMod-1
    /\ retry_timers \in Nat /\ dhcp_timers \in Nat /\ link_timers \in Nat
    /\ mac_type \in Types \cup {"UNKNOWN"} /\ mac_link \in Links
    /\ cmds \in Nat /\ inds \in Nat

\* The flags.
FlagType ==
    /\ sm_init \in BOOLEAN /\ delayed_connect_retry \in BOOLEAN
    /\ preroam_enable \in BOOLEAN /\ preroam_start \in BOOLEAN
    /\ preroam_bk \in BOOLEAN /\ polling_scan \in BOOLEAN
    /\ scan_blocked \in BOOLEAN /\ conn_blocked \in BOOLEAN
    /\ dropped \in BOOLEAN
    /\ mac_scan \in BOOLEAN /\ mac_late \in BOOLEAN

\* The queues.
QueueType == queue \in Seq(Msgs) /\ wait_queue \in Seq(WaitEvts)

\* Every variable has its type; in particular the unsigned counters that the
\* timer callbacks decrement (retry_count, the number of timers) never fall
\* below zero.
TypeOK == FieldType /\ FlagType /\ QueueType

\* The three machines share one field: whatever mix of mode switches and
\* late messages arrives, it holds a state of the machine that owns it.
StateOfMachine ==
    sm_state \in IF wvif_type = "STA" THEN {IDLE, CONNECTED} \cup Linking
                 ELSE {INIT, STARTED}

\* A pending connection retry belongs to a station that is still linking and
\* has a retry left: mgmt_connect_retry decrements an unsigned counter and
\* enters SCAN without looking at the state or the type.
RetryTimerInv ==
    /\ retry_timers <= 1
    /\ retry_timers > 0 => /\ wvif_type = "STA"
                           /\ sm_state \in Linking
                           /\ retry_count > 0

\* DHCP polling runs once at most, and never outlives the link it was started
\* for: whatever ends the wait cancels it or finds its verdict queued.  (A
\* DHCP_SUCCESS of an earlier attempt may end the wait while it still runs,
\* see NoPhantomConnection: CONNECTED then ignores the verdict.)
DhcpTimerInv ==
    /\ dhcp_timers <= 1
    /\ dhcp_timers > 0 => wvif_type = "STA" /\ sm_state \in {DHCP, CONNECTED}

\* Link polling, which starts scans, runs only while connected.
LinkTimerInv == link_timers > 0 => wvif_type = "STA" /\ sm_state = CONNECTED

\* The MAC has an association, or is about to, only while a station machine
\* is past SCAN or looking for the next AP: an idle station, a soft AP and a
\* monitor have none.
NoLinkWhenIdle ==
    mac_link # "none" => wvif_type = "STA" /\ sm_state # IDLE

\* "Check if wifi vif which in station is connected to an ap": a station in
\* CONNECTED has a link, or the news of its loss is queued.  Messages do not say
\* which attempt they belong to, so those of an abandoned one may lead a later
\* one to CONNECTED while its association is still under way.
NoPhantomConnection ==
    wvif_type = "STA" /\ sm_state = CONNECTED =>
        \/ mac_link \in {"up", "stopped"}
        \/ Pending("DISCONNECT") \/ dropped

\* Waiting in DHCP ends: polling is scheduled or its verdict is queued.
DhcpNotStranded ==
    wvif_type = "STA" /\ sm_state = DHCP =>
        \/ dhcp_timers > 0 \/ dropped
        \/ Pending("DHCP_SUCCESS") \/ Pending("DHCP_FAIL")

\* Waiting in CONNECT ends: the MAC owes an answer, its answer to this very
\* attempt is queued, or a failure is.
ConnectNotStranded ==
    wvif_type = "STA" /\ sm_state = CONNECT =>
        \/ mac_link = "pending"
        \/ mac_link = "assoc" /\ Pending("ASSOC_SUCCESS")
        \/ retry_timers > 0 \/ dropped
        \/ Pending("CONNECT_FAIL") \/ Pending("DISCONNECT")

\* Waiting in HANDSHAKE ends: the handshake or the port is under way, or its
\* outcome is queued.
HandshakeNotStranded ==
    wvif_type = "STA" /\ sm_state = HANDSHAKE =>
        \/ mac_link \in {"pending", "assoc", "open"}
        \/ retry_timers > 0 \/ dropped
        \/ \E e \in {"DHCP_START", "CONNECT_FAIL", "DISCONNECT"} : Pending(e)

\* Waiting in SCAN ends: a scan runs, its end is queued or a retry is
\* scheduled.  (With delayed_connect_retry set no scan is started: see
\* DelayMeansLater.)
ScanNotStranded ==
    wvif_type = "STA" /\ sm_state = SCAN /\ ~delayed_connect_retry =>
        \/ mac_scan \/ retry_timers > 0 \/ dropped
        \/ Pending("SCAN_DONE") \/ Pending("SCAN_FAIL")

\* "if (sm->delayed_connect_retry) // delay the connect": a station that
\* enters SCAN without scanning has a timer that will make it scan.
DelayMeansLater ==
    wvif_type = "STA" /\ sm_state = SCAN /\ delayed_connect_retry =>
        retry_timers > 0 \/ dropped

\* A soft AP or a monitor that reports itself started runs on a MAC interface
\* of its type, although mgmt_switch_mode records the new type before the MAC
\* has agreed to it.
StartedOnMac ==
    wvif_type # "STA" /\ sm_state = STARTED => mac_type = wvif_type

\* No event handled while a station is linking grants it new retries: the
\* number of retries of one connection is bounded.
RetriesNeverRegained ==
    [][({sm_state, sm_state'} \subseteq Linking)
          => (retry_count' <= retry_count)]_vars

\* Linking ends: connected, idle or another mode, unless a message was lost
\* to a full queue or the retry was forgotten (see DelayMeansLater).
LinkingEnds ==
    sm_state \in Linking
        ~> (sm_state \notin Linking \/ dropped \/ ~DelayMeansLater)

\* A connected station that was told of the loss of its link leaves CONNECTED.
LossNoticed ==
    (sm_state = CONNECTED /\ Pending("DISCONNECT"))
        ~> (sm_state # CONNECTED \/ dropped)
=============================================================================
