--------------------------- MODULE WifiMgmtProofs ---------------------------
(***************************************************************************)
(* Proofs about WifiMgmt, for every queue size, retry limit and bound.     *)
(*                                                                         *)
(* The inductive invariant IInv has three parts: the types (Boolean flags, *)
(* queues and the rest apart, since different provers settle them), the    *)
(* control invariants, which say which timers and which link go with which *)
(* state, and the progress invariants, which say what a waiting station    *)
(* waits for.  Each part is preserved by every action; the lemmas follow   *)
(* the parts and have one step per action.                                 *)
(***************************************************************************)
EXTENDS WifiMgmt, TLAPS

USE DEF IDLE, SCAN, CONNECT, HANDSHAKE, DHCP, CONNECTED, INIT, STARTED

\* Which timers, which link and which MAC type go with which state.
Control ==
    /\ FieldType /\ StateOfMachine
    /\ RetryTimerInv /\ DhcpTimerInv /\ LinkTimerInv
    /\ NoLinkWhenIdle /\ StartedOnMac

\* What a waiting station waits for.
NotStranded ==
    /\ ScanNotStranded /\ ConnectNotStranded
    /\ HandshakeNotStranded /\ DhcpNotStranded

IInv == TypeOK /\ Control /\ NotStranded

-----------------------------------------------------------------------------
(* Queues                                                                   *)

\* Posting to a bounded queue keeps the type of its elements.
LEMMA CappedType ==
    ASSUME NEW S, NEW q \in Seq(S), NEW x \in S, NEW cap \in Nat
    PROVE  Capped(q, x, cap) \in Seq(S)
  BY DEF Capped

\* Every message of the model is a message.
LEMMA MsgType ==
    ASSUME NEW e \in Events, NEW a \in Args
    PROVE  Msg(e, a) \in Msgs /\ Msg(e, a).ev = e
  BY DEF Msg, Msgs

\* The mgmt_post_* functions keep the type of the wait queue.
LEMMA PostType ==
    ASSUME NEW w \in Seq(WaitEvts)
    PROVE  /\ PostDisconnDone(w) \in Seq(WaitEvts)
           /\ \A r \in {"SUCCESS", "FAIL"} :
                  /\ PostConnDone(w, r) \in Seq(WaitEvts)
                  /\ PostScanDone(w, r) \in Seq(WaitEvts)
  BY CappedType, LimitsAssumption
  DEF LimitsAssumption, PostDisconnDone, PostConnDone, PostScanDone,
      WaitEvt, WaitEvts

\* Taking the head off keeps every message with another event.
LEMMA HasTail ==
    ASSUME NEW q \in Seq(Msgs), q # <<>>, NEW e, Has(q, e), Head(q).ev # e
    PROVE  Has(Tail(q), e)
  <1>1. PICK i \in 1..Len(q) : q[i].ev = e
    BY DEF Has
  <1>2. i # 1
    BY <1>1
  <1>3. i - 1 \in 1..Len(Tail(q)) /\ Tail(q)[i - 1] = q[i]
    BY <1>2
  <1> QED BY <1>1, <1>3 DEF Has

\* What one step may do to the message queue, from the queue q the handler
\* sees: leave it, or post one message.
Moves(q) == NoSend(q) \/ \E m \in Msgs : Send(q, m)

\* Nothing is lost from q, and the loss of a post is never forgotten.
LEMMA MovesKeep ==
    ASSUME NEW q \in Seq(Msgs), dropped \in BOOLEAN, Moves(q)
    PROVE  /\ queue' \in Seq(Msgs)
           /\ dropped => dropped'
           /\ \A e : Has(q, e) => Pending(e)'
  <1>1. CASE NoSend(q)
    BY <1>1 DEF NoSend, Pending
  <1>2. ASSUME NEW m \in Msgs, Send(q, m)
        PROVE  /\ queue' \in Seq(Msgs)
               /\ dropped => dropped'
               /\ \A e : Has(q, e) => Pending(e)'
    <2>1. queue' \in Seq(Msgs)
      BY <1>2, CappedType, LimitsAssumption DEF LimitsAssumption, Send
    <2>2. dropped => dropped'
      BY <1>2, Zenon DEF Send
    <2>3. \A e : Has(q, e) => Has(queue', e)
      BY <1>2 DEF Send, Capped, Has
    <2> QED BY <2>1, <2>2, <2>3 DEF Pending
  <1> QED BY <1>1, <1>2 DEF Moves

\* A post succeeds or is recorded as lost.
LEMMA SendPosts ==
    ASSUME NEW q \in Seq(Msgs), NEW m \in Msgs, Send(q, m)
    PROVE  Moves(q) /\ (dropped' \/ Pending(m.ev)')
  <1>1. CASE Len(q) < QueueCap
    <2>1. queue' = Append(q, m)
      BY <1>1 DEF Send, Capped
    <2> QED BY <2>1 DEF Pending, Has, Moves
  <1>2. CASE ~(Len(q) < QueueCap)
    <2>1. Len(q) >= QueueCap
      BY <1>2, LimitsAssumption DEF LimitsAssumption
    <2> QED BY <2>1, Zenon DEF Send, Moves
  <1> QED BY <1>1, <1>2

\* The messages the task and the MAC post are messages.
LEMMA PostedMsgs ==
    \A e \in {"SCAN_FAIL", "CONNECT_FAIL", "CONNECT_SUCCESS", "CONNECT_CMD",
              "FT_ROAMING_CMD", "DHCP_SUCCESS", "DHCP_FAIL", "SCAN_DONE",
              "ASSOC_SUCCESS", "RX_EAPOL", "DHCP_START", "DISCONNECT",
              "ROAMING_START"} :
       \A a \in {"none", "fail", "NO_BEACON", "FROM_UI", "SA_QUERY_FAIL"} :
           Msg(e, a) \in Msgs /\ Msg(e, a).ev = e
  BY MsgType DEF Events, Args

\* A handler consumes the head and posts at most one message.
LEMMA HandleMoves ==
    ASSUME QueueType, Handle
    PROVE  queue # <<>> /\ Moves(Tail(queue))
  <1> USE DEF Moves
  <1>1. CASE StaInit
    BY <1>1
    DEF StaInit, Fetch
  <1>2. CASE StaIdleConnectCmd
    BY <1>2, PostedMsgs
    DEF StaIdleConnectCmd, Fetch, EnterScan
  <1>3. CASE StaIdleAutoConnectCmd
    BY <1>3, PostedMsgs
    DEF StaIdleAutoConnectCmd, Fetch, EnterScan
  <1>4. CASE StaIdleDisconnectCmd
    BY <1>4
    DEF StaIdleDisconnectCmd, Fetch
  <1>5. CASE StaLinkingCmd
    BY <1>5
    DEF StaLinkingCmd, Fetch, LinkIsOngoing
  <1>6. CASE StaToIdle
    BY <1>6
    DEF StaToIdle, Fetch
  <1>7. CASE StaScanDone
    BY <1>7, PostedMsgs
    DEF StaScanDone, Fetch, EnterConnect
  <1>8. CASE StaScanFail
    BY <1>8, PostedMsgs
    DEF StaScanFail, Fetch, GiveUp, PreroamRollback
  <1>9. CASE StaConnectAssocSuccess
    BY <1>9
    DEF StaConnectAssocSuccess, Fetch
  <1>10. CASE StaHandshakeDhcpStart
    BY <1>10
    DEF StaHandshakeDhcpStart, Fetch
  <1>11. CASE StaDhcpSuccess
    BY <1>11, PostedMsgs
    DEF StaDhcpSuccess, Fetch, EnterConnected
  <1>12. CASE StaLinkFailed
    BY <1>12, PostedMsgs
    DEF StaLinkFailed, Fetch, RetryLater, GiveUp, EnterScan, PreroamRollback
  <1>13. CASE StaRxEapol
    BY <1>13, PostedMsgs
    DEF StaRxEapol, Fetch
  <1>14. CASE StaConnectedConnectCmd
    BY <1>14, PostedMsgs
    DEF StaConnectedConnectCmd, Fetch, EnterScan
  <1>15. CASE StaConnectedPollingScanDone
    BY <1>15, PostedMsgs
    DEF StaConnectedPollingScanDone, Fetch, ConnectedScanDone
  <1>16. CASE StaConnectedDisconnect
    BY <1>16, PostedMsgs
    DEF StaConnectedDisconnect, Fetch, EnterScan
  <1>17. CASE StaConnectedRoamingStart
    BY <1>17
    DEF StaConnectedRoamingStart, Fetch
  <1>18. CASE StaConnectedFtRoamingCmd
    BY <1>18, PostedMsgs
    DEF StaConnectedFtRoamingCmd, Fetch
  <1>19. CASE StaIgnore
    BY <1>19
    DEF StaIgnore, Ignore
  <1>20. CASE ScanCmd
    BY <1>20
    DEF ScanCmd, Fetch
  <1>21. CASE ScanOver
    BY <1>21
    DEF ScanOver, Fetch
  <1>22. CASE ApMonitorStart
    BY <1>22
    DEF ApMonitorStart, Fetch
  <1>23. CASE ApMonitorIgnore
    BY <1>23
    DEF ApMonitorIgnore, Ignore
  <1>24. CASE SwitchModeSame
    BY <1>24
    DEF SwitchModeSame, Fetch, Ignore
  <1>25. CASE SwitchMode
    BY <1>25
    DEF SwitchMode, Fetch
  <1> QED
    BY <1>1, <1>2, <1>3, <1>4, <1>5, <1>6, <1>7, <1>8, <1>9, <1>10, <1>11,
       <1>12, <1>13, <1>14, <1>15, <1>16, <1>17, <1>18, <1>19, <1>20, <1>21,
       <1>22, <1>23, <1>24, <1>25
    DEF Handle, StaStep

\* Timers, the MAC and the API consume nothing and post at most one message.
LEMMA OtherMoves ==
    ASSUME QueueType, FlagType, Timers \/ Mac \/ Api
    PROVE  Moves(queue)
  <1> USE DEF Moves
  <1>1. CASE ConnectRetry
    BY <1>1, PostedMsgs
    DEF ConnectRetry, EnterScan
  <1>2. CASE DhcpPolling
    BY <1>2, PostedMsgs
    DEF DhcpPolling
  <1>3. CASE LinkStatusPolling
    BY <1>3 DEF LinkStatusPolling, NoSend, qVars
  <1>4. CASE MacScanEnd
    BY <1>4, PostedMsgs
    DEF MacScanEnd, Report
  <1>5. CASE MacConnectInd
    BY <1>5, PostedMsgs
    DEF MacConnectInd, Report
  <1>6. CASE MacRxEapol
    BY <1>6, PostedMsgs
    DEF MacRxEapol, Report
  <1>7. CASE MacDhcpStart
    BY <1>7, PostedMsgs
    DEF MacDhcpStart, Report
  <1>8. CASE MacDisconnect
    BY <1>8, PostedMsgs
    DEF MacDisconnect, Report
  <1>9. CASE WpaSaQueryFail
    BY <1>9, PostedMsgs
    DEF WpaSaQueryFail, Report
  <1>10. CASE MacLateDisconnect
    BY <1>10, PostedMsgs
    DEF MacLateDisconnect, Report
  <1>11. CASE MacRoaming
    BY <1>11, PostedMsgs
    DEF MacRoaming, Report
  <1>12. CASE ApiSend
    <2>1. PICK m \in Cmds : queue' = Append(queue, m)
      BY <1>12 DEF ApiSend
    <2>2. m \in Msgs /\ queue' = Capped(queue, m, QueueCap)
      BY <1>12, <2>1, CmdsAssumption DEF ApiSend, Capped, CmdsAssumption
    <2>3. ~(Len(queue) >= QueueCap)
      BY <1>12, LimitsAssumption DEF ApiSend, LimitsAssumption, QueueType
    <2>4. dropped' = (dropped \/ Len(queue) >= QueueCap)
      BY <1>12, <2>3, Zenon DEF ApiSend, FlagType
    <2> QED BY <2>2, <2>4 DEF Send
  <1>13. CASE ApiScanBlocked
    BY <1>13 DEF ApiScanBlocked, NoSend, qVars
  <1>14. CASE ApiRoamingSet
    BY <1>14 DEF ApiRoamingSet, NoSend, qVars
  <1>15. CASE ApiFetch
    BY <1>15 DEF ApiFetch, NoSend, qVars
  <1> QED
    BY <1>1, <1>2, <1>3, <1>4, <1>5, <1>6, <1>7, <1>8, <1>9, <1>10, <1>11,
       <1>12, <1>13, <1>14, <1>15
    DEF Timers, Mac, Api

-----------------------------------------------------------------------------
(* Types                                                                    *)

\* Every step leaves every flag a Boolean.
LEMMA FlagStep ==
    ASSUME FlagType, Next
    PROVE  FlagType'
  <1> USE DEF FlagType
  <1>1. CASE StaInit
    BY <1>1, Zenon
    DEF StaInit, EnterIdle, NoSend, envVars, DisconnectReq
  <1>2. CASE StaIdleConnectCmd
    BY <1>2, Zenon
    DEF StaIdleConnectCmd, CopyCfg, EnterScan, roamVars, envVars, NoSend,
        ScanSet, Send
  <1>3. CASE StaIdleAutoConnectCmd
    BY <1>3, Zenon
    DEF StaIdleAutoConnectCmd, EnterIdle, NoSend, EnterScan, roamVars,
        blockVars, envVars, DisconnectReq, ScanSet, Send
  <1>4. CASE StaIdleDisconnectCmd
    BY <1>4, Zenon
    DEF StaIdleDisconnectCmd, NoSend, smVars, roamVars, blockVars, macVars,
        envVars
  <1>5. CASE StaLinkingCmd
    BY <1>5, Zenon
    DEF StaLinkingCmd, LinkIsOngoing, NoSend, smVars, roamVars, macVars,
        envVars
  <1>6. CASE StaToIdle
    BY <1>6, Zenon
    DEF StaToIdle, EnterIdle, NoSend, roamVars, blockVars, envVars,
        DisconnectReq
  <1>7. CASE StaScanDone
    BY <1>7, Zenon
    DEF StaScanDone, EnterConnect, roamVars, blockVars, envVars, NoSend, Send
  <1>8. CASE StaScanFail
    BY <1>8, Zenon
    DEF StaScanFail, NoSend, roamVars, GiveUp, envVars, PreroamRollback,
        EnterIdle, Send, DisconnectReq
  <1>9. CASE StaConnectAssocSuccess
    BY <1>9, Zenon
    DEF StaConnectAssocSuccess, NoSend, roamVars, blockVars, envVars
  <1>10. CASE StaHandshakeDhcpStart
    BY <1>10, Zenon
    DEF StaHandshakeDhcpStart, EnterDhcp, NoSend, roamVars, blockVars,
        macVars, envVars
  <1>11. CASE StaDhcpSuccess
    BY <1>11, Zenon
    DEF StaDhcpSuccess, EnterConnected, macVars, envVars, NoSend, Send
  <1>12. CASE StaLinkFailed
    BY <1>12, Zenon
    DEF StaLinkFailed, RetryLater, GiveUp, envVars, EnterScan, FailLink,
        roamVars, PreroamRollback, EnterIdle, NoSend, ScanSet, Send,
        StopEapol, DisconnectReq
  <1>13. CASE StaRxEapol
    BY <1>13, Zenon
    DEF StaRxEapol, NoSend, Send, smVars, roamVars, blockVars, envVars
  <1>14. CASE StaConnectedConnectCmd
    BY <1>14, Zenon
    DEF StaConnectedConnectCmd, CopyCfg, DisconnectReq, EnterScan, roamVars,
        envVars, NoSend, ScanSet, Send
  <1>15. CASE StaConnectedPollingScanDone
    BY <1>15, Zenon
    DEF StaConnectedPollingScanDone, ConnectedScanDone, smVars, macVars,
        envVars, NoSend, Send
  <1>16. CASE StaConnectedDisconnect
    BY <1>16, Zenon
    DEF StaConnectedDisconnect, DisconnectReq, StopEapol, EnterScan,
        EnterIdle, NoSend, roamVars, blockVars, envVars, ScanSet, Send
  <1>17. CASE StaConnectedRoamingStart
    BY <1>17, Zenon
    DEF StaConnectedRoamingStart, NoSend, smVars, blockVars, macVars, envVars
  <1>18. CASE StaConnectedFtRoamingCmd
    BY <1>18, Zenon
    DEF StaConnectedFtRoamingCmd, NoSend, Send, smVars, roamVars, blockVars,
        envVars
  <1>19. CASE StaIgnore
    BY <1>19, Zenon
    DEF StaIgnore, Ignore, NoSend, smVars, roamVars, blockVars, macVars,
        envVars
  <1>20. CASE ScanCmd
    BY <1>20, Zenon
    DEF ScanCmd, ScanSet, NoSend, smVars, roamVars, envVars
  <1>21. CASE ScanOver
    BY <1>21, Zenon
    DEF ScanOver, NoSend, smVars, roamVars, macVars, envVars
  <1>22. CASE ApMonitorStart
    BY <1>22, Zenon
    DEF ApMonitorStart, NoSend, roamVars, blockVars, macVars, envVars
  <1>23. CASE ApMonitorIgnore
    BY <1>23, Zenon
    DEF ApMonitorIgnore, Ignore, NoSend, smVars, roamVars, blockVars, macVars,
        envVars
  <1>24. CASE SwitchModeSame
    BY <1>24, Zenon
    DEF SwitchModeSame, Ignore, NoSend, smVars, roamVars, blockVars, macVars,
        envVars
  <1>25. CASE SwitchMode
    BY <1>25, Zenon
    DEF SwitchMode, EnterIdle, NoSend, envVars, DisconnectReq
  <1>26. CASE ConnectRetry
    BY <1>26, Zenon
    DEF ConnectRetry, EnterScan, roamVars, blockVars, envVars, NoSend,
        ScanSet, Send
  <1>27. CASE DhcpPolling
    BY <1>27, Zenon
    DEF DhcpPolling, Send, NoSend, smVars, roamVars, blockVars, macVars,
        envVars
  <1>28. CASE LinkStatusPolling
    BY <1>28, Zenon
    DEF LinkStatusPolling, ScanSet, smVars, blockVars, qVars, envVars
  <1>29. CASE MacScanEnd
    BY <1>29, Zenon
    DEF MacScanEnd, Report, Send, smVars, roamVars, blockVars
  <1>30. CASE MacConnectInd
    BY <1>30, Zenon
    DEF MacConnectInd, Report, Send, smVars, roamVars, blockVars
  <1>31. CASE MacRxEapol
    BY <1>31, Zenon
    DEF MacRxEapol, Report, Send, smVars, roamVars, blockVars
  <1>32. CASE MacDhcpStart
    BY <1>32, Zenon
    DEF MacDhcpStart, Report, Send, smVars, roamVars, blockVars
  <1>33. CASE MacDisconnect
    BY <1>33, Zenon
    DEF MacDisconnect, Report, Send, smVars, roamVars, blockVars
  <1>34. CASE WpaSaQueryFail
    BY <1>34, Zenon
    DEF WpaSaQueryFail, Report, Send, smVars, roamVars, blockVars
  <1>35. CASE MacLateDisconnect
    BY <1>35, Zenon
    DEF MacLateDisconnect, Report, Send, smVars, roamVars, blockVars
  <1>36. CASE MacRoaming
    BY <1>36, Zenon
    DEF MacRoaming, Report, Send, smVars, roamVars, blockVars
  <1>37. CASE ApiSend
    BY <1>37, Zenon
    DEF ApiSend, smVars, roamVars, blockVars, macVars
  <1>38. CASE ApiScanBlocked
    BY <1>38, Zenon
    DEF ApiScanBlocked, smVars, roamVars, qVars, macVars
  <1>39. CASE ApiRoamingSet
    BY <1>39, Zenon
    DEF ApiRoamingSet, smVars, blockVars, qVars, macVars
  <1>40. CASE ApiFetch
    BY <1>40, Zenon
    DEF ApiFetch, smVars, roamVars, blockVars, qVars, macVars, envVars
  <1> QED
    BY <1>1, <1>2, <1>3, <1>4, <1>5, <1>6, <1>7, <1>8, <1>9, <1>10, <1>11,
       <1>12, <1>13, <1>14, <1>15, <1>16, <1>17, <1>18, <1>19, <1>20, <1>21,
       <1>22, <1>23, <1>24, <1>25, <1>26, <1>27, <1>28, <1>29, <1>30, <1>31,
       <1>32, <1>33, <1>34, <1>35, <1>36, <1>37, <1>38, <1>39, <1>40
    DEF Next, Handle, StaStep, Timers, Mac, Api

\* The wait queue only ever holds wait events.
LEMMA WaitStep ==
    ASSUME QueueType, Next
    PROVE  wait_queue' \in Seq(WaitEvts)
  <1> USE DEF QueueType
  <1>1. CASE StaInit
    BY <1>1, PostType, LimitsAssumption
    DEF StaInit, EnterIdle
  <1>2. CASE StaIdleConnectCmd
    BY <1>2, LimitsAssumption
    DEF StaIdleConnectCmd
  <1>3. CASE StaIdleAutoConnectCmd
    BY <1>3, PostType, LimitsAssumption
    DEF StaIdleAutoConnectCmd, EnterIdle
  <1>4. CASE StaIdleDisconnectCmd
    BY <1>4, PostType
    DEF StaIdleDisconnectCmd
  <1>5. CASE StaLinkingCmd
    BY <1>5, CappedType, LimitsAssumption
    DEF LimitsAssumption, StaLinkingCmd, LinkIsOngoing, WaitEvt, WaitEvts
  <1>6. CASE StaToIdle
    BY <1>6, PostType
    DEF StaToIdle, EnterIdle
  <1>7. CASE StaScanDone
    BY <1>7
    DEF StaScanDone
  <1>8. CASE StaScanFail
    BY <1>8, PostType
    DEF StaScanFail, GiveUp, EnterIdle, ReasonOf
  <1>9. CASE StaConnectAssocSuccess
    BY <1>9
    DEF StaConnectAssocSuccess
  <1>10. CASE StaHandshakeDhcpStart
    BY <1>10, LimitsAssumption
    DEF StaHandshakeDhcpStart
  <1>11. CASE StaDhcpSuccess
    BY <1>11, PostType
    DEF StaDhcpSuccess, EnterConnected
  <1>12. CASE StaLinkFailed
    BY <1>12, PostType
    DEF StaLinkFailed, RetryLater, GiveUp, EnterIdle, ReasonOf
  <1>13. CASE StaRxEapol
    BY <1>13
    DEF StaRxEapol
  <1>14. CASE StaConnectedConnectCmd
    BY <1>14, PostType, LimitsAssumption
    DEF StaConnectedConnectCmd
  <1>15. CASE StaConnectedPollingScanDone
    BY <1>15, PostType
    DEF StaConnectedPollingScanDone
  <1>16. CASE StaConnectedDisconnect
    BY <1>16, PostType, LimitsAssumption
    DEF StaConnectedDisconnect, EnterIdle
  <1>17. CASE StaConnectedRoamingStart
    BY <1>17
    DEF StaConnectedRoamingStart
  <1>18. CASE StaConnectedFtRoamingCmd
    BY <1>18
    DEF StaConnectedFtRoamingCmd
  <1>19. CASE StaIgnore
    BY <1>19
    DEF StaIgnore, Ignore
  <1>20. CASE ScanCmd
    BY <1>20, PostType
    DEF ScanCmd
  <1>21. CASE ScanOver
    BY <1>21, PostType
    DEF ScanOver
  <1>22. CASE ApMonitorStart
    <2>1. \A r \in {"SUCCESS", "FAIL"} :
              WaitEvt(StartDone[wvif_type], r) \in WaitEvts
      BY <1>22 DEF ApMonitorStart, StartDone, WaitEvt, WaitEvts
    <2> QED
      BY <1>22, <2>1, CappedType, LimitsAssumption
      DEF LimitsAssumption, ApMonitorStart
  <1>23. CASE ApMonitorIgnore
    BY <1>23
    DEF ApMonitorIgnore, Ignore
  <1>24. CASE SwitchModeSame
    BY <1>24
    DEF SwitchModeSame, Ignore
  <1>25. CASE SwitchMode
    BY <1>25, PostType, LimitsAssumption
    DEF SwitchMode, EnterIdle
  <1>26. CASE ConnectRetry
    BY <1>26
    DEF ConnectRetry
  <1>27. CASE DhcpPolling
    BY <1>27, LimitsAssumption
    DEF DhcpPolling
  <1>28. CASE LinkStatusPolling
    BY <1>28
    DEF LinkStatusPolling
  <1>29. CASE MacScanEnd
    BY <1>29
    DEF MacScanEnd, Report
  <1>30. CASE MacConnectInd
    BY <1>30
    DEF MacConnectInd, Report
  <1>31. CASE MacRxEapol
    BY <1>31
    DEF MacRxEapol, Report
  <1>32. CASE MacDhcpStart
    BY <1>32
    DEF MacDhcpStart, Report
  <1>33. CASE MacDisconnect
    BY <1>33
    DEF MacDisconnect, Report
  <1>34. CASE WpaSaQueryFail
    BY <1>34
    DEF WpaSaQueryFail, Report
  <1>35. CASE MacLateDisconnect
    BY <1>35
    DEF MacLateDisconnect, Report
  <1>36. CASE MacRoaming
    BY <1>36
    DEF MacRoaming, Report
  <1>37. CASE ApiSend
    BY <1>37
    DEF ApiSend
  <1>38. CASE ApiScanBlocked
    BY <1>38
    DEF ApiScanBlocked
  <1>39. CASE ApiRoamingSet
    BY <1>39
    DEF ApiRoamingSet
  <1>40. CASE ApiFetch
    BY <1>40
    DEF ApiFetch
  <1> QED
    BY <1>1, <1>2, <1>3, <1>4, <1>5, <1>6, <1>7, <1>8, <1>9, <1>10, <1>11,
       <1>12, <1>13, <1>14, <1>15, <1>16, <1>17, <1>18, <1>19, <1>20, <1>21,
       <1>22, <1>23, <1>24, <1>25, <1>26, <1>27, <1>28, <1>29, <1>30, <1>31,
       <1>32, <1>33, <1>34, <1>35, <1>36, <1>37, <1>38, <1>39, <1>40
    DEF Next, Handle, StaStep, Timers, Mac, Api

\* Every step leaves messages in the message queue.
LEMMA QueueStep ==
    ASSUME QueueType, FlagType, Next
    PROVE  QueueType'
  <1>1. wait_queue' \in Seq(WaitEvts)
    BY WaitStep
  <1>2. CASE Handle
    <2>1. Tail(queue) \in Seq(Msgs) /\ Moves(Tail(queue))
      BY <1>2, HandleMoves DEF QueueType
    <2> QED BY <1>1, <2>1, MovesKeep DEF QueueType, FlagType
  <1>3. CASE Timers \/ Mac \/ Api
    BY <1>1, <1>3, OtherMoves, MovesKeep DEF QueueType, FlagType
  <1> QED BY <1>2, <1>3 DEF Next

-----------------------------------------------------------------------------
(* Control                                                                  *)

\* Every step keeps timers, link and MAC type in accord with the state.
LEMMA ControlStep ==
    ASSUME Control, Next
    PROVE  Control'
  <1> USE DEF Control, FieldType, StateOfMachine, RetryTimerInv, DhcpTimerInv,
              LinkTimerInv, NoLinkWhenIdle, StartedOnMac, Types, Links, Linking,
              LimitsAssumption
  <1>1. CASE StaInit
    BY <1>1, LimitsAssumption
    DEF StaInit, RetryParamSet, EnterIdle, envVars, DisconnectReq
  <1>2. CASE StaIdleConnectCmd
    BY <1>2, LimitsAssumption
    DEF StaIdleConnectCmd, Sta, RetryParamSet, EnterScan, envVars
  <1>3. CASE StaIdleAutoConnectCmd
    <2>1. CASE /\ RetryParamSet(TRUE)
               /\ EnterScan(Tail(queue), delayed_connect_retry)
               /\ UNCHANGED <<retry_timers, mac_link>>
      BY <1>3, <2>1, LimitsAssumption
      DEF StaIdleAutoConnectCmd, Sta, RetryParamSet, EnterScan, envVars
    <2>2. CASE EnterIdle(wait_queue) /\ UNCHANGED retry_count
      BY <1>3, <2>2
      DEF StaIdleAutoConnectCmd, Sta, EnterIdle, DisconnectReq, envVars
    <2> QED BY <1>3, <2>1, <2>2 DEF StaIdleAutoConnectCmd
  <1>4. CASE StaIdleDisconnectCmd
    BY <1>4
    DEF StaIdleDisconnectCmd, Sta, smVars, timerVars, macVars, envVars
  <1>5. CASE StaLinkingCmd
    BY <1>5
    DEF StaLinkingCmd, Linking, Sta, LinkIsOngoing, smVars, timerVars,
        macVars, envVars
  <1>6. CASE StaToIdle
    BY <1>6
    DEF StaToIdle, Linking, Sta, EnterIdle, envVars, DisconnectReq
  <1>7. CASE StaScanDone
    BY <1>7
    DEF StaScanDone, Sta, EnterConnect, timerVars, envVars
  <1>8. CASE StaScanFail
    BY <1>8
    DEF StaScanFail, Sta, RegisterDelayedConnectRetry, GiveUp, envVars,
        PreroamRollback, EnterIdle, DisconnectReq
  <1>9. CASE StaConnectAssocSuccess
    BY <1>9
    DEF StaConnectAssocSuccess, Sta, EnterHandshake, timerVars, envVars
  <1>10. CASE StaHandshakeDhcpStart
    BY <1>10, LimitsAssumption
    DEF StaHandshakeDhcpStart, Sta, EnterDhcp, macVars, envVars
  <1>11. CASE StaDhcpSuccess
    BY <1>11
    DEF StaDhcpSuccess, Sta, EnterConnected, macVars, envVars
  <1>12. CASE StaLinkFailed
    BY <1>12
    DEF StaLinkFailed, Sta, RetryLater, GiveUp, envVars, EnterScan,
        RegisterDelayedConnectRetry, FailLink, PreroamRollback, EnterIdle,
        StopEapol, DisconnectReq
  <1>13. CASE StaRxEapol
    BY <1>13
    DEF StaRxEapol, Sta, smVars, timerVars, envVars
  <1>14. CASE StaConnectedConnectCmd
    BY <1>14, LimitsAssumption
    DEF StaConnectedConnectCmd, Sta, DisconnectReq, RetryParamSet, EnterScan,
        envVars
  <1>15. CASE StaConnectedPollingScanDone
    BY <1>15
    DEF StaConnectedPollingScanDone, Sta, ConnectedScanDone, smVars, macVars,
        envVars
  <1>16. CASE StaConnectedDisconnect
    <2>1. CASE /\ RetryParamSet(TRUE)
               /\ EnterScan(Tail(queue), delayed_connect_retry)
               /\ UNCHANGED retry_timers /\ (DisconnectReq \/ StopEapol)
      BY <1>16, <2>1, LimitsAssumption
      DEF StaConnectedDisconnect, Sta, RetryParamSet, EnterScan, envVars,
          DisconnectReq, StopEapol
    <2>2. CASE EnterIdle(wait_queue) /\ UNCHANGED retry_count
      BY <1>16, <2>2
      DEF StaConnectedDisconnect, Sta, EnterIdle, DisconnectReq, envVars
    <2> QED BY <1>16, <2>1, <2>2 DEF StaConnectedDisconnect
  <1>17. CASE StaConnectedRoamingStart
    BY <1>17
    DEF StaConnectedRoamingStart, Sta, smVars, macVars, envVars
  <1>18. CASE StaConnectedFtRoamingCmd
    BY <1>18
    DEF StaConnectedFtRoamingCmd, Sta, smVars, timerVars, envVars
  <1>19. CASE StaIgnore
    BY <1>19
    DEF StaIgnore, Sta, Ignore, smVars, timerVars, macVars, envVars
  <1>20. CASE ScanCmd
    BY <1>20
    DEF ScanCmd, smVars, timerVars, envVars
  <1>21. CASE ScanOver
    BY <1>21
    DEF ScanOver, Sta, smVars, timerVars, macVars, envVars
  <1>22. CASE ApMonitorStart
    BY <1>22
    DEF ApMonitorStart, timerVars, macVars, envVars
  <1>23. CASE ApMonitorIgnore
    BY <1>23
    DEF ApMonitorIgnore, Ignore, smVars, timerVars, macVars, envVars
  <1>24. CASE SwitchModeSame
    BY <1>24
    DEF SwitchModeSame, Ignore, smVars, timerVars, macVars, envVars
  <1>25. CASE SwitchMode
    BY <1>25, LimitsAssumption
    DEF SwitchMode, Types, EnterIdle, timerVars, RetryParamSet, envVars,
        DisconnectReq
  <1>26. CASE ConnectRetry
    BY <1>26
    DEF ConnectRetry, EnterScan, envVars
  <1>27. CASE DhcpPolling
    BY <1>27, LimitsAssumption
    DEF DhcpPolling, smVars, macVars, envVars
  <1>28. CASE LinkStatusPolling
    BY <1>28
    DEF LinkStatusPolling, smVars, envVars
  <1>29. CASE MacScanEnd
    BY <1>29
    DEF MacScanEnd, Report, smVars, timerVars
  <1>30. CASE MacConnectInd
    BY <1>30
    DEF MacConnectInd, Report, smVars, timerVars
  <1>31. CASE MacRxEapol
    BY <1>31
    DEF MacRxEapol, Report, smVars, timerVars
  <1>32. CASE MacDhcpStart
    BY <1>32
    DEF MacDhcpStart, Report, smVars, timerVars
  <1>33. CASE MacDisconnect
    BY <1>33
    DEF MacDisconnect, Report, smVars, timerVars
  <1>34. CASE WpaSaQueryFail
    BY <1>34
    DEF WpaSaQueryFail, Report, smVars, timerVars
  <1>35. CASE MacLateDisconnect
    BY <1>35
    DEF MacLateDisconnect, Report, smVars, timerVars
  <1>36. CASE MacRoaming
    BY <1>36
    DEF MacRoaming, Report, smVars, timerVars
  <1>37. CASE ApiSend
    BY <1>37
    DEF ApiSend, smVars, timerVars, macVars
  <1>38. CASE ApiScanBlocked
    BY <1>38
    DEF ApiScanBlocked, smVars, timerVars, macVars
  <1>39. CASE ApiRoamingSet
    BY <1>39
    DEF ApiRoamingSet, smVars, timerVars, macVars
  <1>40. CASE ApiFetch
    BY <1>40
    DEF ApiFetch, smVars, timerVars, macVars, envVars
  <1> QED
    BY <1>1, <1>2, <1>3, <1>4, <1>5, <1>6, <1>7, <1>8, <1>9, <1>10, <1>11,
       <1>12, <1>13, <1>14, <1>15, <1>16, <1>17, <1>18, <1>19, <1>20, <1>21,
       <1>22, <1>23, <1>24, <1>25, <1>26, <1>27, <1>28, <1>29, <1>30, <1>31,
       <1>32, <1>33, <1>34, <1>35, <1>36, <1>37, <1>38, <1>39, <1>40
    DEF Next, Handle, StaStep, Timers, Mac, Api

\* No step within Linking adds retries.
LEMMA RetryStep ==
    ASSUME FieldType, StateOfMachine, Next
    PROVE  {sm_state, sm_state'} \subseteq Linking
               => retry_count' <= retry_count
  <1> USE DEF FieldType, Linking
  <1>1. CASE StaInit
    BY <1>1
    DEF StaInit, RetryParamSet, EnterIdle
  <1>2. CASE StaIdleConnectCmd
    BY <1>2
    DEF StaIdleConnectCmd, Sta, RetryParamSet, EnterScan
  <1>3. CASE StaIdleAutoConnectCmd
    BY <1>3
    DEF StaIdleAutoConnectCmd, Sta, EnterIdle, RetryParamSet, EnterScan
  <1>4. CASE StaIdleDisconnectCmd
    BY <1>4
    DEF StaIdleDisconnectCmd, Sta, smVars
  <1>5. CASE StaLinkingCmd
    BY <1>5
    DEF StaLinkingCmd, Sta, LinkIsOngoing, smVars
  <1>6. CASE StaToIdle
    BY <1>6
    DEF StaToIdle, Sta, EnterIdle
  <1>7. CASE StaScanDone
    BY <1>7
    DEF StaScanDone, Sta, EnterConnect
  <1>8. CASE StaScanFail
    BY <1>8
    DEF StaScanFail, Sta, GiveUp, EnterIdle
  <1>9. CASE StaConnectAssocSuccess
    BY <1>9
    DEF StaConnectAssocSuccess, Sta, EnterHandshake
  <1>10. CASE StaHandshakeDhcpStart
    BY <1>10
    DEF StaHandshakeDhcpStart, Sta, EnterDhcp
  <1>11. CASE StaDhcpSuccess
    BY <1>11
    DEF StaDhcpSuccess, Sta, EnterConnected
  <1>12. CASE StaLinkFailed
    BY <1>12
    DEF StaLinkFailed, Sta, RetryLater, GiveUp, EnterScan, EnterIdle
  <1>13. CASE StaRxEapol
    BY <1>13
    DEF StaRxEapol, Sta, smVars
  <1>14. CASE StaConnectedConnectCmd
    BY <1>14
    DEF StaConnectedConnectCmd, Sta, RetryParamSet, EnterScan
  <1>15. CASE StaConnectedPollingScanDone
    BY <1>15
    DEF StaConnectedPollingScanDone, Sta, smVars
  <1>16. CASE StaConnectedDisconnect
    BY <1>16
    DEF StaConnectedDisconnect, Sta, RetryParamSet, EnterScan, EnterIdle
  <1>17. CASE StaConnectedRoamingStart
    BY <1>17
    DEF StaConnectedRoamingStart, Sta, smVars
  <1>18. CASE StaConnectedFtRoamingCmd
    BY <1>18
    DEF StaConnectedFtRoamingCmd, Sta, smVars
  <1>19. CASE StaIgnore
    BY <1>19
    DEF StaIgnore, Sta, Ignore, smVars
  <1>20. CASE ScanCmd
    BY <1>20
    DEF ScanCmd, smVars
  <1>21. CASE ScanOver
    BY <1>21
    DEF ScanOver, Sta, smVars
  <1>22. CASE ApMonitorStart
    BY <1>22
    DEF ApMonitorStart
  <1>23. CASE ApMonitorIgnore
    BY <1>23
    DEF ApMonitorIgnore, Ignore, smVars
  <1>24. CASE SwitchModeSame
    BY <1>24
    DEF SwitchModeSame, Ignore, smVars
  <1>25. CASE SwitchMode
    BY <1>25
    DEF SwitchMode, EnterIdle, RetryParamSet
  <1>26. CASE ConnectRetry
    BY <1>26
    DEF ConnectRetry, EnterScan
  <1>27. CASE DhcpPolling
    BY <1>27
    DEF DhcpPolling, smVars
  <1>28. CASE LinkStatusPolling
    BY <1>28
    DEF LinkStatusPolling, smVars
  <1>29. CASE MacScanEnd
    BY <1>29
    DEF MacScanEnd, Report, smVars
  <1>30. CASE MacConnectInd
    BY <1>30
    DEF MacConnectInd, Report, smVars
  <1>31. CASE MacRxEapol
    BY <1>31
    DEF MacRxEapol, Report, smVars
  <1>32. CASE MacDhcpStart
    BY <1>32
    DEF MacDhcpStart, Report, smVars
  <1>33. CASE MacDisconnect
    BY <1>33
    DEF MacDisconnect, Report, smVars
  <1>34. CASE WpaSaQueryFail
    BY <1>34
    DEF WpaSaQueryFail, Report, smVars
  <1>35. CASE MacLateDisconnect
    BY <1>35
    DEF MacLateDisconnect, Report, smVars
  <1>36. CASE MacRoaming
    BY <1>36
    DEF MacRoaming, Report, smVars
  <1>37. CASE ApiSend
    BY <1>37
    DEF ApiSend, smVars
  <1>38. CASE ApiScanBlocked
    BY <1>38
    DEF ApiScanBlocked, smVars
  <1>39. CASE ApiRoamingSet
    BY <1>39
    DEF ApiRoamingSet, smVars
  <1>40. CASE ApiFetch
    BY <1>40
    DEF ApiFetch, smVars
  <1> QED
    BY <1>1, <1>2, <1>3, <1>4, <1>5, <1>6, <1>7, <1>8, <1>9, <1>10, <1>11,
       <1>12, <1>13, <1>14, <1>15, <1>16, <1>17, <1>18, <1>19, <1>20, <1>21,
       <1>22, <1>23, <1>24, <1>25, <1>26, <1>27, <1>28, <1>29, <1>30, <1>31,
       <1>32, <1>33, <1>34, <1>35, <1>36, <1>37, <1>38, <1>39, <1>40
    DEF Next, Handle, StaStep, Timers, Mac, Api

-----------------------------------------------------------------------------
(* Progress                                                                 *)

\* A handler leaves a waiting station something to wait for.
LEMMA StrandHandle ==
    ASSUME TypeOK, Control, NotStranded, Handle
    PROVE  NotStranded'
  <1> USE DEF NotStranded, ScanNotStranded, ConnectNotStranded,
              HandshakeNotStranded, DhcpNotStranded
  <1>d. queue \in Seq(Msgs) /\ queue # <<>> /\ Tail(queue) \in Seq(Msgs)
    BY HandleMoves DEF TypeOK, QueueType
  <1>e. Moves(Tail(queue))
    BY HandleMoves DEF TypeOK
  <1>a. \A e : Pending(e) /\ ~Fetch(e) => Pending(e)'
    BY <1>d, <1>e, HasTail, MovesKeep DEF Pending, Fetch, TypeOK, FlagType
  <1>b. dropped => dropped'
    BY <1>d, <1>e, MovesKeep DEF TypeOK, FlagType
  <1>c. \A q \in Seq(Msgs), m \in Msgs :
            Send(q, m) => dropped' \/ Pending(m.ev)'
    BY SendPosts
  <1>1. CASE StaInit
    BY <1>1, <1>a, <1>b
    DEF StaInit, Fetch, RetryParamSet, EnterIdle, envVars, DisconnectReq
  <1>2. CASE StaIdleConnectCmd
    <2>1. sm_state' \in {IDLE, SCAN}
      BY <1>2 DEF StaIdleConnectCmd, EnterScan, EnterIdle
    <2>2. ASSUME sm_state' = SCAN, ~delayed_connect_retry'
          PROVE  mac_scan' \/ dropped' \/ Pending("SCAN_FAIL")'
      BY <1>2, <2>2, <1>c, <1>d, PostedMsgs
      DEF StaIdleConnectCmd, EnterScan, EnterIdle, ScanSet, Fetch
    <2> QED BY <2>1, <2>2
  <1>3. CASE StaIdleAutoConnectCmd
    <2>1. sm_state' \in {IDLE, SCAN}
      BY <1>3 DEF StaIdleAutoConnectCmd, EnterScan, EnterIdle
    <2>2. ASSUME sm_state' = SCAN, ~delayed_connect_retry'
          PROVE  mac_scan' \/ dropped' \/ Pending("SCAN_FAIL")'
      <3>1. /\ ~delayed_connect_retry
            /\ EnterScan(Tail(queue), delayed_connect_retry)
        BY <1>3, <2>2 DEF StaIdleAutoConnectCmd, EnterIdle
      <3>2. queue # <<>>
        BY <1>3 DEF StaIdleAutoConnectCmd, Fetch
      <3> QED BY <3>1, <3>2, <1>c, <1>d, PostedMsgs DEF EnterScan, ScanSet
    <2> QED BY <2>1, <2>2
  <1>4. CASE StaIdleDisconnectCmd
    BY <1>4, <1>a, <1>b
    DEF StaIdleDisconnectCmd, Sta, Fetch, smVars, timerVars, macVars, envVars
  <1>5. CASE StaLinkingCmd
    BY <1>5, <1>a, <1>b
    DEF StaLinkingCmd, Sta, Fetch, LinkIsOngoing, smVars, timerVars, macVars,
        envVars
  <1>6. CASE StaToIdle
    BY <1>6, <1>a, <1>b
    DEF StaToIdle, Fetch, Sta, EnterIdle, envVars, DisconnectReq
  <1>7. CASE StaScanDone
    <2>1. mac_link' = "pending" \/ dropped' \/ Pending("CONNECT_FAIL")'
      BY <1>7, <1>c, <1>d, PostedMsgs DEF StaScanDone, EnterConnect, Fetch
    <2>2. sm_state' = CONNECT
      BY <1>7 DEF StaScanDone, EnterConnect
    <2> QED BY <2>1, <2>2
  <1>8. CASE StaScanFail
    <2>1. CASE retry_count > 0
      BY <1>8, <2>1, <1>a, <1>b
      DEF StaScanFail, Sta, Fetch, GiveUp, Control, FieldType,
          RegisterDelayedConnectRetry
    <2>2. CASE ~(retry_count > 0)
      BY <1>8, <2>2 DEF StaScanFail, GiveUp, EnterIdle
    <2> QED BY <2>1, <2>2
  <1>9. CASE StaConnectAssocSuccess
    BY <1>9, <1>a, <1>b
    DEF StaConnectAssocSuccess, Sta, Fetch, EnterHandshake, timerVars, envVars
  <1>10. CASE StaHandshakeDhcpStart
    BY <1>10 DEF StaHandshakeDhcpStart, EnterDhcp, Control, FieldType
  <1>11. CASE StaDhcpSuccess
    BY <1>11, <1>a, <1>b, <1>c, <1>d, PostedMsgs
    DEF StaDhcpSuccess, Sta, Fetch, EnterConnected, macVars, envVars
  <1>12. CASE StaLinkFailed
    BY <1>12, <1>a, <1>b, <1>c, <1>d, PostedMsgs
    DEF StaLinkFailed, Fetch, Sta, RetryLater, GiveUp, envVars, EnterScan,
        RegisterDelayedConnectRetry, FailLink, PreroamRollback, EnterIdle,
        ScanSet, StopEapol, DisconnectReq
  <1>13. CASE StaRxEapol
    <2>1. UNCHANGED <<smVars, timerVars, mac_scan>>
          /\ \A e : Pending(e) /\ e # "RX_EAPOL" => Pending(e)'
      BY <1>13, <1>a DEF StaRxEapol, Fetch
    <2>2. \/ mac_link' = mac_link
          \/ mac_link' = "open"
          \/ dropped' \/ Pending("CONNECT_FAIL")'
      BY <1>13, <1>c, <1>d, PostedMsgs DEF StaRxEapol, Fetch
    <2>3. sm_state \in {HANDSHAKE, DHCP, CONNECTED}
      BY <1>13 DEF StaRxEapol
    <2> QED
      BY <2>1, <2>2, <2>3, <1>b DEF smVars, timerVars
  <1>14. CASE StaConnectedConnectCmd
    <2>1. sm_state' \in {IDLE, SCAN}
      BY <1>14 DEF StaConnectedConnectCmd, EnterScan, EnterIdle
    <2>2. ASSUME sm_state' = SCAN, ~delayed_connect_retry'
          PROVE  mac_scan' \/ dropped' \/ Pending("SCAN_FAIL")'
      BY <1>14, <2>2, <1>c, <1>d, PostedMsgs
      DEF StaConnectedConnectCmd, EnterScan, EnterIdle, ScanSet, Fetch
    <2> QED BY <2>1, <2>2
  <1>15. CASE StaConnectedPollingScanDone
    BY <1>15, <1>a, <1>b, <1>c, <1>d, PostedMsgs
    DEF StaConnectedPollingScanDone, Sta, Fetch, ConnectedScanDone, smVars,
        macVars, envVars
  <1>16. CASE StaConnectedDisconnect
    <2>1. sm_state' \in {IDLE, SCAN}
      BY <1>16 DEF StaConnectedDisconnect, EnterScan, EnterIdle
    <2>2. ASSUME sm_state' = SCAN, ~delayed_connect_retry'
          PROVE  mac_scan' \/ dropped' \/ Pending("SCAN_FAIL")'
      <3>1. /\ ~delayed_connect_retry
            /\ EnterScan(Tail(queue), delayed_connect_retry)
        BY <1>16, <2>2 DEF StaConnectedDisconnect, EnterIdle
      <3>2. queue # <<>>
        BY <1>16 DEF StaConnectedDisconnect, Fetch
      <3> QED BY <3>1, <3>2, <1>c, <1>d, PostedMsgs DEF EnterScan, ScanSet
    <2> QED BY <2>1, <2>2
  <1>17. CASE StaConnectedRoamingStart
    BY <1>17, <1>a, <1>b
    DEF StaConnectedRoamingStart, Sta, Fetch, smVars, macVars, envVars
  <1>18. CASE StaConnectedFtRoamingCmd
    BY <1>18, <1>a, <1>b, <1>c, <1>d, PostedMsgs
    DEF StaConnectedFtRoamingCmd, Sta, Fetch, smVars, timerVars, envVars
  <1>19. CASE StaIgnore
    <2>1. UNCHANGED <<smVars, timerVars, macVars>>
      BY <1>19 DEF StaIgnore, Ignore
    <2>2. sm_state = SCAN => ~Fetch("SCAN_DONE") /\ ~Fetch("SCAN_FAIL")
      BY <1>19 DEF StaIgnore, StaHandles, Fetch
    <2>3. sm_state = CONNECT =>
              /\ ~Fetch("ASSOC_SUCCESS") /\ ~Fetch("CONNECT_FAIL")
              /\ ~Fetch("DISCONNECT")
      BY <1>19 DEF StaIgnore, StaHandles, Fetch
    <2>4. sm_state = HANDSHAKE =>
              /\ ~Fetch("DHCP_START") /\ ~Fetch("CONNECT_FAIL")
              /\ ~Fetch("DISCONNECT")
      BY <1>19 DEF StaIgnore, StaHandles, Fetch
    <2>5. sm_state = DHCP => ~Fetch("DHCP_SUCCESS") /\ ~Fetch("DHCP_FAIL")
      BY <1>19 DEF StaIgnore, StaHandles, Fetch
    <2> QED
      BY <2>1, <2>2, <2>3, <2>4, <2>5, <1>a, <1>b
      DEF smVars, timerVars, macVars
  <1>20. CASE ScanCmd
    BY <1>20, <1>a, <1>b
    DEF ScanCmd, Fetch, ScanSet, smVars, timerVars, envVars
  <1>21. CASE ScanOver
    BY <1>21, <1>a, <1>b
    DEF ScanOver, Sta, Fetch, smVars, timerVars, macVars, envVars
  <1>22. CASE ApMonitorStart
    BY <1>22, <1>a, <1>b
    DEF ApMonitorStart, Fetch, timerVars, macVars, envVars
  <1>23. CASE ApMonitorIgnore
    BY <1>23, <1>a, <1>b
    DEF ApMonitorIgnore, Ignore, smVars, timerVars, macVars, envVars
  <1>24. CASE SwitchModeSame
    BY <1>24, <1>a, <1>b
    DEF SwitchModeSame, Fetch, Ignore, smVars, timerVars, macVars, envVars
  <1>25. CASE SwitchMode
    BY <1>25, <1>a, <1>b
    DEF SwitchMode, Fetch, EnterIdle, timerVars, RetryParamSet, envVars,
        DisconnectReq
  <1> QED
    BY <1>1, <1>2, <1>3, <1>4, <1>5, <1>6, <1>7, <1>8, <1>9, <1>10, <1>11,
       <1>12, <1>13, <1>14, <1>15, <1>16, <1>17, <1>18, <1>19, <1>20, <1>21,
       <1>22, <1>23, <1>24, <1>25
    DEF Handle, StaStep

\* So do the timers, the MAC and the API.
LEMMA StrandOther ==
    ASSUME TypeOK, Control, NotStranded, Timers \/ Mac \/ Api
    PROVE  NotStranded'
  <1> USE DEF NotStranded, ScanNotStranded, ConnectNotStranded,
              HandshakeNotStranded, DhcpNotStranded
  <1>d. queue \in Seq(Msgs) /\ Moves(queue)
    BY OtherMoves DEF TypeOK, QueueType
  <1>a. \A e : Pending(e) => Pending(e)'
    BY <1>d, MovesKeep DEF Pending, TypeOK, FlagType
  <1>b. dropped => dropped'
    BY <1>d, MovesKeep DEF TypeOK, FlagType
  <1>c. \A q \in Seq(Msgs), m \in Msgs :
            Send(q, m) => dropped' \/ Pending(m.ev)'
    BY SendPosts
  <1>1. CASE ConnectRetry
    <2>1. sm_state' = SCAN
      BY <1>1 DEF ConnectRetry, EnterScan
    <2>2. mac_scan' \/ dropped' \/ Pending("SCAN_FAIL")'
      BY <1>1, <1>c, <1>d, PostedMsgs DEF ConnectRetry, EnterScan, ScanSet
    <2> QED BY <2>1, <2>2
  <1>2. CASE DhcpPolling
    BY <1>2, <1>a, <1>b, <1>c, <1>d, PostedMsgs
    DEF DhcpPolling, smVars, macVars, envVars
  <1>3. CASE LinkStatusPolling
    BY <1>3 DEF LinkStatusPolling, Control, LinkTimerInv, smVars
  <1>4. CASE MacScanEnd
    BY <1>4, <1>a, <1>b, <1>c, <1>d, PostedMsgs
    DEF MacScanEnd, Report, smVars, timerVars
  <1>5. CASE MacConnectInd
    BY <1>5, <1>a, <1>b, <1>c, <1>d, PostedMsgs
    DEF MacConnectInd, Report, smVars, timerVars
  <1>6. CASE MacRxEapol
    BY <1>6, <1>a, <1>b, <1>c, <1>d, PostedMsgs
    DEF MacRxEapol, Report, smVars, timerVars
  <1>7. CASE MacDhcpStart
    BY <1>7, <1>a, <1>b, <1>c, <1>d, PostedMsgs
    DEF MacDhcpStart, Report, smVars, timerVars
  <1>8. CASE MacDisconnect
    BY <1>8, <1>a, <1>b, <1>c, <1>d, PostedMsgs
    DEF MacDisconnect, Report, smVars, timerVars
  <1>9. CASE WpaSaQueryFail
    BY <1>9, <1>a, <1>b, <1>c, <1>d, PostedMsgs
    DEF WpaSaQueryFail, Report, smVars, timerVars
  <1>10. CASE MacLateDisconnect
    BY <1>10, <1>a, <1>b, <1>c, <1>d, PostedMsgs
    DEF MacLateDisconnect, Report, smVars, timerVars
  <1>11. CASE MacRoaming
    BY <1>11, <1>a, <1>b, <1>c, <1>d, PostedMsgs
    DEF MacRoaming, Report, smVars, timerVars
  <1>12. CASE ApiSend
    BY <1>12, <1>a, <1>b
    DEF ApiSend, smVars, timerVars, macVars
  <1>13. CASE ApiScanBlocked
    BY <1>13, <1>a, <1>b
    DEF ApiScanBlocked, smVars, timerVars, macVars
  <1>14. CASE ApiRoamingSet
    BY <1>14, <1>a, <1>b
    DEF ApiRoamingSet, smVars, timerVars, macVars
  <1>15. CASE ApiFetch
    BY <1>15, <1>a, <1>b
    DEF ApiFetch, smVars, timerVars, macVars, envVars
  <1> QED
    BY <1>1, <1>2, <1>3, <1>4, <1>5, <1>6, <1>7, <1>8, <1>9, <1>10, <1>11,
       <1>12, <1>13, <1>14, <1>15
    DEF Timers, Mac, Api

-----------------------------------------------------------------------------
(* The invariant                                                            *)

\* wifi_management_init leaves the task in a state of the invariant.
LEMMA InitInv == Init => IInv
  <1> SUFFICES ASSUME Init PROVE IInv
    OBVIOUS
  <1>1. Control
    BY LimitsAssumption
    DEF LimitsAssumption, Init, Control, FieldType, StateOfMachine,
        RetryTimerInv, DhcpTimerInv, LinkTimerInv, NoLinkWhenIdle,
        StartedOnMac, Types, Links, Linking
  <1>2. FlagType
    BY Zenon DEF Init, FlagType
  <1>3. QueueType
    <2>1. BootMsgs \in Seq(Msgs) /\ Len(BootMsgs) = 3
      BY DEF BootMsgs, Msg, Msgs, Events, Args, Types
    <2>2. PICK n \in {1, 3} : queue = SubSeq(BootMsgs, 1, n)
      BY DEF Init
    <2>3. queue \in Seq(Msgs)
      BY <2>1, <2>2
    <2> QED BY <2>3 DEF Init, QueueType
  <1>4. NotStranded
    BY DEF Init, NotStranded, ScanNotStranded, ConnectNotStranded,
           HandshakeNotStranded, DhcpNotStranded
  <1> QED BY <1>1, <1>2, <1>3, <1>4 DEF IInv, TypeOK, Control

\* Every step of the task, its timers, the MAC and the callers keeps it.
LEMMA StepInv == IInv /\ [Next]_vars => IInv'
  <1> SUFFICES ASSUME IInv, [Next]_vars PROVE IInv'
    OBVIOUS
  <1>1. CASE Next
    <2>1. FlagType' /\ QueueType' /\ Control'
      BY <1>1, FlagStep, QueueStep, ControlStep DEF IInv, TypeOK
    <2>2. NotStranded'
      BY <1>1, StrandHandle, StrandOther DEF IInv, Next
    <2> QED BY <2>1, <2>2 DEF IInv, TypeOK, Control
  <1>2. CASE UNCHANGED vars
    <2>1. UNCHANGED <<wvif_type, sm_init, sm_state, retry_count,
              delayed_connect_retry, dhcp_polling_count, preroam_enable,
              preroam_start, preroam_bk, polling_scan, scan_blocked,
              conn_blocked, retry_timers, dhcp_timers, link_timers, queue,
              dropped, wait_queue, mac_type, mac_scan, mac_link, mac_late,
              cmds, inds>>
      BY <1>2 DEF vars, smVars, roamVars, blockVars, timerVars, qVars,
                  macVars, envVars
    <2>2. TypeOK' <=> TypeOK
      BY <2>1 DEF TypeOK, FieldType, FlagType, QueueType
    <2>3. Control' <=> Control
      BY <2>1 DEF Control, FieldType, StateOfMachine, RetryTimerInv,
                  DhcpTimerInv, LinkTimerInv, NoLinkWhenIdle, StartedOnMac
    <2>4. NotStranded' <=> NotStranded
      BY <2>1 DEF NotStranded, ScanNotStranded, ConnectNotStranded,
                  HandshakeNotStranded, DhcpNotStranded, Pending, Has
    <2> QED BY <2>2, <2>3, <2>4 DEF IInv
  <1> QED BY <1>1, <1>2

\* The inductive invariant holds in every reachable state.
THEOREM Invariance == Spec => []IInv
  BY InitInv, StepInv, PTL DEF Spec

\* Type correctness: in particular the unsigned counters the timer callbacks
\* decrement never pass zero.
THEOREM TypeCorrect == Spec => []TypeOK
  <1>1. IInv => TypeOK
    BY DEF IInv
  <1> QED BY <1>1, Invariance, PTL

\* mgmt_connect_retry never runs for an idle or connected station, for a soft
\* AP or a monitor, nor with no retry left: its unchecked retry_count--
\* (wifi_management.c:380) never wraps and its SM_ENTER(SCAN) never drags
\* another mode into the station's states.
THEOREM RetryTimerSafe == Spec => []RetryTimerInv
  <1>1. IInv => RetryTimerInv
    BY DEF IInv, Control
  <1> QED BY <1>1, Invariance, PTL

\* mgmt_dhcp_polling runs once at most, and reports to a station that waits
\* for an address or has just been connected by an earlier report; never to
\* one that has begun another attempt, to a soft AP or to a monitor.
THEOREM DhcpTimerSafe == Spec => []DhcpTimerInv
  <1>1. IInv => DhcpTimerInv
    BY DEF IInv, Control
  <1> QED BY <1>1, Invariance, PTL

\* mgmt_link_status_polling never scans for a station that is not connected.
THEOREM LinkTimerSafe == Spec => []LinkTimerInv
  <1>1. IInv => LinkTimerInv
    BY DEF IInv, Control
  <1> QED BY <1>1, Invariance, PTL

\* The state field that three machines share always holds a state of the one
\* that owns it.
THEOREM ModesSafe == Spec => []StateOfMachine
  <1>1. IInv => StateOfMachine
    BY DEF IInv, Control
  <1> QED BY <1>1, Invariance, PTL

\* An idle station, a soft AP and a monitor have no association.
THEOREM IdleHasNoLink == Spec => []NoLinkWhenIdle
  <1>1. IInv => NoLinkWhenIdle
    BY DEF IInv, Control
  <1> QED BY <1>1, Invariance, PTL

\* A machine that reports itself started runs on a MAC interface of its type.
THEOREM StartedIsReal == Spec => []StartedOnMac
  <1>1. IInv => StartedOnMac
    BY DEF IInv, Control
  <1> QED BY <1>1, Invariance, PTL

\* Whatever the order of stale and new messages, a linking station always has
\* something coming that moves it on; only a post lost to a full queue takes
\* it away.  In SCAN: the end of a scan, a message or a retry timer.
THEOREM ScanMovesOn == Spec => []ScanNotStranded
  <1>1. IInv => ScanNotStranded
    BY DEF IInv, NotStranded
  <1> QED BY <1>1, Invariance, PTL

\* In CONNECT: the answer of the MAC to this attempt, or a failure.
THEOREM ConnectMovesOn == Spec => []ConnectNotStranded
  <1>1. IInv => ConnectNotStranded
    BY DEF IInv, NotStranded
  <1> QED BY <1>1, Invariance, PTL

\* In HANDSHAKE: the keys, a loss, or what the MAC still owes.
THEOREM HandshakeMovesOn == Spec => []HandshakeNotStranded
  <1>1. IInv => HandshakeNotStranded
    BY DEF IInv, NotStranded
  <1> QED BY <1>1, Invariance, PTL

\* In DHCP: the polling timer or its verdict.
THEOREM DhcpMovesOn == Spec => []DhcpNotStranded
  <1>1. IInv => DhcpNotStranded
    BY DEF IInv, NotStranded
  <1> QED BY <1>1, Invariance, PTL

\* No step taken while linking adds retries: one CONNECT_CMD leads to at most
\* WIFI_MGMT_CONNECT_RETRY_LIMIT retries.
THEOREM BoundedRetries == Spec => RetriesNeverRegained
  <1>1. IInv /\ [Next]_vars =>
            [({sm_state, sm_state'} \subseteq Linking)
                => (retry_count' <= retry_count)]_vars
    BY RetryStep DEF IInv, TypeOK, Control
  <1> QED BY <1>1, Invariance, PTL DEF Spec, RetriesNeverRegained
=============================================================================
