------------------------- MODULE WifiMgmtApiProofs -------------------------
(***************************************************************************)
(* Proofs about WifiMgmtApi: what the blocking functions promise holds for *)
(* every queue size, retry limit and number of calls.                      *)
(*                                                                         *)
(* A caller relies on messages that stand in the queue and on the type the *)
(* interface will have when each is reached; the invariants say so with    *)
(* positions in the queue.  Every step of the task takes the head off, or  *)
(* not, and adds at most one message of its own, which is never one of a   *)
(* caller's: Moved turns each step into a move of positions, and the       *)
(* lemmas about positions need to know nothing else of the step.           *)
(***************************************************************************)
EXTENDS WifiMgmtApi, WifiMgmtProofs, SequenceTheorems

USE DEF IDLE, SCAN, CONNECT, HANDSHAKE, DHCP, CONNECTED, INIT, STARTED

-----------------------------------------------------------------------------
(* What the queue will make of the machine                                  *)

Switches == {"SWITCH_MODE_CMD"}
Wakes == {"SWITCH_MODE_CMD", "CONNECT_CMD", "AUTO_CONNECT_CMD"}
ApNews == {"SWITCH_MODE_CMD", "START_AP_CMD"}

\* No message with an event of E between the i-th and the j-th.
Free(E, i, j) ==
    \A k \in 1..Len(queue) : i < k /\ k < j => queue[k].ev \notin E

\* None after the i-th.
None(E, i) == \A k \in 1..Len(queue) : i < k => queue[k].ev \notin E

\* The interface is of type t when the i-th message is reached.
TypeAt(t, i) ==
    \/ wvif_type = t /\ Free(Switches, 0, i)
    \/ \E k \in 1..Len(queue) :
          /\ k < i /\ queue[k] = Switch(t) /\ Free(Switches, k, i)

\* A soft AP waits to be started when the i-th message is reached.
ApReadyAt(i) ==
    \/ wvif_type = "AP" /\ sm_state = INIT /\ Free(ApNews, 0, i)
    \/ \E k \in 1..Len(queue), t \in Types \ {"AP"} :
          k < i /\ queue[k] = Switch("AP") /\ Free(ApNews, k, i) /\ TypeAt(t, k)

\* The same when all that is queued has been handled.
EndsAs(t) == TypeAt(t, Len(queue) + 1)
EndsApReady == ApReadyAt(Len(queue) + 1)

-----------------------------------------------------------------------------
(* What is left of a call: the stages of each function, first to last       *)

WaitConn == <<Wait("CONN_DONE")>>
SendConn == <<Post(Msg("CONNECT_CMD", "cfg_blocked")), Wait("CONN_DONE")>>
FlushConn == <<Flush, Post(Msg("CONNECT_CMD", "cfg_blocked")),
               Wait("CONN_DONE")>>
SwitchConn == <<Post(Switch("STA")), Flush,
                Post(Msg("CONNECT_CMD", "cfg_blocked")), Wait("CONN_DONE")>>
ConnTodos == {SwitchConn, FlushConn, SendConn, WaitConn}

SendNowait == <<Post(Msg("CONNECT_CMD", "cfg_nowait"))>>
FlushNowait == <<Flush, Post(Msg("CONNECT_CMD", "cfg_nowait"))>>
SwitchNowait == <<Post(Switch("STA")), Flush,
                  Post(Msg("CONNECT_CMD", "cfg_nowait"))>>
NowaitTodos == {SwitchNowait, FlushNowait, SendNowait}

WaitDisconn == <<Wait("DISCONN_DONE")>>
SendDisconn == <<Post(Msg("DISCONNECT_CMD", "none")), Wait("DISCONN_DONE")>>
FlushDisconn == <<Flush, Post(Msg("DISCONNECT_CMD", "none")),
                  Wait("DISCONN_DONE")>>
DisconnTodos == {FlushDisconn, SendDisconn, WaitDisconn}

WaitScan == <<Wait("SCAN_DONE")>>
BlockScan == <<Blocked(TRUE), Wait("SCAN_DONE")>>
FlushScan == <<Flush, Blocked(TRUE), Wait("SCAN_DONE")>>
SendScan == <<Post(Msg("SCAN_CMD", "none")), Flush, Blocked(TRUE),
              Wait("SCAN_DONE")>>
FreeScan == <<Blocked(FALSE)>>
FlushFreeScan == <<Flush, Blocked(FALSE)>>
SendFreeScan == <<Post(Msg("SCAN_CMD", "none")), Flush, Blocked(FALSE)>>
ScanTodos == {SendScan, FlushScan, BlockScan, WaitScan,
              SendFreeScan, FlushFreeScan, FreeScan}

WaitAp == <<Wait("AP_START_DONE")>>
SendAp == <<Post(Msg("START_AP_CMD", "none")), Wait("AP_START_DONE")>>
FlushAp == <<Flush, Post(Msg("START_AP_CMD", "none")), Wait("AP_START_DONE")>>
SwitchAp == <<Post(Switch("AP")), Flush, Post(Msg("START_AP_CMD", "none")),
              Wait("AP_START_DONE")>>
ApTodos == {ApStart, SwitchAp, FlushAp, SendAp, WaitAp}

WaitMonitor == <<Wait("MONITOR_START_DONE")>>
FlushMonitor == <<Flush, Wait("MONITOR_START_DONE")>>
SendMonitor == <<Post(Msg("MONITOR_START_CMD", "none")), Flush,
                 Wait("MONITOR_START_DONE")>>
SwitchMonitor == <<Post(Switch("MONITOR")),
                   Post(Msg("MONITOR_START_CMD", "none")), Flush,
                   Wait("MONITOR_START_DONE")>>
StopMonitor == <<Post(Switch("STA")), Post(Switch("MONITOR")),
                 Post(Msg("MONITOR_START_CMD", "none")), Flush,
                 Wait("MONITOR_START_DONE")>>
MonitorTodos == {StopMonitor, SwitchMonitor, SendMonitor, FlushMonitor,
                 WaitMonitor}

StopAp == <<Post(Switch("STA"))>>

Todos == {<<>>, StopAp} \cup ConnTodos \cup NowaitTodos
         \cup DisconnTodos \cup ScanTodos \cup ApTodos \cup MonitorTodos

-----------------------------------------------------------------------------
(* The inductive invariant                                                  *)

\* The first message is INIT until it has been handled, by a station.
Booted == ~sm_init => Fetch("INIT") /\ wvif_type = "STA"

\* The steps left are the end of some call; what has returned has none left,
\* except that a connect which has timed out disconnects.
CallShape ==
    /\ todo \in Todos
    /\ op = "ap_start" => todo \in ApTodos \cup {<<>>}
    /\ op = "monitor_start" => todo \in MonitorTodos \cup {<<>>}
    /\ op = "disconnect" => todo \in DisconnTodos \cup {<<>>}
    /\ ret = "0" => todo = <<>>

\* A blocked connect: the interface will be a station when its command is
\* reached; then a station remembers it, and nothing on its way makes it
\* forget, until the answer comes.
Forgets(m) == m.ev = "SWITCH_MODE_CMD" \/ (m.ev = "CONNECT_CMD" /\ m.arg # "none")
NoneForgets(i) == \A k \in 1..Len(queue) : i < k => ~Forgets(queue[k])

ConnGoesOn ==
    \/ \E i \in 1..Len(queue) :
          /\ queue[i] = Msg("CONNECT_CMD", "cfg_blocked")
          /\ TypeAt("STA", i) /\ NoneForgets(i)
    \/ conn_blocked /\ wvif_type = "STA" /\ NoneForgets(0)

ConnInv ==
    /\ todo \in {FlushConn, SendConn} => EndsAs("STA")
    /\ todo = WaitConn /\ ~crowded => Answered("CONN_DONE") \/ ConnGoesOn

\* A disconnect: its command is queued and the last to decide the type, or it
\* has been handled by a station, which answered, or by another machine.
DisconnInv ==
    todo = WaitDisconn /\ ~crowded =>
        \/ \E i \in 1..Len(queue) :
              queue[i].ev = "DISCONNECT_CMD" /\ None(Switches, i)
        \/ /\ None(Switches, 0)
           /\ wvif_type = "STA" => Answered("DISCONN_DONE")

\* The start of a soft AP: whatever machine runs now, a soft AP that has not
\* started will be there when the command is reached.
ApInv ==
    /\ todo = SwitchAp => dropped \/ EndsAs("STA")
    /\ todo \in {FlushAp, SendAp} => dropped \/ EndsApReady
    /\ todo = WaitAp /\ ~crowded =>
          \/ dropped \/ Answered("AP_START_DONE")
          \/ \E i \in 1..Len(queue) :
                queue[i].ev = "START_AP_CMD" /\ ApReadyAt(i)

\* Started, and to stay so.
Up == wvif_type # "STA" /\ sm_state = STARTED /\ None(Switches, 0)

\* Without timeouts there is one start at a time, queued or answered, and
\* only while its caller waits; a successful answer is true.
OneStart(cmd, done, waits) ==
    /\ Pending(cmd) \/ Answered(done) => todo \in waits
    /\ Pending(cmd) => ~Answered(done)
    /\ \A i, j \in 1..Len(queue) :
          queue[i].ev = cmd /\ queue[j].ev = cmd => i = j
    /\ \A i, j \in 1..Len(wait_queue) :
          wait_queue[i].evt = done /\ wait_queue[j].evt = done => i = j
    /\ \A i \in 1..Len(queue) : queue[i].ev = cmd => None(Switches, i)
    /\ \A i \in 1..Len(wait_queue) :
          wait_queue[i] = WaitEvt(done, "SUCCESS") => Up

StartInv ==
    ~late =>
        /\ OneStart("START_AP_CMD", "AP_START_DONE", {WaitAp})
        /\ OneStart("MONITOR_START_CMD", "MONITOR_START_DONE",
                    {FlushMonitor, WaitMonitor})
        /\ op \in {"ap_start", "monitor_start"} /\ ret = "0" => Up

\* The lemmas are about each part in turn.
ApiInv == /\ IInv /\ Booted /\ CallShape
          /\ ConnInv /\ DisconnInv /\ ApInv /\ StartInv

\* Without roaming hints the task never reconnects by itself.
Quiet == /\ link_timers = 0 /\ ~polling_scan /\ ~preroam_start
         /\ ~Pending("ROAMING_START")

\* A disconnect that has been answered, by its own IDLE or an earlier one.
LastsInv ==
    op = "disconnect" /\ (ret = "0" \/ todo = WaitDisconn) =>
        \/ \E i \in 1..Len(queue) :
              queue[i].ev = "DISCONNECT_CMD" /\ None(Wakes, i)
        \/ None(Wakes, 0) /\ (wvif_type = "STA" => sm_state = IDLE)

QuietInv == Quiet /\ LastsInv

-----------------------------------------------------------------------------
(* The queue: what the task posts                                           *)

\* What the task and the MAC post: never a command of a caller, a CONNECT_CMD
\* (without a configuration) only when roaming, a hint to roam only when the
\* MAC gives one.
Own == {m \in Msgs :
          /\ m.ev \notin {"INIT", "SWITCH_MODE_CMD", "SCAN_CMD",
                "DISCONNECT_CMD", "AUTO_CONNECT_CMD", "START_AP_CMD",
                "MONITOR_START_CMD"}
          /\ m.ev = "CONNECT_CMD" =>
                m.arg = "none" /\ (preroam_start \/ polling_scan)
          /\ m.ev = "ROAMING_START" => MacRoaming}

Posts(q) == NoSend(q) \/ \E m \in Own : Send(q, m)

\* Which messages these are.
LEMMA OwnPosts ==
    /\ \A e \in {"SCAN_FAIL", "CONNECT_FAIL", "CONNECT_SUCCESS",
                 "FT_ROAMING_CMD", "DHCP_SUCCESS", "DHCP_FAIL", "SCAN_DONE",
                 "ASSOC_SUCCESS", "RX_EAPOL", "DHCP_START", "DISCONNECT"} :
          \A a \in {"none", "fail", "NO_BEACON", "FROM_UI", "SA_QUERY_FAIL"} :
             Msg(e, a) \in Own
    /\ preroam_start \/ polling_scan => Msg("CONNECT_CMD", "none") \in Own
    /\ MacRoaming => Msg("ROAMING_START", "none") \in Own
  BY PostedMsgs DEF Own, Msg

\* A handler takes the head off the queue and posts at most one message.
LEMMA HandlePosts ==
    ASSUME QueueType, Handle
    PROVE  queue # <<>> /\ Posts(Tail(queue))
  <1> USE DEF Posts
  <1>1. CASE StaInit
    BY <1>1
    DEF StaInit, Fetch
  <1>2. CASE StaIdleConnectCmd
    BY <1>2, OwnPosts
    DEF StaIdleConnectCmd, Fetch, EnterScan
  <1>3. CASE StaIdleAutoConnectCmd
    BY <1>3, OwnPosts
    DEF StaIdleAutoConnectCmd, Fetch, EnterScan
  <1>4. CASE StaIdleDisconnectCmd
    BY <1>4
    DEF StaIdleDisconnectCmd, Fetch
  <1>5. CASE StaLinkingCmd
    BY <1>5
    DEF StaLinkingCmd, Fetch, LinkIsOngoing
  <1>6. CASE StaToIdle
    BY <1>6
    DEF StaToIdle, Fetch
  <1>7. CASE StaScanDone
    BY <1>7, OwnPosts
    DEF StaScanDone, Fetch, EnterConnect
  <1>8. CASE StaScanFail
    BY <1>8, OwnPosts
    DEF StaScanFail, Fetch, GiveUp, PreroamRollback
  <1>9. CASE StaConnectAssocSuccess
    BY <1>9
    DEF StaConnectAssocSuccess, Fetch
  <1>10. CASE StaHandshakeDhcpStart
    BY <1>10
    DEF StaHandshakeDhcpStart, Fetch
  <1>11. CASE StaDhcpSuccess
    BY <1>11, OwnPosts
    DEF StaDhcpSuccess, Fetch, EnterConnected
  <1>12. CASE StaLinkFailed
    BY <1>12, OwnPosts
    DEF StaLinkFailed, Fetch, RetryLater, GiveUp, EnterScan, PreroamRollback
  <1>13. CASE StaRxEapol
    BY <1>13, OwnPosts
    DEF StaRxEapol, Fetch
  <1>14. CASE StaConnectedConnectCmd
    BY <1>14, OwnPosts
    DEF StaConnectedConnectCmd, Fetch, EnterScan
  <1>15. CASE StaConnectedPollingScanDone
    BY <1>15, OwnPosts
    DEF StaConnectedPollingScanDone, Fetch, ConnectedScanDone
  <1>16. CASE StaConnectedDisconnect
    BY <1>16, OwnPosts
    DEF StaConnectedDisconnect, Fetch, EnterScan
  <1>17. CASE StaConnectedRoamingStart
    BY <1>17
    DEF StaConnectedRoamingStart, Fetch
  <1>18. CASE StaConnectedFtRoamingCmd
    BY <1>18, OwnPosts
    DEF StaConnectedFtRoamingCmd, Fetch
  <1>19. CASE StaIgnore
    BY <1>19
    DEF StaIgnore, Ignore
  <1>20. CASE ScanCmd
    BY <1>20
    DEF ScanCmd, Fetch
  <1>21. CASE ScanOver
    BY <1>21
    DEF ScanOver, Fetch
  <1>22. CASE ApMonitorStart
    BY <1>22
    DEF ApMonitorStart, Fetch
  <1>23. CASE ApMonitorIgnore
    BY <1>23
    DEF ApMonitorIgnore, Ignore
  <1>24. CASE SwitchModeSame
    BY <1>24
    DEF SwitchModeSame, Fetch, Ignore
  <1>25. CASE SwitchMode
    BY <1>25
    DEF SwitchMode, Fetch
  <1> QED
    BY <1>1, <1>2, <1>3, <1>4, <1>5, <1>6, <1>7, <1>8, <1>9, <1>10, <1>11,
       <1>12, <1>13, <1>14, <1>15, <1>16, <1>17, <1>18, <1>19, <1>20, <1>21,
       <1>22, <1>23, <1>24, <1>25
    DEF Handle, StaStep

\* Timers and the MAC take nothing off and post at most one message.
LEMMA OtherPosts ==
    ASSUME QueueType, Timers \/ Mac
    PROVE  Posts(queue)
  <1> USE DEF Posts
  <1>1. CASE ConnectRetry
    BY <1>1, OwnPosts DEF ConnectRetry, EnterScan
  <1>2. CASE DhcpPolling
    BY <1>2, OwnPosts DEF DhcpPolling
  <1>3. CASE LinkStatusPolling
    BY <1>3 DEF LinkStatusPolling, NoSend, qVars
  <1>4. CASE MacScanEnd
    BY <1>4, OwnPosts DEF MacScanEnd, Report
  <1>5. CASE MacConnectInd
    BY <1>5, OwnPosts DEF MacConnectInd, Report
  <1>6. CASE MacRxEapol
    BY <1>6, OwnPosts DEF MacRxEapol, Report
  <1>7. CASE MacDhcpStart
    BY <1>7, OwnPosts DEF MacDhcpStart, Report
  <1>8. CASE MacDisconnect
    BY <1>8, OwnPosts DEF MacDisconnect, Report
  <1>9. CASE WpaSaQueryFail
    BY <1>9, OwnPosts DEF WpaSaQueryFail, Report
  <1>10. CASE MacLateDisconnect
    BY <1>10, OwnPosts DEF MacLateDisconnect, Report
  <1>11. CASE MacRoaming
    <2>1. Send(queue, Msg("ROAMING_START", "none"))
      BY <1>11 DEF MacRoaming, Report
    <2> QED BY <1>11, <2>1, OwnPosts
  <1> QED
    BY <1>1, <1>2, <1>3, <1>4, <1>5, <1>6, <1>7, <1>8, <1>9, <1>10, <1>11
    DEF Timers, Mac

-----------------------------------------------------------------------------
(* Positions                                                                *)

\* The queue after a step that took d messages off: all others are d places
\* nearer, behind them there is at most one of the task's own.
Moved(d) ==
    /\ queue \in Seq(Msgs) /\ queue' \in Seq(Msgs)
    /\ Len(queue) >= d
    /\ Len(queue') \in {Len(queue) - d, Len(queue) - d + 1}
    /\ \A j \in 1..Len(queue) - d : queue'[j] = queue[j + d]
    /\ \A j \in 1..Len(queue') : j > Len(queue) - d => queue'[j] \in Own

\* ... and the type of the interface, which only a switch changes.
TypeMoved(d) ==
    wvif_type' = IF d = 1 /\ Fetch("SWITCH_MODE_CMD") THEN Head(queue).arg
                 ELSE wvif_type

\* Whatever a step posts, it moves the queue like that.
LEMMA PostsMove ==
    ASSUME QueueType, NEW d \in {0, 1},
           IF d = 0 THEN Posts(queue) ELSE queue # <<>> /\ Posts(Tail(queue))
    PROVE  Moved(d)
  <1> DEFINE q == IF d = 0 THEN queue ELSE Tail(queue)
  <1>1. /\ q \in Seq(Msgs) /\ Len(q) = Len(queue) - d /\ Len(queue) >= d
        /\ \A j \in 1..Len(q) : q[j] = queue[j + d]
    BY DEF QueueType
  <1>2. Posts(q)
    OBVIOUS
  <1>3. CASE NoSend(q)
    BY <1>1, <1>3 DEF NoSend, Moved, QueueType
  <1>4. ASSUME NEW m \in Own, Send(q, m)
        PROVE  Moved(d)
    <2>1. CASE queue' = q
      BY <1>1, <2>1 DEF Moved, QueueType
    <2>2. CASE queue' = Append(q, m)
      <3>1. m \in Msgs
        BY DEF Own
      <3>2. /\ queue' \in Seq(Msgs) /\ Len(queue') = Len(q) + 1
            /\ \A j \in 1..Len(q) : queue'[j] = q[j]
            /\ queue'[Len(q) + 1] = m
        BY <1>1, <2>2, <3>1
      <3> QED BY <1>1, <3>2 DEF Moved, QueueType
    <2> QED BY <1>4, <2>1, <2>2 DEF Send, Capped
  <1> QED BY <1>2, <1>3, <1>4 DEF Posts

\* What is free of the events of E stays so, nearer.
LEMMA FreeMoved ==
    ASSUME NEW d \in {0, 1}, Moved(d), NEW E, NEW i \in Int, NEW j \in Int,
           Free(E, i, j), j <= Len(queue) + 1
    PROVE  Free(E, i - d, j - d)'
  <1> SUFFICES ASSUME NEW k \in 1..Len(queue'), i - d < k, k < j - d
               PROVE  queue'[k].ev \notin E
    BY DEF Free
  <1>1. k + d \in 1..Len(queue) /\ queue'[k] = queue[k + d]
    BY DEF Moved
  <1> QED BY <1>1 DEF Free

\* To the end of the queue, when the task's own messages are not in E.
LEMMA NoneMoved ==
    ASSUME NEW d \in {0, 1}, Moved(d), NEW E, NEW i \in Int, None(E, i),
           \A m \in Own : m.ev \notin E
    PROVE  None(E, i - d)'
  <1> SUFFICES ASSUME NEW k \in 1..Len(queue'), i - d < k
               PROVE  queue'[k].ev \notin E
    BY DEF None
  <1>1. CASE k > Len(queue) - d
    BY <1>1 DEF Moved
  <1>2. CASE k <= Len(queue) - d
    <2>1. k + d \in 1..Len(queue) /\ queue'[k] = queue[k + d]
      BY <1>2 DEF Moved
    <2> QED BY <2>1 DEF None
  <1> QED BY <1>1, <1>2 DEF Moved

\* The same with the place behind the last message.
LEMMA EndMoved ==
    ASSUME NEW d \in {0, 1}, Moved(d), NEW E, NEW i \in Int,
           Free(E, i, Len(queue) + 1), \A m \in Own : m.ev \notin E
    PROVE  Free(E, i - d, Len(queue) + 1)'
  <1>1. None(E, i)
    BY DEF None, Free, Moved
  <1>2. None(E, i - d)'
    BY <1>1, NoneMoved
  <1> QED BY <1>2 DEF None, Free, Moved

\* What will make a caller's connection be forgotten.
LEMMA ForgetsMoved ==
    ASSUME NEW d \in {0, 1}, Moved(d), NEW i \in Int, NoneForgets(i)
    PROVE  NoneForgets(i - d)'
  <1> SUFFICES ASSUME NEW k \in 1..Len(queue'), i - d < k
               PROVE  ~Forgets(queue'[k])
    BY DEF NoneForgets
  <1>1. CASE k > Len(queue) - d
    <2>1. queue'[k] \in Own
      BY <1>1 DEF Moved
    <2> QED BY <2>1 DEF Own, Forgets
  <1>2. CASE k <= Len(queue) - d
    <2>1. k + d \in 1..Len(queue) /\ queue'[k] = queue[k + d]
      BY <1>2 DEF Moved
    <2> QED BY <2>1 DEF NoneForgets
  <1> QED BY <1>1, <1>2 DEF Moved

\* The place behind the last message, as a place of TypeAt and ApReadyAt, is
\* still reached with what the other places are.  j is i after the step.
Place(d, i, j) ==
    \/ i \in 1..Len(queue) /\ j = i - d
    \/ i = Len(queue) + 1 /\ j = Len(queue') + 1

\* What is free before a place stays so after the move.
LEMMA PlaceFree ==
    ASSUME NEW d \in {0, 1}, Moved(d), NEW i, NEW j, Place(d, i, j),
           NEW k \in Int, NEW E, Free(E, k, i), \A m \in Own : m.ev \notin E
    PROVE  Free(E, k - d, j)'
  BY FreeMoved, EndMoved DEF Place, Moved

\* The type the interface will have at a place does not change.
LEMMA TypeAtMoved ==
    ASSUME NEW d \in {0, 1}, Moved(d), TypeMoved(d), NEW t,
           NEW i, NEW j, Place(d, i, j), i > d, TypeAt(t, i)
    PROVE  TypeAt(t, j)'
  <1>1. \A m \in Own : m.ev \notin Switches
    BY DEF Own, Switches
  <1>2. i \in Nat /\ j \in Nat /\ i <= Len(queue) + 1
    BY DEF Place, Moved
  <1>3. CASE wvif_type = t /\ Free(Switches, 0, i)
    <2>1. wvif_type' = t
      BY <1>2, <1>3 DEF TypeMoved, Free, Fetch, Switches, Moved
    <2>2. Free(Switches, 0 - d, j)'
      BY <1>1, <1>3, PlaceFree
    <2>3. Free(Switches, 0, j)'
      BY <2>2, <1>2 DEF Free
    <2> QED BY <2>1, <2>3 DEF TypeAt
  <1>4. ASSUME NEW k \in 1..Len(queue), k < i, queue[k] = Switch(t),
               Free(Switches, k, i)
        PROVE  TypeAt(t, j)'
    <2>1. Free(Switches, k - d, j)'
      BY <1>1, <1>4, PlaceFree
    <2>2. CASE k = d
      <3>1. wvif_type' = t
        BY <1>4, <2>2 DEF TypeMoved, Fetch, Switch, Msg, Moved
      <3>2. k - d = 0
        BY <2>2
      <3> QED BY <2>1, <3>1, <3>2 DEF TypeAt
    <2>3. CASE k # d
      <3>1. k - d \in 1..Len(queue') /\ queue'[k - d] = queue[k]
        BY <2>3 DEF Moved
      <3>2. k - d < j
        BY <1>4, <1>2 DEF Place, Moved
      <3> QED BY <1>4, <2>1, <3>1, <3>2 DEF TypeAt, Switch, Msg
    <2> QED BY <2>2, <2>3
  <1> QED BY <1>3, <1>4 DEF TypeAt

\* The same of the type the interface ends with.
LEMMA EndsAsMoved ==
    ASSUME NEW d \in {0, 1}, Moved(d), TypeMoved(d), NEW t, EndsAs(t)
    PROVE  EndsAs(t)'
  <1>1. PICK i, j \in Nat : i = Len(queue) + 1 /\ j = Len(queue') + 1
    BY DEF Moved
  <1>2. Place(d, i, j) /\ i > d
    BY <1>1 DEF Place, Moved
  <1>3. TypeAt(t, i)
    BY <1>1 DEF EndsAs
  <1>4. TypeAt(t, j)'
    BY <1>2, <1>3, TypeAtMoved
  <1> QED BY <1>1, <1>4 DEF EndsAs, TypeAt, Free

-----------------------------------------------------------------------------
(* What a step of the task makes of the machine                             *)

\* What callers rely on: a switch of modes leaves the new machine in its first
\* state, a soft AP or a monitor stays as it is until told otherwise, an idle
\* station until it is woken, and DISCONNECT_CMD makes any station idle.
Machine ==
    /\ Fetch("SWITCH_MODE_CMD") /\ Head(queue).arg # wvif_type
          => sm_state' = INIT
    /\ wvif_type = "AP" /\ sm_state = INIT /\ Head(queue).ev \notin ApNews
          => sm_state' = INIT
    /\ wvif_type # "STA" /\ sm_state = STARTED /\ ~Fetch("SWITCH_MODE_CMD")
          => sm_state' = STARTED
    /\ wvif_type = "STA" /\ sm_state = IDLE /\ Head(queue).ev \notin Wakes
          => sm_state' = IDLE
    /\ wvif_type = "STA" /\ sm_init /\ Fetch("DISCONNECT_CMD")
          => sm_state' = IDLE

\* No state of a station ignores these commands.
LEMMA CmdsHandled ==
    \A s \in Nat :
       {"SCAN_CMD", "CONNECT_CMD", "DISCONNECT_CMD"} \subseteq StaHandles(s)
  <1> SUFFICES ASSUME NEW s \in Nat, NEW e \in {"SCAN_CMD", "CONNECT_CMD",
                                               "DISCONNECT_CMD"}
               PROVE  e \in StaHandles(s)
    OBVIOUS
  <1>1. CASE s \in {IDLE, SCAN, CONNECT, HANDSHAKE, DHCP}
    BY <1>1 DEF StaHandles
  <1>2. CASE s \notin {IDLE, SCAN, CONNECT, HANDSHAKE, DHCP}
    BY <1>2 DEF StaHandles
  <1> QED BY <1>1, <1>2

\* So does every handler.
LEMMA HandleMachine ==
    ASSUME FieldType, QueueType, StateOfMachine, Handle
    PROVE  queue # <<>> /\ TypeMoved(1) /\ Machine
  <1> USE DEF FieldType, QueueType, StateOfMachine, TypeMoved, Machine,
              ApNews, Wakes, Types
  <1>1. CASE StaInit
    BY <1>1 DEF StaInit, Fetch, EnterIdle
  <1>2. CASE StaIdleConnectCmd
    BY <1>2 DEF StaIdleConnectCmd, Sta, Fetch, EnterScan
  <1>3. CASE StaIdleAutoConnectCmd
    BY <1>3 DEF StaIdleAutoConnectCmd, Sta, Fetch, EnterIdle, EnterScan
  <1>4. CASE StaIdleDisconnectCmd
    BY <1>4 DEF StaIdleDisconnectCmd, Sta, Fetch, smVars
  <1>5. CASE StaLinkingCmd
    BY <1>5 DEF StaLinkingCmd, Linking, Sta, Fetch, LinkIsOngoing, smVars
  <1>6. CASE StaToIdle
    BY <1>6 DEF StaToIdle, Linking, Fetch, Sta, EnterIdle
  <1>7. CASE StaScanDone
    BY <1>7 DEF StaScanDone, Sta, Fetch, EnterConnect
  <1>8. CASE StaScanFail
    BY <1>8 DEF StaScanFail, Sta, Fetch, GiveUp, EnterIdle
  <1>9. CASE StaConnectAssocSuccess
    BY <1>9 DEF StaConnectAssocSuccess, Sta, Fetch, EnterHandshake
  <1>10. CASE StaHandshakeDhcpStart
    BY <1>10 DEF StaHandshakeDhcpStart, Sta, Fetch, EnterDhcp
  <1>11. CASE StaDhcpSuccess
    BY <1>11 DEF StaDhcpSuccess, Sta, Fetch, EnterConnected
  <1>12. CASE StaLinkFailed
    BY <1>12
    DEF StaLinkFailed, Fetch, Sta, RetryLater, GiveUp, EnterIdle, EnterScan
  <1>13. CASE StaRxEapol
    BY <1>13 DEF StaRxEapol, Fetch, Sta, smVars
  <1>14. CASE StaConnectedConnectCmd
    BY <1>14 DEF StaConnectedConnectCmd, Sta, Fetch, EnterScan
  <1>15. CASE StaConnectedPollingScanDone
    BY <1>15 DEF StaConnectedPollingScanDone, Sta, Fetch, smVars
  <1>16. CASE StaConnectedDisconnect
    BY <1>16 DEF StaConnectedDisconnect, Sta, Fetch, EnterScan, EnterIdle
  <1>17. CASE StaConnectedRoamingStart
    BY <1>17 DEF StaConnectedRoamingStart, Sta, Fetch, smVars
  <1>18. CASE StaConnectedFtRoamingCmd
    BY <1>18 DEF StaConnectedFtRoamingCmd, Sta, Fetch, smVars
  <1>19. CASE StaIgnore
    <2>1. sm_state \in Nat
      BY DEF Linking
    <2>2. ~Fetch("DISCONNECT_CMD") /\ ~Fetch("SWITCH_MODE_CMD")
      BY <1>19, <2>1, CmdsHandled DEF StaIgnore, Fetch
    <2> QED BY <1>19, <2>2 DEF StaIgnore, Sta, Ignore, smVars
  <1>20. CASE ScanCmd
    BY <1>20 DEF ScanCmd, Fetch, smVars
  <1>21. CASE ScanOver
    BY <1>21 DEF ScanOver, Sta, Fetch, smVars
  <1>22. CASE ApMonitorStart
    BY <1>22 DEF ApMonitorStart, Fetch, StartCmd
  <1>23. CASE ApMonitorIgnore
    BY <1>23 DEF ApMonitorIgnore, Fetch, StartCmd, Ignore, smVars
  <1>24. CASE SwitchModeSame
    BY <1>24 DEF SwitchModeSame, Fetch, Ignore, smVars
  <1>25. CASE SwitchMode
    BY <1>25 DEF SwitchMode, Fetch, EnterIdle
  <1> QED BY <1>1, <1>2, <1>3, <1>4, <1>5, <1>6, <1>7, <1>8, <1>9, <1>10,
             <1>11, <1>12, <1>13, <1>14, <1>15, <1>16, <1>17, <1>18, <1>19,
             <1>20, <1>21, <1>22, <1>23, <1>24, <1>25
    DEF Handle, StaStep

\* Timers and the MAC leave the machine alone, but for the retry of a station
\* that is linking.
LEMMA OtherMachine ==
    ASSUME RetryTimerInv, Timers \/ Mac
    PROVE  /\ wvif_type' = wvif_type /\ sm_init' = sm_init
           /\ sm_state' # sm_state => wvif_type = "STA" /\ sm_state # IDLE
  <1> USE DEF RetryTimerInv, Linking
  <1>1. CASE ConnectRetry
    BY <1>1 DEF ConnectRetry, EnterScan
  <1>2. CASE DhcpPolling
    BY <1>2 DEF DhcpPolling, smVars
  <1>3. CASE LinkStatusPolling
    BY <1>3 DEF LinkStatusPolling, smVars
  <1>4. CASE MacScanEnd
    BY <1>4 DEF MacScanEnd, Report, smVars
  <1>5. CASE MacConnectInd
    BY <1>5 DEF MacConnectInd, Report, smVars
  <1>6. CASE MacRxEapol
    BY <1>6 DEF MacRxEapol, Report, smVars
  <1>7. CASE MacDhcpStart
    BY <1>7 DEF MacDhcpStart, Report, smVars
  <1>8. CASE MacDisconnect
    BY <1>8 DEF MacDisconnect, Report, smVars
  <1>9. CASE WpaSaQueryFail
    BY <1>9 DEF WpaSaQueryFail, Report, smVars
  <1>10. CASE MacLateDisconnect
    BY <1>10 DEF MacLateDisconnect, Report, smVars
  <1>11. CASE MacRoaming
    BY <1>11 DEF MacRoaming, Report, smVars
  <1> QED BY <1>1, <1>2, <1>3, <1>4, <1>5, <1>6, <1>7, <1>8, <1>9, <1>10,
             <1>11
    DEF Timers, Mac

\* INIT is handled first, and only once.
LEMMA HandleBooted ==
    ASSUME Handle
    PROVE  /\ sm_init => sm_init'
           /\ Fetch("INIT") /\ wvif_type = "STA" => sm_init'
  <1>1. CASE StaInit
    BY <1>1 DEF StaInit, Fetch
  <1>2. CASE StaIdleConnectCmd
    BY <1>2 DEF StaIdleConnectCmd, Sta, Fetch
  <1>3. CASE StaIdleAutoConnectCmd
    BY <1>3 DEF StaIdleAutoConnectCmd, Sta, Fetch
  <1>4. CASE StaIdleDisconnectCmd
    BY <1>4 DEF StaIdleDisconnectCmd, Sta, Fetch, smVars
  <1>5. CASE StaLinkingCmd
    BY <1>5 DEF StaLinkingCmd, Sta, Fetch, LinkIsOngoing, smVars
  <1>6. CASE StaToIdle
    BY <1>6 DEF StaToIdle, Fetch, Sta
  <1>7. CASE StaScanDone
    BY <1>7 DEF StaScanDone, Sta, Fetch
  <1>8. CASE StaScanFail
    BY <1>8 DEF StaScanFail, Sta, Fetch
  <1>9. CASE StaConnectAssocSuccess
    BY <1>9 DEF StaConnectAssocSuccess, Sta, Fetch
  <1>10. CASE StaHandshakeDhcpStart
    BY <1>10 DEF StaHandshakeDhcpStart, Sta, Fetch
  <1>11. CASE StaDhcpSuccess
    BY <1>11 DEF StaDhcpSuccess, Sta, Fetch
  <1>12. CASE StaLinkFailed
    BY <1>12 DEF StaLinkFailed, Fetch, Sta
  <1>13. CASE StaRxEapol
    BY <1>13 DEF StaRxEapol, Fetch, Sta, smVars
  <1>14. CASE StaConnectedConnectCmd
    BY <1>14 DEF StaConnectedConnectCmd, Sta, Fetch
  <1>15. CASE StaConnectedPollingScanDone
    BY <1>15 DEF StaConnectedPollingScanDone, Sta, Fetch, smVars
  <1>16. CASE StaConnectedDisconnect
    BY <1>16 DEF StaConnectedDisconnect, Sta, Fetch
  <1>17. CASE StaConnectedRoamingStart
    BY <1>17 DEF StaConnectedRoamingStart, Sta, Fetch, smVars
  <1>18. CASE StaConnectedFtRoamingCmd
    BY <1>18 DEF StaConnectedFtRoamingCmd, Sta, Fetch, smVars
  <1>19. CASE StaIgnore
    BY <1>19 DEF StaIgnore, Sta, StaHandles, Ignore, smVars
  <1>20. CASE ScanCmd
    BY <1>20 DEF ScanCmd, Fetch, smVars
  <1>21. CASE ScanOver
    BY <1>21 DEF ScanOver, Sta, Fetch, smVars
  <1>22. CASE ApMonitorStart
    BY <1>22 DEF ApMonitorStart, Fetch, StartCmd
  <1>23. CASE ApMonitorIgnore
    BY <1>23 DEF ApMonitorIgnore, StartCmd, Ignore, smVars
  <1>24. CASE SwitchModeSame
    BY <1>24 DEF SwitchModeSame, Fetch, Ignore, smVars
  <1>25. CASE SwitchMode
    <2>1. sm_init' = sm_init \/ sm_init' = TRUE
      BY <1>25, Zenon DEF SwitchMode
    <2>2. ~Fetch("INIT")
      BY <1>25 DEF SwitchMode, Fetch
    <2> QED BY <2>1, <2>2
  <1> QED BY <1>1, <1>2, <1>3, <1>4, <1>5, <1>6, <1>7, <1>8, <1>9, <1>10,
             <1>11, <1>12, <1>13, <1>14, <1>15, <1>16, <1>17, <1>18, <1>19,
             <1>20, <1>21, <1>22, <1>23, <1>24, <1>25
    DEF Handle, StaStep

\* A task that is quiet stays so until it is told of a better AP.
LEMMA HandleQuiet ==
    ASSUME Handle, link_timers = 0, ~polling_scan, ~preroam_start,
           ~Fetch("ROAMING_START")
    PROVE  link_timers' = 0 /\ ~polling_scan' /\ ~preroam_start'
  <1>1. CASE StaInit
    BY <1>1 DEF StaInit, Fetch, EnterIdle
  <1>2. CASE StaIdleConnectCmd
    BY <1>2 DEF StaIdleConnectCmd, Fetch, EnterScan, roamVars
  <1>3. CASE StaIdleAutoConnectCmd
    BY <1>3 DEF StaIdleAutoConnectCmd, Fetch, EnterIdle, EnterScan, roamVars
  <1>4. CASE StaIdleDisconnectCmd
    BY <1>4 DEF StaIdleDisconnectCmd, Fetch, smVars, roamVars, timerVars
  <1>5. CASE StaLinkingCmd
    BY <1>5
    DEF StaLinkingCmd, Fetch, LinkIsOngoing, smVars, roamVars, timerVars
  <1>6. CASE StaToIdle
    BY <1>6 DEF StaToIdle, Fetch, EnterIdle, roamVars
  <1>7. CASE StaScanDone
    BY <1>7 DEF StaScanDone, Fetch, roamVars, timerVars
  <1>8. CASE StaScanFail
    BY <1>8
    DEF StaScanFail, Fetch, roamVars, GiveUp, PreroamRollback, EnterIdle
  <1>9. CASE StaConnectAssocSuccess
    BY <1>9 DEF StaConnectAssocSuccess, Fetch, roamVars, timerVars
  <1>10. CASE StaHandshakeDhcpStart
    BY <1>10 DEF StaHandshakeDhcpStart, Fetch, roamVars
  <1>11. CASE StaDhcpSuccess
    BY <1>11 DEF StaDhcpSuccess, Fetch, EnterConnected
  <1>12. CASE StaLinkFailed
    BY <1>12
    DEF StaLinkFailed, Fetch, RetryLater, GiveUp, PreroamRollback,
        EnterIdle, EnterScan, roamVars
  <1>13. CASE StaRxEapol
    BY <1>13 DEF StaRxEapol, Fetch, smVars, roamVars, timerVars
  <1>14. CASE StaConnectedConnectCmd
    BY <1>14 DEF StaConnectedConnectCmd, Fetch, EnterScan, roamVars
  <1>15. CASE StaConnectedPollingScanDone
    BY <1>15
    DEF StaConnectedPollingScanDone, Fetch, ConnectedScanDone, smVars
  <1>16. CASE StaConnectedDisconnect
    BY <1>16
    DEF StaConnectedDisconnect, Fetch, EnterScan, EnterIdle, roamVars
  <1>17. CASE StaConnectedRoamingStart
    BY <1>17 DEF StaConnectedRoamingStart, Fetch, smVars
  <1>18. CASE StaConnectedFtRoamingCmd
    BY <1>18
    DEF StaConnectedFtRoamingCmd, Fetch, smVars, roamVars, timerVars
  <1>19. CASE StaIgnore
    BY <1>19 DEF StaIgnore, Ignore, smVars, roamVars, timerVars
  <1>20. CASE ScanCmd
    BY <1>20 DEF ScanCmd, Fetch, smVars, roamVars, timerVars
  <1>21. CASE ScanOver
    BY <1>21 DEF ScanOver, Fetch, smVars, roamVars, timerVars
  <1>22. CASE ApMonitorStart
    BY <1>22 DEF ApMonitorStart, Fetch, roamVars, timerVars
  <1>23. CASE ApMonitorIgnore
    BY <1>23 DEF ApMonitorIgnore, Ignore, smVars, roamVars, timerVars
  <1>24. CASE SwitchModeSame
    BY <1>24 DEF SwitchModeSame, Fetch, Ignore, smVars, roamVars, timerVars
  <1>25. CASE SwitchMode
    BY <1>25 DEF SwitchMode, Fetch, EnterIdle, timerVars
  <1> QED BY <1>1, <1>2, <1>3, <1>4, <1>5, <1>6, <1>7, <1>8, <1>9, <1>10,
             <1>11, <1>12, <1>13, <1>14, <1>15, <1>16, <1>17, <1>18, <1>19,
             <1>20, <1>21, <1>22, <1>23, <1>24, <1>25
    DEF Handle, StaStep

\* Timers and the MAC start none of them either.
LEMMA OtherQuiet ==
    ASSUME Timers \/ Mac, link_timers = 0, ~polling_scan, ~preroam_start
    PROVE  link_timers' = 0 /\ ~polling_scan' /\ ~preroam_start'
  <1>1. CASE ConnectRetry
    BY <1>1 DEF ConnectRetry, EnterScan, roamVars
  <1>2. CASE DhcpPolling
    BY <1>2 DEF DhcpPolling, roamVars
  <1>3. CASE LinkStatusPolling
    BY <1>3 DEF LinkStatusPolling
  <1>4. CASE MacScanEnd
    BY <1>4 DEF MacScanEnd, Report, roamVars, timerVars
  <1>5. CASE MacConnectInd
    BY <1>5 DEF MacConnectInd, Report, roamVars, timerVars
  <1>6. CASE MacRxEapol
    BY <1>6 DEF MacRxEapol, Report, roamVars, timerVars
  <1>7. CASE MacDhcpStart
    BY <1>7 DEF MacDhcpStart, Report, roamVars, timerVars
  <1>8. CASE MacDisconnect
    BY <1>8 DEF MacDisconnect, Report, roamVars, timerVars
  <1>9. CASE WpaSaQueryFail
    BY <1>9 DEF WpaSaQueryFail, Report, roamVars, timerVars
  <1>10. CASE MacLateDisconnect
    BY <1>10 DEF MacLateDisconnect, Report, roamVars, timerVars
  <1>11. CASE MacRoaming
    BY <1>11 DEF MacRoaming, Report, roamVars, timerVars
  <1> QED BY <1>1, <1>2, <1>3, <1>4, <1>5, <1>6, <1>7, <1>8, <1>9, <1>10,
             <1>11
    DEF Timers, Mac

\* A soft AP that will be ready when a message is reached still will be.
LEMMA ApReadyMoved ==
    ASSUME NEW d \in {0, 1}, Moved(d), TypeMoved(d),
           IF d = 1 THEN Machine ELSE wvif_type = "AP" => sm_state' = sm_state,
           NEW i, NEW j, Place(d, i, j), i > d, ApReadyAt(i)
    PROVE  ApReadyAt(j)'
  <1>1. /\ \A m \in Own : m.ev \notin ApNews
        /\ \A m \in Own : m.ev \notin Switches
    BY DEF Own, ApNews, Switches
  <1>2. i \in Nat /\ j \in Nat /\ i <= Len(queue) + 1
    BY DEF Place, Moved
  <1>3. CASE wvif_type = "AP" /\ sm_state = INIT /\ Free(ApNews, 0, i)
    <2>1. d = 1 => Head(queue).ev \notin ApNews
      BY <1>2, <1>3 DEF Free, Moved
    <2>2. wvif_type' = "AP" /\ sm_state' = INIT
      BY <1>3, <2>1 DEF TypeMoved, Machine, Fetch, ApNews
    <2>3. Free(ApNews, 0 - d, j)'
      BY <1>1, <1>3, PlaceFree
    <2>4. Free(ApNews, 0, j)'
      BY <2>3, <1>2 DEF Free
    <2> QED BY <2>2, <2>4 DEF ApReadyAt
  <1>4. ASSUME NEW k \in 1..Len(queue), NEW t \in Types \ {"AP"}, k < i,
               queue[k] = Switch("AP"), Free(ApNews, k, i), TypeAt(t, k)
        PROVE  ApReadyAt(j)'
    <2>1. Free(ApNews, k - d, j)'
      BY <1>1, <1>4, PlaceFree
    <2>2. CASE k = d
      <3>1. Fetch("SWITCH_MODE_CMD") /\ Head(queue).arg = "AP" /\ d = 1
        BY <1>4, <2>2 DEF Fetch, Switch, Msg, Moved
      <3>2. wvif_type = t
        BY <1>4, <2>2 DEF TypeAt
      <3>3. wvif_type' = "AP" /\ sm_state' = INIT
        BY <3>1, <3>2 DEF TypeMoved, Machine
      <3>4. k - d = 0
        BY <2>2
      <3> QED BY <2>1, <3>3, <3>4 DEF ApReadyAt
    <2>3. CASE k # d
      <3>1. k - d \in 1..Len(queue') /\ queue'[k - d] = queue[k] /\ k > d
        BY <2>3 DEF Moved
      <3>2. k - d < j
        BY <1>4, <1>2 DEF Place, Moved
      <3>3. Place(d, k, k - d)
        BY DEF Place
      <3>4. TypeAt(t, k - d)'
        BY <1>4, <3>1, <3>3, TypeAtMoved
      <3> QED BY <1>4, <2>1, <3>1, <3>2, <3>4 DEF ApReadyAt, Switch, Msg
    <2> QED BY <2>2, <2>3
  <1> QED BY <1>3, <1>4 DEF ApReadyAt

\* The same at the end of the queue.
LEMMA EndsApReadyMoved ==
    ASSUME NEW d \in {0, 1}, Moved(d), TypeMoved(d), EndsApReady,
           IF d = 1 THEN Machine ELSE wvif_type = "AP" => sm_state' = sm_state
    PROVE  EndsApReady'
  <1>1. PICK i, j \in Nat : i = Len(queue) + 1 /\ j = Len(queue') + 1
    BY DEF Moved
  <1>2. Place(d, i, j) /\ i > d
    BY <1>1 DEF Place, Moved
  <1>3. ApReadyAt(i)
    BY <1>1 DEF EndsApReady
  <1>4. ApReadyAt(j)'
    BY <1>2, <1>3, ApReadyMoved
  <1> QED BY <1>1, <1>4 DEF EndsApReady, ApReadyAt, Free

-----------------------------------------------------------------------------
(* What the task tells its callers                                          *)

\* v is w with more events of S behind.
Grows(w, v, S) ==
    /\ Len(w) <= Len(v)
    /\ \A j \in 1..Len(w) : v[j] = w[j]
    /\ \A j \in 1..Len(v) : j > Len(w) => v[j] \in S

\* An event of this kind is in the queue, unless it was full.
Tells(e) == Len(wait_queue') < WaitCap => Answered(e)'

\* What the station says, and scans in any mode.
Informs == {e \in WaitEvts : e.evt \in {"SCAN_DONE", "CONN_DONE", "DISCONN_DONE"}}

\* One event posted to the wait queue makes it grow, or leaves it when full.
LEMMA GrowsCapped ==
    ASSUME NEW w \in Seq(WaitEvts), NEW x \in WaitEvts
    PROVE  /\ Capped(w, x, WaitCap) \in Seq(WaitEvts)
           /\ \A S : x \in S => Grows(w, Capped(w, x, WaitCap), S)
  BY LimitsAssumption DEF LimitsAssumption, Capped, Grows

\* Growing twice is growing.
LEMMA GrowsMore ==
    ASSUME NEW u \in Seq(WaitEvts), NEW v \in Seq(WaitEvts),
           NEW w \in Seq(WaitEvts), NEW S, Grows(u, v, S), Grows(v, w, S)
    PROVE  Grows(u, w, S)
  BY DEF Grows

\* The three answers, posted.
LEMMA PostGrows ==
    ASSUME NEW w \in Seq(WaitEvts)
    PROVE  /\ Grows(w, PostDisconnDone(w), Informs)
           /\ \A r \in {"SUCCESS", "FAIL"} :
                 /\ Grows(w, PostConnDone(w, r), Informs)
                 /\ Grows(w, PostScanDone(w, r), Informs)
                 /\ Grows(w, PostDisconnDone(PostConnDone(w, r)), Informs)
                 /\ Grows(w, Capped(w, WaitEvt("CONN_DONE", r), WaitCap), Informs)
  <1>1. \A e \in {"SCAN_DONE", "CONN_DONE", "DISCONN_DONE"} :
           \A r \in {"SUCCESS", "FAIL"} : WaitEvt(e, r) \in Informs
    BY DEF WaitEvt, WaitEvts, Informs
  <1>2. Informs \subseteq WaitEvts /\ Grows(w, w, Informs)
    BY DEF Informs, Grows
  <1>3. \A v \in Seq(WaitEvts) : Grows(v, PostDisconnDone(v), Informs)
    BY <1>1, <1>2, GrowsCapped DEF PostDisconnDone
  <1>4. ASSUME NEW r \in {"SUCCESS", "FAIL"}
        PROVE  /\ Grows(w, PostConnDone(w, r), Informs)
               /\ Grows(w, PostScanDone(w, r), Informs)
               /\ Grows(w, Capped(w, WaitEvt("CONN_DONE", r), WaitCap), Informs)
    BY <1>1, <1>2, GrowsCapped DEF PostConnDone, PostScanDone
  <1>5. ASSUME NEW r \in {"SUCCESS", "FAIL"}
        PROVE  Grows(w, PostDisconnDone(PostConnDone(w, r)), Informs)
    BY <1>3, <1>4, GrowsMore, PostType
  <1> QED BY <1>3, <1>4, <1>5

\* An event that was posted, whatever was posted after it, has been told.
LEMMA PostTells ==
    ASSUME NEW w \in Seq(WaitEvts), NEW x \in WaitEvts,
           wait_queue' \in Seq(WaitEvts), NEW S,
           Grows(Capped(w, x, WaitCap), wait_queue', S)
    PROVE  Tells(x.evt)
  <1> SUFFICES ASSUME Len(wait_queue') < WaitCap
               PROVE  Answered(x.evt)'
    BY DEF Tells
  <1>1. Capped(w, x, WaitCap) = Append(w, x)
    BY LimitsAssumption DEF LimitsAssumption, Capped, Grows
  <1>2. Len(w) + 1 \in 1..Len(wait_queue') /\ wait_queue'[Len(w) + 1] = x
    BY <1>1 DEF Grows
  <1> QED BY <1>2 DEF Answered

\* Handlers only ever add to the wait queue; all but the start of a soft AP or
\* a monitor add what concerns stations and scans.
LEMMA HandleGrows ==
    ASSUME QueueType, Handle, ~ApMonitorStart
    PROVE  Grows(wait_queue, wait_queue', Informs)
  <1> USE DEF QueueType
  <1>0. Grows(wait_queue, wait_queue, Informs)
    BY DEF Grows
  <1>1. CASE StaInit
    BY <1>1, <1>0, PostGrows DEF StaInit, EnterIdle
  <1>2. CASE StaIdleConnectCmd
    BY <1>2, <1>0, PostGrows DEF StaIdleConnectCmd
  <1>3. CASE StaIdleAutoConnectCmd
    BY <1>3, <1>0, PostGrows DEF StaIdleAutoConnectCmd, EnterIdle
  <1>4. CASE StaIdleDisconnectCmd
    BY <1>4, <1>0, PostGrows DEF StaIdleDisconnectCmd
  <1>5. CASE StaLinkingCmd
    BY <1>5, <1>0, PostGrows DEF StaLinkingCmd, LinkIsOngoing
  <1>6. CASE StaToIdle
    BY <1>6, <1>0, PostGrows DEF StaToIdle, EnterIdle
  <1>7. CASE StaScanDone
    BY <1>7, <1>0, PostGrows DEF StaScanDone
  <1>8. CASE StaScanFail
    BY <1>8, <1>0, PostGrows DEF StaScanFail, GiveUp, EnterIdle, ReasonOf
  <1>9. CASE StaConnectAssocSuccess
    BY <1>9, <1>0, PostGrows DEF StaConnectAssocSuccess
  <1>10. CASE StaHandshakeDhcpStart
    BY <1>10, <1>0, PostGrows DEF StaHandshakeDhcpStart
  <1>11. CASE StaDhcpSuccess
    BY <1>11, <1>0, PostGrows DEF StaDhcpSuccess, EnterConnected
  <1>12. CASE StaLinkFailed
    BY <1>12, <1>0, PostGrows
    DEF StaLinkFailed, RetryLater, GiveUp, EnterIdle, ReasonOf
  <1>13. CASE StaRxEapol
    BY <1>13, <1>0, PostGrows DEF StaRxEapol
  <1>14. CASE StaConnectedConnectCmd
    BY <1>14, <1>0, PostGrows DEF StaConnectedConnectCmd
  <1>15. CASE StaConnectedPollingScanDone
    BY <1>15, <1>0, PostGrows DEF StaConnectedPollingScanDone
  <1>16. CASE StaConnectedDisconnect
    BY <1>16, <1>0, PostGrows DEF StaConnectedDisconnect, EnterIdle
  <1>17. CASE StaConnectedRoamingStart
    BY <1>17, <1>0, PostGrows DEF StaConnectedRoamingStart
  <1>18. CASE StaConnectedFtRoamingCmd
    BY <1>18, <1>0, PostGrows DEF StaConnectedFtRoamingCmd
  <1>19. CASE StaIgnore
    BY <1>19, <1>0, PostGrows DEF StaIgnore, Ignore
  <1>20. CASE ScanCmd
    BY <1>20, <1>0, PostGrows DEF ScanCmd
  <1>21. CASE ScanOver
    BY <1>21, <1>0, PostGrows DEF ScanOver
  <1>22. CASE ApMonitorIgnore
    BY <1>22, <1>0, PostGrows DEF ApMonitorIgnore, Ignore
  <1>23. CASE SwitchModeSame
    BY <1>23, <1>0, PostGrows DEF SwitchModeSame, Ignore
  <1>24. CASE SwitchMode
    BY <1>24, <1>0, PostGrows DEF SwitchMode, EnterIdle
  <1> QED BY <1>1, <1>2, <1>3, <1>4, <1>5, <1>6, <1>7, <1>8, <1>9, <1>10,
             <1>11, <1>12, <1>13, <1>14, <1>15, <1>16, <1>17, <1>18, <1>19,
             <1>20, <1>21, <1>22, <1>23, <1>24
    DEF Handle, StaStep

\* A blocked CONNECT_CMD that reaches a station is remembered, or refused.
LEMMA HandleConn ==
    ASSUME FieldType, QueueType, StateOfMachine, Handle, wvif_type = "STA",
           sm_init, Fetch("CONNECT_CMD"), Head(queue).arg = "cfg_blocked"
    PROVE  conn_blocked' \/ Tells("CONN_DONE")
  <1>1. CASE StaIdleConnectCmd \/ StaConnectedConnectCmd
    BY <1>1 DEF StaIdleConnectCmd, StaConnectedConnectCmd, CopyCfg
  <1>2. CASE StaLinkingCmd
    <2>1. WaitEvt("CONN_DONE", "FAIL") \in WaitEvts
          /\ WaitEvt("CONN_DONE", "FAIL").evt = "CONN_DONE"
      BY DEF WaitEvt, WaitEvts
    <2>2. wait_queue' = Capped(wait_queue, WaitEvt("CONN_DONE", "FAIL"), WaitCap)
      BY <1>2 DEF StaLinkingCmd, LinkIsOngoing
    <2>3. wait_queue' \in Seq(WaitEvts) /\ Grows(wait_queue', wait_queue', {})
      BY <2>1, <2>2, GrowsCapped DEF QueueType, Grows
    <2> QED BY <2>1, <2>2, <2>3, PostTells DEF QueueType
  <1>3. CASE StaIgnore
    <2>1. sm_state \in Nat
      BY DEF StateOfMachine, Linking
    <2> QED BY <1>3, <2>1, CmdsHandled DEF StaIgnore, Fetch
  <1>4. CASE StaInit \/ StaIdleAutoConnectCmd \/ StaIdleDisconnectCmd
             \/ StaToIdle \/ StaScanDone \/ StaScanFail
    BY <1>4
    DEF StaInit, Fetch, StaIdleAutoConnectCmd, Sta, StaIdleDisconnectCmd,
        StaToIdle, StaScanDone, StaScanFail
  <1>5. CASE StaConnectAssocSuccess \/ StaHandshakeDhcpStart
             \/ StaDhcpSuccess \/ StaLinkFailed \/ StaRxEapol
             \/ StaConnectedPollingScanDone
    BY <1>5
    DEF StaConnectAssocSuccess, Sta, Fetch, StaHandshakeDhcpStart,
        StaDhcpSuccess, StaLinkFailed, StaRxEapol,
        StaConnectedPollingScanDone
  <1>6. CASE StaConnectedDisconnect \/ StaConnectedRoamingStart
             \/ StaConnectedFtRoamingCmd \/ ScanCmd \/ ScanOver
             \/ ApMonitorStart
    BY <1>6
    DEF StaConnectedDisconnect, Sta, Fetch, StaConnectedRoamingStart,
        StaConnectedFtRoamingCmd, ScanCmd, ScanOver, ApMonitorStart
  <1>7. CASE ApMonitorIgnore \/ SwitchModeSame \/ SwitchMode
    BY <1>7
    DEF ApMonitorIgnore, SwitchModeSame, Fetch, SwitchMode
  <1> QED BY <1>1, <1>2, <1>3, <1>4, <1>5, <1>6, <1>7
    DEF Handle, StaStep

\* A station remembers who waits for a connection until it tells him.
LEMMA HandleKeepsConn ==
    ASSUME FieldType, QueueType, Handle, wvif_type = "STA", conn_blocked,
           ~Forgets(Head(queue)), wait_queue' \in Seq(WaitEvts)
    PROVE  conn_blocked' \/ Tells("CONN_DONE")
  <1> DEFINE e(r) == WaitEvt("CONN_DONE", r)
             w(r) == Capped(wait_queue, e(r), WaitCap)
  <1>1. \A r \in {"SUCCESS", "FAIL"} :
           /\ e(r) \in WaitEvts /\ e(r).evt = "CONN_DONE"
           /\ w(r) \in Seq(WaitEvts)
           /\ Grows(w(r), w(r), Informs)
           /\ Grows(w(r), PostDisconnDone(w(r)), Informs)
    <2> SUFFICES ASSUME NEW r \in {"SUCCESS", "FAIL"}
                 PROVE  /\ e(r) \in WaitEvts /\ e(r).evt = "CONN_DONE"
                        /\ w(r) \in Seq(WaitEvts)
                        /\ Grows(w(r), w(r), Informs)
                        /\ Grows(w(r), PostDisconnDone(w(r)), Informs)
      OBVIOUS
    <2>1. e(r) \in WaitEvts /\ e(r).evt = "CONN_DONE"
      BY DEF WaitEvt, WaitEvts
    <2> HIDE DEF e
    <2>2. w(r) \in Seq(WaitEvts)
      BY <2>1, GrowsCapped DEF QueueType
    <2> HIDE DEF w
    <2>3. Grows(w(r), w(r), Informs)
      BY <2>2 DEF Grows
    <2>4. Grows(w(r), PostDisconnDone(w(r)), Informs)
      BY <2>2, PostGrows
    <2> QED BY <2>1, <2>2, <2>3, <2>4
  <1>2. \A r \in {"SUCCESS", "FAIL"} :
           \/ wait_queue' = w(r)
           \/ wait_queue' = PostDisconnDone(w(r))
           => Tells("CONN_DONE")
    BY <1>1, PostTells DEF QueueType
  <1>3. CASE StaDhcpSuccess
    <2>1. wait_queue' = w("SUCCESS")
      BY <1>3 DEF StaDhcpSuccess, EnterConnected, PostConnDone
    <2> QED BY <1>2, <2>1
  <1>4. CASE StaLinkingCmd
    <2>1. wait_queue' = w("FAIL")
      BY <1>4 DEF StaLinkingCmd, LinkIsOngoing
    <2> QED BY <1>2, <2>1
  <1>5. CASE GiveUp(Head(queue))
    <2>1. PICK r \in {"SUCCESS", "FAIL"} : r = ReasonOf(Head(queue))
      BY DEF ReasonOf
    <2>2. wait_queue' = PostDisconnDone(w(r))
      BY <1>5, <2>1 DEF GiveUp, EnterIdle, PostConnDone
    <2> QED BY <1>2, <2>2
  <1>6. CASE StaScanFail
    BY <1>5, <1>6 DEF StaScanFail
  <1>7. CASE StaLinkFailed
    BY <1>5, <1>7 DEF StaLinkFailed, RetryLater
  <1>8. CASE StaInit \/ StaIdleConnectCmd \/ StaIdleAutoConnectCmd
             \/ StaIdleDisconnectCmd \/ StaToIdle \/ StaScanDone
    BY <1>8
    DEF Forgets, StaInit, Fetch, StaIdleConnectCmd, CopyCfg, StaIdleAutoConnectCmd,
        blockVars, StaIdleDisconnectCmd, StaToIdle, StaScanDone
  <1>9. CASE StaConnectAssocSuccess \/ StaHandshakeDhcpStart \/ StaRxEapol
             \/ StaConnectedConnectCmd \/ StaConnectedPollingScanDone
             \/ StaConnectedDisconnect
    BY <1>9
    DEF Forgets, StaConnectAssocSuccess, Fetch, blockVars, StaHandshakeDhcpStart,
        StaRxEapol, StaConnectedConnectCmd, CopyCfg,
        StaConnectedPollingScanDone, StaConnectedDisconnect
  <1>10. CASE StaConnectedRoamingStart \/ StaConnectedFtRoamingCmd
              \/ StaIgnore \/ ScanCmd \/ ScanOver \/ ApMonitorStart
    BY <1>10
    DEF Forgets, StaConnectedRoamingStart, Fetch, blockVars,
        StaConnectedFtRoamingCmd, StaIgnore, Ignore, ScanCmd, ScanOver,
        ApMonitorStart
  <1>11. CASE ApMonitorIgnore \/ SwitchModeSame \/ SwitchMode
    BY <1>11
    DEF Forgets, ApMonitorIgnore, Ignore, blockVars, SwitchModeSame, Fetch,
        SwitchMode
  <1> QED BY <1>1, <1>2, <1>3, <1>4, <1>5, <1>6, <1>7, <1>8, <1>9, <1>10,
             <1>11
    DEF Handle, StaStep

\* DISCONNECT_CMD that reaches a station is answered.
LEMMA HandleDisconn ==
    ASSUME FieldType, QueueType, StateOfMachine, Handle, wvif_type = "STA",
           sm_init, Fetch("DISCONNECT_CMD")
    PROVE  Tells("DISCONN_DONE")
  <1>1. CASE wait_queue' = PostDisconnDone(wait_queue)
    <2>1. WaitEvt("DISCONN_DONE", "SUCCESS") \in WaitEvts
          /\ WaitEvt("DISCONN_DONE", "SUCCESS").evt = "DISCONN_DONE"
      BY DEF WaitEvt, WaitEvts
    <2>2. wait_queue' \in Seq(WaitEvts) /\ Grows(wait_queue', wait_queue', {})
      BY <1>1, PostType DEF QueueType, Grows
    <2> QED BY <1>1, <2>1, <2>2, PostTells DEF QueueType, PostDisconnDone
  <1>2. CASE StaIdleDisconnectCmd \/ StaToIdle
    BY <1>1, <1>2 DEF StaIdleDisconnectCmd, StaToIdle, EnterIdle
  <1>3. CASE StaIgnore
    <2>1. sm_state \in Nat
      BY DEF StateOfMachine, Linking
    <2> QED BY <1>3, <2>1, CmdsHandled DEF StaIgnore, Fetch
  <1>4. CASE StaInit \/ StaIdleConnectCmd \/ StaIdleAutoConnectCmd
             \/ StaLinkingCmd \/ StaScanDone \/ StaScanFail
    BY <1>4
    DEF StaInit, Fetch, StaIdleConnectCmd, Sta, StaIdleAutoConnectCmd,
        StaLinkingCmd, StaScanDone, StaScanFail
  <1>5. CASE StaConnectAssocSuccess \/ StaHandshakeDhcpStart
             \/ StaDhcpSuccess \/ StaLinkFailed \/ StaRxEapol
             \/ StaConnectedConnectCmd
    BY <1>5
    DEF StaConnectAssocSuccess, Sta, Fetch, StaHandshakeDhcpStart,
        StaDhcpSuccess, StaLinkFailed, StaRxEapol, StaConnectedConnectCmd
  <1>6. CASE StaConnectedPollingScanDone \/ StaConnectedDisconnect
             \/ StaConnectedRoamingStart \/ StaConnectedFtRoamingCmd
             \/ ScanCmd \/ ScanOver
    BY <1>6
    DEF StaConnectedPollingScanDone, Sta, Fetch, StaConnectedDisconnect,
        StaConnectedRoamingStart, StaConnectedFtRoamingCmd, ScanCmd,
        ScanOver
  <1>7. CASE ApMonitorStart \/ ApMonitorIgnore \/ SwitchModeSame
             \/ SwitchMode
    BY <1>7
    DEF ApMonitorStart, Fetch, ApMonitorIgnore, SwitchModeSame, SwitchMode
  <1> QED BY <1>1, <1>2, <1>3, <1>4, <1>5, <1>6, <1>7
    DEF Handle, StaStep

\* START_AP_CMD that reaches a soft AP that has not started is answered, and
\* only such a command, or that of a monitor, is.
LEMMA HandleStart ==
    ASSUME QueueType, Handle, wvif_type = "AP", sm_state = INIT,
           Fetch("START_AP_CMD")
    PROVE  ApMonitorStart
  <1>1. CASE StaInit \/ StaIdleConnectCmd \/ StaIdleAutoConnectCmd
             \/ StaIdleDisconnectCmd \/ StaLinkingCmd \/ StaToIdle
    BY <1>1
    DEF StaInit, Fetch, StaIdleConnectCmd, Sta, StaIdleAutoConnectCmd,
        StaIdleDisconnectCmd, StaLinkingCmd, StaToIdle
  <1>2. CASE StaScanDone \/ StaScanFail \/ StaConnectAssocSuccess
             \/ StaHandshakeDhcpStart \/ StaDhcpSuccess \/ StaLinkFailed
    BY <1>2
    DEF StaScanDone, Sta, Fetch, StaScanFail, StaConnectAssocSuccess,
        StaHandshakeDhcpStart, StaDhcpSuccess, StaLinkFailed
  <1>3. CASE StaRxEapol \/ StaConnectedConnectCmd
             \/ StaConnectedPollingScanDone \/ StaConnectedDisconnect
             \/ StaConnectedRoamingStart \/ StaConnectedFtRoamingCmd
    BY <1>3
    DEF StaRxEapol, Fetch, Sta, StaConnectedConnectCmd,
        StaConnectedPollingScanDone, StaConnectedDisconnect,
        StaConnectedRoamingStart, StaConnectedFtRoamingCmd
  <1>4. CASE StaIgnore \/ ScanCmd \/ ScanOver \/ ApMonitorIgnore
             \/ SwitchModeSame \/ SwitchMode
    BY <1>4
    DEF StaIgnore, Sta, ScanCmd, Fetch, ScanOver, ApMonitorIgnore,
        StartCmd, SwitchModeSame, SwitchMode
  <1> QED BY <1>1, <1>2, <1>3, <1>4
    DEF Handle, StaStep

\* A start taken from the queue is answered, by its own event.
LEMMA StartTells ==
    ASSUME QueueType, ApMonitorStart
    PROVE  \E r \in {"SUCCESS", "FAIL"} :
              LET x == WaitEvt(StartDone[wvif_type], r) IN
              /\ x \in WaitEvts
              /\ wvif_type \in {"AP", "MONITOR"} /\ Fetch(StartCmd[wvif_type])
              /\ wait_queue' = Capped(wait_queue, x, WaitCap)
              /\ wait_queue' \in Seq(WaitEvts)
              /\ Grows(wait_queue, wait_queue', {x})
              /\ Tells(StartDone[wvif_type])
              /\ r = "SUCCESS" => sm_state' = STARTED
  <1>1. PICK r \in {"SUCCESS", "FAIL"} :
           /\ wvif_type \in {"AP", "MONITOR"} /\ Fetch(StartCmd[wvif_type])
           /\ wait_queue' = Capped(wait_queue,
                               WaitEvt(StartDone[wvif_type], r), WaitCap)
           /\ r = "SUCCESS" => sm_state' = STARTED
    BY DEF ApMonitorStart
  <1> DEFINE x == WaitEvt(StartDone[wvif_type], r)
  <1>2. x \in WaitEvts /\ x.evt = StartDone[wvif_type]
    BY <1>1 DEF StartDone, WaitEvt, WaitEvts
  <1> HIDE DEF x
  <1>3. wait_queue' = Capped(wait_queue, x, WaitCap)
    BY <1>1 DEF x
  <1>4. wait_queue' \in Seq(WaitEvts) /\ Grows(wait_queue, wait_queue', {x})
    BY <1>2, <1>3, GrowsCapped DEF QueueType
  <1>5. Grows(wait_queue', wait_queue', {})
    BY <1>4 DEF Grows
  <1>6. Tells(StartDone[wvif_type])
    BY <1>2, <1>3, <1>4, <1>5, PostTells DEF QueueType
  <1> QED BY <1>1, <1>2, <1>3, <1>4, <1>6 DEF x

\* Timers and the MAC tell nobody anything.
LEMMA OtherTells ==
    ASSUME Timers \/ Mac
    PROVE  wait_queue' = wait_queue /\ conn_blocked' = conn_blocked
  <1>1. CASE ConnectRetry
    BY <1>1 DEF ConnectRetry, blockVars
  <1>2. CASE DhcpPolling
    BY <1>2 DEF DhcpPolling, blockVars
  <1>3. CASE LinkStatusPolling
    BY <1>3 DEF LinkStatusPolling, blockVars
  <1>4. CASE MacScanEnd
    BY <1>4 DEF MacScanEnd, Report, blockVars
  <1>5. CASE MacConnectInd
    BY <1>5 DEF MacConnectInd, Report, blockVars
  <1>6. CASE MacRxEapol
    BY <1>6 DEF MacRxEapol, Report, blockVars
  <1>7. CASE MacDhcpStart
    BY <1>7 DEF MacDhcpStart, Report, blockVars
  <1>8. CASE MacDisconnect
    BY <1>8 DEF MacDisconnect, Report, blockVars
  <1>9. CASE WpaSaQueryFail
    BY <1>9 DEF WpaSaQueryFail, Report, blockVars
  <1>10. CASE MacLateDisconnect
    BY <1>10 DEF MacLateDisconnect, Report, blockVars
  <1>11. CASE MacRoaming
    BY <1>11 DEF MacRoaming, Report, blockVars
  <1> QED BY <1>1, <1>2, <1>3, <1>4, <1>5, <1>6, <1>7, <1>8, <1>9, <1>10,
             <1>11
    DEF Timers, Mac

-----------------------------------------------------------------------------
(* Steps of the task                                                        *)

\* Every step of the task, its timers or the MAC, as callers see it.
TaskStep(d) ==
    /\ d = 1 <=> Handle
    /\ d = 0 => Timers \/ Mac
    /\ Moved(d) /\ TypeMoved(d)
    /\ IF d = 1 THEN Machine ELSE wvif_type # "STA" => sm_state' = sm_state
    /\ queue \in Seq(Msgs) /\ queue' \in Seq(Msgs)
    /\ wait_queue \in Seq(WaitEvts) /\ wait_queue' \in Seq(WaitEvts)
    /\ Grows(wait_queue, wait_queue', WaitEvts)

\* Every step of the task is of this form.
LEMMA TaskSteps ==
    ASSUME IInv, Task
    PROVE  \E d \in {0, 1} : TaskStep(d)
  <1>1. /\ FieldType /\ QueueType /\ StateOfMachine /\ RetryTimerInv
        /\ Handle \/ Timers \/ Mac
    BY DEF IInv, TypeOK, Control, Task
  <1>2. QueueType'
    <2>1. Next
      BY <1>1 DEF Next
    <2>2. IInv'
      BY <2>1, StepInv
    <2> QED BY <2>2 DEF IInv, TypeOK
  <1>3. CASE Handle
    <2>1. queue # <<>> /\ Posts(Tail(queue)) /\ TypeMoved(1) /\ Machine
      BY <1>1, <1>3, HandlePosts, HandleMachine
    <2>2. Moved(1)
      BY <1>1, <2>1, PostsMove
    <2>3. Grows(wait_queue, wait_queue', WaitEvts)
      <3>1. CASE ApMonitorStart
        BY <1>1, <3>1, StartTells DEF Grows
      <3>2. CASE ~ApMonitorStart
        BY <1>1, <1>3, <3>2, HandleGrows DEF Grows, Informs
      <3> QED BY <3>1, <3>2
    <2> QED BY <1>1, <1>2, <1>3, <2>1, <2>2, <2>3 DEF TaskStep, QueueType
  <1>4. CASE ~Handle
    <2>1. Posts(queue) /\ Moved(0)
      BY <1>1, <1>4, OtherPosts, PostsMove
    <2>2. /\ wvif_type' = wvif_type
          /\ wvif_type # "STA" => sm_state' = sm_state
      BY <1>1, <1>4, OtherMachine
    <2>3. Grows(wait_queue, wait_queue', WaitEvts)
      BY <1>1, <1>4, OtherTells DEF Grows
    <2>4. TypeMoved(0)
      BY <2>2 DEF TypeMoved
    <2> QED BY <1>1, <1>2, <1>4, <2>1, <2>2, <2>3, <2>4 DEF TaskStep, QueueType
  <1> QED BY <1>3, <1>4

\* The caller's part; crowded' says whether a post may have been lost.
LEMMA TaskCalls ==
    ASSUME IInv, Task
    PROVE  /\ todo' = todo /\ op' = op /\ ret' = ret /\ late' = late
           /\ ~crowded' => ~crowded /\ Len(wait_queue') < WaitCap
  <1>1. UNCHANGED <<op, todo, ret, late>>
    BY DEF Task, callVars
  <1>2. ~crowded' => ~crowded /\ ~(Len(wait_queue') >= WaitCap)
    BY Zenon DEF Task
  <1>3. PICK d \in {0, 1} : TaskStep(d)
    BY TaskSteps
  <1>4. Len(wait_queue') \in Nat /\ WaitCap \in Nat
    BY <1>3, LimitsAssumption DEF LimitsAssumption, TaskStep
  <1> QED BY <1>1, <1>2, <1>4

\* An answer that has been given stays until it is fetched.
LEMMA AnswersStay ==
    ASSUME NEW d, TaskStep(d), NEW e, Answered(e)
    PROVE  Answered(e)'
  BY DEF TaskStep, Grows, Answered

\* A caller's command in the queue was there before the step.
LEMMA CommandMoved ==
    ASSUME NEW d \in {0, 1}, Moved(d), NEW e, \A m \in Own : m.ev # e,
           NEW j \in 1..Len(queue'), queue'[j].ev = e
    PROVE  j + d \in 1..Len(queue) /\ queue'[j] = queue[j + d]
  <1>1. CASE j > Len(queue) - d
    BY <1>1 DEF Moved
  <1>2. CASE j <= Len(queue) - d
    BY <1>2 DEF Moved
  <1> QED BY <1>1, <1>2 DEF Moved

\* Before it has handled INIT the task has only seen timers and the MAC.
LEMMA BootedTask ==
    ASSUME IInv, Booted, Task
    PROVE  Booted'
  <1>1. PICK d \in {0, 1} : TaskStep(d)
    BY TaskSteps
  <1>2. CASE d = 1
    <2>1. sm_init \/ (Fetch("INIT") /\ wvif_type = "STA")
      BY DEF Booted
    <2>2. sm_init'
      BY <1>1, <1>2, <2>1, HandleBooted DEF TaskStep
    <2> QED BY <2>2 DEF Booted
  <1>3. CASE d = 0
    <2>1. sm_init' = sm_init /\ wvif_type' = wvif_type
      BY <1>1, <1>3, OtherMachine DEF TaskStep, IInv, Control
    <2>2. ASSUME Fetch("INIT") PROVE Fetch("INIT")'
      <3>1. 1 \in 1..Len(queue') /\ queue'[1] = queue[1]
        BY <1>1, <1>3, <2>2 DEF TaskStep, Moved, Fetch
      <3> QED BY <1>1, <2>2, <3>1 DEF TaskStep, Fetch
    <2> QED BY <2>1, <2>2 DEF Booted
  <1> QED BY <1>2, <1>3

\* A blocked connect.
LEMMA ConnTask ==
    ASSUME IInv, Booted, ConnInv, Task
    PROVE  ConnInv'
  <1>1. PICK d \in {0, 1} : TaskStep(d)
    BY TaskSteps
  <1>2. todo' = todo /\ (~crowded' => ~crowded /\ Len(wait_queue') < WaitCap)
    BY TaskCalls
  <1>3. todo \in {FlushConn, SendConn} => EndsAs("STA")'
    BY <1>1, EndsAsMoved DEF ConnInv, TaskStep
  <1>4. ASSUME todo = WaitConn, ~crowded'
        PROVE  Answered("CONN_DONE")' \/ ConnGoesOn'
    <2>1. Tells("CONN_DONE") => Answered("CONN_DONE")'
      BY <1>2, <1>4 DEF Tells
    <2>2. CASE Answered("CONN_DONE")
      BY <1>1, <2>2, AnswersStay
    <2>3. ASSUME NEW i \in 1..Len(queue), TypeAt("STA", i), NoneForgets(i),
                 queue[i] = Msg("CONNECT_CMD", "cfg_blocked")
          PROVE  Answered("CONN_DONE")' \/ ConnGoesOn'
      <3>1. NoneForgets(i - d)'
        <4>1. Moved(d) /\ i \in Int
          BY <1>1 DEF TaskStep
        <4> QED BY <2>3, <4>1, ForgetsMoved
      <3>2. CASE i > d
        <4>1. Place(d, i, i - d)
          BY DEF Place
        <4>2. TypeAt("STA", i - d)'
          BY <1>1, <2>3, <3>2, <4>1, TypeAtMoved DEF TaskStep
        <4>3. i - d \in 1..Len(queue') /\ queue'[i - d] = queue[i]
          BY <1>1, <3>2 DEF TaskStep, Moved
        <4> QED BY <2>3, <3>1, <4>2, <4>3 DEF ConnGoesOn, Msg
      <3>3. CASE i = d
        <4>1. d = 1 /\ Handle /\ Head(queue) = queue[1] /\ i - d = 0
          BY <1>1, <3>3 DEF TaskStep
        <4>2. Fetch("CONNECT_CMD") /\ Head(queue).arg = "cfg_blocked"
          BY <1>1, <2>3, <3>3, <4>1 DEF Fetch, Msg, TaskStep
        <4>3. wvif_type = "STA"
          BY <2>3, <3>3, <4>1 DEF TypeAt
        <4>4. sm_init
          BY <4>2 DEF Booted, Fetch
        <4>5. conn_blocked' \/ Tells("CONN_DONE")
          BY <4>1, <4>2, <4>3, <4>4, HandleConn DEF IInv, TypeOK, Control
        <4>6. wvif_type' = "STA"
          BY <1>1, <4>1, <4>2, <4>3 DEF TaskStep, TypeMoved, Fetch
        <4> QED BY <2>1, <3>1, <4>1, <4>5, <4>6 DEF ConnGoesOn
      <3> QED BY <3>2, <3>3
    <2>4. CASE conn_blocked /\ wvif_type = "STA" /\ NoneForgets(0)
      <3>1. NoneForgets(0 - d)'
        BY <1>1, <2>4, ForgetsMoved DEF TaskStep
      <3>2. NoneForgets(0)'
        BY <1>1, <3>1 DEF NoneForgets, TaskStep
      <3>3. CASE d = 1
        <4>1. ~Forgets(Head(queue))
          <5>1. queue \in Seq(Msgs) /\ 1 \in 1..Len(queue)
            BY <1>1, <3>3 DEF TaskStep, Moved
          <5>2. ~Forgets(queue[1])
            BY <2>4, <5>1 DEF NoneForgets
          <5> QED BY <5>1, <5>2
        <4>2. conn_blocked' \/ Tells("CONN_DONE")
          BY <1>1, <2>4, <3>3, <4>1, HandleKeepsConn
          DEF IInv, TypeOK, Control, TaskStep
        <4>3. wvif_type' = "STA"
          BY <1>1, <2>4, <4>1 DEF TaskStep, TypeMoved, Fetch, Forgets
        <4> QED BY <2>1, <3>2, <4>2, <4>3 DEF ConnGoesOn
      <3>4. CASE d = 0
        <4>1. wvif_type' = wvif_type /\ conn_blocked' = conn_blocked
          BY <1>1, <3>4, OtherTells DEF TaskStep, TypeMoved
        <4> QED BY <2>4, <3>2, <4>1 DEF ConnGoesOn
      <3> QED BY <3>3, <3>4
    <2> QED BY <1>2, <1>4, <2>2, <2>3, <2>4 DEF ConnInv, ConnGoesOn
  <1> QED BY <1>2, <1>3, <1>4 DEF ConnInv

\* No message of the task's own is a switch of modes or wakes a station.
LEMMA OwnSwitches ==
    /\ \A m \in Own : m.ev \notin Switches
    /\ ~preroam_start /\ ~polling_scan => \A m \in Own : m.ev \notin Wakes
  BY DEF Own, Switches, Wakes

\* A disconnect.
LEMMA DisconnTask ==
    ASSUME IInv, Booted, DisconnInv, Task
    PROVE  DisconnInv'
  <1>1. PICK d \in {0, 1} : TaskStep(d)
    BY TaskSteps
  <1>2. todo' = todo /\ (~crowded' => ~crowded /\ Len(wait_queue') < WaitCap)
    BY TaskCalls
  <1> SUFFICES ASSUME todo = WaitDisconn, ~crowded'
               PROVE  DisconnInv'
    BY <1>2 DEF DisconnInv
  <1>3. ASSUME NEW i \in 1..Len(queue), queue[i].ev = "DISCONNECT_CMD",
               None(Switches, i)
        PROVE  DisconnInv'
    <2>1. None(Switches, i - d)'
      BY <1>1, <1>3, NoneMoved, OwnSwitches DEF TaskStep
    <2>2. CASE i > d
      <3>1. i - d \in 1..Len(queue') /\ queue'[i - d] = queue[i]
        BY <1>1, <2>2 DEF TaskStep, Moved
      <3> QED BY <1>3, <2>1, <3>1 DEF DisconnInv
    <2>3. CASE i = d
      <3>1. d = 1 /\ Handle /\ Head(queue) = queue[1] /\ i - d = 0
        BY <1>1, <2>3 DEF TaskStep
      <3>2. Fetch("DISCONNECT_CMD")
        BY <1>3, <2>3, <3>1 DEF Fetch
      <3>3. wvif_type' = wvif_type
        BY <1>1, <3>1, <3>2 DEF TaskStep, TypeMoved, Fetch
      <3>4. sm_init
        BY <3>2 DEF Booted, Fetch
      <3>5. wvif_type = "STA" => Answered("DISCONN_DONE")'
        BY <1>2, <3>1, <3>2, <3>4, HandleDisconn
        DEF IInv, TypeOK, Control, Tells
      <3> QED BY <2>1, <3>1, <3>3, <3>5 DEF DisconnInv
    <2> QED BY <2>2, <2>3
  <1>4. CASE None(Switches, 0) /\ (wvif_type = "STA" => Answered("DISCONN_DONE"))
    <2>1. None(Switches, 0 - d)'
      BY <1>1, <1>4, NoneMoved, OwnSwitches DEF TaskStep
    <2>2. None(Switches, 0)'
      BY <1>1, <2>1 DEF None, TaskStep
    <2>3. wvif_type' = wvif_type
      BY <1>1, <1>4 DEF TaskStep, TypeMoved, None, Fetch, Switches, Moved
    <2>4. wvif_type = "STA" => Answered("DISCONN_DONE")'
      BY <1>1, <1>4, AnswersStay
    <2> QED BY <2>2, <2>3, <2>4 DEF DisconnInv
  <1> QED BY <1>2, <1>3, <1>4 DEF DisconnInv

\* The start of a soft AP.
LEMMA ApTask ==
    ASSUME IInv, ApInv, Task
    PROVE  ApInv'
  <1>1. PICK d \in {0, 1} : TaskStep(d)
    BY TaskSteps
  <1>2. todo' = todo /\ (~crowded' => ~crowded /\ Len(wait_queue') < WaitCap)
    BY TaskCalls
  <1>3. dropped => dropped'
    <2>1. Moves(IF Handle THEN Tail(queue) ELSE queue)
      BY HandleMoves, OtherMoves DEF IInv, TypeOK, Task
    <2>2. /\ (IF Handle THEN Tail(queue) ELSE queue) \in Seq(Msgs)
          /\ dropped \in BOOLEAN
      BY HandleMoves DEF IInv, TypeOK, FlagType, QueueType
    <2> QED BY <2>1, <2>2, MovesKeep
  <1>4. IF d = 1 THEN Machine ELSE wvif_type = "AP" => sm_state' = sm_state
    BY <1>1 DEF TaskStep
  <1>5. todo = SwitchAp => dropped' \/ EndsAs("STA")'
    BY <1>1, <1>3, EndsAsMoved DEF ApInv, TaskStep
  <1>6. todo \in {FlushAp, SendAp} => dropped' \/ EndsApReady'
    BY <1>1, <1>3, <1>4, EndsApReadyMoved DEF ApInv, TaskStep
  <1>7. ASSUME todo = WaitAp, ~crowded'
        PROVE  \/ dropped' \/ Answered("AP_START_DONE")'
               \/ \E i \in 1..Len(queue') :
                     queue'[i].ev = "START_AP_CMD" /\ ApReadyAt(i)'
    <2>1. CASE dropped
      BY <1>3, <2>1
    <2>2. CASE Answered("AP_START_DONE")
      BY <1>1, <2>2, AnswersStay
    <2>3. ASSUME NEW i \in 1..Len(queue), queue[i].ev = "START_AP_CMD",
                 ApReadyAt(i), i > d
          PROVE  \E j \in 1..Len(queue') :
                     queue'[j].ev = "START_AP_CMD" /\ ApReadyAt(j)'
      <3>1. i - d \in 1..Len(queue') /\ queue'[i - d] = queue[i]
        BY <1>1, <2>3 DEF TaskStep, Moved
      <3>2. Place(d, i, i - d)
        BY DEF Place
      <3>3. ApReadyAt(i - d)'
        BY <1>1, <1>4, <2>3, <3>2, ApReadyMoved DEF TaskStep
      <3> QED BY <2>3, <3>1, <3>3
    <2>4. ASSUME NEW i \in 1..Len(queue), queue[i].ev = "START_AP_CMD",
                 ApReadyAt(i), i = d
          PROVE  Answered("AP_START_DONE")'
      <3>1. d = 1 /\ Handle /\ Head(queue) = queue[1]
        BY <1>1, <2>4 DEF TaskStep
      <3>2. Fetch("START_AP_CMD")
        BY <2>4, <3>1 DEF Fetch
      <3>3. wvif_type = "AP" /\ sm_state = INIT
        BY <2>4, <3>1 DEF ApReadyAt
      <3>4. ApMonitorStart
        BY <3>1, <3>2, <3>3, HandleStart DEF IInv, TypeOK
      <3>5. Tells("AP_START_DONE")
        BY <3>3, <3>4, StartTells DEF IInv, TypeOK, StartDone
      <3> QED BY <1>2, <1>7, <3>5 DEF Tells
    <2>5. \A i \in 1..Len(queue) : i > d \/ i = d
      OBVIOUS
    <2> QED BY <1>2, <1>7, <2>1, <2>2, <2>3, <2>4, <2>5 DEF ApInv
  <1> QED BY <1>2, <1>5, <1>6, <1>7 DEF ApInv

\* What has started stays so: no switch of modes is queued.
LEMMA UpTask ==
    ASSUME NEW d \in {0, 1}, TaskStep(d), Up
    PROVE  Up'
  <1>1. None(Switches, 0 - d)'
    BY NoneMoved, OwnSwitches DEF Up, TaskStep
  <1>2. None(Switches, 0)'
    BY <1>1 DEF None, TaskStep
  <1>3. d = 1 => ~Fetch("SWITCH_MODE_CMD")
    BY DEF Up, None, Fetch, Switches, TaskStep, Moved
  <1>4. wvif_type' = wvif_type /\ sm_state' = STARTED
    BY <1>3 DEF Up, TaskStep, TypeMoved, Machine
  <1> QED BY <1>2, <1>4 DEF Up

\* The commands that start a machine, and their answers.
StartPairs == {<<"START_AP_CMD", "AP_START_DONE">>,
               <<"MONITOR_START_CMD", "MONITOR_START_DONE">>}

\* A step that is not the start of this machine gives no answer of its kind.
LEMMA NoStartAnswer ==
    ASSUME IInv, Task, NEW d \in {0, 1}, TaskStep(d),
           NEW cmd, NEW done, <<cmd, done>> \in StartPairs,
           ~(ApMonitorStart /\ Fetch(cmd)),
           NEW j \in 1..Len(wait_queue'), wait_queue'[j].evt = done
    PROVE  j \in 1..Len(wait_queue) /\ wait_queue[j] = wait_queue'[j]
  <1>1. \E S : /\ Grows(wait_queue, wait_queue', S)
               /\ \A e \in S : e.evt # done
    <2>1. CASE ApMonitorStart
      <3>1. PICK r \in {"SUCCESS", "FAIL"} :
               /\ wvif_type \in {"AP", "MONITOR"} /\ Fetch(StartCmd[wvif_type])
               /\ Grows(wait_queue, wait_queue',
                        {WaitEvt(StartDone[wvif_type], r)})
        BY <2>1, StartTells DEF IInv, TypeOK
      <3>2. StartDone[wvif_type] # done
        BY <2>1, <3>1 DEF StartPairs, StartCmd, StartDone
      <3>3. WaitEvt(StartDone[wvif_type], r).evt # done
        BY <3>2 DEF WaitEvt
      <3> QED BY <3>1, <3>3
    <2>2. CASE Handle /\ ~ApMonitorStart
      <3>1. Grows(wait_queue, wait_queue', Informs)
        BY <2>2, HandleGrows DEF IInv, TypeOK
      <3>2. \A e \in Informs : e.evt # done
        BY DEF Informs, StartPairs
      <3> QED BY <3>1, <3>2
    <2>3. CASE ~Handle
      <3>1. Grows(wait_queue, wait_queue', {})
        BY <2>3, OtherTells DEF Task, Grows
      <3> QED BY <3>1
    <2>4. ApMonitorStart => Handle
      BY DEF Handle
    <2> QED BY <2>1, <2>2, <2>3, <2>4
  <1> QED BY <1>1 DEF Grows, TaskStep

\* One start, of a soft AP or of a monitor.
LEMMA OneStartTask ==
    ASSUME IInv, Task, NEW cmd, NEW done, <<cmd, done>> \in StartPairs,
           NEW waits, OneStart(cmd, done, waits)
    PROVE  OneStart(cmd, done, waits)'
  <1>1. PICK d \in {0, 1} : TaskStep(d)
    BY TaskSteps
  <1>2. todo' = todo
    BY TaskCalls
  <1>3. \A m \in Own : m.ev # cmd
    BY DEF Own, StartPairs
  <1>4. \A j \in 1..Len(queue') : queue'[j].ev = cmd =>
           j + d \in 1..Len(queue) /\ queue[j + d].ev = cmd
    BY <1>1, <1>3, CommandMoved DEF TaskStep
  <1>5. Pending(cmd)' => Pending(cmd)
    BY <1>4 DEF Pending, Has
  <1>6. \A i, j \in 1..Len(queue') :
           queue'[i].ev = cmd /\ queue'[j].ev = cmd => i = j
    <2> SUFFICES ASSUME NEW i \in 1..Len(queue'), NEW j \in 1..Len(queue'),
                        queue'[i].ev = cmd, queue'[j].ev = cmd
                 PROVE  i = j
      OBVIOUS
    <2>1. i + d = j + d
      BY <1>4 DEF OneStart
    <2>2. i \in Int /\ j \in Int /\ d \in Int
      OBVIOUS
    <2> QED BY <2>1, <2>2
  <1>7. ASSUME NEW i \in 1..Len(queue'), queue'[i].ev = cmd
        PROVE  None(Switches, i)'
    <2>1. i + d \in 1..Len(queue) /\ None(Switches, i + d)
      BY <1>4, <1>7 DEF OneStart
    <2>2. None(Switches, (i + d) - d)'
      BY <1>1, <2>1, NoneMoved, OwnSwitches DEF TaskStep
    <2>3. i + d - d = i
      OBVIOUS
    <2> QED BY <2>2, <2>3
  <1>8. CASE ApMonitorStart /\ Fetch(cmd)
    <2>1. PICK r \in {"SUCCESS", "FAIL"} :
             /\ wvif_type \in {"AP", "MONITOR"} /\ Fetch(StartCmd[wvif_type])
             /\ wait_queue' = Capped(wait_queue,
                                 WaitEvt(StartDone[wvif_type], r), WaitCap)
             /\ r = "SUCCESS" => sm_state' = STARTED
      BY <1>8, StartTells DEF IInv, TypeOK
    <2>2. d = 1 /\ 1 \in 1..Len(queue) /\ queue[1].ev = cmd
      BY <1>1, <1>8 DEF TaskStep, Handle, Fetch
    <2>3. ~Pending(cmd)'
      <3>1. ASSUME NEW j \in 1..Len(queue'), queue'[j].ev = cmd
            PROVE  FALSE
        <4>1. j + 1 = 1
          BY <1>4, <2>2, <3>1 DEF OneStart
        <4> QED BY <4>1
      <3> QED BY <3>1 DEF Pending, Has
    <2>4. todo \in waits /\ ~Answered(done)
      BY <2>2 DEF OneStart, Pending, Has
    <2>5. \A j \in 1..Len(wait_queue') :
             wait_queue'[j].evt = done => j = Len(wait_queue) + 1
      BY <1>1, <2>1, <2>4 DEF Capped, Answered, TaskStep
    <2>6. ASSUME NEW i \in 1..Len(wait_queue'),
                 wait_queue'[i] = WaitEvt(done, "SUCCESS")
          PROVE  Up'
      <3>1. i = Len(wait_queue) + 1
        BY <2>5, <2>6 DEF WaitEvt
      <3>2. r = "SUCCESS"
        BY <1>1, <2>1, <2>6, <3>1 DEF Capped, WaitEvt, TaskStep
      <3>3. wvif_type' = wvif_type
        BY <1>1, <1>8, <2>2
        DEF TaskStep, TypeMoved, Fetch, StartPairs
      <3>4. None(Switches, 1)
        BY <2>2 DEF OneStart
      <3>5. None(Switches, 1 - d)'
        BY <1>1, <3>4, NoneMoved, OwnSwitches DEF TaskStep
      <3>6. 1 - d = 0
        BY <2>2
      <3> QED BY <2>1, <3>2, <3>3, <3>5, <3>6 DEF Up
    <2>7. \A i, j \in 1..Len(wait_queue') :
             wait_queue'[i].evt = done /\ wait_queue'[j].evt = done => i = j
      BY <2>5
    <2> QED BY <1>2, <1>6, <1>7, <2>3, <2>4, <2>6, <2>7 DEF OneStart
  <1>9. CASE ~(ApMonitorStart /\ Fetch(cmd))
    <2>1. \A j \in 1..Len(wait_queue') : wait_queue'[j].evt = done =>
             j \in 1..Len(wait_queue) /\ wait_queue[j] = wait_queue'[j]
      BY <1>1, <1>9, NoStartAnswer
    <2>2. Answered(done)' => Answered(done)
      BY <2>1 DEF Answered
    <2>3. \A i, j \in 1..Len(wait_queue') :
             wait_queue'[i].evt = done /\ wait_queue'[j].evt = done => i = j
      BY <2>1 DEF OneStart
    <2>4. ASSUME NEW i \in 1..Len(wait_queue'),
                 wait_queue'[i] = WaitEvt(done, "SUCCESS")
          PROVE  Up'
      <3>1. Up
        BY <2>1, <2>4 DEF OneStart, WaitEvt
      <3> QED BY <1>1, <3>1, UpTask
    <2> QED BY <1>2, <1>5, <1>6, <1>7, <2>2, <2>3, <2>4 DEF OneStart
  <1> QED BY <1>8, <1>9

\* The steps of the task keep what is known of the two starts.
LEMMA StartTask ==
    ASSUME IInv, StartInv, Task
    PROVE  StartInv'
  <1> SUFFICES ASSUME ~late' PROVE StartInv'
    BY DEF StartInv
  <1>1. op' = op /\ ret' = ret /\ ~late
    BY TaskCalls
  <1>2. OneStart("START_AP_CMD", "AP_START_DONE", {WaitAp})'
    <2>1. OneStart("START_AP_CMD", "AP_START_DONE", {WaitAp})
      BY <1>1 DEF StartInv
    <2> QED BY <2>1, OneStartTask DEF StartPairs
  <1>3. OneStart("MONITOR_START_CMD", "MONITOR_START_DONE",
                 {FlushMonitor, WaitMonitor})'
    <2>1. OneStart("MONITOR_START_CMD", "MONITOR_START_DONE",
                   {FlushMonitor, WaitMonitor})
      BY <1>1 DEF StartInv
    <2> QED BY <2>1, OneStartTask DEF StartPairs
  <1>4. op \in {"ap_start", "monitor_start"} /\ ret = "0" => Up'
    BY <1>1, TaskSteps, UpTask DEF StartInv
  <1> QED BY <1>1, <1>2, <1>3, <1>4 DEF StartInv

\* Without hints to roam.
LEMMA QuietTask ==
    ASSUME IInv, Booted, QuietInv, Task, ~MacRoaming
    PROVE  QuietInv'
  <1>1. PICK d \in {0, 1} : TaskStep(d)
    BY TaskSteps
  <1>2. link_timers = 0 /\ ~polling_scan /\ ~preroam_start
    BY DEF QuietInv, Quiet
  <1>3. Quiet'
    <2>1. \A m \in Own : m.ev # "ROAMING_START"
      BY DEF Own
    <2>2. \A j \in 1..Len(queue') : queue'[j].ev # "ROAMING_START"
      BY <1>1, <2>1, CommandMoved
      DEF QuietInv, Quiet, Pending, Has, TaskStep
    <2>3. d = 1 => ~Fetch("ROAMING_START")
      BY <1>1 DEF QuietInv, Quiet, Pending, Has, Fetch, TaskStep, Moved
    <2>4. link_timers' = 0 /\ ~polling_scan' /\ ~preroam_start'
      <3>1. CASE d = 1
        <4>1. Handle
          BY <1>1, <3>1 DEF TaskStep
        <4> QED BY <1>2, <2>3, <3>1, <4>1, HandleQuiet
      <3>2. CASE d = 0
        <4>1. Timers \/ Mac
          BY <1>1, <3>2 DEF TaskStep
        <4> QED BY <1>2, <4>1, OtherQuiet
      <3> QED BY <3>1, <3>2
    <2> QED BY <2>2, <2>4 DEF Quiet, Pending, Has
  <1>4. op' = op /\ ret' = ret /\ todo' = todo
    BY TaskCalls
  <1>5. \A m \in Own : m.ev \notin Wakes
    BY <1>2, OwnSwitches
  <1>6. ASSUME NEW i \in 1..Len(queue), queue[i].ev = "DISCONNECT_CMD",
               None(Wakes, i)
        PROVE  LastsInv'
    <2>1. None(Wakes, i - d)'
      <3>1. Moved(d) /\ i \in Int
        BY <1>1 DEF TaskStep
      <3> QED BY <1>5, <1>6, <3>1, NoneMoved
    <2>2. CASE i > d
      <3>1. i - d \in 1..Len(queue') /\ queue'[i - d] = queue[i]
        BY <1>1, <2>2 DEF TaskStep, Moved
      <3> QED BY <1>6, <2>1, <3>1 DEF LastsInv
    <2>3. CASE i = d
      <3>1. d = 1 /\ Handle /\ Head(queue) = queue[1] /\ i - d = 0
        BY <1>1, <2>3 DEF TaskStep
      <3>2. Fetch("DISCONNECT_CMD")
        BY <1>6, <2>3, <3>1 DEF Fetch
      <3>3. wvif_type' = wvif_type
        BY <1>1, <3>1, <3>2 DEF TaskStep, TypeMoved, Fetch
      <3>4. sm_init
        BY <3>2 DEF Booted, Fetch
      <3>5. wvif_type = "STA" => sm_state' = IDLE
        BY <1>1, <3>1, <3>2, <3>4 DEF TaskStep, Machine
      <3> QED BY <2>1, <3>1, <3>3, <3>5 DEF LastsInv
    <2> QED BY <2>2, <2>3
  <1>7. ASSUME None(Wakes, 0), wvif_type = "STA" => sm_state = IDLE
        PROVE  LastsInv'
    <2>1. None(Wakes, 0 - d)'
      BY <1>1, <1>5, <1>7, NoneMoved DEF TaskStep
    <2>2. None(Wakes, 0)'
      BY <1>1, <2>1 DEF None, TaskStep
    <2>3. d = 1 => Head(queue).ev \notin Wakes
      BY <1>1, <1>7 DEF None, TaskStep, Moved
    <2>4. wvif_type' = wvif_type
      BY <1>1, <2>3 DEF TaskStep, TypeMoved, Fetch, Wakes
    <2>5. wvif_type = "STA" => sm_state' = IDLE
      <3>1. CASE d = 1
        BY <1>1, <1>7, <2>3, <3>1 DEF TaskStep, Machine
      <3>2. CASE d = 0
        <4>1. Timers \/ Mac
          BY <1>1, <3>2 DEF TaskStep
        <4> QED BY <1>7, <4>1, OtherMachine DEF IInv, Control
      <3> QED BY <3>1, <3>2
    <2> QED BY <2>2, <2>4, <2>5 DEF LastsInv
  <1>8. LastsInv'
    BY <1>4, <1>6, <1>7 DEF QuietInv, LastsInv
  <1> QED BY <1>3, <1>8 DEF QuietInv

-----------------------------------------------------------------------------
(* The stages of a call                                                     *)

\* At stage s the next step is a, and stage t is left.
Stage(s, a, t) == s # <<>> /\ Head(s) = a /\ Tail(s) = t

\* The steps, told apart by what they do.
LEMMA StepKinds ==
    /\ \A m : Post(m).do = "post" /\ Post(m).msg = m
    /\ \A m : Try(m).do = "try" /\ Try(m).msg = m
    /\ Flush.do = "flush"
    /\ \A b : Blocked(b).do = "blocked" /\ Blocked(b).flag = b
    /\ \A e : Wait(e).do = "wait" /\ Wait(e).evt = e
  BY DEF Post, Try, Flush, Blocked, Wait

\* A blocked connect.
LEMMA ConnStages ==
    /\ Stage(SwitchConn, Post(Switch("STA")), FlushConn)
    /\ Stage(FlushConn, Flush, SendConn)
    /\ Stage(SendConn, Post(Msg("CONNECT_CMD", "cfg_blocked")), WaitConn)
    /\ Stage(WaitConn, Wait("CONN_DONE"), <<>>)
  <1>1. Stage(SwitchConn, Post(Switch("STA")), FlushConn)
    BY DEF Stage, SwitchConn, FlushConn
  <1>2. Stage(FlushConn, Flush, SendConn)
    BY DEF Stage, FlushConn, SendConn
  <1>3. Stage(SendConn, Post(Msg("CONNECT_CMD", "cfg_blocked")), WaitConn)
    BY DEF Stage, SendConn, WaitConn
  <1>4. Stage(WaitConn, Wait("CONN_DONE"), <<>>)
    BY DEF Stage, WaitConn
  <1> QED BY <1>1, <1>2, <1>3, <1>4

\* A connect that does not wait.
LEMMA NowaitStages ==
    /\ Stage(SwitchNowait, Post(Switch("STA")), FlushNowait)
    /\ Stage(FlushNowait, Flush, SendNowait)
    /\ Stage(SendNowait, Post(Msg("CONNECT_CMD", "cfg_nowait")), <<>>)
  <1>1. Stage(SwitchNowait, Post(Switch("STA")), FlushNowait)
    BY DEF Stage, SwitchNowait, FlushNowait
  <1>2. Stage(FlushNowait, Flush, SendNowait)
    BY DEF Stage, FlushNowait, SendNowait
  <1>3. Stage(SendNowait, Post(Msg("CONNECT_CMD", "cfg_nowait")), <<>>)
    BY DEF Stage, SendNowait
  <1> QED BY <1>1, <1>2, <1>3

\* A disconnect.
LEMMA DisconnStages ==
    /\ Stage(FlushDisconn, Flush, SendDisconn)
    /\ Stage(SendDisconn, Post(Msg("DISCONNECT_CMD", "none")), WaitDisconn)
    /\ Stage(WaitDisconn, Wait("DISCONN_DONE"), <<>>)
  <1>1. Stage(FlushDisconn, Flush, SendDisconn)
    BY DEF Stage, FlushDisconn, SendDisconn
  <1>2. Stage(SendDisconn, Post(Msg("DISCONNECT_CMD", "none")), WaitDisconn)
    BY DEF Stage, SendDisconn, WaitDisconn
  <1>3. Stage(WaitDisconn, Wait("DISCONN_DONE"), <<>>)
    BY DEF Stage, WaitDisconn
  <1> QED BY <1>1, <1>2, <1>3

\* A scan.
LEMMA ScanStages ==
    /\ Stage(SendScan, Post(Msg("SCAN_CMD", "none")), FlushScan)
    /\ Stage(FlushScan, Flush, BlockScan)
    /\ Stage(BlockScan, Blocked(TRUE), WaitScan)
    /\ Stage(WaitScan, Wait("SCAN_DONE"), <<>>)
    /\ Stage(SendFreeScan, Post(Msg("SCAN_CMD", "none")), FlushFreeScan)
    /\ Stage(FlushFreeScan, Flush, FreeScan)
    /\ Stage(FreeScan, Blocked(FALSE), <<>>)
  <1>1. Stage(SendScan, Post(Msg("SCAN_CMD", "none")), FlushScan)
    <2> DEFINE b == Blocked(TRUE)
    <2>1. SendScan = <<Post(Msg("SCAN_CMD", "none")), Flush, b, Wait("SCAN_DONE")>>
      BY Zenon DEF SendScan
    <2>2. FlushScan = <<Flush, b, Wait("SCAN_DONE")>>
      BY Zenon DEF FlushScan
    <2> HIDE DEF b
    <2> QED BY <2>1, <2>2 DEF Stage
  <1>2. Stage(FlushScan, Flush, BlockScan)
    <2> DEFINE b == Blocked(TRUE)
    <2>1. FlushScan = <<Flush, b, Wait("SCAN_DONE")>>
      BY Zenon DEF FlushScan
    <2>2. BlockScan = <<b, Wait("SCAN_DONE")>>
      BY Zenon DEF BlockScan
    <2> HIDE DEF b
    <2> QED BY <2>1, <2>2 DEF Stage
  <1>3. Stage(BlockScan, Blocked(TRUE), WaitScan)
    <2> DEFINE b == Blocked(TRUE)
    <2>1. BlockScan = <<b, Wait("SCAN_DONE")>>
      BY Zenon DEF BlockScan
    <2>2. WaitScan = <<Wait("SCAN_DONE")>>
      BY Zenon DEF WaitScan
    <2>3. b = Blocked(TRUE)
      OBVIOUS
    <2> HIDE DEF b
    <2> QED BY <2>1, <2>2, <2>3 DEF Stage
  <1>4. Stage(WaitScan, Wait("SCAN_DONE"), <<>>)
    BY DEF Stage, WaitScan
  <1>5. Stage(SendFreeScan, Post(Msg("SCAN_CMD", "none")), FlushFreeScan)
    <2> DEFINE b == Blocked(FALSE)
    <2>1. SendFreeScan = <<Post(Msg("SCAN_CMD", "none")), Flush, b>>
      BY Zenon DEF SendFreeScan
    <2>2. FlushFreeScan = <<Flush, b>>
      BY Zenon DEF FlushFreeScan
    <2> HIDE DEF b
    <2> QED BY <2>1, <2>2 DEF Stage
  <1>6. Stage(FlushFreeScan, Flush, FreeScan)
    <2> DEFINE b == Blocked(FALSE)
    <2>1. FlushFreeScan = <<Flush, b>>
      BY Zenon DEF FlushFreeScan
    <2>2. FreeScan = <<b>>
      BY Zenon DEF FreeScan
    <2> HIDE DEF b
    <2> QED BY <2>1, <2>2 DEF Stage
  <1>7. Stage(FreeScan, Blocked(FALSE), <<>>)
    BY DEF Stage, FreeScan
  <1> QED BY <1>1, <1>2, <1>3, <1>4, <1>5, <1>6, <1>7

\* The start of a soft AP.
LEMMA ApStages ==
    /\ Stage(ApStart, Try(Switch("STA")), SwitchAp)
    /\ Stage(SwitchAp, Post(Switch("AP")), FlushAp)
    /\ Stage(FlushAp, Flush, SendAp)
    /\ Stage(SendAp, Post(Msg("START_AP_CMD", "none")), WaitAp)
    /\ Stage(WaitAp, Wait("AP_START_DONE"), <<>>)
  <1>1. Stage(ApStart, Try(Switch("STA")), SwitchAp)
    BY DEF Stage, ApStart, SwitchAp
  <1>2. Stage(SwitchAp, Post(Switch("AP")), FlushAp)
    BY DEF Stage, SwitchAp, FlushAp
  <1>3. Stage(FlushAp, Flush, SendAp)
    BY DEF Stage, FlushAp, SendAp
  <1>4. Stage(SendAp, Post(Msg("START_AP_CMD", "none")), WaitAp)
    BY DEF Stage, SendAp, WaitAp
  <1>5. Stage(WaitAp, Wait("AP_START_DONE"), <<>>)
    BY DEF Stage, WaitAp
  <1> QED BY <1>1, <1>2, <1>3, <1>4, <1>5

\* The start of a monitor.
LEMMA MonitorStages ==
    /\ Stage(StopMonitor, Post(Switch("STA")), SwitchMonitor)
    /\ Stage(SwitchMonitor, Post(Switch("MONITOR")), SendMonitor)
    /\ Stage(SendMonitor, Post(Msg("MONITOR_START_CMD", "none")), FlushMonitor)
    /\ Stage(FlushMonitor, Flush, WaitMonitor)
    /\ Stage(WaitMonitor, Wait("MONITOR_START_DONE"), <<>>)
  <1>1. Stage(StopMonitor, Post(Switch("STA")), SwitchMonitor)
    BY DEF Stage, StopMonitor, SwitchMonitor
  <1>2. Stage(SwitchMonitor, Post(Switch("MONITOR")), SendMonitor)
    BY DEF Stage, SwitchMonitor, SendMonitor
  <1>3. Stage(SendMonitor, Post(Msg("MONITOR_START_CMD", "none")), FlushMonitor)
    BY DEF Stage, SendMonitor, FlushMonitor
  <1>4. Stage(FlushMonitor, Flush, WaitMonitor)
    BY DEF Stage, FlushMonitor, WaitMonitor
  <1>5. Stage(WaitMonitor, Wait("MONITOR_START_DONE"), <<>>)
    BY DEF Stage, WaitMonitor
  <1> QED BY <1>1, <1>2, <1>3, <1>4, <1>5

\* ap_stop and sta_start.
LEMMA StopStage == Stage(StopAp, Post(Switch("STA")), <<>>)
  BY DEF Stage, StopAp

\* What posts, what it posts and what is left then; what flushes; what sets a
\* flag; what waits, for which answer.
PostAt(s, m, t) ==
    todo = s /\ Head(todo) \in {Post(m), Try(m)} /\ Tail(todo) = t
PostWalk ==
    \/ PostAt(SwitchConn, Switch("STA"), FlushConn)
    \/ PostAt(SendConn, Msg("CONNECT_CMD", "cfg_blocked"), WaitConn)
    \/ PostAt(SwitchNowait, Switch("STA"), FlushNowait)
    \/ PostAt(SendNowait, Msg("CONNECT_CMD", "cfg_nowait"), <<>>)
    \/ PostAt(SendDisconn, Msg("DISCONNECT_CMD", "none"), WaitDisconn)
    \/ PostAt(SendScan, Msg("SCAN_CMD", "none"), FlushScan)
    \/ PostAt(SendFreeScan, Msg("SCAN_CMD", "none"), FlushFreeScan)
    \/ PostAt(SwitchAp, Switch("AP"), FlushAp)
    \/ PostAt(SendAp, Msg("START_AP_CMD", "none"), WaitAp)
    \/ PostAt(StopMonitor, Switch("STA"), SwitchMonitor)
    \/ PostAt(SwitchMonitor, Switch("MONITOR"), SendMonitor)
    \/ PostAt(SendMonitor, Msg("MONITOR_START_CMD", "none"), FlushMonitor)
    \/ PostAt(StopAp, Switch("STA"), <<>>)
    \/ PostAt(ApStart, Switch("STA"), SwitchAp)

FlushAt(s, t) == todo = s /\ Head(todo) = Flush /\ Tail(todo) = t
FlushWalk ==
    \/ FlushAt(FlushConn, SendConn)
    \/ FlushAt(FlushNowait, SendNowait)
    \/ FlushAt(FlushDisconn, SendDisconn)
    \/ FlushAt(FlushScan, BlockScan)
    \/ FlushAt(FlushFreeScan, FreeScan)
    \/ FlushAt(FlushAp, SendAp)
    \/ FlushAt(FlushMonitor, WaitMonitor)

BlockAt(s, b, t) == todo = s /\ Head(todo) = Blocked(b) /\ Tail(todo) = t
BlockWalk == BlockAt(BlockScan, TRUE, WaitScan) \/ BlockAt(FreeScan, FALSE, <<>>)

WaitAt(s, e) == todo = s /\ Head(todo) = Wait(e) /\ Tail(todo) = <<>>
WaitWalk ==
    \/ WaitAt(WaitConn, "CONN_DONE")
    \/ WaitAt(WaitDisconn, "DISCONN_DONE")
    \/ WaitAt(WaitScan, "SCAN_DONE")
    \/ WaitAt(WaitAp, "AP_START_DONE")
    \/ WaitAt(WaitMonitor, "MONITOR_START_DONE")

\* These are all the stages.
LEMMA Walks ==
    ASSUME todo \in Todos, todo # <<>>
    PROVE  PostWalk \/ FlushWalk \/ BlockWalk \/ WaitWalk
  <1>1. CASE todo \in ConnTodos
    <2>1. CASE todo = SwitchConn
      BY <2>1, ConnStages, Zenon DEF Stage, PostAt, PostWalk
    <2>2. CASE todo = FlushConn
      BY <2>2, ConnStages, Zenon DEF Stage, FlushAt, FlushWalk
    <2>3. CASE todo = SendConn
      BY <2>3, ConnStages, Zenon DEF Stage, PostAt, PostWalk
    <2>4. CASE todo = WaitConn
      BY <2>4, ConnStages, Zenon DEF Stage, WaitAt, WaitWalk
    <2> QED BY <1>1, <2>1, <2>2, <2>3, <2>4 DEF ConnTodos
  <1>2. CASE todo \in NowaitTodos
    <2>1. CASE todo = SwitchNowait
      BY <2>1, NowaitStages, Zenon DEF Stage, PostAt, PostWalk
    <2>2. CASE todo = FlushNowait
      BY <2>2, NowaitStages, Zenon DEF Stage, FlushAt, FlushWalk
    <2>3. CASE todo = SendNowait
      BY <2>3, NowaitStages, Zenon DEF Stage, PostAt, PostWalk
    <2> QED BY <1>2, <2>1, <2>2, <2>3 DEF NowaitTodos
  <1>3. CASE todo \in DisconnTodos
    <2>1. CASE todo = FlushDisconn
      BY <2>1, DisconnStages, Zenon DEF Stage, FlushAt, FlushWalk
    <2>2. CASE todo = SendDisconn
      BY <2>2, DisconnStages, Zenon DEF Stage, PostAt, PostWalk
    <2>3. CASE todo = WaitDisconn
      BY <2>3, DisconnStages, Zenon DEF Stage, WaitAt, WaitWalk
    <2> QED BY <1>3, <2>1, <2>2, <2>3 DEF DisconnTodos
  <1>4. CASE todo \in ScanTodos
    <2>1. CASE todo = SendScan
      BY <2>1, ScanStages, Zenon DEF Stage, PostAt, PostWalk
    <2>2. CASE todo = FlushScan
      BY <2>2, ScanStages, Zenon DEF Stage, FlushAt, FlushWalk
    <2>3. CASE todo = BlockScan
      BY <2>3, ScanStages, Zenon DEF Stage, BlockAt, BlockWalk
    <2>4. CASE todo = WaitScan
      BY <2>4, ScanStages, Zenon DEF Stage, WaitAt, WaitWalk
    <2>5. CASE todo = SendFreeScan
      BY <2>5, ScanStages, Zenon DEF Stage, PostAt, PostWalk
    <2>6. CASE todo = FlushFreeScan
      BY <2>6, ScanStages, Zenon DEF Stage, FlushAt, FlushWalk
    <2>7. CASE todo = FreeScan
      BY <2>7, ScanStages, Zenon DEF Stage, BlockAt, BlockWalk
    <2> QED BY <1>4, <2>1, <2>2, <2>3, <2>4, <2>5, <2>6, <2>7 DEF ScanTodos
  <1>5. CASE todo \in ApTodos
    <2>1. CASE todo = ApStart
      BY <2>1, ApStages, Zenon DEF Stage, PostAt, PostWalk
    <2>2. CASE todo = SwitchAp
      BY <2>2, ApStages, Zenon DEF Stage, PostAt, PostWalk
    <2>3. CASE todo = FlushAp
      BY <2>3, ApStages, Zenon DEF Stage, FlushAt, FlushWalk
    <2>4. CASE todo = SendAp
      BY <2>4, ApStages, Zenon DEF Stage, PostAt, PostWalk
    <2>5. CASE todo = WaitAp
      BY <2>5, ApStages, Zenon DEF Stage, WaitAt, WaitWalk
    <2> QED BY <1>5, <2>1, <2>2, <2>3, <2>4, <2>5 DEF ApTodos
  <1>6. CASE todo \in MonitorTodos
    <2>1. CASE todo = StopMonitor
      BY <2>1, MonitorStages, Zenon DEF Stage, PostAt, PostWalk
    <2>2. CASE todo = SwitchMonitor
      BY <2>2, MonitorStages, Zenon DEF Stage, PostAt, PostWalk
    <2>3. CASE todo = SendMonitor
      BY <2>3, MonitorStages, Zenon DEF Stage, PostAt, PostWalk
    <2>4. CASE todo = FlushMonitor
      BY <2>4, MonitorStages, Zenon DEF Stage, FlushAt, FlushWalk
    <2>5. CASE todo = WaitMonitor
      BY <2>5, MonitorStages, Zenon DEF Stage, WaitAt, WaitWalk
    <2> QED BY <1>6, <2>1, <2>2, <2>3, <2>4, <2>5 DEF MonitorTodos
  <1>7. CASE todo = StopAp
    BY <1>7, StopStage DEF Stage, PostAt, PostWalk
  <1> QED BY <1>1, <1>2, <1>3, <1>4, <1>5, <1>6, <1>7 DEF Todos

\* Which of them posts, flushes, sets a flag or waits.
LEMMA StepWalks ==
    ASSUME todo \in Todos
    PROVE  /\ At("post") \/ At("try") => PostWalk
           /\ At("flush") => FlushWalk
           /\ At("blocked") => BlockWalk
           /\ At("wait") => WaitWalk
  <1> DEFINE k == Head(todo).do
  <1>1. PostWalk => k \in {"post", "try"}
    BY StepKinds DEF PostWalk, PostAt
  <1>2. FlushWalk => k = "flush"
    BY StepKinds DEF FlushWalk, FlushAt
  <1>3. BlockWalk => k = "blocked"
    BY StepKinds, Zenon DEF BlockWalk, BlockAt
  <1>4. WaitWalk => k = "wait"
    BY StepKinds DEF WaitWalk, WaitAt
  <1> QED BY <1>1, <1>2, <1>3, <1>4, Walks DEF At

\* The next step of every stage.
LEMMA Heads ==
    /\ Head(SwitchConn) = Post(Switch("STA"))
    /\ Head(FlushConn) = Flush
    /\ Head(SendConn) = Post(Msg("CONNECT_CMD", "cfg_blocked"))
    /\ Head(WaitConn) = Wait("CONN_DONE")
    /\ Head(SwitchNowait) = Post(Switch("STA"))
    /\ Head(FlushNowait) = Flush
    /\ Head(SendNowait) = Post(Msg("CONNECT_CMD", "cfg_nowait"))
    /\ Head(FlushDisconn) = Flush
    /\ Head(SendDisconn) = Post(Msg("DISCONNECT_CMD", "none"))
    /\ Head(WaitDisconn) = Wait("DISCONN_DONE")
    /\ Head(SendScan) = Post(Msg("SCAN_CMD", "none"))
    /\ Head(FlushScan) = Flush
    /\ Head(WaitScan) = Wait("SCAN_DONE")
    /\ Head(SendFreeScan) = Post(Msg("SCAN_CMD", "none"))
    /\ Head(FlushFreeScan) = Flush
    /\ Head(ApStart) = Try(Switch("STA"))
    /\ Head(SwitchAp) = Post(Switch("AP"))
    /\ Head(FlushAp) = Flush
    /\ Head(SendAp) = Post(Msg("START_AP_CMD", "none"))
    /\ Head(WaitAp) = Wait("AP_START_DONE")
    /\ Head(StopMonitor) = Post(Switch("STA"))
    /\ Head(SwitchMonitor) = Post(Switch("MONITOR"))
    /\ Head(SendMonitor) = Post(Msg("MONITOR_START_CMD", "none"))
    /\ Head(FlushMonitor) = Flush
    /\ Head(WaitMonitor) = Wait("MONITOR_START_DONE")
    /\ Head(StopAp) = Post(Switch("STA"))
    /\ Head(BlockScan).do = "blocked" /\ Head(FreeScan).do = "blocked"
  <1>1. Head(BlockScan) = Blocked(TRUE) /\ Head(FreeScan) = Blocked(FALSE)
    BY ScanStages, Zenon DEF Stage
  <1>2. Head(BlockScan).do = "blocked" /\ Head(FreeScan).do = "blocked"
    BY <1>1, StepKinds, Zenon
  <1> QED
    BY <1>2, ConnStages, NowaitStages, DisconnStages, ScanStages, ApStages,
       MonitorStages, StopStage
    DEF Stage

\* The stages the invariants are about are no others.
Unwatched == {StopAp, SwitchConn, SwitchNowait, FlushNowait, SendNowait,
              FlushDisconn, SendDisconn, SendScan, FlushScan, BlockScan,
              WaitScan, SendFreeScan, FlushFreeScan, FreeScan, ApStart,
              StopMonitor, SwitchMonitor, SendMonitor}
Watched == {FlushConn, SendConn, WaitConn, WaitDisconn, SwitchAp, FlushAp,
            SendAp, WaitAp, FlushMonitor, WaitMonitor}

\* ... by its kind, and what is left after a flush.
LEMMA Kinds ==
    /\ <<>> \notin Watched \cup Unwatched
    /\ \A s \in {SwitchConn, SendConn, SwitchNowait, SendNowait,
                 SendDisconn, SendScan, SendFreeScan, SwitchAp, SendAp,
                 StopMonitor, SwitchMonitor, SendMonitor, StopAp} :
          Head(s).do = "post"
    /\ \A s \in {ApStart} :
          Head(s).do = "try"
    /\ \A s \in {FlushConn, FlushNowait, FlushDisconn, FlushScan,
                 FlushFreeScan, FlushAp, FlushMonitor} :
          Head(s).do = "flush"
    /\ \A s \in {BlockScan, FreeScan} :
          Head(s).do = "blocked"
    /\ \A s \in {WaitConn, WaitDisconn, WaitScan, WaitAp, WaitMonitor} :
          Head(s).do = "wait"
  <1>1. <<>> \notin Watched \cup Unwatched
    BY ConnStages, NowaitStages, DisconnStages, ScanStages, ApStages,
       MonitorStages, StopStage, Zenon DEF Stage, Watched, Unwatched
  <1>2. /\ \A s \in {SwitchConn, SendConn, SwitchNowait, SendNowait,
                     SendDisconn, SendScan, SendFreeScan, SwitchAp, SendAp,
                     StopMonitor, SwitchMonitor, SendMonitor, StopAp} :
              Head(s).do = "post"
        /\ \A s \in {ApStart} :
              Head(s).do = "try"
        /\ \A s \in {FlushConn, FlushNowait, FlushDisconn, FlushScan,
                     FlushFreeScan, FlushAp, FlushMonitor} :
              Head(s).do = "flush"
        /\ \A s \in {BlockScan, FreeScan} :
              Head(s).do = "blocked"
        /\ \A s \in {WaitConn, WaitDisconn, WaitScan, WaitAp, WaitMonitor} :
              Head(s).do = "wait"
    BY Heads, StepKinds
  <1> QED BY <1>1, <1>2

\* What is left of a stage after its first step, where that is a flush.
LEMMA Tails ==
    /\ Tail(FlushConn) = SendConn
    /\ Tail(FlushNowait) = SendNowait
    /\ Tail(FlushDisconn) = SendDisconn
    /\ Tail(FlushScan) = BlockScan
    /\ Tail(FlushFreeScan) = FreeScan
    /\ Tail(FlushAp) = SendAp
    /\ Tail(FlushMonitor) = WaitMonitor
  BY ConnStages, NowaitStages, DisconnStages, ScanStages, ApStages,
     MonitorStages, Zenon DEF Stage

\* ... told apart by their next steps, or by the one after a flush.
LEMMA StagesApart ==
    /\ WaitConn \notin {<<>>} \cup Unwatched
    /\ WaitDisconn \notin {<<>>} \cup Unwatched
    /\ WaitAp \notin {<<>>} \cup Unwatched
    /\ WaitMonitor \notin {<<>>} \cup Unwatched
    /\ SendConn \notin {<<>>} \cup Unwatched
    /\ SendAp \notin {<<>>} \cup Unwatched
    /\ SwitchAp \notin {<<>>} \cup Unwatched
    /\ FlushConn \notin {<<>>} \cup Unwatched
    /\ FlushAp \notin {<<>>} \cup Unwatched
    /\ FlushMonitor \notin {<<>>} \cup Unwatched
  <1>1. WaitConn \notin {<<>>} \cup Unwatched
    <2>1. WaitConn \notin {WaitScan}
      BY Heads, StepKinds DEF Msg, Switch
    <2> QED BY <2>1, Kinds DEF Watched, Unwatched
  <1>2. WaitDisconn \notin {<<>>} \cup Unwatched
    <2>1. WaitDisconn \notin {WaitScan}
      BY Heads, StepKinds DEF Msg, Switch
    <2> QED BY <2>1, Kinds DEF Watched, Unwatched
  <1>3. WaitAp \notin {<<>>} \cup Unwatched
    <2>1. WaitAp \notin {WaitScan}
      BY Heads, StepKinds DEF Msg, Switch
    <2> QED BY <2>1, Kinds DEF Watched, Unwatched
  <1>4. WaitMonitor \notin {<<>>} \cup Unwatched
    <2>1. WaitMonitor \notin {WaitScan}
      BY Heads, StepKinds DEF Msg, Switch
    <2> QED BY <2>1, Kinds DEF Watched, Unwatched
  <1>5. SendConn \notin {<<>>} \cup Unwatched
    <2>1. SendConn \notin {SwitchConn, SwitchNowait, SendNowait,
                           SendDisconn, SendScan, SendFreeScan,
                           StopMonitor, SwitchMonitor, SendMonitor, StopAp}
      BY Heads, StepKinds DEF Msg, Switch
    <2> QED BY <2>1, Kinds DEF Watched, Unwatched
  <1>6. SendAp \notin {<<>>} \cup Unwatched
    <2>1. SendAp \notin {SwitchConn, SwitchNowait, SendNowait, SendDisconn,
                         SendScan, SendFreeScan, StopMonitor,
                         SwitchMonitor, SendMonitor, StopAp}
      BY Heads, StepKinds DEF Msg, Switch
    <2> QED BY <2>1, Kinds DEF Watched, Unwatched
  <1>7. SwitchAp \notin {<<>>} \cup Unwatched
    <2>1. SwitchAp \notin {SwitchConn, SwitchNowait, SendNowait,
                           SendDisconn, SendScan, SendFreeScan,
                           StopMonitor, SwitchMonitor, SendMonitor, StopAp}
      BY Heads, StepKinds DEF Msg, Switch
    <2> QED BY <2>1, Kinds DEF Watched, Unwatched
  <1>8. FlushConn \notin {<<>>} \cup Unwatched
    <2>1. FlushConn \notin {FlushNowait, FlushDisconn, FlushScan,
                            FlushFreeScan}
      BY <1>5, Tails DEF Unwatched
    <2> QED BY <2>1, Kinds DEF Watched, Unwatched
  <1>9. FlushAp \notin {<<>>} \cup Unwatched
    <2>1. FlushAp \notin {FlushNowait, FlushDisconn, FlushScan,
                          FlushFreeScan}
      BY <1>6, Tails DEF Unwatched
    <2> QED BY <2>1, Kinds DEF Watched, Unwatched
  <1>10. FlushMonitor \notin {<<>>} \cup Unwatched
    <2>1. FlushMonitor \notin {FlushNowait, FlushDisconn, FlushScan,
                               FlushFreeScan}
      BY <1>4, Tails DEF Unwatched
    <2> QED BY <2>1, Kinds DEF Watched, Unwatched
  <1> QED BY <1>1, <1>2, <1>3, <1>4, <1>5, <1>6, <1>7, <1>8, <1>9, <1>10

\* ... and from each other.
LEMMA WatchedApart ==
    /\ WaitConn \notin {WaitDisconn, WaitAp, WaitMonitor, SendConn, SendAp,
                        SwitchAp, FlushConn, FlushAp, FlushMonitor}
    /\ WaitDisconn \notin {WaitAp, WaitMonitor, SendConn, SendAp, SwitchAp,
                           FlushConn, FlushAp, FlushMonitor}
    /\ WaitAp \notin {WaitMonitor, SendConn, SendAp, SwitchAp, FlushConn,
                      FlushAp, FlushMonitor}
    /\ WaitMonitor \notin {SendConn, SendAp, SwitchAp, FlushConn, FlushAp,
                           FlushMonitor}
    /\ SendConn \notin {SendAp, SwitchAp, FlushConn, FlushAp, FlushMonitor}
    /\ SendAp \notin {SwitchAp, FlushConn, FlushAp, FlushMonitor}
    /\ SwitchAp \notin {FlushConn, FlushAp, FlushMonitor}
    /\ FlushConn \notin {FlushAp, FlushMonitor}
    /\ FlushAp \notin {FlushMonitor}
  <1>1. /\ WaitConn \notin {WaitDisconn, WaitAp, WaitMonitor}
        /\ WaitDisconn \notin {WaitAp, WaitMonitor}
        /\ WaitAp # WaitMonitor
    BY Heads, StepKinds
  <1>2. SendConn \notin {SendAp, SwitchAp} /\ SendAp # SwitchAp
    BY Heads, StepKinds DEF Msg, Switch
  <1>3. FlushConn \notin {FlushAp, FlushMonitor} /\ FlushAp # FlushMonitor
    <2>1. SendConn \notin {SendAp, WaitMonitor} /\ SendAp # WaitMonitor
      BY <1>2, Kinds
    <2> QED BY <2>1, Tails
  <1> QED BY <1>1, <1>2, <1>3, Kinds

\* A call goes on with its own stages.
LEMMA TodosClosed ==
    ASSUME todo \in Todos, todo # <<>>
    PROVE  /\ Tail(todo) \in Todos
           /\ \A G \in {ApTodos, MonitorTodos, DisconnTodos} :
                 todo \in G => Tail(todo) \in G \cup {<<>>}
  <1>1. ASSUME todo \in ConnTodos PROVE Tail(todo) \in ConnTodos \cup {<<>>}
    BY <1>1, ConnStages DEF ConnTodos, Stage
  <1>2. ASSUME todo \in NowaitTodos PROVE Tail(todo) \in NowaitTodos \cup {<<>>}
    BY <1>2, NowaitStages DEF NowaitTodos, Stage
  <1>3. ASSUME todo \in DisconnTodos PROVE Tail(todo) \in DisconnTodos \cup {<<>>}
    BY <1>3, DisconnStages DEF DisconnTodos, Stage
  <1>4. ASSUME todo \in ScanTodos PROVE Tail(todo) \in ScanTodos \cup {<<>>}
    BY <1>4, ScanStages, Zenon DEF ScanTodos, Stage
  <1>5. ASSUME todo \in ApTodos PROVE Tail(todo) \in ApTodos \cup {<<>>}
    BY <1>5, ApStages DEF ApTodos, Stage
  <1>6. ASSUME todo \in MonitorTodos PROVE Tail(todo) \in MonitorTodos \cup {<<>>}
    BY <1>6, MonitorStages DEF MonitorTodos, Stage
  <1>7. ASSUME todo = StopAp PROVE Tail(todo) = <<>>
    BY <1>7, StopStage DEF Stage
  <1> QED BY <1>1, <1>2, <1>3, <1>4, <1>5, <1>6, <1>7 DEF Todos

\* What a post of one of the watched stages, or of a start, is.
LEMMA PostLeads ==
    ASSUME PostWalk
    PROVE  LET m == Head(todo).msg
               t == Tail(todo) IN
           /\ m \in Msgs
           /\ m.ev \notin {"INIT", "ROAMING_START"}
           /\ t = FlushConn => m = Switch("STA")
           /\ t = WaitConn =>
                 todo = SendConn /\ m = Msg("CONNECT_CMD", "cfg_blocked")
           /\ t = WaitDisconn => m.ev = "DISCONNECT_CMD"
           /\ t = SwitchAp => m = Switch("STA")
           /\ t = FlushAp => todo = SwitchAp /\ m = Switch("AP")
           /\ t = WaitAp => todo = SendAp /\ m.ev = "START_AP_CMD"
           /\ t \notin {SendConn, SendAp, WaitMonitor}
           /\ t = <<>> => todo \in {StopAp, SendNowait}
           /\ m.ev = "START_AP_CMD" => t = WaitAp
           /\ m.ev = "MONITOR_START_CMD" => t = FlushMonitor
           /\ todo \notin {WaitDisconn, WaitAp, FlushMonitor, WaitMonitor}
  <1>1. CASE PostAt(SwitchConn, Switch("STA"), FlushConn)
    <2>1. todo = SwitchConn /\ Head(todo).msg = Switch("STA") /\ Tail(todo) = FlushConn
      BY <1>1, StepKinds DEF PostAt
    <2>2. Switch("STA") \in Msgs /\ Switch("STA").ev = "SWITCH_MODE_CMD"
      BY MsgType DEF Events, Args, Types, Switch
    <2> QED BY <2>1, <2>2, StagesApart, WatchedApart, Kinds DEF Watched, Unwatched
  <1>2. CASE PostAt(SendConn, Msg("CONNECT_CMD", "cfg_blocked"), WaitConn)
    <2>1. todo = SendConn /\ Head(todo).msg = Msg("CONNECT_CMD", "cfg_blocked") /\ Tail(todo) = WaitConn
      BY <1>2, StepKinds DEF PostAt
    <2>2. Msg("CONNECT_CMD", "cfg_blocked") \in Msgs /\ Msg("CONNECT_CMD", "cfg_blocked").ev = "CONNECT_CMD"
      BY MsgType DEF Events, Args, Types, Switch
    <2> QED BY <2>1, <2>2, StagesApart, WatchedApart, Kinds DEF Watched, Unwatched
  <1>3. CASE PostAt(SwitchNowait, Switch("STA"), FlushNowait)
    <2>1. todo = SwitchNowait /\ Head(todo).msg = Switch("STA") /\ Tail(todo) = FlushNowait
      BY <1>3, StepKinds DEF PostAt
    <2>2. Switch("STA") \in Msgs /\ Switch("STA").ev = "SWITCH_MODE_CMD"
      BY MsgType DEF Events, Args, Types, Switch
    <2> QED BY <2>1, <2>2, StagesApart, WatchedApart, Kinds DEF Watched, Unwatched
  <1>4. CASE PostAt(SendNowait, Msg("CONNECT_CMD", "cfg_nowait"), <<>>)
    <2>1. todo = SendNowait /\ Head(todo).msg = Msg("CONNECT_CMD", "cfg_nowait") /\ Tail(todo) = <<>>
      BY <1>4, StepKinds DEF PostAt
    <2>2. Msg("CONNECT_CMD", "cfg_nowait") \in Msgs /\ Msg("CONNECT_CMD", "cfg_nowait").ev = "CONNECT_CMD"
      BY MsgType DEF Events, Args, Types, Switch
    <2> QED BY <2>1, <2>2, StagesApart, WatchedApart, Kinds DEF Watched, Unwatched
  <1>5. CASE PostAt(SendDisconn, Msg("DISCONNECT_CMD", "none"), WaitDisconn)
    <2>1. todo = SendDisconn /\ Head(todo).msg = Msg("DISCONNECT_CMD", "none") /\ Tail(todo) = WaitDisconn
      BY <1>5, StepKinds DEF PostAt
    <2>2. Msg("DISCONNECT_CMD", "none") \in Msgs /\ Msg("DISCONNECT_CMD", "none").ev = "DISCONNECT_CMD"
      BY MsgType DEF Events, Args, Types, Switch
    <2> QED BY <2>1, <2>2, StagesApart, WatchedApart, Kinds DEF Watched, Unwatched
  <1>6. CASE PostAt(SendScan, Msg("SCAN_CMD", "none"), FlushScan)
    <2>1. todo = SendScan /\ Head(todo).msg = Msg("SCAN_CMD", "none") /\ Tail(todo) = FlushScan
      BY <1>6, StepKinds DEF PostAt
    <2>2. Msg("SCAN_CMD", "none") \in Msgs /\ Msg("SCAN_CMD", "none").ev = "SCAN_CMD"
      BY MsgType DEF Events, Args, Types, Switch
    <2> QED BY <2>1, <2>2, StagesApart, WatchedApart, Kinds DEF Watched, Unwatched
  <1>7. CASE PostAt(SendFreeScan, Msg("SCAN_CMD", "none"), FlushFreeScan)
    <2>1. todo = SendFreeScan /\ Head(todo).msg = Msg("SCAN_CMD", "none") /\ Tail(todo) = FlushFreeScan
      BY <1>7, StepKinds DEF PostAt
    <2>2. Msg("SCAN_CMD", "none") \in Msgs /\ Msg("SCAN_CMD", "none").ev = "SCAN_CMD"
      BY MsgType DEF Events, Args, Types, Switch
    <2> QED BY <2>1, <2>2, StagesApart, WatchedApart, Kinds DEF Watched, Unwatched
  <1>8. CASE PostAt(SwitchAp, Switch("AP"), FlushAp)
    <2>1. todo = SwitchAp /\ Head(todo).msg = Switch("AP") /\ Tail(todo) = FlushAp
      BY <1>8, StepKinds DEF PostAt
    <2>2. Switch("AP") \in Msgs /\ Switch("AP").ev = "SWITCH_MODE_CMD"
      BY MsgType DEF Events, Args, Types, Switch
    <2> QED BY <2>1, <2>2, StagesApart, WatchedApart, Kinds DEF Watched, Unwatched
  <1>9. CASE PostAt(SendAp, Msg("START_AP_CMD", "none"), WaitAp)
    <2>1. todo = SendAp /\ Head(todo).msg = Msg("START_AP_CMD", "none") /\ Tail(todo) = WaitAp
      BY <1>9, StepKinds DEF PostAt
    <2>2. Msg("START_AP_CMD", "none") \in Msgs /\ Msg("START_AP_CMD", "none").ev = "START_AP_CMD"
      BY MsgType DEF Events, Args, Types, Switch
    <2> QED BY <2>1, <2>2, StagesApart, WatchedApart, Kinds DEF Watched, Unwatched
  <1>10. CASE PostAt(StopMonitor, Switch("STA"), SwitchMonitor)
    <2>1. todo = StopMonitor /\ Head(todo).msg = Switch("STA") /\ Tail(todo) = SwitchMonitor
      BY <1>10, StepKinds DEF PostAt
    <2>2. Switch("STA") \in Msgs /\ Switch("STA").ev = "SWITCH_MODE_CMD"
      BY MsgType DEF Events, Args, Types, Switch
    <2> QED BY <2>1, <2>2, StagesApart, WatchedApart, Kinds DEF Watched, Unwatched
  <1>11. CASE PostAt(SwitchMonitor, Switch("MONITOR"), SendMonitor)
    <2>1. todo = SwitchMonitor /\ Head(todo).msg = Switch("MONITOR") /\ Tail(todo) = SendMonitor
      BY <1>11, StepKinds DEF PostAt
    <2>2. Switch("MONITOR") \in Msgs /\ Switch("MONITOR").ev = "SWITCH_MODE_CMD"
      BY MsgType DEF Events, Args, Types, Switch
    <2> QED BY <2>1, <2>2, StagesApart, WatchedApart, Kinds DEF Watched, Unwatched
  <1>12. CASE PostAt(SendMonitor, Msg("MONITOR_START_CMD", "none"), FlushMonitor)
    <2>1. todo = SendMonitor /\ Head(todo).msg = Msg("MONITOR_START_CMD", "none") /\ Tail(todo) = FlushMonitor
      BY <1>12, StepKinds DEF PostAt
    <2>2. Msg("MONITOR_START_CMD", "none") \in Msgs /\ Msg("MONITOR_START_CMD", "none").ev = "MONITOR_START_CMD"
      BY MsgType DEF Events, Args, Types, Switch
    <2> QED BY <2>1, <2>2, StagesApart, WatchedApart, Kinds DEF Watched, Unwatched
  <1>13. CASE PostAt(StopAp, Switch("STA"), <<>>)
    <2>1. todo = StopAp /\ Head(todo).msg = Switch("STA") /\ Tail(todo) = <<>>
      BY <1>13, StepKinds DEF PostAt
    <2>2. Switch("STA") \in Msgs /\ Switch("STA").ev = "SWITCH_MODE_CMD"
      BY MsgType DEF Events, Args, Types, Switch
    <2> QED BY <2>1, <2>2, StagesApart, WatchedApart, Kinds DEF Watched, Unwatched
  <1>14. CASE PostAt(ApStart, Switch("STA"), SwitchAp)
    <2>1. todo = ApStart /\ Head(todo).msg = Switch("STA") /\ Tail(todo) = SwitchAp
      BY <1>14, StepKinds DEF PostAt
    <2>2. Switch("STA") \in Msgs /\ Switch("STA").ev = "SWITCH_MODE_CMD"
      BY MsgType DEF Events, Args, Types, Switch
    <2> QED BY <2>1, <2>2, StagesApart, WatchedApart, Kinds DEF Watched, Unwatched
  <1> QED BY <1>1, <1>2, <1>3, <1>4, <1>5, <1>6, <1>7, <1>8, <1>9, <1>10,
             <1>11, <1>12, <1>13, <1>14 DEF PostWalk

\* Joins of short sequences.
LEMMA Join31 ==
    ASSUME NEW a, NEW b, NEW c, NEW d
    PROVE  <<a, b, c>> \o <<d>> = <<a, b, c, d>>
  <1> DEFINE S == {a, b, c, d}
             s == <<a, b, c>> \o <<d>>
  <1>1. <<a, b, c>> \in Seq(S) /\ <<d>> \in Seq(S) /\ <<a, b, c, d>> \in Seq(S)
    OBVIOUS
  <1>2. /\ s \in Seq(S) /\ Len(s) = 4
        /\ \A i \in 1..4 : s[i] = <<a, b, c, d>>[i]
    BY <1>1, ConcatProperties
  <1> QED BY <1>1, <1>2, SeqEqual

\* Sequences written out, joined: one element before four.
LEMMA Join14 ==
    ASSUME NEW a, NEW b, NEW c, NEW d, NEW e
    PROVE  <<a>> \o <<b, c, d, e>> = <<a, b, c, d, e>>
  <1> DEFINE S == {a, b, c, d, e}
             s == <<a>> \o <<b, c, d, e>>
  <1>1. /\ <<a>> \in Seq(S) /\ <<b, c, d, e>> \in Seq(S)
        /\ <<a, b, c, d, e>> \in Seq(S)
    OBVIOUS
  <1>2. /\ s \in Seq(S) /\ Len(s) = 5
        /\ \A i \in 1..5 : s[i] = <<a, b, c, d, e>>[i]
    BY <1>1, ConcatProperties
  <1> QED BY <1>1, <1>2, SeqEqual

\* None before four.
LEMMA Join04 ==
    ASSUME NEW a, NEW b, NEW c, NEW d
    PROVE  <<>> \o <<a, b, c, d>> = <<a, b, c, d>>
  <1> DEFINE S == {a, b, c, d}
  <1>1. <<a, b, c, d>> \in Seq(S)
    OBVIOUS
  <1> QED BY <1>1, ConcatEmptySeq

\* The first stage of every function.
LEMMA FirstStages ==
    ASSUME NEW f \in Functions
    PROVE  /\ Steps(f) \in {<<>>, StopAp, SwitchConn, SwitchNowait, FlushDisconn,
                            SendScan, SendFreeScan, ApStart, StopMonitor,
                            SwitchMonitor}
           /\ f = "ap_start" => Steps(f) = ApStart
           /\ f = "monitor_start" => Steps(f) \in {StopMonitor, SwitchMonitor}
           /\ f = "disconnect" => Steps(f) \in {<<>>, FlushDisconn}
  <1>1. CASE f \in {"connect", "connect_with_bssid"}
    <2>1. Steps(f) = Connect("cfg_blocked") \o <<Wait("CONN_DONE")>>
      BY <1>1, Zenon DEF Steps
    <2>2. Steps(f) = SwitchConn
      BY <2>1, Join31 DEF Connect, SwitchConn
    <2> QED BY <1>1, <2>2
  <1>2. CASE f = "connect_nowait"
    BY <1>2, Zenon DEF Steps, Connect, SwitchNowait
  <1>3. CASE f = "disconnect"
    BY <1>3, Zenon DEF Steps, Disconnect, FlushDisconn
  <1>4. CASE f = "scan"
    BY <1>4, Zenon DEF Steps, SendScan
  <1>5. CASE f = "scan_nowait"
    BY <1>5, Zenon DEF Steps, SendFreeScan
  <1>6. CASE f = "ap_start"
    BY <1>6, Zenon DEF Steps
  <1>7. CASE f \in {"ap_stop", "sta_start"}
    BY <1>7, Zenon DEF Steps, StopAp
  <1>8. CASE f = "monitor_start"
    <2>1. Steps(f) = (IF wvif_type = "MONITOR" THEN StopAp ELSE <<>>)
                     \o SwitchMonitor
      BY <1>8, Zenon DEF Steps, StopAp, SwitchMonitor
    <2>2. StopAp \o SwitchMonitor = StopMonitor
      BY Join14 DEF StopAp, SwitchMonitor, StopMonitor
    <2>3. <<>> \o SwitchMonitor = SwitchMonitor
      BY Join04 DEF SwitchMonitor
    <2> QED BY <1>8, <2>1, <2>2, <2>3
  <1> QED BY <1>1, <1>2, <1>3, <1>4, <1>5, <1>6, <1>7, <1>8 DEF Functions

-----------------------------------------------------------------------------
(* Steps of the caller                                                      *)

\* A caller leaves the machine, its timers and the MAC alone.
Held == UNCHANGED <<wvif_type, sm_init, sm_state, retry_count,
                    delayed_connect_retry, dhcp_polling_count, preroam_enable,
                    preroam_start, preroam_bk, polling_scan, conn_blocked,
                    retry_timers, dhcp_timers, link_timers, mac_type,
                    mac_scan, mac_link, mac_late>>

\* What it does, as the invariants see it: begin a call; post a message, or
\* find the queue full; find mgmt_wait_queue empty, or throw an event away;
\* set scan_blocked; take the answer; give up.
Called ==
    /\ todo = <<>> /\ todo' \in {<<>>} \cup Unwatched /\ ret' # "0"
    /\ UNCHANGED <<queue, dropped, wait_queue, late>>

Posted ==
    /\ PostWalk /\ todo' = Tail(todo) /\ queue' = Append(queue, Head(todo).msg)
    /\ ret' = "0" => Tail(todo) = <<>>
    /\ UNCHANGED <<dropped, wait_queue, op, late, crowded>>

Failed ==
    /\ PostWalk /\ ret' # "0"
    /\ \/ todo' = <<>> /\ dropped' = dropped
       \/ todo' = SwitchAp /\ dropped'
    /\ UNCHANGED <<queue, wait_queue, op, late, crowded>>

Flushed ==
    /\ FlushWalk /\ todo' = Tail(todo) /\ ret' # "0" /\ wait_queue = <<>>
    /\ UNCHANGED <<queue, dropped, wait_queue, op, late, crowded>>

Thrown ==
    /\ wait_queue # <<>> /\ wait_queue' = Tail(wait_queue)
    /\ todo # <<>> /\ \A e : Waiting(e) => Head(wait_queue).evt # e
    /\ UNCHANGED <<queue, dropped, todo, ret, op, late, crowded>>

Marked ==
    /\ BlockWalk /\ todo' \in {WaitScan, <<>>}
    /\ ret' = "0" => Tail(todo) = <<>>
    /\ UNCHANGED <<queue, dropped, wait_queue, op, late, crowded>>

Taken ==
    /\ WaitWalk /\ todo' = <<>>
    /\ wait_queue # <<>> /\ wait_queue' = Tail(wait_queue)
    /\ Head(wait_queue).evt = Head(todo).evt
    /\ ret' = "0" => Head(wait_queue).reason = "SUCCESS"
    /\ UNCHANGED <<queue, dropped, op, late, crowded>>

GivenUp ==
    /\ WaitWalk /\ todo' \in {<<>>, FlushDisconn} /\ ret' # "0" /\ late'
    /\ UNCHANGED <<queue, dropped, wait_queue>>

\* These are all.
LEMMA CallerSteps ==
    ASSUME CallShape, Caller
    PROVE  /\ Held
           /\ \/ Called \/ Posted \/ Failed \/ Flushed
              \/ Thrown \/ Marked \/ Taken \/ GivenUp
  <1>1. todo \in Todos /\ (todo # <<>> => ret # "0")
    BY DEF CallShape
  <1>2. CASE Call
    <2>1. PICK f \in Ops : /\ op' = f /\ todo' = Steps(f)
                           /\ ret' = IF Steps(f) = <<>> THEN "NOT_STA" ELSE "none"
      BY <1>2 DEF Call
    <2>2. f \in Functions
      BY OpsAssumption DEF OpsAssumption
    <2>3. todo' \in {<<>>} \cup Unwatched
      BY <2>1, <2>2, FirstStages DEF Unwatched
    <2>4. ret' # "0"
      BY <2>1
    <2> QED BY <1>2, <2>3, <2>4
            DEF Call, Held, Called, smVars, roamVars, blockVars, timerVars,
                qVars, macVars
  <1>3. CASE CallPost
    <2>1. PostWalk /\ todo # <<>> /\ ret # "0"
      BY <1>1, <1>3, StepWalks DEF CallPost, At
    <2>2. Held /\ wait_queue' = wait_queue
      BY <1>3
      DEF CallPost, Held, smVars, roamVars, blockVars, timerVars, macVars
    <2>3. CASE /\ Len(queue) < QueueCap
               /\ queue' = Append(queue, Head(todo).msg) /\ UNCHANGED dropped
               /\ Advance("0")
      <3>1. ret' = "0" => Tail(todo) = <<>>
        BY <2>1, <2>3 DEF Advance
      <3> QED BY <2>1, <2>2, <2>3, <3>1 DEF Advance, histVars, Posted
    <2>4. CASE /\ Len(queue) >= QueueCap /\ At("post")
               /\ UNCHANGED qVars /\ Return("ERROR")
      <3>1. ret' # "0"
        BY <2>1, <2>4 DEF Return
      <3> QED BY <2>1, <2>2, <2>4, <3>1 DEF Return, histVars, qVars, Failed
    <2>5. CASE /\ Len(queue) >= QueueCap /\ At("try")
               /\ UNCHANGED queue /\ dropped' = TRUE /\ Advance("0")
      <3>1. todo = ApStart
        BY <2>1, <2>5, Kinds DEF At, PostWalk, PostAt
      <3>2. Tail(todo) = SwitchAp
        BY <3>1, ApStages DEF Stage
      <3>3. todo' = SwitchAp /\ SwitchAp # <<>> /\ ret' # "0"
        BY <2>1, <2>5, <3>2, ApStages DEF Stage, Advance
      <3> QED BY <2>1, <2>2, <2>5, <3>3, Zenon DEF Advance, histVars, Failed
    <2> QED BY <1>3, <2>3, <2>4, <2>5 DEF CallPost
  <1>4. CASE CallFlush
    <2>1. FlushWalk /\ todo # <<>> /\ ret # "0"
      BY <1>1, <1>4, StepWalks DEF CallFlush, At
    <2>2. Held /\ UNCHANGED <<queue, dropped>>
      BY <1>4
      DEF CallFlush, Held, smVars, roamVars, blockVars, timerVars, macVars,
          qVars
    <2>3. CASE wait_queue = <<>> /\ Advance("0") /\ UNCHANGED wait_queue
      <3>1. Tail(todo) # <<>>
        BY <2>1, Kinds, StagesApart
        DEF FlushWalk, FlushAt, Watched, Unwatched
      <3>2. ret' # "0"
        BY <2>1, <2>3, <3>1 DEF Advance
      <3> QED BY <2>1, <2>2, <2>3, <3>2 DEF Advance, histVars, Flushed
    <2>4. CASE /\ wait_queue # <<>> /\ wait_queue' = Tail(wait_queue)
               /\ UNCHANGED <<callVars, histVars>>
      <3>1. \A e : ~Waiting(e)
        BY <1>4 DEF CallFlush, Waiting, At
      <3> QED BY <2>1, <2>2, <2>4, <3>1 DEF callVars, histVars, Thrown
    <2> QED BY <1>4, <2>3, <2>4 DEF CallFlush
  <1>5. CASE CallBlocked
    <2>1. BlockWalk /\ todo # <<>> /\ ret # "0"
      BY <1>1, <1>5, StepWalks DEF CallBlocked, At
    <2>2. Held /\ UNCHANGED <<queue, dropped, wait_queue>> /\ Advance("0")
      BY <1>5
      DEF CallBlocked, Held, smVars, roamVars, timerVars, macVars, qVars
    <2>3. todo' \in {WaitScan, <<>>}
      BY <2>1, <2>2, Zenon DEF BlockWalk, BlockAt, Advance
    <2>4. ret' = "0" => Tail(todo) = <<>>
      BY <2>1, <2>2 DEF Advance
    <2> QED BY <2>1, <2>2, <2>3, <2>4 DEF Advance, histVars, Marked
  <1>6. CASE CallFetch
    <2>1. WaitWalk /\ todo # <<>> /\ ret # "0"
      BY <1>1, <1>6, StepWalks DEF CallFetch, At
    <2>2. Held /\ UNCHANGED <<queue, dropped>>
      BY <1>6
      DEF CallFetch, Held, smVars, roamVars, blockVars, timerVars, macVars,
          qVars
    <2>3. CASE Head(wait_queue).evt # Head(todo).evt
      BY <1>6, <2>1, <2>2, <2>3
      DEF CallFetch, Waiting, callVars, histVars, Thrown
    <2>4. CASE Head(wait_queue).evt = Head(todo).evt
      <3>1. Advance(IF Head(wait_queue).reason = "SUCCESS" THEN "0" ELSE "FAIL")
        BY <1>6, <2>4 DEF CallFetch
      <3>2. Tail(todo) = <<>>
        BY <2>1 DEF WaitWalk, WaitAt
      <3>3. todo' = <<>> /\ (ret' = "0" => Head(wait_queue).reason = "SUCCESS")
        BY <2>1, <3>1, <3>2 DEF Advance
      <3>4. UNCHANGED <<op, late, crowded>>
        BY <3>1 DEF Advance, histVars
      <3> QED BY <1>6, <2>1, <2>2, <2>4, <3>3, <3>4 DEF CallFetch, Taken
    <2> QED BY <2>3, <2>4
  <1>7. CASE CallTimeout
    <2>1. WaitWalk /\ todo # <<>> /\ ret # "0"
      BY <1>1, <1>7, StepWalks DEF CallTimeout, At
    <2>2. Held /\ UNCHANGED <<queue, dropped, wait_queue>>
      BY <1>7
      DEF CallTimeout, Held, vars, smVars, roamVars, blockVars, timerVars,
          macVars, qVars
    <2>3. Steps("disconnect") \in {<<>>, FlushDisconn}
      BY FirstStages DEF Functions
    <2>4. todo' \in {<<>>, FlushDisconn} /\ ret' # "0"
      BY <1>7, <2>1, <2>3 DEF CallTimeout
    <2>5. late'
      BY <1>7, Zenon DEF CallTimeout
    <2> QED BY <2>1, <2>2, <2>4, <2>5, Zenon DEF GivenUp
  <1> QED BY <1>2, <1>3, <1>4, <1>5, <1>6, <1>7 DEF Caller

\* The types of what a caller changes.
LEMMA CallerTypes ==
    ASSUME IInv, CallShape, Caller
    PROVE  /\ Moves(queue) /\ wait_queue' \in Seq(WaitEvts)
           /\ scan_blocked' \in BOOLEAN /\ cmds' \in Nat /\ inds' = inds
  <1> USE DEF IInv, TypeOK, FieldType, QueueType
  <1>1. scan_blocked \in BOOLEAN /\ dropped \in BOOLEAN
    BY DEF FlagType
  <1>2. CASE Call
    BY <1>1, <1>2 DEF Call, Moves, NoSend, blockVars, qVars
  <1>3. CASE CallPost
    <2>1. PostWalk
      BY <1>3, StepWalks DEF CallPost, CallShape
    <2>2. PICK m \in Msgs : m = Head(todo).msg
      BY <2>1, PostLeads
    <2>3. Len(queue) \in Nat /\ QueueCap \in Nat
      BY LimitsAssumption DEF LimitsAssumption
    <2>4. Moves(queue)
      <3>1. CASE Len(queue) < QueueCap /\ queue' = Append(queue, m)
                 /\ UNCHANGED dropped
        <4>1. queue' = Capped(queue, m, QueueCap)
          BY <3>1 DEF Capped
        <4>2. dropped' = (dropped \/ Len(queue) >= QueueCap)
          BY <3>1, <2>3, <1>1
        <4> QED BY <4>1, <4>2 DEF Moves, Send
      <3>2. CASE UNCHANGED qVars
        BY <3>2 DEF Moves, NoSend, qVars
      <3>3. CASE Len(queue) >= QueueCap /\ UNCHANGED queue /\ dropped' = TRUE
        <4>1. queue' = Capped(queue, m, QueueCap)
          BY <3>3, <2>3 DEF Capped
        <4>2. dropped' = (dropped \/ Len(queue) >= QueueCap)
          BY <3>3
        <4> QED BY <4>1, <4>2 DEF Moves, Send
      <3> QED BY <1>3, <2>2, <3>1, <3>2, <3>3 DEF CallPost
    <2> QED BY <1>1, <1>3, <2>4 DEF CallPost, blockVars, envVars
  <1>4. CASE CallFlush
    BY <1>1, <1>4 DEF CallFlush, Moves, NoSend, blockVars, qVars, envVars
  <1>5. CASE CallBlocked
    <2>1. BlockWalk
      BY <1>5, StepWalks DEF CallBlocked, CallShape
    <2>2. Head(todo).flag \in BOOLEAN
      BY <2>1, StepKinds, Zenon DEF BlockWalk, BlockAt
    <2> QED BY <1>5, <2>2 DEF CallBlocked, Moves, NoSend, qVars, envVars
  <1>6. CASE CallFetch
    BY <1>1, <1>6 DEF CallFetch, Moves, NoSend, blockVars, qVars, envVars
  <1>7. CASE CallTimeout
    BY <1>1, <1>7 DEF CallTimeout, Moves, NoSend, vars, blockVars, qVars, envVars
  <1> QED BY <1>2, <1>3, <1>4, <1>5, <1>6, <1>7 DEF Caller

\* The invariant of the task: it waits for nothing a caller can take away.
LEMMA CallerIInv ==
    ASSUME IInv, CallShape, Caller
    PROVE  IInv'
  <1>1. Held
    BY CallerSteps
  <1>2. /\ Moves(queue) /\ wait_queue' \in Seq(WaitEvts)
        /\ scan_blocked' \in BOOLEAN /\ cmds' \in Nat /\ inds' = inds
    BY CallerTypes
  <1>3. queue \in Seq(Msgs) /\ dropped \in BOOLEAN
    BY DEF IInv, TypeOK, QueueType, FlagType
  <1>4. /\ queue' \in Seq(Msgs) /\ (dropped => dropped')
        /\ \A e : Pending(e) => Pending(e)'
    BY <1>2, <1>3, MovesKeep DEF Pending
  <1>5. dropped' \in BOOLEAN
    BY <1>2, <1>3, Zenon DEF Moves, NoSend, Send
  <1>6. QueueType'
    BY <1>2, <1>4 DEF QueueType
  <1>7. FlagType'
    BY <1>1, <1>2, <1>5 DEF IInv, TypeOK, FlagType, Held
  <1>8. Control'
    BY <1>1, <1>2
    DEF IInv, Control, FieldType, StateOfMachine, RetryTimerInv, DhcpTimerInv,
        LinkTimerInv, NoLinkWhenIdle, StartedOnMac, Held
  <1>9. NotStranded'
    BY <1>1, <1>4
    DEF IInv, NotStranded, ScanNotStranded, ConnectNotStranded,
        HandshakeNotStranded, DhcpNotStranded, Held
  <1> QED BY <1>6, <1>7, <1>8, <1>9 DEF IInv, TypeOK, Control

-----------------------------------------------------------------------------
(* Positions behind the last message                                        *)

\* The queue after a post: the message is where the end was.
Posting(m) ==
    /\ queue \in Seq(Msgs) /\ m \in Msgs /\ queue' = Append(queue, m)
    /\ UNCHANGED <<wvif_type, sm_state>>

\* The messages that were there stay at their places.
LEMMA PostingKeeps ==
    ASSUME NEW m, Posting(m)
    PROVE  /\ queue' \in Seq(Msgs)
           /\ Len(queue) \in Nat /\ Len(queue') = Len(queue) + 1
           /\ \A k \in 1..Len(queue) : queue'[k] = queue[k]
           /\ queue'[Len(queue) + 1] = m
  BY DEF Posting

\* Places up to the old end stay free of the events they were free of.
LEMMA FreePosting ==
    ASSUME NEW m, Posting(m), NEW E, NEW i \in Int, NEW j \in Int,
           j <= Len(queue) + 1, Free(E, i, j)
    PROVE  Free(E, i, j)'
  <1> SUFFICES ASSUME NEW k \in 1..Len(queue'), i < k, k < j
               PROVE  queue'[k].ev \notin E
    BY DEF Free
  <1>1. k \in 1..Len(queue) /\ queue'[k] = queue[k]
    BY PostingKeeps
  <1> QED BY <1>1 DEF Free

\* What the places up to the end were reached with is what they are.
LEMMA TypeAtPosting ==
    ASSUME NEW m, Posting(m), NEW t, NEW i \in Int, i <= Len(queue) + 1,
           TypeAt(t, i)
    PROVE  TypeAt(t, i)'
  <1>1. CASE wvif_type = t /\ Free(Switches, 0, i)
    <2>1. Free(Switches, 0, i)'
      BY <1>1, FreePosting
    <2> QED BY <1>1, <2>1 DEF TypeAt, Posting
  <1>2. ASSUME NEW k \in 1..Len(queue), k < i, queue[k] = Switch(t),
               Free(Switches, k, i)
        PROVE  TypeAt(t, i)'
    <2>1. Free(Switches, k, i)'
      BY <1>2, FreePosting
    <2>2. k \in 1..Len(queue') /\ queue'[k] = queue[k]
      BY PostingKeeps
    <2> QED BY <1>2, <2>1, <2>2 DEF TypeAt, Switch, Msg
  <1> QED BY <1>1, <1>2 DEF TypeAt

\* Nor does the post disturb a soft AP that is ready at an earlier place.
LEMMA ApReadyPosting ==
    ASSUME NEW m, Posting(m), NEW i \in Int, i <= Len(queue) + 1, ApReadyAt(i)
    PROVE  ApReadyAt(i)'
  <1>1. CASE wvif_type = "AP" /\ sm_state = INIT /\ Free(ApNews, 0, i)
    <2>1. Free(ApNews, 0, i)'
      BY <1>1, FreePosting
    <2> QED BY <1>1, <2>1 DEF ApReadyAt, Posting
  <1>2. ASSUME NEW k \in 1..Len(queue), NEW t \in Types \ {"AP"}, k < i,
               queue[k] = Switch("AP"), Free(ApNews, k, i), TypeAt(t, k)
        PROVE  ApReadyAt(i)'
    <2>1. Free(ApNews, k, i)'
      BY <1>2, FreePosting
    <2>2. k \in 1..Len(queue') /\ queue'[k] = queue[k]
      BY PostingKeeps
    <2>3. TypeAt(t, k)'
      <3>1. k \in Int /\ k <= Len(queue) + 1
        BY PostingKeeps
      <3> QED BY <1>2, <3>1, TypeAtPosting
    <2> QED BY <1>2, <2>1, <2>2, <2>3 DEF ApReadyAt, Switch, Msg
  <1> QED BY <1>1, <1>2 DEF ApReadyAt

\* After a switch the interface will be of its type, and a soft AP that was a
\* station will wait to be started.
LEMMA SwitchPosting ==
    ASSUME NEW t, Posting(Switch(t))
    PROVE  /\ EndsAs(t)'
           /\ t = "AP" /\ EndsAs("STA") => EndsApReady'
  <1> DEFINE n == Len(queue) + 1
  <1>1. /\ n \in 1..Len(queue') /\ n \in Int /\ queue'[n] = Switch(t)
        /\ Len(queue') + 1 = n + 1
    BY PostingKeeps
  <1>2. \A E : Free(E, n, n + 1)'
    BY <1>1, PostingKeeps DEF Free
  <1>3. PICK i, j \in Int : i = n /\ j = n + 1
    BY <1>1
  <1> HIDE DEF n
  <1>4. TypeAt(t, j)'
    <2>1. Free(Switches, i, j)'
      BY <1>2, <1>3 DEF Free
    <2>2. i \in 1..Len(queue') /\ queue'[i] = Switch(t) /\ i < j
      BY <1>1, <1>3
    <2> QED BY <2>1, <2>2 DEF TypeAt, Switch, Msg
  <1>5. ASSUME t = "AP", EndsAs("STA")
        PROVE  ApReadyAt(j)'
    <2>1. TypeAt("STA", i)
      BY <1>3, <1>5 DEF EndsAs, n
    <2>2. TypeAt("STA", i)'
      BY <1>3, <2>1, TypeAtPosting DEF n
    <2>3. i \in 1..Len(queue') /\ queue'[i] = Switch("AP") /\ i < j
      BY <1>1, <1>3, <1>5
    <2>4. Free(ApNews, i, j)'
      BY <1>2, <1>3 DEF Free
    <2> QED BY <2>2, <2>3, <2>4 DEF ApReadyAt, Types, Switch, Msg
  <1>6. j = Len(queue)' + 1
    BY <1>1, <1>3
  <1> QED BY <1>4, <1>5, <1>6 DEF EndsAs, EndsApReady, TypeAt, ApReadyAt, Free

-----------------------------------------------------------------------------
(* The invariant and the steps of a caller                                  *)

\* Nothing changed of what the positions are about.
Unmoved == UNCHANGED <<queue, wvif_type, sm_state>>

\* Then everything said of places and ends is as it was.
LEMMA UnmovedKeeps ==
    ASSUME Unmoved
    PROVE  /\ \A t, i : TypeAt(t, i)' <=> TypeAt(t, i)
           /\ \A i : ApReadyAt(i)' <=> ApReadyAt(i)
           /\ \A t : EndsAs(t)' <=> EndsAs(t)
           /\ EndsApReady' <=> EndsApReady
           /\ \A E, i : None(E, i)' <=> None(E, i)
           /\ \A i : NoneForgets(i)' <=> NoneForgets(i)
           /\ \A e : Pending(e)' <=> Pending(e)
  <1>1. \A E, i, j : Free(E, i, j)' <=> Free(E, i, j)
    BY DEF Unmoved, Free
  <1>2. \A t, i : TypeAt(t, i)' <=> TypeAt(t, i)
    BY <1>1 DEF Unmoved, TypeAt
  <1>3. \A i : ApReadyAt(i)' <=> ApReadyAt(i)
    BY <1>1, <1>2 DEF Unmoved, ApReadyAt
  <1>4. /\ \A t : EndsAs(t)' <=> EndsAs(t)
        /\ EndsApReady' <=> EndsApReady
    BY <1>2, <1>3 DEF Unmoved, EndsAs, EndsApReady
  <1> QED BY <1>2, <1>3, <1>4
          DEF Unmoved, None, NoneForgets, Pending, Has

\* An event that is thrown away takes no other's place.
LEMMA TailAnswers ==
    ASSUME wait_queue \in Seq(WaitEvts), wait_queue # <<>>,
           wait_queue' = Tail(wait_queue)
    PROVE  /\ \A i \in 1..Len(wait_queue') :
                 /\ i + 1 \in 1..Len(wait_queue)
                 /\ wait_queue'[i] = wait_queue[i + 1]
           /\ \A e : Answered(e)' => Answered(e)
           /\ \A e : Answered(e) /\ Head(wait_queue).evt # e => Answered(e)'
  <1>1. \A i \in 1..Len(wait_queue') :
           /\ i + 1 \in 1..Len(wait_queue)
           /\ wait_queue'[i] = wait_queue[i + 1]
    OBVIOUS
  <1>2. ASSUME NEW e, Answered(e), Head(wait_queue).evt # e
        PROVE  Answered(e)'
    <2>1. PICK i \in 1..Len(wait_queue) : wait_queue[i].evt = e
      BY <1>2 DEF Answered
    <2>2. i # 1
      BY <1>2, <2>1
    <2>3. i - 1 \in 1..Len(wait_queue') /\ wait_queue'[i - 1] = wait_queue[i]
      BY <2>2
    <2> QED BY <2>1, <2>3 DEF Answered
  <1>3. \A e : Answered(e)' => Answered(e)
    BY <1>1 DEF Answered
  <1> QED BY <1>1, <1>2, <1>3

\* The machine boots by itself.
LEMMA BootedCaller ==
    ASSUME IInv, CallShape, Booted, Caller
    PROVE  Booted'
  <1>1. UNCHANGED <<sm_init, wvif_type>>
    BY CallerSteps DEF Held
  <1>2. queue \in Seq(Msgs)
    BY DEF IInv, TypeOK, QueueType
  <1>3. Fetch("INIT") => Fetch("INIT")'
    <2>1. CASE queue' = queue
      BY <2>1 DEF Fetch
    <2>2. CASE Posted
      <3>1. PICK m \in Msgs : queue' = Append(queue, m)
        BY <2>2, PostLeads DEF Posted
      <3>2. queue # <<>> => queue' # <<>> /\ Head(queue') = Head(queue)
        BY <1>2, <3>1
      <3> QED BY <3>2 DEF Fetch
    <2> QED BY <2>1, <2>2, CallerSteps
            DEF Called, Failed, Flushed, Thrown, Marked, Taken, GivenUp
  <1> QED BY <1>1, <1>3 DEF Booted

\* A call goes through its own stages, and its result comes last.
LEMMA ShapeCaller ==
    ASSUME CallShape, Caller
    PROVE  CallShape'
  <1>1. /\ todo \in Todos /\ <<>> \in Todos
        /\ todo # <<>> => ret # "0"
        /\ op = "ap_start" => todo \in ApTodos \cup {<<>>}
        /\ op = "monitor_start" => todo \in MonitorTodos \cup {<<>>}
        /\ op = "disconnect" => todo \in DisconnTodos \cup {<<>>}
    BY DEF CallShape, Todos
  <1>2. CASE Call
    <2>1. PICK f \in Ops : /\ op' = f /\ todo' = Steps(f)
                           /\ ret' = IF Steps(f) = <<>> THEN "NOT_STA" ELSE "none"
      BY <1>2 DEF Call
    <2>2. f \in Functions
      BY OpsAssumption DEF OpsAssumption
    <2>3. /\ Steps(f) \in {<<>>, StopAp, SwitchConn, SwitchNowait, FlushDisconn,
                           SendScan, SendFreeScan, ApStart, StopMonitor,
                           SwitchMonitor}
          /\ f = "ap_start" => Steps(f) = ApStart
          /\ f = "monitor_start" => Steps(f) \in {StopMonitor, SwitchMonitor}
          /\ f = "disconnect" => Steps(f) \in {<<>>, FlushDisconn}
      BY <2>2, FirstStages
    <2>4. todo' \in Todos
      BY <2>1, <2>3
      DEF Todos, ConnTodos, NowaitTodos, DisconnTodos, ScanTodos, ApTodos,
          MonitorTodos
    <2>5. /\ op' = "ap_start" => todo' \in ApTodos
          /\ op' = "monitor_start" => todo' \in MonitorTodos
          /\ op' = "disconnect" => todo' \in DisconnTodos \cup {<<>>}
      BY <2>1, <2>3 DEF ApTodos, MonitorTodos, DisconnTodos
    <2>6. ret' # "0"
      BY <2>1
    <2> QED BY <2>4, <2>5, <2>6 DEF CallShape
  <1>3. ASSUME todo # <<>>, op' = op,
               todo' \in {todo, Tail(todo), <<>>},
               ret' = "0" => todo' = <<>>
        PROVE  CallShape'
    <2>1. /\ Tail(todo) \in Todos
          /\ \A G \in {ApTodos, MonitorTodos, DisconnTodos} :
                todo \in G => Tail(todo) \in G \cup {<<>>}
      BY <1>1, <1>3, TodosClosed
    <2>2. /\ todo \in ApTodos => Tail(todo) \in ApTodos \cup {<<>>}
          /\ todo \in MonitorTodos => Tail(todo) \in MonitorTodos \cup {<<>>}
          /\ todo \in DisconnTodos => Tail(todo) \in DisconnTodos \cup {<<>>}
      BY <2>1
    <2> QED BY <1>1, <1>3, <2>1, <2>2 DEF CallShape
  <1>4. CASE CallPost \/ CallFlush \/ CallBlocked \/ CallFetch
    <2>1. todo # <<>> /\ ret # "0"
      BY <1>1, <1>4 DEF CallPost, CallFlush, CallBlocked, CallFetch, At
    <2>2. /\ op' = op /\ todo' \in {todo, Tail(todo), <<>>}
          /\ ret' = "0" => todo' = <<>>
      <3>1. \/ \E r : Advance(r) \/ Return("ERROR")
            \/ UNCHANGED <<callVars, histVars>>
        BY <1>4 DEF CallPost, CallFlush, CallBlocked, CallFetch
      <3>2. ASSUME NEW r, Advance(r)
            PROVE  /\ op' = op /\ todo' \in {todo, Tail(todo), <<>>}
                   /\ ret' = "0" => todo' = <<>>
        BY <2>1, <3>2 DEF Advance
      <3>3. CASE Return("ERROR")
        BY <2>1, <3>3 DEF Return
      <3>4. CASE UNCHANGED <<callVars, histVars>>
        BY <2>1, <3>4 DEF callVars
      <3> QED BY <3>1, <3>2, <3>3, <3>4
    <2> QED BY <1>3, <2>1, <2>2
  <1>5. CASE CallTimeout
    <2>1. todo # <<>> /\ ret # "0" /\ op' = op
      BY <1>1, <1>5 DEF CallTimeout, At
    <2>2. ret' # "0"
      BY <1>5, <2>1 DEF CallTimeout
    <2>3. CASE todo' = <<>>
      BY <1>3, <2>1, <2>2, <2>3
    <2>4. CASE todo' # <<>>
      <3>1. op = "connect" /\ todo' = Steps("disconnect")
        BY <1>5, <2>4 DEF CallTimeout
      <3>2. todo' \in DisconnTodos
        BY <2>4, <3>1, FirstStages DEF Functions, DisconnTodos
      <3> QED BY <2>1, <2>2, <3>1, <3>2 DEF CallShape, Todos
    <2> QED BY <2>3, <2>4
  <1> QED BY <1>2, <1>4, <1>5 DEF Caller

\* Nothing is claimed of a call that is over or has not sent its command.
LEMMA UnwatchedCaller ==
    ASSUME todo' \in {<<>>} \cup Unwatched
    PROVE  ConnInv' /\ DisconnInv' /\ ApInv'
  <1>1. todo' \notin {FlushConn, SendConn, WaitConn, WaitDisconn, SwitchAp,
                      FlushAp, SendAp, WaitAp}
    BY StagesApart
  <1> QED BY <1>1 DEF ConnInv, DisconnInv, ApInv

\* Most steps of a caller lead to such a stage.
LEMMA Calm ==
    ASSUME Called \/ Marked \/ Taken \/ GivenUp
    PROVE  todo' \in {<<>>} \cup Unwatched
  BY DEF Called, Marked, Taken, GivenUp, Unwatched

\* What is left after a flush was a stage with the same promise.
LEMMA FlushLeads ==
    ASSUME FlushWalk
    PROVE  /\ Tail(todo) \notin {FlushConn, WaitConn, WaitDisconn, SwitchAp,
                                 FlushAp, WaitAp, FlushMonitor}
           /\ Tail(todo) = SendConn => todo = FlushConn
           /\ Tail(todo) = SendAp => todo = FlushAp
           /\ Tail(todo) = WaitMonitor => todo = FlushMonitor
           /\ todo = FlushMonitor => Tail(todo) = WaitMonitor
           /\ todo \notin {WaitConn, WaitDisconn, WaitAp, WaitMonitor}
  <1>1. CASE FlushAt(FlushConn, SendConn)
    BY <1>1, StagesApart, WatchedApart DEF FlushAt
  <1>2. CASE FlushAt(FlushNowait, SendNowait)
    BY <1>2, StagesApart DEF FlushAt, Unwatched
  <1>3. CASE FlushAt(FlushDisconn, SendDisconn)
    BY <1>3, StagesApart DEF FlushAt, Unwatched
  <1>4. CASE FlushAt(FlushScan, BlockScan)
    BY <1>4, StagesApart DEF FlushAt, Unwatched
  <1>5. CASE FlushAt(FlushFreeScan, FreeScan)
    BY <1>5, StagesApart DEF FlushAt, Unwatched
  <1>6. CASE FlushAt(FlushAp, SendAp)
    BY <1>6, StagesApart, WatchedApart DEF FlushAt
  <1>7. CASE FlushAt(FlushMonitor, WaitMonitor)
    BY <1>7, StagesApart, WatchedApart DEF FlushAt
  <1> QED BY <1>1, <1>2, <1>3, <1>4, <1>5, <1>6, <1>7 DEF FlushWalk

\* Who waits for what.
LEMMA Waits ==
    /\ todo = WaitConn => Waiting("CONN_DONE")
    /\ todo = WaitDisconn => Waiting("DISCONN_DONE")
    /\ todo = WaitAp => Waiting("AP_START_DONE")
    /\ todo = WaitMonitor => Waiting("MONITOR_START_DONE")
  <1>1. /\ WaitConn # <<>> /\ WaitDisconn # <<>>
        /\ WaitAp # <<>> /\ WaitMonitor # <<>>
    BY StagesApart
  <1> QED BY <1>1, Heads, StepKinds DEF Waiting, At

\* The post of a stage is a post in the sense of positions.
LEMMA PostedPosting ==
    ASSUME IInv, Held, Posted
    PROVE  Posting(Head(todo).msg)
  BY PostLeads DEF IInv, TypeOK, QueueType, Held, Posted, Posting

\* A blocked connect.
LEMMA ConnCaller ==
    ASSUME IInv, CallShape, ConnInv, Caller
    PROVE  ConnInv'
  <1>1. Held
    BY CallerSteps
  <1>2. queue \in Seq(Msgs) /\ wait_queue \in Seq(WaitEvts)
    BY DEF IInv, TypeOK, QueueType
  <1>3. CASE Posted
    <2> DEFINE m == Head(todo).msg
               n == Len(queue) + 1
    <2>1. /\ Posting(m) /\ todo' = Tail(todo) /\ crowded' = crowded
          /\ n \in 1..Len(queue') /\ n \in Int /\ Len(queue') = n
          /\ queue'[n] = m
      BY <1>1, <1>3, PostedPosting, PostingKeeps DEF Posted
    <2>2. /\ todo' = FlushConn => m = Switch("STA")
          /\ todo' # SendConn
          /\ todo' = WaitConn =>
                todo = SendConn /\ m = Msg("CONNECT_CMD", "cfg_blocked")
      BY <1>3, <2>1, PostLeads DEF Posted
    <2>3. todo' = FlushConn => EndsAs("STA")'
      BY <2>1, <2>2, SwitchPosting
    <2>4. ASSUME todo' = WaitConn PROVE ConnGoesOn'
      <3>1. TypeAt("STA", n)
        BY <2>2, <2>4 DEF ConnInv, EndsAs
      <3>2. PICK i \in Int : i = n
        BY <2>1
      <3> HIDE DEF n, m
      <3>3. TypeAt("STA", i)
        BY <3>1, <3>2
      <3>4. TypeAt("STA", i)'
        BY <2>1, <3>2, <3>3, TypeAtPosting DEF n
      <3>5. NoneForgets(i)'
        BY <2>1, <3>2 DEF NoneForgets
      <3>6. i \in 1..Len(queue') /\ queue'[i] = Msg("CONNECT_CMD", "cfg_blocked")
        BY <2>1, <2>2, <2>4, <3>2
      <3> QED BY <3>4, <3>5, <3>6 DEF ConnGoesOn, Msg
    <2> HIDE DEF n, m
    <2> QED BY <2>2, <2>3, <2>4 DEF ConnInv
  <1>4. CASE Failed
    BY <1>4, StagesApart, WatchedApart DEF Failed, ConnInv
  <1>5. CASE Flushed
    <2>1. Unmoved /\ todo' = Tail(todo)
      BY <1>1, <1>5 DEF Held, Flushed, Unmoved
    <2>2. todo' \notin {FlushConn, WaitConn} /\ (todo' = SendConn => todo = FlushConn)
      BY <1>5, <2>1, FlushLeads DEF Flushed
    <2> QED BY <2>1, <2>2, UnmovedKeeps DEF ConnInv
  <1>6. CASE Thrown
    <2>1. Unmoved /\ todo' = todo /\ crowded' = crowded
          /\ conn_blocked' = conn_blocked
      BY <1>1, <1>6 DEF Held, Thrown, Unmoved
    <2>2. todo = WaitConn /\ Answered("CONN_DONE") => Answered("CONN_DONE")'
      BY <1>2, <1>6, TailAnswers, Waits DEF Thrown
    <2>3. ConnGoesOn => ConnGoesOn'
      <3>1. CASE conn_blocked /\ wvif_type = "STA" /\ NoneForgets(0)
        BY <2>1, <3>1, UnmovedKeeps DEF ConnGoesOn, Unmoved
      <3>2. ASSUME NEW i \in 1..Len(queue), TypeAt("STA", i), NoneForgets(i),
                   queue[i] = Msg("CONNECT_CMD", "cfg_blocked")
            PROVE  ConnGoesOn'
        <4>1. TypeAt("STA", i)' /\ NoneForgets(i)' /\ queue' = queue
          BY <2>1, <3>2, UnmovedKeeps DEF Unmoved
        <4> QED BY <3>2, <4>1 DEF ConnGoesOn, Msg
      <3> QED BY <3>1, <3>2 DEF ConnGoesOn
    <2> QED BY <2>1, <2>2, <2>3, UnmovedKeeps DEF ConnInv
  <1>7. CASE Called \/ Marked \/ Taken \/ GivenUp
    BY <1>7, Calm, UnwatchedCaller
  <1> QED BY <1>3, <1>4, <1>5, <1>6, <1>7, CallerSteps

\* A disconnect.
LEMMA DisconnCaller ==
    ASSUME IInv, CallShape, DisconnInv, Caller
    PROVE  DisconnInv'
  <1>1. Held
    BY CallerSteps
  <1>2. queue \in Seq(Msgs) /\ wait_queue \in Seq(WaitEvts)
    BY DEF IInv, TypeOK, QueueType
  <1>3. CASE Posted
    <2> DEFINE m == Head(todo).msg
    <2>1. PICK n \in 1..Len(queue') : queue'[n] = m /\ Len(queue') = n
      BY <1>1, <1>3, PostedPosting, PostingKeeps
    <2>2. todo' = WaitDisconn => m.ev = "DISCONNECT_CMD"
      BY <1>3, PostLeads DEF Posted
    <2>3. None(Switches, n)'
      BY <2>1 DEF None
    <2> HIDE DEF m
    <2> QED BY <2>1, <2>2, <2>3 DEF DisconnInv
  <1>4. CASE Failed
    BY <1>4, StagesApart, WatchedApart DEF Failed, DisconnInv
  <1>5. CASE Flushed
    BY <1>5, FlushLeads DEF Flushed, DisconnInv
  <1>6. CASE Thrown
    <2>1. Unmoved /\ todo' = todo /\ crowded' = crowded
      BY <1>1, <1>6 DEF Held, Thrown, Unmoved
    <2>2. todo = WaitDisconn /\ Answered("DISCONN_DONE")
             => Answered("DISCONN_DONE")'
      BY <1>2, <1>6, TailAnswers, Waits DEF Thrown
    <2>3. queue' = queue /\ wvif_type' = wvif_type
      BY <2>1 DEF Unmoved
    <2>4. \A i : None(Switches, i)' <=> None(Switches, i)
      BY <2>1, UnmovedKeeps
    <2> QED BY <2>1, <2>2, <2>3, <2>4 DEF DisconnInv
  <1>7. CASE Called \/ Marked \/ Taken \/ GivenUp
    BY <1>7, Calm, UnwatchedCaller
  <1> QED BY <1>3, <1>4, <1>5, <1>6, <1>7, CallerSteps

\* The start of a soft AP.
LEMMA ApCaller ==
    ASSUME IInv, CallShape, ApInv, Caller
    PROVE  ApInv'
  <1>1. Held
    BY CallerSteps
  <1>2. queue \in Seq(Msgs) /\ wait_queue \in Seq(WaitEvts)
    BY DEF IInv, TypeOK, QueueType
  <1>3. CASE Posted
    <2> DEFINE m == Head(todo).msg
               n == Len(queue) + 1
    <2>1. /\ Posting(m) /\ todo' = Tail(todo) /\ crowded' = crowded
          /\ dropped' = dropped
          /\ n \in 1..Len(queue') /\ n \in Int /\ queue'[n] = m
      BY <1>1, <1>3, PostedPosting, PostingKeeps DEF Posted
    <2>2. /\ todo' = SwitchAp => m = Switch("STA")
          /\ todo' = FlushAp => todo = SwitchAp /\ m = Switch("AP")
          /\ todo' # SendAp
          /\ todo' = WaitAp => todo = SendAp /\ m.ev = "START_AP_CMD"
      BY <1>3, <2>1, PostLeads DEF Posted
    <2>3. todo' = SwitchAp => EndsAs("STA")'
      BY <2>1, <2>2, SwitchPosting
    <2>4. todo' = FlushAp => dropped' \/ EndsApReady'
      BY <2>1, <2>2, SwitchPosting DEF ApInv
    <2>5. ASSUME todo' = WaitAp, ~dropped'
          PROVE  \E i \in 1..Len(queue') :
                     queue'[i].ev = "START_AP_CMD" /\ ApReadyAt(i)'
      <3>1. ApReadyAt(n)
        BY <2>1, <2>2, <2>5 DEF ApInv, EndsApReady
      <3>2. PICK i \in Int : i = n
        BY <2>1
      <3> HIDE DEF n, m
      <3>3. ApReadyAt(i)
        BY <3>1, <3>2
      <3>4. ApReadyAt(i)'
        BY <2>1, <3>2, <3>3, ApReadyPosting DEF n
      <3>5. i \in 1..Len(queue') /\ queue'[i].ev = "START_AP_CMD"
        BY <2>1, <2>2, <2>5, <3>2
      <3> QED BY <3>4, <3>5
    <2> HIDE DEF n, m
    <2> QED BY <2>2, <2>3, <2>4, <2>5 DEF ApInv
  <1>4. CASE Failed
    BY <1>4, StagesApart, WatchedApart DEF Failed, ApInv
  <1>5. CASE Flushed
    <2>1. Unmoved /\ todo' = Tail(todo) /\ dropped' = dropped
      BY <1>1, <1>5 DEF Held, Flushed, Unmoved
    <2>2. todo' \notin {SwitchAp, FlushAp, WaitAp} /\ (todo' = SendAp => todo = FlushAp)
      BY <1>5, <2>1, FlushLeads DEF Flushed
    <2> QED BY <2>1, <2>2, UnmovedKeeps DEF ApInv
  <1>6. CASE Thrown
    <2>1. Unmoved /\ todo' = todo /\ crowded' = crowded /\ dropped' = dropped
      BY <1>1, <1>6 DEF Held, Thrown, Unmoved
    <2>2. todo = WaitAp /\ Answered("AP_START_DONE") => Answered("AP_START_DONE")'
      BY <1>2, <1>6, TailAnswers, Waits DEF Thrown
    <2>3. queue' = queue
      BY <2>1 DEF Unmoved
    <2>4. /\ \A i : ApReadyAt(i)' <=> ApReadyAt(i)
          /\ EndsAs("STA")' <=> EndsAs("STA")
          /\ EndsApReady' <=> EndsApReady
      BY <2>1, UnmovedKeeps
    <2> QED BY <2>1, <2>2, <2>3, <2>4 DEF ApInv
  <1>7. CASE Called \/ Marked \/ Taken \/ GivenUp
    BY <1>7, Calm, UnwatchedCaller
  <1> QED BY <1>3, <1>4, <1>5, <1>6, <1>7, CallerSteps

\* No start is under way.
LEMMA NoneStarted ==
    ASSUME NEW cmd, NEW done, NEW waits, ~Pending(cmd)', ~Answered(done)'
    PROVE  OneStart(cmd, done, waits)'
  <1>1. \A i \in 1..Len(queue') : queue'[i].ev # cmd
    BY DEF Pending, Has
  <1>2. \A i \in 1..Len(wait_queue') : wait_queue'[i].evt # done
    BY DEF Answered
  <1>3. \A i \in 1..Len(wait_queue') : wait_queue'[i] # WaitEvt(done, "SUCCESS")
    BY <1>2 DEF WaitEvt
  <1> QED BY <1>1, <1>2, <1>3 DEF OneStart, Pending, Has, Answered

\* One start, of a soft AP or of a monitor, waits for its own answer.
StartWaits == {<<"START_AP_CMD", "AP_START_DONE", {WaitAp}>>,
               <<"MONITOR_START_CMD", "MONITOR_START_DONE",
                 {FlushMonitor, WaitMonitor}>>}

\* A step of the caller keeps what is known of one start.
LEMMA OneStartCaller ==
    ASSUME IInv, CallShape, Caller, ~late',
           NEW cmd, NEW done, NEW waits, <<cmd, done, waits>> \in StartWaits,
           OneStart(cmd, done, waits)
    PROVE  OneStart(cmd, done, waits)'
  <1>1. Held
    BY CallerSteps
  <1>2. queue \in Seq(Msgs) /\ wait_queue \in Seq(WaitEvts)
    BY DEF IInv, TypeOK, QueueType
  <1>3. todo \notin waits => ~Pending(cmd) /\ ~Answered(done)
    BY DEF OneStart
  <1>4. waits \subseteq {WaitAp, FlushMonitor, WaitMonitor}
    BY DEF StartWaits
  <1>5. ASSUME todo \notin waits, queue' = queue, wait_queue' = wait_queue
        PROVE  OneStart(cmd, done, waits)'
    <2>1. ~Pending(cmd)' /\ ~Answered(done)'
      BY <1>3, <1>5 DEF Pending, Has, Answered
    <2> QED BY <2>1, NoneStarted
  <1>6. ASSUME Unmoved, todo' \in waits \/ todo \notin waits,
               \A i \in 1..Len(wait_queue') : \E j \in 1..Len(wait_queue) :
                  wait_queue'[i] = wait_queue[j],
               \A i, j \in 1..Len(wait_queue') :
                  wait_queue'[i].evt = done /\ wait_queue'[j].evt = done => i = j
        PROVE  OneStart(cmd, done, waits)'
    <2>1. Answered(done)' => Answered(done)
      BY <1>6 DEF Answered
    <2>2. \A i \in 1..Len(wait_queue') :
             wait_queue'[i] = WaitEvt(done, "SUCCESS") => Up
      BY <1>6 DEF OneStart
    <2>3. Up => Up'
      BY <1>6, UnmovedKeeps DEF Up, Unmoved
    <2>4. (Pending(cmd)' <=> Pending(cmd)) /\ queue' = queue
      BY <1>6, UnmovedKeeps DEF Unmoved
    <2>5. \A i : None(Switches, i)' <=> None(Switches, i)
      BY <1>6, UnmovedKeeps
    <2>6. Pending(cmd)' \/ Answered(done)' => todo' \in waits
      BY <1>3, <1>6, <2>1, <2>4
    <2>7. Pending(cmd)' => ~Answered(done)'
      BY <2>1, <2>4 DEF OneStart
    <2>8. /\ \A i, j \in 1..Len(queue') :
                queue'[i].ev = cmd /\ queue'[j].ev = cmd => i = j
          /\ \A i \in 1..Len(queue') : queue'[i].ev = cmd => None(Switches, i)'
      BY <2>4, <2>5 DEF OneStart
    <2> QED BY <1>6, <2>2, <2>3, <2>6, <2>7, <2>8 DEF OneStart
  <1>7. CASE Called
    <2>1. todo \notin waits
      BY <1>4, <1>7, StagesApart DEF Called
    <2> QED BY <1>5, <1>7, <2>1 DEF Called
  <1>8. CASE Posted
    <2> DEFINE m == Head(todo).msg
    <2>1. /\ todo \notin waits
          /\ m.ev = cmd => Tail(todo) \in waits
      BY <1>4, <1>8, PostLeads DEF Posted, StartWaits
    <2>2. /\ queue' \in Seq(Msgs) /\ Len(queue) \in Nat
          /\ Len(queue') = Len(queue) + 1
          /\ \A k \in 1..Len(queue) : queue'[k] = queue[k]
          /\ queue'[Len(queue) + 1] = m
      BY <1>1, <1>8, PostedPosting, PostingKeeps
    <2>3. todo' = Tail(todo) /\ wait_queue' = wait_queue
      BY <1>8 DEF Posted
    <2> HIDE DEF m
    <2>4. \A i \in 1..Len(queue') : queue'[i].ev = cmd =>
             i = Len(queue') /\ m.ev = cmd
      BY <1>3, <2>1, <2>2 DEF Pending, Has
    <2>5. \A i \in 1..Len(wait_queue') : wait_queue'[i].evt # done
      BY <1>3, <2>1, <2>3 DEF Answered
    <2>6. \A i \in 1..Len(queue') : queue'[i].ev = cmd => None(Switches, i)'
      BY <2>2, <2>4 DEF None
    <2>7. \A i \in 1..Len(wait_queue') :
             wait_queue'[i] # WaitEvt(done, "SUCCESS")
      BY <2>5 DEF WaitEvt
    <2>8. ~Answered(done)'
      BY <2>5 DEF Answered
    <2>9. Pending(cmd)' => todo' \in waits
      BY <2>1, <2>3, <2>4 DEF Pending, Has
    <2> QED BY <2>4, <2>5, <2>6, <2>7, <2>8, <2>9 DEF OneStart
  <1>9. CASE Failed
    <2>1. todo \notin waits
      BY <1>4, <1>9, PostLeads DEF Failed
    <2> QED BY <1>5, <1>9, <2>1 DEF Failed
  <1>10. CASE Flushed
    <2>1. todo' \in waits \/ todo \notin waits
      BY <1>10, FlushLeads DEF Flushed, StartWaits
    <2>2. Unmoved /\ wait_queue' = wait_queue
      BY <1>1, <1>10 DEF Held, Flushed, Unmoved
    <2> QED BY <1>6, <2>1, <2>2 DEF OneStart
  <1>11. CASE Thrown
    <2>1. Unmoved /\ todo' = todo
      BY <1>1, <1>11 DEF Held, Thrown, Unmoved
    <2>2. \A i \in 1..Len(wait_queue') :
             /\ i + 1 \in 1..Len(wait_queue)
             /\ wait_queue'[i] = wait_queue[i + 1]
      BY <1>2, <1>11, TailAnswers DEF Thrown
    <2>3. \A i, j \in 1..Len(wait_queue') :
             wait_queue'[i].evt = done /\ wait_queue'[j].evt = done => i = j
      <3> SUFFICES ASSUME NEW i \in 1..Len(wait_queue'),
                          NEW j \in 1..Len(wait_queue'),
                          wait_queue'[i].evt = done, wait_queue'[j].evt = done
                   PROVE  i = j
        OBVIOUS
      <3>1. i + 1 = j + 1
        BY <2>2 DEF OneStart
      <3> QED BY <3>1
    <2> QED BY <1>6, <2>1, <2>2, <2>3
  <1>12. CASE Marked
    <2>1. todo \notin waits
      BY <1>4, <1>12, Kinds DEF Marked, BlockWalk, BlockAt
    <2> QED BY <1>5, <1>12, <2>1 DEF Marked
  <1>13. CASE Taken
    <2>1. /\ wait_queue # <<>> /\ wait_queue' = Tail(wait_queue)
          /\ queue' = queue /\ Head(wait_queue).evt = Head(todo).evt
      BY <1>13 DEF Taken
    <2>2. \A i \in 1..Len(wait_queue') :
             /\ i + 1 \in 1..Len(wait_queue)
             /\ wait_queue'[i] = wait_queue[i + 1]
      BY <1>2, <2>1, TailAnswers
    <2>3. CASE todo \in waits
      <3>1. Head(todo).evt = done
        <4>1. todo # FlushMonitor
          BY <1>13, Kinds DEF Taken, WaitWalk, WaitAt
        <4> QED BY <2>3, <4>1, Heads, StepKinds DEF StartWaits
      <3>2. 1 \in 1..Len(wait_queue) /\ wait_queue[1].evt = done
        BY <1>2, <2>1, <3>1
      <3>3. ~Pending(cmd)
        BY <3>2 DEF OneStart, Answered
      <3>4. ASSUME NEW i \in 1..Len(wait_queue'), wait_queue'[i].evt = done
            PROVE  FALSE
        <4>1. i + 1 = 1
          BY <2>2, <3>2, <3>4 DEF OneStart
        <4> QED BY <4>1
      <3> QED BY <2>1, <3>3, <3>4, NoneStarted DEF Pending, Has, Answered
    <2>4. CASE todo \notin waits
      <3>1. ~Pending(cmd)' /\ ~Answered(done)'
        BY <1>2, <1>3, <2>1, <2>4, TailAnswers DEF Pending, Has
      <3> QED BY <3>1, NoneStarted
    <2> QED BY <2>3, <2>4
  <1>14. CASE GivenUp
    BY <1>14 DEF GivenUp
  <1> QED BY <1>7, <1>8, <1>9, <1>10, <1>11, <1>12, <1>13, <1>14, CallerSteps

\* The last stage of these functions is a wait: their results come with the
\* answer.
LEMMA ZeroByAnswer ==
    ASSUME CallShape, Caller, ret' = "0",
           op' \in {"ap_start", "monitor_start", "disconnect"}
    PROVE  \/ Thrown /\ ret = "0"
           \/ /\ Taken
              /\ op = "ap_start" => todo = WaitAp
              /\ op = "monitor_start" => todo = WaitMonitor
              /\ op = "disconnect" => todo = WaitDisconn
  <1>1. /\ op = "ap_start" => todo \in ApTodos \cup {<<>>}
        /\ op = "monitor_start" => todo \in MonitorTodos \cup {<<>>}
        /\ op = "disconnect" => todo \in DisconnTodos \cup {<<>>}
    BY DEF CallShape
  <1>2. ASSUME op = op', todo # <<>>, Tail(todo) = <<>>
        PROVE  /\ op = "ap_start" => todo = WaitAp
               /\ op = "monitor_start" => todo = WaitMonitor
               /\ op = "disconnect" => todo = WaitDisconn
    <2>1. todo \in ApTodos => todo = WaitAp
      BY <1>2, ApStages DEF ApTodos, Stage
    <2>2. todo \in MonitorTodos => todo = WaitMonitor
      BY <1>2, MonitorStages DEF MonitorTodos, Stage
    <2>3. todo \in DisconnTodos => todo = WaitDisconn
      BY <1>2, DisconnStages DEF DisconnTodos, Stage
    <2> QED BY <1>1, <1>2, <2>1, <2>2, <2>3
  <1>3. CASE Posted
    <2>1. todo \notin {WaitDisconn, WaitAp, WaitMonitor}
      BY <1>3, PostLeads DEF Posted
    <2>2. todo # <<>>
      BY <1>3, Kinds DEF Posted, PostWalk, PostAt, Watched, Unwatched
    <2> QED BY <1>2, <1>3, <2>1, <2>2 DEF Posted
  <1>4. CASE Marked
    <2>1. todo \notin {<<>>, WaitDisconn, WaitAp, WaitMonitor}
      BY <1>4, Kinds DEF Marked, BlockWalk, BlockAt, Unwatched
    <2> QED BY <1>2, <1>4, <2>1 DEF Marked
  <1>5. CASE Taken
    <2>1. todo # <<>> /\ Tail(todo) = <<>>
      BY <1>5, Kinds DEF Taken, WaitWalk, WaitAt, Watched, Unwatched
    <2> QED BY <1>2, <1>5, <2>1 DEF Taken
  <1>6. CASE Thrown
    BY <1>6 DEF Thrown
  <1>7. CASE Called \/ Failed \/ Flushed \/ GivenUp
    BY <1>7 DEF Called, Failed, Flushed, GivenUp
  <1> QED BY <1>3, <1>4, <1>5, <1>6, <1>7, CallerSteps

\* Starts, until some call times out.
LEMMA StartCaller ==
    ASSUME IInv, CallShape, StartInv, Caller
    PROVE  StartInv'
  <1> SUFFICES ASSUME ~late' PROVE StartInv'
    BY DEF StartInv
  <1>1. Held
    BY CallerSteps
  <1>2. ~late
    BY CallerSteps
    DEF Called, Posted, Failed, Flushed, Thrown, Marked, Taken, GivenUp
  <1>3. /\ OneStart("START_AP_CMD", "AP_START_DONE", {WaitAp})
        /\ OneStart("MONITOR_START_CMD", "MONITOR_START_DONE",
                    {FlushMonitor, WaitMonitor})
        /\ op \in {"ap_start", "monitor_start"} /\ ret = "0" => Up
    BY <1>2 DEF StartInv
  <1>4. OneStart("START_AP_CMD", "AP_START_DONE", {WaitAp})'
    BY <1>3, OneStartCaller DEF StartWaits
  <1>5. OneStart("MONITOR_START_CMD", "MONITOR_START_DONE",
                 {FlushMonitor, WaitMonitor})'
    BY <1>3, OneStartCaller DEF StartWaits
  <1>6. ASSUME op' \in {"ap_start", "monitor_start"}, ret' = "0"
        PROVE  Up'
    <2>1. CASE Thrown /\ ret = "0"
      <3>1. Unmoved /\ op' = op
        BY <1>1, <2>1 DEF Held, Thrown, Unmoved
      <3> QED BY <1>3, <1>6, <2>1, <3>1, UnmovedKeeps DEF Up, Unmoved
    <2>2. CASE /\ Taken
               /\ op = "ap_start" => todo = WaitAp
               /\ op = "monitor_start" => todo = WaitMonitor
      <3>1. Unmoved /\ op' = op
        BY <1>1, <2>2 DEF Held, Taken, Unmoved
      <3>2. PICK done \in {"AP_START_DONE", "MONITOR_START_DONE"} :
               /\ Head(todo).evt = done
               /\ \A i \in 1..Len(wait_queue) :
                     wait_queue[i] = WaitEvt(done, "SUCCESS") => Up
        <4>1. CASE op = "ap_start"
          BY <1>3, <2>2, <4>1, Heads, StepKinds DEF OneStart
        <4>2. CASE op = "monitor_start"
          BY <1>3, <2>2, <4>2, Heads, StepKinds DEF OneStart
        <4> QED BY <1>6, <3>1, <4>1, <4>2
      <3>3. wait_queue \in Seq(WaitEvts) /\ wait_queue # <<>>
        BY <2>2 DEF IInv, TypeOK, QueueType, Taken
      <3>4. 1 \in 1..Len(wait_queue) /\ wait_queue[1] = WaitEvt(done, "SUCCESS")
        <4>1. PICK e \in WaitEvts : e = wait_queue[1] /\ e = Head(wait_queue)
          BY <3>3
        <4>2. e.evt = done /\ e.reason = "SUCCESS"
          BY <1>6, <2>2, <3>2, <4>1 DEF Taken
        <4>3. e = WaitEvt(done, "SUCCESS")
          BY <4>2 DEF WaitEvts, WaitEvt
        <4> QED BY <3>3, <4>1, <4>3
      <3> QED BY <3>1, <3>2, <3>4, UnmovedKeeps DEF Up, Unmoved
    <2> QED BY <1>6, <2>1, <2>2, ZeroByAnswer
  <1> QED BY <1>4, <1>5, <1>6 DEF StartInv

\* A caller wakes an idle station only by a command.
LEMMA QuietCaller ==
    ASSUME IInv, CallShape, QuietInv, Caller
    PROVE  QuietInv'
  <1>1. Held
    BY CallerSteps
  <1>2. queue \in Seq(Msgs) /\ wait_queue \in Seq(WaitEvts)
    BY DEF IInv, TypeOK, QueueType
  <1>3. CASE Posted
    <2> DEFINE m == Head(todo).msg
    <2>1. PICK n \in 1..Len(queue') : queue'[n] = m /\ Len(queue') = n
      BY <1>1, <1>3, PostedPosting, PostingKeeps
    <2>2. \A k \in 1..Len(queue') : k # n =>
             k \in 1..Len(queue) /\ queue'[k] = queue[k]
      BY <1>1, <1>3, <2>1, PostedPosting, PostingKeeps
    <2>3. /\ m.ev # "ROAMING_START"
          /\ todo' = WaitDisconn => m.ev = "DISCONNECT_CMD"
      BY <1>3, PostLeads DEF Posted
    <2> HIDE DEF m
    <2>4. Quiet'
      BY <1>1, <2>1, <2>2, <2>3 DEF QuietInv, Quiet, Held, Pending, Has
    <2>5. None(Wakes, n)'
      BY <2>1 DEF None
    <2>6. ~(op' = "disconnect" /\ ret' = "0")
      BY <1>3, ZeroByAnswer DEF Posted, Thrown, Taken
    <2> QED BY <2>1, <2>3, <2>4, <2>5, <2>6 DEF QuietInv, LastsInv
  <1>4. CASE ~Posted
    <2>1. Unmoved
      BY <1>1, <1>4, CallerSteps
      DEF Unmoved, Held, Called, Failed, Flushed, Thrown, Marked, Taken, GivenUp
    <2>2. Quiet'
      BY <1>1, <2>1, UnmovedKeeps DEF QuietInv, Quiet, Held
    <2>3. todo' = WaitDisconn => Thrown
      <3>1. Called \/ Marked \/ Taken \/ GivenUp => todo' # WaitDisconn
        BY Calm, StagesApart
      <3>2. Failed => todo' # WaitDisconn
        BY StagesApart, WatchedApart DEF Failed
      <3>3. Flushed => todo' # WaitDisconn
        BY FlushLeads DEF Flushed
      <3> QED BY <1>4, <3>1, <3>2, <3>3, CallerSteps
    <2>4. ASSUME op' = "disconnect", ret' = "0" \/ todo' = WaitDisconn
          PROVE  op = "disconnect" /\ (ret = "0" \/ todo = WaitDisconn)
      <3>1. CASE Thrown
        BY <2>4, <3>1 DEF Thrown
      <3>2. CASE ~Thrown
        BY <2>3, <2>4, <3>2, ZeroByAnswer DEF Taken
      <3> QED BY <3>1, <3>2
    <2>5. queue' = queue /\ wvif_type' = wvif_type /\ sm_state' = sm_state
      BY <2>1 DEF Unmoved
    <2>6. \A i : None(Wakes, i)' <=> None(Wakes, i)
      BY <2>1, UnmovedKeeps
    <2>7. LastsInv'
      BY <2>4, <2>5, <2>6 DEF QuietInv, LastsInv
    <2> QED BY <2>2, <2>7 DEF QuietInv
  <1> QED BY <1>3, <1>4

-----------------------------------------------------------------------------
(* The theorems                                                             *)

\* At boot nothing has been called.
LEMMA ApiInitInv == ApiInit => ApiInv /\ QuietInv
  <1> SUFFICES ASSUME ApiInit PROVE ApiInv /\ QuietInv
    OBVIOUS
  <1>1. Init /\ op = "none" /\ todo = <<>> /\ ret = "none"
    BY DEF ApiInit
  <1>2. IInv
    BY <1>1, InitInv
  <1>3. /\ queue \in Seq(Msgs) /\ Fetch("INIT") /\ wait_queue = <<>>
        /\ \A i \in 1..Len(queue) :
              queue[i].ev \in {"INIT", "SWITCH_MODE_CMD", "AUTO_CONNECT_CMD"}
    <2>1. BootMsgs \in Seq(Msgs) /\ Len(BootMsgs) = 3
      BY DEF BootMsgs, Msg, Msgs, Events, Args, Types
    <2>2. BootMsgs[1].ev = "INIT" /\ \A i \in 1..3 :
             BootMsgs[i].ev \in {"INIT", "SWITCH_MODE_CMD", "AUTO_CONNECT_CMD"}
      BY DEF BootMsgs, Msg
    <2>3. PICK n \in {1, 3} : queue = SubSeq(BootMsgs, 1, n)
      BY <1>1 DEF Init
    <2>4. /\ queue \in Seq(Msgs) /\ Len(queue) = n
          /\ \A i \in 1..n : queue[i] = BootMsgs[i]
      <3>1. CASE n = 1
        BY <2>1, <2>3, <3>1, SubSeqProperties
      <3>2. CASE n = 3
        BY <2>1, <2>3, <3>2, SubSeqProperties
      <3> QED BY <3>1, <3>2
    <2>5. wait_queue = <<>>
      BY <1>1 DEF Init
    <2>6. queue # <<>> /\ Head(queue) = queue[1]
      BY <2>4
    <2>7. \A i \in 1..Len(queue) : i \in 1..3 /\ queue[i] = BootMsgs[i]
      BY <2>4
    <2> QED BY <2>2, <2>4, <2>5, <2>6, <2>7 DEF Fetch
  <1>4. Booted
    BY <1>1, <1>3 DEF Booted, Init
  <1>5. CallShape
    BY <1>1 DEF CallShape, Todos
  <1>6. ConnInv /\ DisconnInv /\ ApInv
    <2>1. todo \notin {FlushConn, SendConn, WaitConn, WaitDisconn, SwitchAp,
                       FlushAp, SendAp, WaitAp}
      BY <1>1, StagesApart
    <2> QED BY <2>1 DEF ConnInv, DisconnInv, ApInv
  <1>7. StartInv
    <2>1. ~Pending("START_AP_CMD") /\ ~Pending("MONITOR_START_CMD")
      BY <1>3 DEF Pending, Has
    <2>2. \A e : ~Answered(e)
      BY <1>3 DEF Answered
    <2> QED BY <1>1, <1>3, <2>1, <2>2 DEF StartInv, OneStart, Pending, Has
  <1>8. QuietInv
    <2>1. ~Pending("ROAMING_START")
      BY <1>3 DEF Pending, Has
    <2> QED BY <1>1, <2>1 DEF QuietInv, Quiet, LastsInv, Init
  <1> QED BY <1>2, <1>4, <1>5, <1>6, <1>7, <1>8 DEF ApiInv

\* A step in which nothing happens.
LEMMA ApiStutter ==
    ASSUME UNCHANGED apiVars
    PROVE  (ApiInv' <=> ApiInv) /\ (QuietInv' <=> QuietInv)
  <1>1. UNCHANGED vars /\ UNCHANGED <<op, todo, ret, entered, late, crowded>>
    BY DEF apiVars, callVars, histVars
  <1>2. UNCHANGED <<wvif_type, sm_init, sm_state, retry_count,
            delayed_connect_retry, dhcp_polling_count, preroam_enable,
            preroam_start, preroam_bk, polling_scan, scan_blocked,
            conn_blocked, retry_timers, dhcp_timers, link_timers, queue,
            dropped, wait_queue, mac_type, mac_scan, mac_link, mac_late,
            cmds, inds>>
    BY <1>1 DEF vars, smVars, roamVars, blockVars, timerVars, qVars,
                macVars, envVars
  <1>3. IInv' <=> IInv
    <2>1. TypeOK' <=> TypeOK
      BY <1>2 DEF TypeOK, FieldType, FlagType, QueueType
    <2>2. Control' <=> Control
      BY <1>2 DEF Control, FieldType, StateOfMachine, RetryTimerInv,
                  DhcpTimerInv, LinkTimerInv, NoLinkWhenIdle, StartedOnMac
    <2>3. NotStranded' <=> NotStranded
      BY <1>2 DEF NotStranded, ScanNotStranded, ConnectNotStranded,
                  HandshakeNotStranded, DhcpNotStranded, Pending, Has
    <2> QED BY <2>1, <2>2, <2>3 DEF IInv
  <1>4. Unmoved
    BY <1>2 DEF Unmoved
  <1>5. (Booted' <=> Booted) /\ (CallShape' <=> CallShape)
    BY <1>1, <1>2 DEF Booted, Fetch, CallShape
  <1>6. \A e : Answered(e)' <=> Answered(e)
    BY <1>2 DEF Answered
  <1>7. ConnInv' <=> ConnInv
    <2>1. ConnGoesOn' <=> ConnGoesOn
      BY <1>2, <1>4, UnmovedKeeps DEF ConnGoesOn, Msg
    <2> QED BY <1>1, <1>4, <1>6, <2>1, UnmovedKeeps DEF ConnInv
  <1>8. DisconnInv' <=> DisconnInv
    BY <1>1, <1>2, <1>4, <1>6, UnmovedKeeps DEF DisconnInv
  <1>9. ApInv' <=> ApInv
    BY <1>1, <1>2, <1>4, <1>6, UnmovedKeeps DEF ApInv
  <1>10. StartInv' <=> StartInv
    <2>1. Up' <=> Up
      BY <1>2, <1>4, UnmovedKeeps DEF Up
    <2>2. \A cmd, done, waits :
             OneStart(cmd, done, waits)' <=> OneStart(cmd, done, waits)
      BY <1>1, <1>2, <1>4, <1>6, <2>1, UnmovedKeeps DEF OneStart
    <2> QED BY <1>1, <2>1, <2>2 DEF StartInv
  <1>11. QuietInv' <=> QuietInv
    BY <1>1, <1>2, <1>4, UnmovedKeeps DEF QuietInv, Quiet, LastsInv
  <1> QED BY <1>3, <1>5, <1>7, <1>8, <1>9, <1>10, <1>11 DEF ApiInv

\* Every step of a caller, the task, its timers and the MAC keeps it.
LEMMA ApiStepInv == ApiInv /\ [ApiNext]_apiVars => ApiInv'
  <1> SUFFICES ASSUME ApiInv, [ApiNext]_apiVars PROVE ApiInv'
    OBVIOUS
  <1>1. /\ IInv /\ Booted /\ CallShape
        /\ ConnInv /\ DisconnInv /\ ApInv /\ StartInv
    BY DEF ApiInv
  <1>2. CASE Caller
    BY <1>1, <1>2, CallerIInv, BootedCaller, ShapeCaller, ConnCaller,
       DisconnCaller, ApCaller, StartCaller DEF ApiInv
  <1>3. CASE Task
    <2>1. IInv'
      BY <1>1, <1>3, StepInv DEF Task, Next
    <2>2. CallShape'
      BY <1>1, <1>3, TaskCalls DEF CallShape
    <2> QED BY <1>1, <1>3, <2>1, <2>2, BootedTask, ConnTask, DisconnTask,
               ApTask, StartTask DEF ApiInv
  <1>4. CASE UNCHANGED apiVars
    BY <1>4, ApiStutter
  <1> QED BY <1>2, <1>3, <1>4 DEF ApiNext

\* The inductive invariant holds in every reachable state.
THEOREM ApiInvariance == ApiSpec => []ApiInv
  BY ApiInitInv, ApiStepInv, PTL DEF ApiSpec

\* With callers between its steps the task keeps the invariants that
\* WifiMgmtProofs shows for it alone.
THEOREM TaskUndisturbed == ApiSpec => []IInv
  <1>1. ApiInv => IInv
    BY DEF ApiInv
  <1> QED BY <1>1, ApiInvariance, PTL

\* Which stage it is that waits for an answer.
LEMMA WaitStages ==
    ASSUME CallShape, NEW e, Waiting(e)
    PROVE  /\ e = "CONN_DONE" => todo = WaitConn
           /\ e = "DISCONN_DONE" => todo = WaitDisconn
           /\ e = "AP_START_DONE" => todo = WaitAp
  <1>1. WaitWalk
    BY StepWalks DEF Waiting, CallShape
  <1> QED BY <1>1, StepKinds DEF Waiting, WaitWalk, WaitAt

\* A blocked connect never waits in vain: until mgmt_wait_queue has been full
\* its command is queued, its answer has come, or conn_blocked is set.
THEOREM ConnectIsRemembered == ApiSpec => []ConnectRemembered
  <1>1. ApiInv => ConnectRemembered
    <2> SUFFICES ASSUME ApiInv, Waiting("CONN_DONE"), ~crowded
                 PROVE  \/ Pending("CONNECT_CMD") \/ Answered("CONN_DONE")
                        \/ conn_blocked
      BY DEF ConnectRemembered
    <2>1. todo = WaitConn
      BY WaitStages DEF ApiInv
    <2>2. Answered("CONN_DONE") \/ ConnGoesOn
      BY <2>1 DEF ApiInv, ConnInv
    <2> QED BY <2>2 DEF ConnGoesOn, Pending, Has, Msg
  <1> QED BY <1>1, ApiInvariance, PTL

\* Nor does a disconnect, as long as the interface is a station.
THEOREM DisconnectIsAnswered == ApiSpec => []DisconnectAnswered
  <1>1. ApiInv => DisconnectAnswered
    <2> SUFFICES ASSUME ApiInv, Waiting("DISCONN_DONE"), wvif_type = "STA",
                        ~crowded
                 PROVE  Pending("DISCONNECT_CMD") \/ Answered("DISCONN_DONE")
      BY DEF DisconnectAnswered
    <2>1. todo = WaitDisconn
      BY WaitStages DEF ApiInv
    <2> QED BY <2>1 DEF ApiInv, DisconnInv, Pending, Has
  <1> QED BY <1>1, ApiInvariance, PTL

\* Nor does the start of a soft AP, unless a message was lost.
THEOREM ApStartIsAnswered == ApiSpec => []ApStartAnswered
  <1>1. ApiInv => ApStartAnswered
    <2> SUFFICES ASSUME ApiInv, Waiting("AP_START_DONE"), ~crowded
                 PROVE  \/ Pending("START_AP_CMD") \/ Answered("AP_START_DONE")
                        \/ dropped
      BY DEF ApStartAnswered
    <2>1. todo = WaitAp
      BY WaitStages DEF ApiInv
    <2> QED BY <2>1 DEF ApiInv, ApInv, Pending, Has
  <1> QED BY <1>1, ApiInvariance, PTL

\* Until a call times out, ap_start and monitor_start return 0 only when the
\* machine has started.
THEOREM ZeroMeansStarted == ApiSpec => []StartMeansStarted
  <1>1. ApiInv => StartMeansStarted
    BY DEF ApiInv, StartInv, Up, StartMeansStarted
  <1> QED BY <1>1, ApiInvariance, PTL

\* As long as the MAC gives no hint to roam, a disconnect that reports success
\* is final: the station is idle, or will be, until the next call.
THEOREM DisconnectIsFinal ==
    ApiSpec /\ [][~MacRoaming]_apiVars => []DisconnectLasts
  <1>1. ApiInv /\ QuietInv /\ [ApiNext]_apiVars /\ [~MacRoaming]_apiVars
           => QuietInv'
    <2> SUFFICES ASSUME ApiInv, QuietInv, [ApiNext]_apiVars,
                        [~MacRoaming]_apiVars
                 PROVE  QuietInv'
      OBVIOUS
    <2>1. IInv /\ Booted /\ CallShape
      BY DEF ApiInv
    <2>2. CASE UNCHANGED apiVars
      BY <2>2, ApiStutter
    <2>3. CASE Caller
      BY <2>1, <2>3, QuietCaller
    <2>4. CASE Task /\ ~MacRoaming
      BY <2>1, <2>4, QuietTask
    <2> QED BY <2>2, <2>3, <2>4 DEF ApiNext
  <1>2. QuietInv => DisconnectLasts
    BY DEF QuietInv, LastsInv, DisconnectLasts, Pending, Has
  <1> QED BY <1>1, <1>2, ApiInitInv, ApiInvariance, PTL DEF ApiSpec
=============================================================================
