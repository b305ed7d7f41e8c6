---------------------------- MODULE WifiMgmtApi ----------------------------
(***************************************************************************)
(* The blocking functions of wifi_management.c that applications and the   *)
(* shell call, composed with the management task of WifiMgmt.              *)
(*                                                                         *)
(* A call is a short sequence of steps in the caller's own thread: post a  *)
(* message to the task, flush mgmt_wait_queue, wait on it for the answer.  *)
(* The task, its timers and the MAC run between any two of them, and the   *)
(* wait may time out at any moment.  The answers carry no trace of the     *)
(* call they answer: whether a caller can rely on what it is told is what  *)
(* this module is about.  One thread calls (mgmt_wait_queue has room for   *)
(* one: a second caller's fetch throws the first one's answer away).       *)
(***************************************************************************)
EXTENDS WifiMgmt

CONSTANT Ops            \* the functions the thread may call

Functions == {"connect", "connect_with_bssid", "connect_nowait", "disconnect",
              "scan", "scan_nowait", "ap_start", "ap_stop", "sta_start",
              "monitor_start"}

ASSUME OpsAssumption == Ops \subseteq Functions

VARIABLES
    op,                 \* the function called last
    todo,               \* steps it has still to take
    ret,                \* what it has returned, "none" while it runs
    entered,            \* history: CONNECTED was entered during the call
    late,               \* history: some call has timed out
    crowded             \* history: during the call mgmt_wait_queue was full

callVars == <<op, todo, ret>>
histVars == <<entered, late, crowded>>
apiVars == <<vars, callVars, histVars>>

-----------------------------------------------------------------------------
(* The functions as sequences of steps                                      *)

Post(m) == [do |-> "post", msg |-> m]           \* give up when it fails
Try(m) == [do |-> "try", msg |-> m]             \* ignore the result
Flush == [do |-> "flush"]                       \* mgmt_wait_queue_flush
Blocked(b) == [do |-> "blocked", flag |-> b]    \* set scan_blocked
Wait(e) == [do |-> "wait", evt |-> e]           \* mgmt_wait_queue_fetch

Switch(t) == Msg("SWITCH_MODE_CMD", t)

\* Mutants: the flush comes after the command; the old AP is not stopped.
ConnectFlushLate(cfg) ==
    <<Post(Switch("STA")), Post(Msg("CONNECT_CMD", cfg)), Flush>>

DisconnectFlushLate ==
    <<Post(Msg("DISCONNECT_CMD", "none")), Flush, Wait("DISCONN_DONE")>>

ApStartNoStop == <<Post(Switch("AP")), Flush,
                   Post(Msg("START_AP_CMD", "none")), Wait("AP_START_DONE")>>

\* wifi_management_connect, up to the wait of a blocked one.
Connect(cfg) == <<Post(Switch("STA")), Flush, Post(Msg("CONNECT_CMD", cfg))>>

Disconnect == <<Flush, Post(Msg("DISCONNECT_CMD", "none")), Wait("DISCONN_DONE")>>

\* Without concurrent mode: ap_stop, whose result is ignored, then the start.
ApStart == <<Try(Switch("STA")), Post(Switch("AP")), Flush,
             Post(Msg("START_AP_CMD", "none")), Wait("AP_START_DONE")>>

\* What each function will do, given the type of the interface at its call.
Steps(f) ==
    CASE f \in {"connect", "connect_with_bssid"} ->
             Connect("cfg_blocked") \o <<Wait("CONN_DONE")>>
      [] f = "connect_nowait" -> Connect("cfg_nowait")
      [] f = "disconnect" -> IF wvif_type = "STA" THEN Disconnect ELSE <<>>
      [] f = "scan" -> <<Post(Msg("SCAN_CMD", "none")), Flush,
                         Blocked(TRUE), Wait("SCAN_DONE")>>
      [] f = "scan_nowait" -> <<Post(Msg("SCAN_CMD", "none")), Flush,
                                Blocked(FALSE)>>
      [] f = "ap_start" -> ApStart
      [] f \in {"ap_stop", "sta_start"} -> <<Post(Switch("STA"))>>
      [] f = "monitor_start" ->
             (IF wvif_type = "MONITOR" THEN <<Post(Switch("STA"))>> ELSE <<>>)
             \o <<Post(Switch("MONITOR")),
                  Post(Msg("MONITOR_START_CMD", "none")), Flush,
                  Wait("MONITOR_START_DONE")>>

-----------------------------------------------------------------------------
(* The caller's thread                                                      *)

\* A function without steps has returned 0 ("not station mode, do nothing").
Call ==
    /\ todo = <<>> /\ cmds < MaxCmds /\ cmds' = cmds + 1
    /\ \E f \in Ops : /\ op' = f /\ todo' = Steps(f)
                      /\ ret' = IF Steps(f) = <<>> THEN "NOT_STA" ELSE "none"
    /\ entered' = FALSE /\ crowded' = FALSE
    /\ UNCHANGED <<smVars, dhcp_polling_count, roamVars, blockVars, timerVars,
                   qVars, wait_queue, macVars, inds, late>>

At(what) == todo # <<>> /\ Head(todo).do = what

\* Go on to the next step; after the last one the result is r, unless the
\* call has one already (a connect that disconnects after its timeout).
Advance(r) ==
    /\ todo' = Tail(todo)
    /\ ret' = IF Tail(todo) = <<>> /\ ret = "none" THEN r ELSE ret
    /\ UNCHANGED <<op, histVars>>

Return(r) == /\ todo' = <<>> /\ ret' = IF ret = "none" THEN r ELSE ret
             /\ UNCHANGED <<op, histVars>>

\* eloop_message_send: a full queue ends the call, except that ap_start does
\* not look at what ap_stop returned.
CallPost ==
    /\ At("post") \/ At("try")
    /\ \/ /\ Len(queue) < QueueCap
          /\ queue' = Append(queue, Head(todo).msg) /\ UNCHANGED dropped
          /\ Advance("0")
       \/ /\ Len(queue) >= QueueCap /\ At("post")
          /\ UNCHANGED qVars /\ Return("ERROR")
       \/ /\ Len(queue) >= QueueCap /\ At("try")
          /\ UNCHANGED queue /\ dropped' = TRUE /\ Advance("0")
    /\ UNCHANGED <<smVars, dhcp_polling_count, roamVars, blockVars, timerVars,
                   wait_queue, macVars, envVars>>

\* One round of mgmt_wait_queue_flush.
CallFlush ==
    /\ At("flush")
    /\ IF wait_queue = <<>> THEN Advance("0") /\ UNCHANGED wait_queue
       ELSE wait_queue' = Tail(wait_queue) /\ UNCHANGED <<callVars, histVars>>
    /\ UNCHANGED <<smVars, dhcp_polling_count, roamVars, blockVars, timerVars,
                   qVars, macVars, envVars>>

CallBlocked ==
    /\ At("blocked") /\ scan_blocked' = Head(todo).flag /\ Advance("0")
    /\ UNCHANGED <<smVars, dhcp_polling_count, roamVars, conn_blocked,
                   timerVars, qVars, wait_queue, macVars, envVars>>

\* Mutant: any event is taken for the answer.
CallFetchAny ==
    /\ At("wait") /\ wait_queue # <<>> /\ wait_queue' = Tail(wait_queue)
    /\ Advance(IF Head(wait_queue).reason = "SUCCESS" THEN "0" ELSE "FAIL")
    /\ UNCHANGED <<smVars, dhcp_polling_count, roamVars, blockVars, timerVars,
                   qVars, macVars, envVars>>

\* One round of mgmt_wait_queue_fetch: another event is thrown away.
CallFetch ==
    /\ At("wait") /\ wait_queue # <<>> /\ wait_queue' = Tail(wait_queue)
    /\ IF Head(wait_queue).evt # Head(todo).evt
       THEN UNCHANGED <<callVars, histVars>>
       ELSE Advance(IF Head(wait_queue).reason = "SUCCESS" THEN "0" ELSE "FAIL")
    /\ UNCHANGED <<smVars, dhcp_polling_count, roamVars, blockVars, timerVars,
                   qVars, macVars, envVars>>

\* 0xFFFF: wifi_management_connect then disconnects, the others return.
CallTimeout ==
    /\ At("wait") /\ wait_queue = <<>>
    /\ ret' = IF ret = "none" THEN "TIMEOUT" ELSE ret
    /\ todo' = IF op = "connect" /\ ret = "none" THEN Steps("disconnect") ELSE <<>>
    /\ late' = TRUE
    /\ UNCHANGED <<vars, op, entered, crowded>>

Caller == Call \/ CallPost \/ CallFlush \/ CallBlocked \/ CallFetch
          \/ CallTimeout

\* A step of the task, of its timers or of the MAC, with its history.
Task ==
    /\ Handle \/ Timers \/ Mac
    /\ entered' = (entered \/ (sm_state # CONNECTED /\ sm_state' = CONNECTED))
    /\ crowded' = (crowded \/ Len(wait_queue') >= WaitCap)
    /\ UNCHANGED <<callVars, late>>

ApiInit == /\ Init
           /\ op = "none" /\ todo = <<>> /\ ret = "none"
           /\ entered = FALSE /\ late = FALSE /\ crowded = FALSE

ApiNext == Caller \/ Task

ApiSpec == ApiInit /\ [][ApiNext]_apiVars

-----------------------------------------------------------------------------
(* Properties                                                               *)

Answered(e) == \E i \in 1..Len(wait_queue) : wait_queue[i].evt = e

Waiting(e) == At("wait") /\ Head(todo).evt = e

\* A blocked connect never waits in vain: its command is queued, its answer
\* has come, or the machine remembers that somebody waits.  (The answer is
\* lost when it finds mgmt_wait_queue full, and so is that of any other call:
\* nobody looks at the result of the post.)
ConnectRemembered ==
    Waiting("CONN_DONE") /\ ~crowded =>
        Pending("CONNECT_CMD") \/ Answered("CONN_DONE") \/ conn_blocked

\* A disconnect never waits in vain either, in whatever state the command
\* reaches the machine, as long as the interface is still the station it was
\* when wifi_management_disconnect looked at its type.
DisconnectAnswered ==
    Waiting("DISCONN_DONE") /\ wvif_type = "STA" /\ ~crowded =>
        Pending("DISCONNECT_CMD") \/ Answered("DISCONN_DONE")

\* Nor does the start of a soft AP, unless its mode switch was lost.
ApStartAnswered ==
    Waiting("AP_START_DONE") /\ ~crowded =>
        Pending("START_AP_CMD") \/ Answered("AP_START_DONE") \/ dropped

\* "Disconnect with AP", "0 on success": a disconnect that reports success is
\* final: until the next call the station is idle or will be (the answer may
\* be that of an earlier IDLE).  Holds as long as the MAC does not hint at
\* roaming, see the run of MCWifiMgmtApiRoam.cfg.
DisconnectLasts ==
    op = "disconnect" /\ ret = "0" /\ wvif_type = "STA" =>
        sm_state = IDLE \/ Pending("DISCONNECT_CMD")

\* ap_start and monitor_start return 0 only when the machine has started, as
\* long as no late answer of an earlier call can be mistaken for theirs.
StartMeansStarted ==
    op \in {"ap_start", "monitor_start"} /\ ret = "0" /\ ~late =>
        wvif_type # "STA" /\ sm_state = STARTED

\* "0 on success and != 0 if error occured": a blocked connect that returns
\* 0 has been connected.
ConnectZeroMeansConnected ==
    op \in {"connect", "connect_with_bssid"} /\ ret = "0" => entered
=============================================================================
