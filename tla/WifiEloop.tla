----------------------------- MODULE WifiEloop -----------------------------
(***************************************************************************)
(* The event loop of wifi_manager/wifi_eloop.c and the message queue of    *)
(* rtos_wrapper/wrapper_rtthread.c beneath it.                             *)
(*                                                                         *)
(* One task runs wifi_eloop_run: it looks at the first timeout, sleeps on  *)
(* the queue until then, dispatches one message and calls one expired      *)
(* timeout.  Other tasks post messages: eloop_event_send looks at          *)
(* eloop.terminate, then sys_queue_post tries rt_mq_send and, when that    *)
(* fails, rt_mq_urgent; the task may be preempted between the three.       *)
(* wifi_eloop_terminate posts the TERMINATE message.                       *)
(*                                                                         *)
(* The millisecond clock is an unsigned number of limited width; the       *)
(* history of a timeout keeps the unlimited time it was meant for.         *)
(***************************************************************************)
EXTENDS Naturals, Sequences

CONSTANTS
    Senders,        \* tasks that post messages
    Deinit,         \* the one of them that calls wifi_eloop_terminate
    Handlers,       \* timeout callbacks
    Delays,         \* intervals they are registered with
    QueueCap,       \* MGMT_TASK_QUEUE_SIZE
    ClockMod,       \* 2^32
    WrapSub,        \* signed overflow in SYS_TIME_* wraps in this build
    StartTime,      \* milliseconds since boot when the loop starts
    MaxTime,        \* bound: the clock stops there
    MaxTimeouts,    \* bound: registered timeouts
    MaxSends        \* bound: calls of each sender

ASSUME EloopAssumption ==
    /\ Deinit \in Senders
    /\ QueueCap \in Nat \ {0}
    /\ ClockMod \in Nat \ {0, 1} /\ ClockMod % 2 = 0
    /\ WrapSub \in BOOLEAN
    /\ StartTime \in Nat /\ MaxTime \in Nat /\ StartTime <= MaxTime
    /\ Delays \subseteq Nat
    /\ MaxTimeouts \in Nat /\ MaxSends \in Nat \ {0}

VARIABLES
    clock,          \* milliseconds since boot, unlimited
    timeouts,       \* eloop.timeout
    terminate,      \* eloop.terminate
    queue,          \* message queue of the management task
    pc,             \* where the loop is
    wake,           \* when its sleep on the queue ends
    call,           \* where each sender is in eloop_event_send
    sent            \* calls each sender has made

vars == <<clock, timeouts, terminate, queue, pc, wake, call, sent>>
senderVars == <<call, sent>>

Messages == [from : Senders, n : 0..MaxSends]
Timeouts == [time : 0..ClockMod-1, handler : Handlers, due : Nat]
Forever == MaxTime + 1

-----------------------------------------------------------------------------
(* Time                                                                     *)

\* sys_current_time_get
Now == clock % ClockMod

\* The int32_t a C unsigned value is converted to, shifted by 2^31 so that
\* signed comparison is comparison of these.
Signed(a) == (a + ClockMod \div 2) % ClockMod

\* SYS_TIME_AFTER_EQ: (int32_t)(a) - (int32_t)(b) >= 0.  Where the subtraction
\* overflows, C leaves the result open: it wraps, or the compiler has turned
\* the test into a signed comparison of a and b.
AfterEq(a, b) == IF WrapSub THEN (a + ClockMod - b) % ClockMod < ClockMod \div 2
                 ELSE Signed(a) >= Signed(b)

\* SYS_TIME_BEFORE(a, b): (int32_t)(a) - (int32_t)(b) < 0
Before(a, b) == ~AfterEq(a, b)

-----------------------------------------------------------------------------
(* Timeouts                                                                 *)

\* Mutant: a new timeout goes to the end of the list.
AtEnd(list, t) == Append(list, t)

\* eloop_timeout_register puts the timeout before the first one whose time is
\* greater, comparing the unsigned times, and at the end when there is none.
Insert(list, t) ==
    LET later == {i \in 1..Len(list) : t.time < list[i].time}
        k == IF later = {} THEN Len(list) + 1
             ELSE CHOOSE i \in later : \A j \in later : i <= j
    IN SubSeq(list, 1, k - 1) \o <<t>> \o SubSeq(list, k, Len(list))

\* eloop_timeout_cancel takes the timeouts of a handler out of the list: what is
\* left are the others, in the order they had.
Cancel(list, h) ==
    LET others == {i \in 1..Len(list) : list[i].handler # h}
    IN \E n \in 0..Len(list) : \E place \in [1..n -> others] :
           /\ \A i, j \in 1..n : i < j => place[i] < place[j]
           /\ \A i \in others : \E k \in 1..n : place[k] = i
           /\ timeouts' = [k \in 1..n |-> list[place[k]]]

\* What a callback does to the timeouts it finds: nothing, register one,
\* cancel those of a handler.  Both refuse once the loop is terminated.
Callback(list) ==
    \/ timeouts' = list
    \/ /\ ~terminate /\ Len(list) < MaxTimeouts
       /\ \E h \in Handlers, d \in Delays :
              /\ clock + d <= MaxTime
              /\ timeouts' = Insert(list, [time |-> (Now + d) % ClockMod,
                                           handler |-> h, due |-> clock + d])
    \/ /\ ~terminate
       /\ \E h \in Handlers : Cancel(list, h)

\* Mutant: the first timeout is taken to have expired.
ExpiredAlways == timeouts # <<>>

Expired == timeouts # <<>> /\ AfterEq(Now, Head(timeouts).time)

-----------------------------------------------------------------------------
(* wifi_eloop_run and wifi_eloop_destroy                                    *)

\* Mutants of LoopTop: the sleep ignores the timeouts; the loop never sleeps
\* on the queue.
LoopTopForever ==
    /\ pc = "top" /\ ~terminate /\ pc' = "wait" /\ wake' = Forever
    /\ UNCHANGED <<clock, timeouts, terminate, queue, senderVars>>

LoopTopYields ==
    /\ pc = "top" /\ ~terminate /\ pc' = "handle" /\ UNCHANGED wake
    /\ UNCHANGED <<clock, timeouts, terminate, queue, senderVars>>

\* The look at the first timeout: sleep until then, or go on at once.
LoopTop ==
    /\ pc = "top" /\ ~terminate
    /\ IF timeouts = <<>> THEN pc' = "wait" /\ wake' = Forever
       ELSE IF Before(Now, Head(timeouts).time)
       THEN /\ pc' = "wait"
            /\ wake' = clock + ((Head(timeouts).time + ClockMod - Now) % ClockMod)
       ELSE pc' = "handle" /\ UNCHANGED wake
    /\ UNCHANGED <<clock, timeouts, terminate, queue, senderVars>>

LoopExit ==
    /\ pc = "top" /\ terminate /\ pc' = "drain"
    /\ UNCHANGED <<clock, timeouts, terminate, queue, wake, senderVars>>

\* Mutant: TERMINATE is handed to the handlers like any message.
DispatchNoTerminate ==
    /\ pc = "wait" /\ queue # <<>>
    /\ queue' = Tail(queue) /\ pc' = "handle"
    /\ Callback(timeouts)
    /\ UNCHANGED <<clock, terminate, wake, senderVars>>

\* A message ends the sleep: eloop_event_dispatch.
Dispatch ==
    /\ pc = "wait" /\ queue # <<>>
    /\ queue' = Tail(queue) /\ pc' = "handle"
    /\ \/ Head(queue).from = Deinit /\ terminate' = TRUE /\ UNCHANGED timeouts
       \/ /\ Head(queue).from # Deinit
          /\ Callback(timeouts) /\ UNCHANGED terminate
    /\ UNCHANGED <<clock, wake, senderVars>>

WaitTimeout ==
    /\ pc = "wait" /\ queue = <<>> /\ clock >= wake
    /\ pc' = "handle"
    /\ UNCHANGED <<clock, timeouts, terminate, queue, wake, senderVars>>

\* eloop_timeout_handle: one expired timeout at most.
TimeoutHandle ==
    /\ pc = "handle" /\ pc' = "top"
    /\ IF Expired THEN Callback(Tail(timeouts)) ELSE UNCHANGED timeouts
    /\ UNCHANGED <<clock, terminate, queue, wake, senderVars>>

DestroyDrain ==
    /\ pc = "drain" /\ queue # <<>> /\ queue' = Tail(queue)
    /\ UNCHANGED <<clock, timeouts, terminate, pc, wake, senderVars>>

Destroy ==
    /\ pc = "drain" /\ queue = <<>> /\ pc' = "done" /\ timeouts' = <<>>
    /\ UNCHANGED <<clock, terminate, queue, wake, senderVars>>

Loop == LoopTop \/ LoopExit \/ Dispatch \/ WaitTimeout \/ TimeoutHandle
        \/ DestroyDrain \/ Destroy

-----------------------------------------------------------------------------
(* eloop_event_send and eloop_message_send, in any task.  (The loop's own    *)
(* callbacks call them too: they are one more sender, between two steps of   *)
(* the loop.)                                                                *)

loopVars == <<clock, timeouts, terminate, pc, wake>>

Return(s) == /\ call' = [call EXCEPT ![s] = "none"]
             /\ sent' = [sent EXCEPT ![s] = @ + 1]

Message(s) == [from |-> s, n |-> sent[s]]

\* Deinit calls wifi_eloop_terminate once.
SendStart(s) ==
    /\ call[s] = "none"
    /\ sent[s] < IF s = Deinit THEN 1 ELSE MaxSends
    /\ \/ terminate /\ Return(s)
       \/ ~terminate /\ call' = [call EXCEPT ![s] = "send"] /\ UNCHANGED sent
    /\ UNCHANGED <<loopVars, queue>>

\* rt_mq_send
MqSend(s) ==
    /\ call[s] = "send"
    /\ \/ /\ Len(queue) < QueueCap
          /\ queue' = Append(queue, Message(s)) /\ Return(s)
       \/ /\ Len(queue) >= QueueCap
          /\ call' = [call EXCEPT ![s] = "urgent"]
          /\ UNCHANGED <<queue, sent>>
    /\ UNCHANGED loopVars

\* Mutant: the urgent post does not look at the room left.
MqUrgentForced(s) ==
    /\ call[s] = "urgent" /\ queue' = <<Message(s)>> \o queue
    /\ Return(s) /\ UNCHANGED loopVars

\* rt_mq_urgent: the message goes to the head of the queue, if by now there is
\* room; otherwise it is lost and the caller is told.
MqUrgent(s) ==
    /\ call[s] = "urgent"
    /\ queue' = IF Len(queue) < QueueCap THEN <<Message(s)>> \o queue ELSE queue
    /\ Return(s)
    /\ UNCHANGED loopVars

Send == \E s \in Senders : SendStart(s) \/ MqSend(s) \/ MqUrgent(s)

Tick == /\ clock < MaxTime /\ clock' = clock + 1
        /\ UNCHANGED <<timeouts, terminate, queue, pc, wake, senderVars>>

-----------------------------------------------------------------------------
Init ==
    /\ clock = StartTime /\ timeouts = <<>> /\ terminate = FALSE
    /\ queue = <<>> /\ pc = "top" /\ wake = 0
    /\ call = [s \in Senders |-> "none"] /\ sent = [s \in Senders |-> 0]

Next == Loop \/ Send \/ Tick

Spec == Init /\ [][Next]_vars

\* The loop's task is scheduled, senders return from their calls, time passes.
FairSpec == /\ Spec /\ WF_vars(Loop) /\ WF_vars(Tick)
            /\ \A s \in Senders : WF_vars(MqSend(s) \/ MqUrgent(s))

-----------------------------------------------------------------------------
(* Properties                                                               *)

\* Every variable has its type; the queue never exceeds its size.
TypeOK ==
    /\ clock \in Nat /\ terminate \in BOOLEAN
    /\ timeouts \in Seq(Timeouts)
    /\ queue \in Seq(Messages) /\ Len(queue) <= QueueCap
    /\ pc \in {"top", "wait", "handle", "drain", "done"}
    /\ wake \in Nat
    /\ call \in [Senders -> {"none", "send", "urgent"}]
    /\ sent \in [Senders -> 0..MaxSends]

\* "Maintain timeouts in order of increasing time": the first timeout of the
\* list, the only one the loop looks at, is the one due first.
InOrder ==
    \A i, j \in 1..Len(timeouts) : i < j => timeouts[i].due <= timeouts[j].due

\* The loop never sleeps past a timeout, whichever callbacks registered and
\* cancelled timeouts before it went to sleep.
SleepsInTime ==
    pc = "wait" => \A i \in 1..Len(timeouts) : wake <= timeouts[i].due

\* No callback runs before its time, however late messages and other
\* callbacks made the loop: eloop_timeout_handle looks at the clock again.
NeverEarly ==
    [][pc = "handle" /\ timeouts # <<>> /\ Head(timeouts).due > clock
           => timeouts' = timeouts]_vars

\* Messages of one task are dispatched in the order of its calls: "process
\* events in FIFO order".
Fifo ==
    \A i, j \in 1..Len(queue) :
        i < j /\ queue[i].from = queue[j].from => queue[i].n < queue[j].n

Registered(h, t) ==
    \E i \in 1..Len(timeouts) : timeouts[i].handler = h /\ timeouts[i].due = t

\* Every timeout is called, cancelled or freed in the end, although the loop
\* serves one per round and messages compete with it.
TimeoutsServed ==
    \A h \in Handlers, t \in 0..MaxTime : Registered(h, t) ~> ~Registered(h, t)

Queued(s, n) == \E i \in 1..Len(queue) : queue[i] = [from |-> s, n |-> n]

\* Every message that is accepted is dispatched or drained, although the loop
\* fetches none while a timeout is due and later ones may overtake it.
MessagesServed ==
    \A s \in Senders, n \in 0..MaxSends :
        Queued(s, n) ~> (~Queued(s, n) \/ pc = "done")

\* The TERMINATE message, once accepted, ends the loop and frees its timeouts.
TerminateEnds ==
    (\E i \in 1..Len(queue) : queue[i].from = Deinit)
        ~> (pc = "done" /\ timeouts = <<>>)
=============================================================================
