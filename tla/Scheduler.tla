------------------------------ MODULE Scheduler ------------------------------
(****************************************************************************)
(* Threads, waits, virtual time and interrupts of the emulated PSP kernel:  *)
(* profiles/mhp3rd/host/kernel/kernel.cpp and the ThreadManForUser calls of *)
(* hle/hle_threadman.cpp.  One emulated CPU runs guest code: the current    *)
(* thread or, while `active`, an interrupt handler.  An HLE call is atomic; *)
(* what interleaves is the guest code, the clock and the host's answers.    *)
(*                                                                          *)
(* The modules of the synchronization objects extend this one.  Every       *)
(* object has a FIFO of waiting threads, so `waiters` is declared here,     *)
(* where a timeout or a termination takes a thread out of it.               *)
(*                                                                          *)
(* Time is kept relative to now_us_: a deadline is the time left until it,  *)
(* in starvation quanta (1000 us), so the clock itself needs no bound.      *)
(****************************************************************************)
EXTENDS Integers, SequencesExt

CONSTANTS
  Threads,          \* thread uids; uids are never reused
  Loader,           \* the thread start_loader_thread makes current
  InitialPriority,  \* [Threads -> Priorities]; a smaller number is more urgent
  Priorities,
  Objects,          \* uids of the semaphores, event flags or mutexes
  Requests,         \* what a wait on an object may ask for
  NoObject, NoRequest,
  Delays,           \* delays and timeouts the guest asks for, in quanta
  VBlankPeriod,     \* kVBlankPeriodUs in quanta
  VBlankHandler,    \* whether a vblank sub-interrupt handler is enabled
  IdleVBlankLimit,  \* kIdleVBlankLimit
  HandlersWait,     \* whether interrupt handlers also call waiting functions
  MaxWakeups,       \* bound on a thread's wakeup_count
  MaxPending        \* bound on queued interrupt calls; the queue saturates

NoThread == 0       \* current_uid_ when no thread has the CPU
Forever == -1       \* a wait without a deadline

ASSUME ThreadsAssumption ==
  /\ IsFiniteSet(Threads) /\ Threads \subseteq Nat \ {NoThread}
  /\ Loader \in Threads
  /\ Priorities \subseteq Nat
  /\ InitialPriority \in [Threads -> Priorities]
  /\ NoObject \notin Objects
  /\ NoRequest \notin Requests

ASSUME TimeAssumption ==
  /\ Delays \subseteq Nat
  /\ VBlankPeriod \in Nat \ {0}
  /\ VBlankHandler \in BOOLEAN
  /\ HandlersWait \in BOOLEAN
  /\ IdleVBlankLimit \in Nat
  /\ MaxWakeups \in Nat
  /\ MaxPending \in Nat \ {0}

VARIABLES
  status,       \* Thread::status, and "Uncreated" or "Deleted" without a Thread
  wait,         \* Thread::wait
  prio,         \* Thread::priority
  wakeups,      \* Thread::wakeup_count
  ready,        \* the Ready threads by ready_sequence
  current,      \* current_uid_
  waiters,      \* the waiters deque of every object
  dispatch,     \* dispatch_enabled_
  intr,         \* interrupts_enabled_
  active,       \* interrupt_active_
  idleIntr,     \* interrupted_idle_
  pending,      \* number of calls in pending_interrupts_
  vblankLeft,   \* next_vblank_us_ - now_us_
  idleVBlanks,  \* idle_vblanks_
  stopped       \* the scheduler reported a deadlock and stopped the runtime

threadVars == <<status, wait, prio, wakeups, ready, current>>
intrVars == <<active, idleIntr, pending>>
schedVars == <<threadVars, waiters, dispatch, intrVars, intr, vblankLeft,
               idleVBlanks, stopped>>

WaitTypes == {"None", "Delay", "Sleep", "VBlank", "Host", "Object"}
WaitStates == [type : WaitTypes, object : Objects \cup {NoObject},
               request : Requests \cup {NoRequest},
               left : Delays \cup Nat \cup {Forever}]

Wait(type, left) == [type |-> type, object |-> NoObject,
                     request |-> NoRequest, left |-> left]
WaitOn(o, request, left) == [type |-> "Object", object |-> o,
                             request |-> request, left |-> left]
NoWait == Wait("None", Forever)

Exists(t) == status[t] \notin {"Uncreated", "Deleted"}

(* Guest code is running: a thread, or a handler in interrupt context. *)
Guest == active \/ current # NoThread

SchedInit ==
  /\ status = [t \in Threads |-> IF t = Loader THEN "Running" ELSE "Uncreated"]
  /\ wait = [t \in Threads |-> NoWait]
  /\ prio = InitialPriority
  /\ wakeups = [t \in Threads |-> 0]
  /\ ready = << >>
  /\ current = Loader
  /\ waiters = [o \in Objects |-> << >>]
  /\ dispatch = TRUE
  /\ intr = TRUE
  /\ active = FALSE
  /\ idleIntr = FALSE
  /\ pending = 0
  /\ vblankLeft = VBlankPeriod
  /\ idleVBlanks = 0
  /\ stopped = FALSE

-----------------------------------------------------------------------------
(* The parts the handlers are made of.                                     *)

(* q without the members of S: std::remove on a deque of waiters. *)
Drop(q, S) ==
  LET kept[i \in 0..Len(q)] ==
        IF i = 0 THEN << >>
        ELSE IF q[i] \in S THEN kept[i - 1] ELSE Append(kept[i - 1], q[i])
  IN kept[Len(q)]

(* The loops over threads_ visit a std::map, that is in order of uid. *)
UidOrders(S) ==
  {s \in SetToSeqs(S) : \A i, j \in DOMAIN s : i < j => s[i] < s[j]}

(* make_ready on every thread of W, apart from the place in `ready`. *)
MadeReady(st, W) == [t \in Threads |-> IF t \in W THEN "Ready" ELSE st[t]]
NotWaiting(wt, W) == [t \in Threads |-> IF t \in W THEN NoWait ELSE wt[t]]

(* The loops of cancel_waiters and release_*_waiters skip an entry whose   *)
(* thread does not wait.  Releasable(q)[i] are the threads they find among *)
(* the first i entries of q, in order.                                     *)
Waiting == {t \in Threads : status[t] = "Waiting"}
Releasable(q) ==
  LET found[i \in 0..Len(q)] ==
        IF i = 0 THEN << >>
        ELSE IF q[i] \in Waiting /\ q[i] \notin ToSet(found[i - 1])
             THEN Append(found[i - 1], q[i]) ELSE found[i - 1]
  IN found

(* Mutant: a thread that no longer waits stays in its queue. *)
DequeuedNobody(W) == waiters
(* remove_waiter on every thread of W: out of the queue it waits in. *)
Dequeued(W) ==
  [o \in Objects |->
     Drop(waiters[o], {t \in W : wait[t].type = "Object" /\ wait[t].object = o})]

(* best_ready_thread: the most urgent, the longest ready among equals. *)
IsBest(rdy, i) ==
  \A j \in DOMAIN rdy :
     \/ prio'[rdy[i]] < prio'[rdy[j]]
     \/ prio'[rdy[i]] = prio'[rdy[j]] /\ i <= j

Keep(st, wt, rdy) ==
  /\ status' = st
  /\ wait' = wt
  /\ ready' = rdy
  /\ UNCHANGED <<current, idleVBlanks>>

(* Mutant: idle vblanks keep counting across threads that ran. *)
SwitchToStillIdle(st, wt, rdy, i) ==
  /\ status' = [st EXCEPT ![rdy[i]] = "Running"]
  /\ wait' = wt
  /\ ready' = RemoveAt(rdy, i)
  /\ current' = rdy[i]
  /\ UNCHANGED idleVBlanks

SwitchTo(st, wt, rdy, i) ==
  /\ status' = [st EXCEPT ![rdy[i]] = "Running"]
  /\ wait' = wt
  /\ ready' = RemoveAt(rdy, i)
  /\ current' = rdy[i]
  /\ idleVBlanks' = 0

(* Mutant: preempts while dispatching is suspended. *)
RescheduleAlways(st, wt, rdy, tie) ==
  LET beats(t) == prio'[t] < prio'[current] \/ (tie /\ prio'[t] = prio'[current])
  IN \/ \E i \in DOMAIN rdy :
           /\ IsBest(rdy, i)
           /\ beats(rdy[i])
           /\ SwitchTo([st EXCEPT ![current] = "Ready"],
                       [wt EXCEPT ![current] = NoWait],
                       Append(rdy, current), i)
     \/ /\ \A i \in DOMAIN rdy : ~beats(rdy[i])
        /\ Keep(st, wt, rdy)

(* The current thread gives way to the best ready thread if that one is    *)
(* more urgent or, with `tie`, as urgent.                                  *)
Reschedule(st, wt, rdy, tie) ==
  LET beats(t) == prio'[t] < prio'[current] \/ (tie /\ prio'[t] = prio'[current])
  IN \/ /\ dispatch'
        /\ \E i \in DOMAIN rdy :
              /\ IsBest(rdy, i)
              /\ beats(rdy[i])
              /\ SwitchTo([st EXCEPT ![current] = "Ready"],
                          [wt EXCEPT ![current] = NoWait],
                          Append(rdy, current), i)
     \/ /\ dispatch' => \A i \in DOMAIN rdy : ~beats(rdy[i])
        /\ Keep(st, wt, rdy)

BeginInterrupt(pend, fromIdle) ==
  /\ active' = TRUE
  /\ idleIntr' = fromIdle
  /\ pending' = pend - 1

(* Kernel::finish, which ends every call that does not block: st, wt and   *)
(* rdy are the threads as the call leaves them.                            *)
Finish(st, wt, rdy) ==
  \/ /\ active
     /\ Keep(st, wt, rdy)
     /\ UNCHANGED intrVars
  \/ /\ ~active /\ intr' /\ pending > 0
     /\ Keep(st, wt, rdy)
     /\ BeginInterrupt(pending, FALSE)
  \/ /\ ~active /\ ~(intr' /\ pending > 0)
     /\ Reschedule(st, wt, rdy, FALSE)
     /\ UNCHANGED intrVars

(* wake on every thread of the sequence woken, then finish. *)
WakeAndFinish(woken) ==
  Finish(MadeReady(status, ToSet(woken)), NotWaiting(wait, ToSet(woken)),
         ready \o woken)

(* The threads cancel_waiters wakes, in order. *)
Cancelled(o) == Releasable(waiters[o])[Len(waiters[o])]

(* Kernel::block; its call of schedule() is the loop of Schedule below.     *)
(* In interrupt context it only answers kCanNotWait.                        *)
Block(w) ==
  /\ \/ /\ active
        /\ UNCHANGED <<status, wait, current>>
     \/ /\ ~active
        /\ status' = [status EXCEPT ![current] = "Waiting"]
        /\ wait' = [wait EXCEPT ![current] = w]
        /\ current' = NoThread
  /\ UNCHANGED <<ready, idleVBlanks, intrVars>>

(* Who may call a function that waits. *)
WaitCaller == Guest /\ (active => HandlersWait)

-----------------------------------------------------------------------------
(* Calls of ThreadManForUser.                                              *)

(* A call that fails its checks, or only reads, still ends in finish. *)
PlainCall ==
  /\ Guest
  /\ UNCHANGED <<prio, wakeups, waiters, dispatch, intr, vblankLeft, stopped>>
  /\ Finish(status, wait, ready)

CreateThread(t) ==
  /\ Guest /\ status[t] = "Uncreated"
  /\ UNCHANGED <<prio, wakeups, waiters, dispatch, intr, vblankLeft, stopped>>
  /\ Finish([status EXCEPT ![t] = "Dormant"], wait, ready)

StartThread(t) ==
  /\ Guest /\ status[t] = "Dormant"
  /\ prio' = [prio EXCEPT ![t] = InitialPriority[t]]
  /\ wakeups' = [wakeups EXCEPT ![t] = 0]
  /\ UNCHANGED <<waiters, dispatch, intr, vblankLeft, stopped>>
  /\ WakeAndFinish(<<t>>)

Gone(delete) == IF delete THEN "Deleted" ELSE "Dormant"

(* exit_current_thread; nothing waits for a thread's end in this kernel. *)
ExitThread(delete) ==
  /\ current # NoThread /\ ~active
  /\ status' = [status EXCEPT ![current] = Gone(delete)]
  /\ current' = NoThread
  /\ UNCHANGED <<wait, prio, wakeups, ready, waiters, dispatch, intr, intrVars,
                 vblankLeft, idleVBlanks, stopped>>

(* Mutant: a terminated thread stays in the run queue. *)
TerminateThreadStillReady(t, delete) ==
  /\ Guest /\ Exists(t) /\ t # current
  /\ waiters' = Dequeued(IF status[t] = "Waiting" THEN {t} ELSE {})
  /\ UNCHANGED <<prio, wakeups, dispatch, intr, vblankLeft, stopped>>
  /\ Finish([status EXCEPT ![t] = Gone(delete)], wait, ready)

TerminateThread(t, delete) ==
  /\ Guest /\ Exists(t) /\ t # current
  /\ waiters' = Dequeued(IF status[t] = "Waiting" THEN {t} ELSE {})
  /\ UNCHANGED <<prio, wakeups, dispatch, intr, vblankLeft, stopped>>
  /\ Finish([status EXCEPT ![t] = Gone(delete)], wait, Drop(ready, {t}))

DeleteThread(t) ==
  /\ Guest /\ status[t] = "Dormant"
  /\ UNCHANGED <<prio, wakeups, waiters, dispatch, intr, vblankLeft, stopped>>
  /\ Finish([status EXCEPT ![t] = "Deleted"], wait, ready)

(* A ready thread moves behind the threads of its new priority. *)
ChangePriority(t, p) ==
  /\ Guest /\ Exists(t) /\ status[t] # "Dormant"
  /\ prio' = [prio EXCEPT ![t] = p]
  /\ UNCHANGED <<wakeups, waiters, dispatch, intr, vblankLeft, stopped>>
  /\ Finish(status, wait,
            IF status[t] = "Ready" THEN Append(Drop(ready, {t}), t) ELSE ready)

(* Mutant: sleeps whatever woke it before. *)
SleepThreadAnyway ==
  /\ WaitCaller
  /\ UNCHANGED <<prio, wakeups, waiters, dispatch, intr, vblankLeft, stopped>>
  /\ Block(Wait("Sleep", Forever))

(* A wakeup that came first is consumed instead of waiting. *)
SleepThread ==
  /\ WaitCaller
  /\ UNCHANGED <<prio, waiters, dispatch, intr, vblankLeft, stopped>>
  /\ \/ /\ current # NoThread /\ wakeups[current] > 0
        /\ wakeups' = [wakeups EXCEPT ![current] = @ - 1]
        /\ Finish(status, wait, ready)
     \/ /\ current # NoThread => wakeups[current] = 0
        /\ UNCHANGED wakeups
        /\ Block(Wait("Sleep", Forever))

WakeupThread(t) ==
  /\ Guest /\ Exists(t)
  /\ UNCHANGED <<prio, waiters, dispatch, intr, vblankLeft, stopped>>
  /\ \/ /\ status[t] = "Waiting" /\ wait[t].type = "Sleep"
        /\ UNCHANGED wakeups
        /\ WakeAndFinish(<<t>>)
     \/ /\ ~(status[t] = "Waiting" /\ wait[t].type = "Sleep")
        /\ wakeups[t] < MaxWakeups
        /\ wakeups' = [wakeups EXCEPT ![t] = @ + 1]
        /\ Finish(status, wait, ready)

(* delay_current waits at least one microsecond. *)
DelayThread(d) ==
  /\ WaitCaller /\ d > 0
  /\ UNCHANGED <<prio, wakeups, waiters, dispatch, intr, vblankLeft, stopped>>
  /\ Block(Wait("Delay", d))

WaitVBlank ==
  /\ WaitCaller
  /\ UNCHANGED <<prio, wakeups, waiters, dispatch, intr, vblankLeft, stopped>>
  /\ Block(Wait("VBlank", Forever))

(* wait_host: the host may answer the first poll; a zero timeout ends in a *)
(* last poll; otherwise the thread waits for an answer or the deadline.    *)
WaitHost(d) ==
  /\ WaitCaller
  /\ UNCHANGED <<prio, wakeups, waiters, dispatch, intr, vblankLeft, stopped>>
  /\ \/ Finish(status, wait, ready)
     \/ d # 0 /\ Block(Wait("Host", d))

(* Mutant: resuming dispatching does not look for a more urgent thread. *)
SetDispatchOnly(enabled) ==
  /\ Guest
  /\ dispatch' = enabled
  /\ UNCHANGED <<prio, wakeups, waiters, intr, vblankLeft, stopped, intrVars>>
  /\ Keep(status, wait, ready)

SetDispatch(enabled) ==
  /\ Guest
  /\ dispatch' = enabled
  /\ UNCHANGED <<prio, wakeups, waiters, intr, vblankLeft, stopped>>
  /\ Finish(status, wait, ready)

SetInterrupts(enabled) ==
  /\ Guest
  /\ intr' = enabled
  /\ UNCHANGED <<prio, wakeups, waiters, dispatch, vblankLeft, stopped>>
  /\ Finish(status, wait, ready)

-----------------------------------------------------------------------------
(* Time: process_timers runs with the deadlines already moved closer (wt)  *)
(* and vb quanta left to the vblank.                                       *)

(* Mutant: the deadline of a host wait does not come closer. *)
AgedExceptHost(d) ==
  [t \in Threads |->
     IF status[t] = "Waiting" /\ wait[t].left # Forever /\ wait[t].type # "Host"
     THEN [wait[t] EXCEPT !.left = @ - d] ELSE wait[t]]

Aged(d) ==
  [t \in Threads |->
     IF status[t] = "Waiting" /\ wait[t].left # Forever
     THEN [wait[t] EXCEPT !.left = @ - d] ELSE wait[t]]

VBlankWoken(vb) ==
  {t \in Threads : vb = 0 /\ status[t] = "Waiting" /\ wait[t].type = "VBlank"}
HostWaiters == {t \in Threads : status[t] = "Waiting" /\ wait[t].type = "Host"}
(* Mutant: only delays time out. *)
OverdueDelays(wt) ==
  {t \in Threads : status[t] = "Waiting" /\ wt[t].type = "Delay" /\ wt[t].left = 0}
Overdue(wt) == {t \in Threads : status[t] = "Waiting" /\ wt[t].left = 0}

PendingAfter(vb) ==
  IF vb = 0 /\ VBlankHandler /\ pending < MaxPending THEN pending + 1 ELSE pending

(* on_vblank wakes its waiters first, then the threads whose deadline has  *)
(* passed or whose host poll answered are made ready.                      *)
WakeOrders(vb, due) ==
  {a \o b : a \in UidOrders(VBlankWoken(vb)), b \in UidOrders(due)}

(* Mutant: the next vblank is not set. *)
TimersProcessedOneVBlank(vb, due) ==
  /\ waiters' = Dequeued(due)
  /\ vblankLeft' = vb

TimersProcessed(vb, due) ==
  /\ waiters' = Dequeued(due)
  /\ vblankLeft' = IF vb = 0 THEN VBlankPeriod ELSE vb

(* Mutants: equals never give way; a boundary takes no interrupt. *)
PreemptStrictly(st, wt, rdy, pend) ==
  \/ /\ intr /\ pend > 0
     /\ Keep(st, wt, rdy)
     /\ BeginInterrupt(pend, FALSE)
  \/ /\ ~(intr /\ pend > 0)
     /\ Reschedule(st, wt, rdy, FALSE)
     /\ pending' = pend
     /\ UNCHANGED <<active, idleIntr>>
PreemptByThreads(st, wt, rdy, pend) ==
  /\ Reschedule(st, wt, rdy, TRUE)
  /\ pending' = pend
  /\ UNCHANGED <<active, idleIntr>>

(* An interrupt, or else a thread as urgent as the current one, comes first. *)
Preempt(st, wt, rdy, pend) ==
  \/ /\ intr /\ pend > 0
     /\ Keep(st, wt, rdy)
     /\ BeginInterrupt(pend, FALSE)
  \/ /\ ~(intr /\ pend > 0)
     /\ Reschedule(st, wt, rdy, TRUE)
     /\ pending' = pend
     /\ UNCHANGED <<active, idleIntr>>

(* on_starvation: a quantum passes while a thread runs. *)
Starvation ==
  /\ ~active /\ current # NoThread
  /\ UNCHANGED <<prio, wakeups, dispatch, intr, stopped>>
  /\ \E answered \in SUBSET HostWaiters :
       LET wt == Aged(1)
           vb == vblankLeft - 1
           due == Overdue(wt) \cup answered
           woken == VBlankWoken(vb) \cup due
           pend == PendingAfter(vb)
       IN /\ TimersProcessed(vb, due)
          /\ \E order \in WakeOrders(vb, due) :
               Preempt(MadeReady(status, woken), NotWaiting(wt, woken),
                       ready \o order, pend)

(* next_event_us - now_us_ looks at deadlines and at host polls, due every *)
(* quantum, besides the vblank.                                            *)
EventTimes ==
  LET waiting == {t \in Threads : status[t] = "Waiting"}
  IN {wait[t].left : t \in {u \in waiting : wait[u].left # Forever}}
       \cup {1 : t \in HostWaiters}

(* The vblanks counted since a thread last got the CPU. *)
IdleAfter(vb) == IF vb = 0 THEN idleVBlanks + 1 ELSE idleVBlanks

(* One turn of the loop in schedule(), while no thread has the CPU: timers, *)
(* then an interrupt, a thread, a deadlock report, or the clock moves on to *)
(* the next event.                                                          *)
Schedule ==
  /\ ~active /\ current = NoThread /\ ~stopped
  /\ UNCHANGED <<prio, wakeups, dispatch, intr>>
  /\ \E answered \in SUBSET HostWaiters :
       LET vblank == vblankLeft = 0
           due == Overdue(wait) \cup answered
           woken == VBlankWoken(vblankLeft) \cup due
           pend == PendingAfter(vblankLeft)
           idle == IdleAfter(vblankLeft)
           st == MadeReady(status, woken)
           wt == NotWaiting(wait, woken)
           vb == IF vblank THEN VBlankPeriod ELSE vblankLeft
       IN /\ waiters' = Dequeued(due)
          /\ \E order \in WakeOrders(vblankLeft, due) :
               LET rdy == ready \o order
               IN \/ /\ intr /\ pend > 0
                     /\ BeginInterrupt(pend, TRUE)
                     /\ status' = st /\ wait' = wt /\ ready' = rdy
                     /\ idleVBlanks' = idle /\ vblankLeft' = vb
                     /\ UNCHANGED <<current, stopped>>
                  \/ /\ ~(intr /\ pend > 0)
                     /\ \E i \in DOMAIN rdy :
                           IsBest(rdy, i) /\ SwitchTo(st, wt, rdy, i)
                     /\ pending' = pend /\ vblankLeft' = vb
                     /\ UNCHANGED <<active, idleIntr, stopped>>
                  \/ /\ ~(intr /\ pend > 0) /\ rdy = << >>
                     /\ pending' = pend /\ idleVBlanks' = idle
                     /\ status' = st /\ ready' = rdy
                     /\ UNCHANGED <<active, idleIntr, current>>
                     /\ \/ /\ idle > IdleVBlankLimit
                           /\ stopped' = TRUE
                           /\ wait' = wt /\ vblankLeft' = vb
                        \/ /\ idle <= IdleVBlankLimit
                           /\ UNCHANGED stopped
                           /\ \E d \in {vb} \cup EventTimes :
                                /\ \A e \in {vb} \cup EventTimes : d <= e
                                /\ wait' = Aged(d)
                                /\ vblankLeft' = vb - d

(* interrupt_return_stub: the handler is done. *)
InterruptReturn ==
  /\ active
  /\ UNCHANGED <<prio, wakeups, waiters, dispatch, intr, vblankLeft, stopped>>
  /\ \/ /\ intr /\ pending > 0
        /\ BeginInterrupt(pending, idleIntr)
        /\ Keep(status, wait, ready)
     \/ /\ ~(intr /\ pending > 0) /\ current = NoThread
        /\ active' = FALSE /\ idleIntr' = FALSE
        /\ UNCHANGED pending
        /\ Keep(status, wait, ready)
     \/ /\ ~(intr /\ pending > 0) /\ current # NoThread
        /\ active' = FALSE
        /\ UNCHANGED <<pending, idleIntr>>
        /\ Reschedule(status, wait, ready, FALSE)

-----------------------------------------------------------------------------
(* What the guest's threads and handlers do, and what the machine does.    *)
ThreadCalls ==
  \/ PlainCall
  \/ \E t \in Threads : CreateThread(t) \/ StartThread(t) \/ DeleteThread(t)
  \/ \E delete \in BOOLEAN :
        ExitThread(delete) \/ \E t \in Threads : TerminateThread(t, delete)
  \/ \E t \in Threads, p \in Priorities : ChangePriority(t, p)
  \/ SleepThread
  \/ \E t \in Threads : WakeupThread(t)
  \/ \E d \in Delays : DelayThread(d)
  \/ WaitVBlank
  \/ \E d \in Delays \cup {Forever} : WaitHost(d)
  \/ \E enabled \in BOOLEAN : SetDispatch(enabled) \/ SetInterrupts(enabled)

(* After the deadlock report the runtime runs nothing any more. *)
Halted == stopped /\ UNCHANGED schedVars

Machine == Starvation \/ Schedule \/ InterruptReturn \/ Halted

SchedNext == ThreadCalls \/ Machine

(* The scheduler loop always runs on and a handler is finite.  Dispatched   *)
(* work is counted across calls and thread switches (account_dispatch_work) *)
(* so guest code that runs again and again meets starvation boundaries.     *)
SchedFairness == /\ WF_schedVars(Schedule)
                 /\ WF_schedVars(InterruptReturn)
                 /\ SF_schedVars(Starvation)

SchedSpec == SchedInit /\ [][SchedNext]_schedVars /\ SchedFairness

-----------------------------------------------------------------------------
(* Properties.                                                             *)

SchedTypeOK ==
  /\ status \in [Threads -> {"Uncreated", "Dormant", "Ready", "Running",
                             "Waiting", "Deleted"}]
  /\ wait \in [Threads -> WaitStates]
  /\ prio \in [Threads -> Priorities]
  /\ wakeups \in [Threads -> Nat]
  /\ ready \in Seq(Threads)
  /\ current \in Threads \cup {NoThread}
  /\ waiters \in [Objects -> Seq(Threads \cup {NoThread})]
  /\ {dispatch, intr, active, idleIntr, stopped} \subseteq BOOLEAN
  /\ pending \in 0..MaxPending
  /\ vblankLeft \in 0..VBlankPeriod
  /\ idleVBlanks \in 0..IdleVBlankLimit + 1

(* The current thread is the only Running one, and the run queue holds      *)
(* every Ready thread once and no other: no start, wake, timeout,           *)
(* termination or switch loses a thread or runs it twice.                   *)
RunQueueExact ==
  /\ \A t \in Threads : status[t] = "Running" <=> t = current
  /\ ToSet(ready) = {t \in Threads : status[t] = "Ready"}
  /\ \A i, j \in DOMAIN ready : ready[i] = ready[j] => i = j

(* While a thread runs with dispatching enabled, no more urgent thread is   *)
(* ready: whatever call, timer or handler made it ready, changed a priority *)
(* or enabled dispatching again also gave it the CPU.                       *)
UrgentThreadRuns ==
  ~active /\ current # NoThread /\ dispatch =>
    \A t \in Threads : status[t] = "Ready" => prio[t] >= prio[current]

(* Guest code never runs while a thread still waits past its deadline. *)
NoOverdueWait ==
  Guest => \A t \in Threads : status[t] = "Waiting" => wait[t].left # 0

(* No wakeup is lost: a thread does not sleep while it has a wakeup left. *)
NoLostWakeup ==
  \A t \in Threads :
    status[t] = "Waiting" /\ wait[t].type = "Sleep" => wakeups[t] = 0

(* A thread stands once in the queue of the object it waits on and in no    *)
(* other: releases, timeouts, terminations and deletions leave no stale     *)
(* entry and no waiting thread without an entry.                            *)
WaitingOn(o) == {t \in Threads : status[t] = "Waiting" /\ wait[t].type = "Object"
                                  /\ wait[t].object = o}
QueuesExact ==
  \A o \in Objects :
    /\ ToSet(waiters[o]) = WaitingOn(o)
    /\ \A i, j \in DOMAIN waiters[o] : waiters[o][i] = waiters[o][j] => i = j

(* The deadlock report is true: no thread it leaves waiting had a deadline  *)
(* or a vblank that would have ended its wait.                              *)
DeadlockIsReal ==
  stopped => \A t \in Threads :
               status[t] = "Waiting" => wait[t].left = Forever /\ wait[t].type # "VBlank"

(* A thread loses the CPU by waiting or ending, or to a thread as urgent or *)
(* more while dispatching is enabled, and then it is ready again.           *)
LosesCpuByRule ==
  current # NoThread /\ current' # current =>
    \/ /\ current' = NoThread
       /\ status'[current] \in {"Waiting", "Dormant", "Deleted"}
    \/ /\ current' # NoThread /\ dispatch'
       /\ status'[current] = "Ready"
       /\ prio'[current'] <= prio'[current]
CpuLostOnlyByRule == [][LosesCpuByRule]_schedVars

(* No thread keeps the CPU for good from a ready thread as urgent as it is: *)
(* starvation boundaries make equals take turns.                            *)
EqualsTakeTurns ==
  \A t, u \in Threads :
    []<>~(current = t /\ status[u] = "Ready" /\ prio[u] <= prio[t] /\ dispatch)

(* Every wait with a deadline ends. *)
TimedWaitsEnd ==
  \A t \in Threads :
    (status[t] = "Waiting" /\ wait[t].left # Forever) ~> status[t] # "Waiting"

(* A queued interrupt is taken unless interrupts are masked. *)
InterruptsAreTaken ==
  (pending > 0 /\ intr) ~> (active \/ ~intr)
=============================================================================
