------------------------------ MODULE Interrupts ------------------------------
(****************************************************************************)
(* What the kernel queues for interrupt context, of which Scheduler keeps   *)
(* only the number: vblank sub-interrupt handlers, VTimer handlers and      *)
(* thread callbacks (kernel.cpp, hle_threadman.cpp, hle_system.cpp).  Which *)
(* thread gets the CPU is Scheduler's affair; here it may be any.           *)
(*                                                                          *)
(* A VTimer's schedule is kept relative to its value (vtimer_value), in     *)
(* quanta, so time itself needs no bound.                                   *)
(****************************************************************************)
EXTENDS Integers, SequencesExt, FiniteSetsExt

CONSTANTS
  Threads,      \* thread uids
  Timers,       \* VTimer uids
  Callbacks,    \* callback uids; uids are never reused
  SubIntrs,     \* numbers of the vblank's sub-interrupts
  Schedules,    \* how far ahead the guest schedules a timer
  Returns,      \* what a timer's handler returns: the next delay, 0 to stop
  MaxCalls,     \* bound on a timer's calls that are queued or running
  MaxLate,      \* bound on how late a queued timer call may get
  MaxPending,   \* bound on pending_interrupts_
  MaxNotify     \* bound on the notifications of a callback

NoThread == 0
NoOwner == -1        \* the owner of a callback that does not exist
Never == 1000000     \* schedule_us = UINT64_MAX

ASSUME InterruptsAssumption ==
  /\ Threads \subseteq Nat \ {NoThread}
  /\ Timers \subseteq Nat \ {0} /\ IsFiniteSet(Timers)
  /\ Callbacks \cup SubIntrs \subseteq Nat /\ IsFiniteSet(Callbacks) /\ IsFiniteSet(SubIntrs)
  /\ Schedules \cup Returns \subseteq 0..Never - 1
  /\ MaxCalls \in Nat \ {0}
  /\ MaxLate \in Nat /\ MaxPending \in Nat /\ MaxNotify \in Nat

VARIABLES
  current,     \* current_uid_
  intr,        \* interrupts_enabled_
  pending,     \* pending_interrupts_
  running,     \* the call whose handler runs, NoCall outside interrupt context
  sub,         \* sub_interrupts: "none", "registered" or "enabled"
  started,     \* VTimer::active
  handler,     \* whether VTimer::handler is set
  left,        \* VTimer::schedule_us - vtimer_value, Never without handler
  owner,       \* Callback::owner, NoOwner before creation and after deletion
  notified,    \* Callback::notify_count
  told, heard  \* history: notifications made, and counts handed to a callback

timerVars == <<started, handler, left>>
callbackVars == <<owner, notified, told>>
intrVars == <<current, intr, pending, running, sub, timerVars, callbackVars, heard>>

(* An InterruptCall: amount is how late a timer's call is, or a callback's  *)
(* notify count.                                                            *)
InterruptCall(kind, id, amount) == [kind |-> kind, id |-> id, amount |-> amount]
NoCall == InterruptCall("none", 0, 0)
Calls == [kind : {"none", "vblank", "timer", "callback"},
          id : Timers \cup Callbacks \cup SubIntrs \cup {0}, amount : Nat]

(* The elements of S, lowest first. *)
InOrder(S) ==
  CHOOSE ids \in [1..Cardinality(S) -> S] : \A i, j \in DOMAIN ids : i < j => ids[i] < ids[j]
Queued(kind, S, Amount(_)) ==
  LET ids == InOrder(S) IN [i \in DOMAIN ids |-> InterruptCall(kind, ids[i], Amount(ids[i]))]

(* The queued or running calls of a timer. *)
Outstanding(t) ==
  {i \in DOMAIN pending : pending[i].kind = "timer" /\ pending[i].id = t}
    \cup (IF running.kind = "timer" /\ running.id = t THEN {0} ELSE {})

IntrInit ==
  /\ current \in Threads
  /\ intr = TRUE
  /\ pending = << >>
  /\ running = NoCall
  /\ sub = [s \in SubIntrs |-> "none"]
  /\ started = [t \in Timers |-> FALSE]
  /\ handler = [t \in Timers |-> FALSE]
  /\ left = [t \in Timers |-> Never]
  /\ owner = [c \in Callbacks |-> NoOwner]
  /\ notified = [c \in Callbacks |-> 0]
  /\ told = [c \in Callbacks |-> 0]
  /\ heard = [c \in Callbacks |-> 0]

-----------------------------------------------------------------------------
(* The notifications a call hands to callback c. *)
Hands(call, c) == IF call.kind = "callback" /\ call.id = c THEN call.amount ELSE 0

(* Mutant: the last call begins and the queue is lost. *)
BeginLast(q) ==
  /\ running' = q[Len(q)]
  /\ pending' = << >>
  /\ heard' = [c \in Callbacks |-> heard[c] + Hands(q[Len(q)], c)]

(* begin_pending_interrupt on the queue q. *)
Begin(q) ==
  /\ running' = Head(q)
  /\ pending' = Tail(q)
  /\ heard' = [c \in Callbacks |-> heard[c] + Hands(Head(q), c)]

Hold(q) == running' = NoCall /\ pending' = q /\ UNCHANGED heard

(* Where calls in q may run, the first of them does. *)
BeginOrHold(q) ==
  IF intr' /\ q # << >> THEN Begin(q) ELSE Hold(q)

(* finish: outside interrupt context a queued call begins. *)
Finish(q) ==
  IF running = NoCall THEN BeginOrHold(q)
  ELSE pending' = q /\ UNCHANGED <<running, heard>>

Guest == running # NoCall \/ current # NoThread

SetInterrupts(enabled) ==
  /\ Guest
  /\ intr' = enabled
  /\ UNCHANGED <<current, sub, timerVars, callbackVars>>
  /\ Finish(pending)

(* sceKernelRegisterSubIntrHandler, EnableSubIntr and ReleaseSubIntrHandler *)
SetSubIntr(s) ==
  /\ Guest
  /\ \/ sub[s] = "none" /\ sub' = [sub EXCEPT ![s] = "registered"]
     \/ sub[s] = "registered" /\ sub' = [sub EXCEPT ![s] = "enabled"]
     \/ sub[s] # "none" /\ sub' = [sub EXCEPT ![s] = "none"]
  /\ UNCHANGED <<current, intr, timerVars, callbackVars>>
  /\ Finish(pending)

StartVTimer(t) ==
  /\ Guest /\ ~started[t]
  /\ started' = [started EXCEPT ![t] = TRUE]
  /\ UNCHANGED <<current, intr, sub, handler, left, callbackVars>>
  /\ Finish(pending)

(* sceKernelSetVTimerHandlerWide, also while a call of the handler is       *)
(* queued or running; without handler the schedule is unused.               *)
SetVTimerHandler(t, ahead, on) ==
  /\ Guest /\ Cardinality(Outstanding(t)) < MaxCalls
  /\ handler' = [handler EXCEPT ![t] = on]
  /\ left' = [left EXCEPT ![t] = IF on THEN ahead ELSE Never]
  /\ UNCHANGED <<current, intr, sub, started, callbackVars>>
  /\ Finish(pending)

CreateCallback(c) ==
  /\ Guest /\ owner[c] = NoOwner /\ told[c] = 0
  /\ owner' = [owner EXCEPT ![c] = current]
  /\ UNCHANGED <<current, intr, sub, timerVars, notified, told>>
  /\ Finish(pending)

DeleteCallback(c) ==
  /\ Guest /\ owner[c] # NoOwner
  /\ owner' = [owner EXCEPT ![c] = NoOwner]
  /\ notified' = [notified EXCEPT ![c] = 0]
  /\ UNCHANGED <<current, intr, sub, timerVars, told>>
  /\ Finish(pending)

NotifyCallback(c) ==
  /\ Guest /\ owner[c] # NoOwner /\ told[c] < MaxNotify
  /\ notified' = [notified EXCEPT ![c] = @ + 1]
  /\ told' = [told EXCEPT ![c] = @ + 1]
  /\ UNCHANGED <<current, intr, sub, timerVars, owner>>
  /\ Finish(pending)

(* deliver_callbacks, which the CB variants of sleeping and delaying call   *)
(* before they wait or, with a wakeup left, return.                         *)
Deliverable == {c \in Callbacks : notified[c] > 0 /\ owner[c] = current}
Delivered == pending \o Queued("callback", Deliverable, LAMBDA c : notified[c])
WaitCB(waits) ==
  /\ running = NoCall /\ current # NoThread
  /\ notified' = [c \in Callbacks |-> IF c \in Deliverable THEN 0 ELSE notified[c]]
  /\ UNCHANGED <<intr, sub, timerVars, owner, told>>
  /\ IF waits THEN current' = NoThread /\ Hold(Delivered)
     ELSE UNCHANGED current /\ BeginOrHold(Delivered)

(* Any other call that waits. *)
BlockThread ==
  /\ running = NoCall /\ current # NoThread
  /\ current' = NoThread
  /\ UNCHANGED <<intr, pending, running, sub, timerVars, callbackVars, heard>>

-----------------------------------------------------------------------------
(* process_timers, d quanta later, with a vblank or not: enabled handlers   *)
(* of the vblank are queued, then the handlers of the timers that are due,  *)
(* each disarmed until its handler returns.  (The clocks they read are not  *)
(* kept here.)                                                              *)
Aged(q, d) ==
  [i \in DOMAIN q |-> IF q[i].kind = "timer" THEN [q[i] EXCEPT !.amount = @ + d]
                      ELSE q[i]]
Due(d) == {t \in Timers : started[t] /\ handler[t] /\ left[t] # Never /\ left[t] <= d}
LeftAfter(d) ==
  [t \in Timers |-> IF t \in Due(d) THEN Never
                    ELSE IF started[t] /\ left[t] # Never THEN left[t] - d
                    ELSE left[t]]
QueueAfter(d, vblank) ==
  LET enabled == {s \in SubIntrs : vblank /\ sub[s] = "enabled"}
  IN Aged(pending, d) \o Queued("vblank", enabled, LAMBDA s : 0)
       \o Queued("timer", Due(d), LAMBDA t : d - left[t])

Processed(d, vblank) ==
  LET q == QueueAfter(d, vblank)
  IN /\ vblank => Len(q) <= MaxPending
     /\ d > 0 => \A i \in DOMAIN q : q[i].kind = "timer" => q[i].amount <= MaxLate
     /\ left' = LeftAfter(d)
     /\ UNCHANGED <<intr, sub, started, handler, callbackVars>>
     /\ BeginOrHold(q)

(* on_starvation: a quantum passed; without interrupt another thread may    *)
(* get the CPU.                                                             *)
Starvation(vblank) ==
  /\ running = NoCall /\ current # NoThread
  /\ Processed(1, vblank)
  /\ current' \in Threads
  /\ running' # NoCall => UNCHANGED current

(* A turn of the loop in schedule(): the timers, then an interrupt, or a    *)
(* thread if one is ready, or time passes.                                  *)
Schedule(d, vblank) ==
  /\ running = NoCall /\ current = NoThread
  /\ Processed(d, vblank)
  /\ current' \in Threads \cup {NoThread}
  /\ running' # NoCall => UNCHANGED current

(* Mutant: a handler that asks for no other call leaves the timer as it is. *)
OnReturnAgain(next) ==
  LET t == running.id
  IN IF running.kind = "timer" /\ next # 0
     THEN /\ UNCHANGED handler
          /\ left' = [left EXCEPT ![t] =
                        IF handler[t] THEN next - running.amount ELSE Never]
     ELSE UNCHANGED <<handler, left>>

(* interrupt_return_stub with on_return: a timer's handler gives the delay  *)
(* to its next call, counted from the schedule it was called for.           *)
OnReturn(next) ==
  LET t == running.id
  IN IF running.kind = "timer"
     THEN /\ handler' = [handler EXCEPT ![t] = @ /\ next # 0]
          /\ left' = [left EXCEPT ![t] =
                        IF handler[t] /\ next # 0 THEN next - running.amount ELSE Never]
     ELSE UNCHANGED <<handler, left>>

InterruptReturn(next) ==
  /\ running # NoCall
  /\ OnReturn(next)
  /\ UNCHANGED <<current, intr, sub, started, callbackVars>>
  /\ BeginOrHold(pending)

GuestCalls ==
  \/ \E enabled \in BOOLEAN : SetInterrupts(enabled)
  \/ \E s \in SubIntrs : SetSubIntr(s)
  \/ \E t \in Timers : StartVTimer(t)
  \/ \E t \in Timers, ahead \in Schedules, on \in BOOLEAN : SetVTimerHandler(t, ahead, on)
  \/ \E c \in Callbacks : CreateCallback(c) \/ DeleteCallback(c) \/ NotifyCallback(c)
  \/ \E waits \in BOOLEAN : WaitCB(waits)
  \/ BlockThread

IntrNext ==
  \/ GuestCalls
  \/ \E vblank \in BOOLEAN : Starvation(vblank)
  \/ \E d \in 0..1, vblank \in BOOLEAN : Schedule(d, vblank)
  \/ \E next \in Returns : InterruptReturn(next)

IntrSpec == IntrInit /\ [][IntrNext]_intrVars

-----------------------------------------------------------------------------
IntrTypeOK ==
  /\ current \in Threads \cup {NoThread}
  /\ intr \in BOOLEAN
  /\ pending \in Seq(Calls)
  /\ running \in Calls
  /\ sub \in [SubIntrs -> {"none", "registered", "enabled"}]
  /\ started \in [Timers -> BOOLEAN]
  /\ handler \in [Timers -> BOOLEAN]
  /\ left \in [Timers -> Int]
  /\ owner \in [Callbacks -> Threads \cup {NoThread, NoOwner}]
  /\ {notified, told, heard} \subseteq [Callbacks -> 0..MaxNotify]

(* A timer with a handler is armed, or its handler has been called and will *)
(* say when the next call is due: no timer goes silent by itself.           *)
NoSilentTimer ==
  /\ IntrTypeOK
  /\ \A t \in Timers : handler[t] /\ left[t] = Never => Outstanding(t) # {}

(* Every notification of a callback that exists is handed over exactly      *)
(* once: it is counted, queued, or was heard, also when more come between.  *)
HandedBy(q, c) ==
  LET upTo[n \in 0..Len(q)] == IF n = 0 THEN 0 ELSE upTo[n - 1] + Hands(q[n], c)
  IN upTo[Len(q)]
InQueue(c) == HandedBy(pending, c)
NotificationsHeardOnce ==
  \A c \in Callbacks :
    owner[c] # NoOwner => told[c] = notified[c] + InQueue(c) + heard[c]
=============================================================================
