------------------------------ MODULE Semaphores ------------------------------
(****************************************************************************)
(* The semaphores of ThreadManForUser (hle/hle_threadman.cpp) on the        *)
(* scheduler: sceKernelCreateSema, DeleteSema, SignalSema, WaitSema and     *)
(* PollSema.  Signals may also come from interrupt handlers, and a waiter   *)
(* may time out or be terminated at any point of the queue.                 *)
(****************************************************************************)
EXTENDS Scheduler, MachineIntegers

CONSTANTS
  IntLimit,   \* 2^31
  MaxCount,   \* Semaphore::max_count
  Signals     \* the counts of signals: the call takes any, 0 and negative too

ASSUME SemaphoreAssumption ==
  /\ IntLimit \in Nat \ {0}
  /\ MaxCount \in [Objects -> 1..IntLimit - 1]
  /\ Signals \subseteq Ints(IntLimit)
  /\ Requests \subseteq Nat \ {0}

VARIABLES
  semaState,  \* a uid before its creation, in use, or erased
  count       \* Semaphore::count

semaVars == <<semaState, count>>
vars == <<schedVars, semaVars>>

Live(o) == semaState[o] = "Live"

Init ==
  /\ SchedInit
  /\ semaState = [o \in Objects |-> "Uncreated"]
  /\ count = [o \in Objects |-> 0]

CreateSema(o, initial) ==
  /\ Guest /\ semaState[o] = "Uncreated" /\ initial <= MaxCount[o]
  /\ semaState' = [semaState EXCEPT ![o] = "Live"]
  /\ count' = [count EXCEPT ![o] = initial]
  /\ UNCHANGED <<prio, wakeups, waiters, dispatch, intr, vblankLeft, stopped>>
  /\ Finish(status, wait, ready)

(* cancel_waiters wakes the queue, then the semaphore is erased. *)
DeleteSema(o) ==
  /\ Guest /\ Live(o)
  /\ semaState' = [semaState EXCEPT ![o] = "Deleted"]
  /\ count' = [count EXCEPT ![o] = 0]
  /\ waiters' = [waiters EXCEPT ![o] = << >>]
  /\ UNCHANGED <<prio, wakeups, dispatch, intr, vblankLeft, stopped>>
  /\ WakeAndFinish(Cancelled(o))

(* Mutant: every waiter takes one unit. *)
RequestedOne(t) == 1
(* What release_semaphore_waiters asks of the count for a waiting thread. *)
Requested(t) == IF wait[t].type = "Object" THEN wait[t].request ELSE 0

(* The count that remains when the first i entries of q are let go. *)
Remaining(q, c) ==
  LET remaining[i \in 0..Len(q)] ==
        IF i = 0 THEN c
        ELSE IF Releasable(q)[i] = Releasable(q)[i - 1] THEN remaining[i - 1]
             ELSE remaining[i - 1] - Requested(q[i])
  IN remaining

(* The i-th entry is a waiting thread that asks for more than remains. *)
Short(q, c, i) ==
  Releasable(q)[i] # Releasable(q)[i - 1] /\ Remaining(q, c)[i] < 0

(* Mutant: a signal releases one waiter at most. *)
IsReleasedOne(q, c, n) ==
  /\ n <= 1
  /\ \A i \in 1..n : ~Short(q, c, i)
  /\ n = 0 /\ q # << >> => Short(q, c, 1)

(* The loop stops at the first waiter that asks for more than remains. *)
IsReleased(q, c, n) ==
  /\ \A i \in 1..n : ~Short(q, c, i)
  /\ n < Len(q) => Short(q, c, n + 1)

(* What the count comes to when n is added. *)
Signalled(o, n) == Wrap(count[o] + n, IntLimit)

(* Mutant: no limit. *)
FitsAlways(o, n) == TRUE
(* SignalSema's limit counts one unit for every thread in the queue. *)
Fits(o, n) == Wrap(Signalled(o, n) - Len(waiters[o]), IntLimit) <= MaxCount[o]

SignalSema(o, n) ==
  /\ Guest /\ Live(o)
  /\ Fits(o, n)
  /\ UNCHANGED <<prio, wakeups, dispatch, intr, vblankLeft, stopped, semaState>>
  /\ LET q == waiters[o]
         c == Signalled(o, n)
     IN \E k \in 0..Len(q) :
          /\ waiters' = [waiters EXCEPT ![o] = SubSeq(q, k + 1, Len(q))]
          /\ count' = [count EXCEPT ![o] = Remaining(q, c)[k]]
          /\ IsReleased(q, c, k)
          /\ WakeAndFinish(Releasable(q)[k])

(* WaitSema without contention, and PollSema when it succeeds. *)
TakeSema(o, n) ==
  /\ Guest /\ Live(o)
  /\ waiters[o] = << >> /\ count[o] >= n
  /\ count' = [count EXCEPT ![o] = @ - n]
  /\ UNCHANGED <<prio, wakeups, waiters, dispatch, intr, vblankLeft, stopped,
                 semaState>>
  /\ Finish(status, wait, ready)

(* Otherwise WaitSema queues its caller before block() may refuse to wait. *)
WaitSema(o, n, timeout) ==
  /\ WaitCaller /\ Live(o) /\ n <= MaxCount[o]
  /\ ~(waiters[o] = << >> /\ count[o] >= n)
  /\ waiters' = [waiters EXCEPT ![o] = Append(@, current)]
  /\ UNCHANGED <<prio, wakeups, dispatch, intr, vblankLeft, stopped, semaVars>>
  /\ Block(WaitOn(o, n, timeout))

SemaCalls ==
  \E o \in Objects :
    \/ \E initial \in 0..MaxCount[o] : CreateSema(o, initial)
    \/ DeleteSema(o)
    \/ \E n \in Signals : SignalSema(o, n)
    \/ \E n \in Requests :
         TakeSema(o, n) \/ \E d \in Delays \cup {Forever} : WaitSema(o, n, d)

Next == SemaCalls \/ (SchedNext /\ UNCHANGED semaVars)

Spec == Init /\ [][Next]_vars

-----------------------------------------------------------------------------
TypeOK ==
  /\ SchedTypeOK
  /\ semaState \in [Objects -> {"Uncreated", "Live", "Deleted"}]
  /\ count \in [Objects -> Int]

(* The count never passes max_count, though a signal may for a moment,      *)
(* counting on each waiter to take at least one, and a sum may wrap.  A     *)
(* signal may take it below 0.                                              *)
CountInBounds ==
  /\ TypeOK
  /\ \A o \in Objects : count[o] \in -IntLimit..MaxCount[o]

HeadIsBlocked(o) ==
  waiters[o] # << >> => count[o] < wait[Head(waiters[o])].request

(* A call that changes the count leaves at the head of the queue a thread   *)
(* that asks for more: a signal releases all it can, in order.              *)
SignalReleasesAll ==
  [][\A o \in Objects : count'[o] # count[o] => HeadIsBlocked(o)']_vars

(* Every semaphore implements CountingSemaphore, and a signal of n supplies *)
(* n units, or takes -n away: a release happens while units are there, and  *)
(* takes exactly those the released threads asked for; a timeout,           *)
(* termination or deletion takes none.                                      *)
(* (\A o : Abstract(o)!AbsSpec, in the form TLC takes.)                     *)
Abstract(o) == INSTANCE CountingSemaphore WITH
  Clients <- Threads, Capacity <- MaxCount[o], Limit <- IntLimit,
  Amounts <- Signals,
  live <- Live(o), units <- count[o],
  claims <- LET W == WaitingOn(o)
            IN [t \in Threads |-> IF t \in W THEN wait[t].request ELSE 0]
Supplies(o, n) == \E S \in SUBSET WaitingOn(o) : Abstract(o)!Supply(n, S)
KeepsPromises ==
  /\ \A o \in Objects : Abstract(o)!AbsInit
  /\ [][\A o \in Objects :
           \/ UNCHANGED Abstract(o)!absVars
           \/ /\ Abstract(o)!AbsNext
              /\ \A n \in Signals : SignalSema(o, n) => Supplies(o, n)]_vars
=============================================================================
