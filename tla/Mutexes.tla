-------------------------------- MODULE Mutexes --------------------------------
(****************************************************************************)
(* The mutexes of ThreadManForUser (hle/hle_threadman.cpp) on the           *)
(* scheduler: sceKernelCreateMutex, DeleteMutex, LockMutex, UnlockMutex.    *)
(* A request is the lock count asked for.  A call acts for current_uid(),   *)
(* which in interrupt context is the interrupted thread, or NoThread.       *)
(****************************************************************************)
EXTENDS Scheduler, MachineIntegers

CONSTANTS
  Recursive,   \* attribute kMutexAttrRecursive, [Objects -> BOOLEAN]
  IntLimit     \* 2^31, the bound of a lock count: none is taken past it

ASSUME MutexAssumption ==
  /\ Recursive \in [Objects -> BOOLEAN]
  /\ IntLimit \in Nat \ {0}
  /\ Requests \subseteq 1..IntLimit - 1

VARIABLES
  mutexState,  \* a uid before its creation, in use, or erased
  owner,       \* Mutex::owner
  lockCount    \* Mutex::lock_count

mutexVars == <<mutexState, owner, lockCount>>
allVars == <<schedVars, mutexVars>>

LiveMutex(o) == mutexState[o] = "Live"

MutexInit ==
  /\ SchedInit
  /\ mutexState = [o \in Objects |-> "Uncreated"]
  /\ owner = [o \in Objects |-> NoThread]
  /\ lockCount = [o \in Objects |-> 0]

Held(o, t, n) ==
  /\ owner' = [owner EXCEPT ![o] = t]
  /\ lockCount' = [lockCount EXCEPT ![o] = n]

(* A mutex may be created locked by its creator, or, with a negative count, *)
(* locked by nobody.                                                        *)
CreateMutex(o, n) ==
  /\ WaitCaller /\ mutexState[o] = "Uncreated"
  /\ mutexState' = [mutexState EXCEPT ![o] = "Live"]
  /\ Held(o, IF n > 0 THEN current ELSE NoThread, n)
  /\ UNCHANGED <<prio, wakeups, waiters, dispatch, intr, vblankLeft, stopped>>
  /\ Finish(status, wait, ready)

DeleteMutex(o) ==
  /\ WaitCaller /\ LiveMutex(o)
  /\ mutexState' = [mutexState EXCEPT ![o] = "Deleted"]
  /\ Held(o, NoThread, 0)
  /\ waiters' = [waiters EXCEPT ![o] = << >>]
  /\ UNCHANGED <<prio, wakeups, dispatch, intr, vblankLeft, stopped>>
  /\ WakeAndFinish(Cancelled(o))

(* The lock is free, or the caller's own and recursive.  The code does not  *)
(* look at the sum: locks that take it past the bound are left out.         *)
TakeMutex(o, n) ==
  /\ WaitCaller /\ LiveMutex(o)
  /\ \/ lockCount[o] = 0 /\ Held(o, current, n)
     \/ /\ lockCount[o] # 0 /\ owner[o] = current /\ Recursive[o]
        /\ lockCount[o] + n < IntLimit
        /\ Held(o, current, lockCount[o] + n)
  /\ UNCHANGED <<prio, wakeups, waiters, dispatch, intr, vblankLeft, stopped,
                 mutexState>>
  /\ Finish(status, wait, ready)

LockMutex(o, n, timeout) ==
  /\ WaitCaller /\ LiveMutex(o)
  /\ lockCount[o] # 0 /\ owner[o] # current
  /\ waiters' = [waiters EXCEPT ![o] = Append(@, current)]
  /\ UNCHANGED <<prio, wakeups, dispatch, intr, vblankLeft, stopped, mutexVars>>
  /\ Block(WaitOn(o, n, timeout))

(* What release_mutex_waiters gives the thread it hands the lock to. *)
Requested(t) == IF wait[t].type = "Object" THEN wait[t].request ELSE 0

(* Mutant: the last entry whose thread waits gets the lock. *)
IsLastHeir(q, k) ==
  /\ q[k] \in Waiting
  /\ \A i \in k + 1..Len(q) : q[i] \notin Waiting

(* The k-th entry is the first whose thread waits: it gets the lock. *)
IsHeir(q, k) ==
  /\ q[k] \in Waiting
  /\ \A i \in 1..k - 1 : q[i] \notin Waiting

(* Mutants: an unlock frees the lock whoever waits, and wakes them all, or  *)
(* nobody.                                                                  *)
HandOverToAll(o) ==
  /\ Held(o, NoThread, 0)
  /\ waiters' = [waiters EXCEPT ![o] = << >>]
  /\ WakeAndFinish(Cancelled(o))
HandOverToNobody(o) ==
  /\ Held(o, NoThread, 0)
  /\ UNCHANGED waiters
  /\ Finish(status, wait, ready)

(* release_mutex_waiters: the lock goes to the heir, and the entries before *)
(* it are dropped.                                                          *)
HandOver(o) ==
  LET q == waiters[o]
  IN \/ \E k \in DOMAIN q :
          /\ IsHeir(q, k)
          /\ Held(o, q[k], Requested(q[k]))
          /\ waiters' = [waiters EXCEPT ![o] = SubSeq(q, k + 1, Len(q))]
          /\ WakeAndFinish(<<q[k]>>)
     \/ /\ \A k \in DOMAIN q : q[k] \notin Waiting
        /\ Held(o, NoThread, 0)
        /\ waiters' = [waiters EXCEPT ![o] = << >>]
        /\ Finish(status, wait, ready)

UnlockMutex(o, n) ==
  /\ WaitCaller /\ LiveMutex(o)
  /\ lockCount[o] # 0 /\ owner[o] = current /\ n <= lockCount[o]
  /\ UNCHANGED <<prio, wakeups, dispatch, intr, vblankLeft, stopped, mutexState>>
  /\ \/ /\ n < lockCount[o]
        /\ Held(o, current, lockCount[o] - n)
        /\ UNCHANGED waiters
        /\ Finish(status, wait, ready)
     \/ n = lockCount[o] /\ HandOver(o)

MutexCalls ==
  \E o \in Objects :
    \/ \E n \in Ints(IntLimit) : CreateMutex(o, n)
    \/ DeleteMutex(o)
    \/ \E n \in Requests :
         \/ TakeMutex(o, n)
         \/ UnlockMutex(o, n)
         \/ \E d \in Delays \cup {Forever} : LockMutex(o, n, d)

MutexNext == MutexCalls \/ (SchedNext /\ UNCHANGED mutexVars)

MutexSpec == MutexInit /\ [][MutexNext]_allVars

-----------------------------------------------------------------------------
MutexTypeOK ==
  /\ SchedTypeOK
  /\ mutexState \in [Objects -> {"Uncreated", "Live", "Deleted"}]
  /\ owner \in [Objects -> Threads \cup {NoThread}]
  /\ lockCount \in [Objects -> Ints(IntLimit)]

(* A count above 0 always has an owner, who can undo it, and no other count *)
(* has one; only a live mutex that is not free has waiters, and nobody      *)
(* waits for a lock of its own.  (With the negative count that CreateMutex  *)
(* takes, threads wait behind nobody, and no unlock is accepted.)           *)
LockConsistent ==
  /\ MutexTypeOK /\ QueuesExact
  /\ \A o \in Objects :
       /\ lockCount[o] > 0 <=> owner[o] # NoThread
       /\ waiters[o] # << >> => LiveMutex(o) /\ lockCount[o] # 0
       /\ owner[o] \notin ToSet(waiters[o])

(* The lock changes hands in the order of the queue: while threads wait,    *)
(* an unlock gives it to the first of them with the count that thread asked *)
(* for, and no running thread gets in between.                              *)
FifoHandover ==
  [][\A o \in Objects :
       waiters[o] # << >> /\ owner'[o] # owner[o] /\ LiveMutex(o)' =>
         LET heir == Head(waiters[o])
         IN /\ owner'[o] = heir
            /\ lockCount'[o] = wait[heir].request
            /\ status'[heir] # "Waiting"]_allVars

(* A thread that stops waiting for a lock owns it, or timed out, was        *)
(* terminated, or lost the mutex: no wakeup without the lock.               *)
WokenWithLock ==
  [][\A o \in Objects, t \in Threads :
       /\ t \in ToSet(waiters[o]) /\ t \notin ToSet(waiters'[o])
       /\ wait[t].left = Forever
       => \/ owner'[o] = t
          \/ ~LiveMutex(o)'
          \/ status'[t] \in {"Dormant", "Deleted"}]_allVars
=============================================================================
