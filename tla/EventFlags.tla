------------------------------ MODULE EventFlags ------------------------------
(****************************************************************************)
(* The event flags of ThreadManForUser (hle/hle_threadman.cpp) on the       *)
(* scheduler: sceKernelCreateEventFlag, DeleteEventFlag, SetEventFlag,      *)
(* ClearEventFlag, WaitEventFlag and PollEventFlag.  A request names the    *)
(* bits, whether any or all of them are wanted (mode bit 0x01), and what    *)
(* the flag loses when the request is met: nothing, those bits (0x20) or    *)
(* all (0x10).                                                              *)
(****************************************************************************)
EXTENDS Scheduler

CONSTANTS
  Bits         \* the bits of a pattern

AllRequests == [bits : SUBSET Bits \ {{}}, any : BOOLEAN,
                clear : {"none", "bits", "all"}]

ASSUME EventFlagAssumption == Requests \subseteq AllRequests

VARIABLES
  flagState,   \* a uid before its creation, in use, or erased
  multi,       \* whether EventFlag::attributes has kEventFlagWaitMulti
  pattern      \* EventFlag::pattern as the set of its bits

flagVars == <<flagState, multi, pattern>>
vars == <<schedVars, flagVars>>

Live(o) == flagState[o] = "Live"

Init ==
  /\ SchedInit
  /\ flagState = [o \in Objects |-> "Uncreated"]
  /\ multi = [o \in Objects |-> FALSE]
  /\ pattern = [o \in Objects |-> {}]

(* event_flag_matches *)
Matches(p, r) == IF r.any THEN p \cap r.bits # {} ELSE r.bits \subseteq p

(* Mutant: the clear mode for the bits is taken for none. *)
LeftAll(p, r) == IF r.clear = "all" THEN {} ELSE p

(* What is left of p when the request r is met. *)
Left(p, r) == CASE r.clear = "none" -> p
                [] r.clear = "bits" -> p \ r.bits
                [] r.clear = "all"  -> {}

(* What release_event_flag_waiters reads of a waiting thread; a wait of     *)
(* another kind has value and mode 0.                                       *)
Wanted(t) == IF wait[t].type = "Object" THEN wait[t].request
             ELSE [bits |-> {}, any |-> FALSE, clear |-> "none"]

(* Mutants: the queue is left at the first entry that does not match; every *)
(* entry meets the pattern that was set.                                    *)
ReleasedWhileMatching(q, p) ==
  LET after[i \in 0..Len(q)] ==
        IF i = 0 THEN [pattern |-> p, woken |-> << >>, kept |-> << >>]
        ELSE LET a == after[i - 1]
                 t == q[i]
             IN IF a.kept = << >> /\ Matches(a.pattern, Wanted(t))
                THEN [a EXCEPT !.pattern = Left(@, Wanted(t)),
                               !.woken = Append(@, t)]
                ELSE [a EXCEPT !.kept = Append(@, t)]
  IN after[Len(q)]
ReleasedByOneRead(q, p) ==
  LET after[i \in 0..Len(q)] ==
        IF i = 0 THEN [pattern |-> p, woken |-> << >>, kept |-> << >>]
        ELSE LET a == after[i - 1]
                 t == q[i]
             IN IF Matches(p, Wanted(t))
                THEN [a EXCEPT !.pattern = Left(@, Wanted(t)),
                               !.woken = Append(@, t)]
                ELSE [a EXCEPT !.kept = Append(@, t)]
  IN after[Len(q)]

(* release_event_flag_waiters on the queue q: each entry meets the pattern  *)
(* the earlier ones left, and entries that do not match stay.               *)
Released(q, p) ==
  LET after[i \in 0..Len(q)] ==
        IF i = 0 THEN [pattern |-> p, woken |-> << >>, kept |-> << >>]
        ELSE LET a == after[i - 1]
                 t == q[i]
             IN IF t \notin Waiting \/ t \in ToSet(a.woken) THEN a
                ELSE IF Matches(a.pattern, Wanted(t))
                     THEN [a EXCEPT !.pattern = Left(@, Wanted(t)),
                                    !.woken = Append(@, t)]
                     ELSE [a EXCEPT !.kept = Append(@, t)]
  IN after[Len(q)]

CreateEventFlag(o, bits, many) ==
  /\ Guest /\ flagState[o] = "Uncreated"
  /\ flagState' = [flagState EXCEPT ![o] = "Live"]
  /\ multi' = [multi EXCEPT ![o] = many]
  /\ pattern' = [pattern EXCEPT ![o] = bits]
  /\ UNCHANGED <<prio, wakeups, waiters, dispatch, intr, vblankLeft, stopped>>
  /\ Finish(status, wait, ready)

DeleteEventFlag(o) ==
  /\ Guest /\ Live(o)
  /\ flagState' = [flagState EXCEPT ![o] = "Deleted"]
  /\ multi' = [multi EXCEPT ![o] = FALSE]
  /\ pattern' = [pattern EXCEPT ![o] = {}]
  /\ waiters' = [waiters EXCEPT ![o] = << >>]
  /\ UNCHANGED <<prio, wakeups, dispatch, intr, vblankLeft, stopped>>
  /\ WakeAndFinish(Cancelled(o))

SetEventFlag(o, bits) ==
  /\ Guest /\ Live(o)
  /\ LET r == Released(waiters[o], pattern[o] \cup bits)
     IN /\ pattern' = [pattern EXCEPT ![o] = r.pattern]
        /\ waiters' = [waiters EXCEPT ![o] = r.kept]
        /\ UNCHANGED <<prio, wakeups, dispatch, intr, vblankLeft, stopped,
                       flagState, multi>>
        /\ WakeAndFinish(r.woken)

ClearEventFlag(o, mask) ==
  /\ Guest /\ Live(o)
  /\ pattern' = [pattern EXCEPT ![o] = @ \cap mask]
  /\ UNCHANGED <<prio, wakeups, waiters, dispatch, intr, vblankLeft, stopped,
                 flagState, multi>>
  /\ Finish(status, wait, ready)

(* Wait and Poll when the pattern matches, whoever waits already. *)
MatchEventFlag(o, r) ==
  /\ Guest /\ Live(o)
  /\ Matches(pattern[o], r)
  /\ pattern' = [pattern EXCEPT ![o] = Left(@, r)]
  /\ UNCHANGED <<prio, wakeups, waiters, dispatch, intr, vblankLeft, stopped,
                 flagState, multi>>
  /\ Finish(status, wait, ready)

MayQueue(o) == multi[o] \/ waiters[o] = << >>

WaitEventFlag(o, r, timeout) ==
  /\ WaitCaller /\ Live(o)
  /\ ~Matches(pattern[o], r)
  /\ MayQueue(o)
  /\ waiters' = [waiters EXCEPT ![o] = Append(@, current)]
  /\ UNCHANGED <<prio, wakeups, dispatch, intr, vblankLeft, stopped, flagVars>>
  /\ Block(WaitOn(o, r, timeout))

FlagCalls ==
  \E o \in Objects :
    \/ DeleteEventFlag(o)
    \/ \E bits \in SUBSET Bits :
         \/ \E many \in BOOLEAN : CreateEventFlag(o, bits, many)
         \/ SetEventFlag(o, bits)
         \/ ClearEventFlag(o, bits)
    \/ \E r \in Requests :
         \/ MatchEventFlag(o, r)
         \/ \E d \in Delays \cup {Forever} : WaitEventFlag(o, r, d)

Next == FlagCalls \/ (SchedNext /\ UNCHANGED flagVars)

Spec == Init /\ [][Next]_vars

-----------------------------------------------------------------------------
TypeOK ==
  /\ SchedTypeOK
  /\ flagState \in [Objects -> {"Uncreated", "Live", "Deleted"}]
  /\ multi \in [Objects -> BOOLEAN]
  /\ pattern \in [Objects -> SUBSET Bits]

(* Nobody waits for bits the flag holds: a set releases every waiter that   *)
(* the pattern still matches when its turn comes, the pattern only shrinks  *)
(* after a waiter was passed over, and a flag that is erased has no waiter. *)
(* Without kEventFlagWaitMulti at most one thread waits at any time.        *)
NoMatchingWaiter ==
  /\ TypeOK /\ QueuesExact
  /\ \A o \in Objects : \A i \in DOMAIN waiters[o] :
       /\ Live(o)
       /\ ~Matches(pattern[o], wait[waiters[o][i]].request)
       /\ multi[o] \/ i = 1

(* One set never pays two waiters with the same bit: the threads it         *)
(* releases that wanted all their bits and cleared them wanted disjoint     *)
(* ones.                                                                    *)
Clearing(t) == ~wait[t].request.any /\ wait[t].request.clear # "none"
BitsPayOnce ==
  [][\A o \in Objects, bits \in SUBSET Bits :
       SetEventFlag(o, bits) =>
         \A t, u \in {v \in WaitingOn(o) : status'[v] # "Waiting" /\ Clearing(v)} :
           t = u \/ wait[t].request.bits \cap wait[u].request.bits = {}]_vars

(* A set that releases somebody leaves no bit that a released thread asked  *)
(* to clear, in whatever order the threads stood.                           *)
ClearedBitsAreGone ==
  [][\A o \in Objects, bits \in SUBSET Bits :
       SetEventFlag(o, bits) =>
         \A t \in WaitingOn(o) :
           status'[t] # "Waiting" =>
             CASE wait[t].request.clear = "none" -> TRUE
               [] wait[t].request.clear = "bits" ->
                    pattern'[o] \cap wait[t].request.bits = {}
               [] wait[t].request.clear = "all" -> pattern'[o] = {}]_vars
=============================================================================
