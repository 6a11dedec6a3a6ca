---------------------------- MODULE DispatchChain ----------------------------
(****************************************************************************)
(* Native call frames over a guest context that the scheduler may replace:  *)
(* src/runtime.cpp and include/psprecomp/runtime.hpp.  The dispatch loop    *)
(* runs recompiled units; a unit calls another one inline, through the      *)
(* table (invoke_chained_call, invoke_chained_unit: "dynamic") or through a *)
(* compile-time edge (invoke_chained_direct: "direct").  Whenever a call    *)
(* returns, its work is charged, and at a starvation boundary the kernel    *)
(* may give the one AllegrexContext to another thread or handler.  The      *)
(* frames below then must not run on.                                       *)
(****************************************************************************)
EXTENDS Integers, Sequences

CONSTANTS
  Interval,     \* g_runtime_starvation_interval_fast
  DepthLimit,   \* chain_depth_limit_
  MaxSwitches   \* bound on changes of the execution context

ASSUME ChainAssumption ==
  /\ Interval \in Nat \ {0}
  /\ DepthLimit \in Nat
  /\ MaxSwitches \in Nat

VARIABLES
  generation,   \* g_runtime_thread_switch_generation_fast
  frames,       \* the native frames: how each was called, and the generation then
  phase,        \* what the machine does next, see Phases
  invalidated,  \* chain_context_invalidated_
  work          \* dispatches_since_import_

vars == <<generation, frames, phase, invalidated, work>>

(* "outer": the run loop is about to dispatch; "charge": it charges what    *)
(* returned; "running": the code of the top frame runs; "unwinding": the    *)
(* top frame returns without running on.                                    *)
Phases == {"outer", "charge", "running", "unwinding"}
Frame == [kind : {"outer", "direct", "dynamic"}, home : Nat]

Init ==
  /\ generation = 0
  /\ frames = << >>
  /\ phase = "outer"
  /\ invalidated = FALSE
  /\ work = 0

Top == frames[Len(frames)]
Pop == SubSeq(frames, 1, Len(frames) - 1)
Push(kind) == Append(frames, [kind |-> kind, home |-> generation])

(* The kernel gives the context to another thread or handler, or not. *)
MaySwitch == generation' \in {generation, generation + 1} /\ generation' <= MaxSwitches

(* Mutant: a boundary that switches forgets to take its interval off. *)
ChargedAgain ==
  \/ /\ work + 1 < Interval
     /\ work' = work + 1
     /\ UNCHANGED <<generation, invalidated>>
  \/ /\ work + 1 >= Interval
     /\ MaySwitch
     /\ work' = IF generation' = generation THEN work + 1 - Interval ELSE work + 1
     /\ invalidated' = (invalidated \/ generation' # generation)

(* account_dispatch_work with allow_preemption, and run_starvation_boundary *)
(* when enough work has come together.                                      *)
Charged ==
  \/ /\ work + 1 < Interval
     /\ work' = work + 1
     /\ UNCHANGED <<generation, invalidated>>
  \/ /\ work + 1 >= Interval
     /\ work' = work + 1 - Interval
     /\ MaySwitch
     /\ invalidated' = (invalidated \/ generation' # generation)

(* Without allow_preemption the work is only counted. *)
Counted ==
  /\ work' = work + 1
  /\ UNCHANGED <<generation, invalidated>>

(* Mutant: a compile-time edge does not look at all. *)
LostContextDynamic(f) == f.kind # "direct" /\ generation # f.home

(* What the helper that made the call looks at when the call returns. *)
LostContext(f) ==
  IF f.kind = "direct" THEN invalidated ELSE generation # f.home

Dispatch ==
  /\ phase = "outer"
  /\ frames' = <<[kind |-> "outer", home |-> generation]>>
  /\ invalidated' = FALSE
  /\ phase' = "running"
  /\ UNCHANGED <<generation, work>>

(* Mutant: an import resets the work. *)
DispatchImportResets ==
  /\ phase = "outer"
  /\ MaySwitch
  /\ invalidated' = FALSE
  /\ phase' = "charge"
  /\ work' = 0
  /\ UNCHANGED frames

(* Import wrappers and kernel stubs are never chained: the loop runs them.  *)
DispatchImport ==
  /\ phase = "outer"
  /\ MaySwitch
  /\ invalidated' = FALSE
  /\ phase' = "charge"
  /\ UNCHANGED <<frames, work>>

(* A unit calls another one, inline up to the depth limit; beyond it the    *)
(* caller returns so that the loop dispatches the target.                   *)
Call(kind) ==
  /\ phase = "running"
  /\ IF Len(frames) <= DepthLimit
     THEN frames' = Push(kind) /\ phase' = "running"
     ELSE UNCHANGED frames /\ phase' = "unwinding"
  /\ UNCHANGED <<generation, invalidated, work>>

(* The top frame returns.  Its caller runs on if it still has the context   *)
(* and finds its return address in pc, and returns as well otherwise.       *)
Return ==
  /\ phase \in {"running", "unwinding"} /\ Len(frames) > 1
  /\ frames' = Pop
  /\ \/ LostContext(Top) /\ Counted /\ phase' = "unwinding"
     \/ /\ ~LostContext(Top) /\ Charged
        /\ phase' \in {"running", "unwinding"}
        /\ generation' # generation => phase' = "unwinding"

ReturnToLoop ==
  /\ phase \in {"running", "unwinding"} /\ Len(frames) = 1
  /\ frames' = << >>
  /\ phase' = "charge"
  /\ UNCHANGED <<generation, invalidated, work>>

ChargeDispatch ==
  /\ phase = "charge"
  /\ Charged
  /\ phase' = "outer"
  /\ UNCHANGED frames

Next ==
  \/ Dispatch
  \/ DispatchImport
  \/ \E kind \in {"direct", "dynamic"} : Call(kind)
  \/ Return
  \/ ReturnToLoop
  \/ ChargeDispatch

(* The guest never stops inside one unit; see the README for what this      *)
(* leaves out.                                                              *)
Spec == Init /\ [][Next]_vars /\ WF_vars(Next)

-----------------------------------------------------------------------------
TypeOK ==
  /\ generation \in 0..MaxSwitches
  /\ frames \in Seq(Frame)
  /\ Len(frames) <= DepthLimit + 1
  /\ phase \in Phases
  /\ invalidated \in BOOLEAN
  /\ work \in Nat

(* Guest code runs on in a native frame only if the context has been its    *)
(* own without interruption, and so for all the frames below it: no frame   *)
(* reads the registers of the thread that came after (or came back).        *)
NoStaleResume ==
  phase = "running" => \A i \in DOMAIN frames : frames[i].home = generation

(* Work that a preempted chain counts without a boundary never piles up:    *)
(* at every dispatch less than one interval is left.                        *)
NoBacklog == DepthLimit < Interval /\ phase = "outer" => work < Interval

(* run_starvation_boundary takes one interval off the work. *)
BoundaryTaken == work + 1 >= Interval /\ work' = work + 1 - Interval

(* Whatever the guest does, nests, returns early, calls imports or hits the *)
(* depth limit, starvation boundaries keep coming.                          *)
BoundariesKeepComing == []<><<BoundaryTaken>>_vars
=============================================================================
