----------------------------- MODULE MCScheduler -----------------------------
(* Constants for the runs of Scheduler.                                    *)
EXTENDS Scheduler

(* The loader and the thread it creates start as urgent as each other, and  *)
(* either may become more urgent.                                           *)
MCInitialPriority == [t \in Threads |-> 2]
=============================================================================
