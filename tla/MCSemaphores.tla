----------------------------- MODULE MCSemaphores -----------------------------
(* Constants for the runs of Semaphores.                                   *)
EXTENDS Semaphores

MCInitialPriority == [t \in Threads |-> 1]
MCMaxCount == [o \in Objects |-> 2]
MCSignals == {-1, 0, 1, 2}
=============================================================================
