------------------------------ MODULE MCMutexes ------------------------------
(* Constants for the runs of Mutexes.                                      *)
EXTENDS Mutexes

MCInitialPriority == [t \in Threads |-> 1]
MCRecursive == [o \in Objects |-> TRUE]
=============================================================================
