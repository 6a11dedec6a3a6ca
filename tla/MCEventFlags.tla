----------------------------- MODULE MCEventFlags -----------------------------
(* Constants for the runs of EventFlags.                                   *)
EXTENDS EventFlags

MCInitialPriority == [t \in Threads |-> 1]

(* A word that is consumed, any bit that leaves nothing, one bit to see.    *)
MCRequests ==
  {[bits |-> {1, 2}, any |-> FALSE, clear |-> "bits"],
   [bits |-> {1, 2}, any |-> TRUE, clear |-> "all"],
   [bits |-> {2}, any |-> FALSE, clear |-> "none"]}
=============================================================================
