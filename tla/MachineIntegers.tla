--------------------------- MODULE MachineIntegers ---------------------------
(****************************************************************************)
(* The signed 32-bit integers the guest's arguments become (as_signed) and  *)
(* the counts of semaphores and mutexes are kept in.  A sum that leaves     *)
(* them is undefined in C++; the machine's addition, which the builds emit, *)
(* wraps.                                                                   *)
(****************************************************************************)
EXTENDS Integers

(* The integers of a word, where limit is 2^31 in the code. *)
Ints(limit) == -limit..limit - 1

(* The integer a word holds after an addition that came to x. *)
Wrap(x, limit) == ((x + limit) % (2 * limit)) - limit
=============================================================================
