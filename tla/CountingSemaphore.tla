-------------------------- MODULE CountingSemaphore --------------------------
(****************************************************************************)
(* What a semaphore promises, without queue, scheduler or clock: units are  *)
(* neither made up nor lost, but for what a supply says and a word can      *)
(* hold, and a claim is met whole, from units that are there, or not at     *)
(* all.  A negative supply takes units away and may leave a debt.           *)
(****************************************************************************)
EXTENDS MachineIntegers, FiniteSetsExt

CONSTANTS
  Clients,
  Capacity,   \* the most units there may be when nobody is served
  Limit,      \* units are kept in Ints(Limit)
  Amounts     \* the units a supply may bring, or take away

VARIABLES
  live,    \* the semaphore exists
  units,   \* units nobody has taken, below 0 a debt
  claims   \* [Clients -> 0..Capacity], what a waiting client asks for, 0 for none

absVars == <<live, units, claims>>

Claimants == {c \in Clients : claims[c] > 0}
Claimed(S) == MapThenSumSet(LAMBDA c : claims[c], S)
Cleared(S) == [c \in Clients |-> IF c \in S THEN 0 ELSE claims[c]]

AbsInit == live = FALSE /\ units = 0 /\ claims = [c \in Clients |-> 0]

Make(n) == /\ ~live /\ live' = TRUE
           /\ units' = n /\ UNCHANGED claims

Destroy == /\ live /\ live' = FALSE
           /\ units' = 0 /\ claims' = Cleared(Claimants)

(* A client is served at once only when nobody claims already. *)
Take(n) == /\ live /\ Claimants = {} /\ n <= units
           /\ units' = units - n /\ UNCHANGED <<live, claims>>

Claim(c, n) == /\ live /\ claims[c] = 0
               /\ Claimants # {} \/ n > units
               /\ claims' = [claims EXCEPT ![c] = n]
               /\ UNCHANGED <<live, units>>

(* New units meet the claims of S, if there are units for them; a claim    *)
(* stays open only while what remains does not meet every claim.           *)
Supply(n, S) ==
  /\ live /\ UNCHANGED live
  /\ claims' = Cleared(S)
  /\ units' = Wrap(units + n, Limit) - Claimed(S)
  /\ units' <= Capacity
  /\ S # {} => units' >= 0
  /\ S # Claimants => \E c \in Claimants \ S : claims[c] > units'

(* A deadline passes or a client ends: its claim goes, no unit does. *)
Withdraw(S) == claims' = Cleared(S) /\ UNCHANGED <<live, units>>

AbsNext ==
  \/ \E n \in 0..Capacity : Make(n)
  \/ Destroy
  \/ \E n \in 1..Capacity : Take(n) \/ \E c \in Clients : Claim(c, n)
  \/ \E S \in SUBSET Claimants : Withdraw(S) \/ \E n \in Amounts : Supply(n, S)

AbsSpec == AbsInit /\ [][AbsNext]_absVars
=============================================================================
