------------------------------ MODULE UserMemory ------------------------------
(****************************************************************************)
(* The user memory partition of the kernel: allocate_block and free_block   *)
(* of kernel.cpp, which back the SysMemUserForUser calls and the thread     *)
(* stacks.  Addresses and sizes are bytes modulo Space (2^32 in the code),  *)
(* scaled down; every block is a whole number of granules.                  *)
(****************************************************************************)
EXTENDS Integers, SequencesExt, FiniteSetsExt

CONSTANTS
  Space,        \* size of the address space; arithmetic wraps there
  Granule,      \* kMemoryGranularity
  UserStart,    \* the page after the loaded image
  UserEnd,      \* kUserMemoryEnd
  Uids,
  Sizes,        \* the sizes asked for, in bytes
  Alignments,   \* kMemoryGranularity and those of types 3 and 4 above it
  Addresses     \* the addresses of type 2

(* No request lies so near the end of the address space that the code's     *)
(* 32-bit sums of start and size wrap.                                      *)
RequestsFit ==
  \A size \in Sizes :
    /\ \A a \in Alignments : UserEnd + a + size + Granule <= Space
    /\ \A at \in Addresses : at + size + Granule <= Space

ASSUME MemoryAssumption ==
  /\ Space \in Nat /\ Granule \in Nat \ {0} /\ Space % Granule = 0
  /\ UserStart \in Nat \ {0} /\ UserEnd \in Nat /\ UserStart < UserEnd /\ UserEnd < Space
  /\ UserStart % Granule = 0 /\ UserEnd % Granule = 0
  /\ Sizes \subseteq 1..Space - 1
  /\ Alignments \subseteq Nat \ {0} /\ \A a \in Alignments : a % Granule = 0
  /\ Addresses \subseteq 0..Space - 1

VARIABLES
  free,     \* free_ranges_
  blocks    \* blocks_: the range of every allocated uid

memoryVars == <<free, blocks>>

Granules == {n \in 0..Space - 1 : n % Granule = 0}
Ranges == [address : Granules, size : Granules]

MemoryInit ==
  /\ free = <<[address |-> UserStart, size |-> UserEnd - UserStart]>>
  /\ blocks = << >>

AlignUp(v, a) == LET top == (v + a - 1) % Space IN top - (top % a)
EndOf(r) == (r.address + r.size) % Space

(* allocate_block looks for room for n bytes in a free range r; each gives  *)
(* the set of start addresses, empty if r has no room.                      *)
LowStart(r, n, a) ==
  {s \in {AlignUp(r.address, a)} : (s + n) % Space <= EndOf(r)}
HighStart(r, n, a) ==
  LET end == r.address + r.size
  IN {s \in {end - n - ((end - n) % a)} : end >= n /\ s >= r.address}
FixedStart(r, n, at) ==
  {s \in {at - (at % Granule)} : s >= r.address /\ (s + n) % Space <= EndOf(r)}

(* s with ranges p in place of those between i and j. *)
Spliced(s, i, p, j) == SubSeq(s, 1, i) \o p \o SubSeq(s, j, Len(s))

(* The free ranges without [address, address + n), cut out of the first one *)
(* that holds it.                                                           *)
Holds(r, address, n) ==
  address >= r.address /\ (address + n) % Space <= EndOf(r)
NonEmpty(r) == IF r.size = 0 THEN << >> ELSE <<r>>
Pieces(r, address, n) ==
  LET before == [address |-> r.address, size |-> address - r.address]
      after == [address |-> (address + n) % Space,
                size |-> (EndOf(r) - (address + n)) % Space]
  IN NonEmpty(before) \o NonEmpty(after)
Carved(address, n) ==
  LET holding == {i \in DOMAIN free : Holds(free[i], address, n)}
      i == Min(holding)
  IN IF holding = {} THEN free
     ELSE Spliced(free, i - 1, Pieces(free[i], address, n), i + 1)

Place(uid, address, n) ==
  /\ free' = Carved(address, n)
  /\ blocks' = [u \in DOMAIN blocks \cup {uid} |->
                  IF u = uid THEN [address |-> address, size |-> n] ELSE blocks[u]]

(* The first free range with room is taken, or the last for the high types. *)
(* A request that finds no room changes nothing.                            *)
AllocateLow(uid, size, a) ==
  LET n == AlignUp(size, Granule) IN
  \E i \in DOMAIN free :
    /\ \A j \in 1..i - 1 : LowStart(free[j], n, a) = {}
    /\ \E s \in LowStart(free[i], n, a) : Place(uid, s, n)
AllocateHigh(uid, size, a) ==
  LET n == AlignUp(size, Granule) IN
  \E i \in DOMAIN free :
    /\ \A j \in i + 1..Len(free) : HighStart(free[j], n, a) = {}
    /\ \E s \in HighStart(free[i], n, a) : Place(uid, s, n)
AllocateAt(uid, size, at) ==
  LET n == AlignUp(size, Granule) IN
  \E i \in DOMAIN free :
    /\ \A j \in 1..i - 1 : FixedStart(free[j], n, at) = {}
    /\ \E s \in FixedStart(free[i], n, at) : Place(uid, s, n)

(* The block goes back in address order ... *)
Position(r) == 1 + Cardinality({i \in DOMAIN free : free[i].address < r.address})
Inserted(r) == Spliced(free, Position(r) - 1, <<r>>, Position(r))

(* ... and joins the range after entry i if that follows without a gap. *)
Joined(ranges, i) ==
  IF i \in 1..Len(ranges) - 1 /\ EndOf(ranges[i]) = ranges[i + 1].address
  THEN Spliced(ranges, i - 1, <<[ranges[i] EXCEPT !.size = (@ + ranges[i + 1].size) % Space]>>, i + 2)
  ELSE ranges

(* Mutant: it joins the range behind it only. *)
FreeBlockJoinsOne(uid) ==
  LET r == blocks[uid]
  IN /\ free' = Joined(Inserted(r), Position(r))
     /\ blocks' = [u \in DOMAIN blocks \ {uid} |-> blocks[u]]
FreeBlock(uid) ==
  LET r == blocks[uid]
      i == Position(r)
  IN /\ free' = Joined(Joined(Inserted(r), i), i - 1)
     /\ blocks' = [u \in DOMAIN blocks \ {uid} |-> blocks[u]]

MemoryNext ==
  \/ \E uid \in Uids \ DOMAIN blocks, size \in Sizes :
       \/ \E a \in Alignments : AllocateLow(uid, size, a) \/ AllocateHigh(uid, size, a)
       \/ \E at \in Addresses : AllocateAt(uid, size, at)
  \/ \E uid \in DOMAIN blocks : FreeBlock(uid)

MemorySpec == MemoryInit /\ [][MemoryNext]_memoryVars

-----------------------------------------------------------------------------
MemoryTypeOK ==
  /\ free \in Seq(Ranges)
  /\ DOMAIN blocks \subseteq Uids
  /\ \A uid \in DOMAIN blocks : blocks[uid] \in Ranges

Bytes(r) == r.address..r.address + r.size - 1

(* Every byte of the partition is in exactly one place, a free range or the *)
(* block of one uid, and no block is empty.                                 *)
EveryByteOnce ==
  \A b \in 0..Space - 1 :
    Cardinality({i \in DOMAIN free : b \in Bytes(free[i])})
      + Cardinality({uid \in DOMAIN blocks : b \in Bytes(blocks[uid])})
    = IF b \in UserStart..UserEnd - 1 THEN 1 ELSE 0

(* Free ranges are in order of address with allocated bytes between them:   *)
(* a freed block has joined both its neighbours, whatever was freed before. *)
FreeCoalesced ==
  \A i \in 1..Len(free) - 1 :
    free[i].address + free[i].size < free[i + 1].address

(* The partition is tiled exactly by blocks and coalesced free ranges;      *)
(* "all free fragments coalesce without losing bytes"                       *)
(* (kernel_hle_tests.cpp:61).                                               *)
ExactTiling == MemoryTypeOK /\ EveryByteOnce /\ FreeCoalesced
=============================================================================
