--------------------------------- MODULE Heap ---------------------------------
(***************************************************************************)
(* The first-fit allocator of src/memory/heap.c.                           *)
(*                                                                         *)
(* Addresses and block sizes are in units of 8 bytes, counted from         *)
(* heap_pool: the pool, the header and every size the code computes are    *)
(* multiples of 8.  Requests are in bytes.  The free list is the sequence  *)
(* of its blocks; _coalesce_forward takes one step per iteration.          *)
(*                                                                         *)
(* heap_alloc and heap_free have no lock of their own: calls are one at a  *)
(* time, as from main() and from task_delete with interrupts off.  A call  *)
(* that returns NULL, or frees NULL, changes nothing and is not a step.    *)
(***************************************************************************)
EXTENDS Integers, Sequences, FiniteSets

CONSTANTS
  PoolUnits,              \* RTOS_HEAP_POOL_SIZE / 8
  Request,                \* sizes in bytes the callers of heap_alloc ask for
  SizeMod                 \* 2^32 in the code: size_t wraps there

HeaderUnits == 1
MinBlock == HeaderUnits + 1
Addr == 0 .. PoolUnits - 1

ASSUME HeapAssumption ==
  /\ PoolUnits \in Nat /\ PoolUnits >= MinBlock
  /\ Request \subseteq Nat \ {0}
  /\ SizeMod \in Nat /\ SizeMod % 8 = 0
  /\ \A n \in Request : n + 15 < SizeMod     \* rounding up does not wrap

VARIABLES
  free_list,              \* free_list and heap_block_t::next
  size,                   \* heap_block_t::size, at every address
  walk,                   \* 0, or where _coalesce_forward is in free_list
  held,                   \* blocks the callers own
  asked                   \* what heap_alloc was asked for when it gave a block

vars == <<free_list, size, walk, held, asked>>

Free == {free_list[i] : i \in 1 .. Len(free_list)}
Blocks == Free \cup held
End(b) == size[b] + b

\* _remove_from_list
Without(s, i) == [j \in 1 .. Len(s) - 1 |-> IF j < i THEN s[j] ELSE s[j + 1]]

\* heap_init
Init ==
  /\ free_list = <<0>>
  /\ size = [a \in Addr |-> IF a = 0 THEN PoolUnits ELSE 0]
  /\ walk = 0
  /\ held = {}
  /\ asked = [a \in Addr |-> 0]

\* Mutant: the request is rounded down.
TotalDown(n) == n \div 8 + HeaderUnits

\* The request, rounded up to 8 bytes in size_t arithmetic, and a header.
Total(n) == (((n + 7) % SizeMod) \div 8 + HeaderUnits) % (SizeMod \div 8)

Fitting(n) == {i \in 1 .. Len(free_list) : size[free_list[i]] >= Total(n)}
FirstFit(n) == CHOOSE i \in Fitting(n) : \A j \in Fitting(n) : i <= j

\* What is left of the block is too small for a block of its own.
AllocWhole(n, i) ==
  /\ size[free_list[i]] - Total(n) < MinBlock
  /\ free_list' = Without(free_list, i)
  /\ UNCHANGED <<size, walk>>

\* Mutant: the header of the block keeps the size it had.
AllocSplitKeepsSize(n, i) ==
  LET curr == free_list[i]
      frag == curr + Total(n)
      leftover == size[curr] - Total(n)
  IN  /\ leftover >= MinBlock
      /\ free_list' = <<frag>> \o Without(free_list, i)
      /\ size' = [size EXCEPT ![frag] = leftover]
      /\ walk' = 1

\* The end of the block becomes a free block at the head of the list.
AllocSplit(n, i) ==
  LET curr == free_list[i]
      frag == curr + Total(n)
      leftover == size[curr] - Total(n)
  IN  /\ leftover >= MinBlock
      /\ free_list' = <<frag>> \o Without(free_list, i)
      /\ size' = [size EXCEPT ![frag] = leftover, ![curr] = Total(n)]
      /\ walk' = 1

heap_alloc(n) ==
  /\ walk = 0
  /\ Fitting(n) # {}
  /\ LET i == FirstFit(n)
     IN  /\ AllocWhole(n, i) \/ AllocSplit(n, i)
         /\ held' = held \cup {free_list[i]}
         /\ asked' = [asked EXCEPT ![free_list[i]] = n]

heap_free(b) ==
  /\ walk = 0
  /\ b \in held
  /\ held' = held \ {b}
  /\ free_list' = <<b>> \o free_list
  /\ walk' = 1
  /\ UNCHANGED <<size, asked>>

AtNeighbour(i) == End(free_list[i]) = free_list[i + 1]

\* Mutant: after a merge the loop moves on, if it can, without looking at the same
\* block again.
CoalesceMergeOnce ==
  /\ walk \in 1 .. Len(free_list) - 1
  /\ AtNeighbour(walk)
  /\ size' = [size EXCEPT ![free_list[walk]] = @ + size[free_list[walk + 1]]]
  /\ free_list' = Without(free_list, walk + 1)
  /\ walk' = IF walk + 1 < Len(free_list) THEN walk + 1 ELSE walk
  /\ UNCHANGED <<held, asked>>

\* The next block of the list starts where this one ends: it is swallowed.
CoalesceMerge ==
  /\ walk \in 1 .. Len(free_list) - 1
  /\ AtNeighbour(walk)
  /\ size' = [size EXCEPT ![free_list[walk]] = @ + size[free_list[walk + 1]]]
  /\ free_list' = Without(free_list, walk + 1)
  /\ UNCHANGED <<walk, held, asked>>

CoalesceNext ==
  /\ walk \in 1 .. Len(free_list) - 1
  /\ ~AtNeighbour(walk)
  /\ walk' = walk + 1
  /\ UNCHANGED <<free_list, size, held, asked>>

\* Mutant: the loop looks for a successor of the last block.
CoalesceDoneLate ==
  /\ walk # 0 /\ walk >= Len(free_list)
  /\ walk' = IF walk = Len(free_list) THEN walk + 1 ELSE 0
  /\ UNCHANGED <<free_list, size, held, asked>>

CoalesceDone ==
  /\ walk # 0 /\ walk >= Len(free_list)
  /\ walk' = 0
  /\ UNCHANGED <<free_list, size, held, asked>>

Next ==
  \/ \E n \in Request : heap_alloc(n)
  \/ \E b \in Addr : heap_free(b)
  \/ CoalesceMerge \/ CoalesceNext \/ CoalesceDone

Spec == Init /\ [][Next]_vars

-----------------------------------------------------------------------------
(* Correctness *)

TypeOK ==
  /\ free_list \in Seq(Addr)
  /\ size \in [Addr -> 0 .. PoolUnits]
  /\ walk \in 0 .. Len(free_list)
  /\ held \subseteq Addr
  /\ asked \in [Addr -> Request \cup {0}]

Apart(a, b) == End(a) <= b \/ End(b) <= a

\* After every sequence of heap_alloc and heap_free, and also inside the
\* coalescing loop, the pool is divided between the blocks of the free list, none
\* listed twice, and the blocks the callers hold: blocks do not overlap, lie in
\* the pool, have room for a header, and no byte is lost.
HeapPartition ==
  /\ \A i, j \in 1 .. Len(free_list) : free_list[i] = free_list[j] => i = j
  /\ Free \cap held = {}
  /\ \A b \in Blocks : size[b] >= MinBlock /\ End(b) <= PoolUnits
  /\ \A a, b \in Blocks : a # b => Apart(a, b)
  /\ \A u \in Addr : \E b \in Blocks : b <= u /\ u < End(b)

\* A block given out by heap_alloc keeps room behind its header for all the bytes
\* that were asked for, until it is freed.
RoomForRequest == \A b \in held : asked[b] <= 8 * (size[b] - HeaderUnits)

\* _coalesce_forward leaves no mergeable pair behind it: a block it has passed
\* does not end where its successor in the list begins.
PassedAreApart == \A i \in 1 .. walk - 1 : ~AtNeighbour(i)
=============================================================================
