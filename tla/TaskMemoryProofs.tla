--------------------------- MODULE TaskMemoryProofs ---------------------------
(***************************************************************************)
(* Proofs about Heap and TaskMemory.                                       *)
(*                                                                         *)
(* The allocator keeps the pool partitioned, for every pool size and every *)
(* set of requests whose rounding does not wrap: HeapPartition is          *)
(* inductive together with TypeOK.  What an operation does to the list     *)
(* matters only through the SET of listed blocks, so each action is first  *)
(* reduced to an equation on Free (lemmas about Without and prepending),   *)
(* and the partition is then argued on Blocks and size.                    *)
(*                                                                         *)
(* On top of it every block of the heap has one owner, canaries tell the   *)
(* truth and the registry does not overflow, for every sequence of         *)
(* task_create, task_delete and calls of the application.                  *)
(***************************************************************************)
EXTENDS TaskMemory, WellFoundedInduction, FiniteSetTheorems, TLAPS

-----------------------------------------------------------------------------
(* The free list and the blocks *)

\* The members of a list, and that none is listed twice.
Listed(s) == {s[i] : i \in 1 .. Len(s)}
NoRepeat(s) == \A i, j \in 1 .. Len(s) : s[i] = s[j] => i = j

\* _remove_from_list takes out exactly the block at position i.
LEMMA WithoutListed ==
  ASSUME NEW s \in Seq(Addr), NoRepeat(s), NEW i \in 1 .. Len(s)
  PROVE  /\ Without(s, i) \in Seq(Addr)
         /\ Len(Without(s, i)) = Len(s) - 1
         /\ NoRepeat(Without(s, i))
         /\ Listed(Without(s, i)) = Listed(s) \ {s[i]}
<1> DEFINE w == Without(s, i)
<1>0. Len(s) \in Nat /\ Len(s) >= 1
  OBVIOUS
<1>1. w \in Seq(Addr) /\ Len(w) = Len(s) - 1
  BY <1>0 DEF Without
<1>2. \A j \in 1 .. Len(s) - 1 : w[j] = IF j < i THEN s[j] ELSE s[j + 1]
  BY DEF Without
<1> HIDE DEF w
<1>3. NoRepeat(w)
  BY <1>0, <1>1, <1>2 DEF NoRepeat
<1>4. ASSUME NEW x \in Listed(w) PROVE x \in Listed(s) \ {s[i]}
  <2>1. PICK j \in 1 .. Len(s) - 1 : x = w[j]
    BY <1>1, <1>4 DEF Listed
  <2>2. PICK k \in 1 .. Len(s) : x = s[k] /\ k # i
    BY <1>0, <1>2, <2>1
  <2> QED
    BY <2>2 DEF Listed, NoRepeat
<1>5. ASSUME NEW x \in Listed(s) \ {s[i]} PROVE x \in Listed(w)
  <2>1. PICK k \in 1 .. Len(s) : x = s[k]
    BY DEF Listed
  <2>2. k # i
    BY <2>1
  <2>3. CASE k < i
    BY <1>0, <1>1, <1>2, <2>1, <2>3 DEF Listed
  <2>4. CASE k > i
    <3>1. k - 1 \in 1 .. Len(s) - 1 /\ w[k - 1] = s[k]
      BY <1>0, <1>2, <2>4
    <3> QED
      BY <1>1, <2>1, <3>1 DEF Listed
  <2> QED
    BY <2>2, <2>3, <2>4
<1> QED
  BY <1>1, <1>3, <1>4, <1>5 DEF w

\* _prepend_free adds exactly its block.
LEMMA PrependListed ==
  ASSUME NEW s \in Seq(Addr), NoRepeat(s), NEW b \in Addr, b \notin Listed(s)
  PROVE  /\ <<b>> \o s \in Seq(Addr)
         /\ Len(<<b>> \o s) = Len(s) + 1
         /\ NoRepeat(<<b>> \o s)
         /\ Listed(<<b>> \o s) = Listed(s) \cup {b}
<1> DEFINE w == <<b>> \o s
<1>1. /\ w \in Seq(Addr) /\ Len(w) = Len(s) + 1 /\ Len(s) \in Nat
      /\ \A j \in 1 .. Len(s) + 1 : w[j] = IF j = 1 THEN b ELSE s[j - 1]
  OBVIOUS
<1> HIDE DEF w
<1>2. \A j \in 1 .. Len(s) : s[j] # b
  BY DEF Listed
<1>3. NoRepeat(w)
  <2> SUFFICES ASSUME NEW i \in 1 .. Len(s) + 1, NEW j \in 1 .. Len(s) + 1, w[i] = w[j]
               PROVE  i = j
    BY <1>1 DEF NoRepeat
  <2>1. CASE i = 1 \/ j = 1
    BY SMTT(20), ZenonT(30), <1>1, <1>2, <2>1
  <2>2. CASE i # 1 /\ j # 1
    <3>1. i - 1 \in 1 .. Len(s) /\ j - 1 \in 1 .. Len(s) /\ s[i - 1] = s[j - 1]
      BY <1>1, <2>2
    <3> QED
      BY SMTT(20), ZenonT(30), <1>1, <3>1 DEF NoRepeat
  <2> QED
    BY <2>1, <2>2
<1>4. ASSUME NEW x \in Listed(w) PROVE x \in Listed(s) \cup {b}
  BY <1>1, <1>4 DEF Listed
<1>5. ASSUME NEW x \in Listed(s) PROVE x \in Listed(w)
  <2>1. PICK k \in 1 .. Len(s) : x = s[k]
    BY <1>5 DEF Listed
  <2>2. k + 1 \in 1 .. Len(w) /\ w[k + 1] = x
    BY <1>1, <2>1
  <2> QED
    BY <2>2 DEF Listed
<1>6. b \in Listed(w)
  BY <1>1 DEF Listed
<1> QED
  BY <1>1, <1>3, <1>4, <1>5, <1>6 DEF w

\* What the partition says of a set of blocks B with the sizes z.
Tiling(B, z) ==
  /\ \A b \in B : z[b] >= MinBlock /\ z[b] + b <= PoolUnits
  /\ \A a, b \in B : a # b => z[a] + a <= b \/ z[b] + b <= a
  /\ \A u \in Addr : \E b \in B : b <= u /\ u < z[b] + b

\* HeapPartition in terms of the set of listed blocks.
LEMMA PartitionIsTiling ==
  HeapPartition <=> NoRepeat(free_list) /\ Free \cap held = {} /\ Tiling(Blocks, size)
BY DEF HeapPartition, NoRepeat, Tiling, Apart, End

\* The size heap_alloc computes holds the header and the bytes asked for.
LEMMA TotalBounds ==
  ASSUME NEW n \in Request
  PROVE  Total(n) \in Nat /\ Total(n) >= MinBlock /\ n <= 8 * (Total(n) - HeaderUnits)
<1>1. n \in Nat \ {0} /\ n + 15 < SizeMod /\ SizeMod \in Nat /\ SizeMod % 8 = 0
  BY HeapAssumption
<1>2. (n + 7) % SizeMod = n + 7
  BY <1>1
<1> DEFINE q == (n + 7) \div 8
<1>3. q \in Nat /\ q >= 1 /\ n <= 8 * q /\ 8 * q <= n + 7
  BY <1>1
<1>4. q + 1 < SizeMod \div 8
  BY <1>1, <1>3
<1>5. Total(n) = (q + 1) % (SizeMod \div 8)
  BY <1>2 DEF Total, HeaderUnits
<1> HIDE DEF q
<1>6. Total(n) = q + 1
  BY <1>1, <1>3, <1>4, <1>5
<1> QED
  BY <1>3, <1>6 DEF MinBlock, HeaderUnits

\* y is z after the block c of B has been cut in two, the first part k long.
Cuts(B, z, c, k, y) ==
  /\ B \in SUBSET Addr /\ z \in [Addr -> 0 .. PoolUnits] /\ Tiling(B, z)
  /\ c \in B /\ k \in Nat /\ k >= MinBlock /\ z[c] - k >= MinBlock
  /\ y = [z EXCEPT ![c + k] = z[c] - k, ![c] = k]

\* Cutting a block in two keeps the tiling; the new block was none before.
LEMMA TilingSplit ==
  ASSUME NEW B, NEW z, NEW c, NEW k, NEW y, Cuts(B, z, c, k, y)
  PROVE  c + k \in Addr \ B /\ y \in [Addr -> 0 .. PoolUnits] /\ Tiling(B \cup {c + k}, y)
<1>0. PoolUnits \in Nat
  BY HeapAssumption
<1>z. /\ B \in SUBSET Addr /\ z \in [Addr -> 0 .. PoolUnits] /\ Tiling(B, z)
       /\ c \in B /\ k \in Nat /\ k >= MinBlock /\ z[c] - k >= MinBlock
       /\ y = [z EXCEPT ![c + k] = z[c] - k, ![c] = k]
  BY DEF Cuts
<1> USE <1>0, <1>z DEF MinBlock, HeaderUnits
<1> DEFINE f == c + k
<1>1. /\ c \in Int /\ z[c] \in Int /\ z[c] + c <= PoolUnits
      /\ \A b \in B : b \in Int /\ z[b] \in Int
  BY DEF Tiling, Addr
<1>2. f \in Addr
  BY <1>1 DEF Addr
<1>3. f \notin B
  BY <1>1 DEF Tiling
<1>4. /\ y[c] = k /\ y[f] = z[c] - k /\ c # f
      /\ \A b \in B \ {c} : y[b] = z[b]
  BY <1>1, <1>2, <1>3
<1>5. y \in [Addr -> 0 .. PoolUnits]
  <2>1. k \in 0 .. PoolUnits /\ z[c] - k \in 0 .. PoolUnits
    BY <1>1 DEF Addr
  <2> QED
    BY <2>1
<1> HIDE DEF f
<1>f. f = c + k
  BY DEF f
<1>6. \A b \in B \cup {f} : y[b] >= MinBlock /\ y[b] + b <= PoolUnits
  BY <1>1, <1>4, <1>f DEF Tiling
<1>7. \A a, b \in B \cup {f} : a # b => y[a] + a <= b \/ y[b] + b <= a
  <2> DEFINE Before(a, b) == y[a] + a <= b
  <2>1. \A b \in B \ {c} : z[c] + c <= b \/ y[b] + b <= c
    BY <1>4 DEF Tiling
  <2>2. \A a, b \in B \ {c} : a # b => Before(a, b) \/ Before(b, a)
    BY <1>4 DEF Tiling
  <2>3. \A b \in B \ {c} : b \in Int /\ y[b] \in Int
    BY <1>1, <1>4
  <2>4. \A b \in B \ {c} : (Before(c, b) \/ Before(b, c)) /\ (Before(f, b) \/ Before(b, f))
    BY <1>1, <1>4, <1>f, <2>1, <2>3
  <2>5. Before(c, f)
    BY <1>1, <1>4, <1>f
  <2> HIDE DEF Before
  <2>6. \A a, b \in B \cup {f} : a # b => Before(a, b) \/ Before(b, a)
    BY ONLY <2>2, <2>4, <2>5, Zenon
  <2> QED
    BY ONLY <2>6 DEF Before
<1>8. ASSUME NEW u \in Addr PROVE \E b \in B \cup {f} : b <= u /\ u < y[b] + b
  <2>1. PICK b \in B : b <= u /\ u < z[b] + b
    BY DEF Tiling
  <2>2. CASE b # c
    BY <1>4, <2>1, <2>2
  <2>3. CASE b = c
    <3>1. CASE u < f
      BY <1>1, <1>4, <1>f, <2>1, <2>3, <3>1 DEF Addr
    <3>2. CASE u >= f
      BY <1>1, <1>4, <1>f, <2>1, <2>3, <3>2 DEF Addr
    <3>3. u < f \/ u >= f
      BY <1>1, <1>f DEF Addr
    <3> QED
      BY <3>1, <3>2, <3>3, Zenon
  <2> QED
    BY <2>2, <2>3, Zenon
<1> QED
  BY <1>2, <1>3, <1>5, <1>6, <1>7, <1>8, Zenon DEF Tiling, f

\* Merging a block with the one that starts at its end keeps the tiling.
LEMMA TilingMerge ==
  ASSUME NEW B \in SUBSET Addr, NEW z \in [Addr -> 0 .. PoolUnits], Tiling(B, z),
         NEW a \in B, NEW c \in B, z[a] + a = c,
         NEW y, y = [z EXCEPT ![a] = @ + z[c]]
  PROVE  y \in [Addr -> 0 .. PoolUnits] /\ Tiling(B \ {c}, y)
<1>0. PoolUnits \in Nat
  BY HeapAssumption
<1> USE <1>0 DEF MinBlock, HeaderUnits
<1>1. /\ a \in Int /\ c \in Int /\ z[c] + c <= PoolUnits /\ z[a] >= 2 /\ z[c] >= 2
      /\ \A b \in B : b \in Int /\ z[b] \in Int /\ b >= 0
  BY DEF Tiling, Addr
<1>2. y[a] = z[a] + z[c] /\ a # c /\ \A b \in B \ {a} : y[b] = z[b]
  BY <1>1
<1>3. y \in [Addr -> 0 .. PoolUnits]
  BY <1>1 DEF Addr
<1>4. \A b \in B \ {c} : y[b] >= MinBlock /\ y[b] + b <= PoolUnits
  BY <1>1, <1>2 DEF Tiling
<1>5. \A d, b \in B \ {c} : d # b => y[d] + d <= b \/ y[b] + b <= d
  BY <1>1, <1>2 DEF Tiling
<1>6. ASSUME NEW u \in Addr PROVE \E b \in B \ {c} : b <= u /\ u < y[b] + b
  <2>1. PICK b \in B : b <= u /\ u < z[b] + b
    BY DEF Tiling
  <2>2. CASE b \notin {a, c}
    BY <1>2, <2>1, <2>2
  <2>3. CASE b \in {a, c}
    <3>1. u \in Int /\ z[a] \in Int /\ z[c] \in Int
      BY <1>1 DEF Addr
    <3>2. a <= u /\ u < y[a] + a
      BY ONLY <1>1, <1>2, <2>1, <2>3, <3>1, z[a] + a = c
    <3> QED
      BY <1>2, <3>2
  <2> QED
    BY <2>2, <2>3
<1> QED
  BY <1>3, <1>4, <1>5, <1>6, Zenon DEF Tiling

-----------------------------------------------------------------------------
IInv == TypeOK /\ HeapPartition /\ RoomForRequest /\ PassedAreApart

\* The list part of the invariant, and the blocks as lemmas speak of them.
LEMMA InvFacts ==
  ASSUME IInv
  PROVE  /\ free_list \in Seq(Addr) /\ Len(free_list) \in Nat /\ NoRepeat(free_list)
         /\ Free = Listed(free_list) /\ Free \subseteq Addr /\ Free \cap held = {}
         /\ Blocks = Free \cup held /\ Blocks \in SUBSET Addr
         /\ size \in [Addr -> 0 .. PoolUnits] /\ Tiling(Blocks, size)
<1>1. /\ free_list \in Seq(Addr) /\ held \subseteq Addr
      /\ size \in [Addr -> 0 .. PoolUnits]
  BY DEF IInv, TypeOK
<1>2. Free = Listed(free_list) /\ Free \subseteq Addr
  BY <1>1 DEF Free, Listed
<1>3. NoRepeat(free_list) /\ Free \cap held = {} /\ Tiling(Blocks, size)
  BY PartitionIsTiling DEF IInv
<1> QED
  BY <1>1, <1>2, <1>3 DEF Blocks

\* The same facts after a step are what has to be shown of the partition.
LEMMA PartitionNext ==
  ASSUME NoRepeat(free_list'), Listed(free_list') \cap held' = {},
         Tiling(Listed(free_list') \cup held', size')
  PROVE  HeapPartition'
BY DEF HeapPartition, NoRepeat, Tiling, Apart, End, Blocks, Free, Listed

LEMMA InitIInv == Init => IInv
<1> SUFFICES ASSUME Init PROVE IInv
  OBVIOUS
<1>0. PoolUnits \in Nat /\ PoolUnits >= 2
  BY HeapAssumption DEF MinBlock, HeaderUnits
<1>1. /\ free_list = <<0>> /\ Len(free_list) = 1 /\ free_list[1] = 0 /\ 0 \in Addr
      /\ size[0] = PoolUnits /\ held = {}
  BY <1>0 DEF Init, Addr
<1>2. TypeOK
  BY <1>0, <1>1 DEF Init, TypeOK, Addr
<1>3. Free = {0} /\ Blocks = {0}
  BY <1>1 DEF Free, Blocks
<1>4. HeapPartition
  BY <1>0, <1>1, <1>3 DEF HeapPartition, Apart, End, MinBlock, HeaderUnits, Addr
<1>5. RoomForRequest /\ PassedAreApart
  BY <1>1 DEF Init, RoomForRequest, PassedAreApart
<1> QED
  BY <1>2, <1>4, <1>5 DEF IInv

\* heap_free: the block moves from the caller to the list.
LEMMA FreeIInv ==
  ASSUME IInv, NEW b \in Addr, heap_free(b)
  PROVE  IInv'
<1>1. /\ b \in held /\ held' = held \ {b} /\ free_list' = <<b>> \o free_list
      /\ walk' = 1 /\ size' = size /\ asked' = asked
  BY DEF heap_free
<1>2. b \notin Listed(free_list)
  BY <1>1, InvFacts
<1>3. /\ free_list' \in Seq(Addr) /\ Len(free_list') = Len(free_list) + 1
      /\ NoRepeat(free_list') /\ Listed(free_list') = Free \cup {b}
  BY <1>1, <1>2, InvFacts, PrependListed
<1>4. Listed(free_list') \cup held' = Blocks /\ Listed(free_list') \cap held' = {}
  BY <1>1, <1>3, InvFacts
<1>5. HeapPartition'
  BY <1>1, <1>3, <1>4, InvFacts, PartitionNext, Zenon
<1>6. TypeOK'
  BY <1>1, <1>3, InvFacts DEF IInv, TypeOK
<1>7. RoomForRequest'
  BY <1>1 DEF IInv, RoomForRequest
<1>8. PassedAreApart'
  BY <1>1 DEF PassedAreApart
<1> QED
  BY <1>5, <1>6, <1>7, <1>8 DEF IInv

\* A set of natural numbers has a least member.
LEMMA LeastMember ==
  ASSUME NEW S \in SUBSET Nat, S # {}
  PROVE  \E i \in S : \A j \in S : i <= j
<1>1. PICK i \in S : \A j \in S : ~ (<<j, i>> \in OpToRel(<, Nat))
  BY NatLessThanWellFounded, WFMin, Zenon
<1>2. \A x, y \in Nat : x < y => <<x, y>> \in OpToRel(<, Nat)
  BY DEF OpToRel
<1>3. \A j \in S : ~(j < i)
  BY <1>1, <1>2, Zenon
<1> QED
  BY <1>3

\* A fitting block exists, so the first one is well defined.
LEMMA FirstFits ==
  ASSUME IInv, NEW n \in Request, Fitting(n) # {}
  PROVE  FirstFit(n) \in 1 .. Len(free_list) /\ size[free_list[FirstFit(n)]] >= Total(n)
<1>1. Fitting(n) \subseteq Nat
  BY InvFacts DEF Fitting
<1>2. \E i \in Fitting(n) : \A j \in Fitting(n) : i <= j
  BY <1>1, LeastMember
<1>3. FirstFit(n) \in Fitting(n)
  BY <1>2 DEF FirstFit
<1> QED
  BY <1>3 DEF Fitting

\* heap_alloc: the block moves to the caller, and what it does not need stays.
LEMMA AllocIInv ==
  ASSUME IInv, NEW n \in Request, heap_alloc(n)
  PROVE  IInv'
<1> DEFINE i == FirstFit(n)
           curr == free_list[i]
           rest == Without(free_list, i)
<1>1. /\ walk = 0
      /\ AllocWhole(n, i) \/ AllocSplit(n, i)
      /\ held' = held \cup {curr} /\ asked' = [asked EXCEPT ![curr] = n]
      /\ Fitting(n) # {}
  BY DEF heap_alloc
<1>2. i \in 1 .. Len(free_list) /\ size[curr] >= Total(n)
  BY <1>1, FirstFits
<1>3. curr \in Free /\ curr \in Addr /\ curr \notin held
  BY <1>2, InvFacts DEF Listed
<1>4. /\ rest \in Seq(Addr) /\ Len(rest) = Len(free_list) - 1 /\ NoRepeat(rest)
      /\ Listed(rest) = Free \ {curr}
  BY <1>2, InvFacts, WithoutListed
<1> HIDE DEF i, curr, rest
<1>5. asked' \in [Addr -> Request \cup {0}] /\ held' \subseteq Addr
  BY <1>1, <1>3 DEF IInv, TypeOK
<1>6. CASE AllocWhole(n, i)
  <2>1. free_list' = rest /\ size' = size /\ walk' = 0
    BY <1>1, <1>6 DEF AllocWhole, rest
  <2>2. Listed(free_list') \cup held' = Blocks /\ Listed(free_list') \cap held' = {}
    BY <1>1, <1>3, <1>4, <2>1, InvFacts
  <2>3. HeapPartition'
    BY <1>4, <2>1, <2>2, InvFacts, PartitionNext, Zenon
  <2>4. TypeOK'
    BY <1>4, <1>5, <2>1, InvFacts DEF TypeOK
  <2>5. RoomForRequest'
    <3> SUFFICES ASSUME NEW b \in held' PROVE asked'[b] <= 8 * (size[b] - HeaderUnits)
      BY <2>1 DEF RoomForRequest
    <3>1. CASE b = curr
      <4>1. asked'[b] = n
        BY <1>1, <1>3, <3>1 DEF IInv, TypeOK
      <4>2. size[b] \in Nat /\ size[b] >= Total(n)
        BY <1>2, <1>3, <3>1, InvFacts, HeapAssumption
      <4>3. n \in Nat
        BY HeapAssumption
      <4> QED
        BY <4>1, <4>2, <4>3, TotalBounds DEF HeaderUnits
    <3>2. CASE b # curr
      BY <1>1, <1>3, <3>2 DEF IInv, TypeOK, RoomForRequest
    <3> QED
      BY <3>1, <3>2
  <2>6. PassedAreApart'
    BY <2>1 DEF PassedAreApart
  <2> QED
    BY <2>3, <2>4, <2>5, <2>6 DEF IInv
<1>7. CASE AllocSplit(n, i)
  <2> DEFINE k == Total(n)
             frag == curr + k
  <2>1. /\ size[curr] - k >= MinBlock /\ free_list' = <<frag>> \o rest /\ walk' = 1
        /\ size' = [size EXCEPT ![frag] = size[curr] - k, ![curr] = k]
    BY <1>7 DEF AllocSplit, rest, curr
  <2>2. k \in Nat /\ k >= MinBlock /\ n <= 8 * (k - HeaderUnits)
    BY TotalBounds
  <2> HIDE DEF k
  <2>3. curr \in Blocks
    BY <1>3, InvFacts
  <2>4. /\ frag \in Addr \ Blocks /\ size' \in [Addr -> 0 .. PoolUnits]
        /\ Tiling(Blocks \cup {frag}, size')
    <3>1. /\ Blocks \in SUBSET Addr /\ size \in [Addr -> 0 .. PoolUnits]
          /\ Tiling(Blocks, size)
      BY InvFacts
    <3>2. Cuts(Blocks, size, curr, k, size')
      BY ONLY <2>1, <2>2, <2>3, <3>1 DEF Cuts, frag
    <3> QED
      BY <3>2, TilingSplit, Zenon
  <2> HIDE DEF frag
  <2>5. /\ free_list' \in Seq(Addr) /\ Len(free_list') = Len(rest) + 1
        /\ NoRepeat(free_list') /\ Listed(free_list') = Listed(rest) \cup {frag}
    BY <1>4, <2>1, <2>4, InvFacts, PrependListed
  <2>6. /\ Listed(free_list') \cup held' = Blocks \cup {frag}
        /\ Listed(free_list') \cap held' = {}
    BY <1>1, <1>3, <1>4, <2>4, <2>5, InvFacts, Zenon
  <2>7. HeapPartition'
    BY <2>4, <2>5, <2>6, PartitionNext, Zenon
  <2>8. TypeOK'
    <3>1. walk' \in 0 .. Len(free_list')
      BY <1>4, <2>1, <2>5
    <3> QED
      BY <1>5, <2>4, <2>5, <3>1 DEF TypeOK
  <2>9. RoomForRequest'
    <3> SUFFICES ASSUME NEW b \in held' PROVE asked'[b] <= 8 * (size'[b] - HeaderUnits)
      BY DEF RoomForRequest
    <3>0. frag # b /\ frag # curr
      BY <1>1, <2>3, <2>4, InvFacts
    <3>1. CASE b = curr
      <4>1. asked'[b] = n
        BY <1>1, <1>3, <3>1 DEF IInv, TypeOK
      <4>2. size'[b] = k
        BY <1>3, <2>1, <3>1, InvFacts
      <4> QED
        BY <2>2, <4>1, <4>2
    <3>2. CASE b # curr
      <4>1. asked'[b] = asked[b] /\ size'[b] = size[b] /\ b \in held
        BY <1>1, <1>3, <2>1, <3>0, <3>2, InvFacts DEF IInv, TypeOK
      <4> QED
        BY <4>1 DEF IInv, RoomForRequest
    <3> QED
      BY <3>1, <3>2
  <2>10. PassedAreApart'
    BY <2>1 DEF PassedAreApart
  <2> QED
    BY <2>7, <2>8, <2>9, <2>10 DEF IInv
<1> QED
  BY <1>1, <1>6, <1>7

\* A merge: the successor leaves the list and its units join the block before it.
LEMMA MergeIInv ==
  ASSUME IInv, CoalesceMerge
  PROVE  IInv'
<1> DEFINE a == free_list[walk]
           c == free_list[walk + 1]
<1>1. /\ walk \in 1 .. Len(free_list) - 1 /\ size[a] + a = c
      /\ size' = [size EXCEPT ![a] = @ + size[c]]
      /\ free_list' = Without(free_list, walk + 1)
      /\ walk' = walk /\ held' = held /\ asked' = asked
  BY DEF CoalesceMerge, AtNeighbour, End
<1>2. walk \in 1 .. Len(free_list) /\ walk + 1 \in 1 .. Len(free_list)
  BY <1>1, InvFacts
<1>3. a \in Free /\ c \in Free /\ a \in Addr /\ c \in Addr
  BY <1>2, InvFacts DEF Listed
<1>4. /\ free_list' \in Seq(Addr) /\ Len(free_list') = Len(free_list) - 1
      /\ NoRepeat(free_list') /\ Listed(free_list') = Free \ {c}
  BY <1>1, <1>2, InvFacts, WithoutListed, Zenon
<1>5. \A j \in 1 .. Len(free_list) - 1 :
        free_list'[j] = IF j < walk + 1 THEN free_list[j] ELSE free_list[j + 1]
  BY <1>1 DEF Without
<1>6. a # c /\ \A j \in 1 .. walk - 1 : free_list[j] # a
  BY <1>2, InvFacts DEF NoRepeat
<1> HIDE DEF a, c
<1>7. size' \in [Addr -> 0 .. PoolUnits] /\ Tiling(Blocks \ {c}, size')
  BY <1>1, <1>3, InvFacts, TilingMerge, Zenon
<1>8. Listed(free_list') \cup held' = Blocks \ {c} /\ Listed(free_list') \cap held' = {}
  BY <1>1, <1>3, <1>4, InvFacts
<1>9. HeapPartition'
  BY <1>4, <1>7, <1>8, PartitionNext, Zenon
<1>10. TypeOK'
  <2>1. walk' \in 0 .. Len(free_list')
    BY <1>1, <1>4, InvFacts
  <2> QED
    BY <1>1, <1>4, <1>7, <2>1, Zenon DEF IInv, TypeOK
<1>11. RoomForRequest'
  <2>1. \A b \in held : size'[b] = size[b]
    BY <1>1, <1>3, InvFacts
  <2> QED
    BY <1>1, <2>1 DEF IInv, RoomForRequest
<1>12. PassedAreApart'
  <2> SUFFICES ASSUME NEW j \in 1 .. walk - 1
               PROVE  size'[free_list'[j]] + free_list'[j] # free_list'[j + 1]
    BY <1>1 DEF PassedAreApart, AtNeighbour, End
  <2>0. /\ j \in 1 .. Len(free_list) - 1 /\ j + 1 \in 1 .. Len(free_list) - 1
        /\ j < walk + 1 /\ j + 1 < walk + 1
    BY <1>1, InvFacts
  <2>1. free_list'[j] = free_list[j] /\ free_list'[j + 1] = free_list[j + 1]
    BY <1>5, <2>0
  <2>2. size'[free_list[j]] = size[free_list[j]]
    BY <1>1, <1>6, InvFacts
  <2> QED
    BY <2>1, <2>2 DEF IInv, PassedAreApart, AtNeighbour, End
<1> QED
  BY <1>9, <1>10, <1>11, <1>12 DEF IInv

\* The steps that only move along the list.
LEMMA WalkIInv ==
  ASSUME IInv, CoalesceNext \/ CoalesceDone \/ UNCHANGED vars
  PROVE  IInv'
<1>1. free_list' = free_list /\ size' = size /\ held' = held /\ asked' = asked
  BY DEF CoalesceNext, CoalesceDone, vars
<1>2. HeapPartition' /\ RoomForRequest'
  BY <1>1 DEF IInv, HeapPartition, Free, Blocks, End, Apart, RoomForRequest
<1>3. walk' \in 0 .. Len(free_list)
  BY InvFacts DEF IInv, TypeOK, CoalesceNext, CoalesceDone, vars
<1>4. TypeOK'
  BY <1>1, <1>3 DEF IInv, TypeOK
<1>5. PassedAreApart'
  BY <1>1, InvFacts DEF IInv, TypeOK, CoalesceNext, CoalesceDone, vars, PassedAreApart,
     AtNeighbour, End
<1> QED
  BY <1>2, <1>4, <1>5 DEF IInv

LEMMA HeapInv == Spec => []IInv
<1>1. Init => IInv
  BY InitIInv
<1>2. IInv /\ [Next]_vars => IInv'
  BY AllocIInv, FreeIInv, MergeIInv, WalkIInv DEF Next
<1> QED
  BY <1>1, <1>2, PTL DEF Spec

\* The types of the allocator's state hold in every reachable state.
THEOREM HeapTypeCorrect == Spec => []TypeOK
<1>1. IInv => TypeOK
  BY DEF IInv
<1> QED
  BY <1>1, HeapInv, PTL

\* heap_alloc and heap_free never lose, overlap or twice list a part of the pool,
\* for every pool size and every sequence of calls.
THEOREM HeapAlwaysPartitioned == Spec => []HeapPartition
<1>1. IInv => HeapPartition
  BY DEF IInv
<1> QED
  BY <1>1, HeapInv, PTL

\* A block stays large enough for what its owner asked heap_alloc for.
THEOREM RoomIsKept == Spec => []RoomForRequest
<1>1. IInv => RoomForRequest
  BY DEF IInv
<1> QED
  BY <1>1, HeapInv, PTL

\* One pass of _coalesce_forward merges every pair of neighbours of the list.
THEOREM CoalescePassIsComplete == Spec => []PassedAreApart
<1>1. IInv => PassedAreApart
  BY DEF IInv
<1> QED
  BY <1>1, HeapInv, PTL

-----------------------------------------------------------------------------
(* The inductive invariant *)

MemTypes ==
  /\ idle_tcb \in Addr \cup {NULL}
  /\ registry \subseteq ready /\ ready \subseteq Addr
  /\ stack_base \in [Addr -> Addr \cup {NULL}]
  /\ canary \subseteq Addr /\ app \subseteq Addr
  /\ job \in [at : Place, tcb : Addr \cup {NULL}, stk : Addr \cup {NULL},
              bytes : Request \cup {0}]
  /\ halted \in BOOLEAN
  /\ overrun \subseteq ready

\* What a call under way has in hand, step by step.
JobShape ==
  /\ job.at \in {"none", "init", "tcb", "leave"} => job.tcb = NULL /\ job.stk = NULL
  /\ job.at = "init" => idle_tcb = NULL
  /\ job.at \in {"stack", "free_tcb"} => job.stk = NULL
  /\ job.at = "undo_stack" => job.tcb = NULL
  /\ job.at \in {"build", "add", "register"} => job.tcb # NULL /\ job.stk # NULL
  /\ job.at \in {"add", "register"} => stack_base[job.tcb] = job.stk
  /\ job.at = "register" => job.tcb \in ready
  /\ job.at \in {"tcb", "stack", "build"} =>
       job.bytes \in Request /\ job.bytes % 8 = 0 /\ 8 * FrameUnits < job.bytes
  /\ job.at = "stack" /\ job.tcb # NULL => asked[job.tcb] = TcbBytes
  /\ job.at = "build" => asked[job.tcb] = TcbBytes /\ asked[job.stk] = job.bytes

\* The canary of a task that is built and not yet ready.
CanaryBuilt == job.at = "add" => job.stk + HeaderUnits \in canary

MemInv == IInv /\ MemTypes /\ JobShape /\ MemoryAccounted /\ CanaryTells /\ CanaryBuilt

-----------------------------------------------------------------------------
(* What the heap does for its callers *)

\* heap_alloc gives out a block nobody had, and remembers what was asked for.
LEMMA AllocatedIsNew ==
  ASSUME IInv, NEW n \in Request, heap_alloc(n)
  PROVE  /\ IInv'
         /\ Allocated \in Addr \ held
         /\ held' = held \cup {Allocated}
         /\ asked' = [asked EXCEPT ![Allocated] = n]
<1> DEFINE curr == free_list[FirstFit(n)]
<1>1. /\ held' = held \cup {curr} /\ asked' = [asked EXCEPT ![curr] = n]
      /\ Fitting(n) # {}
  BY DEF heap_alloc
<1>2. curr \in Addr /\ curr \in Free
  BY <1>1, FirstFits, InvFacts DEF Free
<1>3. curr \notin held
  BY <1>2, InvFacts
<1>4. Allocated = curr
  BY <1>1, <1>3 DEF Allocated
<1> QED
  BY <1>1, <1>2, <1>3, <1>4, AllocIInv

\* No header lies where the memory of an allocated block begins.
LEMMA BaseIsNoHeader ==
  ASSUME IInv', NEW b \in held'
  PROVE  b + HeaderUnits \in Addr \ (Free' \cup held')
<1>1. /\ \A c \in Free' \cup held' : size'[c] >= 2 /\ size'[c] + c <= PoolUnits
      /\ \A c, d \in Free' \cup held' :
           c # d => size'[c] + c <= d \/ size'[d] + d <= c
  BY DEF IInv, HeapPartition, Blocks, Free, End, Apart, MinBlock, HeaderUnits
<1>2. b \in Addr /\ PoolUnits \in Nat /\ size' \in [Addr -> 0 .. PoolUnits]
  BY HeapAssumption DEF IInv, TypeOK
<1>3. size'[b] \in Nat /\ size'[b] >= 2 /\ b + 1 \in Addr
  BY <1>1, <1>2 DEF Addr
<1>4. b + 1 \notin Free' \cup held'
  <2> SUFFICES ASSUME b + 1 \in Free' \cup held' PROVE FALSE
    OBVIOUS
  <2>1. size'[b + 1] \in Nat
    BY <1>2, <1>3
  <2>2. b # b + 1
    BY <1>2 DEF Addr
  <2>3. size'[b] + b <= b + 1 \/ size'[b + 1] + (b + 1) <= b
    BY <1>1, <2>2, Zenon
  <2> QED
    BY <2>1, <2>3, <1>2, <1>3 DEF Addr
<1> QED
  BY <1>3, <1>4 DEF HeaderUnits

\* Headers that the heap writes leave the canaries of allocated stacks alone.
LEMMA CanaryKept ==
  ASSUME IInv', HeadersWritten, NEW b \in held'
  PROVE  b + HeaderUnits \in canary' <=> b + HeaderUnits \in canary
BY BaseIsNoHeader DEF HeadersWritten

\* heap_free takes one block from its owner, or does nothing.
LEMMA FreesOne ==
  ASSUME IInv, NEW b \in Addr \cup {NULL}, Frees(b)
  PROVE  /\ IInv' /\ asked' = asked
         /\ held' = held \ {b}
         /\ canary' \subseteq canary
         /\ \A c \in held' : c + HeaderUnits \in canary' <=> c + HeaderUnits \in canary
<1>1. CASE b = NULL
  <2>1. UNCHANGED vars /\ canary' = canary
    BY <1>1 DEF Frees, heapVars, vars
  <2>2. IInv'
    BY <2>1, WalkIInv
  <2>3. NULL \notin held
    BY TaskMemoryAssumption DEF IInv, TypeOK
  <2> QED
    BY <1>1, <2>1, <2>2, <2>3 DEF vars
<1>2. CASE b # NULL
  <2>1. heap_free(b) /\ HeadersWritten /\ b \in Addr
    BY <1>2 DEF Frees
  <2>2. IInv'
    BY <2>1, FreeIInv
  <2>3. held' = held \ {b} /\ asked' = asked
    BY <2>1 DEF heap_free
  <2> QED
    BY <2>1, <2>2, <2>3, CanaryKept DEF HeadersWritten
<1> QED
  BY <1>1, <1>2

-----------------------------------------------------------------------------
(* Steps that leave tasks as they are *)

LEMMA Owned ==
  ASSUME MemInv
  PROVE  /\ \A t \in ready : t \in Addr /\ t \in held /\ stack_base[t] \in Addr
                             /\ stack_base[t] \in held /\ stack_base[t] \in Stacks
         /\ \A s \in Stacks : \E t \in ready : s = stack_base[t]
         /\ held \subseteq Addr /\ NULL \notin held /\ NULL \notin Addr
<1>1. held \subseteq Addr /\ NULL \notin Addr
  BY TaskMemoryAssumption DEF MemInv, IInv, TypeOK
<1>2. \A t \in ready : t \in held /\ stack_base[t] \in Stacks
  BY DEF MemInv, MemoryAccounted, Stacks
<1>3. \A t \in ready : stack_base[t] \in held
  BY <1>2 DEF MemInv, MemoryAccounted
<1> QED
  BY <1>1, <1>2, <1>3 DEF Stacks

\* The canaries of allocated stacks are as they were.
CanariesStand ==
  /\ canary' \subseteq canary
  /\ \A c \in held' : c + HeaderUnits \in canary' <=> c + HeaderUnits \in canary

LEMMA CanaryTellsKept ==
  ASSUME MemInv, UNCHANGED <<taskVars, halted, overrun>>, CanariesStand,
         \A t \in ready : stack_base[t] \in held'
  PROVE  CanaryTells'
BY DEF MemInv, taskVars, CanariesStand, CanaryTells, Base

\* A step that moves no block keeps the account.
LEMMA AccountedKept ==
  ASSUME MemoryAccounted, held' = held, UNCHANGED <<taskVars, app>>, Pending' = Pending,
         job'.tcb # NULL => job'.tcb # job'.stk
  PROVE  MemoryAccounted'
<1>1. Stacks' = Stacks /\ ready' = ready /\ stack_base' = stack_base /\ idle_tcb' = idle_tcb
  BY DEF Stacks, taskVars
<1> QED
  BY <1>1, SMTT(20), ZenonT(30) DEF MemoryAccounted

\* A step that hands a new block to the application, to the call in progress or to
\* the idle task keeps the account.
LEMMA AccountedGrows ==
  ASSUME MemInv, NEW b \in Addr \ held, held' = held \cup {b}, UNCHANGED <<ready, stack_base>>,
         job'.tcb # NULL => job'.tcb # job'.stk,
         \/ app' = app \cup {b} /\ idle_tcb' = idle_tcb /\ Pending' = Pending
         \/ app' = app /\ idle_tcb' = idle_tcb /\ Pending' = Pending \cup {b}
         \/ app' = app /\ idle_tcb = NULL /\ idle_tcb' = b /\ Pending' = Pending
  PROVE  MemoryAccounted'
<1>1. /\ held = ({idle_tcb} \ {NULL}) \cup ready \cup Stacks \cup app \cup Pending
      /\ \A t, u \in ready : stack_base[t] = stack_base[u] => t = u
      /\ ready \cap Stacks = {} /\ (ready \cup Stacks) \cap (app \cup Pending) = {}
      /\ app \cap Pending = {} /\ idle_tcb \notin ready \cup Stacks \cup app \cup Pending
  BY DEF MemInv, MemoryAccounted
<1>2. b # NULL /\ b \notin held /\ b # idle_tcb
  BY <1>1, Owned
<1>3. Stacks' = Stacks
  BY DEF Stacks
<1> HIDE DEF Stacks, Pending
<1>4. held' = ({idle_tcb'} \ {NULL}) \cup ready' \cup Stacks' \cup app' \cup Pending'
  BY ONLY <1>1, <1>2, <1>3, held' = held \cup {b}, UNCHANGED <<ready, stack_base>>,
     \/ app' = app \cup {b} /\ idle_tcb' = idle_tcb /\ Pending' = Pending
     \/ app' = app /\ idle_tcb' = idle_tcb /\ Pending' = Pending \cup {b}
     \/ app' = app /\ idle_tcb = NULL /\ idle_tcb' = b /\ Pending' = Pending
<1>5. /\ ready' \cap Stacks' = {} /\ (ready' \cup Stacks') \cap (app' \cup Pending') = {}
      /\ app' \cap Pending' = {} /\ idle_tcb' \notin ready' \cup Stacks' \cup app' \cup Pending'
  BY ONLY <1>1, <1>2, <1>3, UNCHANGED <<ready, stack_base>>,
     \/ app' = app \cup {b} /\ idle_tcb' = idle_tcb /\ Pending' = Pending
     \/ app' = app /\ idle_tcb' = idle_tcb /\ Pending' = Pending \cup {b}
     \/ app' = app /\ idle_tcb = NULL /\ idle_tcb' = b /\ Pending' = Pending
<1>6. \A t, u \in ready' : stack_base'[t] = stack_base'[u] => t = u
  BY ONLY <1>1, UNCHANGED <<ready, stack_base>>
<1> QED
  BY <1>4, <1>5, <1>6, Zenon DEF MemoryAccounted

\* Steps of the heap itself, and the steps of nobody.
LEMMA QuietHeap ==
  ASSUME MemInv, IInv', held' = held, asked' = asked, CanariesStand,
         UNCHANGED <<taskVars, app, job, halted, overrun>>
  PROVE  MemInv'
<1>1. MemTypes'
  BY DEF MemInv, MemTypes, taskVars, CanariesStand
<1>2. JobShape'
  BY DEF MemInv, JobShape, taskVars
<1>3. MemoryAccounted'
  <2>1. Pending' = Pending /\ (job'.tcb # NULL => job'.tcb # job'.stk)
    BY DEF MemInv, MemoryAccounted, Pending
  <2> QED
    BY <2>1, AccountedKept DEF MemInv
<1>4. CanaryTells'
  BY Owned, CanaryTellsKept
<1>5. CanaryBuilt'
  <2>1. SUFFICES ASSUME job.at = "add" PROVE job.stk \in held
    BY DEF MemInv, CanaryBuilt, CanariesStand
  <2> QED
    BY <2>1, Owned DEF MemInv, JobShape, MemoryAccounted, Pending
<1> QED
  BY <1>1, <1>2, <1>3, <1>4, <1>5 DEF MemInv

LEMMA CoalesceMem ==
  ASSUME MemInv, Coalesce
  PROVE  MemInv'
<1>1. IInv' /\ held' = held /\ asked' = asked
  BY MergeIInv, WalkIInv DEF Coalesce, MemInv, CoalesceMerge, CoalesceNext, CoalesceDone
<1>2. CanariesStand
  BY <1>1, CanaryKept DEF Coalesce, HeadersWritten, CanariesStand
<1> QED
  BY <1>1, <1>2, QuietHeap DEF Coalesce

LEMMA StutterMem ==
  ASSUME MemInv, UNCHANGED memVars
  PROVE  MemInv'
<1>1. UNCHANGED vars /\ canary' = canary
  BY DEF memVars, heapVars, vars
<1>2. IInv'
  BY <1>1, WalkIInv DEF MemInv
<1> QED
  BY <1>1, <1>2, QuietHeap DEF memVars, heapVars, CanariesStand

-----------------------------------------------------------------------------
(* Steps that take a block from the heap *)

\* What every such step does.
Takes(n) ==
  /\ IInv' /\ Allocated \in Addr \ held /\ held' = held \cup {Allocated}
  /\ asked' = [asked EXCEPT ![Allocated] = n] /\ CanariesStand

LEMMA AllocatesTakes ==
  ASSUME MemInv, NEW n \in Request, Allocates(n)
  PROVE  Takes(n)
<1>1. /\ IInv' /\ Allocated \in Addr \ held /\ held' = held \cup {Allocated}
      /\ asked' = [asked EXCEPT ![Allocated] = n]
  BY AllocatedIsNew DEF Allocates, MemInv
<1>2. CanariesStand
  BY <1>1, CanaryKept DEF Allocates, HeadersWritten, CanariesStand
<1> QED
  BY <1>1, <1>2 DEF Takes

LEMMA AppAllocMem ==
  ASSUME MemInv, NEW n \in Request, AppAlloc(n)
  PROVE  MemInv'
<1>1. Takes(n)
  BY AllocatesTakes DEF AppAlloc
<1>2. /\ app' = app \cup {Allocated} /\ UNCHANGED <<taskVars, job, halted, overrun>>
      /\ job.at = "none"
  BY DEF AppAlloc, At
<1>3. MemTypes'
  BY <1>1, <1>2 DEF MemInv, MemTypes, taskVars, Takes, CanariesStand
<1>4. JobShape'
  BY <1>1, <1>2, SMTT(20) DEF MemInv, JobShape, taskVars
<1>5. MemoryAccounted'
  <2>1. Pending' = Pending /\ (job'.tcb # NULL => job'.tcb # job'.stk)
    BY <1>2 DEF MemInv, MemoryAccounted, Pending
  <2> QED
    BY <1>1, <1>2, <2>1, AccountedGrows, Zenon DEF taskVars, Takes
<1>6. CanaryTells' /\ CanaryBuilt'
  BY <1>1, <1>2, Owned, CanaryTellsKept DEF Takes, CanaryBuilt
<1> QED
  BY <1>1, <1>3, <1>4, <1>5, <1>6 DEF MemInv, Takes

LEMMA TaskInitMem ==
  ASSUME MemInv, TaskInit
  PROVE  MemInv'
<1>1. Takes(TcbBytes)
  BY AllocatesTakes, TaskMemoryAssumption DEF TaskInit
<1>2. /\ idle_tcb' = Allocated /\ job' = NoJob /\ job.at = "init"
      /\ UNCHANGED <<registry, ready, stack_base, app, halted, overrun>>
  BY DEF TaskInit, At
<1>3. idle_tcb = NULL /\ job.tcb = NULL /\ job.stk = NULL
  BY <1>2 DEF MemInv, JobShape
<1>4. MemTypes'
  BY <1>1, <1>2 DEF MemInv, MemTypes, Takes, CanariesStand, NoJob, Place
<1>5. JobShape' /\ CanaryBuilt'
  BY <1>2, SMTT(20) DEF NoJob, JobShape, CanaryBuilt
<1>6. MemoryAccounted'
  <2>1. Pending' = Pending /\ job'.tcb = NULL
    BY <1>2, <1>3 DEF Pending, NoJob
  <2> QED
    BY <1>1, <1>2, <1>3, <2>1, AccountedGrows, Zenon DEF Takes
<1>7. CanaryTells'
  BY <1>1, <1>2, Owned DEF MemInv, Takes, CanariesStand, CanaryTells, Base
<1> QED
  BY <1>1, <1>4, <1>5, <1>6, <1>7 DEF MemInv, Takes

LEMMA CreateTcbMem ==
  ASSUME MemInv, CreateTcb
  PROVE  MemInv'
<1>0. /\ job.at = "tcb" /\ UNCHANGED <<taskVars, app, halted, overrun>>
      /\ job.tcb = NULL /\ job.stk = NULL
  BY DEF CreateTcb, At, MemInv, JobShape
<1>1. CASE Allocates(TcbBytes) /\ job' = [job EXCEPT !.at = "stack", !.tcb = Allocated]
  <2>1. Takes(TcbBytes)
    BY <1>1, AllocatesTakes, TaskMemoryAssumption
  <2>2. job \in [at : Place, tcb : Addr \cup {NULL}, stk : Addr \cup {NULL},
                 bytes : Request \cup {0}]
    BY DEF MemInv, MemTypes
  <2>3. /\ job'.at = "stack" /\ job'.tcb = Allocated /\ job'.stk = NULL
        /\ job'.bytes = job.bytes
    BY <1>0, <1>1, <2>2
  <2>4. MemTypes'
    BY <1>0, <1>1, <2>1, <2>2, Zenon DEF MemInv, MemTypes, taskVars, Takes, CanariesStand, Place
  <2>5. JobShape'
    BY <1>0, <2>1, <2>3 DEF MemInv, JobShape, taskVars, Takes, IInv, TypeOK
  <2>6. MemoryAccounted'
    <3>1. Allocated # NULL
      BY <2>1, Owned DEF Takes
    <3>2. Pending' = Pending \cup {Allocated} /\ job'.tcb # job'.stk
      BY <1>0, <2>3, <3>1 DEF Pending
    <3> QED
      BY <1>0, <2>1, <3>2, AccountedGrows, Zenon DEF taskVars, Takes
  <2>7. CanaryTells' /\ CanaryBuilt'
    BY <1>0, <2>1, <2>3, Owned, CanaryTellsKept DEF Takes, CanaryBuilt
  <2> QED
    BY <2>1, <2>4, <2>5, <2>6, <2>7 DEF MemInv, Takes
<1>2. CASE AllocFails(TcbBytes) /\ job' = [job EXCEPT !.at = "stack"]
  <2>1. /\ UNCHANGED vars /\ canary' = canary /\ job'.at = "stack"
        /\ job'.tcb = NULL /\ job'.stk = NULL /\ job'.bytes = job.bytes
    BY <1>0, <1>2 DEF AllocFails, heapVars, vars, MemInv, MemTypes
  <2>2. IInv'
    BY <2>1, WalkIInv DEF MemInv
  <2>3. MemTypes'
    BY <1>0, <1>2, <2>1 DEF MemInv, MemTypes, taskVars, Place
  <2>4. JobShape' /\ CanaryBuilt'
    BY <1>0, <2>1 DEF MemInv, JobShape, taskVars, CanaryBuilt
  <2>5. MemoryAccounted'
    <3>1. Pending' = Pending /\ (job'.tcb # NULL => job'.tcb # job'.stk)
      BY <1>0, <2>1 DEF MemInv, JobShape, MemoryAccounted, Pending
    <3>2. held' = held /\ UNCHANGED <<taskVars, app>>
      BY <1>0, <2>1 DEF vars
    <3> QED
      BY <3>1, <3>2, AccountedKept DEF MemInv
  <2>6. CanaryTells'
    BY <1>0, <2>1 DEF MemInv, CanaryTells, taskVars, Base
  <2> QED
    BY <2>2, <2>3, <2>4, <2>5, <2>6 DEF MemInv
<1> QED
  BY <1>1, <1>2 DEF CreateTcb

LEMMA CreateStackMem ==
  ASSUME MemInv, CreateStack
  PROVE  MemInv'
<1>0. /\ job.at = "stack" /\ UNCHANGED <<taskVars, app, halted, overrun>>
      /\ job.stk = NULL /\ job.bytes \in Request
      /\ job.tcb # NULL => asked[job.tcb] = TcbBytes /\ job.tcb \in held
      /\ job \in [at : Place, tcb : Addr \cup {NULL}, stk : Addr \cup {NULL},
                  bytes : Request \cup {0}]
  BY DEF CreateStack, At, MemInv, JobShape, MemTypes, MemoryAccounted, Pending
<1>1. CASE /\ Allocates(job.bytes)
           /\ job' = [job EXCEPT !.at = IF job.tcb = NULL THEN "undo_tcb" ELSE "build",
                                 !.stk = Allocated]
  <2>1. Takes(job.bytes)
    BY <1>0, <1>1, AllocatesTakes
  <2>3. /\ job'.at = (IF job.tcb = NULL THEN "undo_tcb" ELSE "build")
        /\ job'.tcb = job.tcb /\ job'.stk = Allocated /\ job'.bytes = job.bytes
    BY <1>0, <1>1
  <2>4. MemTypes'
    BY <1>0, <1>1, <2>1, Zenon DEF MemInv, MemTypes, taskVars, Takes, CanariesStand, Place
  <2>5. JobShape'
    <3>1. Allocated # NULL /\ Allocated # job.tcb
      BY <1>0, <2>1, Owned DEF Takes
    <3>2. job.tcb # NULL => asked'[job.tcb] = TcbBytes
      <4>1. job.tcb # NULL => job.tcb \in Addr /\ asked[job.tcb] = TcbBytes
        BY <1>0 DEF MemInv, MemTypes, JobShape
      <4>2. asked \in [Addr -> Request \cup {0}] /\ asked' = [asked EXCEPT ![Allocated] = job.bytes]
        BY <2>1 DEF Takes, MemInv, IInv, TypeOK
      <4> QED
        BY ONLY <3>1, <4>1, <4>2
    <3>3. asked'[Allocated] = job.bytes
      BY <2>1 DEF Takes, MemInv, IInv, TypeOK
    <3> QED
      BY <1>0, <2>3, <3>1, <3>2, <3>3 DEF MemInv, JobShape, taskVars
  <2>6. MemoryAccounted'
    <3>1. Allocated # NULL /\ Allocated # job.tcb
      BY <1>0, <2>1, Owned DEF Takes
    <3>2. Pending' = Pending \cup {Allocated} /\ job'.tcb # job'.stk
      BY <1>0, <2>3, <3>1 DEF Pending
    <3> QED
      BY <1>0, <2>1, <3>2, AccountedGrows, Zenon DEF taskVars, Takes
  <2>7. CanaryTells' /\ CanaryBuilt'
    BY <1>0, <2>1, <2>3, Owned, CanaryTellsKept DEF Takes, CanaryBuilt
  <2> QED
    BY <2>1, <2>4, <2>5, <2>6, <2>7 DEF MemInv, Takes
<1>2. CASE AllocFails(job.bytes) /\ job' = [job EXCEPT !.at = "undo_tcb"]
  <2>1. /\ UNCHANGED vars /\ canary' = canary /\ job'.at = "undo_tcb"
        /\ job'.tcb = job.tcb /\ job'.stk = NULL /\ job'.bytes = job.bytes
    BY <1>0, <1>2 DEF AllocFails, heapVars, vars
  <2>2. IInv'
    BY <2>1, WalkIInv DEF MemInv
  <2>3. MemTypes'
    BY <1>0, <1>2, <2>1 DEF MemInv, MemTypes, taskVars, Place
  <2>4. JobShape' /\ CanaryBuilt'
    BY <1>0, <2>1, SMTT(20) DEF MemInv, JobShape, taskVars, CanaryBuilt
  <2>5. MemoryAccounted'
    <3>1. Pending' = Pending /\ (job'.tcb # NULL => job'.tcb # job'.stk)
      BY <1>0, <2>1 DEF MemInv, JobShape, MemoryAccounted, Pending
    <3>2. held' = held /\ UNCHANGED <<taskVars, app>>
      BY <1>0, <2>1 DEF vars
    <3> QED
      BY <3>1, <3>2, AccountedKept DEF MemInv
  <2>6. CanaryTells'
    BY <1>0, <2>1 DEF MemInv, CanaryTells, taskVars, Base
  <2> QED
    BY <2>2, <2>3, <2>4, <2>5, <2>6 DEF MemInv
<1> QED
  BY <1>1, <1>2 DEF CreateStack

-----------------------------------------------------------------------------
(* Steps that give a block back *)

LEMMA AppFreeMem ==
  ASSUME MemInv, NEW b \in Addr, AppFree(b)
  PROVE  MemInv'
<1>1. /\ IInv' /\ asked' = asked /\ held' = held \ {b} /\ CanariesStand
  BY FreesOne DEF AppFree, MemInv, CanariesStand
<1>2. /\ b \in app /\ app' = app \ {b} /\ UNCHANGED <<taskVars, job, halted, overrun>>
      /\ job.at = "none"
  BY DEF AppFree, At
<1>3. b \notin ready /\ b \notin Stacks
  BY <1>2 DEF MemInv, MemoryAccounted
<1>4. MemTypes'
  BY <1>1, <1>2 DEF MemInv, MemTypes, taskVars, CanariesStand
<1>5. JobShape' /\ CanaryBuilt'
  BY <1>1, <1>2, SMTT(20) DEF MemInv, JobShape, taskVars, CanaryBuilt
<1>6. MemoryAccounted'
  <2>1. /\ held = ({idle_tcb} \ {NULL}) \cup ready \cup Stacks \cup app \cup Pending
        /\ \A t, u \in ready : stack_base[t] = stack_base[u] => t = u
        /\ ready \cap Stacks = {} /\ (ready \cup Stacks) \cap (app \cup Pending) = {}
        /\ app \cap Pending = {} /\ idle_tcb \notin ready \cup Stacks \cup app \cup Pending
        /\ job.tcb # NULL => job.tcb # job.stk
    BY DEF MemInv, MemoryAccounted
  <2>2. /\ idle_tcb' = idle_tcb /\ ready' = ready /\ stack_base' = stack_base /\ job' = job
        /\ Stacks' = Stacks /\ Pending' = Pending
    BY <1>2 DEF taskVars, Stacks, Pending
  <2>3. held' = ({idle_tcb} \ {NULL}) \cup ready \cup Stacks \cup (app \ {b}) \cup Pending
    <3>1. b \notin {idle_tcb} \ {NULL} /\ b \notin Pending
      BY <1>2, <2>1
    <3> QED
      BY ONLY <1>1, <1>3, <2>1, <3>1, SMTT(20), ZenonT(30)
  <2>4. /\ (ready \cup Stacks) \cap ((app \ {b}) \cup Pending) = {}
        /\ (app \ {b}) \cap Pending = {}
        /\ idle_tcb \notin ready \cup Stacks \cup (app \ {b}) \cup Pending
    BY ONLY <2>1, SMTT(20), ZenonT(30)
  <2> QED
    BY <1>2, <2>1, <2>2, <2>3, <2>4, SMTT(20), ZenonT(30) DEF MemoryAccounted
<1>7. CanaryTells'
  BY <1>1, <1>2, <1>3, Owned, CanaryTellsKept
<1> QED
  BY <1>1, <1>4, <1>5, <1>6, <1>7 DEF MemInv

\* The call under way frees a block it has in hand, or NULL, and forgets it.
LEMMA PendingFreed ==
  ASSUME MemInv, NEW b \in {job.tcb, job.stk}, Frees(b), job.at # "register", job.at # "add",
         job' \in [at : Place, tcb : Addr \cup {NULL}, stk : Addr \cup {NULL},
                   bytes : Request \cup {0}],
         {job'.tcb, job'.stk} \ {NULL} = ({job.tcb, job.stk} \ {b}) \ {NULL},
         job'.tcb # NULL => job'.tcb # job'.stk,
         job'.at \in {"undo_stack", "none", "free_tcb", "leave"},
         job'.at = "undo_stack" => job'.tcb = NULL,
         job'.at = "free_tcb" => job'.stk = NULL,
         job'.at \in {"none", "leave"} => job'.tcb = NULL /\ job'.stk = NULL,
         UNCHANGED <<taskVars, app, halted, overrun>>
  PROVE  MemInv'
<1>0. b \in Addr \cup {NULL}
  BY DEF MemInv, MemTypes
<1>1. /\ IInv' /\ asked' = asked /\ held' = held \ {b} /\ CanariesStand
  BY <1>0, FreesOne, SMTT(20) DEF MemInv, CanariesStand
<1>2. b # NULL => b \in Pending
  BY Zenon DEF Pending
<1>3. b \notin ready /\ b \notin Stacks /\ b \notin app /\ (b # NULL => b # idle_tcb)
  <2>1. CASE b # NULL
    BY <1>2, <2>1 DEF MemInv, MemoryAccounted
  <2>2. CASE b = NULL
    <3>1. NULL \notin held
      BY Owned
    <3>2. \A s \in ready \cup Stacks \cup app : s \in held
      BY DEF MemInv, MemoryAccounted
    <3> QED
      BY ONLY <2>2, <3>1, <3>2
  <2> QED
    BY ONLY <2>1, <2>2
<1>4. Pending' = Pending \ {b} /\ Stacks' = Stacks
  BY DEF Pending, Stacks, taskVars
<1>5. MemTypes'
  BY <1>1 DEF MemInv, MemTypes, taskVars, CanariesStand
<1>6. JobShape' /\ CanaryBuilt'
  BY SMTT(20), ZenonT(30) DEF JobShape, CanaryBuilt
<1>7. MemoryAccounted'
  <2>1. /\ held = ({idle_tcb} \ {NULL}) \cup ready \cup Stacks \cup app \cup Pending
        /\ \A t, u \in ready : stack_base[t] = stack_base[u] => t = u
        /\ ready \cap Stacks = {} /\ (ready \cup Stacks) \cap (app \cup Pending) = {}
        /\ app \cap Pending = {} /\ idle_tcb \notin ready \cup Stacks \cup app \cup Pending
    BY Zenon DEF MemInv, MemoryAccounted
  <2>2. /\ idle_tcb' = idle_tcb /\ ready' = ready /\ app' = app /\ stack_base' = stack_base
    BY DEF taskVars
  <2>3. held' = ({idle_tcb} \ {NULL}) \cup ready \cup Stacks \cup app \cup (Pending \ {b})
    <3>1. b \notin {idle_tcb} \ {NULL}
      BY <1>3
    <3> QED
      BY ONLY <1>1, <1>3, <2>1, <3>1, SMTT(20), ZenonT(30)
  <2>4. /\ (ready \cup Stacks) \cap (app \cup (Pending \ {b})) = {}
        /\ app \cap (Pending \ {b}) = {}
        /\ idle_tcb \notin ready \cup Stacks \cup app \cup (Pending \ {b})
    BY ONLY <2>1, SMTT(20), ZenonT(30)
  <2> QED
    BY <1>4, <2>1, <2>2, <2>3, <2>4, SMTT(20), ZenonT(30) DEF MemoryAccounted
<1>8. CanaryTells'
  BY <1>1, <1>3, Owned, CanaryTellsKept
<1> QED
  BY <1>1, <1>5, <1>6, <1>7, <1>8 DEF MemInv

LEMMA UndoDeleteMem ==
  ASSUME MemInv, UndoTcb \/ UndoStack \/ DeleteStack \/ DeleteTcb
  PROVE  MemInv'
<1>0. /\ job \in [at : Place, tcb : Addr \cup {NULL}, stk : Addr \cup {NULL},
                  bytes : Request \cup {0}]
      /\ job.tcb # NULL => job.tcb # job.stk
  BY DEF MemInv, MemTypes, MemoryAccounted
<1>1. CASE UndoTcb
  <2>1. /\ job.at = "undo_tcb" /\ Frees(job.tcb) /\ UNCHANGED <<taskVars, app, halted, overrun>>
        /\ job' = [job EXCEPT !.at = "undo_stack", !.tcb = NULL]
    BY <1>1 DEF UndoTcb, At
  <2> QED
    BY <1>0, <2>1, PendingFreed, Zenon DEF Place
<1>2. CASE UndoStack
  <2>1. /\ job.at = "undo_stack" /\ Frees(job.stk) /\ UNCHANGED <<taskVars, app, halted, overrun>>
        /\ job' = NoJob /\ job.tcb = NULL
    BY <1>2 DEF UndoStack, At, MemInv, JobShape
  <2> QED
    BY <1>0, <2>1, PendingFreed DEF Place, NoJob
<1>3. CASE DeleteStack
  <2>1. /\ job.at = "free_stack" /\ Frees(job.stk) /\ UNCHANGED <<taskVars, app, halted, overrun>>
        /\ job' = [job EXCEPT !.at = "free_tcb", !.stk = NULL]
    BY <1>3 DEF DeleteStack, At
  <2> QED
    BY <1>0, <2>1, PendingFreed, Zenon DEF Place
<1>4. CASE DeleteTcb
  <2>1. /\ job.at = "free_tcb" /\ Frees(job.tcb) /\ UNCHANGED <<taskVars, app, halted, overrun>>
        /\ job' = [NoJob EXCEPT !.at = "leave"] /\ job.stk = NULL
    BY <1>4 DEF DeleteTcb, At, MemInv, JobShape
  <2> QED
    BY <1>0, <2>1, PendingFreed DEF Place, NoJob
<1> QED
  BY <1>1, <1>2, <1>3, <1>4

-----------------------------------------------------------------------------
(* Steps of task_create and task_delete that leave the heap alone *)

LEMMA RequestIsNat ==
  ASSUME NEW n \in Request
  PROVE  n \in Nat /\ n > 0
BY HeapAssumption

\* What was asked for is behind the header, and does not reach another block's
\* memory.
LEMMA InsideBlock ==
  ASSUME MemInv, NEW a \in held, NEW u \in Nat, NEW c \in held, c # a,
         a + HeaderUnits <= u, 8 * (u - a - HeaderUnits) < asked[a]
  PROVE  u # c + HeaderUnits /\ u \in Addr
<1>1. /\ a \in Addr /\ c \in Addr /\ PoolUnits \in Nat
      /\ size[a] \in Nat /\ size[c] \in Nat /\ asked[a] \in Nat
  <2>1. a \in Addr /\ c \in Addr
    BY DEF MemInv, IInv, TypeOK
  <2>2. PoolUnits \in Nat
    BY HeapAssumption
  <2>3. size[a] \in 0 .. PoolUnits /\ size[c] \in 0 .. PoolUnits /\ asked[a] \in Request \cup {0}
    BY <2>1 DEF MemInv, IInv, TypeOK
  <2> QED
    BY <2>1, <2>2, <2>3, RequestIsNat
<1>2. asked[a] <= 8 * (size[a] - 1) /\ size[a] + a <= PoolUnits /\ size[c] >= 2
  BY DEF MemInv, IInv, RoomForRequest, HeapPartition, Blocks, End, MinBlock, HeaderUnits
<1>3. size[a] + a <= c \/ size[c] + c <= a
  BY DEF MemInv, IInv, HeapPartition, Blocks, Apart, End
<1> QED
  BY <1>1, <1>2, <1>3 DEF Addr, HeaderUnits

LEMMA BuildMem ==
  ASSUME MemInv, Build
  PROVE  MemInv'
<1> DEFINE b == job.stk
           tcb == job.tcb
<1>0. /\ job.at = "build" /\ tcb # NULL /\ b # NULL /\ tcb # b
      /\ job.bytes \in Request /\ job.bytes % 8 = 0 /\ 8 * FrameUnits < job.bytes
      /\ asked[tcb] = TcbBytes /\ asked[b] = job.bytes
      /\ tcb \in held /\ b \in held /\ tcb \in Addr /\ b \in Addr
      /\ tcb \notin ready /\ b \notin Stacks /\ tcb \notin Stacks /\ b \notin ready
  <2>1. job.at = "build"
    BY DEF Build, At
  <2>2. tcb # NULL /\ b # NULL
    BY <2>1 DEF MemInv, JobShape
  <2>3. tcb \in Pending /\ b \in Pending
    BY <2>1, <2>2 DEF Pending
  <2> QED
    BY <2>1, <2>2, <2>3, Owned DEF MemInv, JobShape, MemoryAccounted
<1>1. /\ stack_base' = [stack_base EXCEPT ![tcb] = b]
      /\ canary' = ((canary \ Cleared(tcb)) \cup {b + HeaderUnits}) \ Frame(b)
      /\ job' = [job EXCEPT !.at = "add"]
      /\ UNCHANGED <<vars, idle_tcb, registry, ready, app, halted, overrun>>
  BY DEF Build, heapVars, vars
<1>2. /\ job'.at = "add" /\ job'.tcb = tcb /\ job'.stk = b
      /\ job' \in [at : Place, tcb : Addr \cup {NULL}, stk : Addr \cup {NULL},
                   bytes : Request \cup {0}]
  BY <1>1 DEF MemInv, MemTypes, Place
<1>3. IInv'
  BY <1>1, WalkIInv DEF MemInv
<1>4. stack_base'[tcb] = b /\ \A t \in ready : stack_base'[t] = stack_base[t]
  BY <1>0, <1>1 DEF MemInv, MemTypes
<1>5. /\ job.bytes \in Nat /\ job.bytes > 0 /\ TcbBytes \in Nat /\ TcbBytes > 0
      /\ FrameUnits \in Nat
  <2>1. TcbBytes \in Request /\ FrameUnits \in Nat
    BY TaskMemoryAssumption
  <2> QED
    BY <1>0, <2>1, RequestIsNat
<1>6. \A u \in Cleared(tcb) :
        u \in Nat /\ tcb + HeaderUnits <= u /\ 8 * (u - tcb - HeaderUnits) < asked[tcb]
  BY <1>0, <1>5, HeapAssumption DEF Cleared, HeaderUnits, Addr
<1>7. \A u \in Frame(b) :
        /\ u \in Nat /\ b + HeaderUnits <= u /\ 8 * (u - b - HeaderUnits) < asked[b]
        /\ b + HeaderUnits # u
  BY <1>0, <1>5, HeapAssumption DEF Frame, HeaderUnits, Addr
<1>8. \A t \in ready : Base(t) \in canary' <=> Base(t) \in canary
  <2> SUFFICES ASSUME NEW t \in ready PROVE Base(t) \in canary' <=> Base(t) \in canary
    OBVIOUS
  <2>1. /\ stack_base[t] \in held /\ stack_base[t] # tcb /\ stack_base[t] # b
        /\ stack_base[t] \in Addr
    BY <1>0, Owned
  <2>2. Base(t) \notin Cleared(tcb) /\ Base(t) \notin Frame(b)
    BY <1>0, <1>6, <1>7, <2>1, InsideBlock DEF Base
  <2>3. Base(t) # b + HeaderUnits
    BY <1>0, <2>1 DEF Base, HeaderUnits, Addr
  <2> QED
    BY <1>1, <2>2, <2>3
<1>9. b + HeaderUnits \in canary' /\ canary' \subseteq Addr
  <2>1. b + HeaderUnits \in Addr
    BY <1>0, <1>1, <1>3, BaseIsNoHeader DEF vars
  <2> QED
    BY <1>1, <1>7, <2>1 DEF MemInv, MemTypes
<1>10. MemTypes'
  BY <1>0, <1>1, <1>2, <1>9 DEF MemInv, MemTypes
<1>11. JobShape' /\ CanaryBuilt'
  BY <1>0, <1>2, <1>4, <1>9 DEF JobShape, CanaryBuilt
<1>12. MemoryAccounted'
  <2>1. Stacks' = Stacks /\ Pending' = Pending
    BY <1>0, <1>1, <1>2, <1>4 DEF Stacks, Pending
  <2> QED
    BY <1>0, <1>1, <1>2, <1>4, <2>1 DEF MemInv, MemoryAccounted, vars
<1>13. CanaryTells'
  BY <1>1, <1>4, <1>8 DEF MemInv, CanaryTells, Base
<1> QED
  BY <1>3, <1>10, <1>11, <1>12, <1>13 DEF MemInv

LEMMA RoundedUp ==
  ASSUME NEW n \in Nat
  PROVE  Rounded(n) \in Nat /\ Rounded(n) >= n /\ Rounded(n) % 8 = 0
BY DEF Rounded

LEMMA TaskCreateMem ==
  ASSUME MemInv, NEW n \in StackBytes, TaskCreate(n)
  PROVE  MemInv'
<1>1. /\ job.at = "none" /\ n >= RTOS_MIN_STACK_SIZE
      /\ job' = [at |-> "tcb", tcb |-> NULL, stk |-> NULL, bytes |-> Rounded(n)]
      /\ UNCHANGED <<vars, taskVars, canary, app, halted, overrun>>
  BY Zenon DEF TaskCreate, At, heapVars, vars, NoJob
<1>2. /\ Rounded(n) \in Request /\ Rounded(n) % 8 = 0 /\ 8 * FrameUnits < Rounded(n)
  <2>1. /\ n \in Nat /\ RTOS_MIN_STACK_SIZE \in Nat /\ FrameUnits \in Nat
        /\ 8 * FrameUnits < RTOS_MIN_STACK_SIZE /\ Rounded(n) \in Request
    BY <1>1, TaskMemoryAssumption
  <2> QED
    BY <1>1, <2>1, RoundedUp
<1>3. IInv'
  BY <1>1, WalkIInv DEF MemInv
<1>4. MemTypes'
  BY <1>1, <1>2 DEF MemInv, MemTypes, taskVars, Place
<1>5. JobShape' /\ CanaryBuilt'
  BY <1>1, <1>2 DEF JobShape, CanaryBuilt
<1>6. MemoryAccounted'
  <2>1. Pending' = Pending /\ (job'.tcb # NULL => job'.tcb # job'.stk)
    BY <1>1 DEF MemInv, JobShape, Pending
  <2>2. held' = held
    BY <1>1 DEF vars
  <2> QED
    BY <1>1, <2>1, <2>2, AccountedKept DEF MemInv
<1>7. CanaryTells'
  BY <1>1 DEF MemInv, CanaryTells, taskVars, Base
<1> QED
  BY <1>3, <1>4, <1>5, <1>6, <1>7 DEF MemInv

LEMMA CreateAddMem ==
  ASSUME MemInv, CreateAdd
  PROVE  MemInv'
<1>1. /\ job.at = "add" /\ ready' = ready \cup {job.tcb}
      /\ job' = [job EXCEPT !.at = "register"]
      /\ UNCHANGED <<vars, canary, idle_tcb, registry, stack_base, app, halted, overrun>>
  BY DEF CreateAdd, At, heapVars, vars
<1>2. /\ job'.at = "register" /\ job'.tcb = job.tcb /\ job'.stk = job.stk
      /\ job' \in [at : Place, tcb : Addr \cup {NULL}, stk : Addr \cup {NULL},
                   bytes : Request \cup {0}]
  BY <1>1 DEF MemInv, MemTypes, Place
<1>3. /\ job.tcb # NULL /\ job.stk # NULL /\ stack_base[job.tcb] = job.stk
      /\ Pending = {job.tcb, job.stk} /\ job.tcb # job.stk /\ job.tcb \in Addr
      /\ job.stk + HeaderUnits \in canary
  BY <1>1 DEF MemInv, MemTypes, JobShape, Pending, MemoryAccounted, CanaryBuilt
<1>4. Stacks' = Stacks \cup {job.stk} /\ Pending' = {}
  BY <1>1, <1>2, <1>3 DEF Stacks, Pending
<1>5. IInv'
  BY <1>1, WalkIInv DEF MemInv
<1>6. MemTypes'
  BY <1>1, <1>2, <1>3 DEF MemInv, MemTypes
<1>7. JobShape' /\ CanaryBuilt'
  BY <1>1, <1>2, <1>3 DEF JobShape, CanaryBuilt
<1>8. MemoryAccounted'
  <2>1. \A t \in ready : stack_base[t] # job.stk
    BY <1>3, Owned DEF MemInv, MemoryAccounted
  <2> QED
    BY <1>1, <1>2, <1>3, <1>4, <2>1 DEF MemInv, MemoryAccounted, vars
<1>9. CanaryTells'
  <2>1. job.tcb \notin overrun
    BY <1>3 DEF MemInv, MemTypes, MemoryAccounted
  <2> QED
    BY <1>1, <1>3, <2>1 DEF MemInv, CanaryTells, Base
<1> QED
  BY <1>5, <1>6, <1>7, <1>8, <1>9 DEF MemInv

\* The call is over, or goes on, with no block in hand that no task has.
LEMMA CreateRegisterMem ==
  ASSUME MemInv, CreateRegister \/ DeleteLeave
  PROVE  MemInv'
<1>1. /\ job.at \in {"register", "leave"} /\ job' = NoJob /\ registry \subseteq registry'
      /\ registry' \subseteq registry \cup {job.tcb} /\ (job.at = "leave" => registry' = registry)
      /\ UNCHANGED <<vars, canary, idle_tcb, ready, stack_base, app, halted, overrun>>
      /\ ~halted
  BY DEF CreateRegister, DeleteLeave, At, heapVars, vars, taskVars
<1>2. Pending = {} /\ Pending' = {} /\ (job.at = "register" => job.tcb \in ready)
  BY <1>1 DEF MemInv, JobShape, Pending, NoJob
<1>3. IInv'
  BY <1>1, WalkIInv DEF MemInv
<1>4. MemTypes'
  BY <1>1, <1>2 DEF MemInv, MemTypes, NoJob, Place
<1>5. JobShape' /\ CanaryBuilt'
  BY <1>1 DEF NoJob, JobShape, CanaryBuilt
<1>6. MemoryAccounted'
  <2>1. held' = held /\ Stacks' = Stacks /\ ready' = ready /\ stack_base' = stack_base
        /\ idle_tcb' = idle_tcb /\ app' = app /\ Pending' = Pending /\ job'.tcb = NULL
    BY <1>1, <1>2 DEF Stacks, vars, NoJob
  <2> QED
    BY <2>1, Zenon DEF MemInv, MemoryAccounted
<1>7. CanaryTells'
  BY <1>1 DEF MemInv, CanaryTells, Base
<1> QED
  BY <1>3, <1>4, <1>5, <1>6, <1>7 DEF MemInv

LEMMA TaskDeleteMem ==
  ASSUME MemInv, NEW t \in registry, TaskDelete(t)
  PROVE  MemInv'
<1>1. /\ job.at = "none" /\ ready' = ready \ {t} /\ registry' = registry \ {t}
      /\ overrun' = overrun \ {t} /\ ~halted
      /\ job' = [at |-> "free_stack", tcb |-> t, stk |-> stack_base[t], bytes |-> 0]
      /\ UNCHANGED <<vars, canary, idle_tcb, stack_base, app, halted>>
  BY Zenon DEF TaskDelete, At, heapVars, vars, NoJob
<1>2. /\ t \in ready /\ t \in Addr /\ stack_base[t] \in Addr /\ stack_base[t] \in Stacks
      /\ Pending = {} /\ NULL \notin Addr
  BY <1>1, Owned DEF MemInv, MemTypes, JobShape, Pending
<1>3. Pending' = {t, stack_base[t]}
  BY <1>1, <1>2 DEF Pending
<1>4. Stacks' = Stacks \ {stack_base[t]}
  BY <1>1, <1>2 DEF Stacks, MemInv, MemoryAccounted
<1>5. IInv'
  BY <1>1, WalkIInv DEF MemInv
<1>6. MemTypes'
  BY <1>1, <1>2 DEF MemInv, MemTypes, Place
<1>7. JobShape' /\ CanaryBuilt'
  BY <1>1 DEF JobShape, CanaryBuilt
<1>8. MemoryAccounted'
  <2>1. /\ held = ({idle_tcb} \ {NULL}) \cup ready \cup Stacks \cup app \cup Pending
        /\ \A r, u \in ready : stack_base[r] = stack_base[u] => r = u
        /\ ready \cap Stacks = {} /\ (ready \cup Stacks) \cap (app \cup Pending) = {}
        /\ idle_tcb \notin ready \cup Stacks \cup app \cup Pending
    BY DEF MemInv, MemoryAccounted
  <2>2. /\ held' = held /\ ready' = ready \ {t} /\ idle_tcb' = idle_tcb /\ app' = app
        /\ stack_base' = stack_base /\ job'.tcb = t /\ job'.stk = stack_base[t]
    BY <1>1 DEF vars
  <2>3. held' = ({idle_tcb'} \ {NULL}) \cup ready' \cup Stacks' \cup app' \cup Pending'
    <3>1. ready \cup Stacks = ready' \cup Stacks' \cup Pending'
      BY ONLY <1>2, <1>3, <1>4, <2>2
    <3>2. held' = ({idle_tcb'} \ {NULL}) \cup (ready \cup Stacks) \cup app'
      BY ONLY <1>2, <2>1, <2>2
    <3> QED BY ONLY <3>1, <3>2
  <2>4. /\ ready' \cap Stacks' = {} /\ (ready' \cup Stacks') \cap (app' \cup Pending') = {}
        /\ app' \cap Pending' = {} /\ idle_tcb' \notin ready' \cup Stacks' \cup app' \cup Pending'
        /\ job'.tcb # job'.stk
    <3>1. ready' \cap Stacks' = {}
      BY ONLY <1>4, <2>1, <2>2
    <3>2. (ready' \cup Stacks') \cap (app' \cup Pending') = {}
      BY ONLY <1>2, <1>3, <1>4, <2>1, <2>2
    <3>3. app' \cap Pending' = {}
      BY ONLY <1>2, <1>3, <2>1, <2>2
    <3>4. idle_tcb' \notin ready' \cup Stacks' \cup app' \cup Pending'
      BY ONLY <1>2, <1>3, <1>4, <2>1, <2>2
    <3>5. job'.tcb # job'.stk
      BY ONLY <1>2, <2>1, <2>2
    <3> QED BY ONLY <3>1, <3>2, <3>3, <3>4, <3>5
  <2>5. \A r, u \in ready' : stack_base'[r] = stack_base'[u] => r = u
    <3>1. \A r \in ready' : r \in ready
      BY ONLY <2>2
    <3>2. stack_base' = stack_base /\ \A r, u \in ready : stack_base[r] = stack_base[u] => r = u
      BY ONLY <2>1, <2>2
    <3> QED BY ONLY <3>1, <3>2, Zenon
  <2> QED
    BY <2>3, <2>4, <2>5, Zenon DEF MemoryAccounted
<1>9. CanaryTells'
  BY <1>1 DEF MemInv, CanaryTells, Base
<1> QED
  BY <1>5, <1>6, <1>7, <1>8, <1>9 DEF MemInv

-----------------------------------------------------------------------------
(* Tasks and SysTick *)

LEMMA OverrunMem ==
  ASSUME MemInv, NEW t \in Addr, Overrun(t)
  PROVE  MemInv'
<1>1. /\ t \in ready /\ canary' = canary \ {Base(t)} /\ overrun' = overrun \cup {t} /\ ~halted
      /\ UNCHANGED <<vars, taskVars, app, job, halted>>
  BY DEF Overrun, heapVars, vars
<1>2. IInv'
  BY <1>1, WalkIInv DEF MemInv
<1>3. MemTypes'
  BY <1>1, SMTT(20) DEF MemInv, MemTypes, taskVars
<1>4. JobShape'
  BY <1>1, Zenon DEF MemInv, JobShape, taskVars, vars
<1>5. MemoryAccounted'
  <2>1. Pending' = Pending /\ (job'.tcb # NULL => job'.tcb # job'.stk)
    BY <1>1, Zenon DEF MemInv, MemoryAccounted, Pending
  <2>2. held' = held
    BY <1>1, SMTT(20) DEF vars
  <2> QED
    BY <1>1, <2>1, <2>2, AccountedKept, Zenon DEF MemInv
<1>6. \A u \in ready : Base(u) = Base(t) => u = t
  <2> SUFFICES ASSUME NEW u \in ready, Base(u) = Base(t) PROVE u = t
    OBVIOUS
  <2>1. stack_base[u] \in Int /\ stack_base[t] \in Int
    BY <1>1, Owned DEF Addr
  <2>2. stack_base[u] = stack_base[t]
    BY <2>1 DEF Base, HeaderUnits
  <2> QED
    BY <1>1, <2>2, Zenon DEF MemInv, MemoryAccounted
<1>7. CanaryTells'
  BY <1>1, <1>6 DEF MemInv, CanaryTells, Base, taskVars
<1>8. CanaryBuilt'
  <2> SUFFICES ASSUME job.at = "add" PROVE job.stk + HeaderUnits # Base(t)
    BY <1>1 DEF MemInv, CanaryBuilt
  <2>1. job.stk \in Pending /\ job.stk \in Addr
    BY Owned DEF MemInv, MemTypes, JobShape, Pending
  <2>2. stack_base[t] \in Stacks /\ stack_base[t] \in Addr
    BY <1>1, Owned
  <2>3. stack_base[t] # job.stk
    BY <2>1, <2>2 DEF MemInv, MemoryAccounted
  <2> QED
    BY <2>1, <2>2, <2>3 DEF Base, HeaderUnits, Addr
<1> QED
  BY <1>2, <1>3, <1>4, <1>5, <1>7, <1>8 DEF MemInv

LEMMA StackCheckMem ==
  ASSUME MemInv, StackCheck
  PROVE  MemInv'
<1>1. /\ halted' = (\E t \in registry : Base(t) \notin canary)
      /\ UNCHANGED <<vars, taskVars, canary, app, job, overrun>>
  BY DEF StackCheck, heapVars, vars
<1>2. IInv'
  BY <1>1, WalkIInv DEF MemInv
<1>3. MemTypes'
  <2>1. halted' \in BOOLEAN
    BY <1>1, Zenon
  <2> QED
    BY <1>1, <2>1 DEF MemInv, MemTypes, taskVars
<1>4. JobShape' /\ CanaryBuilt'
  BY <1>1 DEF MemInv, JobShape, CanaryBuilt, taskVars, vars
<1>5. MemoryAccounted'
  <2>1. Pending' = Pending /\ (job'.tcb # NULL => job'.tcb # job'.stk)
    BY <1>1 DEF MemInv, MemoryAccounted, Pending
  <2>2. held' = held
    BY <1>1 DEF vars
  <2> QED
    BY <1>1, <2>1, <2>2, AccountedKept DEF MemInv
<1>6. CanaryTells'
  <2>1. \A t \in ready' : Base(t)' \in canary' <=> t \notin overrun'
    BY <1>1 DEF MemInv, CanaryTells, Base, taskVars
  <2>2. ASSUME halted' PROVE registry \cap overrun # {}
    <3>1. PICK t \in registry : Base(t) \notin canary
      BY <1>1, <2>2, Zenon
    <3> QED
      BY <3>1 DEF MemInv, MemTypes, CanaryTells
  <2> QED
    BY <1>1, <2>1, <2>2 DEF CanaryTells, taskVars
<1> QED
  BY <1>2, <1>3, <1>4, <1>5, <1>6 DEF MemInv

-----------------------------------------------------------------------------
LEMMA MemInitInv == MemInit => MemInv
<1> SUFFICES ASSUME MemInit PROVE MemInv
  OBVIOUS
<1>1. IInv
  BY InitIInv DEF MemInit
<1>2. job = [at |-> "init", tcb |-> NULL, stk |-> NULL, bytes |-> 0] /\ held = {}
  BY DEF MemInit, NoJob, Init
<1>3. MemTypes
  <2>1. stack_base \in [Addr -> Addr \cup {NULL}]
    BY DEF MemInit
  <2>2. job \in [at : Place, tcb : Addr \cup {NULL}, stk : Addr \cup {NULL},
                 bytes : Request \cup {0}]
    BY <1>2 DEF Place
  <2> QED
    BY <2>1, <2>2, Zenon DEF MemInit, MemTypes
<1>4. JobShape /\ CanaryBuilt /\ CanaryTells
  BY <1>2 DEF MemInit, JobShape, CanaryBuilt, CanaryTells
<1>5. MemoryAccounted
  BY <1>2 DEF MemInit, MemoryAccounted, Stacks, Pending
<1> QED
  BY <1>1, <1>3, <1>4, <1>5 DEF MemInv

LEMMA MemNextInv == MemInv /\ [MemNext]_memVars => MemInv'
BY CoalesceMem, StutterMem, AppAllocMem, TaskInitMem, CreateTcbMem, CreateStackMem, AppFreeMem,
   UndoDeleteMem, BuildMem, TaskCreateMem, CreateAddMem, CreateRegisterMem, TaskDeleteMem,
   OverrunMem, StackCheckMem DEF MemNext

LEMMA MemAlways == MemSpec => []MemInv
BY MemInitInv, MemNextInv, PTL DEF MemSpec

\* Whatever tasks are created, refused for want of memory and deleted, and whatever
\* the application does in between, every block of the heap has exactly one owner,
\* for every pool, every size of TCB and stack and any number of tasks.
THEOREM MemoryAlwaysAccounted == MemSpec => []MemoryAccounted
<1>1. MemInv => MemoryAccounted
  BY DEF MemInv
<1> QED
  BY <1>1, MemAlways, PTL

\* rtos_stack_check_all halts the system only for a task that has used up its stack,
\* and a canary is broken by nothing else, however memory is used again.
THEOREM CanariesAlwaysTell == MemSpec => []CanaryTells
<1>1. MemInv => CanaryTells
  BY DEF MemInv
<1> QED
  BY <1>1, MemAlways, PTL

\* The steps of tasks keep the allocator's invariant: what is shown above
\* of heap_alloc and heap_free holds in the composition.
THEOREM HeapPartitionedUnderTasks == MemSpec => [](HeapPartition /\ RoomForRequest)
<1>1. MemInv => HeapPartition /\ RoomForRequest
  BY DEF MemInv, IInv
<1> QED
  BY <1>1, MemAlways, PTL
-----------------------------------------------------------------------------
(* The registry *)

\* The calls of task_create that have passed its test of the registry.
Creating == {"tcb", "stack", "undo_tcb", "undo_stack", "build", "add", "register"}

RegInv ==
  /\ IsFiniteSet(registry) /\ Cardinality(registry) < RTOS_MAX_TASKS
  /\ job.at \in Creating => Cardinality(registry) + 1 < RTOS_MAX_TASKS

LEMMA RegInit == MemInit => RegInv
<1>1. IsFiniteSet({}) /\ Cardinality({}) = 0
  BY FS_EmptySet
<1> QED
  BY <1>1, TaskMemoryAssumption DEF MemInit, RegInv, Creating, NoJob

\* Only a call that has just passed the test, or task_delete, changes what counts.
LEMMA RegNext ==
  ASSUME MemInv, RegInv, [MemNext]_memVars
  PROVE  RegInv'
<1>0. Cardinality(registry) \in Nat /\ IsFiniteSet(registry) /\ RTOS_MAX_TASKS \in Nat
  BY FS_CardinalityType, TaskMemoryAssumption DEF RegInv
<1>1. CASE registry' = registry /\ (job'.at \in Creating => job.at \in Creating)
  BY <1>1 DEF RegInv
<1>2. ASSUME NEW n \in StackBytes, TaskCreate(n) PROVE RegInv'
  BY <1>2 DEF TaskCreate, RegInv, taskVars
<1>3. CASE CreateRegister
  <2>1. /\ registry' = registry \cup {job.tcb} /\ job'.at \notin Creating
        /\ Cardinality(registry) + 1 < RTOS_MAX_TASKS
    BY <1>3 DEF CreateRegister, At, RegInv, Creating, NoJob
  <2>2. /\ IsFiniteSet(registry')
        /\ Cardinality(registry') \in {Cardinality(registry), Cardinality(registry) + 1}
    BY <1>0, <2>1, FS_AddElement
  <2> QED
    BY <1>0, <2>1, <2>2 DEF RegInv
<1>4. ASSUME NEW t \in registry, TaskDelete(t) PROVE RegInv'
  <2>1. registry' = registry \ {t} /\ job'.at \notin Creating
    BY <1>4 DEF TaskDelete, Creating, NoJob
  <2>2. IsFiniteSet(registry') /\ Cardinality(registry') = Cardinality(registry) - 1
    BY <1>0, <2>1, FS_RemoveElement
  <2> QED
    BY <1>0, <2>1, <2>2 DEF RegInv
<1>5. ASSUME NEW n \in Request, AppAlloc(n) PROVE RegInv'
  BY <1>1, <1>5 DEF AppAlloc, taskVars
<1>6. ASSUME NEW b \in Addr, AppFree(b) PROVE RegInv'
  BY <1>1, <1>6 DEF AppFree, taskVars
<1>7. ASSUME NEW t \in Addr, Overrun(t) PROVE RegInv'
  BY <1>1, <1>7 DEF Overrun, taskVars
<1>8. CASE Coalesce \/ StackCheck \/ UNCHANGED memVars
  BY <1>1, <1>8, Zenon DEF Coalesce, StackCheck, memVars, taskVars
<1>9. CASE TaskInit \/ UndoStack \/ DeleteLeave \/ DeleteTcb
  <2>1. registry' = registry /\ job'.at \notin Creating
    BY <1>9 DEF TaskInit, UndoStack, DeleteLeave, DeleteTcb, taskVars, NoJob, Creating
  <2> QED
    BY <1>1, <2>1
<1>10. CASE CreateTcb \/ CreateStack \/ UndoTcb \/ Build \/ CreateAdd
  <2>1. registry' = registry /\ job.at \in Creating
    BY <1>10 DEF CreateTcb, CreateStack, UndoTcb, Build, CreateAdd, At, taskVars, Creating
  <2> QED
    BY <1>1, <2>1
<1>11. CASE DeleteStack
  <2>1. registry' = registry
    BY <1>11 DEF DeleteStack, taskVars
  <2>2. job'.at = "free_tcb"
    BY <1>11 DEF DeleteStack, MemInv, MemTypes
  <2> QED
    BY <1>1, <2>1, <2>2 DEF Creating
<1> QED
  BY <1>2, <1>3, <1>4, <1>5, <1>6, <1>7, <1>8, <1>9, <1>10, <1>11 DEF MemNext

\* The types of the composition, and with them the room in task_registry: however
\* task_create, its failures and task_delete follow one another, _registry_add
\* always finds a free entry below RTOS_MAX_TASKS, one of which the idle task has.
THEOREM MemTypesKept == MemSpec => []MemTypeOK
<1>1. MemSpec => []RegInv
  <2>1. MemInv /\ RegInv /\ [MemNext]_memVars => RegInv'
    BY RegNext
  <2> QED
    BY <2>1, RegInit, MemAlways, PTL DEF MemSpec
<1>2. MemInv /\ RegInv => MemTypeOK
  BY DEF MemInv, MemTypes, IInv, RegInv, MemTypeOK
<1> QED
  BY <1>1, <1>2, MemAlways, PTL
=============================================================================
