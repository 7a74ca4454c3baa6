--------------------------- MODULE SieHeap_proofs ---------------------------
(***************************************************************************)
(* Proofs about the memory pool (PromMem) and the heap over one of its     *)
(* areas (SieHeap), for every page size, memory size, number of            *)
(* descriptors and set of requests: areas and blocks never overlap, and    *)
(* the heap is a best-fit allocator.                                       *)
(***************************************************************************)
EXTENDS SieHeap, WellFoundedInduction, FiniteSetTheorems, TLAPS

(* The facts about % that the proofs use. *)
LEMMA ModRange ==
    ASSUME NEW a \in Nat, NEW b \in Nat \ {0}
    PROVE  /\ a % b \in Nat /\ a % b < b /\ a % b <= a
           /\ a < b => a % b = a
  OBVIOUS

(* Rounding up to a page (memory.c:107) yields at least what was asked. *)
LEMMA PageAlignCovers ==
    ASSUME NEW r \in Requests
    PROVE  PageAlign(r) \in Nat /\ r <= PageAlign(r)
<1> DEFINE s == r + PageSize - 1
<1>1. s \in Nat /\ s < W /\ W \in Nat \ {0} /\ r \in Nat /\ PageSize \in Nat \ {0}
  BY PromAssumption
<1>2. Wrap(s) = s
  BY <1>1, ModRange DEF Wrap
<1>3. PageAlign(r) = s - (s % PageSize)
  BY <1>2 DEF PageAlign
<1>4. s % PageSize \in Nat /\ s % PageSize < PageSize /\ s % PageSize <= s
  BY <1>1, ModRange
<1>5. QED
  BY <1>1, <1>3, <1>4

PoolInv == TypeOK /\ PoolAccounted /\ AreasDisjoint

(* prom_phy_mem_malloc with a pool that is large enough keeps the invariant: *)
(* the new area starts where the old ones end.                              *)
LEMMA MallocFitsInv ==
    ASSUME NEW r \in Requests, booted, MallocFits(r), PoolInv
    PROVE  PoolInv'
<1> DEFINE size == PageAlign(r)
           new == [addr |-> prom_phy_mem_start, asked |-> r, size |-> size]
<1>1. size \in Nat /\ r <= size /\ r \in Nat
  BY PageAlignCovers, PromAssumption
<1>2. prom_phy_mem_start \in Nat /\ prom_phy_mem_size \in Nat
      /\ prom_phy_mem_start + prom_phy_mem_size = MemTop /\ MemTop \in Nat
      /\ W \in Nat \ {0} /\ MemTop < W /\ size <= prom_phy_mem_size
  BY PromAssumption DEF PoolInv, TypeOK, PoolAccounted, MallocFits
<1>3. prom_phy_mem_start' = prom_phy_mem_start + size
  <2>1. prom_phy_mem_start + size \in Nat /\ prom_phy_mem_start + size < W
    BY <1>1, <1>2
  <2>2. QED  BY <2>1, <1>2, ModRange DEF MallocFits, Wrap
<1>4. prom_phy_mem_size' = prom_phy_mem_size - size
  <2>1. prom_phy_mem_size + W - size = (prom_phy_mem_size - size) + W
        /\ prom_phy_mem_size - size \in Nat /\ prom_phy_mem_size - size < W
    BY <1>1, <1>2
  <2>2. ((prom_phy_mem_size - size) + W) % W = prom_phy_mem_size - size
    BY <2>1, <1>2
  <2>3. QED  BY <2>1, <2>2 DEF MallocFits, Wrap
<1>5. areas' = areas \cup {new} /\ booted' = booted /\ physical_memsize' = physical_memsize
  BY DEF MallocFits
<1>6. \A a \in areas : /\ a.addr \in Nat /\ a.asked \in Nat /\ a.size \in Nat
                       /\ a.addr + a.size <= prom_phy_mem_start /\ a.asked <= a.size
  BY <1>2 DEF PoolInv, TypeOK, PoolAccounted
<1>7. TypeOK'
  BY <1>1, <1>2, <1>3, <1>4, <1>5 DEF PoolInv, TypeOK
<1>8. PoolAccounted'
  BY <1>1, <1>2, <1>3, <1>4, <1>5, <1>6 DEF PoolInv, TypeOK, PoolAccounted
<1>9. AreasDisjoint'
  BY <1>1, <1>2, <1>5, <1>6 DEF PoolInv, TypeOK, PoolAccounted, AreasDisjoint, Disjoint
<1>10. QED
  BY <1>7, <1>8, <1>9 DEF PoolInv

(* Every step keeps the invariant. *)
LEMMA PoolNextInv == PoolInv /\ [Next]_vars => PoolInv'
<1> SUFFICES ASSUME PoolInv, [Next]_vars PROVE PoolInv'
  OBVIOUS
<1>1. ASSUME NEW m \in UserMem \cup {DefaultMem}, prom_meminit(m)
      PROVE  PoolInv'
  BY <1>1, PromAssumption DEF PoolInv, TypeOK, PoolAccounted, AreasDisjoint, prom_meminit
<1>2. ASSUME NEW r \in Requests, prom_phy_mem_malloc(r)
      PROVE  PoolInv'
  <2>1. CASE MallocFits(r)
    BY <1>2, <2>1, MallocFitsInv DEF prom_phy_mem_malloc
  <2>2. CASE MallocFails(r)
    BY <2>2 DEF MallocFails, vars, PoolInv, TypeOK, PoolAccounted, AreasDisjoint
  <2>3. QED  BY <1>2, <2>1, <2>2 DEF prom_phy_mem_malloc
<1>3. CASE UNCHANGED vars
  BY <1>3 DEF vars, PoolInv, TypeOK, PoolAccounted, AreasDisjoint
<1>4. QED
  BY <1>1, <1>2, <1>3 DEF Next

(* Before prom_meminit nothing is handed out. *)
LEMMA InitInv == Init => PoolInv
<1> SUFFICES ASSUME Init PROVE PoolInv
  OBVIOUS
<1>1. 0 \in 0..MemTop /\ MemTop \in Nat
  BY PromAssumption
<1>2. TypeOK
  BY <1>1, Zenon DEF Init, TypeOK
<1>3. AreasDisjoint
  BY DEF Init, AreasDisjoint
<1>4. PoolAccounted
  <2>1. ~booted
    BY Zenon DEF Init
  <2>2. QED  BY <1>1, <2>1 DEF Init, PoolAccounted
<1>5. QED  BY <1>2, <1>3, <1>4 DEF PoolInv

(* The drivers' areas are pairwise disjoint and lie between the kernel's    *)
(* memory and the register space, whatever the drivers ask for and whatever *)
(* "mem=" says (prom_meminit and prom_phy_mem_malloc).                      *)
THEOREM AreasNeverOverlap == Spec => [](TypeOK /\ AreasDisjoint)
<1>1. PoolInv => TypeOK /\ AreasDisjoint
  BY DEF PoolInv
<1>2. QED
  BY <1>1, InitInv, PoolNextInv, PTL DEF Spec
-----------------------------------------------------------------------------
(* The heap.                                                                 *)

Blocks == [start : Nat, size : Nat \ {0}]
End(b) == b.start + b.size
Apart(a, b) == End(a) <= b.start \/ End(b) <= a.start

\* The free blocks F and the blocks in use U tile the memory h, and no two free
\* blocks are neighbours.
Tiling(F, U, h) ==
    /\ F \subseteq Blocks /\ U \subseteq Blocks
    /\ \A b \in F \cup U : h.start <= b.start /\ End(b) <= End(h)
    /\ \A a, b \in F \cup U : a = b \/ Apart(a, b)
    /\ F \cap U = {}
    /\ \A f \in F : f.start = h.start \/ \E b \in U : End(b) = f.start
    /\ \A f \in F : End(f) = End(h) \/ \E b \in U : b.start = End(f)
    /\ \E c \in F \cup U : c.start = h.start
    /\ \A b \in U : b.start = h.start \/ \E c \in F \cup U : End(c) = b.start
    /\ \A b \in U : End(b) = End(h) \/ \E c \in F \cup U : c.start = End(b)

Distinct(s) == \A i, j \in DOMAIN s : s[i] = s[j] => i = j
Sorted(s) == \A i, j \in DOMAIN s : i < j => s[i].size <= s[j].size

\* A heap at another address than 0 has the memory of an area of the pool.
Backed ==
    /\ heap.start \in 0..MemTop
    /\ heap.start # null => \E a \in areas : a.addr = heap.start /\ a.asked = heap.size

\* The lists of an open heap, and all descriptors.
Lists ==
    /\ free \in Seq(Blocks) /\ used \in Seq(Blocks) /\ spare \in Nat
    /\ Distinct(free) /\ Distinct(used) /\ Sorted(free)
    /\ IF heap.size = 0
       THEN heap.start = 0 /\ free = <<>> /\ used = <<>> /\ spare = 0
       ELSE /\ heap.size = SILAN_MALLOC_SIZE
            /\ Tiling(ToSet(free), ToSet(used), heap)
            /\ spare + Len(free) + Len(used) = TOTAL_RAM_FRAG

HeapInv == heap \in [start : Nat, size : Nat] /\ Backed /\ Lists

-----------------------------------------------------------------------------
(* Lists.                                                                    *)

(* A set of numbers has a least one. *)
LEMMA LeastOf ==
    ASSUME NEW T, T \subseteq Nat, T # {}
    PROVE  Min(T) \in T /\ \A y \in T : Min(T) <= y
<1> DEFINE R == OpToRel(<, Nat)
<1>1. IsWellFoundedOn(R, Nat)  BY NatLessThanWellFounded
<1>2. ASSUME NEW x \in Nat, NEW y \in Nat, y < x PROVE <<y, x>> \in R
  BY <1>2 DEF OpToRel
<1> HIDE DEF R
<1>3. PICK x \in T : \A y \in T : ~(<<y, x>> \in R)  BY <1>1, WFMin
<1>4. ASSUME NEW y \in T PROVE x <= y
  <2>1. x \in Nat /\ y \in Nat  BY <1>3
  <2>2. ~(y < x)  BY <1>2, <1>3, <2>1
  <2>3. QED  BY <2>1, <2>2
<1>5. QED  BY <1>4 DEF Min

(* The first index of a set of them, or 0. *)
LEMMA FirstOf ==
    ASSUME NEW n \in Nat, NEW I, I \subseteq 1..n, NEW x, x = IF I # {} THEN Min(I) ELSE 0
    PROVE  /\ x = 0 => I = {}
           /\ x # 0 => x \in I /\ x \in 1..n /\ \A y \in I : x <= y
<1>1. I # {} => Min(I) \in I /\ \A y \in I : Min(I) <= y
  <2>1. I \subseteq Nat  OBVIOUS
  <2>2. QED  BY <2>1, LeastOf
<1>2. CASE I = {}  BY <1>2
<1>3. CASE I # {}
  <2>1. x \in I /\ \A y \in I : x <= y  BY <1>1, <1>3
  <2>2. x \in 1..n  BY <2>1
  <2>3. QED  BY <2>1, <2>2
<1>4. QED  BY <1>2, <1>3

(* find_fit_frag finds the first block that is large enough. *)
LEMMA FitIs ==
    ASSUME free \in Seq(Blocks), NEW size
    PROVE  LET i == find_fit_frag(size) IN
           /\ i = 0 => \A k \in 1..Len(free) : ~(size <= free[k].size)
           /\ i # 0 => /\ i \in 1..Len(free) /\ size <= free[i].size
                       /\ \A k \in 1..Len(free) : size <= free[k].size => i <= k
<1> DEFINE I == {k \in 1..Len(free) : size <= free[k].size}
           i == find_fit_frag(size)
<1>1. i = IF I # {} THEN Min(I) ELSE 0  BY DEF find_fit_frag, SelectInSeq
<1>2. Len(free) \in Nat /\ I \subseteq 1..Len(free)  OBVIOUS
<1> HIDE DEF i
<1>3. /\ i = 0 => I = {}
      /\ i # 0 => i \in I /\ i \in 1..Len(free) /\ \A y \in I : i <= y
  <2> HIDE DEF I
  <2>1. QED  BY <1>1, <1>2, FirstOf
<1>4. QED  BY <1>3 DEF i

(* find_frag_by_addr, for each of its uses. *)
LEMMA UsedIs ==
    ASSUME used \in Seq(Blocks), NEW addr
    PROVE  LET k == SelectInSeq(used, LAMBDA b : b.start = addr) IN
           /\ k = 0 => \A j \in 1..Len(used) : used[j].start # addr
           /\ k # 0 => k \in 1..Len(used) /\ used[k].start = addr
<1> DEFINE I == {j \in 1..Len(used) : used[j].start = addr}
           i == SelectInSeq(used, LAMBDA b : b.start = addr)
<1>1. i = IF I # {} THEN Min(I) ELSE 0  BY DEF SelectInSeq
<1>2. Len(used) \in Nat /\ I \subseteq 1..Len(used)  OBVIOUS
<1> HIDE DEF i
<1>3. /\ i = 0 => I = {}
      /\ i # 0 => i \in I /\ i \in 1..Len(used) /\ \A y \in I : i <= y
  <2> HIDE DEF I
  <2>1. QED  BY <1>1, <1>2, FirstOf
<1>4. QED  BY <1>3 DEF i

LEMMA AfterIs ==
    ASSUME NEW list \in Seq(Blocks), NEW b
    PROVE  LET i == BlockAfter(list, b) IN
           /\ i = 0 => \A k \in 1..Len(list) : list[k].start # End(b)
           /\ i # 0 => i \in 1..Len(list) /\ list[i].start = End(b)
<1> DEFINE I == {k \in 1..Len(list) : list[k].start = b.start + b.size}
           i == BlockAfter(list, b)
<1>1. i = IF I # {} THEN Min(I) ELSE 0  BY DEF BlockAfter, SelectInSeq
<1>2. Len(list) \in Nat /\ I \subseteq 1..Len(list)  OBVIOUS
<1> HIDE DEF i
<1>3. /\ i = 0 => I = {}
      /\ i # 0 => i \in I /\ i \in 1..Len(list) /\ \A y \in I : i <= y
  <2> HIDE DEF I
  <2>1. QED  BY <1>1, <1>2, FirstOf
<1>4. QED  BY <1>3 DEF i, End

LEMMA BeforeIs ==
    ASSUME NEW list \in Seq(Blocks), NEW b
    PROVE  LET i == BlockBefore(list, b) IN
           /\ i = 0 => \A k \in 1..Len(list) : End(list[k]) # b.start
           /\ i # 0 => i \in 1..Len(list) /\ End(list[i]) = b.start
<1> DEFINE I == {k \in 1..Len(list) : list[k].start + list[k].size = b.start}
           i == BlockBefore(list, b)
<1>1. i = IF I # {} THEN Min(I) ELSE 0  BY DEF BlockBefore, SelectInSeq
<1>2. Len(list) \in Nat /\ I \subseteq 1..Len(list)  OBVIOUS
<1> HIDE DEF i
<1>3. /\ i = 0 => I = {}
      /\ i # 0 => i \in I /\ i \in 1..Len(list) /\ \A y \in I : i <= y
  <2> HIDE DEF I
  <2>1. QED  BY <1>1, <1>2, FirstOf
<1>4. QED  BY <1>3 DEF i, End

(* A list without its element i. *)
LEMMA RemoveIs ==
    ASSUME NEW S, NEW s \in Seq(S), NEW i \in 1..Len(s)
    PROVE  LET r == RemoveAt(s, i) IN
           /\ r \in Seq(S) /\ Len(r) = Len(s) - 1
           /\ \A k \in 1..Len(r) : r[k] = IF k < i THEN s[k] ELSE s[k + 1]
<1> DEFINE p == SubSeq(s, 1, i - 1)
           q == SubSeq(s, i + 1, Len(s))
           r == RemoveAt(s, i)
<1>1. r = p \o q  BY DEF RemoveAt
<1>2. /\ p \in Seq(S) /\ Len(p) = i - 1
      /\ \A k \in 1..(i - 1) : p[k] = s[k]
  OBVIOUS
<1>3. /\ q \in Seq(S) /\ Len(q) = Len(s) - i
      /\ \A k \in 1..(Len(s) - i) : q[k] = s[i + k]
  OBVIOUS
<1> HIDE DEF p, q, r
<1>4. r \in Seq(S) /\ Len(r) = Len(s) - 1
  <2>1. p \in Seq(S) /\ q \in Seq(S)  BY <1>2, <1>3
  <2>2. p \o q \in Seq(S) /\ Len(p \o q) = Len(p) + Len(q)  BY ONLY <2>1
  <2>3. QED  BY <1>1, <1>2, <1>3, <2>2
<1>5. ASSUME NEW k \in 1..Len(r) PROVE r[k] = IF k < i THEN s[k] ELSE s[k + 1]
  <2>1. r[k] = IF k <= Len(p) THEN p[k] ELSE q[k - Len(p)]
    BY <1>1, <1>2, <1>3, <1>4, <1>5
  <2>2. CASE k < i  BY <1>2, <2>1, <2>2
  <2>3. CASE ~(k < i)
    <3>1. k - Len(p) \in 1..(Len(s) - i) /\ ~(k <= Len(p)) /\ i + (k - Len(p)) = k + 1
      BY <1>2, <1>4, <1>5, <2>3
    <3>2. QED  BY <1>3, <2>1, <2>3, <3>1
  <2>4. QED  BY <2>2, <2>3
<1>6. QED  BY <1>4, <1>5 DEF r

(* A list with an element e put in before element i, or after the last one. *)
InsertedAt(r, s, i, e) ==
    /\ i \in 1..(Len(s) + 1) /\ Len(r) = Len(s) + 1
    /\ \A k \in 1..Len(r) : r[k] = IF k < i THEN s[k] ELSE IF k = i THEN e ELSE s[k - 1]

LEMMA InsertIs ==
    ASSUME NEW S, NEW s \in Seq(S), NEW i \in 1..Len(s), NEW e \in S
    PROVE  InsertAt(s, i, e) \in Seq(S) /\ InsertedAt(InsertAt(s, i, e), s, i, e)
<1> DEFINE p == SubSeq(s, 1, i - 1)
           q == SubSeq(s, i, Len(s))
           r == InsertAt(s, i, e)
           t == p \o <<e>>
<1>1. r = t \o q  BY DEF InsertAt
<1>2. /\ p \in Seq(S) /\ Len(p) = i - 1
      /\ \A k \in 1..(i - 1) : p[k] = s[k]
  OBVIOUS
<1>3. /\ q \in Seq(S) /\ Len(q) = Len(s) - i + 1
      /\ \A k \in 1..(Len(s) - i + 1) : q[k] = s[i + k - 1]
  OBVIOUS
<1> HIDE DEF p, q, r
<1>4. t \in Seq(S) /\ Len(t) = i /\ \A k \in 1..i : t[k] = IF k < i THEN s[k] ELSE e
  <2>1. t \in Seq(S) /\ Len(t) = i  BY <1>2
  <2>2. \A k \in 1..i : t[k] = IF k <= Len(p) THEN p[k] ELSE e  BY <1>2
  <2>3. QED  BY <1>2, <2>1, <2>2
<1> HIDE DEF t
<1>5. r \in Seq(S) /\ Len(r) = Len(s) + 1
  <2>1. t \in Seq(S) /\ q \in Seq(S)  BY <1>3, <1>4
  <2>2. t \o q \in Seq(S) /\ Len(t \o q) = Len(t) + Len(q)  BY ONLY <2>1
  <2>3. QED  BY <1>1, <1>3, <1>4, <2>2
<1>6. ASSUME NEW k \in 1..Len(r)
      PROVE  r[k] = IF k < i THEN s[k] ELSE IF k = i THEN e ELSE s[k - 1]
  <2>1. r[k] = IF k <= Len(t) THEN t[k] ELSE q[k - Len(t)]
    BY <1>1, <1>3, <1>4, <1>5, <1>6
  <2>2. CASE k <= i  BY <1>4, <2>1, <2>2
  <2>3. CASE ~(k <= i)
    <3>1. k - Len(t) \in 1..(Len(s) - i + 1) /\ ~(k <= Len(t)) /\ i + (k - Len(t)) - 1 = k - 1
      BY <1>4, <1>5, <1>6, <2>3
    <3>2. q[k - Len(t)] = s[i + (k - Len(t)) - 1]  BY ONLY <1>3, <3>1
    <3>3. ~(k < i) /\ k # i  BY <2>3
    <3>4. QED  BY ONLY <2>1, <3>1, <3>2, <3>3
  <2>4. QED  BY <2>2, <2>3
<1>7. QED  BY <1>5, <1>6 DEF r, InsertedAt

LEMMA AppendIs ==
    ASSUME NEW S, NEW s \in Seq(S), NEW e \in S
    PROVE  Append(s, e) \in Seq(S) /\ InsertedAt(Append(s, e), s, Len(s) + 1, e)
  BY DEF InsertedAt

(* add_into_free_list puts the block before the first one that is as large. *)
LEMMA AddIs ==
    ASSUME NEW list \in Seq(Blocks), NEW frag \in Blocks
    PROVE  LET r == add_into_free_list(list, frag) IN
           /\ r \in Seq(Blocks)
           /\ \E i \in 1..(Len(list) + 1) :
                /\ InsertedAt(r, list, i, frag)
                /\ \A k \in 1..(i - 1) : ~(frag.size <= list[k].size)
                /\ i <= Len(list) => frag.size <= list[i].size
<1> DEFINE I == {k \in 1..Len(list) : frag.size <= list[k].size}
           i == SelectInSeq(list, LAMBDA b : frag.size <= b.size)
           r == add_into_free_list(list, frag)
<1>1. i = IF I # {} THEN Min(I) ELSE 0  BY DEF SelectInSeq
<1>2. Len(list) \in Nat /\ I \subseteq 1..Len(list)  OBVIOUS
<1>3. r = IF i = 0 THEN Append(list, frag) ELSE InsertAt(list, i, frag)
  BY DEF add_into_free_list
<1> HIDE DEF i, r
<1>4. /\ i = 0 => I = {}
      /\ i # 0 => i \in I /\ i \in 1..Len(list) /\ \A y \in I : i <= y
  <2> HIDE DEF I
  <2>1. QED  BY <1>1, <1>2, FirstOf
<1>5. CASE i = 0
  <2>1. r \in Seq(Blocks) /\ InsertedAt(r, list, Len(list) + 1, frag)
    BY <1>3, <1>5, AppendIs
  <2>2. \A k \in 1..((Len(list) + 1) - 1) : ~(frag.size <= list[k].size)  BY <1>4, <1>5
  <2>3. Len(list) + 1 \in 1..(Len(list) + 1) /\ ~(Len(list) + 1 <= Len(list))  OBVIOUS
  <2>4. QED  BY <2>1, <2>2, <2>3 DEF r
<1>6. CASE i # 0
  <2>1. i \in 1..Len(list) /\ frag.size <= list[i].size  BY <1>4, <1>6
  <2>2. r \in Seq(Blocks) /\ InsertedAt(r, list, i, frag)
    BY <1>3, <1>6, <2>1, InsertIs
  <2>3. ASSUME NEW k \in 1..(i - 1) PROVE ~(frag.size <= list[k].size)
    <3>1. k \in 1..Len(list) /\ ~(i <= k)  BY <2>1
    <3>2. k \notin I  BY <1>4, <1>6, <3>1
    <3>3. QED  BY <3>1, <3>2
  <2>4. i \in 1..(Len(list) + 1)  BY <2>1
  <2>5. QED  BY <2>1, <2>2, <2>3, <2>4 DEF r
<1>7. QED  BY <1>5, <1>6

(* What is left of a list of different blocks. *)
LEMMA RemoveKeeps ==
    ASSUME NEW s \in Seq(Blocks), Distinct(s), NEW i \in 1..Len(s)
    PROVE  LET r == RemoveAt(s, i) IN
           /\ r \in Seq(Blocks) /\ Len(r) = Len(s) - 1
           /\ Distinct(r) /\ ToSet(r) = ToSet(s) \ {s[i]}
           /\ Sorted(s) => Sorted(r)
<1> DEFINE r == RemoveAt(s, i)
<1>1. /\ r \in Seq(Blocks) /\ Len(r) = Len(s) - 1
      /\ \A k \in 1..Len(r) : r[k] = IF k < i THEN s[k] ELSE s[k + 1]
  BY RemoveIs
<1> HIDE DEF r
<1> DEFINE from(k) == IF k < i THEN k ELSE k + 1
<1>2. DOMAIN r = 1..Len(r) /\ DOMAIN s = 1..Len(s) /\ Len(s) \in Nat  BY <1>1
<1>3. \A k \in 1..Len(r) : from(k) \in 1..Len(s) /\ from(k) # i /\ r[k] = s[from(k)]
  BY <1>1, <1>2
<1>4. \A k, l \in 1..Len(r) : (from(k) = from(l) => k = l) /\ (k < l => from(k) < from(l))
  BY <1>1, <1>2
<1>5. \A k \in 1..Len(s) : k # i => \E l \in 1..Len(r) : from(l) = k
  <2>1. SUFFICES ASSUME NEW k \in 1..Len(s), k # i PROVE \E l \in 1..Len(r) : from(l) = k
    OBVIOUS
  <2>2. CASE k < i
    <3>1. k \in 1..Len(r) /\ from(k) = k  BY <1>1, <1>2, <2>2
    <3>2. QED  BY <3>1
  <2>3. CASE k > i
    <3>1. k - 1 \in 1..Len(r) /\ from(k - 1) = k  BY <1>1, <1>2, <2>3
    <3>2. QED  BY <3>1
  <2>4. QED  BY <2>1, <2>2, <2>3
<1> HIDE DEF from
<1>6. Distinct(r)  BY <1>2, <1>3, <1>4 DEF Distinct
<1>7. ToSet(r) = ToSet(s) \ {s[i]}
  <2>1. ASSUME NEW x \in ToSet(r) PROVE x \in ToSet(s) \ {s[i]}
    <3>1. PICK k \in 1..Len(r) : x = r[k]  BY <1>2 DEF ToSet
    <3>2. x = s[from(k)] /\ from(k) \in 1..Len(s) /\ from(k) # i  BY <1>3, <3>1
    <3>3. QED  BY <1>2, <3>2 DEF ToSet, Distinct
  <2>2. ASSUME NEW x \in ToSet(s) \ {s[i]} PROVE x \in ToSet(r)
    <3>1. PICK k \in 1..Len(s) : x = s[k]  BY <1>2 DEF ToSet
    <3>2. k # i  BY <3>1
    <3>3. PICK l \in 1..Len(r) : from(l) = k  BY <1>5, <3>2
    <3>4. x = r[l]  BY <1>3, <3>1, <3>3
    <3>5. QED  BY <1>2, <3>4 DEF ToSet
  <2>3. QED  BY <2>1, <2>2
<1>8. Sorted(s) => Sorted(r)  BY <1>2, <1>3, <1>4 DEF Sorted
<1>9. QED  BY <1>1, <1>6, <1>7, <1>8 DEF r

(* A block put into a sorted list of others. *)
LEMMA AddKeeps ==
    ASSUME NEW s \in Seq(Blocks), Distinct(s), Sorted(s), NEW e \in Blocks, e \notin ToSet(s)
    PROVE  LET r == add_into_free_list(s, e) IN
           /\ r \in Seq(Blocks) /\ Len(r) = Len(s) + 1
           /\ Distinct(r) /\ ToSet(r) = ToSet(s) \cup {e} /\ Sorted(r)
<1> DEFINE r == add_into_free_list(s, e)
<1>1. /\ r \in Seq(Blocks)
      /\ \E i \in 1..(Len(s) + 1) :
           /\ InsertedAt(r, s, i, e)
           /\ \A k \in 1..(i - 1) : ~(e.size <= s[k].size)
           /\ i <= Len(s) => e.size <= s[i].size
  BY AddIs
<1> HIDE DEF r
<1>2. PICK i \in 1..(Len(s) + 1) :
           /\ InsertedAt(r, s, i, e)
           /\ \A k \in 1..(i - 1) : ~(e.size <= s[k].size)
           /\ i <= Len(s) => e.size <= s[i].size
  BY <1>1
<1>3. /\ Len(r) = Len(s) + 1
      /\ \A k \in 1..Len(r) : r[k] = IF k < i THEN s[k] ELSE IF k = i THEN e ELSE s[k - 1]
  BY <1>2 DEF InsertedAt
<1>4. DOMAIN r = 1..Len(r) /\ DOMAIN s = 1..Len(s) /\ Len(s) \in Nat  BY <1>1
<1> DEFINE from(k) == IF k < i THEN k ELSE k - 1
<1>5. \A k \in 1..Len(r) : k # i => from(k) \in 1..Len(s) /\ r[k] = s[from(k)]
  BY <1>2, <1>3, <1>4
<1>6. i \in 1..Len(r) /\ r[i] = e  BY <1>2, <1>3, <1>4
<1>7. \A k, l \in 1..Len(r) : k # i /\ l # i =>
          (from(k) = from(l) => k = l) /\ (k < l => from(k) < from(l))
  BY <1>2, <1>3, <1>4
<1>8. \A k \in 1..Len(s) : \E l \in 1..Len(r) : l # i /\ from(l) = k
  <2>1. SUFFICES ASSUME NEW k \in 1..Len(s) PROVE \E l \in 1..Len(r) : l # i /\ from(l) = k
    OBVIOUS
  <2>2. CASE k < i
    <3>1. k \in 1..Len(r) /\ from(k) = k /\ k # i  BY <1>3, <1>4, <2>2
    <3>2. QED  BY <3>1
  <2>3. CASE ~(k < i)
    <3>1. k + 1 \in 1..Len(r) /\ ~(k + 1 < i) /\ k + 1 # i  BY <1>3, <1>4, <2>3
    <3>2. from(k + 1) = k  BY <3>1
    <3>3. QED  BY <3>1, <3>2
  <2>4. QED  BY <2>2, <2>3
<1>9. \A k \in 1..Len(r) : /\ k < i => from(k) < i
                           /\ k > i => from(k) >= i
  BY <1>2, <1>3, <1>4
<1> HIDE DEF from
<1>10. \A k \in 1..Len(s) : s[k] # e /\ s[k].size \in Nat
  <2>1. \A k \in 1..Len(s) : s[k] # e  BY <1>4 DEF ToSet
  <2>2. \A k \in 1..Len(s) : s[k] \in Blocks  BY <1>4
  <2>3. QED  BY <2>1, <2>2 DEF Blocks
<1>11. Distinct(r)
  <2>1. SUFFICES ASSUME NEW k \in 1..Len(r), NEW l \in 1..Len(r), r[k] = r[l] PROVE k = l
    BY <1>4 DEF Distinct
  <2>2. CASE k # i /\ l # i
    <3>1. s[from(k)] = s[from(l)] /\ from(k) \in 1..Len(s) /\ from(l) \in 1..Len(s)
      BY <1>5, <2>1, <2>2
    <3>2. from(k) = from(l)  BY <1>4, <3>1 DEF Distinct
    <3>3. QED  BY <1>7, <2>2, <3>2
  <2>3. CASE k = i \/ l = i  BY <1>5, <1>6, <1>10, <2>1, <2>3
  <2>4. QED  BY <2>2, <2>3
<1>12. ToSet(r) = ToSet(s) \cup {e}
  <2>1. ASSUME NEW x \in ToSet(r) PROVE x \in ToSet(s) \cup {e}
    <3>1. PICK k \in 1..Len(r) : x = r[k]  BY <1>4 DEF ToSet
    <3>2. CASE k = i  BY <1>6, <3>1, <3>2
    <3>3. CASE k # i
      <4>1. x = s[from(k)] /\ from(k) \in 1..Len(s)  BY <1>5, <3>1, <3>3
      <4>2. QED  BY <1>4, <4>1 DEF ToSet
    <3>4. QED  BY <3>2, <3>3
  <2>2. ASSUME NEW x \in ToSet(s) PROVE x \in ToSet(r)
    <3>1. PICK k \in 1..Len(s) : x = s[k]  BY <1>4 DEF ToSet
    <3>2. PICK l \in 1..Len(r) : l # i /\ from(l) = k  BY <1>8
    <3>3. x = r[l]  BY <1>5, <3>1, <3>2
    <3>4. QED  BY <1>4, <3>3 DEF ToSet
  <2>3. e \in ToSet(r)  BY <1>4, <1>6 DEF ToSet
  <2>4. QED  BY <2>1, <2>2, <2>3
<1>13. Sorted(r)
  <2>0. e.size \in Nat  BY DEF Blocks
  <2>1. SUFFICES ASSUME NEW k \in 1..Len(r), NEW l \in 1..Len(r), k < l
                 PROVE  r[k].size <= r[l].size
    BY <1>4 DEF Sorted
  <2>2. CASE k # i /\ l # i
    <3>1. /\ from(k) \in 1..Len(s) /\ r[k] = s[from(k)]
          /\ from(l) \in 1..Len(s) /\ r[l] = s[from(l)] /\ from(k) < from(l)
      BY <1>5, <1>7, <2>1, <2>2
    <3>2. QED  BY <1>4, <3>1 DEF Sorted
  <2>3. CASE l = i
    <3>1. from(k) \in 1..Len(s) /\ r[k] = s[from(k)] /\ from(k) < i /\ r[l] = e
      BY <1>5, <1>6, <1>9, <2>1, <2>3
    <3>2. from(k) \in 1..(i - 1) /\ s[from(k)].size \in Nat  BY <1>4, <1>10, <3>1
    <3>3. ~(e.size <= s[from(k)].size)  BY <1>2, <3>2
    <3>4. QED  BY <2>0, <3>1, <3>2, <3>3
  <2>4. CASE k = i
    <3>1. from(l) \in 1..Len(s) /\ r[l] = s[from(l)] /\ from(l) >= i /\ r[k] = e
      BY <1>5, <1>6, <1>9, <2>1, <2>4
    <3>2. i \in 1..Len(s) /\ e.size <= s[i].size /\ s[i].size \in Nat /\ s[from(l)].size \in Nat
      BY <1>2, <1>4, <1>10, <3>1
    <3>3. s[i].size <= s[from(l)].size
      <4>1. CASE from(l) = i  BY <3>2, <4>1
      <4>2. CASE from(l) # i
        <5>1. i < from(l)  BY <1>4, <3>1, <3>2, <4>2
        <5>2. QED  BY <1>4, <3>1, <3>2, <5>1 DEF Sorted
      <4>3. QED  BY <4>1, <4>2
    <3>4. QED  BY <2>0, <3>1, <3>2, <3>3
  <2>5. QED  BY <2>2, <2>3, <2>4
<1>14. QED  BY <1>1, <1>3, <1>11, <1>12, <1>13 DEF r

-----------------------------------------------------------------------------
(* Tilings.                                                                  *)

(* A block is not apart from itself. *)
LEMMA ApartDiffers ==
    ASSUME NEW a \in Blocks, NEW b \in Blocks, Apart(a, b)
    PROVE  a # b
  BY DEF Blocks, Apart, End

(* The start of a free block is taken. *)
LEMMA TilingTake ==
    ASSUME NEW F, NEW U, NEW h \in [start : Nat, size : Nat], Tiling(F, U, h),
           NEW f \in F, NEW n \in Nat \ {0}, n <= f.size
    PROVE  LET b == [start |-> f.start, size |-> n]
               r == [start |-> f.start + n, size |-> f.size - n]
               G == IF f.size = n THEN F \ {f} ELSE (F \ {f}) \cup {r}
           IN  /\ Tiling(G, U \cup {b}, h) /\ b \in Blocks /\ b \notin U
               /\ f.size # n => r \in Blocks /\ r \notin F \ {f}
<1> DEFINE b == [start |-> f.start, size |-> n]
           r == [start |-> f.start + n, size |-> f.size - n]
           G == IF f.size = n THEN F \ {f} ELSE (F \ {f}) \cup {r}
<1>0. /\ b = [start |-> f.start, size |-> n]
      /\ r = [start |-> f.start + n, size |-> f.size - n]
      /\ G = IF f.size = n THEN F \ {f} ELSE (F \ {f}) \cup {r}
  OBVIOUS
<1> HIDE DEF b, r, G
<1> USE <1>0
<1> DEFINE V == U \cup {b}
<1>1. /\ F \subseteq Blocks /\ U \subseteq Blocks
      /\ \A x \in F \cup U : h.start <= x.start /\ End(x) <= End(h)
      /\ \A x, y \in F \cup U : x = y \/ Apart(x, y)
      /\ F \cap U = {}
  BY DEF Tiling
<1>2. /\ \A x \in F : x.start = h.start \/ \E y \in U : End(y) = x.start
      /\ \A x \in F : End(x) = End(h) \/ \E y \in U : y.start = End(x)
      /\ \E c \in F \cup U : c.start = h.start
      /\ \A x \in U : x.start = h.start \/ \E c \in F \cup U : End(c) = x.start
      /\ \A x \in U : End(x) = End(h) \/ \E c \in F \cup U : c.start = End(x)
  BY DEF Tiling
<1>3. f \in Blocks /\ f.start \in Nat /\ f.size \in Nat /\ f.size > 0  BY <1>1 DEF Blocks
<1>4. b \in Blocks /\ b.start = f.start /\ End(b) = f.start + n /\ End(f) = f.start + f.size
  BY <1>3 DEF Blocks, End
<1>5. f.size # n => /\ r \in Blocks /\ r.start = f.start + n /\ End(r) = End(f)
  BY <1>3 DEF Blocks, End
<1>6. ASSUME NEW x \in (F \ {f}) \cup U
      PROVE  /\ Apart(x, b) /\ Apart(b, x)
             /\ f.size # n => Apart(x, r) /\ Apart(r, x)
  <2>1. Apart(x, f) /\ x \in Blocks  BY <1>1
  <2>2. x.start \in Nat /\ End(x) \in Nat  BY <2>1 DEF Blocks, End
  <2>3. End(x) <= f.start \/ f.start + f.size <= x.start  BY <1>4, <2>1 DEF Apart
  <2>4. QED  BY <1>3, <1>4, <1>5, <2>2, <2>3 DEF Apart
<1>7. f.size # n => Apart(b, r) /\ Apart(r, b)  BY <1>3, <1>4, <1>5 DEF Apart
<1>8. /\ G \subseteq Blocks /\ V \subseteq Blocks
      /\ \A x \in G : x \in F \ {f} \/ (f.size # n /\ x = r)
      /\ F \ {f} \subseteq G /\ (f.size # n => r \in G)
  BY <1>1, <1>4, <1>5
<1>9. b \notin U /\ b \notin F \ {f}
  BY <1>1, <1>4, <1>6, ApartDiffers
<1>10. f.size # n => r \notin U /\ r \notin F \ {f} /\ r # b
  <2>1. SUFFICES ASSUME f.size # n PROVE r \notin U /\ r \notin F \ {f} /\ r # b
    OBVIOUS
  <2>2. r \in Blocks /\ Apart(b, r)  BY <1>5, <1>7, <2>1
  <2>3. r # b  BY <1>4, <2>2, ApartDiffers
  <2>4. ASSUME NEW x \in (F \ {f}) \cup U PROVE x # r
    <3>1. x \in Blocks /\ Apart(x, r)  BY <1>1, <1>6, <2>1
    <3>2. QED  BY <2>2, <3>1, ApartDiffers
  <2>5. QED  BY <2>3, <2>4
<1>11. \A x \in G \cup V : h.start <= x.start /\ End(x) <= End(h)
  <2>1. h.start <= f.start /\ End(f) <= End(h) /\ h.start \in Nat /\ End(h) \in Nat
    BY <1>1 DEF End
  <2>2. h.start <= b.start /\ End(b) <= End(h)  BY <1>3, <1>4, <2>1
  <2>3. f.size # n => h.start <= r.start /\ End(r) <= End(h)  BY <1>3, <1>4, <1>5, <2>1
  <2>4. QED  BY <1>1, <1>8, <2>2, <2>3
<1>12. \A x, y \in G \cup V : x = y \/ Apart(x, y)
  BY <1>1, <1>6, <1>7, <1>8
<1>13. G \cap V = {}
  BY <1>1, <1>8, <1>9, <1>10
<1>14. \A x \in G : x.start = h.start \/ \E y \in V : End(y) = x.start
  BY <1>2, <1>4, <1>5, <1>8
<1>15. \A x \in G : End(x) = End(h) \/ \E y \in V : y.start = End(x)
  BY <1>2, <1>5, <1>8
<1>16. \E c \in G \cup V : c.start = h.start
  <2>1. PICK c \in F \cup U : c.start = h.start  BY <1>2
  <2>2. CASE c = f  BY <1>4, <2>1, <2>2
  <2>3. CASE c # f  BY <1>8, <2>1, <2>3
  <2>4. QED  BY <2>2, <2>3
<1>17. ASSUME NEW x \in V PROVE x.start = h.start \/ \E c \in G \cup V : End(c) = x.start
  <2>1. CASE x = b
    <3>1. f.start = h.start \/ \E y \in U : End(y) = f.start  BY <1>2
    <3>2. QED  BY <1>4, <2>1, <3>1
  <2>2. CASE x \in U /\ x.start # h.start
    <3>1. PICK c \in F \cup U : End(c) = x.start  BY <1>2, <2>2
    <3>2. CASE c # f  BY <1>8, <3>1, <3>2
    <3>3. CASE c = f /\ f.size # n  BY <1>5, <1>8, <3>1, <3>3
    <3>4. CASE c = f /\ f.size = n  BY <1>4, <3>1, <3>4
    <3>5. QED  BY <3>2, <3>3, <3>4
  <2>3. QED  BY <2>1, <2>2
<1>18. ASSUME NEW x \in V PROVE End(x) = End(h) \/ \E c \in G \cup V : c.start = End(x)
  <2>1. CASE x = b
    <3>1. CASE f.size # n  BY <1>4, <1>5, <1>8, <2>1, <3>1
    <3>2. CASE f.size = n
      <4>1. End(b) = End(f)  BY <1>4, <3>2
      <4>2. QED  BY <1>2, <2>1, <4>1
    <3>3. QED  BY <3>1, <3>2
  <2>2. CASE x \in U /\ End(x) # End(h)
    <3>1. PICK c \in F \cup U : c.start = End(x)  BY <1>2, <2>2
    <3>2. CASE c # f  BY <1>8, <3>1, <3>2
    <3>3. CASE c = f  BY <1>4, <3>1, <3>3
    <3>4. QED  BY <3>2, <3>3
  <2>3. QED  BY <2>1, <2>2
<1>19. Tiling(G, V, h)
  BY <1>8, <1>11, <1>12, <1>13, <1>14, <1>15, <1>16, <1>17, <1>18 DEF Tiling
<1>20. QED  BY ONLY <1>4, <1>5, <1>9, <1>10, <1>19, Zenon DEF b, r, G, V

(* A block in use is given back and joined with its free neighbours. *)
LEMMA TilingGive ==
    ASSUME NEW F, NEW U, NEW h \in [start : Nat, size : Nat], Tiling(F, U, h), NEW b \in U,
           NEW s, \/ (\A f \in F : End(f) # b.start) /\ s = b.start
                  \/ \E f \in F : End(f) = b.start /\ s = f.start,
           NEW e, \/ (\A f \in F : f.start # End(b)) /\ e = End(b)
                  \/ \E f \in F : f.start = End(b) /\ e = End(f)
    PROVE  LET H == {f \in F : f.start # End(b) /\ End(f) # b.start}
               j == [start |-> s, size |-> e - s]
           IN  /\ Tiling(H \cup {j}, U \ {b}, h) /\ j \in Blocks /\ j \notin H
<1> DEFINE A == {f \in F : f.start = End(b)}
           B == {f \in F : End(f) = b.start}
           j == [start |-> s, size |-> e - s]
           H == {f \in F : f.start # End(b) /\ End(f) # b.start}
           G == H \cup {j}
           V == U \ {b}
<1>0. /\ A = {f \in F : f.start = End(b)}
      /\ B = {f \in F : End(f) = b.start}
      /\ j = [start |-> s, size |-> e - s]
      /\ H = F \ (A \cup B)
      /\ (B = {} /\ s = b.start) \/ \E f \in B : s = f.start
      /\ (A = {} /\ e = End(b)) \/ \E f \in A : e = End(f)
  OBVIOUS
<1> HIDE DEF A, B, j, H
<1> USE <1>0
<1>1. /\ F \subseteq Blocks /\ U \subseteq Blocks
      /\ \A x \in F \cup U : h.start <= x.start /\ End(x) <= End(h)
      /\ \A x, y \in F \cup U : x = y \/ Apart(x, y)
      /\ F \cap U = {}
  BY DEF Tiling
<1>2. /\ \A x \in F : x.start = h.start \/ \E y \in U : End(y) = x.start
      /\ \A x \in F : End(x) = End(h) \/ \E y \in U : y.start = End(x)
      /\ \E c \in F \cup U : c.start = h.start
      /\ \A x \in U : x.start = h.start \/ \E c \in F \cup U : End(c) = x.start
      /\ \A x \in U : End(x) = End(h) \/ \E c \in F \cup U : c.start = End(x)
  BY DEF Tiling
<1>3. ASSUME NEW x \in F \cup U
      PROVE  /\ x.start \in Nat /\ x.size \in Nat /\ End(x) \in Nat /\ x.start < End(x)
             /\ End(x) = x.start + x.size
  BY <1>1 DEF Blocks, End
<1>4. b.start \in Nat /\ End(b) \in Nat /\ b.start < End(b)  BY <1>3
<1>5. h.start \in Nat /\ End(h) \in Nat  BY DEF End
<1>6. ASSUME NEW x \in F \cup U, NEW y \in F \cup U, x # y
      PROVE  End(x) <= y.start \/ End(y) <= x.start
  BY <1>1, <1>6 DEF Apart
\* The joined block.
<1>7. /\ s \in Nat /\ s <= b.start /\ h.start <= s
      /\ \/ s = b.start /\ B = {}
         \/ \E f \in F : End(f) = b.start /\ s = f.start
  <2>1. CASE B = {} /\ s = b.start  BY <1>1, <1>4, <2>1
  <2>2. CASE \E f \in B : s = f.start
    <3>1. PICK f \in F : End(f) = b.start /\ s = f.start  BY <2>2
    <3>2. QED  BY <1>1, <1>3, <1>4, <3>1
  <2>3. QED  BY <2>1, <2>2
<1>8. /\ e \in Nat /\ End(b) <= e /\ e <= End(h)
      /\ \/ e = End(b) /\ A = {}
         \/ \E f \in F : f.start = End(b) /\ e = End(f)
  <2>1. CASE A = {} /\ e = End(b)  BY <1>1, <1>4, <2>1
  <2>2. CASE \E f \in A : e = End(f)
    <3>1. PICK f \in F : f.start = End(b) /\ e = End(f)  BY <2>2
    <3>2. QED  BY <1>1, <1>3, <1>4, <3>1
  <2>3. QED  BY <2>1, <2>2
<1>9. j \in Blocks /\ j.start = s /\ End(j) = e
  BY <1>4, <1>7, <1>8 DEF Blocks, End
<1>10. ASSUME NEW x \in H \cup V
       PROVE  End(x) <= s \/ e <= x.start
  <2>1. x \in F \cup U /\ x # b /\ x \notin A \cup B  BY <1>1
  <2>2. x.start \in Nat /\ End(x) \in Nat /\ x.start < End(x)  BY <1>3, <2>1
  <2>3. End(x) <= b.start \/ End(b) <= x.start  BY <1>6, <2>1
  <2>4. CASE End(x) <= b.start
    <3>1. CASE s = b.start  BY <2>4, <2>1, <3>1
    <3>2. CASE \E f \in F : End(f) = b.start /\ s = f.start
      <4>1. PICK f \in F : End(f) = b.start /\ s = f.start  BY <3>2
      <4>2. x # f  BY <2>1, <4>1
      <4>3. End(x) <= f.start \/ End(f) <= x.start  BY <1>6, <2>1, <4>2
      <4>4. End(x) <= s  BY <1>3, <1>4, <1>7, <2>2, <2>4, <4>1, <4>3
      <4>5. QED  BY <2>1, <4>4
    <3>3. QED  BY <1>7, <3>1, <3>2
  <2>5. CASE End(b) <= x.start
    <3>1. CASE e = End(b)  BY <2>5, <2>1, <3>1
    <3>2. CASE \E f \in F : f.start = End(b) /\ e = End(f)
      <4>1. PICK f \in F : f.start = End(b) /\ e = End(f)  BY <3>2
      <4>2. x # f  BY <2>1, <4>1
      <4>3. End(x) <= f.start \/ End(f) <= x.start  BY <1>6, <2>1, <4>2
      <4>4. e <= x.start  BY <1>3, <1>4, <1>8, <2>2, <2>5, <4>1, <4>3
      <4>5. QED  BY <2>1, <4>4
    <3>3. QED  BY <1>8, <3>1, <3>2
  <2>6. QED  BY <2>3, <2>4, <2>5
<1>11. ASSUME NEW x \in H \cup V PROVE Apart(x, j) /\ Apart(j, x) /\ x # j
  <2>1. Apart(x, j) /\ Apart(j, x)  BY <1>9, <1>10 DEF Apart
  <2>2. x \in Blocks  BY <1>1
  <2>3. QED  BY <1>9, <2>1, <2>2, ApartDiffers
<1>12. G \subseteq Blocks /\ V \subseteq Blocks  BY <1>1, <1>9
<1>13. \A x \in G \cup V : h.start <= x.start /\ End(x) <= End(h)  BY <1>1, <1>7, <1>8, <1>9
<1>14. \A x, y \in G \cup V : x = y \/ Apart(x, y)
  <2>1. \A x, y \in H \cup V : x = y \/ Apart(x, y)  BY <1>1
  <2>2. QED  BY <1>11, <2>1
<1>15. G \cap V = {}
  <2>1. H \cap V = {}  BY <1>1
  <2>2. QED  BY <1>11, <2>1
\* Before the joined block there is a block in use, and after it.
<1>16. s = h.start \/ \E y \in V : End(y) = s
  <2>1. CASE s = b.start /\ B = {}
    <3>1. SUFFICES ASSUME b.start # h.start PROVE \E y \in V : End(y) = s  BY <2>1
    <3>2. PICK c \in F \cup U : End(c) = b.start  BY <1>2, <3>1
    <3>3. c \notin F  BY <2>1, <3>2
    <3>4. c # b  BY <1>3, <3>2
    <3>5. QED  BY <2>1, <3>2, <3>3, <3>4
  <2>2. CASE \E f \in F : End(f) = b.start /\ s = f.start
    <3>1. PICK f \in F : End(f) = b.start /\ s = f.start  BY <2>2
    <3>2. SUFFICES ASSUME f.start # h.start PROVE \E y \in V : End(y) = s  BY <3>1
    <3>3. PICK y \in U : End(y) = f.start  BY <1>2, <3>2
    <3>4. y # b  BY <1>3, <1>4, <3>1, <3>3
    <3>5. QED  BY <3>1, <3>3, <3>4
  <2>3. QED  BY <1>7, <2>1, <2>2
<1>17. e = End(h) \/ \E y \in V : y.start = e
  <2>1. CASE e = End(b) /\ A = {}
    <3>1. SUFFICES ASSUME End(b) # End(h) PROVE \E y \in V : y.start = e  BY <2>1
    <3>2. PICK c \in F \cup U : c.start = End(b)  BY <1>2, <3>1
    <3>3. c \notin F  BY <2>1, <3>2
    <3>4. c # b  BY <1>3, <3>2
    <3>5. QED  BY <2>1, <3>2, <3>3, <3>4
  <2>2. CASE \E f \in F : f.start = End(b) /\ e = End(f)
    <3>1. PICK f \in F : f.start = End(b) /\ e = End(f)  BY <2>2
    <3>2. SUFFICES ASSUME End(f) # End(h) PROVE \E y \in V : y.start = e  BY <3>1
    <3>3. PICK y \in U : y.start = End(f)  BY <1>2, <3>2
    <3>4. y # b  BY <1>3, <1>4, <3>1, <3>3
    <3>5. QED  BY <3>1, <3>3, <3>4
  <2>3. QED  BY <1>8, <2>1, <2>2
<1>18. ASSUME NEW x \in G PROVE x.start = h.start \/ \E y \in V : End(y) = x.start
  <2>1. CASE x = j  BY <1>9, <1>16, <2>1
  <2>2. CASE x \in H /\ x.start # h.start
    <3>1. PICK y \in U : End(y) = x.start  BY <1>2, <2>2
    <3>2. y # b  BY <2>2, <3>1
    <3>3. QED  BY <3>1, <3>2
  <2>3. QED  BY <2>1, <2>2
<1>19. ASSUME NEW x \in G PROVE End(x) = End(h) \/ \E y \in V : y.start = End(x)
  <2>1. CASE x = j  BY <1>9, <1>17, <2>1
  <2>2. CASE x \in H /\ End(x) # End(h)
    <3>1. PICK y \in U : y.start = End(x)  BY <1>2, <2>2
    <3>2. y # b  BY <2>2, <3>1
    <3>3. QED  BY <3>1, <3>2
  <2>3. QED  BY <2>1, <2>2
\* A block that borders on one that was joined, borders on the joined block.
<1>20. ASSUME NEW c \in F \cup U, c \notin H \cup V, c.start = h.start
       PROVE  j.start = h.start
  <2>1. c = b \/ c \in A \/ c \in B  BY <1>20
  <2>2. CASE c = b  BY <1>4, <1>5, <1>7, <1>9, <1>20, <2>2
  <2>3. CASE c \in A
    <3>1. h.start = End(b) /\ h.start <= b.start  BY <1>1, <1>20, <2>3
    <3>2. QED  BY <1>4, <1>5, <3>1
  <2>4. CASE c \in B
    <3>1. c \in F /\ End(c) = b.start  BY <2>4
    <3>2. B # {}  BY <2>4
    <3>3. PICK f \in F : End(f) = b.start /\ s = f.start  BY <1>7, <3>2
    <3>4. f = c
      <4>1. f.start \in Nat /\ c.start \in Nat /\ End(f) = End(c) /\ End(f) \in Nat
            /\ f.start < End(f) /\ c.start < End(c)
        BY <1>3, <3>1, <3>3
      <4>2. QED  BY <1>6, <3>1, <3>3, <4>1
    <3>5. QED  BY <1>9, <1>20, <3>3, <3>4
  <2>5. QED  BY <2>1, <2>2, <2>3, <2>4
<1>21. ASSUME NEW c \in F \cup U, c \notin H \cup V, NEW x \in V, End(c) = x.start
       PROVE  End(j) = x.start
  <2>0. x \in U /\ x # b /\ x.start \in Nat /\ End(x) \in Nat /\ x.start < End(x)  BY <1>3
  <2>1. c = b \/ c \in A \/ c \in B  BY <1>21
  <2>2. CASE c = b
    <3>1. CASE e = End(b) /\ A = {}  BY <1>9, <1>21, <2>2, <3>1
    <3>2. CASE \E f \in F : f.start = End(b) /\ e = End(f)
      <4>1. PICK f \in F : f.start = End(b) /\ e = End(f)  BY <3>2
      <4>2. f # x /\ f.start = x.start /\ f.start < End(f) /\ f.start \in Nat /\ End(f) \in Nat
        BY <1>1, <1>3, <1>21, <2>0, <2>2, <4>1
      <4>3. End(f) <= x.start \/ End(x) <= f.start  BY <1>6, <2>0, <4>2
      <4>4. QED  BY <2>0, <4>2, <4>3
    <3>3. QED  BY <1>8, <3>1, <3>2
  <2>3. CASE c \in A
    <3>1. c \in F /\ c.start = End(b) /\ A # {}  BY <2>3
    <3>2. PICK f \in F : f.start = End(b) /\ e = End(f)  BY <1>8, <3>1
    <3>3. f = c
      <4>1. f.start \in Nat /\ End(f) \in Nat /\ End(c) \in Nat /\ f.start = c.start
            /\ f.start < End(f) /\ c.start < End(c)
        BY <1>3, <3>1, <3>2
      <4>2. QED  BY <1>6, <3>1, <3>2, <4>1
    <3>4. QED  BY <1>9, <1>21, <3>2, <3>3
  <2>4. CASE c \in B
    <3>1. b.start = x.start  BY <1>21, <2>4
    <3>2. End(b) <= x.start \/ End(x) <= b.start  BY <1>6, <2>0
    <3>3. QED  BY <1>4, <2>0, <3>1, <3>2
  <2>5. QED  BY <2>1, <2>2, <2>3, <2>4
<1>22. ASSUME NEW c \in F \cup U, c \notin H \cup V, NEW x \in V, c.start = End(x)
       PROVE  j.start = End(x)
  <2>0. x \in U /\ x # b /\ x.start \in Nat /\ End(x) \in Nat /\ x.start < End(x)  BY <1>3
  <2>1. c = b \/ c \in A \/ c \in B  BY <1>22
  <2>2. CASE c = b
    <3>1. CASE s = b.start /\ B = {}  BY <1>9, <1>22, <2>2, <3>1
    <3>2. CASE \E f \in F : End(f) = b.start /\ s = f.start
      <4>1. PICK f \in F : End(f) = b.start /\ s = f.start  BY <3>2
      <4>2. f # x /\ End(f) = End(x) /\ f.start < End(f) /\ f.start \in Nat /\ End(f) \in Nat
        BY <1>1, <1>3, <1>22, <2>0, <2>2, <4>1
      <4>3. End(f) <= x.start \/ End(x) <= f.start  BY <1>6, <2>0, <4>2
      <4>4. QED  BY <2>0, <4>2, <4>3
    <3>3. QED  BY <1>7, <3>1, <3>2
  <2>3. CASE c \in B
    <3>1. c \in F /\ End(c) = b.start /\ B # {}  BY <2>3
    <3>2. PICK f \in F : End(f) = b.start /\ s = f.start  BY <1>7, <3>1
    <3>3. f = c
      <4>1. f.start \in Nat /\ End(f) \in Nat /\ c.start \in Nat /\ End(f) = End(c)
            /\ f.start < End(f) /\ c.start < End(c)
        BY <1>3, <3>1, <3>2
      <4>2. QED  BY <1>6, <3>1, <3>2, <4>1
    <3>4. QED  BY <1>9, <1>22, <3>2, <3>3
  <2>4. CASE c \in A
    <3>1. End(b) = End(x)  BY <1>22, <2>4
    <3>2. End(b) <= x.start \/ End(x) <= b.start  BY <1>6, <2>0
    <3>3. QED  BY <1>4, <2>0, <3>1, <3>2
  <2>5. QED  BY <2>1, <2>2, <2>3, <2>4
<1>23. \E c \in G \cup V : c.start = h.start  BY <1>2, <1>20
<1>24. \A x \in V : x.start = h.start \/ \E c \in G \cup V : End(c) = x.start  BY <1>2, <1>21
<1>25. \A x \in V : End(x) = End(h) \/ \E c \in G \cup V : c.start = End(x)  BY <1>2, <1>22
<1>26. Tiling(G, V, h)
  BY <1>12, <1>13, <1>14, <1>15, <1>18, <1>19, <1>23, <1>24, <1>25 DEF Tiling
<1>27. QED  BY ONLY <1>9, <1>11, <1>26, Zenon DEF j, H, G, V

(* The gaps between the blocks in use are the free blocks. *)
LEMMA GapsAreFree ==
    ASSUME heap \in [start : Nat, size : Nat], Lists
    PROVE  Abstract!Gaps = ToSet(free)
<1> DEFINE F == ToSet(free)
           U == ToSet(used)
           Bounds == Abstract!Bounds
<1>1. Bounds = {heap.start, End(heap)} \cup {b.start : b \in U} \cup {End(b) : b \in U}
  BY DEF Abstract!Bounds, Abstract!End, End
<1>2. ASSUME NEW s, NEW e
      PROVE  Abstract!IsGap(s, e) <=>
                /\ s < e
                /\ \A b \in U : End(b) <= s \/ s + (e - s) <= b.start
                /\ s = heap.start \/ \E b \in U : End(b) = s
                /\ e = End(heap) \/ \E b \in U : b.start = e
  BY DEF Abstract!IsGap, Abstract!Apart, Abstract!End, Abstract!Gap, End
<1>3. Abstract!Gaps = {[start |-> p[1], size |-> p[2] - p[1]] :
                          p \in {q \in Bounds \X Bounds : Abstract!IsGap(q[1], q[2])}}
  BY DEF Abstract!Gaps, Abstract!Gap
<1> HIDE DEF Bounds
<1>4. CASE heap.size = 0
  <2>1. heap.start = 0 /\ End(heap) = 0 /\ F = {} /\ U = {}
    BY <1>4 DEF Lists, End, ToSet
  <2>2. \A s, e \in Bounds : s = 0 /\ e = 0  BY <1>1, <2>1
  <2>3. \A s, e \in Bounds : ~Abstract!IsGap(s, e)  BY <1>2, <2>2
  <2>4. Abstract!Gaps = {}  BY <1>3, <2>3
  <2>5. QED  BY <2>1, <2>4
<1>5. CASE heap.size # 0
  <2>0. Tiling(F, U, heap)  BY <1>5 DEF Lists
  <2> HIDE DEF F, U
  <2>1. /\ F \subseteq Blocks /\ U \subseteq Blocks
        /\ \A x \in F \cup U : heap.start <= x.start /\ End(x) <= End(heap)
        /\ \A x, y \in F \cup U : x = y \/ Apart(x, y)
        /\ F \cap U = {}
    BY <2>0 DEF Tiling
  <2>2. /\ \A x \in F : x.start = heap.start \/ \E y \in U : End(y) = x.start
        /\ \A x \in F : End(x) = End(heap) \/ \E y \in U : y.start = End(x)
        /\ \E c \in F \cup U : c.start = heap.start
        /\ \A x \in U : End(x) = End(heap) \/ \E c \in F \cup U : c.start = End(x)
    BY <2>0 DEF Tiling
  <2>3. ASSUME NEW x \in F \cup U
        PROVE  /\ x.start \in Nat /\ x.size \in Nat /\ End(x) \in Nat /\ x.start < End(x)
               /\ End(x) = x.start + x.size /\ x = [start |-> x.start, size |-> x.size]
    BY <2>1 DEF Blocks, End
  <2>4. ASSUME NEW x \in F, NEW y \in U PROVE End(y) <= x.start \/ End(x) <= y.start
    BY <2>1 DEF Apart
  <2>5. heap.start \in Nat /\ End(heap) \in Nat  BY DEF End
  <2>6. \A x \in Bounds : x \in Nat  BY <1>1, <2>3, <2>5
  <2>7. ASSUME NEW f \in F PROVE f \in Abstract!Gaps
    <3>1. f.start \in Bounds /\ End(f) \in Bounds  BY <1>1, <2>2
    <3>2. /\ f.start \in Nat /\ End(f) \in Nat /\ f.start < End(f)
          /\ f = [start |-> f.start, size |-> End(f) - f.start]
          /\ f.start + (End(f) - f.start) = End(f)
      <4>1. f = [start |-> f.start, size |-> f.size] /\ f.size = End(f) - f.start
        BY <2>3
      <4>2. QED  BY <2>3, <4>1
    <3>3. Abstract!IsGap(f.start, End(f))
      <4>1. \A b \in U : End(b) <= f.start \/ f.start + (End(f) - f.start) <= b.start
        BY <2>4, <3>2
      <4>2. QED  BY <1>2, <2>2, <3>2, <4>1
    <3> DEFINE p == <<f.start, End(f)>>
    <3>4. p \in {q \in Bounds \X Bounds : Abstract!IsGap(q[1], q[2])}  BY <3>1, <3>3
    <3>5. f = [start |-> p[1], size |-> p[2] - p[1]]  BY <3>2
    <3> HIDE DEF p
    <3>6. QED  BY <1>3, <3>4, <3>5
  <2>8. ASSUME NEW g \in Abstract!Gaps PROVE g \in F
    <3>1. PICK p \in {q \in Bounds \X Bounds : Abstract!IsGap(q[1], q[2])} :
             g = [start |-> p[1], size |-> p[2] - p[1]]
      BY <1>3
    <3>2. PICK s \in Bounds, e \in Bounds :
             Abstract!IsGap(s, e) /\ g = [start |-> s, size |-> e - s]
      BY <3>1
    <3>3. /\ s \in Nat /\ e \in Nat /\ s < e
          /\ \A b \in U : End(b) <= s \/ e <= b.start
          /\ s = heap.start \/ \E b \in U : End(b) = s
          /\ e = End(heap) \/ \E b \in U : b.start = e
      <4>1. s \in Nat /\ e \in Nat  BY <2>6
      <4>2. s + (e - s) = e  BY <4>1
      <4>3. QED  BY <1>2, <3>2, <4>1, <4>2
    <3>4. PICK f \in F : f.start = s
      <4>1. \E c \in F \cup U : c.start = s
        <5>1. CASE s = heap.start  BY <2>2, <5>1
        <5>2. CASE \E b \in U : End(b) = s
          <6>1. PICK b \in U : End(b) = s  BY <5>2
          <6>2. End(b) # End(heap)
            <7>1. e <= End(heap)  BY <2>1, <2>3, <2>5, <3>3
            <7>2. QED  BY <2>5, <3>3, <6>1, <7>1
          <6>3. QED  BY <2>2, <6>1, <6>2
        <5>3. QED  BY <3>3, <5>1, <5>2
      <4>2. PICK c \in F \cup U : c.start = s  BY <4>1
      <4>3. c \notin U  BY <2>3, <3>3, <4>2
      <4>4. QED  BY <4>2, <4>3
    <3>5. End(f) = e
      <4>0. f.start \in Nat /\ End(f) \in Nat /\ f.start < End(f) /\ End(f) <= End(heap)
        BY <2>1, <2>3
      <4>1. ~(e < End(f))
        <5>1. SUFFICES ASSUME e < End(f) PROVE FALSE  OBVIOUS
        <5>2. PICK b \in U : b.start = e  BY <2>5, <3>3, <4>0, <5>1
        <5>3. End(b) <= f.start \/ End(f) <= b.start  BY <2>4
        <5>4. b.start \in Nat /\ End(b) \in Nat /\ b.start < End(b)  BY <2>3
        <5>5. QED  BY <3>3, <3>4, <4>0, <5>1, <5>2, <5>3, <5>4
      <4>2. ~(End(f) < e)
        <5>1. SUFFICES ASSUME End(f) < e PROVE FALSE  OBVIOUS
        <5>2. e <= End(heap)  BY <2>1, <2>3, <2>5, <3>3
        <5>3. PICK b \in U : b.start = End(f)  BY <2>2, <2>5, <3>3, <4>0, <5>1, <5>2
        <5>4. End(b) <= s \/ e <= b.start  BY <3>3
        <5>5. b.start \in Nat /\ End(b) \in Nat /\ b.start < End(b)  BY <2>3
        <5>6. QED  BY <3>3, <3>4, <4>0, <5>1, <5>3, <5>4, <5>5
      <4>3. QED  BY <3>3, <4>0, <4>1, <4>2
    <3>6. f = g
      <4>1. f = [start |-> f.start, size |-> f.size] /\ f.size = End(f) - f.start  BY <2>3
      <4>2. QED  BY <3>2, <3>4, <3>5, <4>1
    <3>7. QED  BY <3>6
  <2>9. QED  BY <2>7, <2>8 DEF F
<1>6. QED  BY <1>4, <1>5

(* A list of different blocks has as many as its set. *)
LEMMA LengthIsSize ==
    ASSUME NEW s \in Seq(Blocks), Distinct(s)
    PROVE  IsFiniteSet(ToSet(s)) /\ Cardinality(ToSet(s)) = Len(s)
<1>1. Len(s) \in Nat /\ DOMAIN s = 1..Len(s)  OBVIOUS
<1>2. IsFiniteSet(1..Len(s)) /\ Cardinality(1..Len(s)) = Len(s)
  BY <1>1, FS_Interval
<1>3. s \in [1..Len(s) -> ToSet(s)]  BY <1>1 DEF ToSet
<1>4. s \in Injection(1..Len(s), ToSet(s))
  BY <1>1, <1>3 DEF Distinct, Injection, IsInjective
<1>5. s \in Surjection(1..Len(s), ToSet(s))
  BY <1>1, <1>3 DEF ToSet, Surjection
<1>6. s \in Bijection(1..Len(s), ToSet(s))  BY <1>4, <1>5 DEF Bijection
<1>7. ExistsBijection(1..Len(s), ToSet(s))  BY <1>6 DEF ExistsBijection
<1>8. QED  BY <1>2, <1>7, FS_Bijection

(* There is at most one free block more than there are blocks in use. *)
LEMMA FewFree ==
    ASSUME heap \in [start : Nat, size : Nat], Lists, heap.size # 0
    PROVE  Len(free) <= Len(used) + 1
<1> DEFINE F == ToSet(free)
           U == ToSet(used)
           T == {End(b) : b \in U}
           Starts == T \cup {heap.start}
<1>1. /\ IsFiniteSet(F) /\ Cardinality(F) = Len(free)
      /\ IsFiniteSet(U) /\ Cardinality(U) = Len(used)
  BY LengthIsSize DEF Lists
<1>2. Tiling(F, U, heap)  BY DEF Lists
<1>3. Len(free) \in Nat /\ Len(used) \in Nat  BY DEF Lists
<1> HIDE DEF F, U
<1>4. IsFiniteSet(T) /\ Cardinality(T) <= Cardinality(U)
  <2> DEFINE f == [b \in U |-> End(b)]
  <2>1. f \in Surjection(U, T)  BY DEF Surjection
  <2> HIDE DEF f, T
  <2>2. QED  BY <1>1, <2>1, FS_Surjection
<1>5. /\ IsFiniteSet(Starts) /\ Cardinality(Starts) <= Cardinality(U) + 1
      /\ Cardinality(Starts) \in Nat
  <2> HIDE DEF T
  <2>1. Cardinality(T) \in Nat /\ Cardinality(U) \in Nat  BY <1>1, <1>4, FS_CardinalityType
  <2>2. IsFiniteSet(Starts) /\ Cardinality(Starts) \in {Cardinality(T), Cardinality(T) + 1}
    BY <1>4, FS_AddElement
  <2>3. QED  BY <1>4, <2>1, <2>2
<1> DEFINE g == [x \in F |-> x.start]
<1>6. g \in Injection(F, Starts)
  <2>1. \A x \in F : x.start \in Starts  BY <1>2 DEF Tiling
  <2>2. \A x, y \in F : x.start = y.start => x = y
    <3>1. SUFFICES ASSUME NEW x \in F, NEW y \in F, x.start = y.start, x # y PROVE FALSE
      OBVIOUS
    <3>2. Apart(x, y) /\ x \in Blocks /\ y \in Blocks  BY <1>2, <3>1 DEF Tiling
    <3>3. QED  BY <3>1, <3>2 DEF Apart, End, Blocks
  <2> HIDE DEF Starts
  <2>3. g \in [F -> Starts]  BY <2>1
  <2>4. QED  BY <2>2, <2>3 DEF Injection, IsInjective
<1> HIDE DEF g, Starts
<1>7. Cardinality(F) <= Cardinality(Starts)  BY <1>5, <1>6, FS_Injection
<1>8. QED  BY <1>1, <1>3, <1>5, <1>7

-----------------------------------------------------------------------------
(* The steps of the heap.                                                    *)

(* A block put at the head of a list of others (the list of blocks in use). *)
LEMMA ConsKeeps ==
    ASSUME NEW s \in Seq(Blocks), Distinct(s), NEW e \in Blocks, e \notin ToSet(s)
    PROVE  LET r == <<e>> \o s IN
           /\ r \in Seq(Blocks) /\ Len(r) = Len(s) + 1
           /\ Distinct(r) /\ ToSet(r) = ToSet(s) \cup {e}
<1> DEFINE r == <<e>> \o s
<1>1. /\ r \in Seq(Blocks) /\ Len(r) = Len(s) + 1 /\ Len(s) \in Nat
      /\ DOMAIN r = 1..Len(r) /\ DOMAIN s = 1..Len(s)
      /\ \A k \in 1..(Len(s) + 1) : r[k] = IF k = 1 THEN e ELSE s[k - 1]
  OBVIOUS
<1> HIDE DEF r
<1>2. \A k \in 1..Len(s) : s[k] # e  BY <1>1 DEF ToSet
<1>3. r[1] = e /\ \A k \in 1..Len(s) : k + 1 \in 1..Len(r) /\ r[k + 1] = s[k]  BY <1>1
<1>4. \A k \in 1..Len(r) : k # 1 => k - 1 \in 1..Len(s) /\ r[k] = s[k - 1]  BY <1>1
<1>5. Distinct(r)
  <2>1. SUFFICES ASSUME NEW k \in 1..Len(r), NEW l \in 1..Len(r), r[k] = r[l] PROVE k = l
    BY <1>1 DEF Distinct
  <2>2. CASE k # 1 /\ l # 1
    <3>1. s[k - 1] = s[l - 1] /\ k - 1 \in 1..Len(s) /\ l - 1 \in 1..Len(s)  BY <1>4, <2>1, <2>2
    <3>2. k - 1 = l - 1  BY <1>1, <3>1 DEF Distinct
    <3>3. QED  BY <1>1, <3>2
  <2>3. CASE k = 1 /\ l # 1  BY <1>2, <1>3, <1>4, <2>1, <2>3
  <2>4. CASE k # 1 /\ l = 1  BY <1>2, <1>3, <1>4, <2>1, <2>4
  <2>5. QED  BY <2>2, <2>3, <2>4
<1>6. ToSet(r) = ToSet(s) \cup {e}
  <2>1. ASSUME NEW x \in ToSet(r) PROVE x \in ToSet(s) \cup {e}
    <3>1. PICK k \in 1..Len(r) : x = r[k]  BY <1>1 DEF ToSet
    <3>2. QED  BY <1>1, <1>3, <1>4, <3>1 DEF ToSet
  <2>2. ASSUME NEW x \in ToSet(s) PROVE x \in ToSet(r)
    <3>1. PICK k \in 1..Len(s) : x = s[k]  BY <1>1 DEF ToSet
    <3>2. QED  BY <1>1, <1>3, <3>1 DEF ToSet
  <2>3. e \in ToSet(r)
    <3>1. 1 \in DOMAIN r  BY <1>1
    <3>2. QED  BY <1>3, <3>1 DEF ToSet
  <2>4. QED  BY <2>1, <2>2, <2>3
<1>7. QED  BY <1>1, <1>5, <1>6 DEF r

(* ASSIGNED_FOR_1024BYTE never rounds to 0. *)
LEMMA AssignedPositive ==
    ASSUME NEW sz \in Wanted
    PROVE  Assigned(sz) \in Nat \ {0}
<1> DEFINE s == sz + BlockUnit - 1
<1>1. s \in Nat /\ s < W /\ W \in Nat \ {0} /\ sz \in Nat /\ BlockUnit \in Nat \ {0}
  BY PromAssumption, SieHeapAssumption
<1>2. Wrap(s) = s  BY <1>1, ModRange DEF Wrap
<1>3. Assigned(sz) = IF sz = 0 THEN BlockUnit ELSE s - (s % BlockUnit)
  BY <1>2 DEF Assigned
<1>4. s % BlockUnit \in Nat /\ s % BlockUnit < BlockUnit /\ s % BlockUnit <= s
  BY <1>1, ModRange
<1>5. sz # 0 => s >= BlockUnit  BY <1>1
<1> HIDE DEF s
<1>6. QED  BY <1>1, <1>3, <1>4, <1>5

(* sie_malloc takes the block from a smallest free block that holds it, and  *)
(* keeps the lists in order.                                                 *)
LEMMA TakeKeeps ==
    ASSUME heap \in [start : Nat, size : Nat], Lists, NEW n \in Nat \ {0},
           MallocTakes(n), UNCHANGED heap
    PROVE  /\ Lists'
           /\ \E f \in ToSet(free) :
                /\ n <= f.size
                /\ \A h \in ToSet(free) : n <= h.size => f.size <= h.size
                /\ ToSet(used') = ToSet(used) \cup {[start |-> f.start, size |-> n]}
                /\ answer' = <<"malloc", f.start>>
<1> DEFINE i == find_fit_frag(n)
           f == free[i]
           b == [start |-> f.start, size |-> n]
           r == [start |-> f.start + n, size |-> f.size - n]
           F == ToSet(free)
           U == ToSet(used)
           G == IF f.size = n THEN F \ {f} ELSE (F \ {f}) \cup {r}
           rest == RemoveAt(free, i)
<1>1. /\ free \in Seq(Blocks) /\ used \in Seq(Blocks) /\ spare \in Nat
      /\ Distinct(free) /\ Distinct(used) /\ Sorted(free)
      /\ DOMAIN free = 1..Len(free) /\ Len(free) \in Nat /\ Len(used) \in Nat
  BY DEF Lists
<1>2. i # 0 /\ spare > 0  BY DEF MallocTakes
<1>3. /\ i \in 1..Len(free) /\ n <= f.size
      /\ \A k \in 1..Len(free) : n <= free[k].size => i <= k
  <2> HIDE DEF f
  <2>1. /\ i # 0 => /\ i \in 1..Len(free) /\ n <= free[i].size
                    /\ \A k \in 1..Len(free) : n <= free[k].size => i <= k
    BY <1>1, FitIs
  <2>2. QED  BY <1>2, <2>1 DEF f
<1>4. /\ used' = <<b>> \o used
      /\ free' = IF f.size = n THEN rest ELSE add_into_free_list(rest, r)
      /\ spare' = IF f.size = n THEN spare ELSE spare - 1
      /\ answer' = <<"malloc", f.start>>
  BY DEF MallocTakes, Block
<1> HIDE DEF i
<1>5. f \in F /\ f \in Blocks /\ f.start \in Nat /\ f.size \in Nat
  <2>1. f \in Blocks  BY <1>1, <1>3
  <2>2. QED  BY <1>1, <1>3, <2>1 DEF ToSet, Blocks
<1>6. heap.size # 0
  <2>1. free # <<>>  BY <1>1, <1>3
  <2>2. QED  BY <2>1 DEF Lists
<1>7. /\ heap.size = SILAN_MALLOC_SIZE /\ Tiling(F, U, heap)
      /\ spare + Len(free) + Len(used) = TOTAL_RAM_FRAG
  BY <1>6 DEF Lists
<1>8. /\ rest \in Seq(Blocks) /\ Len(rest) = Len(free) - 1 /\ Distinct(rest)
      /\ ToSet(rest) = F \ {f} /\ Sorted(rest)
  BY <1>1, <1>3, RemoveKeeps
<1> HIDE DEF F, U, f, rest
<1>9. /\ Tiling(G, U \cup {b}, heap) /\ b \in Blocks /\ b \notin U
      /\ f.size # n => r \in Blocks /\ r \notin F \ {f}
  <2>1. heap \in [start : Nat, size : Nat] /\ Tiling(F, U, heap) /\ f \in F /\ n <= f.size
    BY <1>3, <1>5, <1>7
  <2>2. n \in Nat \ {0}  OBVIOUS
  <2>3. QED  BY ONLY <2>1, <2>2, TilingTake, Zenon DEF b, r, G
<1>10. /\ used' \in Seq(Blocks) /\ Len(used') = Len(used) + 1 /\ Distinct(used')
       /\ ToSet(used') = U \cup {b}
  <2> HIDE DEF b
  <2>1. QED  BY <1>1, <1>4, <1>9, ConsKeeps DEF U
<1>11. /\ free' \in Seq(Blocks) /\ Distinct(free') /\ Sorted(free') /\ ToSet(free') = G
       /\ spare' \in Nat /\ spare' + Len(free') + Len(used') = TOTAL_RAM_FRAG
  <2>1. CASE f.size = n
    <3>1. free' = rest /\ spare' = spare /\ G = F \ {f}  BY <1>4, <2>1
    <3>2. spare' + Len(free') + Len(used') = TOTAL_RAM_FRAG
      <4>1. Len(free') = Len(free) - 1 /\ Len(used') = Len(used) + 1 /\ spare' = spare
        BY <1>8, <1>10, <3>1
      <4>2. QED  BY ONLY <1>1, <1>7, <4>1
    <3>3. QED  BY <1>1, <1>8, <3>1, <3>2
  <2>2. CASE f.size # n
    <3>1. free' = add_into_free_list(rest, r) /\ spare' = spare - 1 /\ G = (F \ {f}) \cup {r}
          /\ r \in Blocks /\ r \notin ToSet(rest)
      BY <1>4, <1>8, <1>9, <2>2
    <3> HIDE DEF r, G
    <3>2. /\ free' \in Seq(Blocks) /\ Len(free') = Len(rest) + 1 /\ Distinct(free')
          /\ ToSet(free') = ToSet(rest) \cup {r} /\ Sorted(free')
      BY <1>8, <3>1, AddKeeps
    <3>3. ToSet(free') = G  BY <1>8, <3>1, <3>2
    <3>4. spare' \in Nat /\ spare' + Len(free') + Len(used') = TOTAL_RAM_FRAG
      <4>1. Len(free') = Len(free) /\ Len(used') = Len(used) + 1 /\ spare' = spare - 1
        BY <1>1, <1>8, <1>10, <3>1, <3>2
      <4>2. QED  BY ONLY <1>1, <1>2, <1>7, <4>1
    <3>5. QED  BY <3>2, <3>3, <3>4
  <2>3. QED  BY <2>1, <2>2
<1>12. Lists'
  <2>1. heap' = heap  OBVIOUS
  <2> HIDE DEF b, r, G
  <2>2. Tiling(ToSet(free'), ToSet(used'), heap')  BY <1>9, <1>10, <1>11, <2>1
  <2>3. QED  BY <1>6, <1>7, <1>10, <1>11, <2>1, <2>2 DEF Lists
<1>13. ASSUME NEW h \in F, n <= h.size PROVE f.size <= h.size
  <2>1. PICK k \in 1..Len(free) : h = free[k]  BY <1>1 DEF F, ToSet
  <2>2. i <= k  BY <1>3, <1>13, <2>1
  <2>3. CASE i = k  BY <1>5, <2>1, <2>3 DEF f
  <2>4. CASE i < k  BY <1>1, <1>3, <2>1, <2>4 DEF f, Sorted
  <2>5. QED  BY <1>3, <2>2, <2>3, <2>4
<1>14. QED  BY <1>3, <1>4, <1>5, <1>10, <1>12, <1>13 DEF F, U

(* The free list without the block right after b, and what that block ends at. *)
LEMMA DropAfter ==
    ASSUME NEW s \in Seq(Blocks), Distinct(s), Sorted(s), NEW b \in Blocks,
           \A x, y \in ToSet(s) : x.start = y.start => x = y
    PROVE  LET i == BlockAfter(s, b)
               e == End(b) + SizeOf(s, i)
               r == Without(s, i)
           IN  /\ r \in Seq(Blocks) /\ Distinct(r) /\ Sorted(r) /\ Len(r) <= Len(s)
               /\ ToSet(r) = {f \in ToSet(s) : f.start # End(b)}
               /\ \/ (\A f \in ToSet(s) : f.start # End(b)) /\ e = End(b)
                  \/ \E f \in ToSet(s) : f.start = End(b) /\ e = End(f)
               /\ SizeOf(s, i) \in Nat
<1> DEFINE i == BlockAfter(s, b)
           e == End(b) + SizeOf(s, i)
           r == Without(s, i)
<1>1. /\ i = 0 => \A k \in 1..Len(s) : s[k].start # End(b)
      /\ i # 0 => i \in 1..Len(s) /\ s[i].start = End(b)
  BY AfterIs
<1>2. DOMAIN s = 1..Len(s) /\ Len(s) \in Nat /\ End(b) \in Nat  BY DEF Blocks, End
<1>3. e = End(b) + (IF i = 0 THEN 0 ELSE s[i].size) /\ r = IF i = 0 THEN s ELSE RemoveAt(s, i)
  BY DEF SizeOf, Without
<1>4. SizeOf(s, i) = IF i = 0 THEN 0 ELSE s[i].size  BY DEF SizeOf
<1> HIDE DEF i, e, r
<1>5. CASE i = 0
  <2>1. \A f \in ToSet(s) : f.start # End(b)  BY <1>1, <1>2, <1>5 DEF ToSet
  <2>2. e = End(b) /\ r = s /\ SizeOf(s, i) \in Nat  BY <1>2, <1>3, <1>4, <1>5
  <2>3. ToSet(r) = {f \in ToSet(s) : f.start # End(b)}  BY <2>1, <2>2
  <2>4. QED  BY <1>2, <2>1, <2>2, <2>3 DEF i, e, r
<1>6. CASE i # 0
  <2>1. i \in 1..Len(s) /\ s[i].start = End(b) /\ s[i] \in Blocks /\ s[i] \in ToSet(s)
    BY <1>1, <1>2, <1>6 DEF ToSet
  <2>2. e = End(s[i]) /\ r = RemoveAt(s, i) /\ SizeOf(s, i) \in Nat
    BY <1>3, <1>4, <1>6, <2>1 DEF End, Blocks
  <2>3. /\ r \in Seq(Blocks) /\ Len(r) = Len(s) - 1 /\ Distinct(r) /\ Sorted(r)
        /\ ToSet(r) = ToSet(s) \ {s[i]}
    BY <2>1, <2>2, RemoveKeeps
  <2>4. ToSet(r) = {f \in ToSet(s) : f.start # End(b)}  BY <2>1, <2>3
  <2>5. Len(r) <= Len(s)  BY <1>2, <2>3
  <2>6. \E f \in ToSet(s) : f.start = End(b) /\ e = End(f)  BY <2>1, <2>2
  <2>7. QED  BY <2>2, <2>3, <2>4, <2>5, <2>6 DEF i, e, r
<1>7. QED  BY <1>5, <1>6

(* The same for the block right before b. *)
LEMMA DropBefore ==
    ASSUME NEW s \in Seq(Blocks), Distinct(s), Sorted(s), NEW b \in Blocks,
           \A x, y \in ToSet(s) : End(x) = End(y) => x = y
    PROVE  LET i == BlockBefore(s, b)
               t == IF i = 0 THEN b.start ELSE s[i].start
               r == Without(s, i)
           IN  /\ r \in Seq(Blocks) /\ Distinct(r) /\ Sorted(r) /\ Len(r) <= Len(s)
               /\ ToSet(r) = {f \in ToSet(s) : End(f) # b.start}
               /\ \/ (\A f \in ToSet(s) : End(f) # b.start) /\ t = b.start
                  \/ \E f \in ToSet(s) : End(f) = b.start /\ t = f.start
               /\ SizeOf(s, i) \in Nat /\ t \in Nat /\ t + SizeOf(s, i) = b.start
<1> DEFINE i == BlockBefore(s, b)
           t == IF i = 0 THEN b.start ELSE s[i].start
           r == Without(s, i)
<1>1. /\ i = 0 => \A k \in 1..Len(s) : End(s[k]) # b.start
      /\ i # 0 => i \in 1..Len(s) /\ End(s[i]) = b.start
  BY BeforeIs
<1>2. DOMAIN s = 1..Len(s) /\ Len(s) \in Nat /\ b.start \in Nat  BY DEF Blocks
<1>3. t = (IF i = 0 THEN b.start ELSE s[i].start) /\ r = IF i = 0 THEN s ELSE RemoveAt(s, i)
  BY DEF Without
<1>4. SizeOf(s, i) = IF i = 0 THEN 0 ELSE s[i].size  BY DEF SizeOf
<1> HIDE DEF i, t, r
<1>5. CASE i = 0
  <2>1. \A f \in ToSet(s) : End(f) # b.start  BY <1>1, <1>2, <1>5 DEF ToSet
  <2>2. t = b.start /\ r = s /\ SizeOf(s, i) = 0  BY <1>3, <1>4, <1>5
  <2>3. ToSet(r) = {f \in ToSet(s) : End(f) # b.start}  BY <2>1, <2>2
  <2>4. SizeOf(s, i) \in Nat /\ t \in Nat /\ t + SizeOf(s, i) = b.start  BY <1>2, <2>2
  <2>5. QED  BY <1>2, <2>1, <2>2, <2>3, <2>4 DEF i, t, r
<1>6. CASE i # 0
  <2>1. i \in 1..Len(s) /\ End(s[i]) = b.start /\ s[i] \in Blocks /\ s[i] \in ToSet(s)
    BY <1>1, <1>2, <1>6 DEF ToSet
  <2>2. t = s[i].start /\ r = RemoveAt(s, i) /\ SizeOf(s, i) = s[i].size
    BY <1>3, <1>4, <1>6
  <2>3. /\ r \in Seq(Blocks) /\ Len(r) = Len(s) - 1 /\ Distinct(r) /\ Sorted(r)
        /\ ToSet(r) = ToSet(s) \ {s[i]}
    BY <2>1, <2>2, RemoveKeeps
  <2>4. ToSet(r) = {f \in ToSet(s) : End(f) # b.start}  BY <2>1, <2>3
  <2>5. Len(r) <= Len(s)  BY <1>2, <2>3
  <2>6. \E f \in ToSet(s) : End(f) = b.start /\ t = f.start  BY <2>1, <2>2
  <2>7. SizeOf(s, i) \in Nat /\ t \in Nat /\ t + SizeOf(s, i) = b.start
    BY <2>1, <2>2 DEF End, Blocks
  <2>8. QED  BY <2>3, <2>4, <2>5, <2>6, <2>7 DEF i, t, r
<1>7. QED  BY <1>5, <1>6

(* sie_free gives up exactly the block that starts at the address, joins it  *)
(* with its free neighbours, and keeps the lists in order.                   *)
LEMMA GiveKeeps ==
    ASSUME heap \in [start : Nat, size : Nat], Lists, NEW addr, FreeBlock(addr), UNCHANGED heap
    PROVE  /\ Lists'
           /\ \E b \in ToSet(used) : ToSet(used') = ToSet(used) \ {b}
           /\ answer' = <<"free", NONE_ERR>>
<1> DEFINE k == SelectInSeq(used, LAMBDA x : x.start = addr)
           b == used[k]
           i == BlockAfter(free, b)
           rest == Without(free, i)
           m == BlockBefore(rest, b)
           others == Without(rest, m)
           s == IF m = 0 THEN b.start ELSE rest[m].start
           e == End(b) + SizeOf(free, i)
           F == ToSet(free)
           U == ToSet(used)
           H == {f \in F : f.start # End(b) /\ End(f) # b.start}
           j == [start |-> s, size |-> e - s]
<1>1. /\ free \in Seq(Blocks) /\ used \in Seq(Blocks) /\ spare \in Nat
      /\ Distinct(free) /\ Distinct(used) /\ Sorted(free)
      /\ DOMAIN used = 1..Len(used) /\ Len(free) \in Nat /\ Len(used) \in Nat
  BY DEF Lists
<1>2. k \in 1..Len(used) /\ b.start = addr
  <2>1. k # 0  BY DEF FreeBlock
  <2>2. k # 0 => k \in 1..Len(used) /\ b.start = addr  BY <1>1, UsedIs
  <2>3. QED  BY <2>1, <2>2
<1>3. /\ used' = RemoveAt(used, k) /\ spare' = spare + Len(free) - Len(others)
      /\ free' = add_into_free_list(others,
                     [start |-> s, size |-> b.size + SizeOf(free, i) + SizeOf(rest, m)])
      /\ answer' = <<"free", NONE_ERR>>
  BY <1>2 DEF FreeBlock, Block
<1> HIDE DEF k
<1>4. b \in Blocks /\ b \in U /\ b.start \in Nat /\ b.size \in Nat /\ End(b) = b.start + b.size
      /\ End(b) \in Nat /\ b.start < End(b)
  <2>1. b \in Blocks  BY <1>1, <1>2
  <2>2. b \in U  BY <1>1, <1>2 DEF ToSet
  <2> HIDE DEF b, U
  <2>3. QED  BY <2>1, <2>2 DEF Blocks, End
<1>5. heap.size # 0
  <2>1. used # <<>>  BY <1>1, <1>2
  <2>2. QED  BY <2>1 DEF Lists
<1>6. /\ heap.size = SILAN_MALLOC_SIZE /\ Tiling(F, U, heap)
      /\ spare + Len(free) + Len(used) = TOTAL_RAM_FRAG
  BY <1>5 DEF Lists
<1>7. /\ used' \in Seq(Blocks) /\ Len(used') = Len(used) - 1 /\ Distinct(used')
      /\ ToSet(used') = U \ {b}
  BY <1>1, <1>2, <1>3, RemoveKeeps
<1> HIDE DEF b
<1>8. \A x, y \in F : (x.start = y.start => x = y) /\ (End(x) = End(y) => x = y)
  <2>1. SUFFICES ASSUME NEW x \in F, NEW y \in F PROVE x = y \/ (x.start # y.start /\ End(x) # End(y))
    OBVIOUS
  <2>2. x \in Blocks /\ y \in Blocks /\ (x = y \/ Apart(x, y))  BY <1>6 DEF Tiling
  <2>3. QED  BY <2>2 DEF Apart, End, Blocks
<1>9. /\ rest \in Seq(Blocks) /\ Distinct(rest) /\ Sorted(rest) /\ Len(rest) <= Len(free)
      /\ ToSet(rest) = {f \in F : f.start # End(b)}
      /\ \/ (\A f \in F : f.start # End(b)) /\ e = End(b)
         \/ \E f \in F : f.start = End(b) /\ e = End(f)
      /\ SizeOf(free, i) \in Nat
  BY <1>1, <1>4, <1>8, DropAfter
<1> DEFINE n == SizeOf(free, i)
<1> HIDE DEF rest, i
<1>10. \A x, y \in ToSet(rest) : End(x) = End(y) => x = y  BY <1>8, <1>9
<1>11. /\ others \in Seq(Blocks) /\ Distinct(others) /\ Sorted(others) /\ Len(others) <= Len(rest)
       /\ ToSet(others) = {f \in ToSet(rest) : End(f) # b.start}
       /\ \/ (\A f \in ToSet(rest) : End(f) # b.start) /\ s = b.start
          \/ \E f \in ToSet(rest) : End(f) = b.start /\ s = f.start
       /\ SizeOf(rest, m) \in Nat /\ s \in Nat /\ s + SizeOf(rest, m) = b.start
  BY <1>4, <1>9, <1>10, DropBefore
<1> HIDE DEF others, s, m
<1>12. ToSet(others) = H  BY <1>9, <1>11
<1>13. \/ (\A f \in F : End(f) # b.start) /\ s = b.start
       \/ \E f \in F : End(f) = b.start /\ s = f.start
  <2>1. ASSUME NEW f \in F, End(f) = b.start PROVE f \in ToSet(rest)
    <3>1. f.start \in Nat /\ f.start < End(f)
      <4>1. f \in Blocks  BY <1>6 DEF Tiling
      <4>2. QED  BY <4>1 DEF Blocks, End
    <3>2. f.start # End(b)  BY <1>4, <2>1, <3>1
    <3>3. QED  BY <1>9, <3>2
  <2>2. CASE \E f \in ToSet(rest) : End(f) = b.start /\ s = f.start  BY <1>9, <2>2
  <2>3. CASE (\A f \in ToSet(rest) : End(f) # b.start) /\ s = b.start  BY <2>1, <2>3
  <2>4. QED  BY <1>11, <2>2, <2>3
<1>14. b.size + SizeOf(free, i) + SizeOf(rest, m) = e - s
  <2>1. e = End(b) + SizeOf(free, i)  OBVIOUS
  <2>2. PICK x \in Nat, y \in Nat : x = SizeOf(free, i) /\ y = SizeOf(rest, m)
    BY <1>9, <1>11
  <2>3. e = b.start + b.size + x /\ s + y = b.start  BY <1>4, <1>11, <2>1, <2>2
  <2> HIDE DEF e
  <2>4. b.start \in Nat /\ b.size \in Nat /\ s \in Nat  BY <1>4, <1>11
  <2>5. b.size + x + y = e - s  BY ONLY <2>3, <2>4, x \in Nat, y \in Nat
  <2>6. QED  BY <2>2, <2>5
<1> HIDE DEF e
<1>15. free' = add_into_free_list(others, j)  BY <1>3, <1>14
<1>16. Tiling(H \cup {j}, U \ {b}, heap) /\ j \in Blocks /\ j \notin H
  <2> HIDE DEF F, U
  <2>1. /\ heap \in [start : Nat, size : Nat] /\ Tiling(F, U, heap) /\ b \in U
        /\ \/ (\A f \in F : End(f) # b.start) /\ s = b.start
           \/ \E f \in F : End(f) = b.start /\ s = f.start
        /\ \/ (\A f \in F : f.start # End(b)) /\ e = End(b)
           \/ \E f \in F : f.start = End(b) /\ e = End(f)
    BY <1>4, <1>6, <1>9, <1>13
  <2>2. QED  BY ONLY <2>1, TilingGive, Zenon
<1> HIDE DEF H, j
<1>17. /\ free' \in Seq(Blocks) /\ Len(free') = Len(others) + 1 /\ Distinct(free')
       /\ ToSet(free') = H \cup {j} /\ Sorted(free')
  BY <1>11, <1>12, <1>15, <1>16, AddKeeps
<1>18. spare' \in Nat /\ spare' + Len(free') + Len(used') = TOTAL_RAM_FRAG
  <2>1. Len(others) \in Nat /\ Len(others) <= Len(free)
    <3>1. Len(others) \in Nat /\ Len(rest) \in Nat  BY <1>9, <1>11
    <3>2. QED  BY ONLY <1>1, <1>9, <1>11, <3>1
  <2>2. Len(free') = Len(others) + 1 /\ Len(used') = Len(used) - 1
        /\ spare' = spare + Len(free) - Len(others)
        /\ spare + Len(free) + Len(used) = TOTAL_RAM_FRAG
        /\ spare \in Nat /\ Len(free) \in Nat /\ Len(used) \in Nat
    BY <1>1, <1>3, <1>6, <1>7, <1>17
  <2>3. QED  BY ONLY <2>1, <2>2
<1>19. Lists'
  <2>1. heap' = heap  OBVIOUS
  <2>2. Tiling(ToSet(free'), ToSet(used'), heap')  BY <1>7, <1>16, <1>17, <2>1
  <2>3. QED  BY <1>5, <1>6, <1>7, <1>17, <1>18, <2>1, <2>2 DEF Lists
<1>20. QED  BY <1>3, <1>4, <1>7, <1>19

-----------------------------------------------------------------------------
(* The invariant of the pool and the heap together.                          *)

Inv == PoolInv /\ HeapInv

(* No call takes an area of the pool back. *)
LEMMA AreasGrow == [Next]_vars => areas \subseteq areas'
<1>1. ASSUME NEW m, prom_meminit(m) PROVE areas \subseteq areas'  BY <1>1 DEF prom_meminit
<1>2. ASSUME NEW r, prom_phy_mem_malloc(r) PROVE areas \subseteq areas'
  BY <1>2 DEF prom_phy_mem_malloc, MallocFits, MallocFails, vars
<1>3. QED  BY <1>1, <1>2 DEF Next, vars

(* Steps that change neither the heap nor its lists, areas at most growing. *)
LEMMA HeapKept ==
    ASSUME HeapInv, areas \subseteq areas', UNCHANGED <<heap, free, used, spare>>
    PROVE  HeapInv'
<1>1. Backed'  BY DEF HeapInv, Backed
<1>2. Lists'  BY DEF HeapInv, Lists
<1>3. QED  BY <1>1, <1>2 DEF HeapInv

(* silan_malloc_init gives the heap one free block, the whole of its memory. *)
LEMMA InitOpens ==
    ASSUME Inv, silan_malloc_init
    PROVE  Inv' /\ heap'.start \in 0..MemTop /\ heap'.size = SILAN_MALLOC_SIZE
<1> DEFINE fits == PageAlign(SILAN_MALLOC_SIZE) <= prom_phy_mem_size
           start == IF fits THEN prom_phy_mem_start ELSE 0
           b == Block(start, SILAN_MALLOC_SIZE)
<1>1. SILAN_MALLOC_SIZE \in Requests /\ SILAN_MALLOC_SIZE \in Nat \ {0} /\ MemTop \in Nat
      /\ TOTAL_RAM_FRAG \in Nat \ {0}
  BY SieHeapAssumption, PromAssumption
<1>2. /\ heap.size = 0 /\ booted /\ (MallocFits(SILAN_MALLOC_SIZE) \/ MallocFails(SILAN_MALLOC_SIZE))
      /\ heap' = b /\ free' = <<b>> /\ used' = <<>> /\ spare' = TOTAL_RAM_FRAG - 1
  BY DEF silan_malloc_init, prom_phy_mem_malloc
<1>3. PoolInv'
  <2>1. Next  BY <1>1 DEF silan_malloc_init, Next
  <2>2. QED  BY <2>1, PoolNextInv DEF Inv
<1>4. start \in 0..MemTop /\ start \in Nat
  <2>1. prom_phy_mem_start \in 0..MemTop  BY DEF Inv, PoolInv, TypeOK
  <2>2. QED  BY <1>1, <2>1
<1>5. start # 0 => \E a \in areas' : a.addr = start /\ a.asked = SILAN_MALLOC_SIZE
  <2>1. SUFFICES ASSUME start # 0 PROVE \E a \in areas' : a.addr = start /\ a.asked = SILAN_MALLOC_SIZE
    OBVIOUS
  <2>2. fits /\ start = prom_phy_mem_start  BY <2>1
  <2>3. ~MallocFails(SILAN_MALLOC_SIZE)
    <3>1. PageAlign(SILAN_MALLOC_SIZE) \in Nat /\ prom_phy_mem_size \in Nat
      BY <1>1, PageAlignCovers DEF Inv, PoolInv, TypeOK
    <3>2. QED  BY <2>2, <3>1 DEF MallocFails
  <2>4. MallocFits(SILAN_MALLOC_SIZE)  BY <1>2, <2>3
  <2>5. PICK a : a = [addr |-> prom_phy_mem_start, asked |-> SILAN_MALLOC_SIZE,
                      size |-> PageAlign(SILAN_MALLOC_SIZE)]
    OBVIOUS
  <2>6. a \in areas'  BY <2>4, <2>5 DEF MallocFits
  <2>7. a.addr = start /\ a.asked = SILAN_MALLOC_SIZE  BY <2>2, <2>5
  <2>8. QED  BY <2>6, <2>7
<1> HIDE DEF start
<1>6. b \in Blocks /\ b.start = start /\ b.size = SILAN_MALLOC_SIZE
  BY <1>1, <1>4 DEF Block, Blocks
<1> HIDE DEF b
<1>7. heap' \in [start : Nat, size : Nat]  BY <1>2, <1>6 DEF Blocks
<1>8. Backed'  BY <1>2, <1>4, <1>5, <1>6 DEF Backed, null
<1>9. Lists'
  <2>1. /\ free' \in Seq(Blocks) /\ used' \in Seq(Blocks) /\ Len(free') = 1 /\ Len(used') = 0
        /\ DOMAIN (free') = 1..1 /\ DOMAIN (used') = 1..0 /\ free'[1] = b
    BY <1>2, <1>6
  <2>2. Distinct(free') /\ Distinct(used') /\ Sorted(free')  BY <2>1 DEF Distinct, Sorted
  <2>3. ToSet(free') = {b} /\ ToSet(used') = {}
    <3>1. 1 \in DOMAIN (free') /\ (\A k \in DOMAIN (free') : k = 1) /\ DOMAIN (used') = {}  BY <2>1
    <3>2. QED  BY <2>1, <3>1 DEF ToSet
  <2>4. Tiling({b}, {}, b)
    <3>1. b.start <= b.start /\ End(b) <= End(b)  BY <1>6 DEF Blocks, End
    <3>2. QED  BY <1>6, <3>1 DEF Tiling
  <2>5. spare' \in Nat /\ spare' + Len(free') + Len(used') = TOTAL_RAM_FRAG  BY <1>1, <1>2, <2>1
  <2>6. heap'.size = SILAN_MALLOC_SIZE /\ heap'.size # 0  BY <1>1, <1>2, <1>6
  <2>7. Tiling(ToSet(free'), ToSet(used'), heap')  BY <1>2, <2>3, <2>4
  <2>8. QED  BY <2>1, <2>2, <2>5, <2>6, <2>7 DEF Lists
<1>10. QED  BY <1>2, <1>3, <1>4, <1>6, <1>7, <1>8, <1>9 DEF Inv, HeapInv

(* The calls of the heap leave the pool alone. *)
LEMMA PoolKept ==
    ASSUME PoolInv, UNCHANGED vars
    PROVE  PoolInv' /\ areas \subseteq areas'
<1>1. PoolInv'  BY PoolNextInv
<1>2. QED  BY <1>1 DEF vars

(* Every step keeps the invariant. *)
LEMMA HeapNextInv == Inv /\ [HeapNext]_allVars => Inv'
<1> SUFFICES ASSUME Inv, [HeapNext]_allVars PROVE Inv'
  OBVIOUS
<1>0. PoolInv /\ HeapInv /\ heap \in [start : Nat, size : Nat] /\ Backed /\ Lists
  BY DEF Inv, HeapInv
<1>1. CASE Next /\ UNCHANGED heapVars
  <2>1. PoolInv' /\ areas \subseteq areas'  BY <1>0, <1>1, PoolNextInv, AreasGrow
  <2>2. HeapInv'  BY <1>0, <1>1, <2>1, HeapKept DEF heapVars
  <2>3. QED  BY <2>1, <2>2 DEF Inv
<1>2. CASE silan_malloc_init  BY <1>2, InitOpens
<1>3. ASSUME NEW sz \in Wanted, sie_malloc(sz) PROVE Inv'
  <2>1. UNCHANGED vars /\ heap' = heap  BY <1>3 DEF sie_malloc
  <2>2. PoolInv' /\ areas \subseteq areas'  BY <1>0, <2>1, PoolKept
  <2>3. CASE MallocTakes(Assigned(sz))
    <3>1. Lists'  BY <1>0, <2>1, <2>3, AssignedPositive, TakeKeeps
    <3>2. Backed'  BY <1>0, <2>1, <2>2 DEF Backed
    <3>3. QED  BY <1>0, <2>1, <2>2, <3>1, <3>2 DEF Inv, HeapInv
  <2>4. CASE MallocNull(Assigned(sz))
    <3>1. HeapInv'  BY <1>0, <2>1, <2>2, <2>4, HeapKept DEF MallocNull
    <3>2. QED  BY <2>2, <3>1 DEF Inv
  <2>5. QED  BY <1>3, <2>3, <2>4 DEF sie_malloc
<1>4. ASSUME NEW addr, sie_free(addr) PROVE Inv'
  <2>1. UNCHANGED vars /\ heap' = heap  BY <1>4 DEF sie_free
  <2>2. PoolInv' /\ areas \subseteq areas'  BY <1>0, <2>1, PoolKept
  <2>3. CASE FreeBlock(addr)
    <3>1. Lists'  BY <1>0, <2>1, <2>3, GiveKeeps
    <3>2. Backed'  BY <1>0, <2>1, <2>2 DEF Backed
    <3>3. QED  BY <1>0, <2>1, <2>2, <3>1, <3>2 DEF Inv, HeapInv
  <2>4. CASE FreeUnknown(addr)
    <3>1. HeapInv'  BY <1>0, <2>1, <2>2, <2>4, HeapKept DEF FreeUnknown
    <3>2. QED  BY <2>2, <3>1 DEF Inv
  <2>5. QED  BY <1>4, <2>3, <2>4 DEF sie_free
<1>5. CASE UNCHANGED allVars
  <2>1. PoolInv' /\ areas \subseteq areas'  BY <1>0, <1>5, PoolKept DEF allVars
  <2>2. HeapInv'  BY <1>0, <1>5, <2>1, HeapKept DEF allVars, heapVars
  <2>3. QED  BY <2>1, <2>2 DEF Inv
<1>6. QED  BY <1>1, <1>2, <1>3, <1>4, <1>5 DEF HeapNext

(* Boot: no memory is handed out and the heap is not open. *)
LEMMA HeapInitInv == HeapInit => Inv
<1> SUFFICES ASSUME HeapInit PROVE Inv
  OBVIOUS
<1>1. Init /\ heap = [start |-> 0, size |-> 0] /\ free = <<>> /\ used = <<>> /\ spare = 0
  BY DEF HeapInit, Block
<1>2. PoolInv  BY <1>1, InitInv
<1>3. Backed  BY <1>1, PromAssumption DEF Backed, null
<1>4. Lists
  <2>1. free \in Seq(Blocks) /\ used \in Seq(Blocks) /\ DOMAIN free = {} /\ DOMAIN used = {}
    BY <1>1
  <2>2. Distinct(free) /\ Distinct(used) /\ Sorted(free)  BY <2>1 DEF Distinct, Sorted
  <2>3. QED  BY <1>1, <2>1, <2>2 DEF Lists
<1>5. QED  BY <1>1, <1>2, <1>3, <1>4 DEF Inv, HeapInv

(* A block in use lies within the memory of the heap. *)
LEMMA UsedWithin ==
    ASSUME HeapInv, NEW i \in DOMAIN used
    PROVE  /\ heap.size # 0 /\ used[i] \in Blocks
           /\ heap.start <= used[i].start /\ End(used[i]) <= End(heap)
<1>1. used \in Seq(Blocks) /\ used[i] \in Blocks /\ used[i] \in ToSet(used)
  BY DEF HeapInv, Lists, ToSet
<1>2. heap.size # 0
  <2>1. used # <<>>  BY <1>1
  <2>2. QED  BY <2>1 DEF HeapInv, Lists
<1>3. Tiling(ToSet(free), ToSet(used), heap)  BY <1>2 DEF HeapInv, Lists
<1>4. QED  BY <1>1, <1>2, <1>3 DEF Tiling

(* Areas and blocks of both allocators are apart: the heap's blocks lie in  *)
(* the area that prom_phy_mem_malloc gave silan_malloc_init, which no other *)
(* driver's area and not the kernel's memory overlaps, and sie_malloc and   *)
(* sie_free never let a block reach out of it.                              *)
THEOREM HeapBlocksApart == HeapSpec => [](TypeOK /\ AreasDisjoint /\ HeapApart)
<1>1. Inv => TypeOK /\ AreasDisjoint /\ HeapApart
  <2> SUFFICES ASSUME Inv PROVE TypeOK /\ AreasDisjoint /\ HeapApart
    OBVIOUS
  <2>1. TypeOK /\ AreasDisjoint /\ HeapInv  BY DEF Inv, PoolInv
  <2>2. ASSUME heap.start # null, NEW i \in DOMAIN used
        PROVE  /\ physical_memsize <= used[i].start
               /\ used[i].start + used[i].size <= MemTop
               /\ \A a \in areas : a.addr # heap.start =>
                     \/ a.addr + a.asked <= used[i].start
                     \/ used[i].start + used[i].size <= a.addr
    <3> DEFINE u == used[i].start
               v == used[i].start + used[i].size
    <3>1. /\ heap.size # 0 /\ used[i] \in Blocks
          /\ heap.start <= used[i].start /\ End(used[i]) <= End(heap)
      BY <2>1, UsedWithin
    <3>2. /\ u \in Nat /\ v \in Nat /\ u <= v /\ heap.start <= u /\ v <= heap.start + heap.size
          /\ heap.start \in Nat /\ heap.size \in Nat
      BY <2>1, <3>1 DEF End, Blocks, HeapInv
    <3>3. PICK c \in areas : c.addr = heap.start /\ c.asked = heap.size
      BY <2>1, <2>2 DEF HeapInv, Backed
    <3> HIDE DEF u, v
    <3>4. physical_memsize <= heap.start /\ heap.start + heap.size <= MemTop
      BY <2>1, <3>3 DEF AreasDisjoint
    <3>5. physical_memsize \in Nat /\ MemTop \in Nat  BY <2>1, PromAssumption DEF TypeOK
    <3>6. physical_memsize <= u /\ v <= MemTop  BY <3>2, <3>4, <3>5
    <3>7. ASSUME NEW a \in areas, a.addr # heap.start PROVE a.addr + a.asked <= u \/ v <= a.addr
      <4>1. a.addr + a.asked <= heap.start \/ heap.start + heap.size <= a.addr
        BY <2>1, <3>3, <3>7 DEF AreasDisjoint, Disjoint
      <4>2. a.addr \in Nat /\ a.asked \in Nat  BY <2>1, PromAssumption DEF TypeOK
      <4>3. QED  BY <3>2, <4>1, <4>2
    <3>8. QED  BY <3>6, <3>7 DEF u, v
  <2>3. QED  BY <2>1, <2>2 DEF HeapApart
<1>2. QED  BY <1>1, HeapInitInv, HeapNextInv, PTL DEF HeapSpec

-----------------------------------------------------------------------------
(* The heap implements BestFit.                                              *)

(* The gaps that hold a block are the free blocks that do. *)
LEMMA FitsAreFree ==
    ASSUME HeapInv, NEW n
    PROVE  Abstract!Fits(n) = {f \in ToSet(free) : n <= f.size}
  BY GapsAreFree DEF HeapInv, Abstract!Fits

(* sie_malloc returns a block only as the best fit. *)
LEMMA TakeAllocates ==
    ASSUME HeapInv, NEW n \in Nat \ {0}, MallocTakes(n), UNCHANGED heap
    PROVE  Abstract!Allocate(n)
<1>1. PICK f \in ToSet(free) :
         /\ n <= f.size
         /\ \A h \in ToSet(free) : n <= h.size => f.size <= h.size
         /\ ToSet(used') = ToSet(used) \cup {[start |-> f.start, size |-> n]}
         /\ answer' = <<"malloc", f.start>>
  BY TakeKeeps DEF HeapInv
<1>2. Abstract!Fits(n) = {h \in ToSet(free) : n <= h.size}  BY FitsAreFree
<1>3. f \in Abstract!Fits(n) /\ \A h \in Abstract!Fits(n) : f.size <= h.size  BY <1>1, <1>2
<1>4. QED  BY <1>1, <1>3 DEF Abstract!Allocate

(* sie_malloc returns null only when no gap is large enough or the blocks in *)
(* use need all descriptors.                                                 *)
LEMMA NullRefuses ==
    ASSUME HeapInv, NEW n, MallocNull(n), UNCHANGED heap
    PROVE  Abstract!Refuse(n)
<1>0. heap \in [start : Nat, size : Nat] /\ Lists /\ free \in Seq(Blocks) /\ used \in Seq(Blocks)
      /\ Distinct(used) /\ Len(free) \in Nat /\ Len(used) \in Nat
  BY DEF HeapInv, Lists
<1>1. answer' = <<"malloc", 0>> /\ ToSet(used') = ToSet(used) /\ heap' = heap
  BY DEF MallocNull, null
<1>2. Abstract!Fits(n) = {f \in ToSet(free) : n <= f.size}  BY FitsAreFree
<1>3. CASE find_fit_frag(n) = 0
  <2>1. \A k \in 1..Len(free) : ~(n <= free[k].size)  BY <1>0, <1>3, FitIs
  <2>2. \A f \in ToSet(free) : ~(n <= f.size)  BY <1>0, <2>1 DEF ToSet
  <2>3. Abstract!Fits(n) = {}  BY <1>2, <2>2
  <2>4. QED  BY <1>1, <2>3 DEF Abstract!Refuse
<1>4. CASE heap.size = 0
  <2>1. ToSet(free) = {}
    <3>1. DOMAIN free = {}  BY <1>0, <1>4 DEF Lists
    <3>2. QED  BY <3>1 DEF ToSet
  <2>2. Abstract!Fits(n) = {}  BY <1>2, <2>1
  <2>3. QED  BY <1>1, <2>2 DEF Abstract!Refuse
<1>5. CASE spare = 0 /\ heap.size # 0
  <2>1. Len(free) <= Len(used) + 1  BY <1>0, <1>5, FewFree
  <2>2. spare + Len(free) + Len(used) = TOTAL_RAM_FRAG  BY <1>0, <1>5 DEF Lists
  <2>3. Cardinality(ToSet(used)) = Len(used)  BY <1>0, LengthIsSize
  <2>4. 2 * Len(used) + 1 >= TOTAL_RAM_FRAG  BY ONLY <1>0, <1>5, <2>1, <2>2
  <2>5. 2 * Cardinality(ToSet(used)) + 1 >= TOTAL_RAM_FRAG  BY <2>3, <2>4
  <2>6. Abstract!Cardinality(ToSet(used)) = Cardinality(ToSet(used))
    BY Zenon DEF Abstract!Cardinality, Cardinality
  <2>7. QED  BY <1>1, <2>5, <2>6 DEF Abstract!Refuse
<1>6. QED  BY <1>3, <1>4, <1>5 DEF MallocNull

(* Each step of the heap is a step of the best-fit allocator, or none. *)
LEMMA StepSimulation == Inv /\ [HeapNext]_allVars => [Abstract!Next]_(Abstract!vars)
<1> SUFFICES ASSUME Inv, [HeapNext]_allVars PROVE [Abstract!Next]_(Abstract!vars)
  OBVIOUS
<1>0. HeapInv /\ heap \in [start : Nat, size : Nat] /\ Backed /\ Lists
  BY DEF Inv, HeapInv
<1>1. CASE UNCHANGED heapVars
  BY <1>1 DEF heapVars, Abstract!vars
<1>2. CASE silan_malloc_init
  <2>1. heap'.start \in 0..MemTop /\ heap'.size = SILAN_MALLOC_SIZE  BY <1>2, InitOpens
  <2>2. PICK x : heap' = Block(x, SILAN_MALLOC_SIZE)  BY <1>2 DEF silan_malloc_init
  <2>3. x \in 0..MemTop  BY <2>1, <2>2 DEF Block
  <2>4. heap.size = 0 /\ used = <<>> /\ used' = <<>> /\ answer' = answer
    BY <1>0, <1>2 DEF silan_malloc_init, Lists
  <2>5. Abstract!Open(Block(x, SILAN_MALLOC_SIZE))  BY <2>2, <2>4 DEF Abstract!Open
  <2>6. Abstract!Next  BY <2>3, <2>5 DEF Abstract!Next
  <2>7. QED  BY <2>6
<1>3. ASSUME NEW sz \in Wanted, sie_malloc(sz) PROVE Abstract!Next
  <2>1. heap' = heap  BY <1>3 DEF sie_malloc
  <2>2. CASE MallocTakes(Assigned(sz))
    <3>1. Abstract!Allocate(Assigned(sz))  BY <1>0, <2>1, <2>2, AssignedPositive, TakeAllocates
    <3>2. QED  BY <3>1 DEF Abstract!Next
  <2>3. CASE MallocNull(Assigned(sz))
    <3>1. Abstract!Refuse(Assigned(sz))  BY <1>0, <2>1, <2>3, NullRefuses
    <3>2. QED  BY <3>1 DEF Abstract!Next
  <2>4. QED  BY <1>3, <2>2, <2>3 DEF sie_malloc
<1>4. ASSUME NEW addr \in FreeArgs, sie_free(addr) PROVE Abstract!Next
  <2>1. heap' = heap  BY <1>4 DEF sie_free
  <2>2. CASE FreeBlock(addr)
    <3>1. /\ \E b \in ToSet(used) : ToSet(used') = ToSet(used) \ {b}
          /\ answer' = <<"free", 0>>
      BY <1>0, <2>1, <2>2, GiveKeeps DEF NONE_ERR
    <3>2. PICK b \in ToSet(used) : ToSet(used') = ToSet(used) \ {b}  BY <3>1
    <3>3. Abstract!Release(b)  BY <2>1, <3>1, <3>2 DEF Abstract!Release
    <3>4. QED  BY <3>3 DEF Abstract!Next
  <2>3. CASE FreeUnknown(addr)
    <3>1. /\ answer' = <<"free", -1>> /\ ToSet(used') = ToSet(used)
          /\ addr = 0 \/ SelectInSeq(used, LAMBDA b : b.start = addr) = 0
      BY <2>3 DEF FreeUnknown, ERR_OCCUR, null
    <3>2. addr = 0 \/ \A b \in ToSet(used) : b.start # addr
      <4>1. used \in Seq(Blocks) /\ DOMAIN used = 1..Len(used)  BY <1>0 DEF Lists
      <4>2. SelectInSeq(used, LAMBDA b : b.start = addr) = 0 =>
               \A k \in 1..Len(used) : used[k].start # addr
        BY <4>1, UsedIs
      <4>3. QED  BY <3>1, <4>1, <4>2 DEF ToSet
    <3>3. addr \in 0..(MemTop + 1)
      <4>0. MemTop \in Nat /\ heap.start \in 0..MemTop  BY <1>0, PromAssumption DEF Backed
      <4>1. CASE addr = null  BY <4>0, <4>1 DEF null
      <4>2. CASE addr = heap.start + 1  BY <4>0, <4>2
      <4>3. CASE addr \in {used[i].start : i \in DOMAIN used} /\ addr # null
        <5>1. PICK i \in DOMAIN used : addr = used[i].start  BY <4>3
        <5>2. used[i] \in ToSet(used)  BY DEF ToSet
        <5>3. QED  BY <3>2, <4>3, <5>1, <5>2 DEF null
      <4>4. QED  BY <4>1, <4>2, <4>3 DEF FreeArgs
    <3>4. Abstract!Reject(addr)  BY <2>1, <3>1, <3>2 DEF Abstract!Reject
    <3>5. QED  BY <3>3, <3>4 DEF Abstract!Next
  <2>4. QED  BY <1>4, <2>2, <2>3 DEF sie_free
<1>5. QED  BY <1>1, <1>2, <1>3, <1>4 DEF HeapNext, allVars

(* The heap of sie_malloc.c is a best-fit allocator: the free list, its      *)
(* order, find_fit_frag, the joining of neighbours in sie_free and the count *)
(* of descriptors together implement BestFit, for every number of            *)
(* descriptors, every size of the area and every set of requests.            *)
THEOREM HeapIsBestFit == HeapSpec => ImplementsBestFit
<1>1. HeapInit => Abstract!Init
  <2> SUFFICES ASSUME HeapInit PROVE Abstract!Init
    OBVIOUS
  <2>1. heap = [start |-> 0, size |-> 0] /\ used = <<>> /\ answer = <<"malloc", 0>>
    BY DEF HeapInit, Block, null
  <2>2. ToSet(used) = {}
    <3>1. DOMAIN used = {}  BY <2>1
    <3>2. QED  BY <3>1 DEF ToSet
  <2>3. QED  BY <2>1, <2>2 DEF Abstract!Init
<1>2. QED
  BY <1>1, HeapInitInv, HeapNextInv, StepSimulation, PTL
  DEF HeapSpec, ImplementsBestFit, Abstract!Spec
=============================================================================
