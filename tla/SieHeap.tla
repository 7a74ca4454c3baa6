------------------------------ MODULE SieHeap ------------------------------
(***************************************************************************)
(* The heap of arch/csky/silan_dlna/sie_malloc.c, over an area that        *)
(* silan_malloc_init takes from the memory pool (module PromMem).  Blocks  *)
(* are described by a fixed number of fragment descriptors: a list of free *)
(* blocks sorted by size, a list of blocks in use and a pool of spare      *)
(* descriptors, of which only the number matters.                          *)
(*                                                                         *)
(* RESTRICT_IN and RESTRICT_OUT are empty; the functions do not sleep, so  *)
(* on one CPU without preemption a call is one step.                       *)
(***************************************************************************)
EXTENDS PromMem, Integers, SequencesExt

CONSTANTS
    TOTAL_RAM_FRAG,      \* number of descriptors
    SILAN_MALLOC_SIZE,   \* size of the area
    BlockUnit,           \* 1024, the unit of ASSIGNED_FOR_1024BYTE
    Wanted               \* the sizes callers ask for

ASSUME SieHeapAssumption ==
    /\ TOTAL_RAM_FRAG \in Nat \ {0} /\ SILAN_MALLOC_SIZE \in Requests \ {0}
    /\ BlockUnit \in Nat \ {0}
    /\ Wanted \subseteq Nat /\ \A sz \in Wanted : sz + BlockUnit - 1 < W

VARIABLES
    heap,     \* ram_address and ram_size of sie_heap_ctrl
    free,     \* sie_heap_ctrl.free
    used,     \* sie_heap_ctrl.used
    spare,    \* length of mem_frag_free
    answer    \* what the last sie_malloc or sie_free returned

heapVars == <<heap, free, used, spare, answer>>
allVars == <<vars, heapVars>>

null == 0
NONE_ERR == 0
ERR_OCCUR == -1

Block(start, size) == [start |-> start, size |-> size]

HeapInit ==
    /\ Init
    /\ heap = Block(0, 0) /\ free = <<>> /\ used = <<>> /\ spare = 0
    /\ answer = <<"malloc", null>>

\* silan_malloc_init: the address is used without a test, so when the pool is
\* exhausted the heap manages the memory from address 0.
silan_malloc_init ==
    LET start == IF PageAlign(SILAN_MALLOC_SIZE) <= prom_phy_mem_size THEN prom_phy_mem_start ELSE 0
    IN
    /\ heap.size = 0
    /\ prom_phy_mem_malloc(SILAN_MALLOC_SIZE)
    /\ heap' = Block(start, SILAN_MALLOC_SIZE)
    /\ free' = <<Block(start, SILAN_MALLOC_SIZE)>>
    /\ used' = <<>>
    /\ spare' = TOTAL_RAM_FRAG - 1
    /\ UNCHANGED answer

-----------------------------------------------------------------------------
\* ASSIGNED_FOR_1024BYTE
Assigned(sz) ==
    LET s == Wrap(sz + BlockUnit - 1) IN IF sz = 0 THEN BlockUnit ELSE s - (s % BlockUnit)

\* mutant of add_into_free_list: every block goes to the head of the list.
AddAtHead(list, frag) == <<frag>> \o list

add_into_free_list(list, frag) ==
    LET i == SelectInSeq(list, LAMBDA b : frag.size <= b.size)
    IN IF i = 0 THEN Append(list, frag) ELSE InsertAt(list, i, frag)

find_fit_frag(size) == SelectInSeq(free, LAMBDA b : size <= b.size)

\* mutant of MallocTakes: the rest of the block keeps its size.
MallocKeepsSize(size) ==
    LET i == find_fit_frag(size)
        tmp == free[i]
    IN
    /\ i # 0 /\ spare > 0
    /\ used' = <<Block(tmp.start, size)>> \o used
    /\ free' = add_into_free_list(RemoveAt(free, i), Block(tmp.start + size, tmp.size))
    /\ spare' = spare - 1
    /\ answer' = <<"malloc", tmp.start>>

\* The block is cut from the start of the first free block that is large enough,
\* the rest of which goes back to the free list, or its descriptor to the pool.
MallocTakes(size) ==
    LET i == find_fit_frag(size)
        tmp == free[i]
        exact == tmp.size = size
    IN
    /\ i # 0 /\ spare > 0
    /\ used' = <<Block(tmp.start, size)>> \o used
    /\ free' = IF exact THEN RemoveAt(free, i)
               ELSE add_into_free_list(RemoveAt(free, i), Block(tmp.start + size, tmp.size - size))
    /\ spare' = IF exact THEN spare ELSE spare - 1
    /\ answer' = <<"malloc", tmp.start>>

\* No block is large enough, or there is no descriptor for the new one.
MallocNull(size) ==
    /\ find_fit_frag(size) = 0 \/ spare = 0
    /\ answer' = <<"malloc", null>>
    /\ UNCHANGED <<free, used, spare>>

sie_malloc(sz) ==
    /\ MallocTakes(Assigned(sz)) \/ MallocNull(Assigned(sz))
    /\ UNCHANGED <<vars, heap>>

\* mutant of BlockAfter: the block after the one freed is not joined.
NoBlockAfter(list, b) == 0

\* find_frag_by_addr: the blocks of a list right after and right before block b.
BlockAfter(list, b) == SelectInSeq(list, LAMBDA f : f.start = b.start + b.size)
BlockBefore(list, b) == SelectInSeq(list, LAMBDA f : f.start + f.size = b.start)

\* get_out_of_free_list, for a block that was found.
Without(list, i) == IF i = 0 THEN list ELSE RemoveAt(list, i)
SizeOf(list, i) == IF i = 0 THEN 0 ELSE list[i].size

\* The block is joined with its free neighbours, whose descriptors become spare.
\* The one before it is the same whether or not the one after it is still listed.
FreeBlock(addr) ==
    LET k == SelectInSeq(used, LAMBDA b : b.start = addr)
        tmp == used[k]
        i == BlockAfter(free, tmp)
        rest == Without(free, i)
        j == BlockBefore(rest, tmp)
        others == Without(rest, j)
        start == IF j = 0 THEN addr ELSE rest[j].start
    IN
    /\ addr # null /\ k # 0
    /\ used' = RemoveAt(used, k)
    /\ free' = add_into_free_list(others,
                   Block(start, tmp.size + SizeOf(free, i) + SizeOf(rest, j)))
    /\ spare' = spare + Len(free) - Len(others)
    /\ answer' = <<"free", NONE_ERR>>

\* An address at which no block in use starts.
FreeUnknown(addr) ==
    /\ addr = null \/ SelectInSeq(used, LAMBDA b : b.start = addr) = 0
    /\ answer' = <<"free", ERR_OCCUR>>
    /\ UNCHANGED <<free, used, spare>>

sie_free(addr) ==
    /\ FreeBlock(addr) \/ FreeUnknown(addr)
    /\ UNCHANGED <<vars, heap>>

-----------------------------------------------------------------------------
\* What callers free: blocks in use, null, and an address inside a block.
FreeArgs == {used[i].start : i \in DOMAIN used} \cup {null, heap.start + 1}

HeapNext ==
    \/ Next /\ UNCHANGED heapVars
    \/ silan_malloc_init
    \/ \E sz \in Wanted : sie_malloc(sz)
    \/ \E addr \in FreeArgs : sie_free(addr)

HeapSpec == HeapInit /\ [][HeapNext]_allVars

-----------------------------------------------------------------------------
(* The heap is a best-fit allocator: the free list, its order, the joining   *)
(* of neighbours on sie_free and the descriptors implement module BestFit,   *)
(* in which there are only the blocks in use.  So no two blocks overlap, the *)
(* smallest sufficient gap is used, a gap is never split into pieces that    *)
(* refuse a request that fits it, and no descriptor is lost.                 *)
Abstract == INSTANCE BestFit WITH
    Addresses <- 0..(MemTop + 1),
    Arenas <- {Block(start, SILAN_MALLOC_SIZE) : start \in 0..MemTop},
    Sizes <- {Assigned(sz) : sz \in Wanted},
    Limit <- TOTAL_RAM_FRAG,
    arena <- heap,
    allocated <- ToSet(used)
ImplementsBestFit == Abstract!Spec

(* Across the two allocators: a block of a heap that the pool has backed     *)
(* lies in memory that neither the kernel nor another driver's area uses     *)
(* (silan_malloc_init, prom_phy_mem_malloc, sie_malloc).                     *)
HeapApart ==
    heap.start # null =>
        \A i \in DOMAIN used :
            /\ physical_memsize <= used[i].start
            /\ used[i].start + used[i].size <= MemTop
            /\ \A a \in areas : a.addr # heap.start =>
                  \/ a.addr + a.asked <= used[i].start
                  \/ used[i].start + used[i].size <= a.addr
=============================================================================
