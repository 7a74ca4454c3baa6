------------------------------ MODULE PromMem ------------------------------
(***************************************************************************)
(* The pool of physical memory above the kernel's own memory, from which   *)
(* drivers take their DMA areas at probe time                              *)
(* (arch/csky/silan_dlna/memory.c).  prom_meminit splits the memory below  *)
(* the register space into the kernel's part, [0, physical_memsize), and   *)
(* the pool; prom_phy_mem_malloc cuts page-aligned areas off the start of  *)
(* the pool and never takes one back.                                      *)
(*                                                                         *)
(* The pool test at memory.c:108 is made before prom_lock is taken.  The   *)
(* DLNA builds are uniprocessor and CONFIG_PREEMPT_NONE, and the function  *)
(* does not sleep, so a call is one step.  CONFIG_ANDROID_PMEM, which      *)
(* would cut a third part out, is off in these builds.                     *)
(***************************************************************************)
EXTENDS Naturals

CONSTANTS
    PageSize,     \* PAGE_SIZE
    MemTop,       \* min(SILAN_PHY_MEM_SIZE, HIGHMEM_START, SILAN_REG_SPACE_START)
    DefaultMem,   \* memory of the kernel when the command line has no "mem="
    UserMem,      \* the sizes "mem=" may ask for
    Requests,     \* the sizes drivers ask for
    W             \* 2^32, the range of u32

ASSUME PromAssumption ==
    /\ PageSize \in Nat \ {0}
    /\ MemTop \in Nat /\ DefaultMem \in Nat
    /\ W \in Nat /\ MemTop < W
    /\ UserMem \subseteq Nat /\ Requests \subseteq Nat
    /\ \A r \in Requests : r + PageSize - 1 < W

VARIABLES
    booted,               \* prom_meminit has run
    physical_memsize,     \* top of the kernel's memory
    prom_phy_mem_start,   \* the unused rest of the pool
    prom_phy_mem_size,
    areas                 \* the areas handed out: address, size asked, size cut off

vars == <<booted, physical_memsize, prom_phy_mem_start, prom_phy_mem_size, areas>>

-----------------------------------------------------------------------------
Init ==
    /\ booted = FALSE
    /\ physical_memsize = 0
    /\ prom_phy_mem_start = 0
    /\ prom_phy_mem_size = 0
    /\ areas = {}

\* u32 arithmetic and rounding up to a page.
Wrap(n) == n % W
PageAlignDown(size) == size - (size % PageSize)   \* mutant: rounds down
PageAlign(size) == LET s == Wrap(size + PageSize - 1) IN s - (s % PageSize)

\* prom_meminit: the kernel gets what "mem=" (or the default) says, cut to
\* what there is; the pool gets the rest.
prom_meminit(memsize) ==
    LET kernel == IF memsize > MemTop THEN MemTop ELSE memsize IN
    /\ ~booted
    /\ booted' = TRUE
    /\ physical_memsize' = kernel
    /\ prom_phy_mem_start' = kernel
    /\ prom_phy_mem_size' = MemTop - kernel
    /\ UNCHANGED areas

\* mutant of MallocFits: the pool test is dropped.
MallocUnchecked(req) ==
    LET size == PageAlign(req) IN
    /\ areas' = areas \cup {[addr |-> prom_phy_mem_start, asked |-> req, size |-> size]}
    /\ prom_phy_mem_start' = Wrap(prom_phy_mem_start + size)
    /\ prom_phy_mem_size' = Wrap(prom_phy_mem_size + W - size)
    /\ UNCHANGED <<booted, physical_memsize>>

\* prom_phy_mem_malloc, the pool large enough.
MallocFits(req) ==
    LET size == PageAlign(req) IN
    /\ size <= prom_phy_mem_size
    /\ areas' = areas \cup {[addr |-> prom_phy_mem_start, asked |-> req, size |-> size]}
    /\ prom_phy_mem_start' = Wrap(prom_phy_mem_start + size)
    /\ prom_phy_mem_size' = Wrap(prom_phy_mem_size + W - size)
    /\ UNCHANGED <<booted, physical_memsize>>

\* prom_phy_mem_malloc, the pool too small: 0 is returned.
MallocFails(req) ==
    /\ PageAlign(req) > prom_phy_mem_size
    /\ UNCHANGED vars

prom_phy_mem_malloc(req) == booted /\ (MallocFits(req) \/ MallocFails(req))

Next ==
    \/ \E m \in UserMem \cup {DefaultMem} : prom_meminit(m)
    \/ \E r \in Requests : prom_phy_mem_malloc(r)

Spec == Init /\ [][Next]_vars

-----------------------------------------------------------------------------
TypeOK ==
    /\ booted \in BOOLEAN
    /\ physical_memsize \in 0..MemTop
    /\ prom_phy_mem_start \in 0..MemTop
    /\ prom_phy_mem_size \in 0..MemTop
    /\ areas \subseteq [addr : 0..MemTop, asked : Nat, size : Nat]

Disjoint(a, b) == a.addr + a.asked <= b.addr \/ b.addr + b.asked <= a.addr

(* No two drivers share a byte: the bytes two calls asked for never overlap, *)
(* none of them lies in the kernel's memory or above the pool               *)
(* (prom_phy_mem_malloc, memory.c:107-115).                                 *)
AreasDisjoint ==
    /\ \A a, b \in areas : a # b => Disjoint(a, b)
    /\ \A a \in areas : physical_memsize <= a.addr /\ a.addr + a.asked <= MemTop

\* What makes AreasDisjoint inductive: start and size always describe the rest
\* of the pool, and every area lies below it.
PoolAccounted ==
    /\ booted => prom_phy_mem_start + prom_phy_mem_size = MemTop
    /\ ~booted => areas = {}
    /\ physical_memsize <= prom_phy_mem_start
    /\ \A a \in areas : a.addr + a.size <= prom_phy_mem_start /\ a.asked <= a.size
=============================================================================
