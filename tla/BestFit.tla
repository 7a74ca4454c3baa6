------------------------------ MODULE BestFit ------------------------------
(***************************************************************************)
(* What a best-fit heap promises, in terms of the blocks in use alone: a   *)
(* request is served from the start of a smallest gap that holds it, and   *)
(* is refused only when no gap does or too many blocks are in use to be    *)
(* described.  There is no free list here: what lies between the blocks in *)
(* use is free, in one piece.  SieHeap implements this specification.      *)
(***************************************************************************)
EXTENDS Integers, FiniteSets

CONSTANTS
    Addresses,   \* the addresses a caller may free
    Arenas,      \* the memory ranges the heap may be given
    Sizes,       \* the sizes of blocks
    Limit        \* number of descriptors

VARIABLES
    arena,       \* the memory managed; its size is 0 before the heap is opened
    allocated,   \* the blocks in use
    answer       \* what the last operation returned

vars == <<arena, allocated, answer>>

End(b) == b.start + b.size
Apart(a, b) == End(a) <= b.start \/ End(b) <= a.start

\* The maximal free ranges.
Bounds == {arena.start, End(arena)} \cup {b.start : b \in allocated} \cup {End(b) : b \in allocated}
Gap(s, e) == [start |-> s, size |-> e - s]
IsGap(s, e) ==
    /\ s < e
    /\ \A b \in allocated : Apart(b, Gap(s, e))
    /\ s = arena.start \/ \E b \in allocated : End(b) = s
    /\ e = End(arena) \/ \E b \in allocated : b.start = e
Gaps == {Gap(p[1], p[2]) : p \in {q \in Bounds \X Bounds : IsGap(q[1], q[2])}}
Fits(n) == {g \in Gaps : n <= g.size}

Init == arena = [start |-> 0, size |-> 0] /\ allocated = {} /\ answer = <<"malloc", 0>>

Open(a) == arena.size = 0 /\ arena' = a /\ UNCHANGED <<allocated, answer>>

Allocate(n) ==
    \E g \in Fits(n) :
        /\ \A h \in Fits(n) : g.size <= h.size
        /\ allocated' = allocated \cup {[start |-> g.start, size |-> n]}
        /\ answer' = <<"malloc", g.start>>
        /\ UNCHANGED arena

\* With k blocks in use there are at most k + 1 gaps.
Refuse(n) ==
    /\ Fits(n) = {} \/ 2 * Cardinality(allocated) + 1 >= Limit
    /\ answer' = <<"malloc", 0>>
    /\ UNCHANGED <<arena, allocated>>

Release(b) ==
    /\ allocated' = allocated \ {b}
    /\ answer' = <<"free", 0>>
    /\ UNCHANGED arena

\* Freeing an address at which no block starts, or the null pointer.
Reject(addr) ==
    /\ addr = 0 \/ \A b \in allocated : b.start # addr
    /\ answer' = <<"free", -1>>
    /\ UNCHANGED <<arena, allocated>>

Next ==
    \/ \E a \in Arenas : Open(a)
    \/ \E n \in Sizes : Allocate(n) \/ Refuse(n)
    \/ \E b \in allocated : Release(b)
    \/ \E addr \in Addresses : Reject(addr)

Spec == Init /\ [][Next]_vars
=============================================================================
