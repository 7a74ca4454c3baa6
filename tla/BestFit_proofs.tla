--------------------------- MODULE BestFit_proofs ---------------------------
(***************************************************************************)
(* Proofs about BestFit, for every arena and every set of sizes: the       *)
(* blocks in use lie in the arena and do not overlap.                      *)
(***************************************************************************)
EXTENDS BestFit, TLAPS

Ranges == [start : Int, size : Nat]

\* The blocks in use are disjoint parts of the arena.
NoOverlap ==
    /\ \A a, b \in allocated : a = b \/ Apart(a, b)
    /\ \A b \in allocated : arena.start <= b.start /\ End(b) <= End(arena)

IInv ==
    /\ arena \in Ranges /\ allocated \subseteq Ranges
    /\ \A b \in allocated : b.size > 0
    /\ NoOverlap

(* The part of a gap that a request takes. *)
LEMMA GapIsFree ==
    ASSUME IInv, NEW n \in Nat \ {0}, NEW g \in Fits(n)
    PROVE  LET b == [start |-> g.start, size |-> n] IN
           /\ b \in Ranges /\ arena.start <= b.start /\ End(b) <= End(arena)
           /\ \A a \in allocated : Apart(a, b)
<1>1. PICK p \in {q \in Bounds \X Bounds : IsGap(q[1], q[2])} : g = Gap(p[1], p[2])
  BY DEF Fits, Gaps
<1> DEFINE s == p[1]
           e == p[2]
<1>2. s \in Bounds /\ e \in Bounds /\ IsGap(s, e)  BY <1>1
<1>3. \A x \in Bounds : x \in Int
  BY DEF Bounds, End, IInv, Ranges
<1>4. s \in Int /\ e \in Int /\ s < e /\ g.start = s /\ g.size = e - s /\ n <= e - s
  BY <1>1, <1>2, <1>3 DEF IsGap, Gap, Fits
<1>5. \A a \in allocated : Apart(a, Gap(s, e))  BY <1>2 DEF IsGap
<1>6. arena.start <= s /\ e <= End(arena)
  BY <1>2, <1>4 DEF IsGap, IInv, NoOverlap, End, Ranges
<1> HIDE DEF s, e
<1>7. \A a \in allocated : a.start + a.size <= s \/ e <= a.start
  BY <1>4, <1>5 DEF Apart, End, Gap, IInv, Ranges
<1>8. QED  BY <1>4, <1>6, <1>7 DEF Apart, End, IInv, Ranges

(* For every arena and every set of sizes, blocks in use never overlap and   *)
(* stay within the arena: what sie_malloc and sie_free promise their callers *)
(* once they are known to implement BestFit.                                 *)
THEOREM BlocksNeverOverlap ==
    ASSUME Sizes \subseteq Nat \ {0}, Arenas \subseteq Ranges
    PROVE  Spec => []NoOverlap
<1>1. Init => IInv  BY DEF Init, IInv, NoOverlap, Ranges
<1>2. IInv /\ [Next]_vars => IInv'
  <2> SUFFICES ASSUME IInv, [Next]_vars PROVE IInv'  OBVIOUS
  <2>1. ASSUME NEW a \in Arenas, Open(a), allocated = {} PROVE IInv'
    BY <2>1 DEF Open, IInv, NoOverlap
  <2>2. ASSUME NEW a \in Arenas, Open(a) PROVE allocated = {}
    BY <2>2 DEF Open, IInv, NoOverlap, End, Ranges
  <2>3. ASSUME NEW n \in Sizes, Allocate(n) PROVE IInv'
    <3>1. PICK g \in Fits(n) : /\ allocated' = allocated \cup {[start |-> g.start, size |-> n]}
                               /\ UNCHANGED arena
      BY <2>3 DEF Allocate
    <3> DEFINE b == [start |-> g.start, size |-> n]
    <3>2. /\ b \in Ranges /\ arena.start <= b.start /\ End(b) <= End(arena)
          /\ \A a \in allocated : Apart(a, b)
      BY GapIsFree
    <3>3. b.size > 0  OBVIOUS
    <3> HIDE DEF b
    <3>4. allocated' = allocated \cup {b}  BY <3>1 DEF b
    <3>5. NoOverlap'
      BY <3>1, <3>2, <3>4 DEF NoOverlap, IInv, Apart, End
    <3>6. QED  BY <3>1, <3>2, <3>3, <3>4, <3>5 DEF IInv
  <2>4. ASSUME UNCHANGED arena, allocated' \subseteq allocated PROVE IInv'
    BY <2>4 DEF IInv, NoOverlap
  <2>5. QED
    BY <2>1, <2>2, <2>3, <2>4 DEF Next, Refuse, Release, Reject, vars
<1>3. IInv => NoOverlap  BY DEF IInv
<1>4. QED  BY <1>1, <1>2, <1>3, PTL DEF Spec
=============================================================================
