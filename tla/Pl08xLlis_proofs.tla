-------------------------- MODULE Pl08xLlis_proofs --------------------------
(***************************************************************************)
(* For every boundary, every table size and every set of transfers the     *)
(* LLIs of pl08x_fill_llis_for_desc are ones the controller can execute,   *)
(* they join to the transfer, those of a peripheral are whole words, only  *)
(* a transfer longer than the table can hold is refused, the function      *)
(* returns within a bound, and the bytes that pl08x_getbytes_chan reports  *)
(* of a byte-wide transfer are those not yet moved.                        *)
(***************************************************************************)
EXTENDS Pl08xLlis, FiniteSetTheorems, TLAPS

Bd == [src : Nat, dst : Nat, sw : Widths, dw : Widths, remainder : Nat]
Cctl == [sw : Widths, dw : Widths, tsize : Nat, tc_irq : BOOLEAN]
Lli == [src : Nat, dst : Nat, cctl : Cctl]

\* One LLI is within the boundaries, aligned and fits the control word.
Good(src_incr, dst_incr, l) ==
    /\ src_incr => WithinBoundary(l.src, l.cctl.tsize * l.cctl.sw)
    /\ dst_incr => WithinBoundary(l.dst, l.cctl.tsize * l.cctl.sw)
    /\ l.src % l.cctl.sw = 0 /\ l.dst % l.cctl.dw = 0
    /\ l.cctl.tsize \in 1..TransferMask

\* Only the source is ever set down, so it is the narrower bus.
BusWidths ==
    /\ bd.dw = txd.width
    /\ bd.sw \in {1, txd.width}
    /\ pc \in {"start", "align"} \/ ~DstIncr => bd.sw = txd.width

FixedStays == (SrcIncr \/ bd.src = txd.src) /\ (DstIncr \/ bd.dst = txd.dst)

(* Between two large LLIs both buses are aligned; while single bytes are     *)
(* sent across a boundary they will be once these are sent.                  *)
StaysAligned ==
    bd.remainder > 0 =>
        /\ pc = "chunks" => bd.src % bd.sw = 0 /\ bd.dst % bd.dw = 0
        /\ pc = "creep" => /\ (IF SrcIncr THEN bd.src + creep ELSE bd.src) % bd.sw = 0
                           /\ (IF DstIncr THEN bd.dst + creep ELSE bd.dst) % bd.dw = 0

Types ==
    /\ txd \in Txds
    /\ pc \in {"start", "align", "chunks", "creep", "bytes"} \cup Ended
    /\ bd \in Bd
    /\ creep \in 0..4
    /\ llis \in Seq(Lli)

AllGood == \A k \in DOMAIN llis : Good(SrcIncr, DstIncr, llis[k])

IInv == Types /\ BusWidths /\ FixedStays /\ StaysAligned /\ AllGood

-----------------------------------------------------------------------------
(* Rounding down to units of w, counted in units of s. *)
LEMMA Rounding ==
    ASSUME NEW w \in Widths, NEW s \in {1, w}, NEW n \in Nat
    PROVE  LET q == ((n \div w) * w) \div s IN
           /\ q \in Nat /\ q <= n /\ q * s <= n /\ q * s \in Nat
           /\ (q * s) % w = 0 /\ (q * s) % s = 0
           /\ (q = 0 => n < w)
<1>1. CASE w = 1 /\ s = 1  BY <1>1
<1>2. CASE w = 2 /\ s = 1  BY <1>2
<1>3. CASE w = 2 /\ s = 2  BY <1>3
<1>4. CASE w = 4 /\ s = 1  BY <1>4
<1>5. CASE w = 4 /\ s = 4  BY <1>5
<1>6. QED  BY <1>1, <1>2, <1>3, <1>4, <1>5 DEF Widths

(* Aligned steps keep an address aligned. *)
LEMMA AlignedSum ==
    ASSUME NEW w \in Widths, NEW a \in Nat, NEW b \in Nat, b % w = 0
    PROVE  (a + b) % w = a % w
  BY DEF Widths

(* The nearest boundary of a bus that counts up is not passed. *)
LEMMA NearestBound ==
    ASSUME Types
    PROVE  /\ Nearest \in Nat /\ Nearest <= Boundary /\ Nearest <= bd.remainder
           /\ SrcIncr => (bd.src % Boundary) + Nearest <= Boundary
           /\ DstIncr => (bd.dst % Boundary) + Nearest <= Boundary
           /\ (bd.remainder > 0 => Nearest > 0)
<1>1. /\ txd \in Txd /\ bd.src \in Nat /\ bd.dst \in Nat /\ bd.remainder \in Nat
      /\ txd.width \in {1, 2, 4} /\ TransferMask \in Nat /\ Boundary \in Nat
      /\ Boundary > 0 /\ Boundary <= TransferMask
  BY LlisAssumption DEF Types, Txd, Bd, Widths
<1>2. txd.width * TransferMask \in Nat /\ txd.width * TransferMask >= TransferMask
  BY <1>1
<1>3. Target \in Nat /\ Target <= bd.remainder /\ (bd.remainder > 0 => Target > 0)
  BY <1>1, <1>2 DEF Target, Least
<1>4. ASSUME NEW a \in Nat
      PROVE  LET p == pl08x_pre_boundary(a, Target) IN
             /\ p \in Nat /\ p <= Target /\ (a % Boundary) + p <= Boundary
             /\ (Target > 0 => p > 0) /\ p <= Boundary
  <2>1. a % Boundary \in 0..(Boundary - 1)  BY <1>1
  <2>2. QED  BY <1>1, <1>3, <2>1 DEF pl08x_pre_boundary, Least
<1>5. SrcIncr \/ DstIncr  BY DEF SrcIncr, DstIncr
<1> DEFINE s == pl08x_pre_boundary(bd.src, Target)
           d == pl08x_pre_boundary(bd.dst, Target)
<1>6. /\ s \in Nat /\ s <= Target /\ (bd.src % Boundary) + s <= Boundary
      /\ (Target > 0 => s > 0) /\ s <= Boundary
  BY <1>1, <1>4
<1>7. /\ d \in Nat /\ d <= Target /\ (bd.dst % Boundary) + d <= Boundary
      /\ (Target > 0 => d > 0) /\ d <= Boundary
  BY <1>1, <1>4
<1>8. bd.src % Boundary \in Nat /\ bd.dst % Boundary \in Nat  BY <1>1
<1>9. Nearest = Least(IF SrcIncr THEN s ELSE Target, IF DstIncr THEN d ELSE Target)
  BY DEF Nearest
<1> HIDE DEF s, d
<1>10. CASE SrcIncr /\ DstIncr
  <2>1. Nearest = Least(s, d)  BY <1>9, <1>10
  <2>2. QED  BY <1>1, <1>3, <1>6, <1>7, <1>8, <2>1 DEF Least
<1>11. CASE SrcIncr /\ ~DstIncr
  <2>1. Nearest = Least(s, Target)  BY <1>9, <1>11
  <2>2. QED  BY <1>1, <1>3, <1>6, <1>8, <1>11, <2>1 DEF Least
<1>12. CASE ~SrcIncr /\ DstIncr
  <2>1. Nearest = Least(Target, d)  BY <1>9, <1>12
  <2>2. QED  BY <1>1, <1>3, <1>7, <1>8, <1>12, <2>1 DEF Least
<1>13. QED  BY <1>5, <1>10, <1>11, <1>12

-----------------------------------------------------------------------------
(* What the types say of the parts. *)
LEMMA Parts ==
    ASSUME Types
    PROVE  /\ txd \in Txd /\ txd.width \in Widths
           /\ bd = [src |-> bd.src, dst |-> bd.dst, sw |-> bd.sw, dw |-> bd.dw,
                    remainder |-> bd.remainder]
           /\ bd.src \in Nat /\ bd.dst \in Nat /\ bd.remainder \in Nat
           /\ bd.sw \in Widths /\ bd.dw \in Widths
           /\ Boundary \in Nat /\ Boundary > 0
           /\ TransferMask \in Nat /\ Boundary <= TransferMask
  BY LlisAssumption DEF Types, Txd, Bd

(* A good LLI added to a good list. *)
LEMMA FillStep ==
    ASSUME Types, AllGood, FixedStays, txd' = txd,
           NEW n \in Nat, NEW cctl \in Cctl, NEW next,
           FillLli(n, cctl, next),
           Good(SrcIncr, DstIncr, [src |-> bd.src, dst |-> bd.dst, cctl |-> cctl])
    PROVE  /\ llis' \in Seq(Lli) /\ AllGood' /\ FixedStays' /\ bd' \in Bd
           /\ bd'.sw = bd.sw /\ bd'.dw = bd.dw
           /\ \/ pc' = "bug"
              \/ /\ pc' = next
                 /\ bd'.src = (IF SrcIncr THEN bd.src + n ELSE bd.src)
                 /\ bd'.dst = (IF DstIncr THEN bd.dst + n ELSE bd.dst)
                 /\ n <= bd.remainder /\ bd'.remainder = bd.remainder - n
<1> DEFINE new == [src |-> bd.src, dst |-> bd.dst, cctl |-> cctl]
<1>0. SrcIncr' = SrcIncr /\ DstIncr' = DstIncr  BY DEF SrcIncr, DstIncr
<1>2. new \in Lli /\ llis \in Seq(Lli)  BY Parts DEF Types, Lli
<1>3. CASE pc' = "bug" /\ UNCHANGED <<bd, llis>>
  <2>1. AllGood'  BY <1>0, <1>3 DEF AllGood
  <2>2. QED  BY <1>0, <1>2, <1>3, <2>1 DEF Types, FixedStays
<1>4. CASE /\ ~(Len(llis) >= MaxLlis \/ bd.remainder < n)
           /\ pc' = next /\ llis' = Append(llis, new)
           /\ bd' = [bd EXCEPT !.src = IF SrcIncr THEN @ + n ELSE @,
                               !.dst = IF DstIncr THEN @ + n ELSE @,
                               !.remainder = @ - n]
  <2>1. llis' \in Seq(Lli)  BY <1>2, <1>4
  <2>2. AllGood'
    <3>1. DOMAIN llis' = 1..(Len(llis) + 1) /\ Len(llis) \in Nat /\ DOMAIN llis = 1..Len(llis)
      BY <1>2, <1>4
    <3>2. ASSUME NEW k \in DOMAIN llis' PROVE Good(SrcIncr, DstIncr, llis'[k])
      <4>1. CASE k = Len(llis) + 1
        <5>1. llis'[k] = new  BY <1>2, <1>4, <4>1
        <5>2. QED  BY <5>1
      <4>2. CASE k \in DOMAIN llis
        <5>1. llis'[k] = llis[k]  BY <1>2, <1>4, <3>1, <4>2
        <5>2. QED  BY <4>2, <5>1 DEF AllGood
      <4>3. QED  BY <3>1, <4>1, <4>2
    <3>3. QED  BY <1>0, <3>2 DEF AllGood
  <2>3. /\ bd'.sw = bd.sw /\ bd'.dw = bd.dw
        /\ bd'.src = (IF SrcIncr THEN bd.src + n ELSE bd.src)
        /\ bd'.dst = (IF DstIncr THEN bd.dst + n ELSE bd.dst)
        /\ n <= bd.remainder /\ bd'.remainder = bd.remainder - n
    BY <1>4, Parts
  <2>4. FixedStays'  BY <1>0, <2>3 DEF FixedStays
  <2>5. bd'.src \in Nat /\ bd'.dst \in Nat /\ bd'.remainder \in Nat  BY <2>3, Parts
  <2>6. bd' = [src |-> bd'.src, dst |-> bd'.dst, sw |-> bd'.sw, dw |-> bd'.dw,
               remainder |-> bd'.remainder]
    BY <1>4, Parts
  <2>7. bd' \in Bd  BY <2>3, <2>5, <2>6, Parts DEF Bd
  <2>8. QED  BY <1>4, <2>1, <2>2, <2>3, <2>4, <2>7
<1>5. QED  BY <1>3, <1>4 DEF FillLli

(* A single byte is always good. *)
LEMMA ByteGood ==
    ASSUME Types
    PROVE  /\ cctl_bits(1, 1, 1) \in Cctl
           /\ Good(SrcIncr, DstIncr, [src |-> bd.src, dst |-> bd.dst, cctl |-> cctl_bits(1, 1, 1)])
<1>1. bd.src % Boundary \in 0..(Boundary - 1) /\ bd.dst % Boundary \in 0..(Boundary - 1)
  BY Parts
<1>2. WithinBoundary(bd.src, 1) /\ WithinBoundary(bd.dst, 1)
  BY <1>1, Parts DEF WithinBoundary
<1>3. bd.src % 1 = 0 /\ bd.dst % 1 = 0 /\ 1 \in 1..TransferMask  BY Parts
<1>4. QED  BY <1>2, <1>3 DEF cctl_bits, Cctl, Widths, Good

(* One single byte, wherever the function is. *)
LEMMA ByteStep ==
    ASSUME IInv, txd' = txd, NEW next, FillByte(next)
    PROVE  /\ llis' \in Seq(Lli) /\ AllGood' /\ FixedStays' /\ bd' \in Bd
           /\ bd'.sw = bd.sw /\ bd'.dw = bd.dw
           /\ \/ pc' = "bug"
              \/ /\ pc' = next
                 /\ bd'.src = (IF SrcIncr THEN bd.src + 1 ELSE bd.src)
                 /\ bd'.dst = (IF DstIncr THEN bd.dst + 1 ELSE bd.dst)
                 /\ 1 <= bd.remainder /\ bd'.remainder = bd.remainder - 1
<1>1. Types /\ AllGood /\ FixedStays  BY DEF IInv
<1>2. FillLli(1, cctl_bits(1, 1, 1), next)  BY DEF FillByte
<1>3. QED  BY <1>1, <1>2, ByteGood, FillStep

(* Widths that stay as they are. *)
LEMMA WidthsStay ==
    ASSUME BusWidths, txd' = txd, bd'.sw = bd.sw, bd'.dw = bd.dw,
           pc' \in {"start", "align"} => pc \in {"start", "align"}
    PROVE  BusWidths'
  BY DEF BusWidths, DstIncr

(* A list that stays as it is. *)
LEMMA ListStays ==
    ASSUME Types, AllGood, txd' = txd, llis' = llis
    PROVE  llis' \in Seq(Lli) /\ AllGood'
  BY DEF Types, AllGood, SrcIncr, DstIncr

(* The slave bus is set down if it is not aligned. *)
LEMMA AlignedStep == ASSUME IInv, Aligned PROVE IInv'
<1>1. Types /\ BusWidths /\ FixedStays /\ AllGood /\ txd' = txd /\ creep' = creep
      /\ llis' = llis /\ pc' = "chunks" /\ pc = "align"
  BY DEF IInv, Aligned
<1>2. bd.sw = txd.width /\ bd.dw = txd.width  BY <1>1 DEF BusWidths
<1>3. llis' \in Seq(Lli) /\ AllGood'  BY <1>1, ListStays
<1>4. /\ bd' \in Bd /\ FixedStays' /\ bd'.dw = txd.width /\ bd'.sw \in {1, txd.width}
      /\ (~DstIncr => bd'.sw = txd.width)
      /\ bd'.src % bd'.sw = 0 /\ bd'.dst % bd'.dw = 0
  <2>0. SrcIncr' = SrcIncr /\ DstIncr' = DstIncr  BY <1>1 DEF SrcIncr, DstIncr
  <2>1. CASE DstIncr
    <3>1. bd.dst % bd.dw = 0 /\ bd' = IF bd.src % bd.sw = 0 THEN bd ELSE [bd EXCEPT !.sw = 1]
      BY <2>1 DEF Aligned, MasterIsDst, mbus, sbus
    <3>2. CASE bd.src % bd.sw = 0  BY <1>1, <1>2, <2>0, <2>1, <3>1, <3>2 DEF Types, FixedStays
    <3>3. CASE bd.src % bd.sw # 0
      <4>1. bd' = [src |-> bd.src, dst |-> bd.dst, sw |-> 1, dw |-> bd.dw,
                   remainder |-> bd.remainder]
        BY <1>1, <3>1, <3>3, Parts
      <4>2. bd' \in Bd  BY <1>1, <4>1, Parts DEF Bd, Widths
      <4>3. bd.src % 1 = 0  BY <1>1, Parts
      <4>4. FixedStays'  BY <1>1, <2>0, <4>1 DEF FixedStays
      <4>5. QED  BY <1>2, <2>1, <3>1, <4>1, <4>2, <4>3, <4>4
    <3>4. QED  BY <3>2, <3>3
  <2>2. CASE ~DstIncr
    <3>1. bd.dst % txd.width = 0
      <4>1. txd \in Txds /\ txd.kind = "to_device"  BY <1>1, <2>2 DEF Types, DstIncr
      <4>2. txd.dst % txd.width = 0  BY <4>1, LlisAssumption, Zenon
      <4>3. QED  BY <1>1, <2>2, <4>2 DEF FixedStays
    <3>2. bd.src % bd.sw = 0 /\ bd' = bd
      BY <1>2, <2>2, <3>1 DEF Aligned, MasterIsDst, mbus, sbus
    <3>3. QED  BY <1>1, <1>2, <2>0, <2>2, <3>1, <3>2 DEF Types, FixedStays
  <2>3. QED  BY <2>1, <2>2
<1>5. Types' /\ BusWidths' /\ StaysAligned'
  BY <1>1, <1>3, <1>4 DEF Types, BusWidths, StaysAligned, DstIncr
<1>6. QED  BY <1>3, <1>4, <1>5 DEF IInv

(* A single byte across a boundary. *)
LEMMA CreepStep == ASSUME IInv, Creep PROVE IInv'
<1>1. Types /\ BusWidths /\ StaysAligned /\ txd' = txd /\ pc = "creep" /\ bd.remainder > 0
      /\ creep' = creep - 1 /\ creep > 0 /\ FillByte("creep")
  BY DEF IInv, Creep
<1>2. /\ llis' \in Seq(Lli) /\ AllGood' /\ FixedStays' /\ bd' \in Bd
      /\ bd'.sw = bd.sw /\ bd'.dw = bd.dw
      /\ \/ pc' = "bug"
         \/ /\ pc' = "creep"
            /\ bd'.src = (IF SrcIncr THEN bd.src + 1 ELSE bd.src)
            /\ bd'.dst = (IF DstIncr THEN bd.dst + 1 ELSE bd.dst)
            /\ 1 <= bd.remainder /\ bd'.remainder = bd.remainder - 1
  BY <1>1, ByteStep
<1>3. creep \in 0..4 /\ creep' \in 0..4  BY <1>1 DEF Types
<1>4. Types'  BY <1>1, <1>2, <1>3 DEF Types, Ended
<1>5. BusWidths'  BY <1>1, <1>2, WidthsStay
<1>6. StaysAligned'
  <2>1. CASE pc' = "bug"  BY <2>1 DEF StaysAligned
  <2>2. CASE pc' = "creep" /\ pc' # "bug"
    <3>0. SrcIncr' = SrcIncr /\ DstIncr' = DstIncr  BY <1>1 DEF SrcIncr, DstIncr
    <3>1. (IF SrcIncr THEN bd'.src + creep' ELSE bd'.src)
             = (IF SrcIncr THEN bd.src + creep ELSE bd.src)
      BY <1>1, <1>2, <1>3, <2>2, Parts
    <3>2. (IF DstIncr THEN bd'.dst + creep' ELSE bd'.dst)
             = (IF DstIncr THEN bd.dst + creep ELSE bd.dst)
      BY <1>1, <1>2, <1>3, <2>2, Parts
    <3>3. QED  BY <1>1, <1>2, <2>2, <3>0, <3>1, <3>2 DEF StaysAligned
  <2>3. QED  BY <1>2, <2>1, <2>2
<1>7. QED  BY <1>2, <1>4, <1>5, <1>6 DEF IInv

(* The largest LLI is good, and leaves both buses aligned once the bytes     *)
(* across a boundary are sent.                                               *)
LEMMA ChunkStep == ASSUME IInv, Chunk PROVE IInv'
<1> DEFINE w == txd.width
           n == Tsize * Least(bd.sw, bd.dw)
           cctl == cctl_bits(bd.sw, bd.dw, Tsize)
<1>1. Types /\ BusWidths /\ FixedStays /\ StaysAligned /\ AllGood /\ txd' = txd
      /\ pc = "chunks" /\ creep' = CreepBytes
  BY DEF IInv, Chunk
<1>2. bd.dw = w /\ bd.sw \in {1, w} /\ (~DstIncr => bd.sw = w) /\ w \in Widths
  BY <1>1, Parts DEF BusWidths
<1>3. Least(bd.sw, bd.dw) = bd.sw  BY <1>2 DEF Least, Widths
<1>4. mbus.buswidth = w  BY <1>2 DEF mbus, MasterIsDst
<1>5. bd.remainder > 0 /\ bd.src % bd.sw = 0 /\ bd.dst % bd.dw = 0
  <2>1. bd.remainder >= w  BY <1>4 DEF Chunk
  <2>2. bd.remainder > 0  BY <1>1, <1>2, <2>1, Parts DEF Widths
  <2>3. QED  BY <1>1, <2>2 DEF StaysAligned
<1>6. /\ Nearest \in Nat /\ Nearest <= Boundary /\ Nearest > 0
      /\ SrcIncr => (bd.src % Boundary) + Nearest <= Boundary
      /\ DstIncr => (bd.dst % Boundary) + Nearest <= Boundary
  BY <1>1, <1>5, NearestBound
<1>7. /\ Tsize \in Nat /\ Tsize <= Nearest /\ n <= Nearest /\ n \in Nat
      /\ n % w = 0 /\ n % bd.sw = 0 /\ n = Tsize * bd.sw
  <2> DEFINE q == ((Nearest \div w) * w) \div bd.sw
  <2>1. Tsize = q /\ n = q * bd.sw  BY <1>3, <1>4 DEF Tsize
  <2>2. /\ q \in Nat /\ q <= Nearest /\ q * bd.sw <= Nearest /\ q * bd.sw \in Nat
        /\ (q * bd.sw) % w = 0 /\ (q * bd.sw) % bd.sw = 0
    BY <1>2, <1>6, Rounding
  <2> HIDE DEF q, n
  <2>3. QED  BY <2>1, <2>2
<1>8. creep' \in {0, w}  BY <1>1, <1>4 DEF CreepBytes
<1>9. creep' \in 0..4 /\ creep' % w = 0 /\ creep' % bd.sw = 0
  BY <1>2, <1>8 DEF Widths
<1> HIDE DEF n, cctl
<1>10. /\ llis' \in Seq(Lli) /\ AllGood' /\ FixedStays' /\ bd' \in Bd
       /\ bd'.sw = bd.sw /\ bd'.dw = bd.dw
       /\ \/ pc' = "bug"
          \/ /\ pc' = "creep"
             /\ \E m \in {0, n} :
                  /\ bd'.src = (IF SrcIncr THEN bd.src + m ELSE bd.src)
                  /\ bd'.dst = (IF DstIncr THEN bd.dst + m ELSE bd.dst)
  <2>1. CASE Tsize # 0
    <3>1. FillLli(n, cctl, "creep")  BY <2>1 DEF Chunk, n, cctl
    <3>2. cctl \in Cctl  BY <1>1, <1>7, Parts DEF cctl, cctl_bits, Cctl
    <3>3. cctl.tsize = Tsize /\ cctl.sw = bd.sw /\ cctl.dw = bd.dw
      BY DEF cctl, cctl_bits
    <3>4. Tsize \in 1..TransferMask  BY <1>1, <1>6, <1>7, <2>1, Parts
    <3>5. bd.src % Boundary \in Nat /\ bd.dst % Boundary \in Nat  BY <1>1, Parts
    <3>6. /\ SrcIncr => WithinBoundary(bd.src, n)
          /\ DstIncr => WithinBoundary(bd.dst, n)
      BY <1>1, <1>6, <1>7, <3>5, Parts DEF WithinBoundary
    <3>7. Good(SrcIncr, DstIncr, [src |-> bd.src, dst |-> bd.dst, cctl |-> cctl])
      BY <1>5, <1>7, <3>3, <3>4, <3>6 DEF Good
    <3>8. QED  BY <1>1, <1>7, <3>1, <3>2, <3>7, FillStep
  <2>2. CASE Tsize = 0
    <3>1. pc' = "creep" /\ bd' = bd /\ llis' = llis  BY <2>2 DEF Chunk
    <3>2. llis' \in Seq(Lli) /\ AllGood'  BY <1>1, <3>1, ListStays
    <3>3. FixedStays'  BY <1>1, <3>1 DEF FixedStays, SrcIncr, DstIncr
    <3>4. bd.src = bd.src + 0 /\ bd.dst = bd.dst + 0  BY <1>1, Parts
    <3>5. QED  BY <1>1, <3>1, <3>2, <3>3, <3>4 DEF Types
  <2>3. QED  BY <2>1, <2>2
<1>11. Types'  BY <1>1, <1>9, <1>10 DEF Types, Ended
<1>12. BusWidths'  BY <1>1, <1>10, WidthsStay
<1>13. StaysAligned'
  <2>0. SrcIncr' = SrcIncr /\ DstIncr' = DstIncr  BY <1>1 DEF SrcIncr, DstIncr
  <2>1. CASE pc' = "bug"  BY <2>1 DEF StaysAligned
  <2>2. CASE pc' = "creep" /\ pc' # "bug"
    <3>1. PICK m \in {0, n} :
             /\ bd'.src = (IF SrcIncr THEN bd.src + m ELSE bd.src)
             /\ bd'.dst = (IF DstIncr THEN bd.dst + m ELSE bd.dst)
      BY <1>10, <2>2
    <3>2. m \in Nat /\ m % w = 0 /\ m % bd.sw = 0  BY <1>2, <1>7, <3>1 DEF Widths
    <3>3. ASSUME NEW a \in Nat, NEW v \in {w, bd.sw}, a % v = 0
          PROVE  ((a + m) + creep') % v = 0
      <4>1. v \in Widths /\ creep' \in Nat /\ a + m \in Nat /\ creep' % v = 0 /\ m % v = 0
        BY <1>1, <1>2, <1>9, <3>2, <3>3, Parts
      <4>2. (a + m) % v = 0  BY <3>2, <3>3, <4>1, AlignedSum
      <4>3. QED  BY <4>1, <4>2, AlignedSum
    <3>4. (IF SrcIncr THEN bd'.src + creep' ELSE bd'.src) % bd.sw = 0
      BY <1>1, <1>5, <3>1, <3>3, Parts
    <3>5. (IF DstIncr THEN bd'.dst + creep' ELSE bd'.dst) % bd.dw = 0
      BY <1>1, <1>2, <1>5, <3>1, <3>3, Parts
    <3>6. QED  BY <1>10, <2>0, <2>2, <3>4, <3>5 DEF StaysAligned
  <2>3. QED  BY <1>10, <2>1, <2>2
<1>14. QED  BY <1>10, <1>11, <1>12, <1>13 DEF IInv

(* A single byte before the buses are aligned, or at the end. *)
LEMMA ByteKeeps ==
    ASSUME IInv, txd' = txd, creep' = creep, NEW next \in {"align", "bytes"},
           next = pc, FillByte(next)
    PROVE  IInv'
<1>1. Types /\ BusWidths  BY DEF IInv
<1>2. /\ llis' \in Seq(Lli) /\ AllGood' /\ FixedStays' /\ bd' \in Bd
      /\ bd'.sw = bd.sw /\ bd'.dw = bd.dw /\ pc' \in {"bug", next}
  BY ByteStep
<1>3. Types' /\ StaysAligned'  BY <1>1, <1>2 DEF Types, Ended, StaysAligned
<1>4. BusWidths'  BY <1>1, <1>2, WidthsStay
<1>5. QED  BY <1>2, <1>3, <1>4 DEF IInv

(* The end: only the interrupt bit of the last LLI changes. *)
LEMMA FinishStep == ASSUME IInv, Finish PROVE IInv'
<1>1. Types /\ BusWidths /\ FixedStays /\ AllGood /\ txd' = txd /\ bd' = bd /\ creep' = creep
      /\ pc' \in {"too_many", "built"}
  BY DEF IInv, Finish
<1>2. BusWidths' /\ FixedStays' /\ StaysAligned'
  BY <1>1 DEF BusWidths, FixedStays, StaysAligned, SrcIncr, DstIncr
<1>3. llis' \in Seq(Lli) /\ AllGood'
  <2>1. CASE llis' = llis  BY <1>1, <2>1, ListStays
  <2>2. CASE llis' = [llis EXCEPT ![Len(llis)].cctl.tc_irq = TRUE]
    <3>1. llis \in Seq(Lli) /\ Len(llis) \in Nat /\ DOMAIN llis = 1..Len(llis)
      BY <1>1 DEF Types
    <3>2. DOMAIN llis' = 1..Len(llis)  BY <2>2, <3>1
    <3>3. ASSUME NEW k \in 1..Len(llis)
          PROVE  llis'[k] \in Lli /\ Good(SrcIncr, DstIncr, llis'[k])
      <4>1. llis[k] \in Lli /\ Good(SrcIncr, DstIncr, llis[k])
        BY <1>1, <3>1 DEF AllGood
      <4>2. CASE k # Len(llis)
        <5>1. llis'[k] = llis[k]  BY <2>2, <3>1, <4>2
        <5>2. QED  BY <4>1, <5>1
      <4>3. CASE k = Len(llis)
        <5>1. llis'[k] = [llis[k] EXCEPT !.cctl = [@ EXCEPT !.tc_irq = TRUE]]
          BY <2>2, <3>1, <4>3
        <5>2. /\ llis'[k] \in Lli /\ llis'[k].src = llis[k].src /\ llis'[k].dst = llis[k].dst
              /\ llis'[k].cctl.sw = llis[k].cctl.sw /\ llis'[k].cctl.dw = llis[k].cctl.dw
              /\ llis'[k].cctl.tsize = llis[k].cctl.tsize
          BY <4>1, <5>1 DEF Lli, Cctl
        <5>3. QED  BY <4>1, <5>2 DEF Good
      <4>4. QED  BY <4>2, <4>3
    <3>4. llis' \in [1..Len(llis) -> Lli]
      <4>1. llis' = [k \in 1..Len(llis) |-> llis'[k]]  BY <2>2, <3>1
      <4>2. QED  BY <3>3, <4>1
    <3>5. llis' \in Seq(Lli)  BY <3>1, <3>4
    <3>6. SrcIncr' = SrcIncr /\ DstIncr' = DstIncr  BY <1>1 DEF SrcIncr, DstIncr
    <3>7. QED  BY <3>2, <3>3, <3>5, <3>6 DEF AllGood
  <2>3. QED  BY <2>1, <2>2 DEF Finish
<1>4. Types'  BY <1>1, <1>3 DEF Types, Ended
<1>5. QED  BY <1>1, <1>2, <1>3, <1>4 DEF IInv

(* The steps that add no LLI and set no width. *)
LEMMA QuietStep ==
    ASSUME IInv, NoMemory \/ Begin \/ CreepEnds \/ ChunksEnd PROVE IInv'
<1>1. Types /\ BusWidths /\ FixedStays /\ StaysAligned /\ AllGood
      /\ txd' = txd /\ bd' = bd /\ llis' = llis
  BY DEF IInv, NoMemory, Begin, CreepEnds, ChunksEnd
<1>2. llis' \in Seq(Lli) /\ AllGood'  BY <1>1, ListStays
<1>3. FixedStays'  BY <1>1 DEF FixedStays, SrcIncr, DstIncr
<1>4. Types'  BY <1>1, <1>2 DEF Types, Ended, NoMemory, Begin, CreepEnds, ChunksEnd
<1>5. BusWidths'
  BY <1>1, WidthsStay DEF NoMemory, Begin, CreepEnds, ChunksEnd
<1>6. StaysAligned'
  <2>1. CASE CreepEnds
    <3>1. pc = "creep" /\ pc' = "chunks" /\ (creep = 0 \/ bd.remainder = 0)
      BY <2>1 DEF CreepEnds
    <3>2. bd.src + 0 = bd.src /\ bd.dst + 0 = bd.dst /\ bd.remainder \in Nat  BY <1>1, Parts
    <3>3. QED  BY <1>1, <3>1, <3>2 DEF StaysAligned
  <2>2. CASE NoMemory \/ Begin \/ ChunksEnd
    BY <2>2 DEF StaysAligned, NoMemory, Begin, ChunksEnd
  <2>3. QED  BY <2>1, <2>2
<1>7. QED  BY <1>2, <1>3, <1>4, <1>5, <1>6 DEF IInv

(* Initially the list is empty. *)
LEMMA Initially == ASSUME Init PROVE IInv
<1>1. txd \in Txds /\ txd \in Txd  BY LlisAssumption DEF Init
<1>2. bd = [src |-> txd.src, dst |-> txd.dst, sw |-> txd.width, dw |-> txd.width,
            remainder |-> txd.len]
  BY DEF Init
<1>3. bd \in Bd  BY <1>1, <1>2 DEF Txd, Bd
<1>4. Types  BY <1>1, <1>3 DEF Init, Types
<1>5. BusWidths /\ FixedStays  BY <1>2 DEF BusWidths, FixedStays
<1>6. StaysAligned /\ AllGood  BY DEF Init, StaysAligned, AllGood
<1>7. QED  BY <1>4, <1>5, <1>6 DEF IInv

(* Every step keeps the invariant. *)
LEMMA NextInv == IInv /\ [Next]_vars => IInv'
<1> SUFFICES ASSUME IInv, [Next]_vars PROVE IInv'
  OBVIOUS
<1>1. CASE NoMemory \/ Begin \/ CreepEnds \/ ChunksEnd  BY <1>1, QuietStep
<1>2. CASE AlignByte  BY <1>2, ByteKeeps DEF AlignByte
<1>3. CASE Aligned  BY <1>3, AlignedStep
<1>4. CASE Chunk  BY <1>4, ChunkStep
<1>5. CASE Creep  BY <1>5, CreepStep
<1>6. CASE OddByte  BY <1>6, ByteKeeps DEF OddByte
<1>7. CASE Finish  BY <1>7, FinishStep
<1>8. CASE UNCHANGED vars
  <2>1. txd' = txd /\ pc' = pc /\ bd' = bd /\ creep' = creep /\ llis' = llis
    BY <1>8 DEF vars
  <2>2. QED
    BY <2>1 DEF IInv, Types, BusWidths, FixedStays, StaysAligned, AllGood, SrcIncr, DstIncr
<1>9. QED
  BY <1>1, <1>2, <1>3, <1>4, <1>5, <1>6, <1>7, <1>8 DEF Next

(* No LLI of pl08x_fill_llis_for_desc crosses a boundary, accesses a bus out *)
(* of line or overflows the field of the transfer size, for every boundary,  *)
(* every set of transfers and every size of the table.                       *)
THEOREM ListIsExecutable == Spec => []ListExecutable
<1>1. Init => IInv  BY Initially
<1>2. IInv => ListExecutable
  <2>1. ASSUME IInv, NEW k \in DOMAIN llis PROVE Good(SrcIncr, DstIncr, llis[k])
    BY <2>1 DEF IInv, AllGood
  <2>2. QED
    BY <2>1 DEF ListExecutable, Good, NoBoundaryCrossed, BusesAligned, TsizeFits, Moves, Bytes
<1>3. QED  BY <1>1, NextInv, <1>2, PTL DEF Spec

-----------------------------------------------------------------------------
\* The build data stands where the last LLI has ended, and the remainder is
\* what lies between that and the end of the transfer.
Reached ==
    /\ bd.src = IF llis = <<>> THEN txd.src ELSE SrcAfter(SrcIncr, llis[Len(llis)])
    /\ bd.dst = IF llis = <<>> THEN txd.dst ELSE DstAfter(DstIncr, llis[Len(llis)])
    /\ SrcIncr => bd.src + bd.remainder = txd.src + txd.len
    /\ DstIncr => bd.dst + bd.remainder = txd.dst + txd.len

\* A peripheral transfer of whole words.
Regular ==
    /\ txd.kind # "memcpy" /\ txd.src % txd.width = 0 /\ txd.dst % txd.width = 0
    /\ txd.len % txd.width = 0

\* It stays one of whole words: no byte is sent on its own.
StaysWhole ==
    Regular =>
        /\ bd.sw = txd.width /\ creep = 0
        /\ bd.src % txd.width = 0 /\ bd.dst % txd.width = 0 /\ bd.remainder % txd.width = 0
        /\ pc = "bytes" => bd.remainder = 0
        /\ \A k \in DOMAIN llis : llis[k].cctl.sw = txd.width /\ llis[k].cctl.dw = txd.width

(* Initially nothing is reached. *)
LEMMA ReachInit == ASSUME Init PROVE CopiesExactly /\ Reached
<1>1. bd.src = txd.src /\ bd.dst = txd.dst /\ bd.remainder = txd.len /\ llis = <<>>
      /\ pc = "start"
  BY DEF Init
<1>2. QED  BY <1>1 DEF CopiesExactly, Reached

(* The LLI that is added starts where the build data stands. *)
LEMMA ReachFill ==
    ASSUME Types, CopiesExactly, Reached, txd' = txd, pc # "built",
           NEW n \in Nat, NEW cctl \in Cctl, NEW next, next # "built",
           n = cctl.tsize * cctl.sw, FillLli(n, cctl, next)
    PROVE  CopiesExactly' /\ Reached'
<1> DEFINE new == [src |-> bd.src, dst |-> bd.dst, cctl |-> cctl]
<1>0. SrcIncr' = SrcIncr /\ DstIncr' = DstIncr  BY DEF SrcIncr, DstIncr
<1>1. llis \in Seq(Lli) /\ new \in Lli  BY Parts DEF Types, Lli
<1>2. CASE pc' = "bug" /\ UNCHANGED <<bd, llis>>
  BY <1>0, <1>2 DEF CopiesExactly, Reached, SrcAfter, DstAfter, Bytes
<1>3. CASE /\ ~(Len(llis) >= MaxLlis \/ bd.remainder < n)
           /\ pc' = next /\ llis' = Append(llis, new)
           /\ bd' = [bd EXCEPT !.src = IF SrcIncr THEN @ + n ELSE @,
                               !.dst = IF DstIncr THEN @ + n ELSE @,
                               !.remainder = @ - n]
  <2>1. /\ bd'.src = (IF SrcIncr THEN bd.src + n ELSE bd.src)
        /\ bd'.dst = (IF DstIncr THEN bd.dst + n ELSE bd.dst)
        /\ bd'.remainder = bd.remainder - n
    BY <1>3, Parts
  <2>2. /\ Len(llis') = Len(llis) + 1 /\ Len(llis) \in Nat
        /\ DOMAIN llis' = 1..(Len(llis) + 1) /\ DOMAIN llis = 1..Len(llis)
        /\ llis'[Len(llis) + 1] = new /\ \A k \in DOMAIN llis : llis'[k] = llis[k]
        /\ llis' # <<>> /\ (llis = <<>> <=> Len(llis) = 0)
    <3> HIDE DEF new
    <3>1. Len(llis') = Len(llis) + 1 /\ Len(llis) \in Nat  BY <1>1, <1>3
    <3>2. DOMAIN llis' = 1..(Len(llis) + 1) /\ DOMAIN llis = 1..Len(llis)  BY <1>1, <1>3
    <3>3. llis'[Len(llis) + 1] = new /\ \A k \in DOMAIN llis : llis'[k] = llis[k]
      BY <1>1, <1>3
    <3>4. llis' # <<>> /\ (llis = <<>> <=> Len(llis) = 0)  BY <1>1, <3>1
    <3>5. QED  BY <3>1, <3>2, <3>3, <3>4
  <2>3. SrcAfter(SrcIncr, new) = bd'.src /\ DstAfter(DstIncr, new) = bd'.dst
    <3>1. Bytes(new) = n  BY DEF Bytes
    <3>2. new.src = bd.src /\ new.dst = bd.dst  OBVIOUS
    <3> HIDE DEF new
    <3>3. QED  BY <2>1, <3>1, <3>2 DEF SrcAfter, DstAfter
  <2> HIDE DEF new
  <2>4. Reached'
    <3>1. bd'.src = SrcAfter(SrcIncr, llis'[Len(llis')]) /\ bd'.dst = DstAfter(DstIncr, llis'[Len(llis')])
      BY <2>2, <2>3
    <3>2. /\ SrcIncr => bd'.src + bd'.remainder = txd.src + txd.len
          /\ DstIncr => bd'.dst + bd'.remainder = txd.dst + txd.len
      <4>1. /\ bd.src \in Nat /\ bd.dst \in Nat /\ bd.remainder \in Nat
            /\ txd.src \in Nat /\ txd.dst \in Nat /\ txd.len \in Nat  BY Parts DEF Txd
      <4>2. /\ SrcIncr => bd.src + bd.remainder = txd.src + txd.len
            /\ DstIncr => bd.dst + bd.remainder = txd.dst + txd.len  BY DEF Reached
      <4>3. QED  BY ONLY <2>1, <4>1, <4>2, n \in Nat
    <3>3. QED  BY <1>0, <2>2, <3>1, <3>2 DEF Reached
  <2>5. ASSUME NEW k \in DOMAIN llis'
        PROVE  IF k = 1 THEN llis'[k].src = txd.src /\ llis'[k].dst = txd.dst
               ELSE /\ llis'[k].src = SrcAfter(SrcIncr, llis'[k - 1])
                    /\ llis'[k].dst = DstAfter(DstIncr, llis'[k - 1])
    <3>1. CASE k \in DOMAIN llis
      <4>1. llis'[k] = llis[k] /\ (k # 1 => llis'[k - 1] = llis[k - 1])  BY <2>2, <3>1
      <4>2. QED  BY <3>1, <4>1 DEF CopiesExactly
    <3>2. CASE k = Len(llis) + 1
      <4>1. llis'[k].src = bd.src /\ llis'[k].dst = bd.dst  BY <2>2, <3>2 DEF new
      <4>2. CASE k = 1  BY <2>2, <3>2, <4>1, <4>2 DEF Reached
      <4>3. CASE k # 1
        <5>1. llis # <<>> /\ k - 1 = Len(llis) /\ llis'[k - 1] = llis[Len(llis)]
          BY <2>2, <3>2, <4>3
        <5>2. QED  BY <4>1, <4>3, <5>1 DEF Reached
      <4>4. QED  BY <4>2, <4>3
    <3>3. QED  BY <2>2, <3>1, <3>2
  <2>6. CopiesExactly'  BY <1>0, <1>3, <2>5 DEF CopiesExactly
  <2>7. QED  BY <2>4, <2>6
<1>4. QED  BY <1>2, <1>3 DEF FillLli

(* The end: the last LLI has reached the end of the transfer. *)
LEMMA ReachFinish == ASSUME Types, CopiesExactly, Reached, Finish PROVE CopiesExactly' /\ Reached'
<1>0. /\ txd' = txd /\ bd' = bd /\ bd.remainder = 0 /\ SrcIncr' = SrcIncr /\ DstIncr' = DstIncr
      /\ pc # "built" /\ llis \in Seq(Lli) /\ txd \in Txd
  BY LlisAssumption DEF Finish, SrcIncr, DstIncr, Types
<1>1. CASE pc' = "too_many" /\ llis' = llis
  BY <1>0, <1>1 DEF CopiesExactly, Reached
<1>2. CASE pc' = "built" /\ llis' = [llis EXCEPT ![Len(llis)].cctl.tc_irq = TRUE]
  <2>1. Len(llis) \in Nat /\ DOMAIN llis = 1..Len(llis) /\ DOMAIN llis' = 1..Len(llis)
    BY <1>0, <1>2
  <2>2. ASSUME NEW k \in DOMAIN llis
        PROVE  /\ llis'[k].src = llis[k].src /\ llis'[k].dst = llis[k].dst
               /\ Bytes(llis'[k]) = Bytes(llis[k])
    <3>1. CASE k # Len(llis)  BY <1>2, <2>1, <3>1
    <3>2. CASE k = Len(llis)
      <4>1. llis'[k] = [llis[k] EXCEPT !.cctl = [@ EXCEPT !.tc_irq = TRUE]] /\ llis[k] \in Lli
        BY <1>0, <1>2, <2>1, <3>2
      <4>2. /\ llis'[k].src = llis[k].src /\ llis'[k].dst = llis[k].dst
            /\ llis'[k].cctl.sw = llis[k].cctl.sw /\ llis'[k].cctl.tsize = llis[k].cctl.tsize
        BY <4>1 DEF Lli, Cctl
      <4>3. QED  BY <4>2 DEF Bytes
    <3>3. QED  BY <3>1, <3>2
  <2>3. \A k \in DOMAIN llis : /\ SrcAfter(SrcIncr, llis'[k]) = SrcAfter(SrcIncr, llis[k])
                               /\ DstAfter(DstIncr, llis'[k]) = DstAfter(DstIncr, llis[k])
    BY <2>2 DEF SrcAfter, DstAfter
  <2>4. llis # <<>>
    <3>1. SrcIncr \/ DstIncr  BY DEF SrcIncr, DstIncr
    <3>2. txd.len > 0 /\ txd.src \in Nat /\ txd.dst \in Nat /\ txd.len \in Nat  BY <1>0 DEF Txd
    <3>3. QED  BY <1>0, <3>1, <3>2 DEF Reached
  <2>5. Len(llis) \in DOMAIN llis /\ Len(llis') = Len(llis) /\ llis' # <<>>
    <3>1. Len(llis) > 0  BY <1>0, <2>1, <2>4
    <3>2. Len(llis') = Len(llis)  BY <1>0, <1>2
    <3>3. 1 \in DOMAIN llis'  BY <2>1, <3>1
    <3>4. QED  BY <2>1, <3>1, <3>2, <3>3
  <2>6. Reached'  BY <1>0, <2>3, <2>4, <2>5 DEF Reached
  <2>7. \A k \in DOMAIN llis' :
          IF k = 1 THEN llis'[k].src = txd.src /\ llis'[k].dst = txd.dst
          ELSE /\ llis'[k].src = SrcAfter(SrcIncr, llis'[k - 1])
               /\ llis'[k].dst = DstAfter(DstIncr, llis'[k - 1])
    BY <2>1, <2>2, <2>3 DEF CopiesExactly
  <2>8. /\ SrcIncr => SrcAfter(SrcIncr, llis'[Len(llis')]) = txd.src + txd.len
        /\ DstIncr => DstAfter(DstIncr, llis'[Len(llis')]) = txd.dst + txd.len
    <3>1. /\ SrcIncr => bd.src = txd.src + txd.len
          /\ DstIncr => bd.dst = txd.dst + txd.len
      BY <1>0, Parts DEF Reached
    <3>2. QED  BY <2>3, <2>4, <2>5, <3>1 DEF Reached
  <2>9. QED  BY <1>0, <1>2, <2>5, <2>6, <2>7, <2>8 DEF CopiesExactly
<1>3. QED  BY <1>1, <1>2 DEF Finish

(* The list grows from where it has got to, whatever the step. *)
LEMMA ReachNext == IInv /\ CopiesExactly /\ Reached /\ [Next]_vars => CopiesExactly' /\ Reached'
<1> SUFFICES ASSUME IInv, CopiesExactly, Reached, [Next]_vars PROVE CopiesExactly' /\ Reached'
  OBVIOUS
<1>0. Types /\ BusWidths  BY DEF IInv
<1>1. ASSUME UNCHANGED <<txd, llis>>, bd'.src = bd.src, bd'.dst = bd.dst,
             bd'.remainder = bd.remainder, pc' = "built" => pc = "built"
      PROVE  CopiesExactly' /\ Reached'
  BY <1>1 DEF CopiesExactly, Reached, SrcIncr, DstIncr
<1>2. CASE NoMemory \/ Begin \/ CreepEnds \/ ChunksEnd \/ UNCHANGED vars
  BY <1>1, <1>2 DEF NoMemory, Begin, CreepEnds, ChunksEnd, vars
<1>3. CASE Aligned
  <2>1. /\ bd'.src = bd.src /\ bd'.dst = bd.dst /\ bd'.remainder = bd.remainder
        /\ pc' = "chunks" /\ UNCHANGED <<txd, llis>>
    BY <1>0, <1>3, Parts DEF Aligned
  <2>2. QED  BY <1>1, <2>1
<1>4. ASSUME NEW next \in {"align", "creep", "bytes"}, FillByte(next), txd' = txd, pc # "built"
      PROVE  CopiesExactly' /\ Reached'
  <2>1. cctl_bits(1, 1, 1) \in Cctl  BY <1>0, ByteGood
  <2>2. 1 = cctl_bits(1, 1, 1).tsize * cctl_bits(1, 1, 1).sw  BY DEF cctl_bits
  <2>3. FillLli(1, cctl_bits(1, 1, 1), next)  BY <1>4 DEF FillByte
  <2>4. QED  BY <1>0, <1>4, <2>1, <2>2, <2>3, ReachFill
<1>5. CASE AlignByte \/ Creep \/ OddByte  BY <1>4, <1>5 DEF AlignByte, Creep, OddByte
<1>6. CASE Chunk
  <2> DEFINE n == Tsize * Least(bd.sw, bd.dw)
             cctl == cctl_bits(bd.sw, bd.dw, Tsize)
  <2>1. CASE Tsize = 0
    BY <1>1, <1>6, <2>1 DEF Chunk
  <2>2. CASE Tsize # 0
    <3>1. FillLli(n, cctl, "creep") /\ txd' = txd /\ pc # "built"  BY <1>6, <2>2 DEF Chunk
    <3>2. bd.dw = txd.width /\ bd.sw \in {1, txd.width} /\ txd.width \in Widths
          /\ bd.sw \in Widths /\ bd.dw \in Widths
      BY <1>0, Parts DEF BusWidths
    <3>3. Least(bd.sw, bd.dw) = bd.sw /\ mbus.buswidth = txd.width
      <4>1. Least(bd.sw, bd.dw) = bd.sw  BY <3>2 DEF Least, Widths
      <4>2. ~DstIncr => bd.sw = txd.width  BY <1>0 DEF BusWidths
      <4>3. QED  BY <3>2, <4>1, <4>2 DEF mbus, MasterIsDst
    <3>4. Tsize \in Nat /\ Tsize * bd.sw \in Nat
      <4>1. Nearest \in Nat  BY <1>0, NearestBound
      <4>2. Tsize = ((Nearest \div txd.width) * txd.width) \div bd.sw  BY <3>3 DEF Tsize
      <4>3. QED  BY <3>2, <4>1, <4>2, Rounding
    <3>5. n = cctl.tsize * cctl.sw /\ cctl \in Cctl /\ n \in Nat
      <4>1. cctl \in Cctl  BY <3>2, <3>4 DEF cctl_bits, Cctl
      <4>2. cctl.tsize = Tsize /\ cctl.sw = bd.sw  BY DEF cctl_bits
      <4>3. QED  BY <3>3, <3>4, <4>1, <4>2
    <3> HIDE DEF n, cctl
    <3>6. QED  BY <1>0, <3>1, <3>5, ReachFill
  <2>3. QED  BY <2>1, <2>2
<1>7. CASE Finish  BY <1>0, <1>7, ReachFinish
<1>8. QED  BY <1>2, <1>3, <1>5, <1>6, <1>7 DEF Next

(* The LLIs of pl08x_fill_llis_for_desc join without a gap and without an    *)
(* overlap, from the first byte of the transfer to the last, on every bus    *)
(* that counts up, for every boundary, every set of transfers and every      *)
(* size of the table.                                                        *)
THEOREM ListCopiesExactly == Spec => []CopiesExactly
<1>1. Init => IInv /\ CopiesExactly /\ Reached  BY Initially, ReachInit
<1>2. QED  BY <1>1, NextInv, ReachNext, PTL DEF Spec

-----------------------------------------------------------------------------
(* A boundary is a whole number of words from an aligned address. *)
LEMMA WordsToBoundary ==
    ASSUME NEW w \in Widths, NEW a \in Nat, a % w = 0
    PROVE  /\ Boundary - (a % Boundary) \in Nat
           /\ (Boundary - (a % Boundary)) % w = 0
<1>1. Boundary \in Nat /\ Boundary > 0 /\ Boundary % 4 = 0  BY LlisAssumption
<1>2. PICK m \in Nat : Boundary = 4 * m  BY <1>1
<1>3. PICK q \in Nat : a = Boundary * q + (a % Boundary)
  <2>1. a \div Boundary \in Nat /\ a = Boundary * (a \div Boundary) + (a % Boundary)
    BY <1>1
  <2>2. QED  BY <2>1
<1>4. Boundary * q = 4 * (m * q) /\ m * q \in Nat  BY <1>2
<1>5. PICK x \in Nat : x = m * q  BY <1>4
<1>6. PICK r \in 0..(Boundary - 1) : r = a % Boundary  BY <1>1
<1>7. a = 4 * x + r /\ Boundary = 4 * m  BY <1>2, <1>3, <1>4, <1>5, <1>6
<1>8. QED  BY <1>1, <1>6, <1>7 DEF Widths

(* With one bus that counts up an LLI stops at a whole number of words, or   *)
(* where the target is reached, so no bytes have to be sent across.          *)
LEMMA NoCreep ==
    ASSUME Types, BusWidths, Regular, bd.sw = txd.width, bd.src % txd.width = 0,
           bd.dst % txd.width = 0
    PROVE  CreepBytes = 0
<1>0. /\ txd.width \in Widths /\ bd.src \in Nat /\ bd.dst \in Nat /\ bd.dw = txd.width
      /\ mbus.buswidth = txd.width
  BY Parts DEF BusWidths, mbus
<1>1. Target \in Nat
  <2>1. /\ bd.remainder \in Nat /\ txd.width \in {1, 2, 4} /\ TransferMask \in Nat
    BY Parts DEF Widths
  <2>2. txd.width * TransferMask \in Nat  BY <2>1
  <2>3. QED  BY <2>1, <2>2 DEF Target, Least
<1>2. ASSUME NEW a \in Nat, a % txd.width = 0
      PROVE  LET p == Least(pl08x_pre_boundary(a, Target), Target) IN
             p = Target \/ p % txd.width = 0
  <2> DEFINE b == Boundary - (a % Boundary)
  <2>1. b \in Nat /\ b % txd.width = 0  BY <1>0, <1>2, WordsToBoundary
  <2>2. pl08x_pre_boundary(a, Target) = Least(b, Target)  BY DEF pl08x_pre_boundary
  <2> HIDE DEF b
  <2>3. QED  BY <1>1, <2>1, <2>2 DEF Least
<1>3. Nearest = Target \/ Nearest % txd.width = 0
  <2>1. CASE SrcIncr /\ ~DstIncr
    <3>1. Nearest = Least(pl08x_pre_boundary(bd.src, Target), Target)  BY <2>1 DEF Nearest
    <3>2. QED  BY <1>0, <1>2, <3>1
  <2>2. CASE ~SrcIncr /\ DstIncr
    <3> DEFINE d == pl08x_pre_boundary(bd.dst, Target)
    <3>1. Nearest = Least(Target, d)  BY <2>2 DEF Nearest
    <3>2. Least(d, Target) = Target \/ Least(d, Target) % txd.width = 0  BY <1>0, <1>2
    <3>3. d \in Int
      <4>1. bd.dst % Boundary \in Int /\ Boundary \in Int  BY Parts
      <4>2. QED  BY <1>1, <4>1 DEF pl08x_pre_boundary, Least
    <3> HIDE DEF d
    <3>4. Least(Target, d) = Least(d, Target)  BY <1>1, <3>3 DEF Least
    <3>5. QED  BY <3>1, <3>2, <3>4
  <2>3. (SrcIncr /\ ~DstIncr) \/ (~SrcIncr /\ DstIncr)
    BY Parts DEF Regular, SrcIncr, DstIncr, Txd
  <2>4. QED  BY <2>1, <2>2, <2>3
<1>4. QED  BY <1>0, <1>3 DEF CreepBytes

(* Words added to words. *)
LEMMA WordSteps ==
    ASSUME NEW w \in Widths, NEW a \in Nat, NEW n \in Nat, a % w = 0, n % w = 0
    PROVE  (a + n) % w = 0 /\ (n <= a => (a - n) % w = 0)
  BY DEF Widths

(* Initially the transfer is what the client asked for. *)
LEMMA WholeInit == ASSUME Init PROVE StaysWhole
<1>1. /\ bd.src = txd.src /\ bd.dst = txd.dst /\ bd.remainder = txd.len /\ llis = <<>>
      /\ bd.sw = txd.width /\ pc = "start" /\ creep = 0
  BY DEF Init
<1>2. QED  BY <1>1 DEF StaysWhole, Regular

(* No step of a transfer of whole words sends a single byte. *)
LEMMA WholeNext == IInv /\ IInv' /\ StaysWhole /\ [Next]_vars => StaysWhole'
<1> SUFFICES ASSUME IInv, IInv', StaysWhole, [Next]_vars, Regular' PROVE StaysWhole'
  BY DEF StaysWhole
<1> DEFINE w == txd.width
<1>0. Types /\ BusWidths /\ Types' /\ BusWidths' /\ txd' = txd
  BY DEF IInv, Next, vars, NoMemory, Begin, AlignByte, Aligned, Chunk, Creep, CreepEnds,
         ChunksEnd, OddByte, Finish
<1>1. Regular  BY <1>0 DEF Regular
<1>2. /\ bd.sw = w /\ bd.dw = w /\ creep = 0 /\ bd.src % w = 0 /\ bd.dst % w = 0
      /\ bd.remainder % w = 0 /\ (pc = "bytes" => bd.remainder = 0)
      /\ \A k \in DOMAIN llis : llis[k].cctl.sw = w /\ llis[k].cctl.dw = w
  BY <1>0, <1>1 DEF StaysWhole, BusWidths
<1>3. w \in Widths /\ bd.src \in Nat /\ bd.dst \in Nat /\ bd.remainder \in Nat
  BY <1>0, Parts
<1>4. mbus.buswidth = w /\ mbus.addr % w = 0 /\ sbus.buswidth = w /\ sbus.addr % w = 0
  BY <1>2 DEF mbus, sbus
<1>5. ASSUME UNCHANGED <<bd, llis>>, creep' = 0, pc' = "bytes" => bd.remainder = 0
      PROVE  StaysWhole'
  BY <1>0, <1>2, <1>5 DEF StaysWhole
<1>6. CASE NoMemory \/ CreepEnds \/ UNCHANGED vars
  BY <1>2, <1>5, <1>6 DEF NoMemory, CreepEnds, vars
<1>7. CASE Begin
  <2>1. txd.len % w = 0 /\ txd.len \in Nat \ {0}  BY <1>0, <1>1, Parts DEF Regular, Txd
  <2>2. ~(txd.len < w)  BY <1>3, <2>1 DEF Widths
  <2>3. QED  BY <1>2, <1>4, <1>5, <1>7, <2>2 DEF Begin
<1>8. CASE AlignByte  BY <1>4, <1>8 DEF AlignByte
<1>9. CASE Aligned
  <2>1. bd' = bd /\ llis' = llis /\ creep' = creep /\ pc' = "chunks"  BY <1>4, <1>9 DEF Aligned
  <2>2. QED  BY <1>2, <1>5, <2>1
<1>10. CASE ChunksEnd
  <2>1. bd.remainder = 0  BY <1>2, <1>3, <1>4, <1>10 DEF ChunksEnd, Widths
  <2>2. QED  BY <1>2, <1>5, <1>10, <2>1 DEF ChunksEnd
<1>11. CASE Creep  BY <1>2, <1>11 DEF Creep
<1>12. CASE OddByte  BY <1>2, <1>12 DEF OddByte
<1>13. CASE Chunk
  <2> DEFINE n == Tsize * Least(bd.sw, bd.dw)
             cctl == cctl_bits(bd.sw, bd.dw, Tsize)
             new == [src |-> bd.src, dst |-> bd.dst, cctl |-> cctl]
  <2>1. creep' = 0  BY <1>0, <1>1, <1>2, <1>13, NoCreep DEF Chunk
  <2>2. CASE pc' \in {"creep", "bug"} /\ UNCHANGED <<bd, llis>>  BY <1>5, <2>1, <2>2
  <2>3. CASE FillLli(n, cctl, "creep") /\ ~(pc' \in {"creep", "bug"} /\ UNCHANGED <<bd, llis>>)
    <3>1. Least(bd.sw, bd.dw) = w  BY <1>2, <1>3 DEF Least, Widths
    <3>2. n \in Nat /\ n % w = 0
      <4>1. Nearest \in Nat  BY <1>0, NearestBound
      <4>2. Tsize = ((Nearest \div w) * w) \div w  BY <1>2, <1>4, <3>1 DEF Tsize
      <4>3. Tsize * w \in Nat /\ (Tsize * w) % w = 0  BY <1>3, <4>1, <4>2, Rounding
      <4>4. QED  BY <3>1, <4>3
    <3>3. cctl.sw = w /\ cctl.dw = w  BY <1>2 DEF cctl_bits
    <3> HIDE DEF n, cctl
    <3>4. /\ ~(bd.remainder < n) /\ pc' = "creep" /\ llis' = Append(llis, new)
          /\ bd' = [bd EXCEPT !.src = IF SrcIncr THEN @ + n ELSE @,
                              !.dst = IF DstIncr THEN @ + n ELSE @,
                              !.remainder = @ - n]
      BY <2>3 DEF FillLli
    <3>5. /\ bd'.src = (IF SrcIncr THEN bd.src + n ELSE bd.src)
          /\ bd'.dst = (IF DstIncr THEN bd.dst + n ELSE bd.dst)
          /\ n <= bd.remainder /\ bd'.remainder = bd.remainder - n /\ bd'.sw = bd.sw
      BY <1>0, <1>3, <3>2, <3>4, Parts
    <3>6. bd'.src % w = 0 /\ bd'.dst % w = 0 /\ bd'.remainder % w = 0
      <4>1. bd.src % w = 0 /\ bd.dst % w = 0 /\ bd.remainder % w = 0  BY <1>2
      <4>2. w \in Widths /\ bd.src \in Nat /\ bd.dst \in Nat /\ bd.remainder \in Nat
        BY <1>0, <1>3, Parts
      <4>3. (bd.src + n) % w = 0 /\ (bd.dst + n) % w = 0 /\ (bd.remainder - n) % w = 0
        BY ONLY <3>2, <3>5, <4>1, <4>2, WordSteps
      <4>4. QED  BY ONLY <3>5, <4>1, <4>3
    <3>7. \A k \in DOMAIN llis' : llis'[k].cctl.sw = w /\ llis'[k].cctl.dw = w
      <4>1. llis \in Seq(Lli)  BY <1>0 DEF Types
      <4>2. new.cctl = cctl  OBVIOUS
      <4> HIDE DEF new
      <4>3. DOMAIN llis' = 1..(Len(llis) + 1) /\ Len(llis) \in Nat /\ DOMAIN llis = 1..Len(llis)
            /\ llis'[Len(llis) + 1] = new /\ \A k \in DOMAIN llis : llis'[k] = llis[k]
        <5>1. new \in Lli  BY <1>3, <3>4, <1>0, <4>1 DEF Types, new
        <5>2. QED  BY <3>4, <4>1, <5>1
      <4>4. QED  BY <1>2, <3>3, <4>2, <4>3
    <3>8. QED  BY <1>0, <1>2, <2>1, <3>4, <3>5, <3>6, <3>7 DEF StaysWhole
  <2>4. QED  BY <1>13, <2>2, <2>3 DEF Chunk
<1>14. CASE Finish
  <2>1. CASE llis' = llis
    BY <1>2, <1>5, <1>14, <2>1 DEF Finish
  <2>2. CASE llis' = [llis EXCEPT ![Len(llis)].cctl.tc_irq = TRUE]
    <3>1. llis \in Seq(Lli) /\ DOMAIN llis' = DOMAIN llis  BY <1>0, <2>2 DEF Types
    <3>2. ASSUME NEW k \in DOMAIN llis PROVE llis'[k].cctl.sw = w /\ llis'[k].cctl.dw = w
      <4>1. CASE k # Len(llis)  BY <1>2, <2>2, <3>1, <4>1
      <4>2. CASE k = Len(llis)
        <5>1. llis'[k] = [llis[k] EXCEPT !.cctl = [@ EXCEPT !.tc_irq = TRUE]] /\ llis[k] \in Lli
          BY <2>2, <3>1, <4>2
        <5>2. llis'[k].cctl.sw = llis[k].cctl.sw /\ llis'[k].cctl.dw = llis[k].cctl.dw
          BY <5>1 DEF Lli, Cctl
        <5>3. QED  BY <1>2, <5>2
      <4>3. QED  BY <4>1, <4>2
    <3>3. bd' = bd /\ creep' = creep /\ pc' # "bytes"  BY <1>14 DEF Finish
    <3>4. QED  BY <1>0, <1>2, <3>1, <3>2, <3>3 DEF StaysWhole
  <2>3. QED  BY <1>14, <2>1, <2>2 DEF Finish
<1>15. QED
  BY <1>6, <1>7, <1>8, <1>9, <1>10, <1>11, <1>12, <1>13, <1>14 DEF Next

(* A peripheral whose buffer and length are multiples of its width is only   *)
(* ever accessed with that width, for every boundary, every set of transfers *)
(* and every size of the table (pl08x_fill_llis_for_desc).                   *)
THEOREM PeripheralsGetWholeWords == Spec => []WholeWords
<1>1. Init => IInv /\ StaysWhole  BY Initially, WholeInit
<1>2. StaysWhole => WholeWords  BY DEF StaysWhole, WholeWords, Regular
<1>3. QED  BY <1>1, <1>2, NextInv, WholeNext, PTL DEF Spec

-----------------------------------------------------------------------------
\* The single bytes that will be sent across a boundary.
Ahead == Least(creep, bd.remainder)

\* The boundaries that have been reached then, on the master bus and, if both
\* buses count up, on the slave bus.
Passed(to, from) == (to \div Boundary) - (from \div Boundary)
MasterPassed == IF DstIncr THEN Passed(bd.dst + Ahead, txd.dst)
                           ELSE Passed(bd.src + Ahead, txd.src)
SlavePassed == IF txd.kind = "memcpy" THEN Passed(bd.src + Ahead, txd.src) ELSE 0

\* An LLI for each boundary, a word of single bytes for each of the slave bus,
\* and one LLI more once less than a word is left.
Budget ==
    (txd.width - 1) + MasterPassed + (txd.width + 1) * SlavePassed
        + IF bd.remainder - Ahead < txd.width THEN 1 ELSE 0

InBudget ==
    /\ bd.remainder <= txd.len
    /\ pc \notin {"creep", "bug"} => creep = 0
    /\ pc = "start" => llis = <<>> /\ bd.remainder = txd.len
    /\ pc = "align" =>
          /\ txd.len >= txd.width /\ Len(llis) + bd.remainder = txd.len
          /\ Len(llis) < IF mbus.addr % txd.width = 0 THEN txd.width ELSE mbus.addr % txd.width
    /\ pc \in {"chunks", "creep"} => Len(llis) + Ahead <= Budget
    /\ pc = "bytes" => Len(llis) + bd.remainder <= MostLlis
    /\ pc \in {"bug", "too_many"} => MostLlis >= MaxLlis

\* The boundaries a transfer can meet on one bus.
Boundaries == txd.len \div Boundary + 1

(* Multiples of the boundary passed on the way from a to a + p. *)
LEMMA DivSteps ==
    ASSUME NEW a \in Nat, NEW p \in Nat
    PROVE  /\ a \div Boundary \in Nat /\ (a + p) \div Boundary \in Nat /\ p \div Boundary \in Nat
           /\ (a + p) \div Boundary >= a \div Boundary
           /\ (p >= Boundary - (a % Boundary) => (a + p) \div Boundary >= a \div Boundary + 1)
           /\ (a + p) \div Boundary <= a \div Boundary + p \div Boundary + 1
<1>1. Boundary \in Nat /\ Boundary > 0  BY LlisAssumption
<1> DEFINE x == a \div Boundary
           y == p \div Boundary
           z == (a + p) \div Boundary
<1>2. /\ x \in Nat /\ a = Boundary * x + (a % Boundary)
      /\ a % Boundary \in 0..(Boundary - 1)
  BY <1>1
<1>3. /\ y \in Nat /\ p = Boundary * y + (p % Boundary)
      /\ p % Boundary \in 0..(Boundary - 1)
  BY <1>1
<1>4. /\ z \in Nat /\ a + p = Boundary * z + ((a + p) % Boundary)
      /\ (a + p) % Boundary \in 0..(Boundary - 1)
  BY <1>1
<1> HIDE DEF x, y, z
<1>5. ASSUME NEW m \in Int, NEW n \in Int, m < n PROVE Boundary * m + Boundary <= Boundary * n
  <2>1. PICK k \in Nat : n = m + 1 + k  BY <1>5
  <2>2. Boundary * n = Boundary * m + Boundary + Boundary * k  BY <1>1, <2>1
  <2>3. Boundary * k \in Nat /\ Boundary * m \in Int  BY <1>1, <2>1
  <2>4. QED  BY <1>1, <2>2, <2>3
<1>6. Boundary * x \in Nat /\ Boundary * y \in Nat /\ Boundary * z \in Nat
  BY <1>1, <1>2, <1>3, <1>4
<1>7. z >= x
  <2>1. SUFFICES ASSUME z < x PROVE FALSE  BY <1>2, <1>4
  <2>2. Boundary * z + Boundary <= Boundary * x  BY <1>2, <1>4, <1>5, <2>1
  <2>3. QED  BY <1>1, <1>2, <1>4, <1>6, <2>2
<1>8. p >= Boundary - (a % Boundary) => z >= x + 1
  <2>1. SUFFICES ASSUME p >= Boundary - (a % Boundary), z = x PROVE FALSE  BY <1>2, <1>4, <1>7
  <2>2. QED  BY <1>1, <1>2, <1>4, <1>6, <2>1
<1>9. z <= x + y + 1
  <2>1. SUFFICES ASSUME x + y + 1 < z PROVE FALSE  BY <1>2, <1>3, <1>4
  <2>2. Boundary * (x + y + 1) + Boundary <= Boundary * z
    BY <1>2, <1>3, <1>4, <1>5, <2>1
  <2>3. Boundary * (x + y + 1) = Boundary * x + Boundary * y + Boundary
    BY <1>1, <1>2, <1>3
  <2>4. QED  BY <1>1, <1>2, <1>3, <1>4, <1>6, <2>2, <2>3
<1>10. QED  BY <1>2, <1>3, <1>4, <1>7, <1>8, <1>9 DEF x, y, z

(* Within a transfer at most Boundaries are passed on one bus. *)
LEMMA PassedBound ==
    ASSUME Types, NEW from \in Nat, NEW p \in Nat, p <= txd.len
    PROVE  Passed(from + p, from) \in 0..Boundaries /\ Boundaries \in Nat
<1>1. txd.len \in Nat  BY Parts DEF Txd
<1>2. p \div Boundary \in Nat /\ p \div Boundary <= txd.len \div Boundary
  <2>1. p + (txd.len - p) = txd.len /\ txd.len - p \in Nat  BY <1>1
  <2>2. p \div Boundary \in Nat /\ (p + (txd.len - p)) \div Boundary >= p \div Boundary
        /\ (p + (txd.len - p)) \div Boundary \in Nat
    BY <2>1, DivSteps
  <2>3. QED  BY <2>1, <2>2
<1> DEFINE x == from \div Boundary
           y == p \div Boundary
           z == (from + p) \div Boundary
           l == txd.len \div Boundary
<1>3. l \in Nat  BY <1>1, DivSteps
<1>4. x \in Nat /\ z \in Nat /\ z >= x /\ z <= x + y + 1  BY DivSteps
<1>5. Passed(from + p, from) = z - x /\ Boundaries = l + 1  BY DEF Passed, Boundaries
<1> HIDE DEF x, y, z, l
<1>6. y \in Nat /\ y <= l  BY <1>2 DEF y, l
<1>7. QED  BY <1>3, <1>4, <1>5, <1>6

(* The budget is never more than MostLlis, with the bytes at the end added.  *)
LEMMA BudgetBound ==
    ASSUME Types, Reached, bd.remainder <= txd.len
    PROVE  /\ Ahead \in Nat /\ Ahead <= bd.remainder
           /\ MasterPassed \in Nat /\ SlavePassed \in Nat
           /\ Budget \in Nat /\ Budget >= txd.width - 1
           /\ Budget + (txd.width - 1) <= MostLlis /\ MostLlis \in Nat
<1>1. /\ txd.width \in {1, 2, 4} /\ txd.len \in Nat /\ txd.src \in Nat /\ txd.dst \in Nat
      /\ bd.src \in Nat /\ bd.dst \in Nat /\ bd.remainder \in Nat /\ creep \in Nat
  BY Parts DEF Txd, Widths, Types
<1>2. Ahead \in Nat /\ Ahead <= bd.remainder  BY <1>1 DEF Ahead, Least
<1> DEFINE p == txd.len - bd.remainder + Ahead
<1>3. p \in Nat /\ p <= txd.len  BY <1>1, <1>2
<1>4. /\ SrcIncr => bd.src + Ahead = txd.src + p
      /\ DstIncr => bd.dst + Ahead = txd.dst + p
  <2>1. /\ SrcIncr => bd.src + bd.remainder = txd.src + txd.len
        /\ DstIncr => bd.dst + bd.remainder = txd.dst + txd.len
    BY DEF Reached
  <2>2. QED  BY <1>1, <1>2, <2>1
<1> HIDE DEF p
<1>5. /\ Passed(txd.src + p, txd.src) \in 0..Boundaries
      /\ Passed(txd.dst + p, txd.dst) \in 0..Boundaries /\ Boundaries \in Nat
  BY <1>1, <1>3, PassedBound
<1>6. MasterPassed \in 0..Boundaries
  <2>1. ~DstIncr => SrcIncr  BY DEF SrcIncr, DstIncr
  <2>2. QED  BY <1>4, <1>5, <2>1 DEF MasterPassed
<1>7. SlavePassed \in 0..(IF txd.kind = "memcpy" THEN Boundaries ELSE 0)
  <2>1. txd.kind = "memcpy" => SrcIncr  BY DEF SrcIncr
  <2>2. QED  BY <1>4, <1>5, <2>1 DEF SlavePassed
<1>8. Budget = (txd.width - 1) + MasterPassed + (txd.width + 1) * SlavePassed
                 + IF bd.remainder - Ahead < txd.width THEN 1 ELSE 0
  BY DEF Budget
<1>9. MostLlis = 2 * (txd.width - 1) + 1
                   + (IF txd.kind = "memcpy" THEN txd.width + 2 ELSE 1) * Boundaries
  BY DEF MostLlis, Boundaries
<1>10. CASE txd.kind = "memcpy"
  <2>1. CASE txd.width = 1  BY <1>2, <1>5, <1>6, <1>7, <1>8, <1>9, <1>10, <2>1
  <2>2. CASE txd.width = 2  BY <1>2, <1>5, <1>6, <1>7, <1>8, <1>9, <1>10, <2>2
  <2>3. CASE txd.width = 4  BY <1>2, <1>5, <1>6, <1>7, <1>8, <1>9, <1>10, <2>3
  <2>4. QED  BY <1>1, <2>1, <2>2, <2>3
<1>11. CASE txd.kind # "memcpy"
  <2>1. SlavePassed = 0  BY <1>7, <1>11
  <2>2. Budget = (txd.width - 1) + MasterPassed + IF bd.remainder - Ahead < txd.width THEN 1 ELSE 0
    BY <1>1, <1>6, <1>8, <2>1
  <2>3. MostLlis = 2 * (txd.width - 1) + 1 + Boundaries  BY <1>5, <1>9, <1>11
  <2>4. QED  BY <1>1, <1>2, <1>5, <1>6, <2>1, <2>2, <2>3
<1>12. QED  BY <1>10, <1>11

(* An LLI ends with the transfer, at a boundary of the master bus or, short  *)
(* of the target, at one of the slave bus.                                   *)
LEMMA NearestCases ==
    ASSUME Types
    PROVE  \/ Nearest = bd.remainder /\ Nearest = Target
           \/ Nearest = Boundary - (mbus.addr % Boundary)
           \/ /\ txd.kind = "memcpy" /\ Nearest = Boundary - (bd.src % Boundary)
              /\ Nearest < Target
<1>1. /\ txd.width \in {1, 2, 4} /\ bd.remainder \in Nat /\ TransferMask \in Nat
      /\ Boundary \in Nat /\ Boundary > 0 /\ Boundary <= TransferMask
      /\ bd.src \in Nat /\ bd.dst \in Nat
  BY Parts DEF Widths
<1>2. bd.src % Boundary \in 0..(Boundary - 1) /\ bd.dst % Boundary \in 0..(Boundary - 1)
  BY <1>1
<1> DEFINE s == Boundary - (bd.src % Boundary)
           d == Boundary - (bd.dst % Boundary)
<1>3. s \in Nat /\ d \in Nat /\ s <= Boundary /\ d <= Boundary  BY <1>1, <1>2
<1>4. /\ Target \in Nat /\ Target <= bd.remainder
      /\ Target = bd.remainder \/ Target >= Boundary
  <2>1. txd.width * TransferMask \in Nat /\ txd.width * TransferMask >= Boundary  BY <1>1
  <2>2. QED  BY <1>1, <2>1 DEF Target, Least
<1>5. Nearest = Least(IF SrcIncr THEN Least(s, Target) ELSE Target,
                      IF DstIncr THEN Least(d, Target) ELSE Target)
  BY DEF Nearest, pl08x_pre_boundary
<1>6. mbus.addr = IF DstIncr THEN bd.dst ELSE bd.src  BY DEF mbus, MasterIsDst
<1>7. (SrcIncr /\ DstIncr => txd.kind = "memcpy") /\ (SrcIncr \/ DstIncr)
  BY Parts DEF SrcIncr, DstIncr, Txd
<1>8. CASE SrcIncr /\ DstIncr
  <2>1. Nearest = Least(Least(s, Target), Least(d, Target)) /\ Boundary - (mbus.addr % Boundary) = d
    BY <1>5, <1>6, <1>8
  <2> HIDE DEF s, d
  <2>2. \/ Nearest = bd.remainder /\ Nearest = Target
        \/ Nearest = d
        \/ Nearest = s /\ Nearest < Target
    BY <1>1, <1>3, <1>4, <2>1 DEF Least
  <2>3. QED  BY <1>7, <1>8, <2>1, <2>2 DEF s
<1>9. CASE SrcIncr /\ ~DstIncr
  <2>1. Nearest = Least(Least(s, Target), Target) /\ Boundary - (mbus.addr % Boundary) = s
    BY <1>5, <1>6, <1>9
  <2> HIDE DEF s, d
  <2>2. (Nearest = bd.remainder /\ Nearest = Target) \/ Nearest = s
    BY <1>1, <1>3, <1>4, <2>1 DEF Least
  <2>3. QED  BY <2>1, <2>2
<1>10. CASE ~SrcIncr /\ DstIncr
  <2>1. Nearest = Least(Target, Least(d, Target)) /\ Boundary - (mbus.addr % Boundary) = d
    BY <1>5, <1>6, <1>10
  <2> HIDE DEF s, d
  <2>2. (Nearest = bd.remainder /\ Nearest = Target) \/ Nearest = d
    BY <1>1, <1>3, <1>4, <2>1 DEF Least
  <2>3. QED  BY <2>1, <2>2
<1>11. QED  BY <1>7, <1>8, <1>9, <1>10

(* What a step of n bytes that leaves e to be sent ahead adds to the budget. *)
LEMMA PassedMore ==
    ASSUME NEW a \in Nat, NEW from \in Nat, NEW p \in Nat
    PROVE  /\ Passed(a, from) \in Int /\ Passed(a + p, from) \in Int
           /\ Passed(a + p, from) >= Passed(a, from)
           /\ (p >= Boundary - (a % Boundary) => Passed(a + p, from) >= Passed(a, from) + 1)
<1>1. from \div Boundary \in Nat  BY DivSteps
<1>2. /\ a \div Boundary \in Nat /\ (a + p) \div Boundary \in Nat
      /\ (a + p) \div Boundary >= a \div Boundary
      /\ (p >= Boundary - (a % Boundary) => (a + p) \div Boundary >= a \div Boundary + 1)
  BY DivSteps
<1> DEFINE x == a \div Boundary
           y == from \div Boundary
           z == (a + p) \div Boundary
<1>3. Passed(a, from) = x - y /\ Passed(a + p, from) = z - y  BY DEF Passed
<1>4. x \in Nat /\ y \in Nat /\ z \in Nat /\ z >= x  BY <1>1, <1>2
<1>5. p >= Boundary - (a % Boundary) => z >= x + 1  BY <1>2
<1> HIDE DEF x, y, z
<1>6. CASE p >= Boundary - (a % Boundary)  BY <1>3, <1>4, <1>5, <1>6
<1>7. CASE ~(p >= Boundary - (a % Boundary))  BY <1>3, <1>4, <1>7
<1>8. QED  BY <1>6, <1>7

(* The table is full before it is refused. *)
LEMMA FullTable ==
    ASSUME Types, NEW n \in Nat, n <= bd.remainder, NEW cctl, NEW next, FillLli(n, cctl, next),
           Len(llis) <= MostLlis, MostLlis \in Nat
    PROVE  \/ pc' = "bug" /\ MostLlis >= MaxLlis /\ bd' = bd
           \/ /\ pc' = next /\ Len(llis') = Len(llis) + 1
              /\ bd'.src = (IF SrcIncr THEN bd.src + n ELSE bd.src)
              /\ bd'.dst = (IF DstIncr THEN bd.dst + n ELSE bd.dst)
              /\ bd'.remainder = bd.remainder - n /\ bd'.remainder \in Nat
<1>0. llis \in Seq(Lli) /\ Len(llis) \in Nat /\ MaxLlis \in Nat /\ bd.remainder \in Nat
  BY Parts, LlisAssumption DEF Types
<1>1. CASE Len(llis) >= MaxLlis \/ bd.remainder < n
  <2>1. pc' = "bug" /\ bd' = bd  BY <1>1 DEF FillLli
  <2>2. MostLlis >= MaxLlis  BY <1>0, <1>1
  <2>3. QED  BY <2>1, <2>2
<1>2. CASE ~(Len(llis) >= MaxLlis \/ bd.remainder < n)
  <2> DEFINE new == [src |-> bd.src, dst |-> bd.dst, cctl |-> cctl]
  <2>1. /\ pc' = next /\ llis' = Append(llis, new)
        /\ bd' = [bd EXCEPT !.src = IF SrcIncr THEN @ + n ELSE @,
                            !.dst = IF DstIncr THEN @ + n ELSE @,
                            !.remainder = @ - n]
    BY <1>2 DEF FillLli
  <2>2. Len(llis') = Len(llis) + 1
    <3> HIDE DEF new
    <3>1. QED  BY <1>0, <2>1
  <2>3. /\ bd'.src = (IF SrcIncr THEN bd.src + n ELSE bd.src)
        /\ bd'.dst = (IF DstIncr THEN bd.dst + n ELSE bd.dst)
        /\ bd'.remainder = bd.remainder - n
    BY <2>1, Parts
  <2>4. QED  BY <1>0, <2>1, <2>2, <2>3
<1>3. QED  BY <1>1, <1>2

(* A single byte. *)
LEMMA FullByte ==
    ASSUME Types, 1 <= bd.remainder, NEW next, FillByte(next), Len(llis) <= MostLlis, MostLlis \in Nat
    PROVE  \/ pc' = "bug" /\ MostLlis >= MaxLlis /\ bd' = bd
           \/ /\ pc' = next /\ Len(llis') = Len(llis) + 1
              /\ bd'.src = (IF SrcIncr THEN bd.src + 1 ELSE bd.src)
              /\ bd'.dst = (IF DstIncr THEN bd.dst + 1 ELSE bd.dst)
              /\ bd'.remainder = bd.remainder - 1 /\ bd'.remainder \in Nat
<1>1. FillLli(1, cctl_bits(1, 1, 1), next)  BY DEF FillByte
<1>2. QED  BY <1>1, FullTable

(* The transfer does not change, nor do its bounds. *)
LEMMA SameBounds ==
    ASSUME txd' = txd
    PROVE  MostLlis' = MostLlis /\ SrcIncr' = SrcIncr /\ DstIncr' = DstIncr
  BY DEF MostLlis, SrcIncr, DstIncr

(* Rounding down to units of w, counted in units of s: what is left over. *)
LEMMA RoundingLeft ==
    ASSUME NEW w \in Widths, NEW s \in {1, w}, NEW m \in Nat
    PROVE  (((m \div w) * w) \div s) * s = m - (m % w) /\ m % w \in 0..(w - 1)
           /\ m - (m % w) \in Nat
<1>1. CASE w = 1 /\ s = 1  BY <1>1
<1>2. CASE w = 2 /\ s = 1  BY <1>2
<1>3. CASE w = 2 /\ s = 2  BY <1>3
<1>4. CASE w = 4 /\ s = 1  BY <1>4
<1>5. CASE w = 4 /\ s = 4  BY <1>5
<1>6. QED  BY <1>1, <1>2, <1>3, <1>4, <1>5 DEF Widths

(* The bytes for the boundaries of the slave bus. *)
LEMMA SlaveShare ==
    ASSUME NEW w \in Widths, NEW x \in Nat, NEW y \in Int, y >= x
    PROVE  /\ (w + 1) * x \in Nat /\ (w + 1) * y \in Nat /\ (w + 1) * y >= (w + 1) * x
           /\ (y >= x + 1 => (w + 1) * y >= (w + 1) * x + w + 1)
<1>1. CASE w = 1  BY <1>1
<1>2. CASE w = 2  BY <1>2
<1>3. CASE w = 4  BY <1>3
<1>4. QED  BY <1>1, <1>2, <1>3 DEF Widths

(* A word sent ahead crosses the boundary, if the transfer does. *)
LEMMA CrossesBoundary ==
    ASSUME NEW w \in Widths, NEW m \in Nat, NEW r \in Nat, m < r,
           NEW n \in Nat, n = m - (m % w), m % w \in 0..(w - 1),
           NEW e \in Nat, e = Least(w, r - n)
    PROVE  n + e >= m /\ e <= w
  BY DEF Least, Widths

(* The steps of the budget. *)
LEMMA BudgetStep ==
    ASSUME NEW w \in Widths, NEW l \in Nat, NEW k \in Nat, k <= l + 1, NEW e \in Nat,
           NEW m \in Nat, NEW mm \in Int, mm >= m, NEW s \in Nat, NEW ss \in Int, ss >= s,
           NEW F \in {0, 1}, l <= (w - 1) + m + s,
           \/ e = 0 /\ F = 1
           \/ e = 0 /\ mm >= m + 1
    PROVE  k + e <= (w - 1) + mm + ss + F
  BY DEF Widths

(* The step at a boundary of the slave bus. *)
LEMMA BudgetSlave ==
    ASSUME NEW w \in Widths, NEW l \in Nat, NEW k \in Nat, k <= l + 1, NEW e \in Nat, e <= w,
           NEW m \in Nat, NEW mm \in Int, mm >= m, NEW s \in Nat, NEW ss \in Int,
           ss >= s + w + 1, NEW F \in {0, 1}, l <= (w - 1) + m + s
    PROVE  k + e <= (w - 1) + mm + ss + F
  BY DEF Widths

(* The large LLI. *)
LEMMA TableChunk ==
    ASSUME IInv, IInv', Reached, Reached', InBudget, Chunk
    PROVE  InBudget'
<1> DEFINE w == txd.width
           n == Tsize * Least(bd.sw, bd.dw)
           cctl == cctl_bits(bd.sw, bd.dw, Tsize)
<1>1. Types /\ BusWidths /\ Types' /\ txd' = txd /\ pc = "chunks" /\ creep = 0
      /\ creep' = CreepBytes /\ bd.remainder <= txd.len
  BY DEF IInv, Chunk, InBudget
<1>2. /\ w \in {1, 2, 4} /\ w \in Widths /\ bd.sw \in {1, w} /\ bd.dw = w
      /\ (~DstIncr => bd.sw = w)
      /\ bd.src \in Nat /\ bd.dst \in Nat /\ bd.remainder \in Nat /\ txd.len \in Nat
      /\ txd.src \in Nat /\ txd.dst \in Nat
  BY <1>1, Parts DEF BusWidths, Widths, Txd
<1>3. mbus.buswidth = w /\ Least(bd.sw, bd.dw) = bd.sw
  <2>1. Least(bd.sw, bd.dw) = bd.sw  BY <1>2 DEF Least
  <2>2. QED  BY <1>2, <2>1 DEF mbus, MasterIsDst
<1>4. bd.remainder >= w  BY <1>3 DEF Chunk
<1>5. /\ mbus.addr \in Nat /\ mbus.addr % w = 0
      /\ mbus.addr = IF DstIncr THEN bd.dst ELSE bd.src
  <2>1. bd.remainder > 0  BY <1>2, <1>4
  <2>2. bd.src % bd.sw = 0 /\ bd.dst % bd.dw = 0  BY <1>1, <2>1 DEF IInv, StaysAligned
  <2>3. QED  BY <1>2, <2>2 DEF mbus, MasterIsDst
<1>6. Nearest \in Nat /\ Nearest <= bd.remainder  BY <1>1, NearestBound
<1>7. n \in Nat /\ n = Nearest - (Nearest % w) /\ n <= bd.remainder /\ Nearest % w \in 0..(w - 1)
  <2>1. n = (((Nearest \div w) * w) \div bd.sw) * bd.sw  BY <1>3 DEF Tsize
  <2> HIDE DEF n
  <2>2. n = Nearest - (Nearest % w) /\ n \in Nat /\ Nearest % w \in 0..(w - 1)
    BY <1>2, <1>6, <2>1, RoundingLeft
  <2>3. QED  BY <1>2, <1>6, <2>2
<1> HIDE DEF n, cctl
<1>8. Ahead = 0  BY <1>1, <1>2 DEF Ahead, Least
<1>9. /\ Budget = (w - 1) + MasterPassed + (w + 1) * SlavePassed
      /\ Len(llis) <= Budget /\ Budget \in Nat /\ Len(llis) \in Nat
      /\ MasterPassed \in Nat /\ SlavePassed \in Nat
      /\ MostLlis \in Nat /\ Budget <= MostLlis
  <2>1. /\ MasterPassed \in Nat /\ SlavePassed \in Nat /\ Budget \in Nat /\ MostLlis \in Nat
        /\ Budget + (w - 1) <= MostLlis
    BY <1>1, BudgetBound
  <2>2. Len(llis) \in Nat  BY <1>1 DEF Types
  <2>3. Len(llis) + Ahead <= Budget  BY <1>1 DEF InBudget
  <2>4. ~(bd.remainder - Ahead < w)  BY <1>2, <1>4, <1>8
  <2>5. Budget = (w - 1) + MasterPassed + (w + 1) * SlavePassed + 0  BY <2>4 DEF Budget
  <2> DEFINE sp == (w + 1) * SlavePassed
  <2>6. sp \in Nat
    <3>1. SlavePassed \in Int /\ SlavePassed >= SlavePassed  BY <2>1
    <3>2. QED  BY <1>2, <2>1, <3>1, SlaveShare
  <2>7. Budget = (w - 1) + MasterPassed + sp + 0  BY <2>5
  <2> HIDE DEF sp
  <2>8. Budget = (w - 1) + MasterPassed + sp  BY <1>2, <2>1, <2>6, <2>7
  <2>9. Len(llis) <= Budget /\ Budget <= MostLlis  BY <1>2, <1>8, <2>1, <2>2, <2>3
  <2>10. QED  BY <2>1, <2>2, <2>8, <2>9 DEF sp
<1>10. /\ MostLlis' = MostLlis /\ SrcIncr' = SrcIncr /\ DstIncr' = DstIncr
  BY <1>1, SameBounds
<1>11. ASSUME pc' = "bug", MostLlis >= MaxLlis, bd' = bd PROVE InBudget'
  BY <1>1, <1>10, <1>11 DEF InBudget
<1>12. ASSUME pc' = "creep", Len(llis') <= Len(llis) + 1,
              bd'.src = IF SrcIncr THEN bd.src + n ELSE bd.src,
              bd'.dst = IF DstIncr THEN bd.dst + n ELSE bd.dst,
              bd'.remainder = bd.remainder - n
       PROVE  InBudget'
  <2> DEFINE e == Ahead'
             F == IF bd'.remainder - e < w THEN 1 ELSE 0
             ma == mbus.addr
             from == IF DstIncr THEN txd.dst ELSE txd.src
  <2>1. e \in Nat /\ e = Least(creep', bd'.remainder) /\ Len(llis') \in Nat
        /\ bd'.remainder \in Nat /\ bd'.remainder <= txd.len
    <3>1. bd'.remainder \in Nat /\ bd'.remainder <= txd.len
      BY ONLY <1>1, <1>2, <1>7, bd'.remainder = bd.remainder - n
    <3>2. creep' \in Nat /\ Len(llis') \in Nat  BY <1>1 DEF Types
    <3>3. e = Least(creep', bd'.remainder)  BY DEF Ahead, Least
    <3>4. QED  BY <3>1, <3>2, <3>3 DEF Least
  <2>2. Budget' = (w - 1) + MasterPassed' + (w + 1) * SlavePassed' + F
    BY <1>1 DEF Budget
  <2>3. /\ MasterPassed' = Passed(ma + (n + e), from) /\ MasterPassed = Passed(ma, from)
        /\ from \in Nat
    <3>1. CASE DstIncr
      <4>1. MasterPassed = Passed(bd.dst + 0, txd.dst) /\ MasterPassed' = Passed(bd'.dst + e, txd.dst)
        BY <1>1, <1>8, <1>10, <3>1 DEF MasterPassed, Passed
      <4> HIDE DEF e
      <4>2. bd.dst + 0 = ma /\ bd'.dst + e = ma + (n + e)
        <5>1. ma = bd.dst /\ bd'.dst = bd.dst + n  BY <1>5, <1>12, <3>1
        <5> HIDE DEF ma
        <5>2. QED  BY <1>2, <1>7, <2>1, <5>1
      <4>3. QED  BY <1>2, <3>1, <4>1, <4>2
    <3>2. CASE ~DstIncr
      <4>0. SrcIncr  BY <3>2 DEF SrcIncr, DstIncr
      <4>1. MasterPassed = Passed(bd.src + 0, txd.src) /\ MasterPassed' = Passed(bd'.src + e, txd.src)
        BY <1>1, <1>8, <1>10, <3>2 DEF MasterPassed, Passed
      <4> HIDE DEF e
      <4>2. bd.src + 0 = ma /\ bd'.src + e = ma + (n + e)
        <5>1. ma = bd.src /\ bd'.src = bd.src + n  BY <1>5, <1>12, <3>2, <4>0
        <5> HIDE DEF ma
        <5>2. QED  BY <1>2, <1>7, <2>1, <5>1
      <4>3. QED  BY <1>2, <3>2, <4>1, <4>2
    <3>3. QED  BY <3>1, <3>2
  <2>4. txd.kind = "memcpy" => /\ SlavePassed' = Passed(bd.src + (n + e), txd.src)
                               /\ SlavePassed = Passed(bd.src, txd.src)
    <3>1. SUFFICES ASSUME txd.kind = "memcpy"
                   PROVE  /\ SlavePassed' = Passed(bd.src + (n + e), txd.src)
                          /\ SlavePassed = Passed(bd.src, txd.src)
      OBVIOUS
    <3>2. SrcIncr  BY <3>1 DEF SrcIncr
    <3>3. SlavePassed = Passed(bd.src + 0, txd.src) /\ SlavePassed' = Passed(bd'.src + e, txd.src)
      BY <1>1, <1>8, <3>1 DEF SlavePassed, Passed
    <3>4. bd.src + 0 = bd.src /\ bd'.src + e = bd.src + (n + e)
      BY <1>2, <1>7, <1>12, <2>1, <3>2
    <3>5. QED  BY <3>3, <3>4
  <2>5. txd.kind # "memcpy" => SlavePassed = 0 /\ SlavePassed' = 0  BY <1>1 DEF SlavePassed
  <2> HIDE DEF e, ma, from
  <2>6. n + e \in Nat /\ ma \in Nat  BY <1>5, <1>7, <2>1 DEF ma
  <2>7. /\ MasterPassed' \in Int /\ MasterPassed' >= MasterPassed
        /\ (n + e >= Boundary - (ma % Boundary) => MasterPassed' >= MasterPassed + 1)
    BY <2>3, <2>6, PassedMore
  <2>8. /\ SlavePassed' \in Int /\ SlavePassed' >= SlavePassed
        /\ (txd.kind = "memcpy" /\ n + e >= Boundary - (bd.src % Boundary)
              => SlavePassed' >= SlavePassed + 1)
    <3>1. CASE txd.kind = "memcpy"  BY <1>2, <2>4, <2>6, <3>1, PassedMore
    <3>2. CASE txd.kind # "memcpy"  BY <2>5, <3>2
    <3>3. QED  BY <3>1, <3>2
  <2>9. (w + 1) * SlavePassed' >= (w + 1) * SlavePassed /\ (w + 1) * SlavePassed \in Nat
        /\ (w + 1) * SlavePassed' \in Int
        /\ (SlavePassed' >= SlavePassed + 1 => (w + 1) * SlavePassed' >= (w + 1) * SlavePassed + w + 1)
    BY <1>2, <1>9, <2>8, SlaveShare
  <2> DEFINE sp == (w + 1) * SlavePassed
             sq == (w + 1) * SlavePassed'
  <2>10. /\ Len(llis) <= (w - 1) + MasterPassed + sp
         /\ Budget' = (w - 1) + MasterPassed' + sq + F /\ F \in {0, 1}
         /\ sp \in Nat /\ sq \in Int /\ sq >= sp
         /\ (SlavePassed' >= SlavePassed + 1 => sq >= sp + w + 1)
    BY <1>9, <2>2, <2>9
  <2> HIDE DEF sp, sq
  <2>11. Len(llis') + e <= Budget'
    <3>1. CASE Nearest = bd.remainder /\ Nearest = Target
      <4>1. creep' = 0  BY <1>1, <3>1 DEF CreepBytes
      <4>2. e = 0  BY <2>1, <4>1 DEF Least
      <4>3. bd'.remainder = Nearest % w  BY <1>6, <1>7, <1>12, <3>1
      <4>4. bd'.remainder - e < w  BY <1>2, <1>7, <4>2, <4>3
      <4>5. F = 1  BY <4>4
      <4> HIDE DEF F
      <4>6. QED  BY <1>2, <1>9, <1>12, <2>1, <2>7, <2>10, <4>2, <4>5, BudgetStep
    <3>2. CASE Nearest = Boundary - (ma % Boundary)
      <4>1. Nearest % w = 0  BY <1>2, <1>5, <3>2, WordsToBoundary DEF ma
      <4>2. creep' = 0 /\ n = Nearest  BY <1>1, <1>3, <1>6, <1>7, <4>1 DEF CreepBytes
      <4>3. e = 0  BY <2>1, <4>2 DEF Least
      <4>4. MasterPassed' >= MasterPassed + 1  BY <1>6, <2>7, <3>2, <4>2, <4>3
      <4> HIDE DEF F
      <4>5. QED  BY <1>2, <1>9, <1>12, <2>1, <2>7, <2>10, <4>3, <4>4, BudgetStep
    <3>3. CASE /\ txd.kind = "memcpy" /\ Nearest = Boundary - (bd.src % Boundary)
               /\ Nearest < Target
      <4>0. Target \in Nat /\ Target <= bd.remainder
        <5>1. TransferMask \in Nat  BY <1>1, Parts
        <5>2. w * TransferMask \in Nat  BY <1>2, <5>1
        <5>3. QED  BY <1>2, <5>2 DEF Target, Least
      <4>1. n + e >= Nearest /\ e <= w
        <5>1. CASE Nearest % w = 0
          <6>1. creep' = 0 /\ n = Nearest  BY <1>1, <1>3, <1>6, <1>7, <5>1 DEF CreepBytes
          <6>2. QED  BY <1>2, <1>6, <2>1, <6>1 DEF Least
        <5>2. CASE Nearest % w # 0
          <6>1. creep' = w  BY <1>1, <1>3, <1>6, <3>3, <4>0, <5>2 DEF CreepBytes
          <6>2. Nearest < bd.remainder  BY <1>2, <1>6, <3>3, <4>0
          <6>3. QED  BY <1>2, <1>6, <1>7, <1>12, <2>1, <6>1, <6>2, CrossesBoundary
        <5>3. QED  BY <5>1, <5>2
      <4>2. SlavePassed' >= SlavePassed + 1  BY <2>8, <3>3, <4>1
      <4> HIDE DEF F
      <4>3. sq >= sp + w + 1 /\ e <= w  BY <2>10, <4>1, <4>2
      <4>4. QED
        <5> DEFINE l == Len(llis)
                   k == Len(llis')
                   m == MasterPassed
                   mm == MasterPassed'
        <5>1. /\ l \in Nat /\ k \in Nat /\ k <= l + 1 /\ m \in Nat /\ mm \in Int /\ mm >= m
              /\ l <= (w - 1) + m + sp
          BY <1>9, <1>12, <2>1, <2>7, <2>10
        <5>2. Budget' = (w - 1) + mm + sq + F  BY <2>10
        <5>3. w \in Widths /\ e \in Nat /\ sp \in Nat /\ sq \in Int /\ F \in {0, 1}
          BY <1>2, <2>1, <2>10
        <5> HIDE DEF l, k, m, mm, w
        <5>4. k + e <= (w - 1) + mm + sq + F  BY <4>3, <5>1, <5>3, BudgetSlave
        <5>5. QED  BY <5>2, <5>4 DEF k
    <3>4. QED  BY <1>1, <3>1, <3>2, <3>3, NearestCases DEF ma
  <2>12. QED  BY <1>1, <1>12, <2>1, <2>11 DEF InBudget, e
<1>13. CASE Tsize # 0
  <2>1. FillLli(n, cctl, "creep")  BY <1>13 DEF Chunk, n, cctl
  <2>2. Len(llis) <= MostLlis  BY <1>9
  <2>3. \/ pc' = "bug" /\ MostLlis >= MaxLlis /\ bd' = bd
        \/ /\ pc' = "creep" /\ Len(llis') = Len(llis) + 1
           /\ bd'.src = (IF SrcIncr THEN bd.src + n ELSE bd.src)
           /\ bd'.dst = (IF DstIncr THEN bd.dst + n ELSE bd.dst)
           /\ bd'.remainder = bd.remainder - n
    BY <1>1, <1>7, <1>9, <2>1, <2>2, FullTable
  <2>4. QED  BY <1>9, <1>11, <1>12, <2>3
<1>14. CASE Tsize = 0
  <2>1. n = 0  BY <1>2, <1>3, <1>14 DEF n
  <2>2. pc' = "creep" /\ bd' = bd /\ llis' = llis  BY <1>14 DEF Chunk
  <2>3. Len(llis') <= Len(llis) + 1  BY <1>9, <2>2
  <2>4. QED  BY <1>2, <1>12, <2>1, <2>2, <2>3
<1>15. QED  BY <1>13, <1>14

(* The bytes before the master bus is aligned. *)
LEMMA NextResidue ==
    ASSUME NEW w \in Widths, NEW a \in Nat, a % w # 0
    PROVE  /\ a % w \in 1..(w - 1)
           /\ \/ (a + 1) % w = 0 /\ a % w = w - 1
              \/ (a + 1) % w = (a % w) + 1 /\ (a + 1) % w # 0
<1>1. CASE w = 1  BY <1>1
<1>2. CASE w = 2  BY <1>2
<1>3. CASE w = 4  BY <1>3
<1>4. QED  BY <1>1, <1>2, <1>3 DEF Widths

(* A state in which the list is not being cut: nothing of it has changed. *)
LEMMA TableStays ==
    ASSUME InBudget, txd' = txd, bd' = bd, creep' = creep, llis' = llis, pc' = pc
    PROVE  InBudget'
  BY DEF InBudget, mbus, MasterIsDst, DstIncr, Ahead, Budget, MasterPassed, SlavePassed,
         Passed, MostLlis

(* The start. *)
LEMMA TableBegin ==
    ASSUME IInv, Reached, InBudget, NoMemory \/ Begin
    PROVE  InBudget'
<1>1. Types /\ BusWidths /\ txd' = txd /\ bd' = bd /\ creep' = creep /\ llis' = llis
      /\ pc = "start" /\ creep = 0 /\ llis = <<>> /\ bd.remainder = txd.len
      /\ bd.remainder <= txd.len
  BY DEF IInv, InBudget, NoMemory, Begin
<1>2. txd.width \in Widths /\ txd.len \in Nat /\ bd.sw = txd.width /\ bd.dw = txd.width
      /\ bd.src \in Nat /\ bd.dst \in Nat
  BY <1>1, Parts DEF Txd, BusWidths
<1>3. mbus.buswidth = txd.width /\ mbus.addr \in Nat  BY <1>2 DEF mbus, MasterIsDst
<1>4. CASE NoMemory
  <2>1. pc' = "no_memory"  BY <1>4 DEF NoMemory
  <2>2. QED  BY <1>1, <2>1 DEF InBudget
<1>5. CASE Begin /\ txd.len < txd.width
  <2>1. pc' = "bytes"  BY <1>3, <1>5 DEF Begin
  <2>2. /\ Budget \in Nat /\ Budget >= txd.width - 1 /\ Budget + (txd.width - 1) <= MostLlis
        /\ MostLlis \in Nat
    BY <1>1, BudgetBound
  <2>3. Len(llis) = 0  BY <1>1
  <2>4. Len(llis) + bd.remainder <= MostLlis  BY <1>1, <1>2, <1>5, <2>2, <2>3 DEF Widths
  <2>5. MostLlis' = MostLlis  BY <1>1, SameBounds
  <2>6. QED  BY <1>1, <2>1, <2>4, <2>5 DEF InBudget
<1>6. CASE Begin /\ ~(txd.len < txd.width)
  <2>1. pc' = "align"  BY <1>3, <1>6 DEF Begin
  <2>2. Len(llis) = 0  BY <1>1
  <2>3. txd.len >= txd.width /\ Len(llis) + bd.remainder = txd.len
    BY <1>1, <1>2, <1>6, <2>2 DEF Widths
  <2>4. Len(llis) < IF mbus.addr % txd.width = 0 THEN txd.width ELSE mbus.addr % txd.width
    BY <1>2, <1>3, <2>2, NextResidue DEF Widths
  <2>5. mbus' = mbus  BY <1>1 DEF mbus, MasterIsDst, DstIncr
  <2>6. QED  BY <1>1, <2>1, <2>3, <2>4, <2>5 DEF InBudget
<1>7. QED  BY <1>4, <1>5, <1>6

(* A single byte before the master bus is aligned. *)
LEMMA TableAlignByte ==
    ASSUME IInv, Reached, InBudget, AlignByte
    PROVE  InBudget'
<1> DEFINE w == txd.width
           a == mbus.addr
<1>1. Types /\ BusWidths /\ txd' = txd /\ creep' = creep /\ pc = "align" /\ creep = 0
      /\ bd.remainder <= txd.len /\ FillByte("align")
      /\ txd.len >= w /\ Len(llis) + bd.remainder = txd.len
      /\ Len(llis) < IF a % w = 0 THEN w ELSE a % w
  BY DEF IInv, InBudget, AlignByte
<1>2. /\ w \in Widths /\ w \in {1, 2, 4} /\ txd.len \in Nat /\ bd.sw = w /\ bd.dw = w
      /\ bd.src \in Nat /\ bd.dst \in Nat /\ bd.remainder \in Nat
      /\ a \in Nat /\ a = (IF DstIncr THEN bd.dst ELSE bd.src) /\ Len(llis) \in Nat
  BY <1>1, Parts DEF Txd, BusWidths, Types, Widths, mbus, MasterIsDst
<1>3. a % w # 0  BY <1>2 DEF AlignByte, mbus, MasterIsDst
<1>4. /\ a % w \in 1..(w - 1)
      /\ \/ (a + 1) % w = 0 /\ a % w = w - 1
         \/ (a + 1) % w = (a % w) + 1 /\ (a + 1) % w # 0
  BY <1>2, <1>3, NextResidue
<1>5. Len(llis) < a % w  BY <1>1, <1>3
<1>6. 1 <= bd.remainder
  <2> DEFINE r == a % w
  <2> HIDE DEF a
  <2>1. r \in Nat /\ r <= w - 1 /\ Len(llis) < r  BY <1>2, <1>4, <1>5
  <2> HIDE DEF r
  <2>2. QED  BY <1>1, <1>2, <2>1
<1>7. /\ MostLlis \in Nat /\ Len(llis) <= MostLlis
  <2>1. /\ Budget \in Nat /\ Budget >= w - 1 /\ Budget + (w - 1) <= MostLlis /\ MostLlis \in Nat
    BY <1>1, BudgetBound
  <2> DEFINE r == a % w
  <2>2. r \in Nat /\ r <= w - 1 /\ Len(llis) < r  BY <1>2, <1>4, <1>5
  <2> HIDE DEF r, a
  <2>3. QED  BY <1>2, <2>1, <2>2
<1>8. \/ pc' = "bug" /\ MostLlis >= MaxLlis /\ bd' = bd
      \/ /\ pc' = "align" /\ Len(llis') = Len(llis) + 1
         /\ bd'.src = (IF SrcIncr THEN bd.src + 1 ELSE bd.src)
         /\ bd'.dst = (IF DstIncr THEN bd.dst + 1 ELSE bd.dst)
         /\ bd'.remainder = bd.remainder - 1
  BY <1>1, <1>6, <1>7, FullByte
<1>9. MostLlis' = MostLlis /\ DstIncr' = DstIncr  BY <1>1, SameBounds
<1>10. CASE pc' = "bug" /\ MostLlis >= MaxLlis /\ bd' = bd
  BY <1>1, <1>9, <1>10 DEF InBudget
<1>11. CASE /\ pc' = "align" /\ Len(llis') = Len(llis) + 1
            /\ bd'.src = (IF SrcIncr THEN bd.src + 1 ELSE bd.src)
            /\ bd'.dst = (IF DstIncr THEN bd.dst + 1 ELSE bd.dst)
            /\ bd'.remainder = bd.remainder - 1
  <2>1. ~DstIncr => SrcIncr  BY DEF SrcIncr, DstIncr
  <2>2. mbus'.addr = IF DstIncr THEN bd'.dst ELSE bd'.src
    BY <1>9 DEF mbus, MasterIsDst
  <2>3. mbus'.addr = a + 1  BY <1>2, <1>11, <2>1, <2>2
  <2>4. Len(llis') + bd'.remainder = txd.len /\ bd'.remainder <= txd.len
    BY <1>1, <1>2, <1>11
  <2>5. Len(llis') < IF (a + 1) % w = 0 THEN w ELSE (a + 1) % w
    <3> DEFINE r == a % w
               s == (a + 1) % w
    <3>1. /\ r \in 1..(w - 1) /\ Len(llis) < r
          /\ (s = 0 /\ r = w - 1) \/ (s = r + 1 /\ s # 0)
      BY <1>4, <1>5
    <3> HIDE DEF r, s
    <3>2. Len(llis') < IF s = 0 THEN w ELSE s  BY <1>2, <1>11, <3>1
    <3>3. QED  BY <3>2 DEF s
  <2>6. Len(llis') < IF mbus'.addr % txd'.width = 0 THEN txd'.width ELSE mbus'.addr % txd'.width
    BY <1>1, <2>3, <2>5
  <2>7. QED  BY <1>1, <1>11, <2>4, <2>6 DEF InBudget
<1>12. QED  BY <1>8, <1>10, <1>11

(* The master bus is aligned: fewer bytes than a word have been sent. *)
LEMMA TableAligned ==
    ASSUME IInv, Reached, InBudget, Aligned
    PROVE  InBudget'
<1> DEFINE w == txd.width
<1>1. Types /\ BusWidths /\ txd' = txd /\ creep' = creep /\ llis' = llis
      /\ pc = "align" /\ pc' = "chunks" /\ creep = 0 /\ bd.remainder <= txd.len
  BY DEF IInv, InBudget, Aligned
<1>2. /\ w \in {1, 2, 4} /\ txd.len \in Nat /\ bd.sw = w /\ bd.dw = w
      /\ bd.remainder \in Nat /\ Len(llis) \in Nat
  BY <1>1, Parts DEF Txd, BusWidths, Types, Widths
<1>3. mbus.addr % w = 0  BY <1>2 DEF Aligned, mbus, MasterIsDst
<1>4. Len(llis) < w  BY <1>1, <1>3 DEF InBudget
<1>5. bd'.remainder = bd.remainder /\ bd'.src = bd.src /\ bd'.dst = bd.dst
  <2>1. bd' \in {bd, [bd EXCEPT !.sw = 1], [bd EXCEPT !.dw = 1]}  BY DEF Aligned
  <2>2. QED  BY <1>1, <2>1, Parts
<1>6. Ahead' = 0 /\ Ahead = 0  BY <1>1, <1>2, <1>5 DEF Ahead, Least
<1>7. Budget' \in Nat /\ Budget' >= w - 1
  <2>1. MasterPassed' = MasterPassed /\ SlavePassed' = SlavePassed
    BY <1>1, <1>5, <1>6 DEF MasterPassed, SlavePassed, Passed, DstIncr
  <2>2. Budget' = Budget  BY <1>1, <1>5, <1>6, <2>1 DEF Budget
  <2>3. Budget \in Nat /\ Budget >= w - 1  BY <1>1, BudgetBound
  <2>4. QED  BY <2>2, <2>3
<1>8. Len(llis') + Ahead' <= Budget'  BY <1>1, <1>2, <1>4, <1>6, <1>7
<1>9. QED  BY <1>1, <1>5, <1>8 DEF InBudget

(* A single byte across a boundary was in the budget already. *)
LEMMA TableCreep ==
    ASSUME IInv, IInv', Reached, InBudget, Creep
    PROVE  InBudget'
<1>1. Types /\ Types' /\ txd' = txd /\ creep' = creep - 1 /\ pc = "creep" /\ creep > 0
      /\ bd.remainder > 0 /\ bd.remainder <= txd.len /\ FillByte("creep")
      /\ Len(llis) + Ahead <= Budget
  BY DEF IInv, InBudget, Creep
<1>2. /\ txd.width \in {1, 2, 4} /\ bd.remainder \in Nat /\ txd.len \in Nat
      /\ bd.src \in Nat /\ bd.dst \in Nat
      /\ creep \in Nat /\ Len(llis) \in Nat
  BY <1>1, Parts DEF Txd, Types, Widths
<1>3. Ahead \in Nat /\ Ahead >= 1  BY <1>1, <1>2 DEF Ahead, Least
<1>4. /\ Budget \in Nat /\ Budget + (txd.width - 1) <= MostLlis /\ MostLlis \in Nat
  BY <1>1, BudgetBound
<1>5. Len(llis) <= MostLlis /\ 1 <= bd.remainder  BY <1>1, <1>2, <1>3, <1>4
<1>6. \/ pc' = "bug" /\ MostLlis >= MaxLlis /\ bd' = bd
      \/ /\ pc' = "creep" /\ Len(llis') = Len(llis) + 1
         /\ bd'.src = (IF SrcIncr THEN bd.src + 1 ELSE bd.src)
         /\ bd'.dst = (IF DstIncr THEN bd.dst + 1 ELSE bd.dst)
         /\ bd'.remainder = bd.remainder - 1
  BY <1>1, <1>4, <1>5, FullByte
<1>7. MostLlis' = MostLlis /\ DstIncr' = DstIncr /\ SrcIncr' = SrcIncr  BY <1>1, SameBounds
<1>8. CASE pc' = "bug" /\ MostLlis >= MaxLlis /\ bd' = bd
  BY <1>1, <1>7, <1>8 DEF InBudget
<1>9. CASE /\ pc' = "creep" /\ Len(llis') = Len(llis) + 1
           /\ bd'.src = (IF SrcIncr THEN bd.src + 1 ELSE bd.src)
           /\ bd'.dst = (IF DstIncr THEN bd.dst + 1 ELSE bd.dst)
           /\ bd'.remainder = bd.remainder - 1
  <2>1. Ahead' = Ahead - 1  BY <1>1, <1>2, <1>9 DEF Ahead, Least
  <2>2. /\ SrcIncr => bd'.src + Ahead' = bd.src + Ahead
        /\ DstIncr => bd'.dst + Ahead' = bd.dst + Ahead
        /\ bd'.remainder - Ahead' = bd.remainder - Ahead
        /\ bd'.remainder <= txd.len
    <3> DEFINE h == Ahead
               g == Ahead'
    <3>1. h \in Nat /\ g = h - 1  BY <1>3, <2>1
    <3> HIDE DEF h, g
    <3>2. /\ SrcIncr => bd'.src + g = bd.src + h
          /\ DstIncr => bd'.dst + g = bd.dst + h
          /\ bd'.remainder - g = bd.remainder - h
      <4>1. ASSUME NEW a \in Nat, NEW b, b = a + 1 PROVE b + g = a + h  BY <3>1, <4>1
      <4>2. ASSUME NEW a \in Nat, NEW b, b = a - 1 PROVE b - g = a - h  BY <3>1, <4>2
      <4>3. SrcIncr => bd'.src + g = bd.src + h  BY <1>2, <1>9, <4>1
      <4>4. DstIncr => bd'.dst + g = bd.dst + h  BY <1>2, <1>9, <4>1
      <4>5. bd'.remainder - g = bd.remainder - h  BY <1>2, <1>9, <4>2
      <4>6. QED  BY <4>3, <4>4, <4>5
    <3>3. bd'.remainder <= txd.len  BY <1>1, <1>2, <1>9
    <3>4. QED  BY <3>2, <3>3 DEF h, g
  <2>3. MasterPassed' = MasterPassed
    <3>1. ~DstIncr => SrcIncr  BY DEF SrcIncr, DstIncr
    <3>2. CASE DstIncr
      <4>1. MasterPassed = Passed(bd.dst + Ahead, txd.dst)
            /\ MasterPassed' = Passed(bd'.dst + Ahead', txd.dst)
        BY <1>1, <1>7, <3>2 DEF MasterPassed, Passed
      <4>2. QED  BY <2>2, <3>2, <4>1
    <3>3. CASE ~DstIncr
      <4>1. MasterPassed = Passed(bd.src + Ahead, txd.src)
            /\ MasterPassed' = Passed(bd'.src + Ahead', txd.src)
        BY <1>1, <1>7, <3>3 DEF MasterPassed, Passed
      <4>2. QED  BY <2>2, <3>1, <3>3, <4>1
    <3>4. QED  BY <3>2, <3>3
  <2>4. SlavePassed' = SlavePassed
    <3>1. CASE txd.kind = "memcpy"
      <4>1. SlavePassed = Passed(bd.src + Ahead, txd.src)
            /\ SlavePassed' = Passed(bd'.src + Ahead', txd.src)
        BY <1>1, <3>1 DEF SlavePassed, Passed
      <4>2. SrcIncr  BY <3>1 DEF SrcIncr
      <4>3. QED  BY <2>2, <4>1, <4>2
    <3>2. CASE txd.kind # "memcpy"  BY <1>1, <3>2 DEF SlavePassed
    <3>3. QED  BY <3>1, <3>2
  <2>5. Budget' = Budget  BY <1>1, <2>2, <2>3, <2>4 DEF Budget
  <2>6. Len(llis') + Ahead' <= Budget'  BY <1>1, <1>2, <1>3, <1>4, <1>9, <2>1, <2>5
  <2>7. QED  BY <1>1, <1>9, <2>2, <2>6 DEF InBudget
<1>10. QED  BY <1>6, <1>8, <1>9

(* All single bytes across a boundary have been sent. *)
LEMMA TableCreepEnds ==
    ASSUME IInv, InBudget, CreepEnds
    PROVE  InBudget'
<1>1. Types /\ txd' = txd /\ bd' = bd /\ llis' = llis /\ creep' = 0 /\ pc = "creep"
      /\ pc' = "chunks" /\ (creep = 0 \/ bd.remainder = 0) /\ bd.remainder <= txd.len
      /\ Len(llis) + Ahead <= Budget
  BY DEF IInv, InBudget, CreepEnds
<1>2. bd.remainder \in Nat /\ creep \in Nat  BY <1>1, Parts DEF Types
<1>3. Ahead = 0 /\ Ahead' = 0  BY <1>1, <1>2 DEF Ahead, Least
<1>4. MasterPassed' = MasterPassed /\ SlavePassed' = SlavePassed
  BY <1>1, <1>3 DEF MasterPassed, SlavePassed, Passed, DstIncr
<1>5. Budget' = Budget  BY <1>1, <1>3, <1>4 DEF Budget
<1>6. Len(llis') + Ahead' <= Budget'  BY <1>1, <1>3, <1>5
<1>7. QED  BY <1>1, <1>6 DEF InBudget

(* Less than a word is left. *)
LEMMA TableChunksEnd ==
    ASSUME IInv, Reached, InBudget, ChunksEnd
    PROVE  InBudget'
<1>1. Types /\ BusWidths /\ txd' = txd /\ bd' = bd /\ llis' = llis /\ creep' = creep
      /\ pc = "chunks" /\ pc' = "bytes" /\ creep = 0 /\ bd.remainder <= txd.len
      /\ Len(llis) + Ahead <= Budget
  BY DEF IInv, InBudget, ChunksEnd
<1>2. /\ txd.width \in {1, 2, 4} /\ bd.dw = txd.width /\ (~DstIncr => bd.sw = txd.width)
      /\ bd.remainder \in Nat /\ Len(llis) \in Nat
  BY <1>1, Parts DEF BusWidths, Types, Widths
<1>3. bd.remainder < txd.width  BY <1>2 DEF ChunksEnd, mbus, MasterIsDst
<1>4. Ahead \in Nat /\ Budget \in Nat /\ Budget + (txd.width - 1) <= MostLlis /\ MostLlis \in Nat
  BY <1>1, BudgetBound
<1>5. Len(llis) + bd.remainder <= MostLlis  BY <1>1, <1>2, <1>3, <1>4
<1>6. MostLlis' = MostLlis  BY <1>1, SameBounds
<1>7. QED  BY <1>1, <1>5, <1>6 DEF InBudget

(* A single byte at the end. *)
LEMMA TableOddByte ==
    ASSUME IInv, Reached, InBudget, OddByte
    PROVE  InBudget'
<1>1. Types /\ txd' = txd /\ creep' = creep /\ pc = "bytes" /\ creep = 0
      /\ bd.remainder > 0 /\ bd.remainder <= txd.len /\ FillByte("bytes")
      /\ Len(llis) + bd.remainder <= MostLlis
  BY DEF IInv, InBudget, OddByte
<1>2. bd.remainder \in Nat /\ Len(llis) \in Nat /\ txd.len \in Nat
  BY <1>1, Parts DEF Types, Txd
<1>3. MostLlis \in Nat  BY <1>1, BudgetBound
<1>4. Len(llis) <= MostLlis /\ 1 <= bd.remainder  BY <1>1, <1>2, <1>3
<1>5. \/ pc' = "bug" /\ MostLlis >= MaxLlis /\ bd' = bd
      \/ /\ pc' = "bytes" /\ Len(llis') = Len(llis) + 1
         /\ bd'.remainder = bd.remainder - 1
  BY <1>1, <1>3, <1>4, FullByte
<1>6. MostLlis' = MostLlis  BY <1>1, SameBounds
<1>7. CASE pc' = "bug" /\ MostLlis >= MaxLlis /\ bd' = bd
  BY <1>1, <1>6, <1>7 DEF InBudget
<1>8. CASE /\ pc' = "bytes" /\ Len(llis') = Len(llis) + 1
           /\ bd'.remainder = bd.remainder - 1
  <2>1. Len(llis') + bd'.remainder <= MostLlis /\ bd'.remainder <= txd.len
    BY <1>1, <1>2, <1>3, <1>8
  <2>2. QED  BY <1>1, <1>6, <1>8, <2>1 DEF InBudget
<1>9. QED  BY <1>5, <1>7, <1>8

(* The list is complete, or refused. *)
LEMMA TableFinish ==
    ASSUME IInv, Reached, InBudget, Finish
    PROVE  InBudget'
<1>1. Types /\ txd' = txd /\ bd' = bd /\ creep' = creep /\ pc = "bytes" /\ creep = 0
      /\ bd.remainder = 0 /\ bd.remainder <= txd.len
      /\ Len(llis) + bd.remainder <= MostLlis
  BY DEF IInv, InBudget, Finish
<1>2. Len(llis) \in Nat /\ MaxLlis \in Nat  BY <1>1, LlisAssumption DEF Types
<1>3. MostLlis \in Nat /\ MostLlis' = MostLlis  BY <1>1, BudgetBound, SameBounds
<1>4. CASE Len(llis) >= MaxLlis
  <2>1. pc' = "too_many"  BY <1>4 DEF Finish
  <2>2. MostLlis >= MaxLlis  BY <1>1, <1>2, <1>3, <1>4
  <2>3. QED  BY <1>1, <1>3, <2>1, <2>2 DEF InBudget
<1>5. CASE ~(Len(llis) >= MaxLlis)
  <2>1. pc' = "built"  BY <1>5 DEF Finish
  <2>2. QED  BY <1>1, <2>1 DEF InBudget
<1>6. QED  BY <1>4, <1>5

(* The assertion and the refusal of a full table are met only by a transfer  *)
(* whose worst case does not fit in MAX_NUM_TSFR_LLIS items, for every       *)
(* boundary, table size and set of transfers.                                *)
THEOREM TableHoldsTransfers == Spec => []TableHolds
<1>1. Init => IInv /\ CopiesExactly /\ Reached /\ InBudget
  <2>1. SUFFICES ASSUME Init PROVE IInv /\ CopiesExactly /\ Reached /\ InBudget  OBVIOUS
  <2>2. IInv /\ CopiesExactly /\ Reached  BY <2>1, Initially, ReachInit
  <2>3. pc = "start" /\ creep = 0 /\ llis = <<>> /\ bd.remainder = txd.len  BY <2>1 DEF Init
  <2>4. bd.remainder \in Nat  BY <2>2, Parts DEF IInv
  <2>5. InBudget  BY <2>3, <2>4 DEF InBudget
  <2>6. QED  BY <2>2, <2>5
<1>2. IInv /\ CopiesExactly /\ Reached /\ InBudget /\ [Next]_vars
          => IInv' /\ CopiesExactly' /\ Reached' /\ InBudget'
  <2> SUFFICES ASSUME IInv, CopiesExactly, Reached, InBudget, [Next]_vars
               PROVE  IInv' /\ CopiesExactly' /\ Reached' /\ InBudget'
    OBVIOUS
  <2>1. IInv' /\ CopiesExactly' /\ Reached'  BY NextInv, ReachNext
  <2>2. Reached /\ Reached'  BY <2>1
  <2>3. CASE NoMemory \/ Begin  BY <2>1, <2>2, <2>3, TableBegin
  <2>4. CASE AlignByte  BY <2>1, <2>2, <2>4, TableAlignByte
  <2>5. CASE Aligned  BY <2>1, <2>2, <2>5, TableAligned
  <2>6. CASE Chunk  BY <2>1, <2>2, <2>6, TableChunk
  <2>7. CASE Creep  BY <2>1, <2>2, <2>7, TableCreep
  <2>8. CASE CreepEnds  BY <2>1, <2>8, TableCreepEnds
  <2>9. CASE ChunksEnd  BY <2>1, <2>2, <2>9, TableChunksEnd
  <2>10. CASE OddByte  BY <2>1, <2>2, <2>10, TableOddByte
  <2>11. CASE Finish  BY <2>1, <2>2, <2>11, TableFinish
  <2>12. CASE UNCHANGED vars  BY <2>1, <2>12, TableStays DEF vars
  <2>13. QED
    BY <2>1, <2>3, <2>4, <2>5, <2>6, <2>7, <2>8, <2>9, <2>10, <2>11, <2>12 DEF Next
<1>3. InBudget => TableHolds  BY DEF InBudget, TableHolds
<1>4. QED  BY <1>1, <1>2, <1>3, PTL DEF Spec

-----------------------------------------------------------------------------
\* How far the function is within the byte it has to place next.
Phase ==
    CASE pc = "start" -> 6
      [] pc = "align" -> 5
      [] pc = "chunks" -> 3
      [] pc = "creep" -> IF creep > 0 /\ bd.remainder > 0 THEN 2 ELSE 4
      [] pc = "bytes" -> 1
      [] OTHER -> 0

\* No fewer than the steps the function can still take.
Work == 8 * bd.remainder + Phase

(* An LLI that is too short for one unit of the master bus stands before a   *)
(* boundary, and single bytes are sent across it.                            *)
LEMMA ShortChunkCreeps ==
    ASSUME Types, BusWidths, bd.remainder >= mbus.buswidth, Tsize = 0
    PROVE  CreepBytes > 0 /\ bd.remainder > 0
<1>1. /\ bd.dw = txd.width /\ bd.sw \in {1, txd.width} /\ txd.width \in {1, 2, 4}
      /\ bd.sw \in {1, 2, 4} /\ bd.remainder \in Nat /\ TransferMask \in Nat
      /\ Boundary \in Nat /\ Boundary > 0 /\ Boundary <= TransferMask
  BY Parts DEF BusWidths, Widths
<1>2. Least(bd.sw, bd.dw) = bd.sw /\ mbus.buswidth = txd.width
  <2>1. Least(bd.sw, bd.dw) = bd.sw  BY <1>1 DEF Least
  <2>2. ~DstIncr => bd.sw = txd.width  BY DEF BusWidths
  <2>3. QED  BY <1>1, <2>1, <2>2 DEF mbus, MasterIsDst
<1>3. Nearest \in Nat /\ Nearest > 0  BY <1>1, <1>2, NearestBound
<1>4. ((Nearest \div txd.width) * txd.width) \div bd.sw = 0  BY <1>2 DEF Tsize
<1>5. Nearest < txd.width
  <2>1. PICK m \in Nat, w \in {1, 2, 4}, s \in {1, 2, 4} :
            m = Nearest /\ w = txd.width /\ s = bd.sw
    BY <1>1, <1>3
  <2>2. ((m \div w) * w) \div s = 0 /\ s \in {1, w}  BY <1>1, <1>4, <2>1
  <2>3. m < w
    <3>1. CASE s = w  BY <2>2, <3>1
    <3>2. CASE s = 1  BY <2>2, <3>2
    <3>3. QED  BY <2>2, <3>1, <3>2
  <2>4. QED  BY <2>1, <2>3
<1>6. Target >= txd.width
  <2>1. txd.width * TransferMask >= txd.width /\ txd.width * TransferMask \in Nat  BY <1>1
  <2>2. QED  BY <1>1, <1>2, <2>1 DEF Target, Least
<1>7. Target \in Nat
  <2>1. txd.width * TransferMask \in Nat  BY <1>1
  <2>2. QED  BY <1>1, <2>1 DEF Target, Least
<1>8. Nearest # Target /\ Nearest % txd.width # 0  BY <1>1, <1>3, <1>5, <1>6, <1>7
<1>9. CreepBytes = txd.width  BY <1>2, <1>8 DEF CreepBytes
<1>10. QED  BY <1>1, <1>2, <1>9

(* Every step of the function brings it nearer to its return. *)
LEMMA WorkStep == ASSUME IInv, IInv', Next PROVE Work' < Work /\ Work' \in Nat
<1>0. /\ Types /\ BusWidths /\ bd.remainder \in Nat /\ creep \in 0..4
      /\ bd'.remainder \in Nat /\ creep' \in 0..4
  <2>1. Types /\ Types' /\ BusWidths  BY DEF IInv
  <2>2. bd \in Bd /\ bd' \in Bd /\ creep \in 0..4 /\ creep' \in 0..4  BY <2>1 DEF Types
  <2>3. QED  BY <2>1, <2>2 DEF Bd
<1>1. Phase \in 0..6 /\ Phase' \in 0..6  BY DEF Phase
<1>2. ASSUME bd'.remainder < bd.remainder, Phase' <= Phase + 7
      PROVE  Work' < Work /\ Work' \in Nat
  BY <1>0, <1>1, <1>2 DEF Work
<1>3. ASSUME bd'.remainder = bd.remainder, Phase' < Phase
      PROVE  Work' < Work /\ Work' \in Nat
  BY <1>0, <1>1, <1>3 DEF Work
<1>4. Phase' <= Phase + 7  BY <1>1
<1>5. ASSUME txd' = txd, NEW next, FillByte(next), pc \in {"align", "creep", "bytes"}
      PROVE  Work' < Work /\ Work' \in Nat
  <2>1. (pc' = "bug" /\ bd' = bd) \/ bd'.remainder < bd.remainder
    <3>1. FillLli(1, cctl_bits(1, 1, 1), next)  BY <1>5 DEF FillByte
    <3>2. (pc' = "bug" /\ bd' = bd) \/ bd' = [bd EXCEPT !.src = IF SrcIncr THEN @ + 1 ELSE @,
                                                 !.dst = IF DstIncr THEN @ + 1 ELSE @,
                                                 !.remainder = @ - 1]
      BY <3>1 DEF FillLli
    <3>3. CASE pc' = "bug" /\ bd' = bd  BY <3>3
    <3>4. CASE bd' = [bd EXCEPT !.src = IF SrcIncr THEN @ + 1 ELSE @,
                                !.dst = IF DstIncr THEN @ + 1 ELSE @,
                                !.remainder = @ - 1]
      <4>1. bd'.remainder = bd.remainder - 1  BY <1>0, <3>4, Parts
      <4>2. QED  BY <1>0, <4>1
    <3>5. QED  BY <3>2, <3>3, <3>4
  <2>2. CASE pc' = "bug" /\ bd' = bd
    <3>1. Phase' = 0  BY <2>2 DEF Phase
    <3>2. Phase > 0  BY <1>5 DEF Phase
    <3>3. QED  BY <1>3, <2>2, <3>1, <3>2
  <2>3. CASE bd'.remainder < bd.remainder  BY <1>2, <1>4, <2>3
  <2>4. QED  BY <2>1, <2>2, <2>3
<1>6. CASE NoMemory
  <2>1. bd' = bd /\ Phase' = 0 /\ Phase = 6  BY <1>6 DEF NoMemory, Phase
  <2>2. QED  BY <1>3, <2>1
<1>7. CASE Begin
  <2>1. bd' = bd /\ pc = "start" /\ pc' \in {"bytes", "align"}  BY <1>7 DEF Begin
  <2>2. Phase = 6 /\ Phase' \in {1, 5}  BY <2>1 DEF Phase
  <2>3. QED  BY <1>3, <2>1, <2>2
<1>8. CASE AlignByte \/ Creep \/ OddByte  BY <1>5, <1>8 DEF AlignByte, Creep, OddByte
<1>9. CASE Aligned
  <2>1. bd'.remainder = bd.remainder /\ pc = "align" /\ pc' = "chunks"
    BY <1>0, <1>9, Parts DEF Aligned
  <2>2. Phase = 5 /\ Phase' = 3  BY <2>1 DEF Phase
  <2>3. QED  BY <1>3, <2>1, <2>2
<1>10. CASE Chunk
  <2>1. pc = "chunks" /\ bd.remainder >= mbus.buswidth /\ creep' = CreepBytes /\ Phase = 3
    BY <1>10 DEF Chunk, Phase
  <2>2. CASE Tsize = 0
    <3>1. pc' = "creep" /\ bd' = bd  BY <1>10, <2>2 DEF Chunk
    <3>2. creep' > 0 /\ bd'.remainder > 0  BY <1>0, <2>1, <2>2, <3>1, ShortChunkCreeps
    <3>3. Phase' = 2  BY <3>1, <3>2 DEF Phase
    <3>4. QED  BY <1>3, <2>1, <3>1, <3>3
  <2>3. CASE Tsize # 0
    <3> DEFINE n == Tsize * Least(bd.sw, bd.dw)
    <3>1. FillLli(n, cctl_bits(bd.sw, bd.dw, Tsize), "creep")  BY <1>10, <2>3 DEF Chunk
    <3>2. n \in Nat \ {0}
      <4>1. bd.dw = txd.width /\ bd.sw \in {1, txd.width} /\ txd.width \in Widths
            /\ bd.sw \in Widths /\ bd.dw \in Widths
        BY <1>0, Parts DEF BusWidths
      <4>2. Least(bd.sw, bd.dw) = bd.sw /\ mbus.buswidth = txd.width
        <5>1. Least(bd.sw, bd.dw) = bd.sw  BY <4>1 DEF Least, Widths
        <5>2. ~DstIncr => bd.sw = txd.width  BY <1>0 DEF BusWidths
        <5>3. QED  BY <4>1, <5>1, <5>2 DEF mbus, MasterIsDst
      <4>3. Tsize \in Nat
        <5>1. Nearest \in Nat  BY <1>0, NearestBound
        <5>2. Tsize = ((Nearest \div txd.width) * txd.width) \div bd.sw  BY <4>2 DEF Tsize
        <5>3. QED  BY <4>1, <5>1, <5>2, Rounding
      <4>4. QED  BY <2>3, <4>1, <4>2, <4>3 DEF Widths
    <3> HIDE DEF n
    <3>3. (pc' = "bug" /\ bd' = bd) \/ bd' = [bd EXCEPT !.src = IF SrcIncr THEN @ + n ELSE @,
                                                 !.dst = IF DstIncr THEN @ + n ELSE @,
                                                 !.remainder = @ - n]
      BY <3>1 DEF FillLli
    <3>4. (pc' = "bug" /\ bd' = bd) \/ bd'.remainder < bd.remainder
      <4>1. CASE pc' = "bug" /\ bd' = bd  BY <4>1
      <4>2. CASE bd' = [bd EXCEPT !.src = IF SrcIncr THEN @ + n ELSE @,
                                  !.dst = IF DstIncr THEN @ + n ELSE @,
                                  !.remainder = @ - n]
        <5>1. bd'.remainder = bd.remainder - n  BY <1>0, <4>2, Parts
        <5>2. QED  BY <1>0, <3>2, <5>1
      <4>3. QED  BY <3>3, <4>1, <4>2
    <3>5. CASE pc' = "bug" /\ bd' = bd
      <4>1. Phase' = 0  BY <3>5 DEF Phase
      <4>2. QED  BY <1>3, <2>1, <3>5, <4>1
    <3>6. CASE bd'.remainder < bd.remainder  BY <1>2, <1>4, <3>6
    <3>7. QED  BY <3>4, <3>5, <3>6
  <2>4. QED  BY <2>2, <2>3
<1>11. CASE CreepEnds
  <2>1. bd' = bd /\ pc' = "chunks" /\ pc = "creep" /\ (creep = 0 \/ bd.remainder = 0)
    BY <1>11 DEF CreepEnds
  <2>2. Phase = 4 /\ Phase' = 3  BY <2>1 DEF Phase
  <2>3. QED  BY <1>3, <2>1, <2>2
<1>12. CASE ChunksEnd
  <2>1. bd' = bd /\ pc' = "bytes" /\ pc = "chunks"  BY <1>12 DEF ChunksEnd
  <2>2. Phase = 3 /\ Phase' = 1  BY <2>1 DEF Phase
  <2>3. QED  BY <1>3, <2>1, <2>2
<1>13. CASE Finish
  <2>1. bd' = bd /\ pc = "bytes" /\ pc' \in {"too_many", "built"}  BY <1>13 DEF Finish
  <2>2. Phase = 1 /\ Phase' = 0  BY <2>1 DEF Phase
  <2>3. QED  BY <1>3, <2>1, <2>2
<1>14. QED
  BY <1>6, <1>7, <1>8, <1>9, <1>10, <1>11, <1>12, <1>13 DEF Next

(* The length of the transfer bounds the work of pl08x_fill_llis_for_desc.   *)
WorkBounded == Work \in 0..(8 * txd.len + 6)

(* No pass of the loops of pl08x_fill_llis_for_desc leaves the work as it    *)
(* is: where nothing is added to the list, single bytes follow.              *)
WorkShrinks == [][Work' < Work]_vars

(* pl08x_fill_llis_for_desc returns after at most 8 * len + 6 steps: the     *)
(* bound starts there, every step lowers it, also a pass of the main loop    *)
(* that stands too close to a boundary to add an LLI, and it is never        *)
(* negative, for every boundary, table size and set of transfers.            *)
THEOREM FunctionShrinksItsWork == Spec => []WorkBounded /\ WorkShrinks
<1>1. Init => IInv /\ WorkBounded
  <2>1. SUFFICES ASSUME Init PROVE IInv /\ WorkBounded  OBVIOUS
  <2>2. IInv /\ Types  BY <2>1, Initially DEF IInv
  <2>3. pc = "start" /\ bd.remainder = txd.len  BY <2>1 DEF Init
  <2>4. txd.len \in Nat  BY <2>2, Parts DEF Txd
  <2>5. Work = 8 * txd.len + 6  BY <2>3 DEF Work, Phase
  <2>6. QED  BY <2>2, <2>4, <2>5 DEF WorkBounded
<1>2. IInv /\ WorkBounded /\ [Next]_vars => IInv' /\ WorkBounded' /\ [Work' < Work]_vars
  <2> SUFFICES ASSUME IInv, WorkBounded, [Next]_vars
               PROVE  IInv' /\ WorkBounded' /\ [Work' < Work]_vars
    OBVIOUS
  <2>1. IInv'  BY NextInv
  <2>2. CASE UNCHANGED vars
    BY <2>1, <2>2 DEF vars, WorkBounded, Work, Phase
  <2>3. CASE Next
    <3>1. Work' < Work /\ Work' \in Nat  BY <2>1, <2>3, WorkStep
    <3>2. txd' = txd
      BY <2>3 DEF Next, NoMemory, Begin, AlignByte, Aligned, Chunk, Creep, CreepEnds,
             ChunksEnd, OddByte, Finish
    <3>3. txd.len \in Nat /\ Work \in 0..(8 * txd.len + 6)
      BY Parts DEF IInv, WorkBounded, Txd
    <3>4. WorkBounded'  BY <3>1, <3>2, <3>3 DEF WorkBounded
    <3>5. QED  BY <2>1, <3>1, <3>4
  <2>4. QED  BY <2>2, <2>3
<1>3. QED  BY <1>1, <1>2, PTL DEF Spec, WorkShrinks

-----------------------------------------------------------------------------
(* The sums of pl08x_getbytes_chan.  Item i of a list covers the bytes from  *)
(* position P[i] to P[i + 1]; adding up sizes is counting the bytes covered. *)

\* The bytes that the items of s cover.
Covered(P, s) == {b \in Nat : \E i \in s : P[i] <= b /\ b < P[i + 1]}

(* A set of numbers has a least one. *)
LEMMA LeastNumber ==
    ASSUME NEW T \in SUBSET Nat, T # {}
    PROVE  \E n \in T : \A m \in T : n <= m
<1>1. PICK n \in T : \A m \in T : ~(<<m, n>> \in OpToRel(<, Nat))
  BY NatLessThanWellFounded, WFMin
<1>2. ASSUME NEW m \in T PROVE n <= m
  <2>1. m \in Nat /\ n \in Nat  OBVIOUS
  <2>2. ~(<<m, n>> \in OpToRel(<, Nat))  BY <1>1
  <2>3. ~(m < n)  BY <2>1, <2>2 DEF OpToRel
  <2>4. QED  BY <2>1, <2>3
<1>3. QED  BY <1>2

(* Of some subsets of a finite set one has none of the others below it. *)
LEMMA LeastSubset ==
    ASSUME NEW S, IsFiniteSet(S), NEW T, \A t \in T : t \subseteq S, T # {}
    PROVE  \E s \in T : \A t \in T : t \subseteq s => t = s
<1>1. FiniteSubsetsOf(S) = SUBSET S  BY FS_FiniteSubsetsOfFinite
<1>2. IsWellFoundedOn(StrictSubsetOrdering(S), SUBSET S)
  BY <1>1, FS_StrictSubsetOrderingWellFounded
<1>3. PICK s \in T : \A t \in T : ~(<<t, s>> \in StrictSubsetOrdering(S))
  BY <1>2, WFMin
<1>4. ASSUME NEW t \in T, t \subseteq s PROVE t = s
  <2>1. <<t, s>> \notin StrictSubsetOrdering(S)  BY <1>3
  <2>2. <<t, s>> \in (SUBSET S) \X (SUBSET S)  OBVIOUS
  <2>3. QED  BY <2>1, <2>2, <1>4 DEF StrictSubsetOrdering
<1>5. QED  BY <1>4

(* Positions that never fall from one item to the next never fall. *)
LEMMA PositionsGrow ==
    ASSUME NEW N \in Nat, NEW P \in [1..(N + 1) -> Nat],
           \A i \in 1..N : P[i] <= P[i + 1]
    PROVE  \A i, j \in 1..(N + 1) : i <= j => P[i] <= P[j]
<1> SUFFICES ASSUME NEW i \in 1..(N + 1), NEW j0 \in 1..(N + 1), i <= j0, ~(P[i] <= P[j0])
             PROVE  FALSE
  OBVIOUS
<1> DEFINE T == {j \in Nat : j \in i..(N + 1) /\ ~(P[i] <= P[j])}
<1>1. PICK j \in T : \A m \in T : j <= m
  <2>1. j0 \in T  OBVIOUS
  <2>2. T \in SUBSET Nat  OBVIOUS
  <2> HIDE DEF T
  <2>3. QED  BY <2>1, <2>2, LeastNumber
<1>2. j \in i..(N + 1) /\ ~(P[i] <= P[j]) /\ j # i  OBVIOUS
<1>3. j - 1 \in i..(N + 1) /\ j - 1 \in 1..N /\ j - 1 \in Nat /\ (j - 1) + 1 = j  BY <1>2
<1>4. P[j - 1] <= P[j]  BY <1>3
<1>5. j - 1 \notin T  BY <1>1, <1>3
<1>6. P[i] <= P[j - 1]  BY <1>3, <1>5
<1>7. P[i] \in Nat /\ P[j] \in Nat /\ P[j - 1] \in Nat  BY <1>2, <1>3
<1>8. QED  BY <1>2, <1>4, <1>6, <1>7

(* Items that follow one another cover what lies between their ends. *)
LEMMA CoveredInterval ==
    ASSUME NEW N \in Nat, NEW P \in [1..(N + 1) -> Nat],
           \A i \in 1..N : P[i] <= P[i + 1],
           NEW a \in 1..(N + 1), NEW b \in (a - 1)..N
    PROVE  Cardinality(Covered(P, a..b)) = P[b + 1] - P[a]
<1>0. \A i, j \in 1..(N + 1) : i <= j => P[i] <= P[j]  BY PositionsGrow
<1>t. P[a] \in Nat /\ b + 1 \in 1..(N + 1) /\ P[b + 1] \in Nat /\ a <= b + 1  OBVIOUS
<1>1. P[a] <= P[b + 1]  BY <1>0, <1>t
<1>2. Covered(P, a..b) \subseteq P[a]..(P[b + 1] - 1)
  <2> SUFFICES ASSUME NEW x \in Nat, NEW i \in a..b, P[i] <= x, x < P[i + 1]
               PROVE  x \in P[a]..(P[b + 1] - 1)
    BY DEF Covered
  <2>1. i \in 1..(N + 1) /\ i + 1 \in 1..(N + 1) /\ a <= i /\ i + 1 <= b + 1  OBVIOUS
  <2>2. P[a] <= P[i] /\ P[i + 1] <= P[b + 1]  BY <1>0, <1>t, <2>1
  <2>3. P[i] \in Nat /\ P[i + 1] \in Nat  BY <2>1
  <2>4. QED  BY <1>t, <2>2, <2>3
<1>3. ASSUME NEW x \in P[a]..(P[b + 1] - 1) PROVE x \in Covered(P, a..b)
  <2> DEFINE T == {j \in Nat : j \in a..(b + 1) /\ x < P[j]}
  <2>1. x \in Nat /\ P[a] <= x /\ x < P[b + 1]  BY <1>t
  <2>2. PICK j \in T : \A m \in T : j <= m
    <3>1. b + 1 \in T  BY <1>t, <2>1
    <3>2. T \in SUBSET Nat  OBVIOUS
    <3> HIDE DEF T
    <3>3. QED  BY <3>1, <3>2, LeastNumber
  <2>3. j \in a..(b + 1) /\ x < P[j] /\ j # a  BY <2>1, <1>t
  <2>4. j - 1 \in a..b /\ j - 1 \in Nat /\ (j - 1) + 1 = j /\ j - 1 \in a..(b + 1)  BY <2>3
  <2>5. j - 1 \notin T  BY <2>2, <2>4
  <2>6. ~(x < P[j - 1])  BY <2>4, <2>5
  <2>7. P[j - 1] \in Nat  BY <2>4
  <2>8. P[j - 1] <= x  BY <2>1, <2>6, <2>7
  <2>9. QED  BY <2>1, <2>3, <2>4, <2>8 DEF Covered
<1>4. Covered(P, a..b) = P[a]..(P[b + 1] - 1)  BY <1>2, <1>3
<1>5. Cardinality(P[a]..(P[b + 1] - 1)) = P[b + 1] - P[a]
  <2>1. PICK u \in Int, v \in Int : u = P[a] /\ v = P[b + 1] - 1  BY <1>t
  <2>2. Cardinality(u..v) = IF u > v THEN 0 ELSE v - u + 1  BY FS_Interval
  <2>3. QED  BY <1>1, <1>t, <2>1, <2>2
<1>6. QED  BY <1>4, <1>5

(* What a set of items covers is what one of them covers and the rest. *)
LEMMA CoveredStep ==
    ASSUME NEW N \in Nat, NEW P \in [1..(N + 1) -> Nat],
           \A i \in 1..N : P[i] <= P[i + 1]
    PROVE  \A s \in SUBSET (1..N) : \A x \in s :
              Cardinality(Covered(P, s)) = (P[x + 1] - P[x]) + Cardinality(Covered(P, s \ {x}))
<1> SUFFICES ASSUME NEW s \in SUBSET (1..N), NEW x \in s
             PROVE  Cardinality(Covered(P, s))
                       = (P[x + 1] - P[x]) + Cardinality(Covered(P, s \ {x}))
  OBVIOUS
<1>0. \A i, j \in 1..(N + 1) : i <= j => P[i] <= P[j]  BY PositionsGrow
<1>t. x \in 1..N /\ x \in 1..(N + 1) /\ x + 1 \in 1..(N + 1) /\ P[x] \in Nat
      /\ P[x + 1] \in Nat /\ N + 1 \in 1..(N + 1) /\ P[N + 1] \in Nat /\ x \in (x - 1)..N
  OBVIOUS
<1>1. Cardinality(Covered(P, x..x)) = P[x + 1] - P[x]
  BY <1>t, CoveredInterval
<1>2. Covered(P, s) = Covered(P, x..x) \cup Covered(P, s \ {x})
  <2>1. \A i : i \in s <=> (i \in x..x \/ i \in s \ {x})  BY <1>t
  <2>2. QED  BY <2>1 DEF Covered
<1>3. Covered(P, x..x) \cap Covered(P, s \ {x}) = {}
  <2> SUFFICES ASSUME NEW b \in Nat, NEW i \in s \ {x}, P[i] <= b, b < P[i + 1],
                      P[x] <= b, b < P[x + 1]
               PROVE  FALSE
    <3>1. \A i : i \in x..x => i = x  BY <1>t
    <3>2. QED  BY <3>1 DEF Covered
  <2>1. i \in 1..N /\ i \in 1..(N + 1) /\ i + 1 \in 1..(N + 1) /\ P[i] \in Nat /\ P[i + 1] \in Nat
    OBVIOUS
  <2>2. i + 1 <= x \/ x + 1 <= i  BY <2>1, <1>t
  <2>3. P[i + 1] <= P[x] \/ P[x + 1] <= P[i]  BY <2>1, <2>2, <1>t, <1>0
  <2>4. QED  BY <2>1, <2>3, <1>t
<1>4. ASSUME NEW t \in SUBSET (1..N) PROVE IsFiniteSet(Covered(P, t))
  <2>1. Covered(P, t) \in SUBSET Nat  BY DEF Covered
  <2>2. ASSUME NEW b \in Covered(P, t) PROVE b <= P[N + 1]
    <3>1. PICK i \in t : P[i] <= b /\ b < P[i + 1] /\ b \in Nat  BY DEF Covered
    <3>2. i + 1 \in 1..(N + 1) /\ P[i + 1] \in Nat /\ i + 1 <= N + 1  OBVIOUS
    <3>3. P[i + 1] <= P[N + 1]  BY <3>2, <1>0, <1>t
    <3>4. QED  BY <3>1, <3>2, <3>3, <1>t
  <2>3. QED  BY <1>t, <2>1, <2>2, FS_BoundedSetOfNaturals
<1>5. IsFiniteSet(Covered(P, x..x)) /\ IsFiniteSet(Covered(P, s \ {x}))
  <2>1. x..x \in SUBSET (1..N) /\ s \ {x} \in SUBSET (1..N)  BY <1>t
  <2>2. QED  BY <2>1, <1>4
<1> DEFINE A == Covered(P, x..x)
           B == Covered(P, s \ {x})
<1>6. Cardinality(A \cup B) = Cardinality(A) + Cardinality(B) - Cardinality(A \cap B)
  <2> HIDE DEF A, B
  <2>1. IsFiniteSet(A) /\ IsFiniteSet(B)  BY <1>5 DEF A, B
  <2>2. QED  BY <2>1, FS_Union
<1>7. Cardinality(A \cap B) = 0  BY <1>3, FS_EmptySet
<1>8. Cardinality(B) \in Nat  BY <1>5, FS_CardinalityType
<1>9. QED  BY <1>1, <1>2, <1>6, <1>7, <1>8, <1>t

(* However the sizes of some items are added up, the sum is what they cover, *)
LEMMA SumIsCovered ==
    ASSUME NEW N \in Nat, NEW P \in [1..(N + 1) -> Nat],
           \A i \in 1..N : P[i] <= P[i + 1],
           NEW S \in SUBSET (1..N), NEW iter,
           \A s \in SUBSET S :
              iter[s] = IF s = {} THEN 0
                        ELSE (P[(CHOOSE x \in s : TRUE) + 1] - P[CHOOSE x \in s : TRUE])
                               + iter[s \ {CHOOSE x \in s : TRUE}]
    PROVE  iter[S] = Cardinality(Covered(P, S))
<1> DEFINE T == {s \in SUBSET S : iter[s] # Cardinality(Covered(P, s))}
<1> SUFFICES ASSUME T # {} PROVE FALSE  OBVIOUS
<1>0. \A s \in SUBSET (1..N) : \A x \in s :
         Cardinality(Covered(P, s)) = (P[x + 1] - P[x]) + Cardinality(Covered(P, s \ {x}))
  <2> HIDE DEF T
  <2>1. QED  BY CoveredStep
<1>1. IsFiniteSet(S)
  <2>1. IsFiniteSet(1..N)  BY FS_Interval
  <2>2. QED  BY <2>1, FS_Subset
<1>2. PICK s \in T : \A t \in T : t \subseteq s => t = s
  <2>1. \A t \in T : t \subseteq S  OBVIOUS
  <2> HIDE DEF T
  <2>2. T # {}  OBVIOUS
  <2>3. QED  BY ONLY <1>1, <2>1, <2>2, LeastSubset
<1>3. CASE s = {}
  <2>1. iter[s] = 0  BY <1>3
  <2>2. Covered(P, s) = {}  BY <1>3 DEF Covered
  <2>3. QED  BY <2>1, <2>2, FS_EmptySet
<1>4. CASE s # {}
  <2>1. PICK x \in s : x = CHOOSE y \in s : TRUE  BY <1>4
  <2>2. s \ {x} \in SUBSET S /\ s \ {x} \subseteq s /\ s \ {x} # s  OBVIOUS
  <2>3. s \ {x} \notin T
    <3> HIDE DEF T
    <3>1. QED  BY ONLY <1>2, <2>2
  <2>4. iter[s \ {x}] = Cardinality(Covered(P, s \ {x}))  BY <2>2, <2>3
  <2>5. iter[s] = (P[x + 1] - P[x]) + iter[s \ {x}]  BY <2>1, <1>4
  <2>6. s \in SUBSET (1..N)  OBVIOUS
  <2>7. Cardinality(Covered(P, s)) = (P[x + 1] - P[x]) + Cardinality(Covered(P, s \ {x}))
    BY <1>0, <2>6
  <2>8. QED  BY <2>4, <2>5, <2>7
<1>5. QED  BY <1>3, <1>4


(* and there is such a way of adding up. *)
LEMMA CoveredAddUp ==
    ASSUME NEW N \in Nat, NEW P \in [1..(N + 1) -> Nat],
           \A i \in 1..N : P[i] <= P[i + 1],
           NEW S \in SUBSET (1..N)
    PROVE  \A s \in SUBSET S :
              Cardinality(Covered(P, s))
                  = IF s = {} THEN 0
                    ELSE (P[(CHOOSE x \in s : TRUE) + 1] - P[CHOOSE x \in s : TRUE])
                           + Cardinality(Covered(P, s \ {CHOOSE x \in s : TRUE}))
<1>0. \A s \in SUBSET (1..N) : \A x \in s :
         Cardinality(Covered(P, s)) = (P[x + 1] - P[x]) + Cardinality(Covered(P, s \ {x}))
  BY CoveredStep
<1>1. TAKE s \in SUBSET S
<1>2. CASE s = {}
  <2>1. Covered(P, s) = {}  BY <1>2 DEF Covered
  <2>2. QED  BY <1>2, <2>1, FS_EmptySet
<1>3. CASE s # {}
  <2>1. PICK x \in s : x = CHOOSE y \in s : TRUE  BY <1>3
  <2>2. s \in SUBSET (1..N)  OBVIOUS
  <2>3. Cardinality(Covered(P, s)) = (P[x + 1] - P[x]) + Cardinality(Covered(P, s \ {x}))
    BY <1>0, <2>2
  <2>4. QED  BY <1>3, <2>1, <2>3
<1>4. QED  BY <1>2, <1>3

(* MovedBefore adds up what the controller has moved. *)
LEMMA MovesSum ==
    ASSUME NEW N \in Nat, NEW P \in [1..(N + 1) -> Nat],
           \A i \in 1..N : P[i] <= P[i + 1],
           NEW S \in SUBSET (1..N), \A i \in S : Moves(i) = P[i + 1] - P[i]
    PROVE  MapThenSumSet(Moves, S) = Cardinality(Covered(P, S))
<1> DEFINE By(iter) == [s \in SUBSET S |->
                          IF s = {} THEN 0
                          ELSE Moves(CHOOSE x \in s : TRUE)
                                 + iter[s \ {CHOOSE x \in s : TRUE}]]
           Iter == CHOOSE iter : iter = By(iter)
<1>1. MapThenSumSet(Moves, S) = Iter[S]
  BY DEF MapThenSumSet, MapThenFoldSet
<1>2. ASSUME NEW s \in SUBSET S, s # {}
      PROVE  Moves(CHOOSE x \in s : TRUE)
                = P[(CHOOSE x \in s : TRUE) + 1] - P[CHOOSE x \in s : TRUE]
  <2>1. PICK y \in s : y = CHOOSE x \in s : TRUE  BY <1>2
  <2>2. Moves(y) = P[y + 1] - P[y]  OBVIOUS
  <2>3. QED  BY <2>1, <2>2
<1>3. PICK W : W = [s \in SUBSET S |-> Cardinality(Covered(P, s))]  OBVIOUS
<1>4. W = By(W)
  <2>1. \A s \in SUBSET S :
           Cardinality(Covered(P, s))
               = IF s = {} THEN 0
                 ELSE (P[(CHOOSE x \in s : TRUE) + 1] - P[CHOOSE x \in s : TRUE])
                        + Cardinality(Covered(P, s \ {CHOOSE x \in s : TRUE}))
    <3> HIDE DEF Iter, By
    <3>1. QED  BY CoveredAddUp
  <2>2. ASSUME NEW s \in SUBSET S
        PROVE  Cardinality(Covered(P, s))
               = IF s = {} THEN 0
                 ELSE Moves(CHOOSE x \in s : TRUE) + W[s \ {CHOOSE x \in s : TRUE}]
    <3>1. s \ {CHOOSE x \in s : TRUE} \in SUBSET S  OBVIOUS
    <3>2. W[s \ {CHOOSE x \in s : TRUE}] = Cardinality(Covered(P, s \ {CHOOSE x \in s : TRUE}))
      BY <1>3, <3>1
    <3>3. QED  BY <1>2, <2>1, <3>2
  <2>3. QED  BY <1>3, <2>2
<1>5. Iter = By(Iter)
  <2> HIDE DEF By
  <2>1. QED  BY <1>4
<1>6. PICK j : j = Iter  OBVIOUS
<1>7. ASSUME NEW s \in SUBSET S
      PROVE  j[s] = IF s = {} THEN 0
                    ELSE (P[(CHOOSE x \in s : TRUE) + 1] - P[CHOOSE x \in s : TRUE])
                           + j[s \ {CHOOSE x \in s : TRUE}]
  <2>1. j = By(j)  BY <1>5, <1>6
  <2> HIDE DEF Iter
  <2>2. j[s] = IF s = {} THEN 0 ELSE Moves(CHOOSE x \in s : TRUE) + j[s \ {CHOOSE x \in s : TRUE}]
    BY <2>1
  <2>3. QED  BY <1>2, <2>2
<1>8. j[S] = Cardinality(Covered(P, S))
  <2> HIDE DEF Iter, By
  <2>1. QED  BY <1>7, SumIsCovered
<1>9. QED  BY <1>1, <1>6, <1>8

(* pl08x_getbytes_chan adds up what the LLIs after the current one hold. *)
LEMMA LeftSum ==
    ASSUME NEW N \in Nat, NEW P \in [1..(N + 1) -> Nat],
           \A i \in 1..N : P[i] <= P[i + 1],
           NEW S \in SUBSET (1..N), \A i \in S : get_bytes_in_cctl(llis[i].cctl) = P[i + 1] - P[i]
    PROVE  MapThenSumSet(LAMBDA i : get_bytes_in_cctl(llis[i].cctl), S) = Cardinality(Covered(P, S))
<1> DEFINE By(iter) == [s \in SUBSET S |->
                          IF s = {} THEN 0
                          ELSE get_bytes_in_cctl(llis[CHOOSE x \in s : TRUE].cctl)
                                 + iter[s \ {CHOOSE x \in s : TRUE}]]
           Iter == CHOOSE iter : iter = By(iter)
<1>1. MapThenSumSet(LAMBDA i : get_bytes_in_cctl(llis[i].cctl), S) = Iter[S]
  BY DEF MapThenSumSet, MapThenFoldSet
<1>2. ASSUME NEW s \in SUBSET S, s # {}
      PROVE  get_bytes_in_cctl(llis[CHOOSE x \in s : TRUE].cctl)
                = P[(CHOOSE x \in s : TRUE) + 1] - P[CHOOSE x \in s : TRUE]
  <2>1. PICK y \in s : y = CHOOSE x \in s : TRUE  BY <1>2
  <2>2. get_bytes_in_cctl(llis[y].cctl) = P[y + 1] - P[y]  OBVIOUS
  <2>3. QED  BY <2>1, <2>2
<1>3. PICK W : W = [s \in SUBSET S |-> Cardinality(Covered(P, s))]  OBVIOUS
<1>4. W = By(W)
  <2>1. \A s \in SUBSET S :
           Cardinality(Covered(P, s))
               = IF s = {} THEN 0
                 ELSE (P[(CHOOSE x \in s : TRUE) + 1] - P[CHOOSE x \in s : TRUE])
                        + Cardinality(Covered(P, s \ {CHOOSE x \in s : TRUE}))
    <3> HIDE DEF Iter, By
    <3>1. QED  BY CoveredAddUp
  <2>2. ASSUME NEW s \in SUBSET S
        PROVE  Cardinality(Covered(P, s))
               = IF s = {} THEN 0
                 ELSE get_bytes_in_cctl(llis[CHOOSE x \in s : TRUE].cctl)
                        + W[s \ {CHOOSE x \in s : TRUE}]
    <3>1. s \ {CHOOSE x \in s : TRUE} \in SUBSET S  OBVIOUS
    <3>2. W[s \ {CHOOSE x \in s : TRUE}] = Cardinality(Covered(P, s \ {CHOOSE x \in s : TRUE}))
      BY <1>3, <3>1
    <3>3. QED  BY <1>2, <2>1, <3>2
  <2>3. QED  BY <1>3, <2>2
<1>5. Iter = By(Iter)
  <2> HIDE DEF By
  <2>1. QED  BY <1>4
<1>6. PICK j : j = Iter  OBVIOUS
<1>7. ASSUME NEW s \in SUBSET S
      PROVE  j[s] = IF s = {} THEN 0
                    ELSE (P[(CHOOSE x \in s : TRUE) + 1] - P[CHOOSE x \in s : TRUE])
                           + j[s \ {CHOOSE x \in s : TRUE}]
  <2>1. j = By(j)  BY <1>5, <1>6
  <2> HIDE DEF Iter
  <2>2. j[s] = IF s = {} THEN 0
               ELSE get_bytes_in_cctl(llis[CHOOSE x \in s : TRUE].cctl)
                      + j[s \ {CHOOSE x \in s : TRUE}]
    BY <2>1
  <2>3. QED  BY <1>2, <2>2
<1>8. j[S] = Cardinality(Covered(P, S))
  <2> HIDE DEF Iter, By
  <2>1. QED  BY <1>7, SumIsCovered
<1>9. QED  BY <1>1, <1>6, <1>8

\* Every LLI moves single bytes or units of the width the transfer was prepared for.
NarrowList == \A k \in DOMAIN llis : llis[k].cctl.sw \in {1, txd.width}

(* An LLI that is added keeps the list narrow. *)
LEMMA NarrowFill ==
    ASSUME Types, NarrowList, txd' = txd, NEW n, NEW cctl, NEW next,
           FillLli(n, cctl, next), cctl \in Cctl, cctl.sw \in {1, txd.width}
    PROVE  NarrowList'
<1> DEFINE new == [src |-> bd.src, dst |-> bd.dst, cctl |-> cctl]
<1>1. CASE llis' = llis  BY <1>1 DEF NarrowList
<1>2. CASE llis' = Append(llis, new)
  <2>1. llis \in Seq(Lli) /\ new \in Lli /\ new.cctl = cctl  BY Parts DEF Types, Lli
  <2> HIDE DEF new
  <2>2. DOMAIN llis' = 1..(Len(llis) + 1) /\ Len(llis) \in Nat /\ DOMAIN llis = 1..Len(llis)
        /\ llis'[Len(llis) + 1] = new /\ \A k \in DOMAIN llis : llis'[k] = llis[k]
    BY <1>2, <2>1
  <2>3. QED  BY <2>1, <2>2 DEF NarrowList
<1>3. QED  BY <1>1, <1>2 DEF FillLli

(* No step adds an LLI of another width. *)
LEMMA NarrowNext == IInv /\ IInv' /\ NarrowList /\ [Next]_vars => NarrowList'
<1> SUFFICES ASSUME IInv, IInv', NarrowList, [Next]_vars PROVE NarrowList'
  OBVIOUS
<1>0. Types /\ BusWidths /\ txd' = txd
  BY DEF IInv, Next, vars, NoMemory, Begin, AlignByte, Aligned, Chunk, Creep, CreepEnds,
         ChunksEnd, OddByte, Finish
<1>1. CASE llis' = llis  BY <1>0, <1>1 DEF NarrowList
<1>2. ASSUME NEW next, FillByte(next) PROVE NarrowList'
  <2>1. cctl_bits(1, 1, 1) \in Cctl /\ cctl_bits(1, 1, 1).sw = 1
    BY <1>0, ByteGood DEF cctl_bits
  <2>2. FillLli(1, cctl_bits(1, 1, 1), next)  BY <1>2 DEF FillByte
  <2>3. QED  BY <1>0, <2>1, <2>2, NarrowFill
<1>3. CASE AlignByte \/ Creep \/ OddByte  BY <1>2, <1>3 DEF AlignByte, Creep, OddByte
<1>4. CASE Chunk
  <2> DEFINE n == Tsize * Least(bd.sw, bd.dw)
             cctl == cctl_bits(bd.sw, bd.dw, Tsize)
  <2>1. CASE FillLli(n, cctl, "creep")
    <3>1. bd.dw = txd.width /\ bd.sw \in {1, txd.width} /\ bd.sw \in Widths /\ bd.dw \in Widths
          /\ txd.width \in Widths
      BY <1>0, Parts DEF BusWidths
    <3>2. Least(bd.sw, bd.dw) = bd.sw /\ mbus.buswidth = txd.width
      <4>1. Least(bd.sw, bd.dw) = bd.sw  BY <3>1 DEF Least, Widths
      <4>2. ~DstIncr => bd.sw = txd.width  BY <1>0 DEF BusWidths
      <4>3. QED  BY <3>1, <4>1, <4>2 DEF mbus, MasterIsDst
    <3>3. Tsize \in Nat
      <4>1. Nearest \in Nat  BY <1>0, NearestBound
      <4>2. Tsize = ((Nearest \div txd.width) * txd.width) \div bd.sw  BY <3>2 DEF Tsize
      <4>3. QED  BY <3>1, <4>1, <4>2, Rounding
    <3>4. cctl \in Cctl /\ cctl.sw \in {1, txd.width}  BY <3>1, <3>3 DEF cctl_bits, Cctl
    <3> HIDE DEF n, cctl
    <3>5. QED  BY <1>0, <2>1, <3>4, NarrowFill
  <2>2. QED  BY <1>1, <1>4, <2>1 DEF Chunk
<1>5. CASE Finish /\ llis' = [llis EXCEPT ![Len(llis)].cctl.tc_irq = TRUE]
  <2>1. llis \in Seq(Lli) /\ DOMAIN llis' = DOMAIN llis  BY <1>0, <1>5 DEF Types
  <2>2. ASSUME NEW k \in DOMAIN llis PROVE llis'[k].cctl.sw = llis[k].cctl.sw
    <3>1. CASE k # Len(llis)  BY <1>5, <2>1, <3>1
    <3>2. CASE k = Len(llis)
      <4>1. llis'[k] = [llis[k] EXCEPT !.cctl = [@ EXCEPT !.tc_irq = TRUE]] /\ llis[k] \in Lli
        BY <1>5, <2>1, <3>2
      <4>2. QED  BY <4>1 DEF Lli, Cctl
    <3>3. QED  BY <3>1, <3>2
  <2>3. QED  BY <1>0, <2>1, <2>2 DEF NarrowList
<1>6. QED
  BY <1>1, <1>3, <1>4, <1>5 DEF Next, vars, NoMemory, Begin, Aligned, CreepEnds, ChunksEnd, Finish

(* get_bytes_in_cctl returns the transfer size as it stands: the bits that   *)
(* are left above the width of the source hold an increment.                 *)
LEMMA BytesInCctl ==
    ASSUME NEW cctl \in Cctl
    PROVE  get_bytes_in_cctl(cctl) = cctl.tsize
<1>1. cctl.sw \in Widths /\ cctl.dw \in Widths  BY DEF Cctl
<1>2. WidthCode(cctl.sw) \in 0..2 /\ WidthCode(cctl.dw) \in 0..2
  BY <1>1 DEF Widths, WidthCode
<1>3. SrcIncr \/ DstIncr  BY DEF SrcIncr, DstIncr
<1>4. AboveSwidth(cctl) >= 256 /\ AboveSwidth(cctl) \in Nat
  <2>1. PICK a \in 0..2, b \in 0..2 : a = WidthCode(cctl.sw) /\ b = WidthCode(cctl.dw)  BY <1>2
  <2>2. AboveSwidth(cctl) = a + 8 * b + (IF SrcIncr THEN 256 ELSE 0)
            + (IF DstIncr THEN 512 ELSE 0) + (IF cctl.tc_irq THEN 8192 ELSE 0)
    BY <2>1 DEF AboveSwidth
  <2>3. QED  BY <1>3, <2>2
<1>5. AboveSwidth(cctl) # 1 /\ AboveSwidth(cctl) # 2  BY <1>4
<1>6. QED  BY <1>5 DEF get_bytes_in_cctl

\* The address at which each LLI starts, on a bus that counts up, and the end of
\* the transfer after the last.
StartOf(k) ==
    IF SrcIncr THEN IF k = Len(llis) + 1 THEN txd.src + txd.len ELSE llis[k].src
               ELSE IF k = Len(llis) + 1 THEN txd.dst + txd.len ELSE llis[k].dst

(* On that bus every LLI of a finished list ends where the next one starts.  *)
LEMMA StartsJoin ==
    ASSUME Types, CopiesExactly, pc = "built"
    PROVE  /\ Len(llis) \in Nat \ {0} /\ DOMAIN llis = 1..Len(llis)
           /\ \A i \in 1..(Len(llis) + 1) : StartOf(i) \in Nat
           /\ \A i \in 1..Len(llis) : StartOf(i + 1) = StartOf(i) + Moves(i) /\ Moves(i) \in Nat
           /\ StartOf(Len(llis) + 1) = StartOf(1) + txd.len
<1>1. llis \in Seq(Lli) /\ llis # <<>>  BY DEF Types, CopiesExactly
<1>2. Len(llis) \in Nat \ {0} /\ DOMAIN llis = 1..Len(llis)  BY <1>1
<1>3. txd.src \in Nat /\ txd.dst \in Nat /\ txd.len \in Nat  BY Parts DEF Txd
<1>4. SrcIncr \/ DstIncr  BY DEF SrcIncr, DstIncr
<1>5. ASSUME NEW i \in 1..Len(llis)
      PROVE  llis[i].src \in Nat /\ llis[i].dst \in Nat /\ Moves(i) \in Nat
             /\ Moves(i) = Bytes(llis[i])
  <2>1. llis[i] \in Lli  BY <1>1, <1>2
  <2>2. llis[i].cctl.tsize \in Nat /\ llis[i].cctl.sw \in {1, 2, 4}
        /\ llis[i].src \in Nat /\ llis[i].dst \in Nat
    BY <2>1 DEF Lli, Cctl, Widths
  <2>3. QED  BY <2>2 DEF Moves, Bytes
<1>6. ASSUME NEW i \in 1..(Len(llis) + 1) PROVE StartOf(i) \in Nat
  <2>1. CASE i = Len(llis) + 1
    <3>1. StartOf(i) = IF SrcIncr THEN txd.src + txd.len ELSE txd.dst + txd.len
      BY <2>1 DEF StartOf
    <3>2. QED  BY <1>3, <3>1
  <2>2. CASE i \in 1..Len(llis)
    <3>1. i # Len(llis) + 1  BY <1>2, <2>2
    <3>2. QED  BY <1>5, <2>2, <3>1 DEF StartOf
  <2>3. QED  BY <1>2, <2>1, <2>2
<1>7. ASSUME NEW i \in 1..Len(llis) PROVE StartOf(i + 1) = StartOf(i) + Moves(i)
  <2>1. i # Len(llis) + 1 /\ i \in DOMAIN llis /\ i + 1 # 1 /\ (i + 1) - 1 = i  BY <1>2
  <2>2. StartOf(i) = IF SrcIncr THEN llis[i].src ELSE llis[i].dst  BY <2>1 DEF StartOf
  <2>3. CASE i = Len(llis)
    <3>1. /\ SrcIncr => llis[i].src + Bytes(llis[i]) = txd.src + txd.len
          /\ DstIncr => llis[i].dst + Bytes(llis[i]) = txd.dst + txd.len
      BY <2>3 DEF CopiesExactly, SrcAfter, DstAfter
    <3>2. StartOf(i + 1) = IF SrcIncr THEN txd.src + txd.len ELSE txd.dst + txd.len
      BY <2>3 DEF StartOf
    <3>3. QED  BY <1>4, <1>5, <2>2, <3>1, <3>2
  <2>4. CASE i # Len(llis)
    <3>1. PICK n \in Nat : n = Len(llis)  BY <1>2
    <3>2. i + 1 \in 1..n /\ i + 1 # n + 1  BY <2>4, <3>1
    <3>3. i + 1 \in DOMAIN llis /\ i + 1 # Len(llis) + 1  BY <1>2, <3>1, <3>2
    <3>4. /\ llis[i + 1].src = SrcAfter(SrcIncr, llis[i])
          /\ llis[i + 1].dst = DstAfter(DstIncr, llis[i])
      BY <2>1, <3>3 DEF CopiesExactly
    <3>5. StartOf(i + 1) = IF SrcIncr THEN llis[i + 1].src ELSE llis[i + 1].dst
      BY <3>3 DEF StartOf
    <3>6. QED  BY <1>4, <1>5, <2>2, <3>4, <3>5 DEF SrcAfter, DstAfter
  <2>5. QED  BY <2>3, <2>4
<1>8. StartOf(Len(llis) + 1) = StartOf(1) + txd.len
  <2>1. 1 \in DOMAIN llis /\ 1 # Len(llis) + 1  BY <1>2
  <2>2. llis[1].src = txd.src /\ llis[1].dst = txd.dst  BY <2>1 DEF CopiesExactly
  <2>3. QED  BY <2>1, <2>2 DEF StartOf
<1>9. QED  BY <1>2, <1>5, <1>6, <1>7, <1>8

(* The residue of one LLI in progress. *)
LEMMA ResidueExact ==
    ASSUME IInv, CopiesExactly, NarrowList, pc = "built", txd.width = 1,
           NEW k \in DOMAIN llis, NEW left \in Nat
    PROVE  pl08x_getbytes_chan(k, left) = txd.len - MovedBefore(k + 1) + left
<1>0. Types  BY DEF IInv
<1> DEFINE f == [i \in 1..(Len(llis) + 1) |-> StartOf(i)]
<1>1. /\ Len(llis) \in Nat \ {0} /\ DOMAIN llis = 1..Len(llis)
      /\ \A i \in 1..(Len(llis) + 1) : StartOf(i) \in Nat
      /\ \A i \in 1..Len(llis) : StartOf(i + 1) = StartOf(i) + Moves(i) /\ Moves(i) \in Nat
      /\ StartOf(Len(llis) + 1) = StartOf(1) + txd.len
  BY <1>0, StartsJoin
<1>n. PICK N \in Nat : N = Len(llis)  BY <1>1
<1>2. PICK P \in [1..(N + 1) -> Nat] :
          N = Len(llis) /\ \A i \in 1..(N + 1) : P[i] = StartOf(i)
  <2>1. f \in [1..(Len(llis) + 1) -> Nat] /\ \A i \in 1..(Len(llis) + 1) : f[i] = StartOf(i)
    BY <1>1
  <2> HIDE DEF f
  <2>2. QED  BY <1>n, <2>1
<1>3. ASSUME NEW i \in 1..N
      PROVE  /\ P[i] <= P[i + 1] /\ Moves(i) = P[i + 1] - P[i]
             /\ get_bytes_in_cctl(llis[i].cctl) = P[i + 1] - P[i]
  <2>1. i \in 1..(N + 1) /\ i + 1 \in 1..(N + 1) /\ P[i] \in Nat /\ P[i + 1] \in Nat  OBVIOUS
  <2>2. P[i + 1] = P[i] + Moves(i) /\ Moves(i) \in Nat  BY <1>1, <1>2, <2>1
  <2>3. llis[i] \in Lli /\ llis[i].cctl.sw = 1  BY <1>0, <1>1, <1>2 DEF Types, NarrowList
  <2>4. llis[i].cctl \in Cctl /\ llis[i].cctl.tsize \in Nat  BY <2>3 DEF Lli, Cctl
  <2>5. get_bytes_in_cctl(llis[i].cctl) = Moves(i)
    <3>1. Moves(i) = llis[i].cctl.tsize  BY <2>3, <2>4 DEF Moves, Bytes
    <3>2. QED  BY <2>4, <3>1, BytesInCctl
  <2>6. QED  BY <2>1, <2>2, <2>5
<1>4. /\ k \in 1..N /\ k + 1 \in 1..(N + 1) /\ 1 \in 1..(N + 1) /\ N + 1 \in 1..(N + 1)
      /\ k \in (1 - 1)..N /\ N \in ((k + 1) - 1)..N /\ (k + 1) - 1 = k
  BY <1>1, <1>2
<1>5. MovedBefore(k + 1) = P[k + 1] - P[1]
  <2>1. 1..k \in SUBSET (1..N)  BY <1>4
  <2>2. MapThenSumSet(Moves, 1..k) = Cardinality(Covered(P, 1..k))
    <3>1. PICK S \in SUBSET (1..N) : S = 1..k  BY <2>1
    <3>2. \A i \in S : Moves(i) = P[i + 1] - P[i]  BY <1>3
    <3>3. \A i \in 1..N : P[i] <= P[i + 1]  BY <1>3
    <3>4. MapThenSumSet(Moves, S) = Cardinality(Covered(P, S))  BY <3>2, <3>3, MovesSum
    <3>5. QED  BY <3>1, <3>4
  <2>3. Cardinality(Covered(P, 1..k)) = P[k + 1] - P[1]  BY <1>3, <1>4, CoveredInterval
  <2>4. QED  BY <1>4, <2>2, <2>3 DEF MovedBefore
<1>6. MapThenSumSet(LAMBDA i : get_bytes_in_cctl(llis[i].cctl), (k + 1)..Len(llis))
          = P[N + 1] - P[k + 1]
  <2>1. (k + 1)..N \in SUBSET (1..N)  BY <1>4
  <2>2. MapThenSumSet(LAMBDA i : get_bytes_in_cctl(llis[i].cctl), (k + 1)..N)
            = Cardinality(Covered(P, (k + 1)..N))
    <3>1. PICK S \in SUBSET (1..N) : S = (k + 1)..N  BY <2>1
    <3>2. \A i \in S : get_bytes_in_cctl(llis[i].cctl) = P[i + 1] - P[i]  BY <1>3
    <3>3. \A i \in 1..N : P[i] <= P[i + 1]  BY <1>3
    <3>4. MapThenSumSet(LAMBDA i : get_bytes_in_cctl(llis[i].cctl), S)
              = Cardinality(Covered(P, S))
      BY <3>2, <3>3, LeftSum
    <3>5. QED  BY <3>1, <3>4
  <2>3. Cardinality(Covered(P, (k + 1)..N)) = P[N + 1] - P[k + 1]
    BY <1>3, <1>4, CoveredInterval
  <2>4. QED  BY <1>2, <2>2, <2>3
<1>7. get_bytes_in_cctl([llis[k].cctl EXCEPT !.tsize = left]) = left
  <2>1. llis[k] \in Lli  BY <1>0, <1>1 DEF Types
  <2>2. llis[k].cctl \in Cctl  BY <2>1 DEF Lli
  <2>3. PICK c : c = [llis[k].cctl EXCEPT !.tsize = left]  OBVIOUS
  <2>4. c \in Cctl /\ c.tsize = left  BY <2>2, <2>3 DEF Cctl
  <2>5. QED  BY <2>3, <2>4, BytesInCctl
<1>8. P[N + 1] = P[1] + txd.len  BY <1>1, <1>2, <1>4
<1>9. P[1] \in Nat /\ P[k + 1] \in Nat /\ txd.len \in Nat
  BY <1>0, <1>4, Parts DEF Txd
<1>10. pl08x_getbytes_chan(k, left) = left + (P[N + 1] - P[k + 1])
  BY <1>6, <1>7 DEF pl08x_getbytes_chan
<1>11. QED  BY <1>5, <1>8, <1>9, <1>10

(* While the controller executes the list of a byte-wide transfer, the bytes *)
(* that pl08x_getbytes_chan reports are those of the transfer not yet moved, *)
(* at every LLI and every count left in it, for every boundary, table size   *)
(* and set of transfers.                                                     *)
THEOREM ResidueIsExact == Spec => []ByteResidueExact
<1>1. Init => IInv /\ CopiesExactly /\ Reached /\ NarrowList
  <2>1. Init => NarrowList  BY DEF Init, NarrowList
  <2>2. QED  BY <2>1, Initially, ReachInit
<1>2. IInv /\ CopiesExactly /\ NarrowList => ByteResidueExact
  <2> SUFFICES ASSUME IInv, CopiesExactly, NarrowList, txd.width = 1, pc = "built",
                      NEW k \in DOMAIN llis, NEW left \in 0..llis[k].cctl.tsize
               PROVE  pl08x_getbytes_chan(k, left) = txd.len - MovedBefore(k + 1) + left
    BY DEF ByteResidueExact
  <2>1. llis[k].cctl.tsize \in Nat
    <3>1. llis \in Seq(Lli)  BY DEF IInv, Types
    <3>2. llis[k] \in Lli  BY <3>1
    <3>3. QED  BY <3>2 DEF Lli, Cctl
  <2>2. left \in Nat  BY <2>1
  <2>3. QED  BY <2>2, ResidueExact
<1>3. QED  BY <1>1, <1>2, NextInv, ReachNext, NarrowNext, PTL DEF Spec
=============================================================================
