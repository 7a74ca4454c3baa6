----------------------------- MODULE Pl08xLlis -----------------------------
(***************************************************************************)
(* pl08x_fill_llis_for_desc of drivers/dma/dlna_pl08x.c: how the DMA       *)
(* driver cuts one transfer into the linked list items (LLIs) that the     *)
(* controller executes, and how it counts the bytes they have left.  One   *)
(* step per LLI.                                                           *)
(*                                                                         *)
(* Both buses have the same width in the descriptor: dma_set_runtime_config *)
(* sets it for both, and so does the platform data of memcpy.  Of an LLI's *)
(* control word the transfer size, the widths and the last-item interrupt  *)
(* matter; protection and burst bits are left out.  Numbering the LLIs     *)
(* stands for the bus addresses that link them.                            *)
(***************************************************************************)
EXTENDS Integers, Sequences, FiniteSetsExt

CONSTANTS
    Boundary,       \* PL08X_BOUNDARY_SIZE
    TransferMask,   \* PL080_CONTROL_TRANSFER_SIZE_MASK
    MaxLlis,        \* MAX_NUM_TSFR_LLIS
    Txds            \* the descriptors clients prepare

Widths == {1, 2, 4}
Txd == [kind : {"memcpy", "to_device", "from_device"},
        src : Nat, dst : Nat, len : Nat \ {0}, width : Widths]

\* A boundary is a multiple of the widths and no further away than the longest LLI
\* reaches (1024 and 4095 in the code).  The registers of peripherals are aligned:
\* if they were not, the driver would count units of the narrower bus where the
\* controller counts units of the source.
\* No client prepares an empty transfer: the code, which does not test for one,
\* would mark the last LLI of an empty list, in front of the table (lines 856, 858).
ASSUME LlisAssumption ==
    /\ Boundary \in Nat \ {0} /\ Boundary % 4 = 0
    /\ TransferMask \in Nat /\ Boundary <= TransferMask
    /\ MaxLlis \in Nat \ {0}
    /\ Txds \subseteq Txd
    /\ \A t \in Txds : /\ t.kind = "to_device" => t.dst % t.width = 0
                       /\ t.kind = "from_device" => t.src % t.width = 0

VARIABLES
    txd,    \* the descriptor
    pc,     \* where the function is, or how it has ended
    bd,     \* struct pl08x_lli_build_data: addresses, widths, remainder
    creep,  \* single bytes still to be sent past a boundary
    llis    \* the list

vars == <<txd, pc, bd, creep, llis>>

\* PL080_CONTROL_SRC_INCR and PL080_CONTROL_DST_INCR, as prep sets them.
SrcIncr == txd.kind # "from_device"
DstIncr == txd.kind # "to_device"

Init ==
    /\ txd \in Txds
    /\ bd = [src |-> txd.src, dst |-> txd.dst, sw |-> txd.width, dw |-> txd.width,
             remainder |-> txd.len]
    /\ pc = "start" /\ creep = 0 /\ llis = <<>>

Least(x, y) == IF x <= y THEN x ELSE y

\* pl08x_choose_master_bus: a bus whose address is fixed is not the master; of
\* two equally wide ones the destination is.
MasterIsDst == DstIncr

mbus == IF MasterIsDst THEN [addr |-> bd.dst, buswidth |-> bd.dw]
                       ELSE [addr |-> bd.src, buswidth |-> bd.sw]
sbus == IF MasterIsDst THEN [addr |-> bd.src, buswidth |-> bd.sw]
                       ELSE [addr |-> bd.dst, buswidth |-> bd.dw]

\* pl08x_cctl_bits: a size that does not fit runs into the other bits.
cctl_bits(sw, dw, tsize) == [sw |-> sw, dw |-> dw, tsize |-> tsize, tc_irq |-> FALSE]

\* pl08x_fill_lli_for_desc, with its two assertions.
FillLli(n, cctl, next) ==
    IF Len(llis) >= MaxLlis \/ bd.remainder < n
    THEN pc' = "bug" /\ UNCHANGED <<bd, llis>>
    ELSE /\ pc' = next
         /\ llis' = Append(llis, [src |-> bd.src, dst |-> bd.dst, cctl |-> cctl])
         /\ bd' = [bd EXCEPT !.src = IF SrcIncr THEN @ + n ELSE @,
                             !.dst = IF DstIncr THEN @ + n ELSE @,
                             !.remainder = @ - n]

FillByte(next) == FillLli(1, cctl_bits(1, 1, 1), next)

-----------------------------------------------------------------------------
\* dma_pool_alloc has no memory for the list.
NoMemory ==
    /\ pc = "start"
    /\ pc' = "no_memory"
    /\ UNCHANGED <<txd, bd, creep, llis>>

\* mutant of Begin: a transfer of one bus width is sent as single bytes.
BeginOffByOne ==
    /\ pc = "start"
    /\ pc' = IF txd.len <= mbus.buswidth THEN "bytes" ELSE "align"
    /\ UNCHANGED <<txd, bd, creep, llis>>

\* Less than a bus width is sent as single bytes.
Begin ==
    /\ pc = "start"
    /\ pc' = IF txd.len < mbus.buswidth THEN "bytes" ELSE "align"
    /\ UNCHANGED <<txd, bd, creep, llis>>

\* Single bytes until the master bus is aligned.
AlignByte ==
    /\ pc = "align" /\ mbus.addr % mbus.buswidth # 0
    /\ FillByte("align")
    /\ UNCHANGED <<txd, creep>>

\* mutants of Aligned: the wrong bus is set down.
AlignedSetsMaster ==
    /\ pc = "align" /\ mbus.addr % mbus.buswidth = 0
    /\ pc' = "chunks"
    /\ bd' = IF sbus.addr % sbus.buswidth = 0 THEN bd
             ELSE IF MasterIsDst THEN [bd EXCEPT !.dw = 1] ELSE [bd EXCEPT !.sw = 1]
    /\ UNCHANGED <<txd, creep, llis>>

\* and the width of the slave bus is kept.
AlignedKeepsWidth ==
    /\ pc = "align" /\ mbus.addr % mbus.buswidth = 0
    /\ pc' = "chunks"
    /\ UNCHANGED <<txd, bd, creep, llis>>

\* If the slave bus is not aligned then, its width is set down.
Aligned ==
    /\ pc = "align" /\ mbus.addr % mbus.buswidth = 0
    /\ pc' = "chunks"
    /\ bd' = IF sbus.addr % sbus.buswidth = 0 THEN bd
             ELSE IF MasterIsDst THEN [bd EXCEPT !.sw = 1] ELSE [bd EXCEPT !.dw = 1]
    /\ UNCHANGED <<txd, creep, llis>>

\* mutant of pl08x_pre_boundary: one byte too far from an unaligned address.
PreBoundaryOffByOne(addr, len) == Least(Boundary - ((addr + Boundary - 1) % Boundary), len)

pl08x_pre_boundary(addr, len) == Least(Boundary - (addr % Boundary), len)

\* max_bytes_per_lli is computed before a width is set down.
Target == Least(bd.remainder, txd.width * TransferMask)

\* mutant of Nearest: max_bytes_per_lli is the only limit.
NearestIsTarget == Target

\* The bytes up to the nearest boundary of a bus that counts up.
Nearest ==
    Least(IF SrcIncr THEN pl08x_pre_boundary(bd.src, Target) ELSE Target,
          IF DstIncr THEN pl08x_pre_boundary(bd.dst, Target) ELSE Target)

\* Whole units of the master bus, counted in units of the narrower bus.
Tsize == ((Nearest \div mbus.buswidth) * mbus.buswidth) \div Least(bd.sw, bd.dw)

\* mutant of CreepBytes: nothing is sent across.
CreepNever == 0

\* After an LLI that had to stop short of a boundary a unit of the master bus is
\* sent as single bytes, across it.
CreepBytes == IF Nearest # Target /\ Nearest % mbus.buswidth # 0 THEN mbus.buswidth ELSE 0

\* The largest possible LLI.  Nearest is not 0 here, so the error return for that
\* case is not taken (lemma NearestBound of the proofs).
Chunk ==
    /\ pc = "chunks" /\ bd.remainder >= mbus.buswidth
    /\ IF Tsize # 0
       THEN FillLli(Tsize * Least(bd.sw, bd.dw), cctl_bits(bd.sw, bd.dw, Tsize), "creep")
       ELSE pc' = "creep" /\ UNCHANGED <<bd, llis>>
    /\ creep' = CreepBytes
    /\ UNCHANGED txd

\* mutant of Creep: it does not stop at the end of the transfer.
CreepBeyondEnd ==
    /\ pc = "creep" /\ creep > 0
    /\ FillByte("creep")
    /\ creep' = creep - 1
    /\ UNCHANGED txd

Creep ==
    /\ pc = "creep" /\ creep > 0 /\ bd.remainder > 0
    /\ FillByte("creep")
    /\ creep' = creep - 1
    /\ UNCHANGED txd

CreepEnds ==
    /\ pc = "creep" /\ (creep = 0 \/ bd.remainder = 0)
    /\ pc' = "chunks" /\ creep' = 0
    /\ UNCHANGED <<txd, bd, llis>>

ChunksEnd ==
    /\ pc = "chunks" /\ bd.remainder < mbus.buswidth
    /\ pc' = "bytes"
    /\ UNCHANGED <<txd, bd, creep, llis>>

\* What is left is sent as single bytes.
OddByte ==
    /\ pc = "bytes" /\ bd.remainder > 0
    /\ FillByte("bytes")
    /\ UNCHANGED <<txd, creep>>

\* The bytes encoded, len - remainder, are all there; a full table is refused.  The last LLI ends the list and interrupts.
Finish ==
    /\ pc = "bytes" /\ bd.remainder = 0
    /\ IF Len(llis) >= MaxLlis
       THEN pc' = "too_many" /\ UNCHANGED llis
       ELSE pc' = "built" /\ llis' = [llis EXCEPT ![Len(llis)].cctl.tc_irq = TRUE]
    /\ UNCHANGED <<txd, bd, creep>>

Next ==
    \/ NoMemory \/ Begin \/ AlignByte \/ Aligned \/ Chunk \/ Creep \/ CreepEnds
    \/ ChunksEnd \/ OddByte \/ Finish

Spec == Init /\ [][Next]_vars
FairSpec == Spec /\ WF_vars(Next)

-----------------------------------------------------------------------------
(* What the controller makes of the list.                                    *)

\* The controller moves tsize units of the source width.
Bytes(l) == l.cctl.tsize * l.cctl.sw
Moves(k) == Bytes(llis[k])
MovedBefore(k) == MapThenSumSet(Moves, 1..(k - 1))

WidthCode(w) == CASE w = 1 -> 0 [] w = 2 -> 1 [] w = 4 -> 2

\* cctl >> PL080_CONTROL_SWIDTH_SHIFT, which keeps all the bits above the width
\* of the source: that of the destination, the two increments and the interrupt.
AboveSwidth(cctl) ==
    WidthCode(cctl.sw) + 8 * WidthCode(cctl.dw)
        + (IF SrcIncr THEN 256 ELSE 0) + (IF DstIncr THEN 512 ELSE 0)
        + (IF cctl.tc_irq THEN 8192 ELSE 0)

get_bytes_in_cctl(cctl) ==
    CASE AboveSwidth(cctl) = 1 -> cctl.tsize * 2
      [] AboveSwidth(cctl) = 2 -> cctl.tsize * 4
      [] OTHER -> cctl.tsize

\* mutant of pl08x_getbytes_chan: the current LLI is counted again.
GetbytesCountsCurrent(k, left) ==
    get_bytes_in_cctl([llis[k].cctl EXCEPT !.tsize = left])
        + MapThenSumSet(LAMBDA i : get_bytes_in_cctl(llis[i].cctl), k..Len(llis))

\* pl08x_getbytes_chan, for the active descriptor, while the controller is in LLI k
\* with left units to go.
pl08x_getbytes_chan(k, left) ==
    get_bytes_in_cctl([llis[k].cctl EXCEPT !.tsize = left])
        + MapThenSumSet(LAMBDA i : get_bytes_in_cctl(llis[i].cctl), (k + 1)..Len(llis))

-----------------------------------------------------------------------------
Ended == {"built", "no_memory", "too_many", "bug"}

\* Where the controller has got to on a bus after LLI l, if it counts up there.
SrcAfter(incr, l) == IF incr THEN l.src + Bytes(l) ELSE l.src
DstAfter(incr, l) == IF incr THEN l.dst + Bytes(l) ELSE l.dst

(* The list copies the transfer: the first LLI starts where the transfer     *)
(* does, every other where the one before it has ended, and the last ends    *)
(* where the transfer does, so that nothing is left out, moved twice or      *)
(* moved elsewhere (pl08x_fill_llis_for_desc, whatever the alignments of the *)
(* two addresses and the length).                                            *)
CopiesExactly ==
    /\ \A k \in DOMAIN llis :
          IF k = 1 THEN llis[k].src = txd.src /\ llis[k].dst = txd.dst
                   ELSE /\ llis[k].src = SrcAfter(SrcIncr, llis[k - 1])
                        /\ llis[k].dst = DstAfter(DstIncr, llis[k - 1])
    /\ pc = "built" =>
          /\ llis # <<>>
          /\ SrcIncr => SrcAfter(SrcIncr, llis[Len(llis)]) = txd.src + txd.len
          /\ DstIncr => DstAfter(DstIncr, llis[Len(llis)]) = txd.dst + txd.len

\* The n bytes from addr on lie on one side of every boundary.
WithinBoundary(addr, n) == (addr % Boundary) + n <= Boundary

(* No LLI crosses a boundary of a bus that counts up, although the two buses *)
(* meet theirs at different times (pl08x_pre_boundary).                      *)
NoBoundaryCrossed ==
    \A k \in DOMAIN llis :
        /\ SrcIncr => WithinBoundary(llis[k].src, Moves(k))
        /\ DstIncr => WithinBoundary(llis[k].dst, Moves(k))

(* Each bus is accessed at multiples of the width it is used with: the       *)
(* master stays aligned across the boundaries of the slave.                  *)
BusesAligned ==
    \A k \in DOMAIN llis :
        /\ llis[k].src % llis[k].cctl.sw = 0
        /\ llis[k].dst % llis[k].cctl.dw = 0

(* Every transfer size fits its field of the control word, although the      *)
(* limit on it is computed before a bus is set down to single bytes: a       *)
(* boundary always comes first (max_bytes_per_lli).                          *)
TsizeFits == \A k \in DOMAIN llis : llis[k].cctl.tsize \in 1..TransferMask

(* The controller can execute every LLI of the list.                         *)
ListExecutable == NoBoundaryCrossed /\ BusesAligned /\ TsizeFits

(* A peripheral is accessed only with the width it was configured for, if    *)
(* the buffer and the length are multiples of it, as those of the audio      *)
(* streams are.                                                              *)
WholeWords ==
    txd.kind # "memcpy" /\ txd.src % txd.width = 0 /\ txd.dst % txd.width = 0
            /\ txd.len % txd.width = 0 =>
        \A k \in DOMAIN llis : llis[k].cctl.sw = txd.width /\ llis[k].cctl.dw = txd.width

\* How many LLIs a transfer can need: single bytes at both ends, an LLI up to each
\* boundary and one after the last and, if both addresses count up, one up to each
\* boundary of the other bus too and the bytes across it.
MostLlis ==
    2 * (txd.width - 1) + 1 +
        (IF txd.kind = "memcpy" THEN txd.width + 2 ELSE 1) * (txd.len \div Boundary + 1)

(* The table is full, which is an assertion or a refusal, only for transfers *)
(* that are longer than it can hold in the worst case.                       *)
TableHolds == pc \in {"bug", "too_many"} => MostLlis >= MaxLlis

(* While the controller executes the list of a byte-wide transfer the bytes  *)
(* pl08x_getbytes_chan reports are those not yet moved.                      *)
ByteResidueExact ==
    txd.width = 1 /\ pc = "built" =>
        \A k \in DOMAIN llis : \A left \in 0..llis[k].cctl.tsize :
            pl08x_getbytes_chan(k, left) = txd.len - MovedBefore(k + 1) + left

(* The function returns: no pass of its loops leaves the remainder as it is. *)
Finishes == <>(pc \in Ended)
=============================================================================
