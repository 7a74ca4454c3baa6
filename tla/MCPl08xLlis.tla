---------------------------- MODULE MCPl08xLlis ----------------------------
(***************************************************************************)
(* Transfers for the model checker: every alignment to the boundary, every *)
(* width, lengths that cross two boundaries.  Peripherals have one address.*)
(***************************************************************************)
EXTENDS Pl08xLlis

CONSTANT MaxLen

Transfers(kind, src, dst) ==
    [kind : {kind}, src : src, dst : dst, len : 1..MaxLen, width : Widths]

Offsets == 0..(Boundary - 1)
TestTxds ==
    Transfers("memcpy", Offsets, Offsets)
        \cup Transfers("to_device", Offsets, {0})
        \cup Transfers("from_device", {0}, Offsets)
=============================================================================
