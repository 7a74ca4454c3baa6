----------------------------- MODULE MCSilanI2c -----------------------------
(***************************************************************************)
(* Message lists for the model checker: longer than the FIFO, a write then *)
(* a read, and two that the driver refuses half-way: a second slave, and   *)
(* an empty message after a message to slave 2.                            *)
(***************************************************************************)
EXTENDS SilanI2c

W(a, n) == [addr |-> a, rd |-> FALSE, len |-> n]
R(a, n) == [addr |-> a, rd |-> TRUE, len |-> n]

GoodCalls == {<<W(1, 1), R(1, 5)>>, <<R(2, 2), W(2, 3)>>}
TestCalls == GoodCalls \cup {<<W(1, 1), W(2, 1)>>, <<W(2, 4), W(2, 0)>>}
=============================================================================
