------------------------------ MODULE SilanI2c ------------------------------
(***************************************************************************)
(* The I2C master driver, drivers/i2c/busses/i2c-silan_new.c, built        *)
(* without CONFIG_I2C_DMA_MODE.  i2c_silan_xfer programs the controller    *)
(* and sleeps; the interrupt handler moves bytes between the messages and  *)
(* the two FIFOs and completes the sleep when it sees STOP_DET, TX_ABRT or *)
(* a bad message.  The sleep also ends by a timeout or a signal.           *)
(*                                                                         *)
(* dev->lock lets one caller at a time into i2c_silan_xfer, so one caller  *)
(* is modelled, which calls again and again.  On the single CPU a thread   *)
(* makes no step while the handler runs or an interrupt is pending; the    *)
(* controller (external) goes on meanwhile, by at most MaxLag bytes.  The  *)
(* handler is one step per iteration of its loops.  A byte is its place in *)
(* the messages, with the slave its message names.                         *)
(***************************************************************************)
EXTENDS Integers, Sequences

CONSTANTS
    Depth,    \* FIFO_DEPTH
    MaxLag,   \* bound on the latency of the handler, in bytes moved
    Calls,    \* the message lists callers pass, sequences over Msg
    Env       \* what may go wrong, a subset of AnyEnv

\* nack: a slave does not acknowledge; timeout: the sleep lasts a second;
\* signal: a signal ends the sleep.
AnyEnv == {"nack", "timeout", "signal"}

Addr == 1..2
Msg == [addr : Addr, rd : BOOLEAN, len : Nat]

ASSUME SilanI2cAssumption ==
    /\ Depth \in Nat \ {0} /\ MaxLag \in Nat
    /\ Calls \subseteq Seq(Msg) \ {<<>>}
    /\ Env \subseteq AnyEnv

VARIABLES
    pc,      \* the caller: "idle", "begun", "waiting" or "resetting"
    ret,     \* what the last call returned
    msgs,    \* dev->msgs
    dev,     \* the rest of struct silan_i2c_dev
    ic,      \* the controller
    isr,     \* the interrupt handler: where it is, its copy of the status, addr
    lag,     \* bytes moved since the handler ought to have run
    wire,    \* history: the bytes and read commands on the bus while the caller waits
    got,     \* history: <<place in msgs, byte>> pairs stored while the caller waits
    quiet    \* history: the controller was quiet when this call began

vars == <<pc, ret, msgs, dev, ic, isr, lag, wire, got, quiet>>

INTR_DEFAULT_MASK == {"RX_FULL", "TX_EMPTY", "TX_ABRT", "STOP_DET"}

\* active: a transaction is on the bus; raw: the interrupts that stay until cleared.
\* The probe ends with all interrupts masked.
IcReset == [on |-> FALSE, tar |-> 1, mask |-> {}, raw |-> {}, active |-> FALSE,
            tx |-> <<>>, rx |-> <<>>]
IsrOff == [pc |-> "off", stat |-> {}, addr |-> 1]

\* wleft, rleft are tx_buf_len and rx_buf_len, writing and reading the status bits.
DevStart == [msg_write_idx |-> 1, msg_read_idx |-> 1, wleft |-> 0, rleft |-> 0,
             writing |-> FALSE, reading |-> FALSE,
             cmd_err |-> FALSE, msg_err |-> FALSE, done |-> FALSE]

Init ==
    /\ pc = "idle" /\ ret = "none" /\ msgs = <<>>
    /\ dev = DevStart /\ ic = IcReset /\ isr = IsrOff
    /\ lag = 0 /\ wire = <<>> /\ got = {} /\ quiet = TRUE

-----------------------------------------------------------------------------
(* The controller.                                                           *)

\* IC_INTR_STAT: TX_EMPTY when the transmit FIFO has room (TX_TL is depth - 1),
\* RX_FULL when the receive FIFO has a byte (RX_TL is 0).
Level ==
    (IF ic.on /\ Len(ic.tx) < Depth THEN {"TX_EMPTY"} ELSE {})
        \cup (IF ic.rx # <<>> THEN {"RX_FULL"} ELSE {})
INTR_STAT == ic.mask \cap (ic.raw \cup Level)

Pending == INTR_STAT # {} \/ isr.pc # "off"
Moves == /\ Pending => lag < MaxLag
         /\ lag' = IF Pending THEN lag + 1 ELSE 0

\* A byte goes out, or a read command brings one in; one that finds the receive
\* FIFO full is lost.
HwByte ==
    /\ ic.on /\ ic.tx # <<>> /\ Moves
    /\ LET e == Head(ic.tx) IN
       /\ ic' = [ic EXCEPT !.tx = Tail(@), !.active = TRUE,
                           !.rx = IF e.rd /\ Len(@) < Depth THEN Append(@, e) ELSE @]
       /\ wire' = IF pc = "waiting" THEN Append(wire, e) ELSE wire
    /\ UNCHANGED <<pc, ret, msgs, dev, isr, got, quiet>>

\* The slave does not acknowledge: both FIFOs are flushed and a STOP will follow.
HwAbort ==
    /\ "nack" \in Env
    /\ ic.on /\ ic.tx # <<>> /\ Moves
    /\ ic' = [ic EXCEPT !.tx = <<>>, !.rx = <<>>, !.active = TRUE, !.raw = @ \cup {"TX_ABRT"}]
    /\ UNCHANGED <<pc, ret, msgs, dev, isr, wire, got, quiet>>

\* With nothing left to send the controller ends the transaction.
HwStop ==
    /\ ic.active /\ ic.tx = <<>> /\ Moves
    /\ ic' = [ic EXCEPT !.active = FALSE, !.raw = @ \cup {"STOP_DET"}]
    /\ UNCHANGED <<pc, ret, msgs, dev, isr, wire, got, quiet>>

\* Clearing IC_ENABLE flushes the FIFOs; what is on the bus still ends with a STOP.
Disabled == [ic EXCEPT !.on = FALSE, !.tx = <<>>, !.rx = <<>>]

-----------------------------------------------------------------------------
(* i2c_silan_xfer.                                                           *)

\* No interrupt of an earlier call is left, or can still come.
Quiet == ic.raw = {} /\ ~ic.active /\ ic.tx = <<>> /\ (ic.mask = {} \/ ~ic.on)

XferBegin(call) ==
    /\ pc = "idle" /\ ~Pending
    /\ pc' = "begun"
    /\ msgs' = call
    /\ dev' = DevStart
    /\ quiet' = Quiet /\ wire' = <<>> /\ got' = {}
    /\ UNCHANGED <<ret, ic, isr, lag>>

\* A call that fails ends its history.
Return(value) ==
    /\ pc' = "idle" /\ ret' = value
    /\ wire' = IF value = "num" THEN wire ELSE <<>>
    /\ got' = IF value = "num" THEN got ELSE {}

\* i2c_silan_wait_bus_not_busy gives up.
BusBusy ==
    /\ pc = "begun" /\ ~Pending /\ ic.active
    /\ Return("ETIMEDOUT_BUS")
    /\ UNCHANGED <<msgs, dev, ic, isr, lag, quiet>>

\* i2c_silan_xfer_init.  An index that the handler has moved past the last
\* message makes it read an address from beyond the array.
i2c_silan_xfer_init ==
    /\ pc = "begun" /\ ~Pending /\ ~ic.active
    /\ pc' = "waiting"
    /\ \E tar \in IF dev.msg_write_idx <= Len(msgs) THEN {msgs[dev.msg_write_idx].addr} ELSE Addr :
          ic' = [Disabled EXCEPT !.on = TRUE, !.tar = tar, !.mask = INTR_DEFAULT_MASK]
    /\ UNCHANGED <<ret, msgs, dev, isr, lag, wire, got, quiet>>

\* The sleep ends by the completion.
Completed ==
    /\ pc = "waiting" /\ ~Pending /\ dev.done
    /\ \/ /\ dev.msg_err
          /\ Return("EINVAL")
          /\ UNCHANGED ic
       \/ /\ ~dev.msg_err /\ ~dev.cmd_err
          /\ Return("num")
          /\ ic' = Disabled
       \/ /\ ~dev.msg_err /\ dev.cmd_err
          /\ Return("EIO")         \* i2c_silan_handle_tx_abort
          /\ UNCHANGED ic
    /\ UNCHANGED <<msgs, dev, isr, lag, quiet>>

\* A signal ends the sleep; the controller is left as it is.
Signalled ==
    /\ "signal" \in Env
    /\ pc = "waiting" /\ ~Pending /\ ~dev.done
    /\ Return("ERESTARTSYS")
    /\ UNCHANGED <<msgs, dev, ic, isr, lag, quiet>>

\* A second has passed; the handler may still run before the reset.
TimedOut ==
    /\ "timeout" \in Env
    /\ pc = "waiting" /\ ~Pending /\ ~dev.done
    /\ pc' = "resetting"
    /\ UNCHANGED <<ret, msgs, dev, ic, isr, lag, wire, got, quiet>>

\* mutant of reset_i2c_bus: the controller is only initialised again.
ResetOnlyInit ==
    /\ pc = "resetting" /\ ~Pending
    /\ Return("ETIMEDOUT")
    /\ ic' = Disabled
    /\ UNCHANGED <<msgs, dev, isr, lag, quiet>>

\* reset_i2c_bus resets the controller, and i2c_silan_init sets it up again but
\* for IC_INTR_MASK, which has the value the reset gives it.
reset_i2c_bus ==
    /\ pc = "resetting" /\ ~Pending
    /\ Return("ETIMEDOUT")
    /\ \E mask \in SUBSET INTR_DEFAULT_MASK : ic' = [IcReset EXCEPT !.mask = mask]
    /\ UNCHANGED <<msgs, dev, isr, lag, quiet>>

-----------------------------------------------------------------------------
(* i2c_silan_isr.                                                            *)

\* Where the handler goes with status stat.
Goes(stat) == IF "RX_FULL" \in stat THEN "read" ELSE IF "TX_EMPTY" \in stat THEN "pump" ELSE "end"

\* The local addr of i2c_silan_xfer_msg, read on entry.
EntryAddr == IF dev.msg_write_idx <= Len(msgs) THEN msgs[dev.msg_write_idx].addr ELSE 1

\* i2c_silan_read_clear_intrbits reads the status once and clears what it read.
IsrEnter ==
    /\ isr.pc = "off" /\ INTR_STAT # {}
    /\ "TX_ABRT" \notin INTR_STAT
    /\ ic' = [ic EXCEPT !.raw = @ \ INTR_STAT]
    /\ isr' = [pc |-> Goes(INTR_STAT), stat |-> INTR_STAT, addr |-> EntryAddr]
    /\ UNCHANGED <<pc, ret, msgs, dev, lag, wire, got, quiet>>

\* An abort masks all interrupts and ends the transfer.
IsrAbort ==
    /\ isr.pc = "off" /\ "TX_ABRT" \in INTR_STAT
    /\ ic' = [ic EXCEPT !.raw = @ \ INTR_STAT, !.mask = {}]
    /\ dev' = [dev EXCEPT !.cmd_err = TRUE, !.writing = FALSE, !.reading = FALSE, !.done = TRUE]
    /\ lag' = 0
    /\ UNCHANGED <<pc, ret, msgs, isr, wire, got, quiet>>

\* i2c_silan_read, one message: its missing bytes are taken from the FIFO.
ReadMessage ==
    LET m == dev.msg_read_idx
        left == IF dev.reading THEN dev.rleft ELSE msgs[m].len
        n == IF left < Len(ic.rx) THEN left ELSE Len(ic.rx)
        from == msgs[m].len - left
    IN
    /\ isr.pc = "read" /\ m <= Len(msgs) /\ msgs[m].rd
    /\ ic' = [ic EXCEPT !.rx = SubSeq(@, n + 1, Len(@))]
    /\ got' = IF pc = "waiting" THEN got \cup {<<<<m, from + k>>, ic.rx[k]>> : k \in 1..n} ELSE got
    /\ \/ /\ n < left
          /\ dev' = [dev EXCEPT !.reading = TRUE, !.rleft = left - n]
          /\ isr' = [isr EXCEPT !.pc = Goes(isr.stat \ {"RX_FULL"})]
       \/ /\ n = left
          /\ dev' = [dev EXCEPT !.reading = FALSE, !.msg_read_idx = m + 1]
          /\ UNCHANGED isr
    /\ UNCHANGED <<pc, ret, msgs, lag, wire, quiet>>

\* Messages that are written are skipped.
ReadSkips ==
    /\ isr.pc = "read" /\ dev.msg_read_idx <= Len(msgs) /\ ~msgs[dev.msg_read_idx].rd
    /\ dev' = [dev EXCEPT !.msg_read_idx = @ + 1]
    /\ UNCHANGED <<pc, ret, msgs, ic, isr, lag, wire, got, quiet>>

ReadEnds ==
    /\ isr.pc = "read" /\ dev.msg_read_idx > Len(msgs)
    /\ isr' = [isr EXCEPT !.pc = Goes(isr.stat \ {"RX_FULL"})]
    /\ UNCHANGED <<pc, ret, msgs, dev, ic, lag, wire, got, quiet>>

Least(S) == CHOOSE x \in S : \A y \in S : x <= y

\* mutant of Room: one slot too many.
RoomOffByOne(rd) ==
    LET tx_limit == Depth + 1 - Len(ic.tx)
        rx_limit == Depth - Len(ic.rx)
    IN IF rx_limit = 0 THEN 0 ELSE IF rd THEN Least({tx_limit, rx_limit}) ELSE tx_limit

\* How many entries tx_limit and rx_limit let the loop write; rx_limit does not
\* count the read commands that wait in the transmit FIFO.
Room(rd) ==
    LET tx_limit == Depth - Len(ic.tx)
        rx_limit == Depth - Len(ic.rx)
    IN IF rx_limit = 0 THEN 0 ELSE IF rd THEN Least({tx_limit, rx_limit}) ELSE tx_limit

\* A flushed FIFO takes nothing until TX_ABRT is cleared, a disabled one neither.
Written(entries) == IF ic.on /\ "TX_ABRT" \notin ic.raw THEN ic.tx \o entries ELSE ic.tx

Byte(m, i) == [m |-> m, i |-> i, addr |-> msgs[m].addr, rd |-> msgs[m].rd]

\* mutant of BadMessage: the address is not compared.
BadLengthOnly(m) == msgs[m].len = 0

\* The two tests at the head of the loop of i2c_silan_xfer_msg.
BadMessage(m) == msgs[m].addr # isr.addr \/ msgs[m].len = 0

\* mutant of Progress: the rest of a message for which there is no room is skipped.
ProgressSkipsRest(m, n, left) ==
    [dev EXCEPT !.wleft = left - n, !.writing = FALSE, !.msg_write_idx = m + 1]

\* The bookkeeping after n of the left bytes of message m have been written.
Progress(m, n, left) ==
    [dev EXCEPT !.wleft = left - n, !.writing = n < left,
                !.msg_write_idx = IF n < left THEN m ELSE m + 1]

\* i2c_silan_xfer_msg, one message: as much of it as there is room for.
PumpMessage ==
    LET m == dev.msg_write_idx
        left == IF dev.writing THEN dev.wleft ELSE msgs[m].len
        n == Least({left, Room(msgs[m].rd)})
    IN
    /\ isr.pc = "pump" /\ m <= Len(msgs) /\ ~BadMessage(m)
    /\ ic' = [ic EXCEPT !.tx = Written([k \in 1..n |-> Byte(m, msgs[m].len - left + k)]),
                        !.mask = IF n < left THEN INTR_DEFAULT_MASK ELSE @]
    /\ dev' = Progress(m, n, left)
    /\ isr' = [isr EXCEPT !.pc = IF n < left THEN "end" ELSE @]
    /\ UNCHANGED <<pc, ret, msgs, lag, wire, got, quiet>>

\* All messages are in the FIFO: TX_EMPTY is masked.
PumpEnds ==
    /\ isr.pc = "pump" /\ dev.msg_write_idx > Len(msgs)
    /\ ic' = [ic EXCEPT !.mask = IF dev.msg_err THEN {} ELSE INTR_DEFAULT_MASK \ {"TX_EMPTY"}]
    /\ isr' = [isr EXCEPT !.pc = "end"]
    /\ UNCHANGED <<pc, ret, msgs, dev, lag, wire, got, quiet>>

\* mutant of PumpFails: the interrupts stay enabled.
PumpFailsUnmasked ==
    /\ isr.pc = "pump" /\ dev.msg_write_idx <= Len(msgs) /\ BadMessage(dev.msg_write_idx)
    /\ dev' = [dev EXCEPT !.msg_err = TRUE]
    /\ ic' = [ic EXCEPT !.mask = INTR_DEFAULT_MASK]
    /\ isr' = [isr EXCEPT !.pc = "end"]
    /\ UNCHANGED <<pc, ret, msgs, lag, wire, got, quiet>>

\* A message that cannot be sent: all interrupts are masked.
PumpFails ==
    /\ isr.pc = "pump" /\ dev.msg_write_idx <= Len(msgs) /\ BadMessage(dev.msg_write_idx)
    /\ dev' = [dev EXCEPT !.msg_err = TRUE]
    /\ ic' = [ic EXCEPT !.mask = {}]
    /\ isr' = [isr EXCEPT !.pc = "end"]
    /\ UNCHANGED <<pc, ret, msgs, lag, wire, got, quiet>>

IsrEnd ==
    /\ isr.pc = "end"
    /\ dev' = [dev EXCEPT !.done = @ \/ "STOP_DET" \in isr.stat \/ dev.msg_err]
    /\ isr' = IsrOff
    /\ lag' = 0
    /\ UNCHANGED <<pc, ret, msgs, ic, wire, got, quiet>>

-----------------------------------------------------------------------------
i2c_silan_isr ==
    \/ IsrEnter \/ IsrAbort \/ ReadMessage \/ ReadSkips \/ ReadEnds
    \/ PumpMessage \/ PumpEnds \/ PumpFails \/ IsrEnd

\* What the caller does once it is in i2c_silan_xfer; a signal may or may not come.
Caller == BusBusy \/ i2c_silan_xfer_init \/ Completed \/ TimedOut \/ reset_i2c_bus

Next ==
    \/ \E call \in Calls : XferBegin(call)
    \/ Caller \/ Signalled
    \/ i2c_silan_isr
    \/ HwByte \/ HwAbort \/ HwStop

Spec == Init /\ [][Next]_vars

\* Interrupts are served, and the caller runs when none is pending; a second
\* passes.  Nothing is assumed of the bus: a slave may hold the clock for ever.
Fairness == WF_vars(i2c_silan_isr) /\ WF_vars(Caller)
FairSpec == Spec /\ Fairness

-----------------------------------------------------------------------------
Entry == [m : Nat, i : Nat, addr : Addr, rd : BOOLEAN]

TypeOK ==
    /\ pc \in {"idle", "begun", "waiting", "resetting"}
    /\ ret \in {"none", "num", "EINVAL", "EIO", "ERESTARTSYS", "ETIMEDOUT", "ETIMEDOUT_BUS"}
    /\ msgs \in Calls \cup {<<>>}
    /\ dev.msg_write_idx \in 1..(Len(msgs) + 1) /\ dev.msg_read_idx \in 1..(Len(msgs) + 1)
    /\ ic.tx \in Seq(Entry) /\ Len(ic.tx) <= Depth
    /\ ic.rx \in Seq(Entry) /\ Len(ic.rx) <= Depth
    /\ ic.mask \subseteq INTR_DEFAULT_MASK /\ ic.raw \subseteq {"TX_ABRT", "STOP_DET"}
    /\ isr.pc \in {"off", "read", "pump", "end"}

\* The places of the bytes of msgs.
Places(rd) ==
    UNION {{m} \X (1..msgs[m].len) : m \in {n \in 1..Len(msgs) : msgs[n].rd \in rd}}

\* Every byte of every message was on the bus, once and in order, and every byte
\* read is where it belongs.
Executed ==
    /\ {<<wire[k].m, wire[k].i>> : k \in DOMAIN wire} = Places(BOOLEAN)
    /\ \A k \in 1..(Len(wire) - 1) :
          \/ wire[k].m < wire[k + 1].m
          \/ wire[k].m = wire[k + 1].m /\ wire[k].i < wire[k + 1].i
    /\ got = {<<p, Byte(p[1], p[2])>> : p \in Places({TRUE})}

Succeeded == pc = "idle" /\ ret = "num"

(* A call that finds the controller quiet and reports success has executed   *)
(* all its messages, although the handler sees each interrupt late, bytes    *)
(* move while it runs and the messages are longer than the FIFOs.            *)
QuietCallExecuted == Succeeded /\ quiet => Executed

(* The same of every call: "Returns negative errno, else the number of       *)
(* messages executed" (i2c-core.c:1296).                                     *)
CallExecuted == Succeeded => Executed

(* In a call that began on a quiet controller, what waits to be sent is for  *)
(* the slave the controller addresses: no byte reaches another slave than    *)
(* its message names (i2c_silan_xfer_init and the address test of            *)
(* i2c_silan_xfer_msg).                                                      *)
RightSlave == quiet => \A k \in DOMAIN ic.tx : ic.tx[k].addr = ic.tar

(* After a quiet start the handler touches the messages, which are the       *)
(* caller's, only while the caller is inside i2c_silan_xfer, unless a signal *)
(* made it leave.                                                            *)
MessagesLive ==
    quiet /\ isr.pc \in {"read", "pump"} => pc # "idle" \/ ret = "ERESTARTSYS"

(* A call that succeeds after a quiet start, and one that resets the         *)
(* controller, leave it quiet, so the next call starts quiet.                *)
LeavesQuiet ==
    /\ pc = "idle" /\ ret = "num" /\ quiet => Quiet
    /\ pc = "idle" /\ ret = "ETIMEDOUT" => Quiet

(* A call that finds the controller quiet returns, whatever the slave and    *)
(* the messages are: no interrupt stays pending for ever and starves it.     *)
Returns == (pc # "idle" /\ quiet) ~> (pc = "idle")
=============================================================================
