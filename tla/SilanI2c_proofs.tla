--------------------------- MODULE SilanI2c_proofs ---------------------------
(***************************************************************************)
(* Proofs about SilanI2c, for every FIFO depth, every latency of the       *)
(* handler, every list of messages and everything that can go wrong.  That *)
(* a call executes its messages needs a prompt handler (Prompt), and so    *)
(* does the last part, that a waiting call comes nearer to its end.        *)
(***************************************************************************)
EXTENDS SilanI2c, SequenceTheorems, TLAPS

\* The controller, the driver's record and the handler, field by field.
IcType ==
    /\ ic = [on |-> ic.on, tar |-> ic.tar, mask |-> ic.mask, raw |-> ic.raw,
             active |-> ic.active, tx |-> ic.tx, rx |-> ic.rx]
    /\ ic.on \in BOOLEAN /\ ic.tar \in Addr /\ ic.active \in BOOLEAN
    /\ ic.mask \subseteq INTR_DEFAULT_MASK /\ ic.raw \subseteq {"TX_ABRT", "STOP_DET"}
    /\ ic.tx \in Seq(Entry) /\ Len(ic.tx) <= Depth
    /\ ic.rx \in Seq(Entry) /\ Len(ic.rx) <= Depth
DevType ==
    /\ dev = [msg_write_idx |-> dev.msg_write_idx, msg_read_idx |-> dev.msg_read_idx,
              wleft |-> dev.wleft, rleft |-> dev.rleft, writing |-> dev.writing,
              reading |-> dev.reading, cmd_err |-> dev.cmd_err, msg_err |-> dev.msg_err,
              done |-> dev.done]
    /\ dev.msg_write_idx \in 1..(Len(msgs) + 1) /\ dev.msg_read_idx \in 1..(Len(msgs) + 1)
    /\ dev.wleft \in Nat /\ dev.rleft \in Nat
    /\ dev.writing \in BOOLEAN /\ dev.reading \in BOOLEAN
    /\ dev.cmd_err \in BOOLEAN /\ dev.msg_err \in BOOLEAN /\ dev.done \in BOOLEAN
IsrType ==
    /\ isr = [pc |-> isr.pc, stat |-> isr.stat, addr |-> isr.addr]
    /\ isr.pc \in {"off", "read", "pump", "end"} /\ isr.stat \subseteq INTR_DEFAULT_MASK
    /\ isr.addr \in Addr
CallerType ==
    /\ pc \in {"idle", "begun", "waiting", "resetting"}
    /\ ret \in {"none", "num", "EINVAL", "EIO", "ERESTARTSYS", "ETIMEDOUT", "ETIMEDOUT_BUS"}
    /\ msgs \in Calls \cup {<<>>} /\ msgs \in Seq(Msg)
    /\ pc # "idle" => Len(msgs) >= 1
    /\ quiet \in BOOLEAN

\* A message that is being moved is one of the list, and no more is left of it
\* than it has.
Partial ==
    /\ dev.writing => /\ dev.msg_write_idx <= Len(msgs)
                      /\ dev.wleft <= msgs[dev.msg_write_idx].len
    /\ dev.reading => /\ dev.msg_read_idx <= Len(msgs) /\ msgs[dev.msg_read_idx].rd
                      /\ dev.rleft <= msgs[dev.msg_read_idx].len

\* A call that began quiet has disturbed nothing before it arms the controller.
BegunQuiet ==
    quiet /\ pc = "begun" => Quiet /\ INTR_STAT = {} /\ isr.pc = "off" /\ dev = DevStart

\* The controller has been reset and not been used since.
WasReset == pc = "idle" /\ ret = "ETIMEDOUT"

\* The message the handler goes on with is for the slave addressed, unless an
\* error has masked the interrupts.
NextAddressed ==
    quiet /\ pc # "begun" /\ ~WasReset =>
        /\ isr.pc # "off" /\ dev.msg_write_idx <= Len(msgs) => isr.addr = ic.tar
        /\ isr.pc # "pump" /\ ic.mask # {} /\ dev.msg_write_idx <= Len(msgs) =>
              msgs[dev.msg_write_idx].addr = ic.tar

\* An error ends the handler's work on the messages.
ErrorsMask ==
    quiet /\ pc # "begun" /\ ~WasReset /\ (dev.msg_err \/ dev.cmd_err) =>
        ic.mask = {} /\ isr.pc \in {"off", "end"}

\* No interrupt asks for bytes any more.
Deaf == ic.mask = {} \/ (~ic.on /\ ic.rx = <<>>)

\* Nothing asks for bytes once the call has returned, unless by a signal; after a
\* reset nothing happens at all.
AfterReturn ==
    /\ quiet /\ pc = "idle" /\ ret # "ERESTARTSYS" => Deaf /\ isr.pc \in {"off", "end"}
    /\ WasReset => Quiet /\ INTR_STAT = {} /\ isr.pc = "off"

IInv ==
    /\ IcType /\ DevType /\ IsrType /\ CallerType /\ Partial
    /\ BegunQuiet /\ RightSlave /\ NextAddressed /\ ErrorsMask /\ AfterReturn

-----------------------------------------------------------------------------
(* Operators.                                                                *)

(* A list of messages is a sequence of messages. *)
LEMMA CallIsSeq == ASSUME NEW call \in Calls PROVE call \in Seq(Msg) /\ Len(call) \in Nat /\ Len(call) >= 1
<1>1. call \in Seq(Msg) /\ call # <<>>  BY SilanI2cAssumption
<1>2. QED  BY <1>1, EmptySeq

(* The message at an index of the list. *)
LEMMA MsgAt ==
    ASSUME CallerType, NEW m \in 1..Len(msgs)
    PROVE  /\ msgs[m].addr \in Addr /\ msgs[m].rd \in BOOLEAN /\ msgs[m].len \in Nat
           /\ Len(msgs) \in Nat
<1>1. msgs[m] \in Msg /\ Len(msgs) \in Nat  BY DEF CallerType
<1>2. QED  BY <1>1 DEF Msg

(* The handler goes on to one of its loops or to its end, and to its end only *)
(* when nothing asks for bytes.                                              *)
LEMMA GoesTo ==
    ASSUME NEW stat
    PROVE  /\ Goes(stat) \in {"read", "pump", "end"}
           /\ "RX_FULL" \notin stat /\ "TX_EMPTY" \notin stat => Goes(stat) = "end"
  BY DEF Goes

(* Interrupts that are masked are not pending, and a deaf controller asks for *)
(* no bytes.                                                                 *)
LEMMA DeafStat ==
    ASSUME IcType
    PROVE  /\ INTR_STAT \subseteq INTR_DEFAULT_MASK
           /\ ic.mask = {} => INTR_STAT = {}
           /\ Deaf => "RX_FULL" \notin INTR_STAT /\ "TX_EMPTY" \notin INTR_STAT
  BY DEF IcType, INTR_STAT, Level, Deaf, INTR_DEFAULT_MASK

(* The least of two numbers. *)
LEMMA LeastOf ==
    ASSUME NEW a \in Int, NEW b \in Int
    PROVE  Least({a, b}) \in {a, b} /\ Least({a, b}) <= a /\ Least({a, b}) <= b
<1>1. \E x \in {a, b} : \A y \in {a, b} : x <= y  OBVIOUS
<1>2. Least({a, b}) \in {a, b} /\ \A y \in {a, b} : Least({a, b}) <= y
  BY <1>1 DEF Least
<1>3. QED  BY <1>2

(* The room in the FIFOs is not negative and fits the transmit FIFO. *)
LEMMA RoomFits ==
    ASSUME IcType, NEW rd \in BOOLEAN
    PROVE  Room(rd) \in Nat /\ Room(rd) <= Depth - Len(ic.tx)
<1>1. /\ Len(ic.tx) \in Nat /\ Len(ic.rx) \in Nat /\ Depth \in Nat
      /\ Len(ic.tx) <= Depth /\ Len(ic.rx) <= Depth
  BY SilanI2cAssumption DEF IcType
<1>2. Depth - Len(ic.tx) \in Nat /\ Depth - Len(ic.rx) \in Nat  BY <1>1
<1>3. CASE rd
  <2> DEFINE a == Depth - Len(ic.tx)
             b == Depth - Len(ic.rx)
  <2>1. a \in Nat /\ b \in Nat  BY <1>2
  <2>2. Room(rd) = IF b = 0 THEN 0 ELSE Least({a, b})  BY <1>3 DEF Room
  <2> HIDE DEF a, b
  <2>3. Least({a, b}) \in {a, b} /\ Least({a, b}) <= a  BY <2>1, LeastOf
  <2>4. Room(rd) \in Nat /\ Room(rd) <= a  BY <2>1, <2>2, <2>3
  <2>5. QED  BY <2>4 DEF a
<1>4. CASE ~rd
  BY <1>1, <1>2, <1>4 DEF Room
<1>5. QED  BY <1>3, <1>4

(* Initially nothing is under way. *)
LEMMA InitInv == Init => IInv
<1> SUFFICES ASSUME Init PROVE IInv  OBVIOUS
<1> USE DEF Init, IcReset, IsrOff, DevStart
<1>0. <<>> \in Seq(Entry) /\ <<>> \in Seq(Msg) /\ Len(<<>>) = 0 /\ Depth \in Nat
  BY EmptySeq, SilanI2cAssumption
<1>1. IcType  BY <1>0 DEF IcType, Addr
<1>2. DevType  BY <1>0 DEF DevType
<1>3. IsrType /\ CallerType  BY <1>0 DEF IsrType, CallerType, Addr
<1>4. Partial /\ BegunQuiet /\ RightSlave /\ NextAddressed /\ ErrorsMask
  BY <1>0 DEF Partial, BegunQuiet, RightSlave, NextAddressed, ErrorsMask, WasReset
<1>5. AfterReturn  BY DEF AfterReturn, Deaf, WasReset
<1>6. QED  BY <1>1, <1>2, <1>3, <1>4, <1>5 DEF IInv

-----------------------------------------------------------------------------
(* The controller.                                                           *)

(* A step of the controller that keeps what the driver has set up, makes no   *)
(* new entry to send, and is not one of a quiet controller.                  *)
LEMMA HwInv ==
    ASSUME IInv, IcType', UNCHANGED <<pc, ret, msgs, dev, isr, quiet>>, ~Quiet,
           ic'.on = ic.on, ic'.tar = ic.tar, ic'.mask = ic.mask,
           \A k \in DOMAIN ic'.tx : \E j \in DOMAIN ic.tx : ic'.tx[k] = ic.tx[j],
           ic.on \/ ic'.rx = ic.rx
    PROVE  IInv'
<1>1. DevType' /\ IsrType' /\ CallerType' /\ Partial'
  BY DEF IInv, DevType, IsrType, CallerType, Partial
<1>2. BegunQuiet' /\ RightSlave'  BY DEF IInv, BegunQuiet, RightSlave
<1>3. NextAddressed' /\ ErrorsMask'  BY DEF IInv, NextAddressed, ErrorsMask, WasReset
<1>4. AfterReturn'  BY DEF IInv, AfterReturn, Deaf, WasReset
<1>5. QED  BY <1>1, <1>2, <1>3, <1>4 DEF IInv

(* A byte goes out. *)
LEMMA ByteInv == ASSUME IInv, HwByte PROVE IInv'
<1> DEFINE e == Head(ic.tx)
<1>1. /\ ic.on /\ ic.tx # <<>> /\ ic.tx \in Seq(Entry) /\ ic.rx \in Seq(Entry)
      /\ Len(ic.tx) <= Depth /\ Len(ic.rx) <= Depth /\ Depth \in Nat
  BY SilanI2cAssumption DEF HwByte, IInv, IcType
<1>2. /\ e \in Entry /\ Tail(ic.tx) \in Seq(Entry) /\ Len(ic.tx) \in Nat
      /\ Len(Tail(ic.tx)) = Len(ic.tx) - 1
      /\ \A k \in DOMAIN Tail(ic.tx) : k + 1 \in DOMAIN ic.tx /\ Tail(ic.tx)[k] = ic.tx[k + 1]
  BY <1>1
<1>3. /\ ic'.on = ic.on /\ ic'.tar = ic.tar /\ ic'.mask = ic.mask /\ ic'.raw = ic.raw
      /\ ic'.active = TRUE /\ ic'.tx = Tail(ic.tx)
      /\ ic'.rx = IF e.rd /\ Len(ic.rx) < Depth THEN Append(ic.rx, e) ELSE ic.rx
      /\ ic' = [on |-> ic'.on, tar |-> ic'.tar, mask |-> ic'.mask, raw |-> ic'.raw,
                active |-> ic'.active, tx |-> ic'.tx, rx |-> ic'.rx]
  BY DEF HwByte, IInv, IcType
<1>4. ic'.rx \in Seq(Entry) /\ Len(ic'.rx) <= Depth
  <2>1. Append(ic.rx, e) \in Seq(Entry) /\ Len(Append(ic.rx, e)) = Len(ic.rx) + 1
    BY <1>1, <1>2
  <2>2. Len(ic.rx) \in Nat  BY <1>1
  <2>3. QED  BY <1>1, <1>3, <2>1, <2>2
<1>5. Len(ic'.tx) <= Depth  BY <1>1, <1>2, <1>3
<1>6. IcType'  BY <1>1, <1>2, <1>3, <1>4, <1>5 DEF IInv, IcType
<1>7. UNCHANGED <<pc, ret, msgs, dev, isr, quiet>>  BY DEF HwByte
<1>8. ~Quiet  BY <1>1 DEF Quiet
<1>9. \A k \in DOMAIN ic'.tx : \E j \in DOMAIN ic.tx : ic'.tx[k] = ic.tx[j]  BY <1>2, <1>3
<1>10. QED  BY <1>1, <1>3, <1>6, <1>7, <1>8, <1>9, HwInv

(* A slave does not acknowledge. *)
LEMMA HwAbortInv == ASSUME IInv, HwAbort PROVE IInv'
<1>1. /\ ic.on /\ ic.tx # <<>>
      /\ ic'.on = ic.on /\ ic'.tar = ic.tar /\ ic'.mask = ic.mask
      /\ ic'.raw = ic.raw \cup {"TX_ABRT"}
      /\ ic'.active = TRUE /\ ic'.tx = <<>> /\ ic'.rx = <<>>
      /\ ic' = [on |-> ic'.on, tar |-> ic'.tar, mask |-> ic'.mask, raw |-> ic'.raw,
                active |-> ic'.active, tx |-> ic'.tx, rx |-> ic'.rx]
  BY DEF HwAbort, IInv, IcType
<1>2. <<>> \in Seq(Entry) /\ Len(<<>>) = 0 /\ Depth \in Nat  BY EmptySeq, SilanI2cAssumption
<1>3. IcType'
  <2>1. ic'.raw \subseteq {"TX_ABRT", "STOP_DET"}  BY <1>1 DEF IInv, IcType
  <2>2. ic.tar \in Addr /\ ic.on \in BOOLEAN /\ ic.mask \subseteq INTR_DEFAULT_MASK
    BY DEF IInv, IcType
  <2>3. /\ ic'.tx \in Seq(Entry) /\ Len(ic'.tx) <= Depth
        /\ ic'.rx \in Seq(Entry) /\ Len(ic'.rx) <= Depth
    BY <1>1, <1>2
  <2>4. ic'.on \in BOOLEAN /\ ic'.tar \in Addr /\ ic'.active \in BOOLEAN
        /\ ic'.mask \subseteq INTR_DEFAULT_MASK
    BY <1>1, <2>2
  <2>5. QED  BY ONLY <1>1, <2>1, <2>3, <2>4 DEF IcType
<1>4. UNCHANGED <<pc, ret, msgs, dev, isr, quiet>>  BY DEF HwAbort
<1>5. ~Quiet  BY <1>1 DEF Quiet
<1>6. \A k \in DOMAIN ic'.tx : \E j \in DOMAIN ic.tx : ic'.tx[k] = ic.tx[j]  BY <1>1
<1>7. QED  BY <1>1, <1>3, <1>4, <1>5, <1>6, HwInv

(* The transaction ends. *)
LEMMA HwStopInv == ASSUME IInv, HwStop PROVE IInv'
<1>1. /\ ic.active
      /\ ic'.on = ic.on /\ ic'.tar = ic.tar /\ ic'.mask = ic.mask
      /\ ic'.raw = ic.raw \cup {"STOP_DET"}
      /\ ic'.active = FALSE /\ ic'.tx = ic.tx /\ ic'.rx = ic.rx
      /\ ic' = [on |-> ic'.on, tar |-> ic'.tar, mask |-> ic'.mask, raw |-> ic'.raw,
                active |-> ic'.active, tx |-> ic'.tx, rx |-> ic'.rx]
  BY DEF HwStop, IInv, IcType
<1>2. IcType'  BY <1>1 DEF IInv, IcType
<1>3. UNCHANGED <<pc, ret, msgs, dev, isr, quiet>>  BY DEF HwStop
<1>4. ~Quiet  BY <1>1 DEF Quiet
<1>5. \A k \in DOMAIN ic'.tx : \E j \in DOMAIN ic.tx : ic'.tx[k] = ic.tx[j]  BY <1>1
<1>6. QED  BY <1>1, <1>2, <1>3, <1>4, <1>5, HwInv

-----------------------------------------------------------------------------
(* i2c_silan_xfer.                                                           *)

\* What the caller never changes by itself.
LEMMA SameHandler ==
    ASSUME IInv, UNCHANGED <<msgs, dev, isr>> PROVE DevType' /\ IsrType' /\ Partial'
  BY DEF IInv, DevType, IsrType, Partial

(* A disabled controller. *)
LEMMA DisabledIs ==
    ASSUME IInv
    PROVE  /\ Disabled = [on |-> FALSE, tar |-> ic.tar, mask |-> ic.mask, raw |-> ic.raw,
                          active |-> ic.active, tx |-> <<>>, rx |-> <<>>]
           /\ <<>> \in Seq(Entry) /\ Len(<<>>) = 0 /\ 0 <= Depth
<1>1. ic = [on |-> ic.on, tar |-> ic.tar, mask |-> ic.mask, raw |-> ic.raw,
            active |-> ic.active, tx |-> ic.tx, rx |-> ic.rx]
  BY DEF IInv, IcType
<1>2. Disabled = [on |-> FALSE, tar |-> ic.tar, mask |-> ic.mask, raw |-> ic.raw,
                  active |-> ic.active, tx |-> <<>>, rx |-> <<>>]
  <2>1. PICK d : d = [ic EXCEPT !.on = FALSE, !.tx = <<>>, !.rx = <<>>]  OBVIOUS
  <2>2. /\ d.on = FALSE /\ d.tar = ic.tar /\ d.mask = ic.mask /\ d.raw = ic.raw
        /\ d.active = ic.active /\ d.tx = <<>> /\ d.rx = <<>>
        /\ d = [on |-> d.on, tar |-> d.tar, mask |-> d.mask, raw |-> d.raw,
                active |-> d.active, tx |-> d.tx, rx |-> d.rx]
    BY <1>1, <2>1
  <2>3. d = [on |-> FALSE, tar |-> ic.tar, mask |-> ic.mask, raw |-> ic.raw,
             active |-> ic.active, tx |-> <<>>, rx |-> <<>>]
    BY ONLY <2>2
  <2>4. QED  BY <2>1, <2>3 DEF Disabled
<1>3. <<>> \in Seq(Entry) /\ Len(<<>>) = 0 /\ 0 <= Depth  BY EmptySeq, SilanI2cAssumption
<1>4. QED  BY <1>2, <1>3

(* A call begins. *)
LEMMA BeginInv == ASSUME IInv, NEW call \in Calls, XferBegin(call) PROVE IInv'
<1> USE DEF XferBegin
<1>0. call \in Seq(Msg) /\ Len(call) \in Nat /\ Len(call) >= 1 /\ msgs' = call /\ dev' = DevStart
  BY CallIsSeq
<1>1. IcType' /\ IsrType'  BY DEF IInv, IcType, IsrType
<1>2. DevType' /\ Partial'  BY <1>0 DEF DevType, Partial, DevStart
<1>3. CallerType'
  <2>1. quiet' \in BOOLEAN  BY DEF Quiet
  <2>2. QED  BY <1>0, <2>1 DEF IInv, CallerType
<1>4. BegunQuiet' /\ RightSlave'
  <2>1. INTR_STAT' = {} /\ isr'.pc = "off"  BY DEF Pending, INTR_STAT, Level
  <2>2. quiet' = Quiet' /\ ic' = ic  BY DEF Quiet
  <2>3. Quiet => ic.tx = <<>>  BY DEF Quiet
  <2>4. QED  BY <2>1, <2>2, <2>3 DEF BegunQuiet, RightSlave
<1>5. NextAddressed' /\ ErrorsMask' /\ AfterReturn'
  BY DEF NextAddressed, ErrorsMask, AfterReturn, WasReset
<1>6. QED  BY <1>1, <1>2, <1>3, <1>4, <1>5 DEF IInv

(* The bus is busy: then the call did not begin quiet. *)
LEMMA BusBusyInv == ASSUME IInv, BusBusy PROVE IInv'
<1> USE DEF BusBusy, Return
<1>0. ~quiet  BY DEF IInv, BegunQuiet, Quiet
<1>1. DevType' /\ IsrType' /\ Partial'  BY SameHandler
<1>2. IcType' /\ CallerType'  BY DEF IInv, IcType, CallerType
<1>3. BegunQuiet' /\ RightSlave' /\ NextAddressed' /\ ErrorsMask' /\ AfterReturn'
  BY <1>0 DEF BegunQuiet, RightSlave, NextAddressed, ErrorsMask, AfterReturn, WasReset
<1>4. QED  BY <1>1, <1>2, <1>3 DEF IInv

(* The controller is armed and the caller sleeps. *)
LEMMA ArmInv == ASSUME IInv, i2c_silan_xfer_init PROVE IInv'
<1> USE DEF i2c_silan_xfer_init
<1>0. DevType' /\ IsrType' /\ Partial'  BY SameHandler
<1>1. PICK tar \in IF dev.msg_write_idx <= Len(msgs) THEN {msgs[dev.msg_write_idx].addr} ELSE Addr :
         ic' = [Disabled EXCEPT !.on = TRUE, !.tar = tar, !.mask = INTR_DEFAULT_MASK]
  OBVIOUS
<1>2. tar \in Addr
  <2>1. dev.msg_write_idx \in 1..(Len(msgs) + 1)  BY DEF IInv, DevType
  <2>2. Len(msgs) \in Nat  BY DEF IInv, CallerType
  <2>3. dev.msg_write_idx <= Len(msgs) => msgs[dev.msg_write_idx].addr \in Addr
    BY <2>1, <2>2, MsgAt DEF IInv
  <2>4. QED  BY <1>1, <2>3
<1>3. ic' = [on |-> TRUE, tar |-> tar, mask |-> INTR_DEFAULT_MASK, raw |-> ic.raw,
             active |-> ic.active, tx |-> <<>>, rx |-> <<>>]
  <2>1. Disabled = [on |-> FALSE, tar |-> ic.tar, mask |-> ic.mask, raw |-> ic.raw,
                    active |-> ic.active, tx |-> <<>>, rx |-> <<>>]
    BY DisabledIs
  <2>2. QED  BY ONLY <1>1, <2>1
<1>4. IcType'  BY <1>2, <1>3, DisabledIs DEF IInv, IcType
<1>5. CallerType'  BY DEF IInv, CallerType
<1>6. quiet => isr.pc = "off" /\ dev = DevStart /\ msgs[1].addr = tar
  <2>1. HAVE quiet
  <2>2. isr.pc = "off" /\ dev = DevStart  BY <2>1 DEF IInv, BegunQuiet
  <2>3. dev.msg_write_idx = 1 /\ 1 <= Len(msgs)
    BY <2>2 DEF DevStart, IInv, CallerType
  <2>4. QED  BY <1>1, <2>2, <2>3
<1>7. BegunQuiet' /\ AfterReturn'  BY DEF BegunQuiet, AfterReturn, WasReset
<1>8. RightSlave'
  <2>1. ic'.tx = <<>>  BY <1>3
  <2>2. DOMAIN ic'.tx = {}  BY <2>1
  <2>3. QED  BY <2>2 DEF RightSlave
<1>9. NextAddressed' /\ ErrorsMask'  BY <1>3, <1>6 DEF NextAddressed, ErrorsMask, DevStart, WasReset
<1>10. QED  BY <1>0, <1>4, <1>5, <1>7, <1>8, <1>9 DEF IInv

(* The completion ends the sleep. *)
LEMMA CompletedInv == ASSUME IInv, Completed PROVE IInv'
<1> USE DEF Completed, Return
<1>0. isr.pc = "off" /\ quiet' = quiet /\ pc' = "idle" /\ ret' \in {"num", "EINVAL", "EIO"}
  BY DEF Pending
<1>1. DevType' /\ IsrType' /\ Partial'  BY SameHandler
<1>2. CallerType'  BY DEF IInv, CallerType
<1>3. CASE UNCHANGED ic /\ (dev.msg_err \/ dev.cmd_err)
  <2>1. IcType' /\ BegunQuiet' /\ RightSlave' /\ NextAddressed' /\ ErrorsMask'
    BY <1>0, <1>3 DEF IInv, IcType, BegunQuiet, RightSlave, NextAddressed, ErrorsMask, WasReset
  <2>2. AfterReturn'  BY <1>0, <1>3 DEF IInv, AfterReturn, ErrorsMask, Deaf, WasReset
  <2>3. QED  BY <1>1, <1>2, <2>1, <2>2 DEF IInv
<1>4. CASE ic' = Disabled
  <2>1. ic' = [on |-> FALSE, tar |-> ic.tar, mask |-> ic.mask, raw |-> ic.raw,
               active |-> ic.active, tx |-> <<>>, rx |-> <<>>]
    BY <1>4, DisabledIs
  <2>2. IcType'  BY <2>1, DisabledIs DEF IInv, IcType
  <2>3. BegunQuiet' /\ RightSlave' /\ NextAddressed' /\ ErrorsMask'
    BY <1>0, <2>1 DEF IInv, BegunQuiet, RightSlave, NextAddressed, ErrorsMask, WasReset
  <2>4. AfterReturn'  BY <1>0, <2>1 DEF AfterReturn, Deaf, WasReset
  <2>5. QED  BY <1>1, <1>2, <2>2, <2>3, <2>4 DEF IInv
<1>5. QED  BY <1>3, <1>4

(* A signal or the timeout ends the sleep. *)
LEMMA GivesUpInv == ASSUME IInv, Signalled \/ TimedOut PROVE IInv'
<1> USE DEF Signalled, TimedOut, Return
<1>1. DevType' /\ IsrType' /\ Partial'  BY SameHandler
<1>2. IcType' /\ CallerType'  BY DEF IInv, IcType, CallerType
<1>3. BegunQuiet' /\ RightSlave' /\ NextAddressed' /\ ErrorsMask' /\ AfterReturn'
  BY DEF IInv, BegunQuiet, RightSlave, NextAddressed, ErrorsMask, AfterReturn, WasReset
<1>4. QED  BY <1>1, <1>2, <1>3 DEF IInv

(* After the timeout the controller is reset. *)
LEMMA ResetInv == ASSUME IInv, reset_i2c_bus PROVE IInv'
<1> USE DEF reset_i2c_bus, Return
<1>0. isr.pc = "off" /\ isr' = isr /\ pc' = "idle"  BY DEF Pending
<1>a. /\ ic' = [IcReset EXCEPT !.mask = ic'.mask] /\ ic'.mask \subseteq INTR_DEFAULT_MASK
      /\ ic'.on = FALSE /\ ic'.tar = 1 /\ ic'.raw = {} /\ ic'.active = FALSE
      /\ ic'.tx = <<>> /\ ic'.rx = <<>>
  BY DEF IcReset
<1>1. DevType' /\ IsrType' /\ Partial'  BY SameHandler
<1>2. IcType' /\ CallerType'
  <2>1. ic' = [on |-> FALSE, tar |-> 1, mask |-> ic'.mask, raw |-> {}, active |-> FALSE,
               tx |-> <<>>, rx |-> <<>>]
    BY ONLY <1>a DEF IcReset
  <2>2. <<>> \in Seq(Entry) /\ Len(<<>>) <= Depth /\ 1 \in Addr  BY DisabledIs, SilanI2cAssumption DEF Addr
  <2>3. IcType'  BY ONLY <1>a, <2>1, <2>2 DEF IcType
  <2>4. CallerType'  BY DEF IInv, CallerType
  <2>5. QED  BY <2>3, <2>4
<1>3. BegunQuiet' /\ RightSlave' /\ NextAddressed' /\ ErrorsMask'
  <2>1. BegunQuiet' /\ RightSlave' /\ NextAddressed'
    BY <1>0, <1>a DEF BegunQuiet, RightSlave, NextAddressed, WasReset
  <2>2. ErrorsMask'  BY <1>0, <1>a DEF ErrorsMask, WasReset
  <2>3. QED  BY <2>1, <2>2
<1>4. AfterReturn'  BY <1>0, <1>a DEF AfterReturn, Deaf, Quiet, INTR_STAT, Level, WasReset
<1>5. QED  BY <1>1, <1>2, <1>3, <1>4 DEF IInv

-----------------------------------------------------------------------------
(* i2c_silan_isr.                                                            *)

(* While the handler is in one of its loops no quiet call is about to begin,  *)
(* none has returned except by a signal, and there is no error.              *)
LEMMA InLoop ==
    ASSUME IInv, isr.pc \in {"read", "pump"}
    PROVE  /\ ~(quiet /\ pc = "begun")
           /\ ~(quiet /\ pc = "idle" /\ ret # "ERESTARTSYS")
           /\ ~(pc = "idle" /\ ret = "ETIMEDOUT")
           /\ quiet => ~dev.msg_err /\ ~dev.cmd_err
  BY DEF IInv, IcType, DevType, BegunQuiet, AfterReturn, ErrorsMask, WasReset

(* A step within the loops keeps what is said of quiet calls that begin or    *)
(* have returned.                                                            *)
LEMMA LoopInv ==
    ASSUME IInv, isr.pc \in {"read", "pump"}, UNCHANGED <<pc, ret, msgs, quiet>>
    PROVE  CallerType' /\ BegunQuiet' /\ AfterReturn'
  BY InLoop DEF IInv, CallerType, BegunQuiet, AfterReturn, WasReset

(* The handler reads the status. *)
LEMMA EnterInv == ASSUME IInv, IsrEnter PROVE IInv'
<1> USE DEF IsrEnter
<1>0. /\ INTR_STAT # {} /\ INTR_STAT \subseteq INTR_DEFAULT_MASK /\ ic.mask # {}
      /\ Deaf => Goes(INTR_STAT) = "end"
  BY DeafStat, GoesTo DEF IInv
<1>1. /\ ic'.on = ic.on /\ ic'.tar = ic.tar /\ ic'.mask = ic.mask
      /\ ic'.raw = ic.raw \ INTR_STAT
      /\ ic'.active = ic.active /\ ic'.tx = ic.tx /\ ic'.rx = ic.rx
      /\ ic' = [on |-> ic'.on, tar |-> ic'.tar, mask |-> ic'.mask, raw |-> ic'.raw,
                active |-> ic'.active, tx |-> ic'.tx, rx |-> ic'.rx]
  BY DEF IInv, IcType
<1>2. isr'.pc = Goes(INTR_STAT) /\ isr'.stat = INTR_STAT /\ isr'.addr = EntryAddr
  OBVIOUS
<1>3. dev.msg_write_idx \in 1..(Len(msgs) + 1) /\ Len(msgs) \in Nat
  BY DEF IInv, DevType, CallerType
<1>4. EntryAddr \in Addr
  BY <1>3, MsgAt DEF IInv, EntryAddr, Addr
<1>5. IcType'  BY <1>1 DEF IInv, IcType
<1>6. IsrType'  BY <1>0, <1>2, <1>4, GoesTo DEF IsrType
<1>7. DevType' /\ CallerType' /\ Partial'  BY DEF IInv, DevType, CallerType, Partial
<1>8. ~(quiet /\ pc = "begun")  BY <1>0 DEF IInv, BegunQuiet
<1>9. BegunQuiet' /\ RightSlave'  BY <1>1, <1>8 DEF IInv, BegunQuiet, RightSlave
<1>10. NextAddressed'
  BY <1>0, <1>1, <1>2, <1>3 DEF IInv, NextAddressed, EntryAddr, WasReset
<1>11. ErrorsMask'  BY <1>0, <1>8 DEF IInv, ErrorsMask, WasReset
<1>12. AfterReturn'  BY <1>0, <1>1, <1>2 DEF IInv, AfterReturn, Deaf, WasReset
<1>13. QED  BY <1>5, <1>6, <1>7, <1>9, <1>10, <1>11, <1>12 DEF IInv

(* An abort masks the interrupts. *)
LEMMA AbortInv == ASSUME IInv, IsrAbort PROVE IInv'
<1> USE DEF IsrAbort
<1>0. INTR_STAT # {}  OBVIOUS
<1>1. /\ ic'.on = ic.on /\ ic'.tar = ic.tar /\ ic'.mask = {} /\ ic'.raw = ic.raw \ INTR_STAT
      /\ ic'.active = ic.active /\ ic'.tx = ic.tx /\ ic'.rx = ic.rx
      /\ ic' = [on |-> ic'.on, tar |-> ic'.tar, mask |-> ic'.mask, raw |-> ic'.raw,
                active |-> ic'.active, tx |-> ic'.tx, rx |-> ic'.rx]
  BY DEF IInv, IcType
<1>2. IcType'  BY <1>1 DEF IInv, IcType
<1>3. DevType' /\ Partial'  BY DEF IInv, DevType, Partial
<1>4. IsrType' /\ CallerType'  BY DEF IInv, IsrType, CallerType
<1>5. ~(quiet /\ pc = "begun") /\ ~(pc = "idle" /\ ret = "ETIMEDOUT")
  BY <1>0 DEF IInv, BegunQuiet, AfterReturn, WasReset
<1>6. BegunQuiet' /\ RightSlave'  BY <1>1, <1>5 DEF IInv, BegunQuiet, RightSlave
<1>7. NextAddressed' /\ ErrorsMask'  BY <1>1 DEF NextAddressed, ErrorsMask, WasReset
<1>8. AfterReturn'  BY <1>1, <1>5 DEF IInv, AfterReturn, Deaf, WasReset
<1>9. QED  BY <1>2, <1>3, <1>4, <1>6, <1>7, <1>8 DEF IInv

(* Bytes of a message are taken from the receive FIFO. *)
LEMMA ReadInv == ASSUME IInv, ReadMessage PROVE IInv'
<1> DEFINE m == dev.msg_read_idx
           left == IF dev.reading THEN dev.rleft ELSE msgs[m].len
           n == IF left < Len(ic.rx) THEN left ELSE Len(ic.rx)
<1>1. /\ isr.pc = "read" /\ m <= Len(msgs) /\ msgs[m].rd
      /\ ic' = [ic EXCEPT !.rx = SubSeq(@, n + 1, Len(@))]
      /\ \/ /\ n < left
            /\ dev' = [dev EXCEPT !.reading = TRUE, !.rleft = left - n]
            /\ isr' = [isr EXCEPT !.pc = Goes(isr.stat \ {"RX_FULL"})]
         \/ /\ n = left
            /\ dev' = [dev EXCEPT !.reading = FALSE, !.msg_read_idx = m + 1]
            /\ UNCHANGED isr
      /\ UNCHANGED <<pc, ret, msgs, quiet>>
  BY DEF ReadMessage
<1>2. m \in 1..Len(msgs) /\ Len(msgs) \in Nat /\ msgs[m].len \in Nat
  <2>1. m \in 1..(Len(msgs) + 1) /\ Len(msgs) \in Nat  BY DEF IInv, DevType, CallerType
  <2>2. m \in 1..Len(msgs)  BY <1>1, <2>1
  <2>3. QED  BY <2>1, <2>2, MsgAt DEF IInv
<1>3. left \in Nat /\ left <= msgs[m].len  BY <1>2 DEF IInv, DevType, Partial
<1>4. Len(ic.rx) \in Nat /\ n \in Nat /\ n <= left /\ n <= Len(ic.rx) /\ ic.rx \in Seq(Entry)
  BY <1>3 DEF IInv, IcType
<1> HIDE DEF left, n
<1>5. /\ ic'.on = ic.on /\ ic'.tar = ic.tar /\ ic'.mask = ic.mask /\ ic'.raw = ic.raw
      /\ ic'.active = ic.active /\ ic'.tx = ic.tx /\ ic'.rx = SubSeq(ic.rx, n + 1, Len(ic.rx))
      /\ ic' = [on |-> ic'.on, tar |-> ic'.tar, mask |-> ic'.mask, raw |-> ic'.raw,
                active |-> ic'.active, tx |-> ic'.tx, rx |-> ic'.rx]
  BY <1>1 DEF IInv, IcType
<1>6. IcType'
  <2>1. SubSeq(ic.rx, n + 1, Len(ic.rx)) \in Seq(Entry)
        /\ Len(SubSeq(ic.rx, n + 1, Len(ic.rx))) <= Len(ic.rx)
    BY <1>4
  <2>2. Len(ic'.rx) <= Depth  BY <1>4, <1>5, <2>1, SilanI2cAssumption DEF IInv, IcType
  <2>3. QED  BY <1>5, <2>1, <2>2 DEF IInv, IcType
<1>7. DevType' /\ Partial'
  <2>0. /\ dev'.msg_write_idx = dev.msg_write_idx /\ dev'.wleft = dev.wleft
        /\ dev'.writing = dev.writing /\ dev'.cmd_err = dev.cmd_err
        /\ dev'.msg_err = dev.msg_err /\ dev'.done = dev.done
        /\ dev' = [msg_write_idx |-> dev'.msg_write_idx, msg_read_idx |-> dev'.msg_read_idx,
                   wleft |-> dev'.wleft, rleft |-> dev'.rleft, writing |-> dev'.writing,
                   reading |-> dev'.reading, cmd_err |-> dev'.cmd_err,
                   msg_err |-> dev'.msg_err, done |-> dev'.done]
    BY <1>1 DEF IInv, DevType
  <2>1. CASE n < left /\ dev' = [dev EXCEPT !.reading = TRUE, !.rleft = left - n]
    <3>1. dev'.reading = TRUE /\ dev'.rleft = left - n /\ dev'.msg_read_idx = m
      BY <2>1 DEF IInv, DevType
    <3>2. dev'.rleft \in Nat /\ dev'.rleft <= msgs[m].len  BY <1>2, <1>3, <1>4, <2>1, <3>1
    <3>3. QED  BY <1>1, <1>2, <2>0, <3>1, <3>2 DEF IInv, DevType, Partial
  <2>2. CASE dev' = [dev EXCEPT !.reading = FALSE, !.msg_read_idx = m + 1]
    <3>1. dev'.reading = FALSE /\ dev'.rleft = dev.rleft /\ dev'.msg_read_idx = m + 1
      BY <2>2 DEF IInv, DevType
    <3>2. m + 1 \in 1..(Len(msgs) + 1)  BY <1>2
    <3>3. QED  BY <1>1, <2>0, <3>1, <3>2 DEF IInv, DevType, Partial
  <2>3. QED  BY <1>1, <2>1, <2>2
<1>8. IsrType' /\ isr'.addr = isr.addr /\ isr'.pc \in {"read", "pump", "end"}
  <2>1. CASE isr' = [isr EXCEPT !.pc = Goes(isr.stat \ {"RX_FULL"})]
    BY <2>1, GoesTo DEF IInv, IsrType
  <2>2. CASE isr' = isr  BY <1>1, <2>2 DEF IInv, IsrType
  <2>3. QED  BY <1>1, <2>1, <2>2
<1>9. /\ dev'.msg_write_idx = dev.msg_write_idx /\ dev'.msg_err = dev.msg_err
      /\ dev'.cmd_err = dev.cmd_err
  BY <1>1 DEF IInv, DevType
<1>10. CallerType' /\ BegunQuiet' /\ AfterReturn'  BY <1>1, LoopInv
<1>11. RightSlave' /\ NextAddressed'
  BY <1>1, <1>5, <1>8, <1>9 DEF IInv, RightSlave, NextAddressed, WasReset
<1>12. ErrorsMask'  BY <1>1, <1>9, InLoop DEF ErrorsMask, WasReset
<1>13. QED  BY <1>6, <1>7, <1>8, <1>10, <1>11, <1>12 DEF IInv

(* A message that is written is passed over, or there is none left. *)
LEMMA ReadOnInv == ASSUME IInv, ReadSkips \/ ReadEnds PROVE IInv'
<1>1. isr.pc = "read" /\ UNCHANGED <<pc, ret, msgs, ic, quiet>>  BY DEF ReadSkips, ReadEnds
<1>2. dev.msg_read_idx \in 1..(Len(msgs) + 1) /\ Len(msgs) \in Nat
  BY DEF IInv, DevType, CallerType
<1>3. /\ DevType' /\ Partial' /\ IsrType'
      /\ dev'.msg_write_idx = dev.msg_write_idx /\ dev'.msg_err = dev.msg_err
      /\ dev'.cmd_err = dev.cmd_err /\ isr'.addr = isr.addr
  <2>1. CASE ReadSkips
    <3>1. /\ dev' = [dev EXCEPT !.msg_read_idx = @ + 1] /\ isr' = isr
          /\ dev.msg_read_idx <= Len(msgs) /\ ~dev.reading
      BY <2>1 DEF ReadSkips, IInv, Partial
    <3>2. QED  BY <1>1, <1>2, <3>1 DEF IInv, DevType, Partial, IsrType
  <2>2. CASE ReadEnds
    <3>1. dev' = dev /\ isr' = [isr EXCEPT !.pc = Goes(isr.stat \ {"RX_FULL"})]
      BY <2>2 DEF ReadEnds
    <3>2. QED  BY <1>1, <3>1, GoesTo DEF IInv, DevType, Partial, IsrType
  <2>3. QED  BY <2>1, <2>2
<1>4. CallerType' /\ BegunQuiet' /\ AfterReturn'  BY <1>1, LoopInv
<1>5. IcType' /\ RightSlave' /\ NextAddressed'
  BY <1>1, <1>3 DEF IInv, IcType, RightSlave, NextAddressed, WasReset
<1>6. ErrorsMask'  BY <1>1, <1>3, InLoop DEF ErrorsMask, WasReset
<1>7. QED  BY <1>3, <1>4, <1>5, <1>6 DEF IInv

(* As much of a message as there is room for goes into the transmit FIFO. *)
LEMMA PumpInv == ASSUME IInv, PumpMessage PROVE IInv'
<1> DEFINE m == dev.msg_write_idx
           left == IF dev.writing THEN dev.wleft ELSE msgs[m].len
           n == Least({left, Room(msgs[m].rd)})
           new == [k \in 1..n |-> Byte(m, msgs[m].len - left + k)]
<1>1. /\ isr.pc = "pump" /\ m <= Len(msgs) /\ msgs[m].addr = isr.addr
      /\ ic' = [ic EXCEPT !.tx = Written(new), !.mask = IF n < left THEN INTR_DEFAULT_MASK ELSE @]
      /\ dev' = [dev EXCEPT !.wleft = left - n, !.writing = n < left,
                           !.msg_write_idx = IF n < left THEN m ELSE m + 1]
      /\ isr' = [isr EXCEPT !.pc = IF n < left THEN "end" ELSE @]
      /\ UNCHANGED <<pc, ret, msgs, quiet>>
  BY DEF PumpMessage, Progress, BadMessage
<1>2. /\ m \in 1..Len(msgs) /\ Len(msgs) \in Nat /\ msgs[m].len \in Nat
      /\ msgs[m].addr \in Addr /\ msgs[m].rd \in BOOLEAN
  <2>1. m \in 1..(Len(msgs) + 1) /\ Len(msgs) \in Nat  BY DEF IInv, DevType, CallerType
  <2>2. m \in 1..Len(msgs)  BY <1>1, <2>1
  <2>3. QED  BY <2>1, <2>2, MsgAt DEF IInv
<1>3. left \in Nat /\ left <= msgs[m].len  BY <1>2 DEF IInv, DevType, Partial
<1>4. n \in Nat /\ n <= left /\ n <= Depth - Len(ic.tx)
  <2> HIDE DEF left
  <2>1. Room(msgs[m].rd) \in Nat /\ Room(msgs[m].rd) <= Depth - Len(ic.tx)
    BY <1>2, RoomFits DEF IInv
  <2>2. n \in {left, Room(msgs[m].rd)} /\ n <= left /\ n <= Room(msgs[m].rd)
    <3> DEFINE room == Room(msgs[m].rd)
    <3>1. room \in Nat  BY <2>1
    <3> HIDE DEF room
    <3>2. Least({left, room}) \in {left, room} /\ Least({left, room}) <= left /\ Least({left, room}) <= room
      BY <1>3, <3>1, LeastOf
    <3>3. QED  BY <3>2 DEF room
  <2> HIDE DEF n
  <2>3. Depth \in Nat /\ Len(ic.tx) \in Nat  BY SilanI2cAssumption DEF IInv, IcType
  <2>4. QED  BY <1>3, <2>1, <2>2, <2>3
<1> HIDE DEF left, n
<1>5. /\ new \in Seq(Entry) /\ Len(new) = n
      /\ \A k \in 1..n : new[k].addr = isr.addr
  <2>1. \A k \in 1..n : msgs[m].len - left + k \in Nat  BY <1>2, <1>3, <1>4
  <2>2. \A k \in 1..n : Byte(m, msgs[m].len - left + k) \in Entry
    BY <1>2, <2>1 DEF Byte, Entry
  <2>3. new \in Seq(Entry) /\ Len(new) = n  BY <1>4, <2>2
  <2>4. \A k \in 1..n : new[k].addr = isr.addr  BY <1>1 DEF Byte
  <2>5. QED  BY <2>3, <2>4
<1> HIDE DEF new
<1>6. /\ Written(new) \in Seq(Entry) /\ Len(Written(new)) <= Depth
      /\ \A k \in DOMAIN Written(new) :
            \/ \E j \in DOMAIN ic.tx : Written(new)[k] = ic.tx[j]
            \/ Written(new)[k].addr = isr.addr
  <2>1. ic.tx \in Seq(Entry) /\ Len(ic.tx) \in Nat /\ Len(ic.tx) <= Depth /\ Depth \in Nat
    BY SilanI2cAssumption DEF IInv, IcType
  <2>2. /\ ic.tx \o new \in Seq(Entry) /\ Len(ic.tx \o new) = Len(ic.tx) + n
        /\ DOMAIN (ic.tx \o new) = 1..(Len(ic.tx) + n) /\ DOMAIN ic.tx = 1..Len(ic.tx)
        /\ \A k \in 1..(Len(ic.tx) + n) :
              (ic.tx \o new)[k] = IF k <= Len(ic.tx) THEN ic.tx[k] ELSE new[k - Len(ic.tx)]
    <3>1. /\ ic.tx \o new \in Seq(Entry) /\ Len(ic.tx \o new) = Len(ic.tx) + Len(new)
          /\ \A k \in 1..(Len(ic.tx) + Len(new)) :
                (ic.tx \o new)[k] = IF k <= Len(ic.tx) THEN ic.tx[k] ELSE new[k - Len(ic.tx)]
      BY <1>5, <2>1, ConcatProperties
    <3>2. DOMAIN (ic.tx \o new) = 1..Len(ic.tx \o new) /\ DOMAIN ic.tx = 1..Len(ic.tx)
      BY <2>1, <3>1, LenProperties
    <3>3. QED  BY <1>5, <3>1, <3>2
  <2>3. \A k \in DOMAIN (ic.tx \o new) :
            \/ \E j \in DOMAIN ic.tx : (ic.tx \o new)[k] = ic.tx[j]
            \/ (ic.tx \o new)[k].addr = isr.addr
    <3>1. TAKE k \in DOMAIN (ic.tx \o new)
    <3>2. CASE k <= Len(ic.tx)  BY <2>1, <2>2, <3>2
    <3>3. CASE ~(k <= Len(ic.tx))
      <4>1. k - Len(ic.tx) \in 1..n  BY <1>4, <2>1, <2>2, <3>3
      <4>2. (ic.tx \o new)[k] = new[k - Len(ic.tx)]  BY <2>2, <3>3
      <4>3. QED  BY <1>5, <4>1, <4>2
    <3>4. QED  BY <3>2, <3>3
  <2>4. Len(ic.tx) + n <= Depth  BY <1>4, <2>1
  <2>5. CASE Written(new) = ic.tx \o new  BY <2>2, <2>3, <2>4, <2>5
  <2>6. CASE Written(new) = ic.tx  BY <2>1, <2>6
  <2>7. QED  BY <2>5, <2>6 DEF Written
<1>7. /\ ic'.on = ic.on /\ ic'.tar = ic.tar /\ ic'.raw = ic.raw /\ ic'.active = ic.active
      /\ ic'.mask = (IF n < left THEN INTR_DEFAULT_MASK ELSE ic.mask)
      /\ ic'.tx = Written(new) /\ ic'.rx = ic.rx
      /\ ic' = [on |-> ic'.on, tar |-> ic'.tar, mask |-> ic'.mask, raw |-> ic'.raw,
                active |-> ic'.active, tx |-> ic'.tx, rx |-> ic'.rx]
  BY <1>1 DEF IInv, IcType
<1>8. IcType'  BY <1>6, <1>7 DEF IInv, IcType
<1>9. /\ dev'.msg_write_idx = (IF n < left THEN m ELSE m + 1)
      /\ dev'.msg_read_idx = dev.msg_read_idx /\ dev'.wleft = left - n
      /\ dev'.rleft = dev.rleft /\ dev'.writing = (n < left) /\ dev'.reading = dev.reading
      /\ dev'.cmd_err = dev.cmd_err /\ dev'.msg_err = dev.msg_err /\ dev'.done = dev.done
      /\ dev' = [msg_write_idx |-> dev'.msg_write_idx, msg_read_idx |-> dev'.msg_read_idx,
                 wleft |-> dev'.wleft, rleft |-> dev'.rleft, writing |-> dev'.writing,
                 reading |-> dev'.reading, cmd_err |-> dev'.cmd_err, msg_err |-> dev'.msg_err,
                 done |-> dev'.done]
  BY <1>1 DEF IInv, DevType
<1>10. DevType'
  <2>1. dev'.writing \in BOOLEAN  BY <1>9
  <2>2. dev'.msg_write_idx \in 1..(Len(msgs) + 1)  BY <1>2, <1>9
  <2>3. dev'.wleft \in Nat  BY <1>3, <1>4, <1>9
  <2>4. QED  BY <1>1, <1>9, <2>1, <2>2, <2>3 DEF IInv, DevType
<1>11. Partial'
  <2>1. dev'.writing => m <= Len(msgs) /\ dev'.msg_write_idx = m /\ dev'.wleft <= msgs[m].len
    <3>1. HAVE dev'.writing
    <3>2. n < left /\ dev'.msg_write_idx = m /\ dev'.wleft = left - n  BY <1>9, <3>1
    <3>3. QED  BY <1>1, <1>2, <1>3, <1>4, <3>2
  <2>2. QED  BY <1>1, <1>9, <2>1 DEF IInv, Partial
<1>12. IsrType' /\ isr'.addr = isr.addr /\ isr'.pc \in {"pump", "end"} /\ (isr'.pc = "end" => n < left)
  BY <1>1 DEF IInv, IsrType
<1>13. CallerType' /\ BegunQuiet' /\ AfterReturn'  BY <1>1, LoopInv
<1>14. quiet => isr.addr = ic.tar
  BY <1>1, InLoop DEF IInv, NextAddressed, WasReset
<1>15. RightSlave'  BY <1>1, <1>6, <1>7, <1>14 DEF IInv, RightSlave
<1>16. NextAddressed'  BY <1>1, <1>7, <1>9, <1>12, <1>14 DEF IInv, NextAddressed, WasReset
<1>17. ErrorsMask'  BY <1>1, <1>9, InLoop DEF ErrorsMask, WasReset
<1>18. QED  BY <1>8, <1>10, <1>11, <1>12, <1>13, <1>15, <1>16, <1>17 DEF IInv

(* The last message is in the FIFO, or one cannot be sent. *)
LEMMA PumpOverInv == ASSUME IInv, PumpEnds \/ PumpFails PROVE IInv'
<1>1. /\ isr.pc = "pump" /\ isr' = [isr EXCEPT !.pc = "end"]
      /\ UNCHANGED <<pc, ret, msgs, quiet>>
  BY DEF PumpEnds, PumpFails
<1>2. CallerType' /\ BegunQuiet' /\ AfterReturn'  BY <1>1, LoopInv
<1>3. IsrType' /\ isr'.addr = isr.addr /\ isr'.pc = "end"  BY <1>1 DEF IInv, IsrType
<1>4. PICK mask \in SUBSET INTR_DEFAULT_MASK : ic' = [ic EXCEPT !.mask = mask]
  BY DEF PumpEnds, PumpFails
<1>5. /\ ic'.on = ic.on /\ ic'.tar = ic.tar /\ ic'.raw = ic.raw /\ ic'.active = ic.active
      /\ ic'.mask = mask /\ ic'.tx = ic.tx /\ ic'.rx = ic.rx
      /\ ic' = [on |-> ic'.on, tar |-> ic'.tar, mask |-> ic'.mask, raw |-> ic'.raw,
                active |-> ic'.active, tx |-> ic'.tx, rx |-> ic'.rx]
  BY <1>4 DEF IInv, IcType
<1>6. IcType'  BY <1>5 DEF IInv, IcType
<1>7. RightSlave'  BY <1>1, <1>5 DEF IInv, RightSlave
<1>8. CASE PumpEnds
  <2>1. dev' = dev /\ dev.msg_write_idx > Len(msgs)  BY <1>8 DEF PumpEnds
  <2>2. DevType' /\ Partial'  BY <1>1, <2>1 DEF IInv, DevType, Partial
  <2>3. NextAddressed'
    <3>1. Len(msgs) \in Nat /\ dev.msg_write_idx \in Nat  BY DEF IInv, CallerType, DevType
    <3>2. ~(dev'.msg_write_idx <= Len(msgs'))  BY <1>1, <2>1, <3>1
    <3>3. QED  BY <3>2 DEF NextAddressed, WasReset
  <2>4. ErrorsMask'  BY <1>1, <2>1, InLoop DEF ErrorsMask, WasReset
  <2>5. QED  BY <1>2, <1>3, <1>6, <1>7, <2>2, <2>3, <2>4 DEF IInv
<1>9. CASE PumpFails
  <2>1. dev' = [dev EXCEPT !.msg_err = TRUE] /\ ic'.mask = {}
    BY <1>9 DEF PumpFails, IInv, IcType
  <2>2. DevType' /\ Partial' /\ dev'.msg_write_idx = dev.msg_write_idx
    BY <1>1, <2>1 DEF IInv, DevType, Partial
  <2>3. NextAddressed'  BY <1>1, <1>3, <1>5, <2>1, <2>2 DEF IInv, NextAddressed, WasReset
  <2>4. ErrorsMask'  BY <1>3, <2>1 DEF ErrorsMask, WasReset
  <2>5. QED  BY <1>2, <1>3, <1>6, <1>7, <2>2, <2>3, <2>4 DEF IInv
<1>10. QED  BY <1>8, <1>9

(* The handler returns. *)
LEMMA EndInv == ASSUME IInv, IsrEnd PROVE IInv'
<1> USE DEF IsrEnd
<1>1. /\ dev'.msg_write_idx = dev.msg_write_idx /\ dev'.msg_read_idx = dev.msg_read_idx
      /\ dev'.wleft = dev.wleft /\ dev'.rleft = dev.rleft /\ dev'.writing = dev.writing
      /\ dev'.reading = dev.reading /\ dev'.cmd_err = dev.cmd_err /\ dev'.msg_err = dev.msg_err
      /\ dev'.done = (dev.done \/ "STOP_DET" \in isr.stat \/ dev.msg_err)
      /\ dev' = [msg_write_idx |-> dev'.msg_write_idx, msg_read_idx |-> dev'.msg_read_idx,
                 wleft |-> dev'.wleft, rleft |-> dev'.rleft, writing |-> dev'.writing,
                 reading |-> dev'.reading, cmd_err |-> dev'.cmd_err, msg_err |-> dev'.msg_err,
                 done |-> dev'.done]
  BY DEF IInv, DevType
<1>2. dev'.done \in BOOLEAN  BY <1>1
<1>3. DevType' /\ Partial'  BY <1>1, <1>2 DEF IInv, DevType, Partial
<1>4. IcType' /\ IsrType' /\ CallerType'  BY DEF IInv, IcType, IsrType, IsrOff, CallerType, Addr
<1>5. isr'.pc = "off" /\ ic' = ic  BY DEF IsrOff
<1>6. ~(quiet /\ pc = "begun") /\ ~(pc = "idle" /\ ret = "ETIMEDOUT")
  BY DEF IInv, BegunQuiet, AfterReturn, WasReset
<1>7. BegunQuiet' /\ RightSlave' /\ AfterReturn'
  BY <1>5, <1>6 DEF IInv, BegunQuiet, RightSlave, AfterReturn, Deaf, WasReset
<1>8. NextAddressed' /\ ErrorsMask'
  BY <1>1, <1>5 DEF IInv, NextAddressed, ErrorsMask, WasReset
<1>9. QED  BY <1>3, <1>4, <1>7, <1>8 DEF IInv

-----------------------------------------------------------------------------
(* Every step keeps the invariant. *)
LEMMA NextInv == IInv /\ [Next]_vars => IInv'
<1> SUFFICES ASSUME IInv, [Next]_vars PROVE IInv'  OBVIOUS
<1>1. ASSUME NEW call \in Calls, XferBegin(call) PROVE IInv'  BY <1>1, BeginInv
<1>2. CASE Caller \/ Signalled
  BY <1>2, BusBusyInv, ArmInv, CompletedInv, GivesUpInv, ResetInv DEF Caller
<1>3. CASE i2c_silan_isr
  BY <1>3, EnterInv, AbortInv, ReadInv, ReadOnInv, PumpInv, PumpOverInv, EndInv DEF i2c_silan_isr
<1>4. CASE HwByte \/ HwAbort \/ HwStop  BY <1>4, ByteInv, HwAbortInv, HwStopInv
<1>5. CASE UNCHANGED vars
  BY <1>5 DEF vars, IInv, IcType, DevType, IsrType, CallerType, Partial, BegunQuiet, Quiet, INTR_STAT,
              Level, RightSlave, NextAddressed, ErrorsMask, AfterReturn, Deaf, WasReset
<1>6. QED  BY <1>1, <1>2, <1>3, <1>4, <1>5 DEF Next

(* The indices stay within the message list and neither FIFO is overfilled,   *)
(* whatever the slave, the caller and the latency of the handler do.         *)
THEOREM TypesHold == Spec => []TypeOK
<1>1. IInv => TypeOK  BY DEF IInv, IcType, DevType, IsrType, CallerType, TypeOK
<1>2. QED  BY InitInv, NextInv, <1>1, PTL DEF Spec

(* After a quiet start no byte waits for another slave than the one its       *)
(* message names, and the handler touches the caller's messages only while   *)
(* the caller is inside i2c_silan_xfer, unless a signal made it leave.       *)
THEOREM QuietCallsSafe == Spec => [](RightSlave /\ MessagesLive)
<1>1. IInv => RightSlave /\ MessagesLive
  BY DEF IInv, AfterReturn, MessagesLive, WasReset
<1>2. QED  BY InitInv, NextInv, <1>1, PTL DEF Spec

-----------------------------------------------------------------------------
(* A call that succeeds has executed its messages, when the handler is      *)
(* prompt: half a FIFO outlasts its latency, and so does the first message,  *)
(* unless it is the only one or is refused.  Otherwise the controller may    *)
(* run dry and end the transaction while messages are left.                  *)
Prompt ==
    /\ MaxLag >= 1 /\ 2 * MaxLag <= Depth
    /\ \A call \in Calls : Len(call) = 1 \/ call[1].len = 0 \/ call[1].len >= MaxLag

AllPumped == dev.msg_write_idx > Len(msgs)

\* The entry e stands for a byte of the messages.
IsByte(e) == e.m \in 1..Len(msgs) /\ e.i \in 1..msgs[e.m].len /\ e = Byte(e.m, e.i)
Before(a, b) == a.m < b.m \/ (a.m = b.m /\ a.i < b.i)

\* What the handler has written to the transmit FIFO, and what it has stored.
Sent(m, i) ==
    \/ m < dev.msg_write_idx
    \/ m = dev.msg_write_idx /\ dev.writing /\ i <= msgs[m].len - dev.wleft
Stored(m, i) ==
    \/ m < dev.msg_read_idx
    \/ m = dev.msg_read_idx /\ dev.reading /\ i <= msgs[m].len - dev.rleft

\* A call that began quiet, before and without an error.
Armed == quiet /\ pc = "waiting" /\ ~dev.cmd_err /\ ~dev.msg_err
Clean == Armed /\ "TX_ABRT" \notin ic.raw

Histories ==
    /\ wire \in Seq(Entry) /\ lag \in 0..MaxLag
    /\ pc = "begun" => wire = <<>> /\ got = {}

Listens ==
    Armed => /\ ic.on /\ {"RX_FULL", "TX_ABRT", "STOP_DET"} \subseteq ic.mask
             /\ "TX_EMPTY" \in ic.mask \/ AllPumped

\* The bytes on the bus and in the transmit FIFO are those written, in order.
Flow == wire \o ic.tx
FlowIsSent ==
    /\ \A k \in DOMAIN Flow : IsByte(Flow[k]) /\ Sent(Flow[k].m, Flow[k].i)
    /\ \A j, k \in DOMAIN Flow : j < k => Before(Flow[j], Flow[k])
    /\ \A m \in 1..Len(msgs) : \A i \in 1..msgs[m].len :
          Sent(m, i) => \E k \in DOMAIN Flow : Flow[k] = Byte(m, i)
    /\ \A m \in 1..Len(msgs) : m < dev.msg_write_idx => msgs[m].len > 0

\* The receive FIFO holds the bytes read on the bus that are not yet stored, in
\* order and without a gap within a message.
FifoIsRead ==
    /\ \A k \in DOMAIN ic.rx : /\ ic.rx[k].rd /\ ~Stored(ic.rx[k].m, ic.rx[k].i)
                               /\ \E j \in DOMAIN wire : wire[j] = ic.rx[k]
    /\ \A j, k \in DOMAIN ic.rx : j < k =>
          /\ Before(ic.rx[j], ic.rx[k])
          /\ ic.rx[j].m = ic.rx[k].m => ic.rx[k].i - ic.rx[j].i = k - j
    /\ \A j \in DOMAIN wire : wire[j].rd /\ ~Stored(wire[j].m, wire[j].i) =>
          \E k \in DOMAIN ic.rx : ic.rx[k] = wire[j]

\* What is stored was on the bus and is where it belongs.
GotIsStored ==
    /\ \A m \in 1..Len(msgs) : \A i \in 1..msgs[m].len : msgs[m].rd /\ Stored(m, i) =>
          <<<<m, i>>, Byte(m, i)>> \in got /\ \E j \in DOMAIN wire : wire[j] = Byte(m, i)
    /\ \A g \in got : \E m \in 1..Len(msgs) : \E i \in 1..msgs[m].len :
          msgs[m].rd /\ Stored(m, i) /\ g = <<<<m, i>>, Byte(m, i)>>

\* While messages are left the transmit FIFO lasts until the handler is back, and
\* is as good as full when the handler is through with it.
Supplied ==
    ~AllPumped =>
        /\ wire # <<>> => ic.active
        /\ ic.active \/ ic.tx # <<>> => Len(ic.tx) + lag >= MaxLag
        /\ isr.pc = "end" \/ (isr.pc # "off" /\ "TX_EMPTY" \notin isr.stat) =>
              Len(ic.tx) + lag >= Depth

\* The receive FIFO holds no more than has come since the handler drained it.
Drained == Len(ic.rx) <= lag + IF isr.pc \in {"pump", "end"} THEN 0 ELSE MaxLag

\* A STOP comes after the last byte, and is reported after the last read.
StopIsLast ==
    /\ dev.done \/ "STOP_DET" \in ic.raw \/ (isr.pc # "off" /\ "STOP_DET" \in isr.stat) =>
          AllPumped /\ ic.tx = <<>> /\ ~ic.active
    /\ dev.done \/ (isr.pc \in {"pump", "end"} /\ "STOP_DET" \in isr.stat) => ic.rx = <<>>

AfterSuccess ==
    Succeeded /\ quiet => Executed /\ Quiet /\ INTR_STAT = {} /\ isr.pc = "off"

CInv ==
    /\ Histories /\ Listens /\ AfterSuccess
    /\ Clean => FlowIsSent /\ FifoIsRead /\ GotIsStored /\ Supplied /\ Drained /\ StopIsLast

(* Initially there is no history. *)
LEMMA InitClean == Init => CInv
<1> SUFFICES ASSUME Init PROVE CInv  OBVIOUS
<1>1. Histories  BY EmptySeq, SilanI2cAssumption DEF Init, Histories
<1>2. pc = "idle" /\ ret = "none"  BY DEF Init
<1>3. QED  BY <1>1, <1>2 DEF CInv, Listens, AfterSuccess, Clean, Armed, Succeeded

(* Every step keeps the types of the histories. *)
LEMMA NextHistories == ASSUME IInv, Histories, Next PROVE Histories'
<1>0. MaxLag \in Nat /\ <<>> \in Seq(Entry) /\ ic.tx \in Seq(Entry)
  BY EmptySeq, SilanI2cAssumption DEF IInv, IcType
<1>1. ASSUME NEW call \in Calls, XferBegin(call) PROVE Histories'
  BY <1>0, <1>1 DEF XferBegin, Histories
<1>2. CASE Caller \/ Signalled
  <2>1. lag' = lag /\ wire' \in {wire, <<>>} /\ pc' # "begun"
    BY <1>2 DEF Caller, BusBusy, i2c_silan_xfer_init, Completed, TimedOut, reset_i2c_bus, Signalled, Return
  <2>2. QED  BY <1>0, <2>1 DEF Histories
<1>3. CASE i2c_silan_isr
  <2>1. wire' = wire /\ pc' = pc /\ lag' \in {0, lag}
    BY <1>3 DEF i2c_silan_isr, IsrEnter, IsrAbort, ReadMessage, ReadSkips, ReadEnds, PumpMessage,
                PumpEnds, PumpFails, IsrEnd
  <2>2. pc = "begun" => got' = got
    BY <1>3 DEF i2c_silan_isr, IsrEnter, IsrAbort, ReadMessage, ReadSkips, ReadEnds, PumpMessage,
                PumpEnds, PumpFails, IsrEnd
  <2>3. QED  BY <1>0, <2>1, <2>2 DEF Histories
<1>4. CASE HwByte \/ HwAbort \/ HwStop
  <2>1. pc' = pc /\ got' = got /\ Moves  BY <1>4 DEF HwByte, HwAbort, HwStop
  <2>2. lag' \in 0..MaxLag
    <3>1. CASE Pending  BY <1>0, <2>1, <3>1 DEF Moves, Histories
    <3>2. CASE ~Pending  BY <1>0, <2>1, <3>2 DEF Moves
    <3>3. QED  BY <3>1, <3>2
  <2>3. wire' \in Seq(Entry) /\ (pc = "begun" => wire' = wire)
    <3>1. CASE HwByte
      <4>1. Head(ic.tx) \in Entry  BY <1>0, <3>1 DEF HwByte
      <4>2. wire' = IF pc = "waiting" THEN Append(wire, Head(ic.tx)) ELSE wire
        BY <3>1 DEF HwByte
      <4>3. QED  BY <4>1, <4>2 DEF Histories
    <3>2. CASE HwAbort \/ HwStop  BY <3>2 DEF HwAbort, HwStop, Histories
    <3>3. QED  BY <1>4, <3>1, <3>2
  <2>4. QED  BY <2>1, <2>2, <2>3 DEF Histories
<1>5. QED  BY <1>1, <1>2, <1>3, <1>4 DEF Next

(* An armed controller that has had no error listens to all that is left. *)
LEMMA NextListens == ASSUME IInv, Listens, Next PROVE Listens'
<1> SUFFICES ASSUME Armed' PROVE Listens'  BY DEF Listens
<1>0. /\ ic = [on |-> ic.on, tar |-> ic.tar, mask |-> ic.mask, raw |-> ic.raw,
               active |-> ic.active, tx |-> ic.tx, rx |-> ic.rx]
      /\ dev = [msg_write_idx |-> dev.msg_write_idx, msg_read_idx |-> dev.msg_read_idx,
                wleft |-> dev.wleft, rleft |-> dev.rleft, writing |-> dev.writing,
                reading |-> dev.reading, cmd_err |-> dev.cmd_err, msg_err |-> dev.msg_err,
                done |-> dev.done]
  BY DEF IInv, IcType, DevType
<1> USE DEF Armed, Listens, AllPumped
<1>1. ASSUME NEW call \in Calls, XferBegin(call) PROVE FALSE  BY <1>1 DEF XferBegin
<1>2. CASE Caller \/ Signalled
  <2>1. i2c_silan_xfer_init
    BY <1>2 DEF Caller, BusBusy, Completed, TimedOut, reset_i2c_bus, Signalled, Return
  <2>2. PICK tar : ic' = [Disabled EXCEPT !.on = TRUE, !.tar = tar, !.mask = INTR_DEFAULT_MASK]
    BY <2>1 DEF i2c_silan_xfer_init
  <2>3. ic'.on = TRUE /\ ic'.mask = INTR_DEFAULT_MASK
    <3>1. Disabled = [on |-> FALSE, tar |-> ic.tar, mask |-> ic.mask, raw |-> ic.raw,
                      active |-> ic.active, tx |-> <<>>, rx |-> <<>>]
      BY DisabledIs
    <3>2. QED  BY ONLY <2>2, <3>1
  <2>4. QED  BY <2>3 DEF INTR_DEFAULT_MASK
<1>3. CASE HwByte \/ HwAbort \/ HwStop
  <2>1. ic'.on = ic.on /\ ic'.mask = ic.mask /\ UNCHANGED <<pc, quiet, dev, msgs>>
    BY <1>0, <1>3 DEF HwByte, HwAbort, HwStop
  <2>2. QED  BY <2>1
<1>4. CASE IsrAbort \/ PumpFails
  <2>1. dev'.cmd_err \/ dev'.msg_err  BY <1>0, <1>4 DEF IsrAbort, PumpFails
  <2>2. QED  BY <2>1
<1>5. CASE IsrEnter \/ ReadSkips \/ ReadEnds \/ IsrEnd \/ ReadMessage
  <2>1. /\ ic'.on = ic.on /\ ic'.mask = ic.mask /\ UNCHANGED <<pc, quiet, msgs>>
        /\ dev'.cmd_err = dev.cmd_err /\ dev'.msg_err = dev.msg_err
        /\ dev'.msg_write_idx = dev.msg_write_idx
    BY <1>0, <1>5 DEF IsrEnter, ReadSkips, ReadEnds, IsrEnd, ReadMessage
  <2>2. QED  BY <2>1
<1>6. CASE PumpMessage
  <2>1. /\ ic'.on = ic.on /\ UNCHANGED <<pc, quiet, msgs>>
        /\ (ic'.mask = ic.mask \/ ic'.mask = INTR_DEFAULT_MASK)
        /\ dev'.cmd_err = dev.cmd_err /\ dev'.msg_err = dev.msg_err
        /\ dev.msg_write_idx <= Len(msgs)
    BY <1>0, <1>6 DEF PumpMessage, Progress
  <2>2. dev.msg_write_idx \in Nat /\ Len(msgs) \in Nat  BY DEF IInv, DevType, CallerType
  <2>3. "TX_EMPTY" \in ic.mask  BY <2>1, <2>2
  <2>4. QED  BY <2>1, <2>3 DEF INTR_DEFAULT_MASK
<1>7. CASE PumpEnds
  <2>1. /\ ic'.on = ic.on /\ UNCHANGED <<pc, quiet, msgs, dev>> /\ AllPumped
        /\ ic'.mask = IF dev.msg_err THEN {} ELSE INTR_DEFAULT_MASK \ {"TX_EMPTY"}
    BY <1>0, <1>7 DEF PumpEnds
  <2>2. QED  BY <2>1 DEF INTR_DEFAULT_MASK
<1>8. QED  BY <1>1, <1>2, <1>3, <1>4, <1>5, <1>6, <1>7 DEF Next, i2c_silan_isr

(* The flow depends on what was written, on the bus and in the FIFO. *)
LEMMA SameFlow ==
    ASSUME FlowIsSent, UNCHANGED msgs, wire' \o ic'.tx = wire \o ic.tx,
           dev'.msg_write_idx = dev.msg_write_idx, dev'.writing = dev.writing,
           dev'.wleft = dev.wleft
    PROVE  FlowIsSent'
<1>1. Flow' = Flow  BY DEF Flow
<1>2. \A m, i : Sent(m, i)' <=> Sent(m, i)  BY DEF Sent
<1>3. \A m, i : Byte(m, i)' = Byte(m, i)  BY DEF Byte
<1>4. \A e : IsByte(e)' <=> IsByte(e)  BY <1>3 DEF IsByte
<1>5. QED  BY <1>1, <1>2, <1>3, <1>4 DEF FlowIsSent

(* The bytes read depend on what is stored, on the bus and in the FIFO. *)
LEMMA SameRead ==
    ASSUME FifoIsRead, GotIsStored, UNCHANGED <<msgs, wire, got>>, ic'.rx = ic.rx,
           \A m \in 1..Len(msgs) : \A i \in 1..msgs[m].len :
              msgs[m].rd => (Stored(m, i)' <=> Stored(m, i)),
           \A k \in DOMAIN wire : IsByte(wire[k]), ic.rx \in Seq(Entry)
    PROVE  FifoIsRead' /\ GotIsStored'
<1>1. \A m, i : Byte(m, i)' = Byte(m, i)  BY DEF Byte
<1>2. \A k \in DOMAIN wire : wire[k].rd => (Stored(wire[k].m, wire[k].i)' <=> Stored(wire[k].m, wire[k].i))
  BY DEF IsByte, Byte
<1>3. FifoIsRead'  BY <1>2 DEF FifoIsRead
<1>4. GotIsStored'  BY <1>1 DEF GotIsStored
<1>5. QED  BY <1>3, <1>4

(* The bytes on the bus and in the FIFO are the beginning and the end of the *)
(* flow.                                                                     *)
LEMMA FlowParts ==
    ASSUME IInv, Histories
    PROVE  /\ wire \in Seq(Entry) /\ ic.tx \in Seq(Entry) /\ ic.rx \in Seq(Entry)
           /\ Len(wire) \in Nat /\ Len(ic.tx) \in Nat /\ Len(ic.rx) \in Nat
           /\ DOMAIN wire = 1..Len(wire) /\ DOMAIN ic.tx = 1..Len(ic.tx)
           /\ DOMAIN ic.rx = 1..Len(ic.rx)
           /\ DOMAIN Flow = 1..(Len(wire) + Len(ic.tx))
           /\ \A k \in 1..Len(wire) : Flow[k] = wire[k]
           /\ \A k \in 1..Len(ic.tx) : Flow[Len(wire) + k] = ic.tx[k]
<1>1. /\ wire \in Seq(Entry) /\ ic.tx \in Seq(Entry) /\ ic.rx \in Seq(Entry)
  BY DEF Histories, IInv, IcType
<1>2. /\ Len(wire) \in Nat /\ Len(ic.tx) \in Nat /\ Len(ic.rx) \in Nat
      /\ DOMAIN wire = 1..Len(wire) /\ DOMAIN ic.tx = 1..Len(ic.tx)
      /\ DOMAIN ic.rx = 1..Len(ic.rx)
  BY <1>1
<1>3. /\ Flow \in Seq(Entry) /\ Len(Flow) = Len(wire) + Len(ic.tx)
      /\ \A k \in 1..(Len(wire) + Len(ic.tx)) :
            Flow[k] = IF k <= Len(wire) THEN wire[k] ELSE ic.tx[k - Len(wire)]
  BY <1>1, ConcatProperties DEF Flow
<1>4. DOMAIN Flow = 1..(Len(wire) + Len(ic.tx))
  <2>1. DOMAIN Flow = 1..Len(Flow)  BY <1>3
  <2>2. QED  BY <1>3, <2>1
<1>5. \A k \in 1..Len(wire) : Flow[k] = wire[k]  BY <1>2, <1>3
<1>6. ASSUME NEW k \in 1..Len(ic.tx) PROVE Flow[Len(wire) + k] = ic.tx[k]
  <2>1. Len(wire) + k \in 1..(Len(wire) + Len(ic.tx)) /\ ~(Len(wire) + k <= Len(wire))
        /\ (Len(wire) + k) - Len(wire) = k
    BY <1>2
  <2>2. QED  BY <1>3, <2>1
<1>7. QED  BY <1>1, <1>2, <1>4, <1>5, <1>6

(* What is on the bus are bytes of the messages, in order. *)
LEMMA WireIs ==
    ASSUME IInv, Histories, FlowIsSent
    PROVE  /\ \A k \in DOMAIN wire : IsByte(wire[k]) /\ Sent(wire[k].m, wire[k].i)
           /\ \A j, k \in DOMAIN wire : j < k => Before(wire[j], wire[k])
<1>1. \A k \in DOMAIN wire : k \in DOMAIN Flow /\ Flow[k] = wire[k]  BY FlowParts
<1>2. QED  BY <1>1 DEF FlowIsSent

(* A byte of the messages that comes before one of the flow is in the flow. *)
LEMMA FlowDown ==
    ASSUME IInv, Histories, FlowIsSent, NEW k \in DOMAIN Flow,
           NEW m \in 1..Len(msgs), NEW i \in 1..msgs[m].len, Before(Byte(m, i), Flow[k])
    PROVE  \E j \in DOMAIN Flow : j < k /\ Flow[j] = Byte(m, i)
<1> DEFINE e == Flow[k]
<1>0. IsByte(e) /\ Sent(e.m, e.i)  BY DEF FlowIsSent
<1>1. /\ m \in Nat /\ i \in Nat /\ Len(msgs) \in Nat /\ msgs[m].len \in Nat /\ e.m \in Nat
      /\ e.i \in Nat /\ dev.msg_write_idx \in Nat /\ dev.wleft \in Nat
      /\ Byte(m, i).m = m /\ Byte(m, i).i = i
  <2>1. Len(msgs) \in Nat /\ msgs[m].len \in Nat  BY MsgAt DEF IInv
  <2>2. e.m \in Nat /\ e.i \in Nat
    <3>1. e.m \in 1..Len(msgs) /\ e.i \in 1..msgs[e.m].len  BY <1>0 DEF IsByte
    <3>2. msgs[e.m].len \in Nat  BY <3>1, MsgAt DEF IInv
    <3>3. QED  BY <2>1, <3>1, <3>2
  <2>3. dev.msg_write_idx \in Nat /\ dev.wleft \in Nat  BY <2>1 DEF IInv, DevType
  <2>4. QED  BY <2>1, <2>2, <2>3 DEF Byte
<1> HIDE DEF e
<1>2. m < e.m \/ (m = e.m /\ i < e.i)
  <2>1. Before(Byte(m, i), e)  BY DEF e
  <2>2. QED  BY <1>1, <2>1 DEF Before
<1>3. Sent(m, i)
  <2>1. CASE e.m < dev.msg_write_idx  BY <1>1, <1>2, <2>1 DEF Sent
  <2>2. CASE e.m = dev.msg_write_idx /\ dev.writing /\ e.i <= msgs[e.m].len - dev.wleft
    <3>1. CASE m < e.m  BY <1>1, <2>2, <3>1 DEF Sent
    <3>2. CASE m = e.m /\ i < e.i
      <4>1. i <= msgs[m].len - dev.wleft  BY <1>1, <2>2, <3>2
      <4>2. QED  BY <2>2, <3>2, <4>1 DEF Sent
    <3>3. QED  BY <1>2, <3>1, <3>2
  <2>3. QED  BY <1>0, <2>1, <2>2 DEF Sent
<1>4. PICK j \in DOMAIN Flow : Flow[j] = Byte(m, i)  BY <1>3 DEF FlowIsSent
<1>5. j # k /\ ~(k < j)
  <2>1. Flow[j].m = m /\ Flow[j].i = i  BY <1>1, <1>4
  <2>2. k < j => Before(e, Flow[j])  BY DEF FlowIsSent, e
  <2>3. QED  BY <1>1, <1>2, <2>1, <2>2 DEF Before, e
<1>6. j \in Nat /\ k \in Nat
  <2>1. DOMAIN Flow = 1..(Len(wire) + Len(ic.tx)) /\ Len(wire) \in Nat /\ Len(ic.tx) \in Nat
    BY FlowParts
  <2>2. QED  BY <2>1
<1>7. QED  BY <1>4, <1>5, <1>6

(* The same of the bus. *)
LEMMA WireDown ==
    ASSUME IInv, Histories, FlowIsSent, NEW k \in DOMAIN wire,
           NEW m \in 1..Len(msgs), NEW i \in 1..msgs[m].len, Before(Byte(m, i), wire[k])
    PROVE  \E j \in DOMAIN wire : wire[j] = Byte(m, i)
<1>1. k \in DOMAIN Flow /\ Flow[k] = wire[k] /\ k \in 1..Len(wire) /\ Len(wire) \in Nat
  BY FlowParts
<1>2. PICK j \in DOMAIN Flow : j < k /\ Flow[j] = Byte(m, i)  BY <1>1, FlowDown
<1>3. j \in 1..(Len(wire) + Len(ic.tx)) /\ Len(ic.tx) \in Nat  BY FlowParts
<1>4. j \in 1..Len(wire)  BY <1>1, <1>2, <1>3
<1>5. j \in DOMAIN wire /\ wire[j] = Flow[j]  BY <1>4, FlowParts
<1>6. QED  BY <1>2, <1>5

(* The same of the receive FIFO, as far as it is not stored. *)
LEMMA FifoDown ==
    ASSUME IInv, Histories, FlowIsSent, FifoIsRead, NEW k \in DOMAIN ic.rx,
           NEW m \in 1..Len(msgs), NEW i \in 1..msgs[m].len, msgs[m].rd, ~Stored(m, i),
           Before(Byte(m, i), ic.rx[k])
    PROVE  \E j \in DOMAIN ic.rx : j < k /\ ic.rx[j] = Byte(m, i)
<1>1. PICK h \in DOMAIN wire : wire[h] = ic.rx[k]  BY DEF FifoIsRead
<1>2. PICK l \in DOMAIN wire : wire[l] = Byte(m, i)  BY <1>1, WireDown
<1>3. wire[l].rd /\ wire[l].m = m /\ wire[l].i = i  BY <1>2 DEF Byte
<1>4. PICK j \in DOMAIN ic.rx : ic.rx[j] = Byte(m, i)  BY <1>2, <1>3 DEF FifoIsRead
<1>5. j \in Nat /\ k \in Nat  BY FlowParts
<1>6. /\ ic.rx[k].m \in Nat /\ ic.rx[k].i \in Nat /\ ic.rx[j].m \in Nat /\ ic.rx[j].i \in Nat
  <2>1. ic.rx[k] \in Entry /\ ic.rx[j] \in Entry  BY FlowParts
  <2>2. QED  BY <2>1 DEF Entry
<1>7. Before(ic.rx[j], ic.rx[k])  BY <1>4
<1>8. j # k  BY <1>6, <1>7 DEF Before
<1>9. ~(k < j)
  <2>1. k < j => Before(ic.rx[k], ic.rx[j])  BY DEF FifoIsRead
  <2>2. QED  BY <1>6, <1>7, <2>1 DEF Before
<1>10. QED  BY <1>4, <1>5, <1>8, <1>9

\* What is kept up while a call is clean.
Parts == FlowIsSent /\ FifoIsRead /\ GotIsStored /\ Supplied /\ Drained /\ StopIsLast

(* A controller that was quiet is armed with nothing in it. *)
LEMMA ArmClean == ASSUME IInv, CInv, i2c_silan_xfer_init, Clean' PROVE Parts'
<1>1. /\ quiet /\ pc = "begun" /\ ~ic.active /\ UNCHANGED <<msgs, dev, isr, lag, wire, got>>
  BY DEF i2c_silan_xfer_init, Clean, Armed
<1>2. /\ ic.raw = {} /\ isr.pc = "off" /\ dev = DevStart /\ wire = <<>> /\ got = {}
  BY <1>1 DEF IInv, BegunQuiet, Quiet, CInv, Histories
<1>3. ic'.tx = <<>> /\ ic'.rx = <<>> /\ ic'.raw = {} /\ ic'.active = FALSE
  <2>1. PICK tar : ic' = [Disabled EXCEPT !.on = TRUE, !.tar = tar, !.mask = INTR_DEFAULT_MASK]
    BY DEF i2c_silan_xfer_init
  <2>2. Disabled = [on |-> FALSE, tar |-> ic.tar, mask |-> ic.mask, raw |-> ic.raw,
                    active |-> ic.active, tx |-> <<>>, rx |-> <<>>]
    BY DisabledIs
  <2>3. ic'.tx = <<>> /\ ic'.rx = <<>> /\ ic'.raw = ic.raw /\ ic'.active = ic.active
    BY ONLY <2>1, <2>2
  <2>4. ic.active \in BOOLEAN  BY DEF IInv, IcType
  <2>5. QED  BY <1>1, <1>2, <2>3, <2>4
<1>4. /\ dev'.msg_write_idx = 1 /\ dev'.msg_read_idx = 1 /\ ~dev'.writing /\ ~dev'.reading
      /\ ~dev'.done
  BY <1>1, <1>2 DEF DevStart
<1>5. msgs' = msgs /\ Len(msgs) \in Nat /\ Len(msgs) >= 1
  BY <1>1 DEF IInv, CallerType
<1>6. \A m \in 1..Len(msgs) : \A i : ~Sent(m, i)' /\ ~Stored(m, i)'
  BY <1>4, <1>5 DEF Sent, Stored
<1>7. DOMAIN Flow' = {} /\ DOMAIN wire' = {} /\ DOMAIN ic'.rx = {}
  <2>1. Flow' = <<>>  BY <1>1, <1>2, <1>3 DEF Flow
  <2>2. QED  BY <1>1, <1>2, <1>3, <2>1
<1>8. FlowIsSent'  BY <1>4, <1>5, <1>6, <1>7 DEF FlowIsSent
<1>9. FifoIsRead' /\ GotIsStored'  BY <1>1, <1>2, <1>5, <1>6, <1>7 DEF FifoIsRead, GotIsStored
<1>10. Supplied'  BY <1>1, <1>2, <1>3 DEF Supplied
<1>11. Drained' /\ StopIsLast'
  <2>1. lag \in 0..MaxLag /\ MaxLag \in Nat /\ Len(ic'.rx) = 0
    BY <1>3, SilanI2cAssumption DEF CInv, Histories
  <2>2. QED  BY <1>1, <1>2, <1>3, <1>4, <2>1 DEF Drained, StopIsLast
<1>12. QED  BY <1>8, <1>9, <1>10, <1>11 DEF Parts

(* A clean call stays clean only by steps of the handler and the controller,  *)
(* without a new error.                                                      *)
LEMMA WasClean ==
    ASSUME IInv, Clean', UNCHANGED <<pc, quiet>>, ic'.raw \cup {"STOP_DET"} = ic.raw \cup {"STOP_DET"},
           dev'.cmd_err = dev.cmd_err, dev'.msg_err = dev.msg_err
    PROVE  Clean
  BY DEF Clean, Armed

(* What is pending on a clean controller. *)
LEMMA CleanPending ==
    ASSUME IInv, CInv, Clean
    PROVE  /\ ic.rx # <<>> => "RX_FULL" \in INTR_STAT
           /\ ~AllPumped /\ Len(ic.tx) < Depth => "TX_EMPTY" \in INTR_STAT
           /\ "STOP_DET" \in ic.raw <=> "STOP_DET" \in INTR_STAT
           /\ "RX_FULL" \in INTR_STAT => ic.rx # <<>>
  BY DEF CInv, Listens, Clean, INTR_STAT, Level, IInv, IcType

(* A byte less in the FIFO is one more that has moved. *)
LEMMA MovesOne == ASSUME NEW a \in Nat, NEW l \in Nat PROVE (a - 1) + (l + 1) = a + l
  OBVIOUS

(* Moving the head of one sequence to the end of another. *)
LEMMA HeadMoves ==
    ASSUME NEW S, NEW s \in Seq(S), NEW t \in Seq(S), t # <<>>
    PROVE  Append(s, Head(t)) \o Tail(t) = s \o t
<1> DEFINE one == <<Head(t)>>
           rest == Tail(t)
<1>1. one \in Seq(S) /\ rest \in Seq(S)  OBVIOUS
<1>2. Append(s, Head(t)) = s \o one  OBVIOUS
<1>3. one \o rest = t  OBVIOUS
<1> HIDE DEF one, rest
<1>4. (s \o one) \o rest = s \o (one \o rest)  BY <1>1, ConcatAssociative
<1>5. QED  BY <1>2, <1>3, <1>4 DEF rest

(* The byte that goes out continues the bytes on the bus, and finds room if  *)
(* it is a read.                                                             *)
LEMMA ByteClean == ASSUME Prompt, IInv, CInv, HwByte, Clean' PROVE Parts'
<1> DEFINE e == Head(ic.tx)
<1>1. /\ ic.on /\ ic.tx # <<>> /\ Moves /\ UNCHANGED <<pc, ret, msgs, dev, isr, got, quiet>>
      /\ ic'.on = ic.on /\ ic'.mask = ic.mask /\ ic'.raw = ic.raw
      /\ ic'.active = TRUE /\ ic'.tx = Tail(ic.tx)
      /\ ic'.rx = IF e.rd /\ Len(ic.rx) < Depth THEN Append(ic.rx, e) ELSE ic.rx
  BY DEF HwByte, IInv, IcType
<1>2. Clean /\ Histories /\ Parts
  <2>1. Clean  BY <1>1, WasClean
  <2>2. QED  BY <2>1 DEF CInv, Parts
<1>3. wire' = Append(wire, e)  BY <1>1, <1>2 DEF HwByte, Clean, Armed
<1>4. /\ Len(ic.tx) \in Nat /\ Len(ic.tx) >= 1 /\ e = ic.tx[1] /\ e \in Entry
      /\ Len(ic'.tx) = Len(ic.tx) - 1
      /\ wire \in Seq(Entry) /\ Len(wire) \in Nat /\ ic.rx \in Seq(Entry) /\ Len(ic.rx) \in Nat
  <2>1. ic.tx \in Seq(Entry)  BY <1>2, FlowParts
  <2>2. QED  BY <1>1, <1>2, <2>1, FlowParts
<1>5. FlowIsSent'
  <2>1. wire' \o ic'.tx = wire \o ic.tx
    <3>1. ic.tx \in Seq(Entry) /\ wire \in Seq(Entry) /\ ic.tx # <<>>
      BY <1>1, <1>2, FlowParts
    <3>2. Append(wire, Head(ic.tx)) \o Tail(ic.tx) = wire \o ic.tx  BY ONLY <3>1, HeadMoves
    <3>3. QED  BY <1>1, <1>3, <3>2
  <2>2. QED  BY <1>1, <1>2, <2>1, SameFlow DEF Parts
<1>6. /\ Len(wire') = Len(wire) + 1 /\ DOMAIN wire' = 1..(Len(wire) + 1)
      /\ wire'[Len(wire) + 1] = e /\ \A k \in 1..Len(wire) : wire'[k] = wire[k]
  BY <1>3, <1>4
<1> HIDE DEF e
<1>7. DOMAIN wire = 1..Len(wire) /\ DOMAIN ic.rx = 1..Len(ic.rx)  BY <1>2, FlowParts
<1>8. /\ IsByte(e) /\ e.m \in Nat /\ e.i \in Nat /\ e.rd \in BOOLEAN
      /\ \A j \in DOMAIN wire : Before(wire[j], e)
  <2>1. 1 \in 1..Len(ic.tx) /\ Len(wire) + 1 \in 1..(Len(wire) + Len(ic.tx))  BY <1>4
  <2>2. Len(wire) + 1 \in DOMAIN Flow /\ Flow[Len(wire) + 1] = e  BY <1>2, <1>4, <2>1, FlowParts
  <2>3. \A j \in DOMAIN wire : j \in DOMAIN Flow /\ Flow[j] = wire[j] /\ j < Len(wire) + 1
    BY <1>2, <1>4, FlowParts
  <2>4. IsByte(e) /\ \A j \in DOMAIN wire : Before(wire[j], e)
    BY <1>2, <2>2, <2>3 DEF Parts, FlowIsSent
  <2>5. QED  BY <1>4, <2>4 DEF Entry
<1>9. \A m, i : (Stored(m, i)' <=> Stored(m, i)) /\ Byte(m, i)' = Byte(m, i)
  BY <1>1 DEF Stored, Byte
<1>10. \A j \in DOMAIN wire : wire[j].m \in Nat /\ wire[j].i \in Nat /\ wire[j] # e
  <2>1. TAKE j \in DOMAIN wire
  <2>2. wire[j] \in Entry  BY <1>4, <1>7
  <2>3. wire[j].m \in Nat /\ wire[j].i \in Nat  BY <2>2 DEF Entry
  <2>4. QED  BY <1>8, <2>3 DEF Before
<1>11. e.rd => ~Stored(e.m, e.i)
  <2>1. SUFFICES ASSUME e.rd, Stored(e.m, e.i) PROVE FALSE  OBVIOUS
  <2>2. e.m \in 1..Len(msgs) /\ e.i \in 1..msgs[e.m].len /\ e = Byte(e.m, e.i)  BY <1>8 DEF IsByte
  <2>3. msgs[e.m].rd  BY <2>1, <2>2 DEF Byte
  <2>4. \A m \in 1..Len(msgs) : \A i \in 1..msgs[m].len : msgs[m].rd /\ Stored(m, i) =>
           \E j \in DOMAIN wire : wire[j] = Byte(m, i)
    BY <1>2 DEF Parts, GotIsStored
  <2>5. \E j \in DOMAIN wire : wire[j] = e  BY <2>1, <2>2, <2>3, <2>4
  <2>6. QED  BY <1>10, <2>5
<1>12. GotIsStored'
  <2>1. \A j \in DOMAIN wire : j \in DOMAIN wire' /\ wire'[j] = wire[j]  BY <1>4, <1>6, <1>7
  <2>2. QED  BY <1>1, <1>2, <1>9, <2>1 DEF Parts, GotIsStored
<1>13. /\ lag \in Nat /\ lag <= MaxLag /\ MaxLag \in Nat /\ Depth \in Nat
       /\ MaxLag >= 1 /\ 2 * MaxLag <= Depth
  BY <1>2, SilanI2cAssumption DEF Histories, Prompt
<1>14. Len(ic.rx) < Depth /\ Drained'
  <2>1. Len(ic'.rx) <= Len(ic.rx) + 1 /\ Len(ic'.rx) \in Nat
    <3>1. ic'.rx = Append(ic.rx, e) \/ ic'.rx = ic.rx  BY <1>1
    <3>2. Len(Append(ic.rx, e)) = Len(ic.rx) + 1  BY <1>4
    <3>3. QED  BY <1>4, <3>1, <3>2
  <2>2. CASE Pending
    <3>1. lag < MaxLag /\ lag' = lag + 1  BY <1>1, <2>2 DEF Moves
    <3>2. Len(ic.rx) <= lag + IF isr.pc \in {"pump", "end"} THEN 0 ELSE MaxLag
      BY <1>2 DEF Parts, Drained
    <3>3. Len(ic.rx) < Depth  BY <1>4, <1>13, <3>1, <3>2
    <3>4. Len(ic'.rx) <= lag' + IF isr.pc \in {"pump", "end"} THEN 0 ELSE MaxLag
      BY <1>4, <1>13, <2>1, <3>1, <3>2
    <3>5. QED  BY <1>1, <3>3, <3>4 DEF Drained
  <2>3. CASE ~Pending
    <3>1. INTR_STAT = {} /\ isr.pc = "off" /\ lag' = 0  BY <1>1, <2>3 DEF Pending, Moves
    <3>2. ic.rx = <<>>  BY <1>2, <3>1, CleanPending
    <3>3. Len(ic.rx) = 0  BY <3>2
    <3>4. QED  BY <1>1, <1>13, <2>1, <3>1, <3>3 DEF Drained
  <2>4. QED  BY <2>2, <2>3
<1>15. Supplied'
  <2>1. SUFFICES ASSUME ~AllPumped'
                 PROVE  /\ Len(ic'.tx) + lag' >= MaxLag
                        /\ isr'.pc = "end" \/ (isr'.pc # "off" /\ "TX_EMPTY" \notin isr'.stat) =>
                              Len(ic'.tx) + lag' >= Depth
    BY <1>1 DEF Supplied
  <2>2. ~AllPumped  BY <1>1, <2>1 DEF AllPumped
  <2>3. CASE Pending
    <3>0. lag' = lag + 1 /\ lag \in Nat /\ Len(ic.tx) \in Nat /\ Len(ic'.tx) = Len(ic.tx) - 1
      BY <1>1, <1>4, <1>13, <2>3 DEF Moves
    <3>1. Len(ic'.tx) + lag' = Len(ic.tx) + lag
      <4>1. (Len(ic.tx) - 1) + (lag + 1) = Len(ic.tx) + lag  BY <3>0, MovesOne
      <4>2. QED  BY ONLY <3>0, <4>1
    <3>2. QED  BY <1>1, <1>2, <2>2, <3>1 DEF Parts, Supplied
  <2>4. CASE ~Pending
    <3>1. INTR_STAT = {} /\ isr.pc = "off" /\ lag' = 0  BY <1>1, <2>4 DEF Pending, Moves
    <3>2. ~(Len(ic.tx) < Depth)  BY <1>2, <2>2, <3>1, CleanPending
    <3>3. Len(ic'.tx) + lag' >= MaxLag  BY <1>4, <1>13, <3>1, <3>2
    <3>4. QED  BY <1>1, <3>1, <3>3
  <2>5. QED  BY <2>3, <2>4
<1>16. StopIsLast'  BY <1>1, <1>2 DEF Parts, StopIsLast
<1>17. FifoIsRead'
  <2>1. CASE ~e.rd
    <3>1. ic'.rx = ic.rx  BY <1>1, <2>1
    <3>2. \A j \in DOMAIN wire : j \in DOMAIN wire' /\ wire'[j] = wire[j]  BY <1>4, <1>6, <1>7
    <3>3. ASSUME NEW j \in DOMAIN wire', wire'[j].rd, ~Stored(wire'[j].m, wire'[j].i)
          PROVE  \E k \in DOMAIN ic.rx : ic.rx[k] = wire'[j]
      <4>1. j # Len(wire) + 1  BY <1>6, <2>1, <3>3
      <4>2. j \in DOMAIN wire  BY <1>4, <1>6, <1>7, <4>1
      <4>3. QED  BY <1>2, <3>2, <3>3, <4>2 DEF Parts, FifoIsRead
    <3>4. QED  BY <1>2, <1>9, <3>1, <3>2, <3>3 DEF Parts, FifoIsRead
  <2>2. CASE e.rd
    <3>1. ic'.rx = Append(ic.rx, e)  BY <1>1, <1>14, <2>2
    <3>2. /\ DOMAIN ic'.rx = 1..(Len(ic.rx) + 1) /\ ic'.rx[Len(ic.rx) + 1] = e
          /\ \A k \in 1..Len(ic.rx) : ic'.rx[k] = ic.rx[k]
      BY <1>4, <3>1
    <3>3. ASSUME NEW k \in DOMAIN ic.rx
          PROVE  /\ Before(ic.rx[k], e)
                 /\ ic.rx[k].m = e.m => e.i - ic.rx[k].i = Len(ic.rx) + 1 - k
      <4>1. PICK h \in DOMAIN wire : wire[h] = ic.rx[k]  BY <1>2 DEF Parts, FifoIsRead
      <4>2. Before(ic.rx[k], e)  BY <1>8, <4>1
      <4>3. ASSUME ic.rx[k].m = e.m PROVE e.i - ic.rx[k].i = Len(ic.rx) + 1 - k
        <5> DEFINE last == Len(ic.rx)
        <5>1. last \in DOMAIN ic.rx /\ last \in Nat /\ k \in Nat /\ k <= last  BY <1>4, <1>7
        <5>2. /\ ic.rx[k].i \in Nat /\ ic.rx[k].m \in Nat
              /\ ic.rx[last].m \in Nat /\ ic.rx[last].i \in Nat
          <6>1. ic.rx[k] \in Entry /\ ic.rx[last] \in Entry  BY <1>4, <5>1
          <6>2. QED  BY <6>1 DEF Entry
        <5>3. ic.rx[k].i < e.i  BY <1>8, <4>2, <4>3, <5>2 DEF Before
        <5>4. PICK g \in DOMAIN wire : wire[g] = ic.rx[last]  BY <1>2, <5>1 DEF Parts, FifoIsRead
        <5>5. Before(ic.rx[last], e)  BY <1>8, <5>4
        <5>6. k < last => Before(ic.rx[k], ic.rx[last])  BY <1>2, <5>1 DEF Parts, FifoIsRead
        <5>7. ic.rx[last].m = e.m
          BY <1>8, <4>3, <5>1, <5>2, <5>5, <5>6 DEF Before
        <5>8. ic.rx[last].i < e.i  BY <1>8, <5>2, <5>5, <5>7 DEF Before
        <5>9. ic.rx[last].i = e.i - 1
          <6>1. SUFFICES ASSUME ic.rx[last].i < e.i - 1 PROVE FALSE  BY <1>8, <5>2, <5>8
          <6>2. e.m \in 1..Len(msgs) /\ e.i \in 1..msgs[e.m].len /\ e = Byte(e.m, e.i)
            BY <1>8 DEF IsByte
          <6>3. msgs[e.m].len \in Nat  BY <6>2, MsgAt DEF IInv
          <6>4. e.i - 1 \in 1..msgs[e.m].len
            <7>1. PICK i \in Nat : i = e.i  BY <1>8
            <7>2. PICK len \in Nat : len = msgs[e.m].len  BY <6>3
            <7>3. PICK l \in Nat : l = ic.rx[last].i  BY <5>2
            <7>4. i <= len /\ l < i - 1  BY <6>1, <6>2, <7>1, <7>2, <7>3
            <7>5. i - 1 \in 1..len  BY ONLY <7>4, i \in Nat, len \in Nat, l \in Nat
            <7>6. QED  BY <7>1, <7>2, <7>5
          <6>5. \E j \in DOMAIN wire : wire[j] = Byte(e.m, e.i - 1)
            <7>1. Len(wire) + 1 \in DOMAIN Flow /\ Flow[Len(wire) + 1] = e
              BY <1>2, <1>4, <1>8, FlowParts
            <7>2. Before(Byte(e.m, e.i - 1), e)  BY <1>8 DEF Before, Byte
            <7>3. PICK j \in DOMAIN Flow : j < Len(wire) + 1 /\ Flow[j] = Byte(e.m, e.i - 1)
              BY <1>2, <6>2, <6>4, <7>1, <7>2, FlowDown DEF Parts
            <7>4. j \in 1..(Len(wire) + Len(ic.tx))  BY <1>2, FlowParts
            <7>5. j \in 1..Len(wire)  BY <1>4, <7>3, <7>4
            <7>6. j \in DOMAIN wire /\ wire[j] = Flow[j]  BY <1>2, <7>5, FlowParts
            <7>7. QED  BY <7>3, <7>6
          <6>6. PICK j \in DOMAIN wire : wire[j] = Byte(e.m, e.i - 1)  BY <6>5
          <6>7. wire[j].rd /\ wire[j].m = e.m /\ wire[j].i = e.i - 1
            BY <2>2, <6>2, <6>6 DEF Byte
          <6>8. ~Stored(e.m, e.i - 1)
            <7>1. ~Stored(ic.rx[last].m, ic.rx[last].i)  BY <1>2, <5>1 DEF Parts, FifoIsRead
            <7>2. dev.rleft \in Nat /\ dev.msg_read_idx \in Nat  BY DEF IInv, DevType
            <7>3. SUFFICES ASSUME Stored(e.m, e.i - 1) PROVE FALSE  OBVIOUS
            <7>4. CASE e.m < dev.msg_read_idx  BY <5>7, <7>1, <7>4 DEF Stored
            <7>5. CASE e.m = dev.msg_read_idx /\ dev.reading /\ e.i - 1 <= msgs[e.m].len - dev.rleft
              <8>1. ic.rx[last].i <= msgs[e.m].len - dev.rleft
                <9>1. PICK x \in Int : x = msgs[e.m].len - dev.rleft  BY <6>3, <7>2
                <9>2. PICK i \in Nat : i = e.i  BY <1>8
                <9>3. PICK l \in Nat : l = ic.rx[last].i  BY <5>2
                <9>4. l < i - 1 /\ i - 1 <= x  BY <6>1, <7>5, <9>1, <9>2, <9>3
                <9>5. l <= x  BY ONLY <9>4, x \in Int, i \in Nat, l \in Nat
                <9>6. QED  BY <9>1, <9>3, <9>5
              <8>2. QED  BY <5>7, <7>1, <7>5, <8>1 DEF Stored
            <7>6. QED  BY <7>3, <7>4, <7>5 DEF Stored
          <6>9. PICK l \in DOMAIN ic.rx : ic.rx[l] = wire[j]
            BY <1>2, <6>7, <6>8 DEF Parts, FifoIsRead
          <6>10. ic.rx[l].m = e.m /\ ic.rx[l].i = e.i - 1 /\ l \in 1..last
            BY <1>7, <6>7, <6>9
          <6>11. l < last => Before(ic.rx[l], ic.rx[last])  BY <1>2, <5>1 DEF Parts, FifoIsRead
          <6>12. QED  BY <1>8, <5>1, <5>2, <5>7, <6>1, <6>10, <6>11 DEF Before
        <5>10. k < last => ic.rx[last].i - ic.rx[k].i = last - k
          BY <1>2, <4>3, <5>1, <5>7 DEF Parts, FifoIsRead
        <5> HIDE DEF last
        <5>11. e.i - ic.rx[k].i = last + 1 - k
          <6>1. CASE k = last  BY ONLY <1>8, <5>1, <5>2, <5>9, <6>1
          <6>2. CASE k < last
            <7>1. ic.rx[last].i - ic.rx[k].i = last - k  BY <5>10, <6>2
            <7>2. QED  BY ONLY <1>8, <5>1, <5>2, <5>9, <7>1
          <6>3. QED  BY <5>1, <6>1, <6>2
        <5>12. QED  BY <5>11 DEF last
      <4>4. QED  BY <4>2, <4>3
    <3>4. ASSUME NEW k \in DOMAIN ic'.rx
          PROVE  /\ ic'.rx[k].rd /\ ~Stored(ic'.rx[k].m, ic'.rx[k].i)
                 /\ \E j \in DOMAIN wire' : wire'[j] = ic'.rx[k]
      <4>1. CASE k = Len(ic.rx) + 1
        <5>1. Len(wire) + 1 \in DOMAIN wire'  BY <1>4, <1>6
        <5>2. QED  BY <1>6, <1>11, <2>2, <3>2, <4>1, <5>1
      <4>2. CASE k \in DOMAIN ic.rx
        <5>1. ic'.rx[k] = ic.rx[k]  BY <1>7, <3>2, <4>2
        <5>2. PICK j \in DOMAIN wire : wire[j] = ic.rx[k]  BY <1>2, <4>2 DEF Parts, FifoIsRead
        <5>3. j \in DOMAIN wire' /\ wire'[j] = wire[j]  BY <1>4, <1>6, <1>7
        <5>4. QED  BY <1>2, <4>2, <5>1, <5>2, <5>3 DEF Parts, FifoIsRead
      <4>3. k = Len(ic.rx) + 1 \/ k \in DOMAIN ic.rx  BY <1>4, <1>7, <3>2
      <4>4. QED  BY <4>1, <4>2, <4>3
    <3>5. ASSUME NEW j \in DOMAIN ic'.rx, NEW k \in DOMAIN ic'.rx, j < k
          PROVE  /\ Before(ic'.rx[j], ic'.rx[k])
                 /\ ic'.rx[j].m = ic'.rx[k].m => ic'.rx[k].i - ic'.rx[j].i = k - j
      <4>1. j \in DOMAIN ic.rx /\ ic'.rx[j] = ic.rx[j]
        <5>1. j \in 1..Len(ic.rx)  BY <1>4, <3>2, <3>5
        <5>2. QED  BY <1>7, <3>2, <5>1
      <4>2. CASE k = Len(ic.rx) + 1
        <5>1. /\ Before(ic.rx[j], e)
              /\ ic.rx[j].m = e.m => e.i - ic.rx[j].i = Len(ic.rx) + 1 - j
          BY <3>3, <4>1
        <5>2. ic'.rx[k] = e  BY <3>2, <4>2
        <5>3. QED  BY ONLY <4>1, <4>2, <5>1, <5>2
      <4>3. CASE k \in DOMAIN ic.rx
        <5>1. ic'.rx[k] = ic.rx[k]  BY <1>7, <3>2, <4>3
        <5>2. QED  BY <1>2, <3>5, <4>1, <4>3, <5>1 DEF Parts, FifoIsRead
      <4>4. k = Len(ic.rx) + 1 \/ k \in DOMAIN ic.rx  BY <1>4, <1>7, <3>2
      <4>5. QED  BY <4>2, <4>3, <4>4
    <3>6. ASSUME NEW j \in DOMAIN wire', wire'[j].rd, ~Stored(wire'[j].m, wire'[j].i)
          PROVE  \E k \in DOMAIN ic'.rx : ic'.rx[k] = wire'[j]
      <4>1. CASE j = Len(wire) + 1
        <5>1. Len(ic.rx) + 1 \in DOMAIN ic'.rx  BY <1>4, <3>2
        <5>2. QED  BY <1>6, <3>2, <4>1, <5>1
      <4>2. CASE j \in DOMAIN wire
        <5>1. wire'[j] = wire[j]  BY <1>6, <1>7, <4>2
        <5>2. PICK k \in DOMAIN ic.rx : ic.rx[k] = wire[j]
          BY <1>2, <3>6, <4>2, <5>1 DEF Parts, FifoIsRead
        <5>3. k \in DOMAIN ic'.rx /\ ic'.rx[k] = ic.rx[k]  BY <1>4, <1>7, <3>2
        <5>4. QED  BY <5>1, <5>2, <5>3
      <4>3. j = Len(wire) + 1 \/ j \in DOMAIN wire  BY <1>4, <1>6, <1>7
      <4>4. QED  BY <4>1, <4>2, <4>3
    <3>7. QED  BY <1>9, <3>4, <3>5, <3>6 DEF FifoIsRead
  <2>3. QED  BY <2>1, <2>2
<1>18. QED  BY <1>5, <1>12, <1>14, <1>15, <1>16, <1>17 DEF Parts

(* The controller ends the transaction: then all was sent, since otherwise    *)
(* the FIFO would last.                                                      *)
LEMMA StopClean == ASSUME Prompt, IInv, CInv, HwStop, Clean' PROVE Parts'
<1>1. /\ ic.active /\ ic.tx = <<>> /\ Moves /\ UNCHANGED <<pc, ret, msgs, dev, isr, wire, got, quiet>>
      /\ ic'.mask = ic.mask /\ ic'.raw = ic.raw \cup {"STOP_DET"}
      /\ ic'.active = FALSE /\ ic'.tx = ic.tx /\ ic'.rx = ic.rx
  BY DEF HwStop, IInv, IcType
<1>2. Clean /\ Histories /\ Parts
  <2>1. Clean  BY <1>1, WasClean
  <2>2. QED  BY <2>1 DEF CInv, Parts
<1>3. /\ lag \in Nat /\ lag <= MaxLag /\ MaxLag \in Nat /\ Depth \in Nat
      /\ MaxLag >= 1 /\ 2 * MaxLag <= Depth /\ Len(ic.tx) = 0
  BY <1>1, <1>2, SilanI2cAssumption DEF Histories, Prompt
<1>4. AllPumped
  <2>1. SUFFICES ASSUME ~AllPumped PROVE FALSE  OBVIOUS
  <2>2. "TX_EMPTY" \in INTR_STAT  BY <1>2, <1>3, <2>1, CleanPending
  <2>3. lag < MaxLag  BY <1>1, <2>2 DEF Moves, Pending
  <2>4. Len(ic.tx) + lag >= MaxLag  BY <1>1, <1>2, <2>1 DEF Parts, Supplied
  <2>5. QED  BY <1>3, <2>3, <2>4
<1>5. FlowIsSent'  BY <1>1, <1>2, SameFlow DEF Parts
<1>6. FifoIsRead' /\ GotIsStored'
  <2>1. \A m, i : Stored(m, i)' <=> Stored(m, i)  BY <1>1 DEF Stored
  <2>2. (\A k \in DOMAIN wire : IsByte(wire[k])) /\ ic.rx \in Seq(Entry)
    BY <1>2, WireIs, FlowParts DEF Parts
  <2>3. QED  BY <1>1, <1>2, <2>1, <2>2, SameRead DEF Parts
<1>7. Supplied'  BY <1>1, <1>4 DEF Supplied, AllPumped
<1>8. Drained'
  <2>1. Len(ic.rx) \in Nat  BY <1>2, FlowParts
  <2>2. CASE Pending
    <3>1. lag' = lag + 1  BY <1>1, <2>2 DEF Moves
    <3>2. Len(ic.rx) <= lag + IF isr.pc \in {"pump", "end"} THEN 0 ELSE MaxLag
      BY <1>2 DEF Parts, Drained
    <3>3. QED  BY <1>1, <1>3, <2>1, <3>1, <3>2 DEF Drained
  <2>3. CASE ~Pending
    <3>1. INTR_STAT = {} /\ lag' = 0  BY <1>1, <2>3 DEF Pending, Moves
    <3>2. ic.rx = <<>>  BY <1>2, <3>1, CleanPending
    <3>3. Len(ic.rx) = 0  BY <3>2
    <3>4. QED  BY <1>1, <1>3, <3>1, <3>3 DEF Drained
  <2>4. QED  BY <2>2, <2>3
<1>9. StopIsLast'  BY <1>1, <1>2, <1>4 DEF Parts, StopIsLast, AllPumped
<1>10. QED  BY <1>5, <1>6, <1>7, <1>8, <1>9 DEF Parts

(* Steps of the handler that move no byte and store none. *)
LEMMA SameBytes ==
    ASSUME IInv, Histories, FlowIsSent, FifoIsRead, GotIsStored,
           UNCHANGED <<msgs, wire, got>>, ic'.tx = ic.tx, ic'.rx = ic.rx,
           dev'.msg_write_idx = dev.msg_write_idx, dev'.writing = dev.writing,
           dev'.wleft = dev.wleft,
           \A m \in 1..Len(msgs) : \A i \in 1..msgs[m].len :
              msgs[m].rd => (Stored(m, i)' <=> Stored(m, i))
    PROVE  FlowIsSent' /\ FifoIsRead' /\ GotIsStored'
<1>1. FlowIsSent'  BY SameFlow
<1>2. (\A k \in DOMAIN wire : IsByte(wire[k])) /\ ic.rx \in Seq(Entry)  BY WireIs, FlowParts
<1>3. QED  BY <1>1, <1>2, SameRead

(* On entry the handler sees whether there is room and whether there are bytes *)
(* to fetch.                                                                 *)
LEMMA EnterClean == ASSUME Prompt, IInv, CInv, IsrEnter, Clean' PROVE Parts'
<1>1. /\ isr.pc = "off" /\ UNCHANGED <<pc, ret, msgs, dev, lag, wire, got, quiet>>
      /\ ic'.mask = ic.mask /\ ic'.raw = ic.raw \ INTR_STAT
      /\ ic'.active = ic.active /\ ic'.tx = ic.tx /\ ic'.rx = ic.rx
      /\ isr'.pc = Goes(INTR_STAT) /\ isr'.stat = INTR_STAT /\ "TX_ABRT" \notin INTR_STAT
  BY DEF IsrEnter, IInv, IcType
<1>2. Clean /\ Histories /\ Parts
  <2>1. Clean  BY <1>1 DEF Clean, Armed
  <2>2. QED  BY <2>1 DEF CInv, Parts
<1>3. /\ lag \in Nat /\ lag <= MaxLag /\ MaxLag \in Nat /\ Depth \in Nat /\ Len(ic.tx) \in Nat
      /\ Len(ic.rx) \in Nat
  BY <1>2, SilanI2cAssumption, FlowParts DEF Histories
<1>4. FlowIsSent' /\ FifoIsRead' /\ GotIsStored'
  <2>1. \A m, i : Stored(m, i)' <=> Stored(m, i)  BY <1>1 DEF Stored
  <2>2. QED  BY <1>1, <1>2, <2>1, SameBytes DEF Parts
<1>5. isr'.pc \in {"pump", "end"} => ic.rx = <<>>
  BY <1>1, <1>2, CleanPending DEF Goes
<1>6. isr'.pc = "end" => "TX_EMPTY" \notin isr'.stat  BY <1>1 DEF Goes
<1>7. Supplied'
  <2>1. SUFFICES ASSUME ~AllPumped', "TX_EMPTY" \notin isr'.stat
                 PROVE  Len(ic'.tx) + lag' >= Depth
    BY <1>1, <1>2, <1>6 DEF Parts, Supplied, AllPumped
  <2>2. ~(Len(ic.tx) < Depth)  BY <1>1, <1>2, <2>1, CleanPending DEF AllPumped
  <2>3. QED  BY <1>1, <1>3, <2>2
<1>8. Drained'
  <2>1. isr'.pc \in {"pump", "end"} => Len(ic.rx) = 0  BY <1>5
  <2>2. Len(ic.rx) <= lag + MaxLag  BY <1>1, <1>2 DEF Parts, Drained
  <2>3. QED  BY <1>1, <1>3, <2>1, <2>2 DEF Drained
<1>9. StopIsLast'
  <2>1. "STOP_DET" \in isr'.stat => "STOP_DET" \in ic.raw  BY <1>1, <1>2, CleanPending
  <2>2. QED  BY <1>1, <1>2, <1>5, <2>1 DEF Parts, StopIsLast, AllPumped
<1>10. QED  BY <1>4, <1>7, <1>8, <1>9 DEF Parts

(* What the handler goes on with once the receive FIFO is empty. *)
LEMMA ReadOver ==
    ASSUME IInv, Histories, Parts, isr.pc = "read", isr' = [isr EXCEPT !.pc = Goes(isr.stat \ {"RX_FULL"})],
           ic'.tx = ic.tx, ic'.rx = <<>>, ic'.active = ic.active, ic'.raw = ic.raw,
           UNCHANGED <<msgs, wire, lag>>, dev'.msg_write_idx = dev.msg_write_idx,
           dev'.done = dev.done
    PROVE  Supplied' /\ Drained' /\ StopIsLast'
<1>1. isr'.pc \in {"read", "pump", "end"} /\ isr'.stat = isr.stat
      /\ (isr'.pc = "end" => "TX_EMPTY" \notin isr.stat)
  BY DEF IInv, IsrType, Goes
<1>2. Supplied'  BY <1>1 DEF Parts, Supplied, AllPumped
<1>3. Drained'
  <2>1. lag \in Nat /\ MaxLag \in Nat /\ Len(ic'.rx) = 0
    BY SilanI2cAssumption DEF Histories
  <2>2. QED  BY <2>1 DEF Drained
<1>4. StopIsLast'  BY <1>1 DEF Parts, StopIsLast, AllPumped
<1>5. QED  BY <1>2, <1>3, <1>4

(* When the last message is passed, nothing is left in the receive FIFO. *)
LEMMA ReadEndsClean == ASSUME Prompt, IInv, CInv, ReadEnds, Clean' PROVE Parts'
<1>1. /\ isr.pc = "read" /\ dev.msg_read_idx > Len(msgs)
      /\ isr' = [isr EXCEPT !.pc = Goes(isr.stat \ {"RX_FULL"})]
      /\ UNCHANGED <<pc, ret, msgs, dev, ic, lag, wire, got, quiet>>
  BY DEF ReadEnds
<1>2. Clean /\ Histories /\ Parts
  <2>1. Clean  BY <1>1, WasClean
  <2>2. QED  BY <2>1 DEF CInv, Parts
<1>3. FlowIsSent' /\ FifoIsRead' /\ GotIsStored'
  <2>1. \A m, i : Stored(m, i)' <=> Stored(m, i)  BY <1>1 DEF Stored
  <2>2. QED  BY <1>1, <1>2, <2>1, SameBytes DEF Parts
<1>4. ic.rx = <<>>
  <2>1. SUFFICES ASSUME ic.rx # <<>> PROVE FALSE  OBVIOUS
  <2>2. 1 \in DOMAIN ic.rx
    <3>1. ic.rx \in Seq(Entry)  BY <1>2, FlowParts
    <3>2. QED  BY <2>1, <3>1
  <2>3. PICK j \in DOMAIN wire : wire[j] = ic.rx[1]  BY <1>2, <2>2 DEF Parts, FifoIsRead
  <2>4. wire[j].m \in 1..Len(msgs)  BY <1>2, WireIs DEF Parts, IsByte
  <2>5. Len(msgs) \in Nat /\ dev.msg_read_idx \in Nat  BY DEF IInv, CallerType, DevType
  <2>6. Stored(ic.rx[1].m, ic.rx[1].i)  BY <1>1, <2>3, <2>4, <2>5 DEF Stored
  <2>7. QED  BY <1>2, <2>2, <2>6 DEF Parts, FifoIsRead
<1>5. Supplied' /\ Drained' /\ StopIsLast'  BY <1>1, <1>2, <1>4, ReadOver
<1>6. QED  BY <1>3, <1>5 DEF Parts

(* Passing over a message that is written stores nothing. *)
LEMMA ReadSkipsClean == ASSUME Prompt, IInv, CInv, ReadSkips, Clean' PROVE Parts'
<1>1. /\ isr.pc = "read" /\ dev.msg_read_idx <= Len(msgs) /\ ~msgs[dev.msg_read_idx].rd
      /\ dev'.msg_read_idx = dev.msg_read_idx + 1 /\ dev'.reading = dev.reading
      /\ dev'.rleft = dev.rleft /\ dev'.msg_write_idx = dev.msg_write_idx
      /\ dev'.writing = dev.writing /\ dev'.wleft = dev.wleft /\ dev'.done = dev.done
      /\ dev'.cmd_err = dev.cmd_err /\ dev'.msg_err = dev.msg_err
      /\ UNCHANGED <<pc, ret, msgs, ic, isr, lag, wire, got, quiet>>
  BY DEF ReadSkips, IInv, DevType
<1>2. Clean /\ Histories /\ Parts
  <2>1. Clean  BY <1>1, WasClean
  <2>2. QED  BY <2>1 DEF CInv, Parts
<1>3. ~dev.reading  BY <1>1 DEF IInv, Partial
<1>4. \A m \in 1..Len(msgs) : \A i \in 1..msgs[m].len : msgs[m].rd => (Stored(m, i)' <=> Stored(m, i))
  <2>1. Len(msgs) \in Nat /\ dev.msg_read_idx \in Nat  BY DEF IInv, CallerType, DevType
  <2>2. QED  BY <1>1, <1>3, <2>1 DEF Stored
<1>5. FlowIsSent' /\ FifoIsRead' /\ GotIsStored'  BY <1>1, <1>2, <1>4, SameBytes DEF Parts
<1>6. Supplied' /\ Drained' /\ StopIsLast'
  BY <1>1, <1>2 DEF Parts, Supplied, Drained, StopIsLast, AllPumped
<1>7. QED  BY <1>5, <1>6 DEF Parts

(* All messages are written. *)
LEMMA PumpEndsClean == ASSUME Prompt, IInv, CInv, PumpEnds, Clean' PROVE Parts'
<1>1. /\ isr.pc = "pump" /\ dev.msg_write_idx > Len(msgs)
      /\ ic'.active = ic.active /\ ic'.tx = ic.tx /\ ic'.rx = ic.rx /\ ic'.raw = ic.raw
      /\ isr'.pc = "end" /\ isr'.stat = isr.stat
      /\ UNCHANGED <<pc, ret, msgs, dev, lag, wire, got, quiet>>
  BY DEF PumpEnds, IInv, IcType, IsrType
<1>2. Clean /\ Histories /\ Parts
  <2>1. Clean  BY <1>1, WasClean
  <2>2. QED  BY <2>1 DEF CInv, Parts
<1>3. FlowIsSent' /\ FifoIsRead' /\ GotIsStored'
  <2>1. \A m, i : Stored(m, i)' <=> Stored(m, i)  BY <1>1 DEF Stored
  <2>2. QED  BY <1>1, <1>2, <2>1, SameBytes DEF Parts
<1>4. Supplied' /\ Drained' /\ StopIsLast'
  BY <1>1, <1>2 DEF Parts, Supplied, Drained, StopIsLast, AllPumped
<1>5. QED  BY <1>3, <1>4 DEF Parts

(* The handler returns: both FIFOs have a latency's worth in hand. *)
LEMMA EndClean == ASSUME Prompt, IInv, CInv, IsrEnd, Clean' PROVE Parts'
<1>1. /\ isr.pc = "end" /\ isr'.pc = "off" /\ lag' = 0
      /\ dev'.msg_read_idx = dev.msg_read_idx /\ dev'.reading = dev.reading
      /\ dev'.rleft = dev.rleft /\ dev'.msg_write_idx = dev.msg_write_idx
      /\ dev'.writing = dev.writing /\ dev'.wleft = dev.wleft
      /\ dev'.done = (dev.done \/ "STOP_DET" \in isr.stat \/ dev.msg_err)
      /\ dev'.cmd_err = dev.cmd_err /\ dev'.msg_err = dev.msg_err
      /\ UNCHANGED <<pc, ret, msgs, ic, wire, got, quiet>>
  BY DEF IsrEnd, IsrOff, IInv, DevType
<1>2. Clean /\ Histories /\ Parts
  <2>1. Clean  BY <1>1, WasClean
  <2>2. QED  BY <2>1 DEF CInv, Parts
<1>3. /\ lag \in Nat /\ lag <= MaxLag /\ MaxLag \in Nat /\ Depth \in Nat /\ Len(ic.tx) \in Nat
      /\ Len(ic.rx) \in Nat /\ MaxLag >= 1 /\ 2 * MaxLag <= Depth
  BY <1>2, SilanI2cAssumption, FlowParts DEF Histories, Prompt
<1>4. FlowIsSent' /\ FifoIsRead' /\ GotIsStored'
  <2>1. \A m, i : Stored(m, i)' <=> Stored(m, i)  BY <1>1 DEF Stored
  <2>2. QED  BY <1>1, <1>2, <2>1, SameBytes DEF Parts
<1>5. Supplied'
  <2>1. SUFFICES ASSUME ~AllPumped' PROVE Len(ic'.tx) + lag' >= MaxLag
    BY <1>1, <1>2 DEF Parts, Supplied, AllPumped
  <2>2. Len(ic.tx) + lag >= Depth  BY <1>1, <1>2, <2>1 DEF Parts, Supplied, AllPumped
  <2>3. Len(ic.tx) + 0 >= MaxLag  BY <1>3, <2>2
  <2>4. QED  BY <1>1, <2>3
<1>6. Drained'
  <2>1. Len(ic.rx) <= lag + 0  BY <1>1, <1>2 DEF Parts, Drained
  <2>2. Len(ic.rx) <= 0 + MaxLag  BY <1>3, <2>1
  <2>3. QED  BY <1>1, <2>2 DEF Drained
<1>7. StopIsLast'
  <2>1. ~dev.msg_err  BY <1>2 DEF Clean, Armed
  <2>2. QED  BY <1>1, <1>2, <2>1 DEF Parts, StopIsLast, AllPumped
<1>8. QED  BY <1>4, <1>5, <1>6, <1>7 DEF Parts


(* When the room ends a message, the transmit FIFO is as good as full. *)
LEMMA RoomFills ==
    ASSUME Prompt, IInv, Histories, Drained, isr.pc = "pump", NEW rd \in BOOLEAN
    PROVE  Room(rd) \in Nat /\ Len(ic.tx) + Room(rd) + lag >= Depth
<1>1. Room(rd) \in Nat  BY RoomFits DEF IInv
<1>2. /\ Len(ic.tx) \in Nat /\ Len(ic.rx) \in Nat /\ Depth \in Nat /\ Len(ic.tx) <= Depth
      /\ lag \in Nat /\ lag <= MaxLag /\ MaxLag \in Nat /\ MaxLag >= 1 /\ 2 * MaxLag <= Depth
  <2>1. Len(ic.tx) \in Nat /\ Len(ic.rx) \in Nat  BY FlowParts
  <2>2. QED  BY <2>1, SilanI2cAssumption DEF IInv, IcType, Histories, Prompt
<1>3. Len(ic.rx) <= lag  BY <1>2 DEF Drained
<1> DEFINE a == Depth - Len(ic.tx)
           b == Depth - Len(ic.rx)
<1>4. a \in Int /\ b \in Int /\ b # 0  BY <1>2, <1>3
<1>5. Room(rd) = IF rd THEN Least({a, b}) ELSE a  BY <1>4 DEF Room
<1>6. Len(ic.tx) + a + lag >= Depth /\ Len(ic.tx) + b + lag >= Depth  BY <1>2, <1>3
<1> HIDE DEF a, b
<1>7. Least({a, b}) \in {a, b}  BY <1>4, LeastOf
<1>8. Room(rd) = a \/ Room(rd) = b  BY <1>5, <1>7
<1>9. QED  BY <1>1, <1>6, <1>8

(* The entries written continue the flow, and keep it going while messages    *)
(* are left.                                                                 *)
LEMMA PumpClean == ASSUME Prompt, IInv, CInv, PumpMessage, Clean' PROVE Parts'
<1> DEFINE m == dev.msg_write_idx
           left == IF dev.writing THEN dev.wleft ELSE msgs[m].len
           n == Least({left, Room(msgs[m].rd)})
           from == msgs[m].len - left
           new == [k \in 1..n |-> Byte(m, from + k)]
<1>1. /\ isr.pc = "pump" /\ m <= Len(msgs) /\ msgs[m].len # 0
      /\ ic' = [ic EXCEPT !.tx = Written(new), !.mask = IF n < left THEN INTR_DEFAULT_MASK ELSE @]
      /\ dev' = [dev EXCEPT !.wleft = left - n, !.writing = n < left,
                           !.msg_write_idx = IF n < left THEN m ELSE m + 1]
      /\ isr' = [isr EXCEPT !.pc = IF n < left THEN "end" ELSE @]
      /\ UNCHANGED <<pc, ret, msgs, lag, wire, got, quiet>>
  BY DEF PumpMessage, Progress, BadMessage
<1>2. /\ m \in 1..Len(msgs) /\ m \in Nat /\ Len(msgs) \in Nat /\ msgs[m].len \in Nat
      /\ msgs[m].rd \in BOOLEAN
  <2>1. m \in 1..(Len(msgs) + 1) /\ Len(msgs) \in Nat  BY DEF IInv, DevType, CallerType
  <2>2. m \in 1..Len(msgs)  BY <1>1, <2>1
  <2>3. QED  BY <2>1, <2>2, MsgAt DEF IInv
<1>3. /\ left \in Nat /\ left <= msgs[m].len /\ from \in Nat
      /\ dev.writing => left = dev.wleft
      /\ ~dev.writing => from = 0
  <2>1. left \in Nat /\ left <= msgs[m].len  BY <1>2 DEF IInv, DevType, Partial
  <2>2. QED  BY <1>2, <2>1
<1>4. n \in Nat /\ n <= left /\ (n < left => n = Room(msgs[m].rd))
  <2> HIDE DEF left
  <2>1. Room(msgs[m].rd) \in Nat  BY <1>2, RoomFits DEF IInv
  <2> DEFINE room == Room(msgs[m].rd)
  <2>2. room \in Nat  BY <2>1
  <2> HIDE DEF room
  <2>3. Least({left, room}) \in {left, room} /\ Least({left, room}) <= left
    BY <1>3, <2>2, LeastOf
  <2>4. n = Least({left, room})  BY DEF room
  <2> HIDE DEF n
  <2>5. n \in Nat /\ n <= left /\ (n < left => n = room)  BY <1>3, <2>2, <2>3, <2>4
  <2>6. QED  BY <2>5 DEF room
<1> HIDE DEF n
<1>5. /\ ic'.raw = ic.raw /\ ic'.active = ic.active /\ ic'.tx = Written(new) /\ ic'.rx = ic.rx
      /\ dev'.msg_write_idx = (IF n < left THEN m ELSE m + 1)
      /\ dev'.msg_read_idx = dev.msg_read_idx /\ dev'.wleft = left - n
      /\ dev'.rleft = dev.rleft /\ dev'.writing = (n < left) /\ dev'.reading = dev.reading
      /\ dev'.cmd_err = dev.cmd_err /\ dev'.msg_err = dev.msg_err /\ dev'.done = dev.done
      /\ isr'.stat = isr.stat /\ isr'.pc = (IF n < left THEN "end" ELSE "pump")
  BY <1>1 DEF IInv, IcType, DevType, IsrType
<1>6. Clean /\ Histories /\ Parts
  <2>1. Clean  BY <1>1, <1>5, WasClean
  <2>2. QED  BY <2>1 DEF CInv, Parts
<1> HIDE DEF left
<1>7. /\ new \in Seq(Entry) /\ Len(new) = n
      /\ \A k \in 1..n : new[k] = Byte(m, from + k)
  <2>1. \A k \in 1..n : from + k \in Nat  BY <1>3, <1>4
  <2>2. \A k \in 1..n : Byte(m, from + k) \in Entry
    <3>1. msgs[m].addr \in Addr  BY <1>2, MsgAt DEF IInv
    <3>2. QED  BY <1>2, <2>1, <3>1 DEF Byte, Entry
  <2>3. QED  BY <1>4, <2>2
<1> HIDE DEF new
<1> DEFINE F == Len(wire) + Len(ic.tx)
<1>8. /\ F \in Nat /\ DOMAIN Flow = 1..F /\ Len(ic.tx) \in Nat /\ Len(wire) \in Nat
  BY <1>6, FlowParts
<1>9. /\ Len(ic'.tx) = Len(ic.tx) + n
      /\ DOMAIN Flow' = 1..(F + n)
      /\ \A k \in 1..F : Flow'[k] = Flow[k]
      /\ \A k \in 1..n : Flow'[F + k] = Byte(m, from + k)
  <2>1. Flow \in Seq(Entry) /\ Len(Flow) = F /\ ic.tx \in Seq(Entry) /\ wire \in Seq(Entry)
    <3>1. wire \in Seq(Entry) /\ ic.tx \in Seq(Entry)  BY <1>6, FlowParts
    <3>2. QED  BY <3>1, ConcatProperties DEF Flow
  <2>2. Written(new) = ic.tx \o new  BY <1>6 DEF Written, CInv, Listens, Clean
  <2>3. Flow' = Flow \o new
    <3>0. wire \in Seq(Entry) /\ ic.tx \in Seq(Entry) /\ new \in Seq(Entry)  BY <1>7, <2>1
    <3>1. (wire \o ic.tx) \o new = wire \o (ic.tx \o new)
      <4>1. PICK s \in Seq(Entry) : s = wire  BY <3>0
      <4>2. PICK t \in Seq(Entry) : t = ic.tx  BY <3>0
      <4>3. PICK u \in Seq(Entry) : u = new  BY <3>0
      <4>4. (s \o t) \o u = s \o (t \o u)  BY ConcatAssociative
      <4>5. QED  BY ONLY <4>1, <4>2, <4>3, <4>4
    <3>2. QED  BY <1>1, <1>5, <2>2, <3>1 DEF Flow
  <2>4. Len(ic'.tx) = Len(ic.tx) + n
    <3>0. ic.tx \in Seq(Entry) /\ new \in Seq(Entry)  BY <1>7, <2>1
    <3>1. Len(ic.tx \o new) = Len(ic.tx) + Len(new)  BY ONLY <3>0, ConcatProperties
    <3>2. QED  BY <1>5, <1>7, <2>2, <3>1
  <2>5. /\ Flow' \in Seq(Entry) /\ Len(Flow') = F + n
        /\ \A k \in 1..(F + n) : Flow'[k] = IF k <= F THEN Flow[k] ELSE new[k - F]
    <3>1. PICK s \in Seq(Entry) : s = Flow /\ Len(s) = F  BY <2>1
    <3>2. PICK u \in Seq(Entry) : u = new /\ Len(u) = n  BY <1>7
    <3>3. /\ s \o u \in Seq(Entry) /\ Len(s \o u) = Len(s) + Len(u)
          /\ \A k \in 1..(Len(s) + Len(u)) :
                (s \o u)[k] = IF k <= Len(s) THEN s[k] ELSE u[k - Len(s)]
      BY ConcatProperties
    <3>4. Flow' = s \o u  BY <2>3, <3>1, <3>2
    <3> HIDE DEF F
    <3>5. QED  BY ONLY <3>1, <3>2, <3>3, <3>4
  <2>6. DOMAIN Flow' = 1..(F + n)
    <3>1. DOMAIN Flow' = 1..Len(Flow')  BY <2>5
    <3>2. QED  BY <2>5, <3>1
  <2> HIDE DEF F
  <2>7. \A k \in 1..F : Flow'[k] = Flow[k]  BY <1>4, <1>8, <2>5
  <2>8. ASSUME NEW k \in 1..n PROVE Flow'[F + k] = Byte(m, from + k)
    <3>1. F + k \in 1..(F + n) /\ ~(F + k <= F) /\ (F + k) - F = k  BY <1>4, <1>8
    <3>2. QED  BY <1>7, <2>5, <3>1
  <2>9. QED  BY <2>4, <2>6, <2>7, <2>8
<1> HIDE DEF F
<1>10. ASSUME NEW p \in 1..Len(msgs), NEW i \in 1..msgs[p].len
       PROVE  /\ Sent(p, i) <=> p < m \/ (p = m /\ i <= from)
              /\ Sent(p, i)' <=> p < m \/ (p = m /\ i <= from + n)
  <2>1. p \in Nat /\ i \in Nat /\ i >= 1 /\ msgs[p].len \in Nat /\ i <= msgs[p].len
    <3>1. msgs[p].len \in Nat  BY MsgAt DEF IInv
    <3>2. QED  BY <1>2, <3>1
  <2>2. Sent(p, i) <=> p < m \/ (p = m /\ i <= from)
    <3>1. Sent(p, i) <=> p < m \/ (p = m /\ dev.writing /\ i <= msgs[p].len - dev.wleft)
      BY DEF Sent
    <3>2. CASE dev.writing
      <4>1. left = dev.wleft  BY <1>3, <3>2
      <4>2. QED  BY <3>1, <3>2, <4>1
    <3>3. CASE ~dev.writing
      <4>1. from = 0  BY <1>3, <3>3
      <4>2. ~(i <= from)  BY <2>1, <4>1
      <4>3. QED  BY <3>1, <3>3, <4>2
    <3>4. QED  BY <3>2, <3>3
  <2>3. Sent(p, i)' <=> p < m \/ (p = m /\ i <= from + n)
    <3>1. Sent(p, i)' <=> \/ p < dev'.msg_write_idx
                          \/ p = dev'.msg_write_idx /\ dev'.writing /\ i <= msgs[p].len - dev'.wleft
      BY <1>1 DEF Sent
    <3>2. CASE n < left
      <4>1. dev'.msg_write_idx = m /\ dev'.writing /\ dev'.wleft = left - n  BY <1>5, <3>2
      <4>2. msgs[m].len - (left - n) = from + n  BY <1>2, <1>3, <1>4
      <4> HIDE DEF m, from
      <4>3. QED  BY <3>1, <4>1, <4>2
    <3>3. CASE ~(n < left)
      <4>1. dev'.msg_write_idx = m + 1 /\ ~dev'.writing  BY <1>5, <3>3
      <4>2. msgs[m].len = from + n  BY <1>2, <1>3, <1>4, <3>3
      <4> HIDE DEF m, from
      <4>3. QED  BY <1>2, <2>1, <3>1, <4>1, <4>2
    <3>4. QED  BY <3>2, <3>3
  <2>4. QED  BY <2>2, <2>3
<1>11. \A p, i : Byte(p, i)' = Byte(p, i)  BY <1>1 DEF Byte
<1>12. \A e : IsByte(e)' <=> IsByte(e)  BY <1>1, <1>11 DEF IsByte
<1>13. ASSUME NEW k \in 1..F
       PROVE  /\ IsByte(Flow[k]) /\ Flow[k].m \in Nat /\ Flow[k].i \in Nat
              /\ Flow[k].m < m \/ (Flow[k].m = m /\ Flow[k].i <= from)
  <2> DEFINE e == Flow[k]
  <2>1. IsByte(e) /\ Sent(e.m, e.i)  BY <1>6, <1>8 DEF Parts, FlowIsSent
  <2> HIDE DEF e
  <2>2. e.m \in 1..Len(msgs) /\ e.i \in 1..msgs[e.m].len  BY <2>1 DEF IsByte
  <2>3. msgs[e.m].len \in Nat  BY <2>2, MsgAt DEF IInv
  <2>4. e.m \in Nat /\ e.i \in Nat  BY <1>2, <2>2, <2>3
  <2>5. e.m < m \/ (e.m = m /\ e.i <= from)  BY <1>10, <2>1, <2>2
  <2>6. QED  BY <2>1, <2>4, <2>5 DEF e
<1>14. ASSUME NEW k \in DOMAIN Flow', ~(k \in 1..F)
       PROVE  k - F \in 1..n /\ Flow'[k] = Byte(m, from + (k - F)) /\ k \in Nat
  <2>1. k - F \in 1..n /\ F + (k - F) = k /\ k \in Nat  BY <1>4, <1>8, <1>9, <1>14
  <2>2. QED  BY <1>9, <2>1
<1>15. \A k \in 1..n : from + k \in 1..msgs[m].len /\ from + k <= from + n
                       /\ Byte(m, from + k).m = m /\ Byte(m, from + k).i = from + k
  <2>1. \A k \in 1..n : from + k \in 1..msgs[m].len /\ from + k <= from + n
    <3>1. PICK h \in Nat : h = msgs[m].len  BY <1>2
    <3>2. from = h - left /\ from \in Nat /\ left \in Nat /\ n \in Nat /\ n <= left  BY <1>3, <1>4, <3>1
    <3> HIDE DEF from
    <3>3. \A k \in 1..n : from + k \in 1..h /\ from + k <= from + n  BY ONLY <3>2, h \in Nat
    <3>4. QED  BY <3>1, <3>3
  <2>2. QED  BY <2>1 DEF Byte
<1>16. ASSUME NEW k \in DOMAIN Flow'
       PROVE  \E p \in 1..Len(msgs) : \E i \in 1..msgs[p].len :
                 Flow'[k] = Byte(p, i) /\ (p < m \/ (p = m /\ i <= from + n))
  <2>1. CASE k \in 1..F
    <3>1. Flow'[k] = Flow[k]  BY <1>9, <2>1
    <3>2. PICK p \in 1..Len(msgs) : Flow[k].m = p /\ Flow[k].i \in 1..msgs[p].len /\ Flow[k] = Byte(p, Flow[k].i)
      BY <1>13, <2>1 DEF IsByte
    <3>3. PICK i \in 1..msgs[p].len : i = Flow[k].i /\ i \in Nat  BY <1>13, <2>1, <3>2
    <3>4. p < m \/ (p = m /\ i <= from)  BY <1>13, <2>1, <3>2, <3>3
    <3>5. i <= from => i <= from + n  BY <1>3, <1>4, <3>3
    <3>6. QED  BY <3>1, <3>2, <3>3, <3>4, <3>5
  <2>2. CASE ~(k \in 1..F)
    <3>1. k - F \in 1..n /\ Flow'[k] = Byte(m, from + (k - F))  BY <1>14, <2>2
    <3>2. from + (k - F) \in 1..msgs[m].len /\ from + (k - F) <= from + n  BY <1>15, <3>1
    <3>3. QED  BY <1>2, <3>1, <3>2
  <2>3. QED  BY <2>1, <2>2
<1>17. \A p \in 1..Len(msgs) : \A i \in 1..msgs[p].len :
          Sent(p, i)' <=> p < m \/ (p = m /\ i <= from + n)
  BY <1>10
<1>18. ASSUME NEW k \in DOMAIN Flow'
       PROVE  (IsByte(Flow[k]) /\ Sent(Flow[k].m, Flow[k].i))'
  <2>0. PICK p \in 1..Len(msgs) : \E i \in 1..msgs[p].len :
           Flow'[k] = Byte(p, i) /\ (p < m \/ (p = m /\ i <= from + n))
    BY <1>16
  <2>1. PICK i \in 1..msgs[p].len :
           Flow'[k] = Byte(p, i) /\ (p < m \/ (p = m /\ i <= from + n))
    BY <2>0
  <2>2. Byte(p, i).m = p /\ Byte(p, i).i = i  BY DEF Byte
  <2>3. Sent(p, i)'  BY <1>17, <2>1
  <2>4. QED  BY <1>1, <1>11, <2>1, <2>2, <2>3 DEF IsByte
<1>19. ASSUME NEW j \in DOMAIN Flow', NEW k \in DOMAIN Flow', j < k
       PROVE  Before(Flow[j], Flow[k])'
  <2>0. j \in Nat /\ k \in Nat /\ F \in Nat /\ n \in Nat  BY <1>4, <1>8, <1>9
  <2>1. CASE k \in 1..F
    <3>1. j \in 1..F  BY <1>9, <1>19, <2>0, <2>1
    <3>2. Flow'[j] = Flow[j] /\ Flow'[k] = Flow[k]  BY <1>9, <2>1, <3>1
    <3>3. Before(Flow[j], Flow[k])  BY <1>6, <1>8, <1>19, <2>1, <3>1 DEF Parts, FlowIsSent
    <3>4. QED  BY <3>2, <3>3 DEF Before
  <2>2. CASE ~(k \in 1..F)
    <3>1. k - F \in 1..n /\ Flow'[k] = Byte(m, from + (k - F))  BY <1>14, <2>2
    <3>2. Flow'[k].m = m /\ Flow'[k].i = from + (k - F)  BY <1>15, <3>1
    <3>3. CASE j \in 1..F
      <4>1. Flow'[j] = Flow[j]  BY <1>9, <3>3
      <4>2. /\ Flow[j].m \in Nat /\ Flow[j].i \in Nat
            /\ Flow[j].m < m \/ (Flow[j].m = m /\ Flow[j].i <= from)
        BY <1>13, <3>3
      <4>3. Flow[j].i <= from => Flow[j].i < from + (k - F)
        <5>1. from \in Nat  BY <1>3
        <5> HIDE DEF from
        <5>2. QED  BY <2>0, <3>1, <4>2, <5>1
      <4>4. QED  BY <3>2, <4>1, <4>2, <4>3 DEF Before
    <3>4. CASE ~(j \in 1..F)
      <4>1. Flow'[j] = Byte(m, from + (j - F)) /\ j - F \in 1..n  BY <1>14, <3>4
      <4>2. Flow'[j].m = m /\ Flow'[j].i = from + (j - F)  BY <1>15, <4>1
      <4>3. from + (j - F) < from + (k - F)
        <5>1. from \in Nat  BY <1>3
        <5> HIDE DEF from
        <5>2. QED  BY <1>19, <2>0, <5>1
      <4>4. QED  BY <3>2, <4>2, <4>3 DEF Before
    <3>5. QED  BY <3>3, <3>4
  <2>3. QED  BY <2>1, <2>2
<1>20. ASSUME NEW p \in 1..Len(msgs), NEW i \in 1..msgs[p].len, Sent(p, i)'
       PROVE  \E k \in DOMAIN Flow' : Flow'[k] = Byte(p, i)
  <2>0. i \in Nat /\ F \in Nat /\ n \in Nat /\ from \in Nat
    <3>1. msgs[p].len \in Nat  BY MsgAt DEF IInv
    <3>2. QED  BY <1>3, <1>4, <1>8, <3>1
  <2>1. CASE Sent(p, i)
    <3>1. PICK k \in 1..F : Flow[k] = Byte(p, i)  BY <1>6, <1>8, <2>1 DEF Parts, FlowIsSent
    <3>2. k \in DOMAIN Flow' /\ Flow'[k] = Flow[k]  BY <1>9, <2>0
    <3>3. QED  BY <3>1, <3>2
  <2>2. CASE ~Sent(p, i)
    <3>1. p = m /\ i <= from + n /\ ~(i <= from)  BY <1>10, <1>17, <1>20, <2>2
    <3> HIDE DEF m, from
    <3>2. i - from \in 1..n /\ F + (i - from) \in 1..(F + n) /\ from + (i - from) = i
      BY <2>0, <3>1
    <3>3. Flow'[F + (i - from)] = Byte(m, from + (i - from))  BY <1>9, <3>2
    <3>4. QED  BY <1>9, <3>1, <3>2, <3>3
  <2>3. QED  BY <2>1, <2>2
<1>21. ASSUME NEW p \in 1..Len(msgs), p < dev'.msg_write_idx PROVE msgs[p].len > 0
  <2>1. p \in Nat  BY <1>2
  <2>2. p < m \/ p = m  BY <1>2, <1>5, <1>21, <2>1
  <2>3. CASE p < m  BY <1>6, <2>3 DEF Parts, FlowIsSent
  <2>4. CASE p = m  BY <1>1, <1>2, <2>4
  <2>5. QED  BY <2>2, <2>3, <2>4
<1>22. FlowIsSent'
  <2>1. \A p \in 1..Len(msgs') : \A i \in 1..msgs'[p].len :
           Sent(p, i)' => \E k \in DOMAIN Flow' : Flow'[k] = Byte(p, i)'
    BY <1>1, <1>11, <1>20
  <2>2. \A p \in 1..Len(msgs') : p < dev'.msg_write_idx => msgs'[p].len > 0  BY <1>1, <1>21
  <2>3. QED  BY <1>18, <1>19, <2>1, <2>2 DEF FlowIsSent
<1>23. FifoIsRead' /\ GotIsStored'
  <2>1. \A p, i : Stored(p, i)' <=> Stored(p, i)  BY <1>1, <1>5 DEF Stored
  <2>2. (\A k \in DOMAIN wire : IsByte(wire[k])) /\ ic.rx \in Seq(Entry)
    BY <1>6, WireIs, FlowParts DEF Parts
  <2>3. QED  BY <1>1, <1>5, <1>6, <2>1, <2>2, SameRead DEF Parts
<1>24. /\ lag \in Nat /\ lag <= MaxLag /\ MaxLag \in Nat /\ Depth \in Nat
       /\ MaxLag >= 1 /\ 2 * MaxLag <= Depth
  BY <1>6, SilanI2cAssumption DEF Histories, Prompt
<1>25. ~AllPumped  BY <1>1, <1>2 DEF AllPumped
<1>26. n < left => Len(ic'.tx) + lag' >= Depth
  <2>1. Room(msgs[m].rd) \in Nat /\ Len(ic.tx) + Room(msgs[m].rd) + lag >= Depth
    BY <1>1, <1>2, <1>6, RoomFills DEF Parts
  <2>2. QED  BY <1>1, <1>4, <1>9, <2>1
<1>27. Supplied'
  <2>1. SUFFICES ASSUME ~AllPumped'
                 PROVE  /\ wire' # <<>> => ic'.active
                        /\ ic'.active \/ ic'.tx # <<>> => Len(ic'.tx) + lag' >= MaxLag
                        /\ isr'.pc = "end" \/ (isr'.pc # "off" /\ "TX_EMPTY" \notin isr'.stat) =>
                              Len(ic'.tx) + lag' >= Depth
    BY DEF Supplied
  <2>2. /\ wire # <<>> => ic.active
        /\ ic.active \/ ic.tx # <<>> => Len(ic.tx) + lag >= MaxLag
        /\ "TX_EMPTY" \notin isr.stat => Len(ic.tx) + lag >= Depth
    BY <1>1, <1>6, <1>25 DEF Parts, Supplied
  <2>3. \A x \in Nat : Len(ic.tx) + lag >= x => Len(ic'.tx) + lag' >= x
    <3>1. Len(ic'.tx) = Len(ic.tx) + n /\ lag' = lag /\ Len(ic.tx) \in Nat  BY <1>1, <1>8, <1>9
    <3>2. QED  BY <1>4, <1>24, <3>1
  <2>4. isr'.pc = "end" \/ (isr'.pc # "off" /\ "TX_EMPTY" \notin isr'.stat) =>
            Len(ic'.tx) + lag' >= Depth
    <3>1. CASE n < left  BY <1>26, <3>1
    <3>2. CASE ~(n < left)  BY <1>5, <1>24, <2>2, <2>3, <3>2
    <3>3. QED  BY <3>1, <3>2
  <2>5. Len(ic'.tx) + lag' >= MaxLag
    <3>1. CASE ic.active \/ ic.tx # <<>>  BY <1>24, <2>2, <2>3, <3>1
    <3>2. CASE n < left
      <4>1. Len(ic'.tx) + lag' >= Depth  BY <1>26, <3>2
      <4>2. Len(ic'.tx) \in Nat /\ lag' \in Nat  BY <1>1, <1>4, <1>8, <1>9, <1>24
      <4>3. QED  BY <1>24, <4>1, <4>2
    <3>3. CASE ~ic.active /\ ic.tx = <<>> /\ ~(n < left)
      <4>1. wire = <<>>  BY <2>2, <3>3
      <4>2. Len(wire) = 0 /\ Len(ic.tx) = 0  BY <3>3, <4>1
      <4>3. F = 0  BY <4>2 DEF F
      <4>4. DOMAIN Flow = {}  BY <1>8, <4>3
      <4>5. \A p \in 1..Len(msgs) : \A i \in 1..msgs[p].len : ~Sent(p, i)
        BY <1>6, <4>4 DEF Parts, FlowIsSent
      <4>6. m = 1
        <5>1. SUFFICES ASSUME m # 1 PROVE FALSE  OBVIOUS
        <5>2. 1 \in 1..Len(msgs) /\ 1 < m  BY <1>2, <5>1
        <5>3. msgs[1].len > 0 /\ msgs[1].len \in Nat
          BY <1>6, <5>2, MsgAt DEF Parts, FlowIsSent, IInv
        <5>4. 1 \in 1..msgs[1].len  BY <5>3
        <5>5. Sent(1, 1)  BY <5>2 DEF Sent
        <5>6. QED  BY <4>5, <5>2, <5>4, <5>5
      <4>7. from = 0
        <5>1. SUFFICES ASSUME from # 0 PROVE FALSE  OBVIOUS
        <5>2. 1 \in 1..msgs[m].len /\ 1 <= from  BY <1>1, <1>2, <1>3, <5>1
        <5>3. Sent(m, 1)  BY <1>2, <1>10, <5>2
        <5>4. QED  BY <1>2, <4>5, <5>2, <5>3
      <4>8. n = msgs[1].len  BY <1>2, <1>3, <1>4, <3>3, <4>6, <4>7
      <4>9. Len(msgs) # 1
        <5>1. dev'.msg_write_idx = 2  BY <1>5, <3>3, <4>6
        <5>2. QED  BY <1>1, <2>1, <5>1 DEF AllPumped
      <4>10. msgs \in Calls
        <5>1. msgs \in Calls \cup {<<>>}  BY DEF IInv, CallerType
        <5>2. Len(msgs) # 0  BY <1>2
        <5>3. QED  BY <5>1, <5>2
      <4>11. n >= MaxLag  BY <1>1, <4>6, <4>8, <4>9, <4>10 DEF Prompt
      <4>12. QED  BY <1>1, <1>4, <1>9, <1>24, <4>2, <4>11
    <3>4. QED  BY <3>1, <3>2, <3>3
  <2>6. QED  BY <1>1, <1>5, <2>2, <2>4, <2>5
<1>28. Drained' /\ StopIsLast'
  <2>1. Drained'  BY <1>1, <1>5, <1>6 DEF Parts, Drained
  <2>2. ~(dev.done \/ "STOP_DET" \in ic.raw \/ "STOP_DET" \in isr.stat)
    BY <1>1, <1>6, <1>25 DEF Parts, StopIsLast
  <2>3. StopIsLast'  BY <1>5, <2>2 DEF StopIsLast
  <2>4. QED  BY <2>1, <2>3
<1>29. QED  BY <1>22, <1>23, <1>27, <1>28 DEF Parts

(* The handler takes the bytes of a message from the receive FIFO: they are   *)
(* the ones it misses, from the first on.                                    *)
LEMMA ReadClean == ASSUME Prompt, IInv, CInv, ReadMessage, Clean' PROVE Parts'
<1> DEFINE m == dev.msg_read_idx
           left == IF dev.reading THEN dev.rleft ELSE msgs[m].len
           n == IF left < Len(ic.rx) THEN left ELSE Len(ic.rx)
           from == msgs[m].len - left
           L == Len(ic.rx)
<1>1. /\ isr.pc = "read" /\ m <= Len(msgs) /\ msgs[m].rd
      /\ ic' = [ic EXCEPT !.rx = SubSeq(@, n + 1, Len(@))]
      /\ got' = IF pc = "waiting" THEN got \cup {<<<<m, from + k>>, ic.rx[k]>> : k \in 1..n} ELSE got
      /\ \/ /\ n < left
            /\ dev' = [dev EXCEPT !.reading = TRUE, !.rleft = left - n]
            /\ isr' = [isr EXCEPT !.pc = Goes(isr.stat \ {"RX_FULL"})]
         \/ /\ n = left
            /\ dev' = [dev EXCEPT !.reading = FALSE, !.msg_read_idx = m + 1]
            /\ UNCHANGED isr
      /\ UNCHANGED <<pc, ret, msgs, lag, wire, quiet>>
  BY DEF ReadMessage
<1>2. /\ m \in 1..Len(msgs) /\ m \in Nat /\ Len(msgs) \in Nat /\ msgs[m].len \in Nat
  <2>1. m \in 1..(Len(msgs) + 1) /\ Len(msgs) \in Nat  BY DEF IInv, DevType, CallerType
  <2>2. m \in 1..Len(msgs)  BY <1>1, <2>1
  <2>3. QED  BY <2>1, <2>2, MsgAt DEF IInv
<1>3. /\ left \in Nat /\ left <= msgs[m].len /\ from \in Nat
      /\ dev.reading => left = dev.rleft
      /\ ~dev.reading => from = 0
  <2>1. left \in Nat /\ left <= msgs[m].len  BY <1>2 DEF IInv, DevType, Partial
  <2>2. QED  BY <1>2, <2>1
<1>4. L \in Nat /\ ic.rx \in Seq(Entry) /\ DOMAIN ic.rx = 1..L
  BY DEF IInv, IcType
<1> HIDE DEF left
<1>5. n \in Nat /\ n <= left /\ n <= L /\ (n < left => n = L)
  BY <1>3, <1>4
<1> HIDE DEF n
<1>6. /\ ic'.raw = ic.raw /\ ic'.active = ic.active /\ ic'.tx = ic.tx
      /\ ic'.rx = SubSeq(ic.rx, n + 1, L)
      /\ dev'.msg_write_idx = dev.msg_write_idx /\ dev'.wleft = dev.wleft
      /\ dev'.writing = dev.writing /\ dev'.cmd_err = dev.cmd_err
      /\ dev'.msg_err = dev.msg_err /\ dev'.done = dev.done
  BY <1>1 DEF IInv, IcType, DevType
<1>7. /\ n < left => /\ dev'.msg_read_idx = m /\ dev'.reading /\ dev'.rleft = left - n
                     /\ isr' = [isr EXCEPT !.pc = Goes(isr.stat \ {"RX_FULL"})]
      /\ ~(n < left) => dev'.msg_read_idx = m + 1 /\ ~dev'.reading /\ isr' = isr /\ n = left
  <2>1. CASE n < left
    <3>1. /\ dev' = [dev EXCEPT !.reading = TRUE, !.rleft = left - n]
          /\ isr' = [isr EXCEPT !.pc = Goes(isr.stat \ {"RX_FULL"})]
      <4>1. n # left  BY <1>3, <1>5, <2>1
      <4>2. QED  BY <1>1, <4>1
    <3>2. dev'.msg_read_idx = m /\ dev'.reading /\ dev'.rleft = left - n
      BY <3>1 DEF IInv, DevType
    <3>3. QED  BY <2>1, <3>1, <3>2
  <2>2. CASE ~(n < left)
    <3>1. dev' = [dev EXCEPT !.reading = FALSE, !.msg_read_idx = m + 1] /\ isr' = isr /\ n = left
      BY <1>1, <2>2
    <3>2. dev'.msg_read_idx = m + 1 /\ ~dev'.reading  BY <3>1 DEF IInv, DevType
    <3>3. QED  BY <2>2, <3>1, <3>2
  <2>3. QED  BY <2>1, <2>2
<1>8. Clean /\ Histories /\ Parts
  <2>1. Clean  BY <1>1, <1>6, WasClean
  <2>2. QED  BY <2>1 DEF CInv, Parts
<1>9. /\ ic'.rx \in Seq(Entry) /\ Len(ic'.rx) = L - n /\ DOMAIN ic'.rx = 1..(L - n)
      /\ \A k \in 1..(L - n) : n + k \in 1..L /\ ic'.rx[k] = ic.rx[n + k]
  <2> DEFINE s == SubSeq(ic.rx, n + 1, L)
  <2>1. /\ s \in Seq(Entry) /\ Len(s) = L - n
        /\ \A k \in 1..(L - n) : s[k] = ic.rx[n + k]
    BY <1>4, <1>5
  <2>2. DOMAIN s = 1..(L - n)  BY <2>1
  <2>3. \A k \in 1..(L - n) : n + k \in 1..L  BY <1>4, <1>5
  <2> HIDE DEF s
  <2>4. ic'.rx = s  BY <1>6 DEF s
  <2>5. QED  BY <2>1, <2>2, <2>3, <2>4
<1> HIDE DEF L
<1>10. ASSUME NEW p \in 1..Len(msgs), NEW i \in 1..msgs[p].len
       PROVE  /\ Stored(p, i) <=> p < m \/ (p = m /\ i <= from)
              /\ Stored(p, i)' <=> p < m \/ (p = m /\ i <= from + n)
  <2>1. p \in Nat /\ i \in Nat /\ i >= 1 /\ msgs[p].len \in Nat /\ i <= msgs[p].len
    <3>1. msgs[p].len \in Nat  BY MsgAt DEF IInv
    <3>2. QED  BY <1>2, <3>1
  <2>2. Stored(p, i) <=> p < m \/ (p = m /\ i <= from)
    <3>1. Stored(p, i) <=> p < m \/ (p = m /\ dev.reading /\ i <= msgs[p].len - dev.rleft)
      BY DEF Stored
    <3>2. CASE dev.reading
      <4>1. left = dev.rleft  BY <1>3, <3>2
      <4>2. QED  BY <3>1, <3>2, <4>1
    <3>3. CASE ~dev.reading
      <4>1. from = 0  BY <1>3, <3>3
      <4>2. ~(i <= from)  BY <2>1, <4>1
      <4>3. QED  BY <3>1, <3>3, <4>2
    <3>4. QED  BY <3>2, <3>3
  <2>3. Stored(p, i)' <=> p < m \/ (p = m /\ i <= from + n)
    <3>1. Stored(p, i)' <=> \/ p < dev'.msg_read_idx
                            \/ p = dev'.msg_read_idx /\ dev'.reading /\ i <= msgs[p].len - dev'.rleft
      BY <1>1 DEF Stored
    <3>2. CASE n < left
      <4>1. dev'.msg_read_idx = m /\ dev'.reading /\ dev'.rleft = left - n  BY <1>7, <3>2
      <4>2. msgs[m].len - (left - n) = from + n  BY <1>2, <1>3, <1>5
      <4> HIDE DEF m, from
      <4>3. QED  BY <3>1, <4>1, <4>2
    <3>3. CASE ~(n < left)
      <4>1. dev'.msg_read_idx = m + 1 /\ ~dev'.reading  BY <1>7, <3>3
      <4>2. msgs[m].len = from + n  BY <1>2, <1>3, <1>7, <3>3
      <4> HIDE DEF m, from
      <4>3. QED  BY <1>2, <2>1, <3>1, <4>1, <4>2
    <3>4. QED  BY <3>2, <3>3
  <2>4. QED  BY <2>2, <2>3
<1>11. \A p, i : Byte(p, i)' = Byte(p, i) /\ Byte(p, i).m = p /\ Byte(p, i).i = i  BY <1>1 DEF Byte
<1>12. FifoIsRead /\ GotIsStored /\ FlowIsSent /\ Histories  BY <1>8 DEF Parts
<1>13. ASSUME NEW k \in 1..L
       PROVE  /\ ic.rx[k].m \in 1..Len(msgs) /\ ic.rx[k].i \in 1..msgs[ic.rx[k].m].len
              /\ ic.rx[k] = Byte(ic.rx[k].m, ic.rx[k].i)
              /\ ic.rx[k].m \in Nat /\ ic.rx[k].i \in Nat
              /\ ~(ic.rx[k].m < m \/ (ic.rx[k].m = m /\ ic.rx[k].i <= from))
  <2>1. PICK j \in DOMAIN wire : wire[j] = ic.rx[k]  BY <1>4, <1>12 DEF FifoIsRead
  <2>2. IsByte(wire[j])  BY <1>12, WireIs
  <2>3. ic.rx[k] \in Entry  BY <1>4
  <2>4. ic.rx[k].m \in Nat /\ ic.rx[k].i \in Nat  BY <2>3 DEF Entry
  <2>5. /\ ic.rx[k].m \in 1..Len(msgs) /\ ic.rx[k].i \in 1..msgs[ic.rx[k].m].len
        /\ ic.rx[k] = Byte(ic.rx[k].m, ic.rx[k].i)
    BY <2>1, <2>2 DEF IsByte
  <2>6. ~Stored(ic.rx[k].m, ic.rx[k].i)  BY <1>4, <1>12 DEF FifoIsRead
  <2>7. QED  BY <1>10, <2>4, <2>5, <2>6
<1>14. ASSUME NEW k \in 1..n
       PROVE  /\ from + k \in 1..msgs[m].len /\ from + k \in Nat
              /\ k \in 1..L /\ 1 \in 1..n /\ 1 \in 1..L
              /\ ~Stored(m, from + k)
  <2>1. /\ from + k \in 1..msgs[m].len /\ from + k \in Nat /\ ~(from + k <= from)
        /\ k \in 1..L /\ 1 \in 1..n /\ 1 \in 1..L
    <3>1. PICK h \in Nat : h = msgs[m].len  BY <1>2
    <3>2. /\ from = h - left /\ from \in Nat /\ left \in Nat /\ n \in Nat /\ n <= left
          /\ L \in Nat /\ n <= L /\ k \in 1..n
      BY <1>3, <1>4, <1>5, <3>1
    <3> HIDE DEF from
    <3>3. /\ from + k \in 1..h /\ from + k \in Nat /\ ~(from + k <= from)
          /\ k \in 1..L /\ 1 \in 1..n /\ 1 \in 1..L
      BY ONLY <3>2, h \in Nat
    <3>4. QED  BY <3>1, <3>3
  <2>2. ~(m < m)  BY <1>2
  <2> HIDE DEF m, from
  <2>3. QED  BY <1>2, <1>10, <2>1, <2>2
<1>15. 1 \in 1..n => ic.rx[1] = Byte(m, from + 1)
  <2>1. SUFFICES ASSUME 1 \in 1..n, ic.rx[1] # Byte(m, from + 1) PROVE FALSE  OBVIOUS
  <2>2. from + 1 \in 1..msgs[m].len /\ 1 \in 1..L /\ ~Stored(m, from + 1) /\ from \in Nat
    BY <1>3, <1>14, <2>1
  <2>3. m < ic.rx[1].m \/ (m = ic.rx[1].m /\ from < ic.rx[1].i)
    BY <1>2, <1>13, <2>2
  <2>4. ~(m = ic.rx[1].m /\ from + 1 = ic.rx[1].i)  BY <1>13, <2>1, <2>2
  <2>5. Before(Byte(m, from + 1), ic.rx[1])
    <3>1. ic.rx[1].i \in Nat /\ ic.rx[1].m \in Nat  BY <1>13, <2>2
    <3>2. m < ic.rx[1].m \/ (m = ic.rx[1].m /\ from + 1 < ic.rx[1].i)
      <4> HIDE DEF m, from
      <4>1. QED  BY <2>2, <2>3, <2>4, <3>1
    <3>3. QED  BY <1>11, <3>2 DEF Before
  <2>6. \E j \in DOMAIN ic.rx : j < 1 /\ ic.rx[j] = Byte(m, from + 1)
    <3> HIDE DEF m, from
    <3>1. QED  BY <1>1, <1>2, <1>4, <1>12, <2>2, <2>5, FifoDown DEF m
  <2>7. QED  BY <1>4, <2>6
<1>16. ASSUME NEW k \in 1..n PROVE ic.rx[k] = Byte(m, from + k)
  <2>1. CASE k = 1  BY <1>14, <1>15, <2>1
  <2>2. CASE k # 1
    <3>1. /\ from + k \in 1..msgs[m].len /\ from + k \in Nat /\ k \in 1..L /\ 1 \in 1..L
          /\ ~Stored(m, from + k) /\ 1 \in 1..n
      BY <1>14
    <3>2. k \in Nat /\ 1 < k /\ from \in Nat  BY <1>3, <1>4, <2>2, <3>1
    <3>3. ic.rx[1].m = m /\ ic.rx[1].i = from + 1  BY <1>11, <1>15, <3>1
    <3>4. \A j \in 1..L : 1 < j =>
             /\ Before(ic.rx[1], ic.rx[j])
             /\ ic.rx[j].m = m => ic.rx[j].i - (from + 1) = j - 1
      <4>1. \A j \in 1..L : 1 < j =>
               /\ Before(ic.rx[1], ic.rx[j])
               /\ ic.rx[1].m = ic.rx[j].m => ic.rx[j].i - ic.rx[1].i = j - 1
        BY <1>4, <1>12, <3>1 DEF FifoIsRead
      <4> HIDE DEF m, from
      <4>2. QED  BY <3>3, <4>1
    <3>5. ic.rx[k].m \in Nat /\ ic.rx[k].i \in Nat /\ ic.rx[k] = Byte(ic.rx[k].m, ic.rx[k].i)
      BY <1>13, <3>1
    <3>6. CASE ic.rx[k].m = m
      <4>1. ic.rx[k].i - (from + 1) = k - 1  BY <3>1, <3>2, <3>4, <3>6
      <4>2. ic.rx[k].i = from + k
        <5> HIDE DEF from
        <5>1. QED  BY <3>2, <3>5, <4>1
      <4>3. QED  BY <3>5, <3>6, <4>2
    <3>7. CASE ic.rx[k].m # m
      <4>1. m < ic.rx[k].m
        <5>1. ~(ic.rx[k].m < m)  BY <1>13, <3>1
        <5>2. QED  BY <1>2, <3>5, <3>7, <5>1
      <4>2. Before(Byte(m, from + k), ic.rx[k])  BY <1>11, <4>1 DEF Before
      <4>3. PICK j \in DOMAIN ic.rx : j < k /\ ic.rx[j] = Byte(m, from + k)
        <5>1. PICK i \in 1..msgs[m].len : i = from + k  BY <3>1
        <5>2. ~Stored(m, i) /\ Before(Byte(m, i), ic.rx[k]) /\ k \in DOMAIN ic.rx
          BY <1>4, <3>1, <4>2, <5>1
        <5>3. \E j \in DOMAIN ic.rx : j < k /\ ic.rx[j] = Byte(m, i)
          BY <1>1, <1>2, <1>12, <5>2, FifoDown
        <5>4. QED  BY <5>1, <5>3
      <4>4. j \in 1..L /\ ic.rx[j].m = m /\ ic.rx[j].i = from + k  BY <1>4, <1>11, <4>3
      <4>5. CASE j = 1
        <5>1. from + 1 = from + k  BY <3>3, <4>4, <4>5
        <5> HIDE DEF from
        <5>2. QED  BY <3>2, <5>1
      <4>6. CASE j # 1
        <5>1. 1 < j /\ j \in Nat  BY <1>4, <4>4, <4>6
        <5>2. (from + k) - (from + 1) = j - 1
          <6>1. ic.rx[j].i - (from + 1) = j - 1  BY <3>4, <4>4, <5>1
          <6> HIDE DEF from
          <6>2. QED  BY <4>4, <6>1
        <5> HIDE DEF from
        <5>3. QED  BY <3>2, <4>3, <5>1, <5>2
      <4>7. QED  BY <4>5, <4>6
    <3>8. QED  BY <3>6, <3>7
  <2>3. QED  BY <2>1, <2>2
<1>17. \A p \in 1..Len(msgs) : \A i \in 1..msgs[p].len :
          /\ Stored(p, i) <=> p < m \/ (p = m /\ i <= from)
          /\ Stored(p, i)' <=> p < m \/ (p = m /\ i <= from + n)
  BY <1>10
<1>18. ASSUME NEW p \in 1..Len(msgs), NEW i \in 1..msgs[p].len, Stored(p, i) PROVE Stored(p, i)'
  <2>1. i \in Nat
    <3>1. msgs[p].len \in Nat  BY MsgAt DEF IInv
    <3>2. QED  BY <3>1
  <2>2. p < m \/ (p = m /\ i <= from)  BY <1>17, <1>18
  <2>3. i <= from => i <= from + n  BY <1>3, <1>5, <2>1
  <2>4. QED  BY <1>17, <2>2, <2>3
<1>19. ASSUME NEW k \in 1..(L - n)
       PROVE  \E p \in 1..Len(msgs) : \E i \in 1..msgs[p].len :
                 ic'.rx[k] = Byte(p, i) /\ ~Stored(p, i)'
  <2>1. n + k \in 1..L /\ ic'.rx[k] = ic.rx[n + k] /\ n \in Nat /\ k \in Nat /\ k >= 1
    BY <1>4, <1>5, <1>9
  <2> DEFINE e == ic.rx[n + k]
  <2>2. /\ e.m \in 1..Len(msgs) /\ e.i \in 1..msgs[e.m].len /\ e = Byte(e.m, e.i)
        /\ e.m \in Nat /\ e.i \in Nat /\ ~(e.m < m \/ (e.m = m /\ e.i <= from))
    BY <1>13, <2>1
  <2>3. e.m = m => ~(e.i <= from + n)
    <3>1. SUFFICES ASSUME e.m = m, e.i <= from + n PROVE FALSE  OBVIOUS
    <3>2. CASE n = 0
      <4> HIDE DEF e, from
      <4>1. QED  BY <1>3, <2>2, <3>1, <3>2
    <3>3. CASE n # 0
      <4>1. 1 \in 1..n /\ 1 \in 1..L /\ 1 < n + k  BY <1>4, <1>5, <2>1, <3>3
      <4>2. ic.rx[1].m = m /\ ic.rx[1].i = from + 1  BY <1>11, <1>15, <4>1
      <4>3. ic.rx[1].m = e.m => e.i - ic.rx[1].i = (n + k) - 1
        BY <1>4, <1>12, <2>1, <4>1 DEF FifoIsRead
      <4>4. from \in Nat  BY <1>3
      <4> HIDE DEF e, from
      <4>5. e.i - (from + 1) = (n + k) - 1  BY <3>1, <4>2, <4>3
      <4>6. QED  BY <2>1, <2>2, <3>1, <4>4, <4>5
    <3>4. QED  BY <3>2, <3>3
  <2> HIDE DEF e
  <2>4. PICK p \in 1..Len(msgs) : p = e.m  BY <2>2
  <2>5. PICK i \in 1..msgs[p].len : i = e.i  BY <2>2, <2>4
  <2>6. ~(p < m \/ (p = m /\ i <= from + n))  BY <2>2, <2>3, <2>4, <2>5
  <2>7. ~Stored(p, i)'  BY <1>17, <2>6
  <2>8. QED  BY <2>1, <2>2, <2>4, <2>5, <2>7 DEF e
<1>20. ASSUME NEW k \in DOMAIN ic'.rx
       PROVE  /\ ic'.rx[k].rd /\ ~Stored(ic.rx[k].m, ic.rx[k].i)'
              /\ \E j \in DOMAIN wire' : wire'[j] = ic'.rx[k]
  <2>1. k \in 1..(L - n)  BY <1>9
  <2>2. n + k \in 1..L /\ ic'.rx[k] = ic.rx[n + k]  BY <1>9, <2>1
  <2>3. ic.rx[n + k].rd /\ \E j \in DOMAIN wire : wire[j] = ic.rx[n + k]
    BY <1>4, <1>12, <2>2 DEF FifoIsRead
  <2>4. PICK p \in 1..Len(msgs) : \E i \in 1..msgs[p].len : ic'.rx[k] = Byte(p, i) /\ ~Stored(p, i)'
    BY <1>19, <2>1
  <2>5. PICK i \in 1..msgs[p].len : ic'.rx[k] = Byte(p, i) /\ ~Stored(p, i)'  BY <2>4
  <2>6. ic'.rx[k].m = p /\ ic'.rx[k].i = i  BY <1>11, <2>5
  <2>7. QED  BY <1>1, <2>2, <2>3, <2>5, <2>6
<1>21. ASSUME NEW j \in DOMAIN ic'.rx, NEW k \in DOMAIN ic'.rx, j < k
       PROVE  /\ Before(ic'.rx[j], ic'.rx[k])
              /\ ic'.rx[j].m = ic'.rx[k].m => ic'.rx[k].i - ic'.rx[j].i = k - j
  <2>1. /\ n + j \in 1..L /\ ic'.rx[j] = ic.rx[n + j] /\ n + k \in 1..L /\ ic'.rx[k] = ic.rx[n + k]
    BY <1>9
  <2>2. j \in Nat /\ k \in Nat /\ n \in Nat  BY <1>4, <1>5, <1>9
  <2>3. n + j < n + k /\ (n + k) - (n + j) = k - j  BY <1>21, <2>2
  <2>4. /\ Before(ic.rx[n + j], ic.rx[n + k])
        /\ ic.rx[n + j].m = ic.rx[n + k].m => ic.rx[n + k].i - ic.rx[n + j].i = (n + k) - (n + j)
    BY <1>4, <1>12, <2>1, <2>3 DEF FifoIsRead
  <2>5. QED  BY <2>1, <2>3, <2>4
<1>22. ASSUME NEW j \in DOMAIN wire', wire'[j].rd, ~Stored(wire[j].m, wire[j].i)'
       PROVE  \E k \in DOMAIN ic'.rx : ic'.rx[k] = wire'[j]
  <2>1. j \in DOMAIN wire /\ wire'[j] = wire[j]  BY <1>1, <1>22
  <2>2. IsByte(wire[j])  BY <1>12, <2>1, WireIs
  <2>3. PICK p \in 1..Len(msgs) : wire[j].m = p /\ wire[j].i \in 1..msgs[p].len /\ wire[j] = Byte(p, wire[j].i)
    BY <2>2 DEF IsByte
  <2>4. PICK i \in 1..msgs[p].len : wire[j].i = i  BY <2>3
  <2>5. ~Stored(p, i)'  BY <1>22, <2>1, <2>3, <2>4
  <2>6. ~Stored(p, i)  BY <1>18, <2>5
  <2>7. PICK k \in 1..L : ic.rx[k] = wire[j]
    <3>1. wire[j].rd /\ ~Stored(wire[j].m, wire[j].i)  BY <1>22, <2>1, <2>3, <2>4, <2>6
    <3>2. QED  BY <1>4, <1>12, <2>1, <3>1 DEF FifoIsRead
  <2>8. ~(k \in 1..n)
    <3>1. SUFFICES ASSUME k \in 1..n PROVE FALSE  OBVIOUS
    <3>2. ic.rx[k] = Byte(m, from + k)  BY <1>16, <3>1
    <3>3. p = m /\ i = from + k  BY <1>11, <2>3, <2>4, <2>7, <3>2
    <3>4. from + k <= from + n  BY <1>3, <1>5, <3>1
    <3> HIDE DEF m, from
    <3>5. Stored(p, i)'  BY <1>17, <3>3, <3>4
    <3>6. QED  BY <2>5, <3>5
  <2>9. k - n \in 1..(L - n) /\ n + (k - n) = k  BY <1>4, <1>5, <2>8
  <2>10. ic'.rx[k - n] = ic.rx[k]  BY <1>9, <2>9
  <2>11. QED  BY <1>9, <2>1, <2>7, <2>9, <2>10
<1>23. FifoIsRead'
  BY <1>20, <1>21, <1>22 DEF FifoIsRead, Before
<1>24. got' = got \cup {<<<<m, from + k>>, ic.rx[k]>> : k \in 1..n}
  BY <1>1, <1>8 DEF Clean, Armed
<1>25. ASSUME NEW p \in 1..Len(msgs), NEW i \in 1..msgs[p].len, msgs[p].rd, Stored(p, i)'
       PROVE  <<<<p, i>>, Byte(p, i)>> \in got' /\ \E j \in DOMAIN wire : wire[j] = Byte(p, i)
  <2>1. CASE Stored(p, i)  BY <1>12, <1>24, <1>25, <2>1 DEF GotIsStored
  <2>2. CASE ~Stored(p, i)
    <3>1. p = m /\ i <= from + n /\ ~(i <= from)  BY <1>17, <1>25, <2>2
    <3>2. i \in Nat
      <4>1. msgs[p].len \in Nat  BY MsgAt DEF IInv
      <4>2. QED  BY <4>1
    <3>3. i - from \in 1..n /\ from + (i - from) = i
      <4>1. from \in Nat /\ n \in Nat  BY <1>3, <1>5
      <4> HIDE DEF from
      <4>2. QED  BY <3>1, <3>2, <4>1
    <3>4. PICK k \in 1..n : k = i - from /\ from + k = i  BY <3>3
    <3>5. ic.rx[k] = Byte(p, i) /\ k \in 1..L
      <4>1. ic.rx[k] = Byte(m, from + k) /\ k \in 1..L  BY <1>14, <1>16
      <4>2. QED  BY <3>1, <3>4, <4>1
    <3>6. <<<<m, from + k>>, ic.rx[k]>> \in got'  BY <1>24
    <3>7. \E j \in DOMAIN wire : wire[j] = ic.rx[k]  BY <1>4, <1>12, <3>5 DEF FifoIsRead
    <3>8. QED  BY <3>1, <3>4, <3>5, <3>6, <3>7
  <2>3. QED  BY <2>1, <2>2
<1>26. ASSUME NEW g \in got'
       PROVE  \E p \in 1..Len(msgs) : \E i \in 1..msgs[p].len :
                 msgs[p].rd /\ Stored(p, i)' /\ g = <<<<p, i>>, Byte(p, i)>>
  <2>1. CASE g \in got
    <3>1. PICK p \in 1..Len(msgs) : \E i \in 1..msgs[p].len :
                 msgs[p].rd /\ Stored(p, i) /\ g = <<<<p, i>>, Byte(p, i)>>
      BY <1>12, <2>1 DEF GotIsStored
    <3>2. PICK i \in 1..msgs[p].len : msgs[p].rd /\ Stored(p, i) /\ g = <<<<p, i>>, Byte(p, i)>>
      BY <3>1
    <3>3. Stored(p, i)'  BY <1>18, <3>2
    <3>4. QED  BY <3>2, <3>3
  <2>2. CASE g \in {<<<<m, from + k>>, ic.rx[k]>> : k \in 1..n}
    <3>1. PICK k \in 1..n : g = <<<<m, from + k>>, ic.rx[k]>>  BY <2>2
    <3>2. ic.rx[k] = Byte(m, from + k) /\ from + k \in 1..msgs[m].len  BY <1>14, <1>16
    <3>3. from + k <= from + n  BY <1>3, <1>5
    <3>4. PICK p \in 1..Len(msgs) : p = m  BY <1>2
    <3>5. PICK i \in 1..msgs[p].len : i = from + k  BY <3>2, <3>4
    <3>6. Stored(p, i)'
      <4> HIDE DEF m, from
      <4>1. QED  BY <1>17, <3>3, <3>4, <3>5
    <3>7. g = <<<<p, i>>, Byte(p, i)>> /\ msgs[p].rd  BY <1>1, <3>1, <3>2, <3>4, <3>5
    <3>8. QED  BY <3>6, <3>7
  <2>3. QED  BY <1>24, <2>1, <2>2
<1>27. GotIsStored'
  <2>1. \A p \in 1..Len(msgs') : \A i \in 1..msgs'[p].len : msgs'[p].rd /\ Stored(p, i)' =>
           <<<<p, i>>, Byte(p, i)'>> \in got' /\ \E j \in DOMAIN wire' : wire'[j] = Byte(p, i)'
    <3>1. msgs' = msgs /\ wire' = wire  BY <1>1
    <3>2. TAKE p \in 1..Len(msgs')
    <3>3. TAKE i \in 1..msgs'[p].len
    <3>4. HAVE msgs'[p].rd /\ Stored(p, i)'
    <3>5. <<<<p, i>>, Byte(p, i)>> \in got' /\ \E j \in DOMAIN wire : wire[j] = Byte(p, i)
      BY <1>25, <3>1, <3>4
    <3>6. QED  BY <1>11, <3>1, <3>5
  <2>2. \A g \in got' : \E p \in 1..Len(msgs') : \E i \in 1..msgs'[p].len :
           msgs'[p].rd /\ Stored(p, i)' /\ g = <<<<p, i>>, Byte(p, i)'>>
    BY <1>1, <1>11, <1>26
  <2>3. QED  BY <2>1, <2>2 DEF GotIsStored
<1>28. FlowIsSent'  BY <1>1, <1>6, <1>12, SameFlow
<1>29. Supplied' /\ Drained' /\ StopIsLast'
  <2>1. CASE n < left
    <3>1. Len(ic'.rx) = 0  BY <1>4, <1>5, <1>9, <2>1
    <3>2. ic'.rx = <<>>
      <4>1. QED  BY <1>9, <3>1, EmptySeq
    <3>3. QED  BY <1>1, <1>6, <1>7, <1>8, <2>1, <3>2, ReadOver
  <2>2. CASE ~(n < left)
    <3>1. isr' = isr  BY <1>7, <2>2
    <3>2. Supplied'  BY <1>1, <1>6, <1>8, <3>1 DEF Parts, Supplied, AllPumped
    <3>3. Drained'
      <4>1. L <= lag + MaxLag  BY <1>1, <1>8 DEF Parts, Drained, L
      <4>2. lag \in Nat /\ MaxLag \in Nat  BY <1>12, SilanI2cAssumption DEF Histories
      <4>3. Len(ic'.rx) <= lag + MaxLag  BY <1>4, <1>5, <1>9, <4>1, <4>2
      <4>4. QED  BY <1>1, <3>1, <4>3 DEF Drained
    <3>4. StopIsLast'
      <4>1. dev.done => ic'.rx = <<>>
        <5>1. SUFFICES ASSUME dev.done PROVE ic'.rx = <<>>  OBVIOUS
        <5>2. ic.rx = <<>>  BY <1>8, <5>1 DEF Parts, StopIsLast
        <5>3. L = 0  BY <5>2 DEF L
        <5>4. Len(ic'.rx) = 0 /\ ic'.rx \in Seq(Entry)  BY <1>5, <1>9, <5>3
        <5>5. QED  BY <5>4, EmptySeq
      <4>2. QED  BY <1>1, <1>6, <1>8, <3>1, <4>1 DEF Parts, StopIsLast, AllPumped
    <3>5. QED  BY <3>2, <3>3, <3>4
  <2>3. QED  BY <2>1, <2>2
<1>30. QED  BY <1>23, <1>27, <1>28, <1>29 DEF Parts

(* While a call is clean, every step keeps its parts up. *)
LEMMA NextParts == ASSUME Prompt, IInv, CInv, Next, Clean' PROVE Parts'
<1> USE DEF Clean, Armed
<1>1. ASSUME NEW call \in Calls, XferBegin(call) PROVE FALSE  BY <1>1 DEF XferBegin
<1>2. CASE Caller \/ Signalled
  <2>1. i2c_silan_xfer_init
    BY <1>2 DEF Caller, BusBusy, Completed, TimedOut, reset_i2c_bus, Signalled, Return
  <2>2. QED  BY <2>1, ArmClean
<1>3. CASE HwAbort
  <2>1. "TX_ABRT" \in ic'.raw  BY <1>3 DEF HwAbort, IInv, IcType
  <2>2. QED  BY <2>1
<1>4. CASE IsrAbort \/ PumpFails
  <2>1. dev'.cmd_err \/ dev'.msg_err  BY <1>4 DEF IsrAbort, PumpFails, IInv, DevType
  <2>2. QED  BY <2>1
<1>5. CASE HwByte \/ HwStop  BY <1>5, ByteClean, StopClean
<1>6. CASE IsrEnter \/ ReadMessage \/ ReadSkips \/ ReadEnds \/ PumpMessage \/ PumpEnds \/ IsrEnd
  BY <1>6, EnterClean, ReadClean, ReadSkipsClean, ReadEndsClean, PumpClean, PumpEndsClean, EndClean
<1>7. QED  BY <1>1, <1>2, <1>3, <1>4, <1>5, <1>6 DEF Next, i2c_silan_isr

(* What is in Places. *)
LEMMA InPlaces ==
    ASSUME NEW rd, NEW x
    PROVE  x \in Places(rd) <=>
              \E m \in 1..Len(msgs) : \E i \in 1..msgs[m].len : msgs[m].rd \in rd /\ x = <<m, i>>
  BY DEF Places

(* When all is pumped, sent and drained, all is executed. *)
LEMMA AllExecuted ==
    ASSUME IInv, Histories, FlowIsSent, FifoIsRead, GotIsStored, AllPumped,
           ic.tx = <<>>, ic.rx = <<>>
    PROVE  Executed
<1>1. wire \in Seq(Entry) /\ DOMAIN wire = 1..Len(wire) /\ Len(wire) \in Nat  BY FlowParts
<1>2. Flow = wire  BY <1>1 DEF Flow
<1>3. Len(msgs) \in Nat /\ dev.msg_write_idx \in Nat /\ msgs \in Seq(Msg)
  BY DEF IInv, CallerType, DevType
<1>4. ASSUME NEW m \in 1..Len(msgs), NEW i \in 1..msgs[m].len
      PROVE  \E k \in DOMAIN wire : wire[k] = Byte(m, i)
  <2>1. Sent(m, i)  BY <1>3 DEF Sent, AllPumped
  <2>2. QED  BY <1>2, <2>1 DEF FlowIsSent
<1>5. \A m, i : Byte(m, i).m = m /\ Byte(m, i).i = i /\ Byte(m, i).rd = msgs[m].rd  BY DEF Byte
<1>6. {<<wire[k].m, wire[k].i>> : k \in DOMAIN wire} = Places(BOOLEAN)
  <2>1. ASSUME NEW k \in DOMAIN wire PROVE <<wire[k].m, wire[k].i>> \in Places(BOOLEAN)
    <3>1. IsByte(wire[k])  BY WireIs
    <3>2. wire[k].m \in 1..Len(msgs) /\ wire[k].i \in 1..msgs[wire[k].m].len  BY <3>1 DEF IsByte
    <3>3. msgs[wire[k].m].rd \in BOOLEAN  BY <3>2, MsgAt DEF IInv
    <3>4. QED  BY <3>2, <3>3, InPlaces
  <2>2. ASSUME NEW x \in Places(BOOLEAN)
        PROVE  x \in {<<wire[k].m, wire[k].i>> : k \in DOMAIN wire}
    <3>1. PICK m \in 1..Len(msgs) : \E i \in 1..msgs[m].len : x = <<m, i>>  BY InPlaces
    <3>2. PICK i \in 1..msgs[m].len : x = <<m, i>>  BY <3>1
    <3>3. PICK k \in DOMAIN wire : wire[k] = Byte(m, i)  BY <1>4
    <3>4. QED  BY <1>5, <3>2, <3>3
  <2>3. QED  BY <2>1, <2>2
<1>7. ASSUME NEW k \in 1..(Len(wire) - 1) PROVE Before(wire[k], wire[k + 1])
  <2>1. k \in DOMAIN wire /\ k + 1 \in DOMAIN wire /\ k < k + 1  BY <1>1
  <2>2. QED  BY <2>1, WireIs
<1>8. ASSUME NEW m \in 1..Len(msgs), NEW i \in 1..msgs[m].len, msgs[m].rd PROVE Stored(m, i)
  <2>1. PICK k \in DOMAIN wire : wire[k] = Byte(m, i)  BY <1>4
  <2>2. wire[k].rd /\ wire[k].m = m /\ wire[k].i = i  BY <1>5, <1>8, <2>1
  <2>3. DOMAIN ic.rx = {}  OBVIOUS
  <2>4. QED  BY <2>2, <2>3 DEF FifoIsRead
<1>9. got = {<<p, Byte(p[1], p[2])>> : p \in Places({TRUE})}
  <2>1. ASSUME NEW g \in got PROVE g \in {<<p, Byte(p[1], p[2])>> : p \in Places({TRUE})}
    <3>1. PICK m \in 1..Len(msgs) : \E i \in 1..msgs[m].len : msgs[m].rd /\ g = <<<<m, i>>, Byte(m, i)>>
      BY DEF GotIsStored
    <3>2. PICK i \in 1..msgs[m].len : msgs[m].rd /\ g = <<<<m, i>>, Byte(m, i)>>  BY <3>1
    <3>3. msgs[m].rd \in {TRUE}
      <4>1. msgs[m].rd \in BOOLEAN  BY MsgAt DEF IInv
      <4>2. QED  BY <3>2, <4>1
    <3>4. PICK p \in Places({TRUE}) : p = <<m, i>>  BY <3>3, InPlaces
    <3>5. p[1] = m /\ p[2] = i  BY <3>4
    <3>6. g = <<p, Byte(p[1], p[2])>>  BY <3>2, <3>4, <3>5
    <3>7. QED  BY <3>6
  <2>2. ASSUME NEW p \in Places({TRUE}) PROVE <<p, Byte(p[1], p[2])>> \in got
    <3>0. \A rd : p \in Places(rd) => \E m \in 1..Len(msgs) : \E i \in 1..msgs[m].len :
             msgs[m].rd \in rd /\ p = <<m, i>>
      BY InPlaces
    <3>1. PICK m \in 1..Len(msgs) : \E i \in 1..msgs[m].len : msgs[m].rd \in {TRUE} /\ p = <<m, i>>
      BY <3>0
    <3>2. PICK i \in 1..msgs[m].len : msgs[m].rd \in {TRUE} /\ p = <<m, i>>  BY <3>1
    <3>3. Stored(m, i) /\ msgs[m].rd  BY <1>8, <3>2
    <3>4. <<<<m, i>>, Byte(m, i)>> \in got  BY <3>3 DEF GotIsStored
    <3>5. p[1] = m /\ p[2] = i  BY <3>2
    <3>6. QED  BY <3>2, <3>4, <3>5
  <2>3. QED  BY <2>1, <2>2
<1>10. QED  BY <1>6, <1>7, <1>9 DEF Executed, Before

(* A call that succeeds after a quiet start has been clean to the end. *)
LEMMA NumClean ==
    ASSUME IInv, CInv, Completed, quiet, ret' = "num", pc' = "idle"
    PROVE  /\ Executed /\ ic.raw = {} /\ ~ic.active /\ ic.tx = <<>> /\ isr.pc = "off"
           /\ ic' = Disabled
<1>1. pc = "waiting" /\ ~Pending /\ dev.done /\ ~dev.msg_err /\ ~dev.cmd_err /\ ic' = Disabled
  BY DEF Completed, Return
<1>2. INTR_STAT = {} /\ isr.pc = "off"  BY <1>1 DEF Pending
<1>3. Armed  BY <1>1 DEF Armed
<1>4. ic.raw = {}  BY <1>2, <1>3 DEF INTR_STAT, CInv, Listens, IInv, IcType
<1>5. Clean /\ Parts  BY <1>3, <1>4 DEF Clean, CInv, Parts
<1>6. AllPumped /\ ic.tx = <<>> /\ ~ic.active /\ ic.rx = <<>>
  BY <1>1, <1>5 DEF Parts, StopIsLast
<1>7. Executed  BY <1>5, <1>6, AllExecuted DEF Parts, CInv
<1>8. QED  BY <1>1, <1>2, <1>4, <1>6, <1>7

(* What a successful call has done stays, and nothing happens until the next  *)
(* call.                                                                     *)
LEMMA NextSuccess == ASSUME IInv, CInv, Next PROVE AfterSuccess'
<1> SUFFICES ASSUME Succeeded', quiet' PROVE (Executed /\ Quiet /\ INTR_STAT = {} /\ isr.pc = "off")'
  BY DEF AfterSuccess
<1>0. pc' = "idle" /\ ret' = "num"  BY DEF Succeeded
<1>1. CASE Completed
  <2>1. UNCHANGED <<msgs, isr, quiet, wire, got>>  BY <1>0, <1>1 DEF Completed, Return
  <2>2. /\ Executed /\ ic.raw = {} /\ ~ic.active /\ ic.tx = <<>> /\ isr.pc = "off"
        /\ ic' = Disabled
    BY <1>0, <1>1, <2>1, NumClean
  <2>3. ic'.on = FALSE /\ ic'.raw = {} /\ ic'.active = ic.active /\ ic'.tx = <<>> /\ ic'.rx = <<>>
    <3>1. ic' = [on |-> FALSE, tar |-> ic.tar, mask |-> ic.mask, raw |-> ic.raw,
                 active |-> ic.active, tx |-> <<>>, rx |-> <<>>]
      BY <2>2, DisabledIs
    <3>2. QED  BY <2>2, <3>1
  <2>4. Executed'  BY <2>1, <2>2 DEF Executed, Places, Byte
  <2>5. Quiet'  BY <2>2, <2>3 DEF Quiet
  <2>6. INTR_STAT' = {}  BY <2>3 DEF INTR_STAT, Level
  <2>7. QED  BY <2>1, <2>2, <2>4, <2>5, <2>6
<1>2. CASE ~Completed
  <2>1. pc = "idle"
    BY <1>0, <1>2 DEF Next, XferBegin, Caller, BusBusy, i2c_silan_xfer_init, TimedOut, reset_i2c_bus,
       Signalled, Return, i2c_silan_isr, IsrEnter, IsrAbort, ReadMessage, ReadSkips, ReadEnds,
       PumpMessage, PumpEnds, PumpFails, IsrEnd, HwByte, HwAbort, HwStop
  <2>2. i2c_silan_isr \/ HwByte \/ HwAbort \/ HwStop
    BY <1>0, <1>2, <2>1 DEF Next, XferBegin, Caller, BusBusy, i2c_silan_xfer_init, TimedOut,
       reset_i2c_bus, Signalled
  <2>3. ret = "num" /\ quiet
    BY <1>0, <2>2 DEF i2c_silan_isr, IsrEnter, IsrAbort, ReadMessage, ReadSkips, ReadEnds,
       PumpMessage, PumpEnds, PumpFails, IsrEnd, HwByte, HwAbort, HwStop
  <2>4. Quiet /\ INTR_STAT = {} /\ isr.pc = "off"
    BY <2>1, <2>3 DEF CInv, AfterSuccess, Succeeded
  <2>5. ~i2c_silan_isr
    BY <2>4 DEF i2c_silan_isr, IsrEnter, IsrAbort, ReadMessage, ReadSkips, ReadEnds,
       PumpMessage, PumpEnds, PumpFails, IsrEnd
  <2>6. ~(HwByte \/ HwAbort \/ HwStop)  BY <2>4 DEF Quiet, HwByte, HwAbort, HwStop
  <2>7. QED  BY <2>2, <2>5, <2>6
<1>3. QED  BY <1>1, <1>2

(* Every step keeps what is said of calls that began quiet. *)
LEMMA NextClean == ASSUME Prompt, IInv, CInv, [Next]_vars PROVE CInv'
<1>1. CASE Next
  <2>1. Histories' /\ Listens'  BY <1>1, NextHistories, NextListens DEF CInv
  <2>2. AfterSuccess'  BY <1>1, NextSuccess
  <2>3. Clean' => Parts'  BY <1>1, NextParts
  <2>4. QED  BY <2>1, <2>2, <2>3 DEF CInv, Parts
<1>2. CASE UNCHANGED vars
  <2> USE <1>2 DEF vars
  <2>1. Histories' /\ Listens' /\ (Clean' <=> Clean)
    BY DEF CInv, Histories, Listens, Armed, AllPumped, Clean
  <2>2. AfterSuccess'
    <3>1. Executed' = Executed  BY DEF Executed, Places, Byte
    <3>2. Quiet' = Quiet /\ INTR_STAT' = INTR_STAT  BY DEF Quiet, INTR_STAT, Level
    <3>3. QED  BY <3>1, <3>2 DEF CInv, AfterSuccess, Succeeded
  <2>3. (\A m, i : Stored(m, i)' <=> Stored(m, i)) /\ (\A m, i : Sent(m, i)' <=> Sent(m, i))
        /\ (\A m, i : Byte(m, i)' = Byte(m, i)) /\ Flow' = Flow
    BY DEF Stored, Sent, Byte, Flow
  <2>4. \A e : IsByte(e)' <=> IsByte(e)  BY <2>3 DEF IsByte
  <2>5. Parts => FlowIsSent'  BY <2>3, <2>4 DEF Parts, FlowIsSent, Before
  <2>6. Parts => FifoIsRead' /\ GotIsStored'  BY <2>3 DEF Parts, FifoIsRead, GotIsStored, Before
  <2>7. Parts => Supplied' /\ Drained' /\ StopIsLast'
    BY DEF Parts, Supplied, Drained, StopIsLast, AllPumped
  <2>8. QED  BY <2>1, <2>2, <2>5, <2>6, <2>7 DEF CInv, Parts
<1>3. QED  BY <1>1, <1>2

(* With a prompt handler, a call that finds the controller quiet and reports  *)
(* success has put every byte of its messages on the bus, once and in order,  *)
(* has stored every byte read where it belongs, and leaves the controller     *)
(* quiet; so does a reset.                                                   *)
THEOREM QuietCallsExecute == ASSUME Prompt PROVE Spec => [](QuietCallExecuted /\ LeavesQuiet)
<1>1. IInv /\ CInv => QuietCallExecuted /\ LeavesQuiet
  BY DEF CInv, AfterSuccess, Succeeded, QuietCallExecuted, LeavesQuiet, IInv, AfterReturn, WasReset
<1>2. IInv /\ CInv /\ [Next]_vars => (IInv /\ CInv)'  BY NextInv, NextClean
<1>3. Init => IInv /\ CInv  BY InitInv, InitClean
<1>4. QED  BY <1>1, <1>2, <1>3, PTL DEF Spec

-----------------------------------------------------------------------------
(* The handler ends: what Returns rests on.                                  *)

\* The messages that the two loops of the handler have not passed, and the most
\* steps that the handler can still make.
ToPump == Len(msgs) + 1 - dev.msg_write_idx
ToRead == Len(msgs) + 1 - dev.msg_read_idx
StepsLeft ==
    CASE isr.pc = "off"  -> 0
      [] isr.pc = "end"  -> 1
      [] isr.pc = "pump" -> 2 + ToPump
      [] isr.pc = "read" -> 3 + ToPump + ToRead

\* A step taken while the handler runs is a step of the handler that brings its
\* end nearer, or leaves the handler, the caller and the messages alone.
NearsItsEnd ==
    isr.pc # "off" => StepsLeft' < StepsLeft \/ UNCHANGED <<pc, msgs, dev, isr>>

(* A handler that runs has as many steps left as the two loops have messages. *)
LEMMA StepsLeftIs ==
    ASSUME IInv
    PROVE  /\ ToPump \in 0..Len(msgs) /\ ToRead \in 0..Len(msgs) /\ Len(msgs) \in Nat
           /\ StepsLeft \in 0..(2 * Len(msgs) + 3)
           /\ isr.pc # "off" => StepsLeft >= 1
<1>1. /\ Len(msgs) \in Nat /\ isr.pc \in {"off", "read", "pump", "end"}
      /\ dev.msg_write_idx \in 1..(Len(msgs) + 1) /\ dev.msg_read_idx \in 1..(Len(msgs) + 1)
  BY DEF IInv, CallerType, DevType, IsrType
<1>2. ToPump \in 0..Len(msgs) /\ ToRead \in 0..Len(msgs)  BY <1>1 DEF ToPump, ToRead
<1>3. QED  BY <1>1, <1>2 DEF StepsLeft

(* Every step of the handler takes it on in its loop or out of it. *)
LEMMA HandlerNears ==
    ASSUME IInv, i2c_silan_isr, isr.pc # "off" PROVE StepsLeft' < StepsLeft
<1>1. /\ IsrType /\ DevType /\ Len(msgs) \in Nat
      /\ ToPump \in 0..Len(msgs) /\ ToRead \in 0..Len(msgs)
  BY StepsLeftIs DEF IInv
<1>2. \A stat : Goes(stat \ {"RX_FULL"}) \in {"pump", "end"}  BY DEF Goes
<1>0. ASSUME isr.pc = "read", msgs' = msgs, dev'.msg_write_idx = dev.msg_write_idx,
             \/ dev'.msg_read_idx = dev.msg_read_idx /\ isr'.pc \in {"pump", "end"}
             \/ dev'.msg_read_idx = dev.msg_read_idx + 1 /\ isr'.pc = "read"
      PROVE  StepsLeft' < StepsLeft
  <2>1. StepsLeft = 3 + ToPump + ToRead  BY <1>0 DEF StepsLeft
  <2>2. ToPump' = ToPump  BY <1>0 DEF ToPump
  <2>3. CASE isr'.pc = "end"
    <3>1. StepsLeft' = 1  BY <2>3 DEF StepsLeft
    <3>2. QED  BY ONLY <1>1, <2>1, <3>1
  <2>4. CASE isr'.pc = "pump"
    <3>1. StepsLeft' = 2 + ToPump  BY <2>2, <2>4 DEF StepsLeft
    <3>2. QED  BY ONLY <1>1, <2>1, <3>1
  <2>5. CASE isr'.pc = "read"
    <3>1. StepsLeft' = 3 + ToPump + ToRead'  BY <2>2, <2>5 DEF StepsLeft
    <3>2. ToRead' = ToRead - 1  BY <1>1, <1>0, <2>5 DEF ToRead, DevType
    <3>3. QED  BY ONLY <1>1, <2>1, <3>1, <3>2
  <2>6. QED  BY <1>0, <2>3, <2>4, <2>5
<1>a. ASSUME isr.pc = "pump", msgs' = msgs,
             \/ dev'.msg_write_idx = dev.msg_write_idx /\ isr'.pc = "end"
             \/ dev'.msg_write_idx = dev.msg_write_idx + 1 /\ isr'.pc = "pump"
      PROVE  StepsLeft' < StepsLeft
  <2>1. StepsLeft = 2 + ToPump  BY <1>a DEF StepsLeft
  <2>2. CASE isr'.pc = "end"
    <3>1. StepsLeft' = 1  BY <2>2 DEF StepsLeft
    <3>2. QED  BY ONLY <1>1, <2>1, <3>1
  <2>3. CASE isr'.pc = "pump"
    <3>1. StepsLeft' = 2 + ToPump'  BY <2>3 DEF StepsLeft
    <3>2. ToPump' = ToPump - 1  BY <1>1, <1>a, <2>3 DEF ToPump, DevType
    <3>3. QED  BY ONLY <1>1, <2>1, <3>1, <3>2
  <2>4. QED  BY <1>a, <2>2, <2>3
<1> USE DEF StepsLeft, ToPump, ToRead, IsrType, DevType
<1>3. CASE ReadMessage
  <2> DEFINE m == dev.msg_read_idx
             left == IF dev.reading THEN dev.rleft ELSE msgs[m].len
             n == IF left < Len(ic.rx) THEN left ELSE Len(ic.rx)
  <2>1. isr.pc = "read" /\ msgs' = msgs  BY <1>3 DEF ReadMessage
  <2>2. \/ /\ dev' = [dev EXCEPT !.reading = TRUE, !.rleft = left - n]
           /\ isr' = [isr EXCEPT !.pc = Goes(isr.stat \ {"RX_FULL"})]
        \/ /\ dev' = [dev EXCEPT !.reading = FALSE, !.msg_read_idx = m + 1]
           /\ isr' = isr
    BY <1>3 DEF ReadMessage
  <2>3. \/ /\ dev'.msg_write_idx = dev.msg_write_idx /\ dev'.msg_read_idx = dev.msg_read_idx
           /\ isr'.pc \in {"pump", "end"}
        \/ /\ dev'.msg_write_idx = dev.msg_write_idx /\ dev'.msg_read_idx = dev.msg_read_idx + 1
           /\ isr'.pc = "read"
    <3> HIDE DEF n, left
    <3>1. QED  BY <1>1, <1>2, <2>1, <2>2
  <2>4. QED  BY <1>1, <2>1, <2>3, <1>0
<1>4. CASE ReadSkips
  <2>1. /\ isr.pc = "read" /\ isr'.pc = "read" /\ msgs' = msgs
        /\ dev'.msg_write_idx = dev.msg_write_idx /\ dev'.msg_read_idx = dev.msg_read_idx + 1
    BY <1>1, <1>4 DEF ReadSkips
  <2>2. QED  BY <1>1, <2>1, <1>0
<1>5. CASE ReadEnds
  <2>1. /\ isr.pc = "read" /\ isr'.pc \in {"pump", "end"} /\ msgs' = msgs
        /\ dev'.msg_write_idx = dev.msg_write_idx /\ dev'.msg_read_idx = dev.msg_read_idx
    BY <1>1, <1>2, <1>5 DEF ReadEnds
  <2>2. QED  BY <1>1, <2>1, <1>0
<1>6. CASE PumpMessage
  <2> DEFINE m == dev.msg_write_idx
             left == IF dev.writing THEN dev.wleft ELSE msgs[m].len
             n == Least({left, Room(msgs[m].rd)})
  <2>1. isr.pc = "pump" /\ msgs' = msgs  BY <1>6 DEF PumpMessage
  <2>2. /\ dev' = [dev EXCEPT !.wleft = left - n, !.writing = n < left,
                              !.msg_write_idx = IF n < left THEN m ELSE m + 1]
        /\ isr' = [isr EXCEPT !.pc = IF n < left THEN "end" ELSE @]
    BY <1>6 DEF PumpMessage, Progress
  <2>3. \/ dev'.msg_write_idx = dev.msg_write_idx /\ isr'.pc = "end"
        \/ dev'.msg_write_idx = dev.msg_write_idx + 1 /\ isr'.pc = "pump"
    <3> HIDE DEF n, left
    <3>1. QED  BY <1>1, <2>1, <2>2
  <2>4. QED  BY <1>a, <2>1, <2>3
<1>7. CASE PumpEnds  BY <1>1, <1>7 DEF PumpEnds
<1>8. CASE PumpFails  BY <1>1, <1>8 DEF PumpFails
<1>9. CASE IsrEnd  BY <1>1, <1>9 DEF IsrEnd, IsrOff
<1>10. ~IsrEnter /\ ~IsrAbort  BY DEF IsrEnter, IsrAbort
<1>11. QED  BY <1>3, <1>4, <1>5, <1>6, <1>7, <1>8, <1>9, <1>10 DEF i2c_silan_isr

(* The caller waits for the handler, and the controller leaves it alone. *)
LEMMA NextNears == ASSUME IInv, [Next]_vars PROVE NearsItsEnd
<1> SUFFICES ASSUME isr.pc # "off" PROVE NearsItsEnd  BY DEF NearsItsEnd
<1>1. Pending  BY DEF Pending
<1>2. \A call \in Calls : ~XferBegin(call)  BY <1>1 DEF XferBegin
<1>3. ~Caller /\ ~Signalled
  BY <1>1 DEF Caller, Signalled, BusBusy, i2c_silan_xfer_init, Completed, TimedOut, reset_i2c_bus
<1>4. CASE HwByte \/ HwAbort \/ HwStop
  BY <1>4 DEF HwByte, HwAbort, HwStop, NearsItsEnd
<1>5. CASE UNCHANGED vars  BY <1>5 DEF vars, NearsItsEnd
<1>6. QED  BY <1>2, <1>3, <1>4, <1>5, HandlerNears DEF Next, NearsItsEnd

\* The handler ends within two steps for each message and three more.
HandlerBounded == StepsLeft \in 0..(2 * Len(msgs) + 3)

(* i2c_silan_isr always ends: whatever the status, the FIFOs, the messages,  *)
(* the errors and the bytes that move meanwhile are, its two loops pass each *)
(* message at most once, nothing makes a loop start again, and the caller    *)
(* makes no step before the end.                                             *)
THEOREM HandlerEnds == Spec => []HandlerBounded /\ [][NearsItsEnd]_vars
<1>1. IInv => HandlerBounded  BY StepsLeftIs DEF HandlerBounded
<1>2. IInv /\ [Next]_vars => [NearsItsEnd]_vars  BY NextNears
<1>3. QED  BY InitInv, NextInv, <1>1, <1>2, PTL DEF Spec

-----------------------------------------------------------------------------
(* Interrupts do not keep a sleeping caller from the CPU for ever: what is   *)
(* left of Returns but for fairness and the reset after a timeout.           *)

Bit(b) == IF b THEN 1 ELSE 0

\* What is left of the message that the handler goes on with.
LeftToPump ==
    IF AllPumped THEN 0 ELSE IF dev.writing THEN dev.wleft ELSE msgs[dev.msg_write_idx].len

\* The steps the controller can make before the handler writes again.
Transmits == 3 * Len(ic.tx) + 2 * Bit(ic.active) + Bit("STOP_DET" \in ic.raw)

\* Where the handler stands: it has come with something to do in a loop, or has
\* done it and is on its way out.
Standing ==
    CASE isr.pc = "pump" -> IF Len(ic.tx) < Depth THEN 0 ELSE 4
      [] isr.pc = "read" -> IF ic.rx # <<>> THEN 1 ELSE 5
      [] isr.pc = "off"  -> 2
      [] isr.pc = "end"  -> 3
Handles == 6 * (Len(ic.rx) + Bit("TX_EMPTY" \in ic.mask) + ToRead) + Standing

\* How far a call is from its last interrupt: numbers of falling weight.
Distance ==
    IF Clean THEN <<2, ToPump, LeftToPump, Transmits, Handles>>
             ELSE <<Bit(~dev.cmd_err /\ ~dev.msg_err), StepsLeft, Transmits, 0, 0>>
Lower(a, b) == \E k \in 1..5 : a[k] < b[k] /\ \A j \in 1..(k - 1) : a[j] = b[j]

\* While a call that began quiet sleeps, every step brings it nearer to its last
\* interrupt.
Sleeping == quiet /\ pc = "waiting"
BringsQuiet == Sleeping /\ Sleeping' => Lower(Distance', Distance)

\* A message that is begun is not finished, and the handler pumps only when
\* TX_EMPTY is enabled.
PumpsWhenAsked ==
    /\ dev.writing => dev.wleft >= 1
    /\ isr.pc = "pump" => "TX_EMPTY" \in isr.stat
    /\ isr.pc \in {"read", "pump"} /\ "TX_EMPTY" \in isr.stat => "TX_EMPTY" \in ic.mask

(* Initially the handler does not run. *)
LEMMA InitPumps == Init => PumpsWhenAsked
  BY DEF Init, DevStart, IsrOff, PumpsWhenAsked

(* Where the handler goes tells what it saw. *)
LEMMA GoesWhy ==
    ASSUME NEW stat
    PROVE  /\ Goes(stat) = "read" => "RX_FULL" \in stat
           /\ Goes(stat) = "pump" => "TX_EMPTY" \in stat
           /\ Goes(stat) = "end" => "RX_FULL" \notin stat /\ "TX_EMPTY" \notin stat
  BY DEF Goes

(* The caller, the controller and the handler keep that up. *)
LEMMA NextPumps == ASSUME IInv, PumpsWhenAsked, [Next]_vars PROVE PumpsWhenAsked'
<1> USE DEF PumpsWhenAsked
<1>0. IcType /\ DevType /\ IsrType  BY DEF IInv
<1>1. ASSUME NEW call \in Calls, XferBegin(call) PROVE PumpsWhenAsked'
  BY <1>1 DEF XferBegin, DevStart, Pending
<1>2. CASE Caller \/ Signalled
  BY <1>2 DEF Caller, BusBusy, i2c_silan_xfer_init, Completed, TimedOut, reset_i2c_bus, Signalled,
              Pending
<1>3. CASE HwByte \/ HwAbort \/ HwStop
  <2>1. ic'.mask = ic.mask /\ UNCHANGED <<dev, isr>>
    BY <1>0, <1>3 DEF HwByte, HwAbort, HwStop, IcType
  <2>2. QED  BY <2>1
<1>4. CASE IsrEnter
  <2>1. ic'.mask = ic.mask /\ UNCHANGED dev /\ isr'.pc = Goes(INTR_STAT) /\ isr'.stat = INTR_STAT
    BY <1>0, <1>4 DEF IsrEnter, IcType
  <2>2. "TX_EMPTY" \in INTR_STAT => "TX_EMPTY" \in ic.mask  BY DEF INTR_STAT
  <2>3. QED  BY <2>1, <2>2, GoesWhy
<1>5. CASE IsrAbort  BY <1>0, <1>5 DEF IsrAbort, DevType
<1>6. CASE ReadMessage \/ ReadSkips \/ ReadEnds
  <2>1. /\ ic'.mask = ic.mask /\ dev'.writing = dev.writing /\ dev'.wleft = dev.wleft
        /\ isr'.stat = isr.stat /\ isr.pc = "read"
        /\ isr'.pc = "read" \/ isr'.pc = Goes(isr.stat \ {"RX_FULL"})
    BY <1>0, <1>6 DEF ReadMessage, ReadSkips, ReadEnds, IcType, DevType, IsrType
  <2>2. QED  BY <2>1, GoesWhy
<1>7. CASE PumpMessage
  <2> DEFINE m == dev.msg_write_idx
             left == IF dev.writing THEN dev.wleft ELSE msgs[m].len
             n == Least({left, Room(msgs[m].rd)})
  <2>1. /\ isr.pc = "pump" /\ m <= Len(msgs)
        /\ ic'.mask = IF n < left THEN INTR_DEFAULT_MASK ELSE ic.mask
        /\ dev'.wleft = left - n /\ (dev'.writing => n < left)
        /\ isr'.stat = isr.stat /\ isr'.pc = IF n < left THEN "end" ELSE isr.pc
    BY <1>0, <1>7 DEF PumpMessage, Progress, IcType, DevType, IsrType
  <2>2. left \in Nat /\ n \in Int
    <3>1. m \in 1..(Len(msgs) + 1) /\ Len(msgs) \in Nat  BY DEF IInv, DevType, CallerType
    <3>2. m \in 1..Len(msgs)  BY <2>1, <3>1
    <3>3. msgs[m].len \in Nat /\ msgs[m].rd \in BOOLEAN  BY <3>2, MsgAt DEF IInv
    <3>4. left \in Nat  BY <1>0, <3>3 DEF DevType
    <3>5. Room(msgs[m].rd) \in Nat  BY <1>0, <3>3, RoomFits
    <3> HIDE DEF left
    <3>6. Least({left, Room(msgs[m].rd)}) \in {left, Room(msgs[m].rd)}  BY <3>4, <3>5, LeastOf
    <3>7. QED  BY <3>4, <3>5, <3>6
  <2>3. dev'.writing => dev'.wleft >= 1
    <3> HIDE DEF left, n
    <3>1. QED  BY <2>1, <2>2
  <2>4. isr'.pc = "pump" => ic'.mask = ic.mask  BY <2>1
  <2>5. QED  BY <2>1, <2>3, <2>4
<1>8. CASE PumpEnds \/ PumpFails  BY <1>0, <1>8 DEF PumpEnds, PumpFails, DevType, IsrType
<1>9. CASE IsrEnd  BY <1>0, <1>9 DEF IsrEnd, IsrOff, DevType
<1>10. CASE UNCHANGED vars  BY <1>10 DEF vars
<1>11. QED
  BY <1>1, <1>2, <1>3, <1>4, <1>5, <1>6, <1>7, <1>8, <1>9, <1>10 DEF Next, i2c_silan_isr

-----------------------------------------------------------------------------
(* The first of five numbers that differs decides. *)
LEMMA LowerWhen ==
    ASSUME NEW a, NEW b,
           \/ a[1] < b[1]
           \/ a[1] = b[1] /\ a[2] < b[2]
           \/ a[1] = b[1] /\ a[2] = b[2] /\ a[3] < b[3]
           \/ a[1] = b[1] /\ a[2] = b[2] /\ a[3] = b[3] /\ a[4] < b[4]
           \/ a[1] = b[1] /\ a[2] = b[2] /\ a[3] = b[3] /\ a[4] = b[4] /\ a[5] < b[5]
    PROVE  Lower(a, b)
<1>1. CASE a[1] < b[1]
  <2>1. \A j \in 1..(1 - 1) : a[j] = b[j]  OBVIOUS
  <2>2. QED  BY <1>1, <2>1 DEF Lower
<1>2. CASE a[1] = b[1] /\ a[2] < b[2]
  <2>1. \A j \in 1..(2 - 1) : a[j] = b[j]  BY <1>2
  <2>2. QED  BY <1>2, <2>1 DEF Lower
<1>3. CASE a[1] = b[1] /\ a[2] = b[2] /\ a[3] < b[3]
  <2>1. \A j \in 1..(3 - 1) : a[j] = b[j]  BY <1>3
  <2>2. QED  BY <1>3, <2>1 DEF Lower
<1>4. CASE a[1] = b[1] /\ a[2] = b[2] /\ a[3] = b[3] /\ a[4] < b[4]
  <2>1. \A j \in 1..(4 - 1) : a[j] = b[j]  BY <1>4
  <2>2. QED  BY <1>4, <2>1 DEF Lower
<1>5. CASE a[1] = b[1] /\ a[2] = b[2] /\ a[3] = b[3] /\ a[4] = b[4] /\ a[5] < b[5]
  <2>1. \A j \in 1..(5 - 1) : a[j] = b[j]  BY <1>5
  <2>2. QED  BY <1>5, <2>1 DEF Lower
<1>6. QED  BY <1>1, <1>2, <1>3, <1>4, <1>5

(* The numbers are natural numbers. *)
LEMMA Numbers ==
    ASSUME IInv
    PROVE  /\ ToPump \in Nat /\ ToRead \in Nat /\ StepsLeft \in Nat /\ LeftToPump \in Nat
           /\ Len(ic.tx) \in Nat /\ Len(ic.rx) \in Nat
           /\ \A b : Bit(b) \in {0, 1}
           /\ Transmits \in Nat /\ Standing \in 0..5 /\ Handles \in Nat
<1>1. ToPump \in Nat /\ ToRead \in Nat /\ StepsLeft \in Nat  BY StepsLeftIs
<1>2. LeftToPump \in Nat
  <2>1. CASE AllPumped  BY <2>1 DEF LeftToPump
  <2>2. CASE ~AllPumped
    <3>1. dev.msg_write_idx \in 1..(Len(msgs) + 1) /\ Len(msgs) \in Nat /\ dev.wleft \in Nat
      BY DEF IInv, DevType, CallerType
    <3>2. dev.msg_write_idx \in 1..Len(msgs)  BY <2>2, <3>1 DEF AllPumped
    <3>3. msgs[dev.msg_write_idx].len \in Nat  BY <3>2, MsgAt DEF IInv
    <3>4. QED  BY <3>1, <3>3 DEF LeftToPump
  <2>3. QED  BY <2>1, <2>2
<1>3. Len(ic.tx) \in Nat /\ Len(ic.rx) \in Nat  BY DEF IInv, IcType
<1>4. \A b : Bit(b) \in {0, 1}  BY DEF Bit
<1>5. Transmits \in Nat
  <2>1. Bit(ic.active) \in {0, 1} /\ Bit("STOP_DET" \in ic.raw) \in {0, 1}  BY <1>4
  <2>2. QED  BY <1>3, <2>1 DEF Transmits
<1>6. Standing \in 0..5  BY DEF IInv, IsrType, Standing
<1>7. Handles \in Nat
  <2>1. Bit("TX_EMPTY" \in ic.mask) \in {0, 1}  BY <1>4
  <2>2. QED  BY <1>1, <1>3, <1>6, <2>1 DEF Handles
<1>8. QED  BY <1>1, <1>2, <1>3, <1>4, <1>5, <1>6, <1>7

(* A clean call falls when the first of its numbers that changes falls. *)
LEMMA CleanFalls ==
    ASSUME Clean, Clean',
           \/ ToPump' < ToPump
           \/ ToPump' = ToPump /\ LeftToPump' < LeftToPump
           \/ ToPump' = ToPump /\ LeftToPump' = LeftToPump /\ Transmits' < Transmits
           \/ /\ ToPump' = ToPump /\ LeftToPump' = LeftToPump /\ Transmits' = Transmits
              /\ Handles' < Handles
    PROVE  Lower(Distance', Distance)
<1>1. /\ Distance = <<2, ToPump, LeftToPump, Transmits, Handles>>
      /\ Distance' = <<2, ToPump', LeftToPump', Transmits', Handles'>>
  BY DEF Distance
<1>2. /\ Distance[1] = 2 /\ Distance[2] = ToPump /\ Distance[3] = LeftToPump
      /\ Distance[4] = Transmits /\ Distance[5] = Handles
  BY ONLY <1>1
<1>3. /\ Distance'[1] = 2 /\ Distance'[2] = ToPump' /\ Distance'[3] = LeftToPump'
      /\ Distance'[4] = Transmits' /\ Distance'[5] = Handles'
  BY ONLY <1>1
<1>4. \/ Distance'[1] = Distance[1] /\ Distance'[2] < Distance[2]
      \/ /\ Distance'[1] = Distance[1] /\ Distance'[2] = Distance[2]
         /\ Distance'[3] < Distance[3]
      \/ /\ Distance'[1] = Distance[1] /\ Distance'[2] = Distance[2]
         /\ Distance'[3] = Distance[3] /\ Distance'[4] < Distance[4]
      \/ /\ Distance'[1] = Distance[1] /\ Distance'[2] = Distance[2]
         /\ Distance'[3] = Distance[3] /\ Distance'[4] = Distance[4]
         /\ Distance'[5] < Distance[5]
  BY <1>2, <1>3
<1>5. QED  BY <1>4, LowerWhen

(* An error makes a clean call fall. *)
LEMMA ErrorFalls == ASSUME Clean, ~Clean' PROVE Lower(Distance', Distance)
<1>1. /\ Distance = <<2, ToPump, LeftToPump, Transmits, Handles>>
      /\ Distance' = <<Bit(~dev.cmd_err /\ ~dev.msg_err)', StepsLeft', Transmits', 0, 0>>
  BY DEF Distance
<1>2. Bit(~dev.cmd_err /\ ~dev.msg_err)' \in {0, 1}  BY DEF Bit
<1>3. Distance'[1] = Bit(~dev.cmd_err /\ ~dev.msg_err)' /\ Distance[1] = 2  BY ONLY <1>1
<1>4. Distance'[1] < Distance[1]  BY <1>2, <1>3
<1>5. QED  BY <1>4, LowerWhen

(* After an error a call falls when the error is handled, when the handler   *)
(* goes on, and when the controller does.                                    *)
LEMMA FailingFalls ==
    ASSUME ~Clean, ~Clean',
           LET old == Bit(~dev.cmd_err /\ ~dev.msg_err) IN
           \/ old' < old
           \/ old' = old /\ StepsLeft' < StepsLeft
           \/ old' = old /\ StepsLeft' = StepsLeft /\ Transmits' < Transmits
    PROVE  Lower(Distance', Distance)
<1> DEFINE old == Bit(~dev.cmd_err /\ ~dev.msg_err)
<1>1. /\ Distance = <<old, StepsLeft, Transmits, 0, 0>>
      /\ Distance' = <<old', StepsLeft', Transmits', 0, 0>>
  BY DEF Distance
<1>2. \/ old' < old
      \/ old' = old /\ StepsLeft' < StepsLeft
      \/ old' = old /\ StepsLeft' = StepsLeft /\ Transmits' < Transmits
  OBVIOUS
<1> HIDE DEF old
<1>3. /\ Distance[1] = old /\ Distance[2] = StepsLeft /\ Distance[3] = Transmits
      /\ Distance'[1] = old' /\ Distance'[2] = StepsLeft' /\ Distance'[3] = Transmits'
  BY ONLY <1>1
<1>4. \/ Distance'[1] < Distance[1]
      \/ Distance'[1] = Distance[1] /\ Distance'[2] < Distance[2]
      \/ /\ Distance'[1] = Distance[1] /\ Distance'[2] = Distance[2]
         /\ Distance'[3] < Distance[3]
  BY <1>2, <1>3
<1>5. QED  BY <1>4, LowerWhen

-----------------------------------------------------------------------------
(* The controller: with every byte, abort and STOP it has less to do.        *)
LEMMA MovesLess ==
    ASSUME IInv, HwByte \/ HwAbort \/ HwStop PROVE Transmits' < Transmits
<1>0. /\ ic.tx \in Seq(Entry) /\ Len(ic.tx) \in Nat /\ IcType
      /\ \A b : Bit(b) \in {0, 1}
  BY Numbers DEF IInv, IcType
<1>1. PICK n, o \in Nat : n = Len(ic'.tx) /\ o = Len(ic.tx)
  <2>1. CASE HwByte
    <3>1. ic'.tx = Tail(ic.tx)  BY <1>0, <2>1 DEF HwByte, IcType
    <3>2. Len(ic'.tx) = Len(ic.tx) - 1 /\ Len(ic.tx) >= 1
      BY <1>0, <2>1, <3>1, HeadTailProperties, EmptySeq DEF HwByte
    <3>3. QED  BY <1>0, <3>2
  <2>2. CASE HwAbort  BY <1>0, <2>2 DEF HwAbort, IcType
  <2>3. CASE HwStop  BY <1>0, <2>3 DEF HwStop, IcType
  <2>4. QED  BY <2>1, <2>2, <2>3
<1>2. PICK x, y, z, w \in {0, 1} : /\ x = Bit(ic'.active) /\ y = Bit("STOP_DET" \in ic'.raw)
                                   /\ z = Bit(ic.active) /\ w = Bit("STOP_DET" \in ic.raw)
  BY <1>0
<1>3. Transmits' = 3 * n + 2 * x + y /\ Transmits = 3 * o + 2 * z + w
  BY <1>1, <1>2 DEF Transmits
<1>4. CASE HwByte
  <2>1. ic'.tx = Tail(ic.tx) /\ ic'.raw = ic.raw /\ ic.tx # <<>>  BY <1>0, <1>4 DEF HwByte, IcType
  <2>2. n = o - 1  BY <1>0, <1>1, <2>1
  <2>3. y = w  BY <1>2, <2>1
  <2>4. x <= 1 /\ z >= 0 /\ x \in Int /\ z \in Int /\ w \in Int  BY <1>2
  <2>5. QED  BY <1>3, <2>2, <2>3, <2>4
<1>5. CASE HwAbort
  <2>1. ic'.tx = <<>> /\ ic.tx # <<>> /\ ic'.raw = ic.raw \cup {"TX_ABRT"}
    BY <1>0, <1>5 DEF HwAbort, IcType
  <2>2. n = 0 /\ o >= 1  BY <1>0, <1>1, <2>1
  <2>3. y = w  BY <1>2, <2>1 DEF Bit
  <2>4. x <= 1 /\ z >= 0 /\ x \in Int /\ z \in Int /\ w \in Int  BY <1>2
  <2>5. QED  BY <1>3, <2>2, <2>3, <2>4
<1>6. CASE HwStop
  <2>1. ic'.tx = ic.tx /\ ic.active /\ ic'.active = FALSE  BY <1>0, <1>6 DEF HwStop, IcType
  <2>2. n = o /\ x = 0 /\ z = 1  BY <1>1, <1>2, <2>1 DEF Bit
  <2>3. QED  BY ONLY <1>1, <1>2, <1>3, <2>2
<1>7. QED  BY <1>4, <1>5, <1>6

(* A controller that moves leaves the messages and the handler alone. *)
LEMMA ControllerFalls ==
    ASSUME IInv, Sleeping, HwByte \/ HwAbort \/ HwStop PROVE Lower(Distance', Distance)
<1>1. UNCHANGED <<pc, quiet, msgs, dev, isr>> /\ Transmits' < Transmits
  BY MovesLess DEF HwByte, HwAbort, HwStop
<1>2. /\ ToPump' = ToPump /\ LeftToPump' = LeftToPump /\ StepsLeft' = StepsLeft
      /\ Bit(~dev.cmd_err /\ ~dev.msg_err)' = Bit(~dev.cmd_err /\ ~dev.msg_err)
  BY <1>1 DEF ToPump, ToRead, LeftToPump, AllPumped, StepsLeft, Bit
<1>3. CASE Clean /\ Clean'  BY <1>1, <1>2, <1>3, CleanFalls
<1>4. CASE Clean /\ ~Clean'  BY <1>4, ErrorFalls
<1>5. CASE ~Clean
  <2>1. ic.raw \subseteq ic'.raw
    <3>1. ic'.raw \in {ic.raw, ic.raw \cup {"TX_ABRT"}, ic.raw \cup {"STOP_DET"}}
      BY DEF HwByte, HwAbort, HwStop, IInv, IcType
    <3>2. QED  BY <3>1
  <2>2. ~Clean'  BY <1>1, <1>5, <2>1 DEF Clean, Armed
  <2>3. QED  BY <1>1, <1>2, <1>5, <2>2, FailingFalls
<1>6. QED  BY <1>3, <1>4, <1>5

(* After an error the handler, if it still runs, goes to its end; an abort   *)
(* is the next thing it sees, and then it sees nothing more.                 *)
LEMMA HandlerFails ==
    ASSUME IInv, CInv, Sleeping, ~Clean, i2c_silan_isr PROVE Lower(Distance', Distance)
<1> DEFINE ok == ~dev.cmd_err /\ ~dev.msg_err
<1>0. IcType /\ DevType /\ IsrType  BY DEF IInv
<1>1. UNCHANGED <<pc, quiet, msgs>>
  BY DEF i2c_silan_isr, IsrEnter, IsrAbort, ReadMessage, ReadSkips, ReadEnds, PumpMessage,
         PumpEnds, PumpFails, IsrEnd
<1>2. isr.pc # "off" => StepsLeft' < StepsLeft  BY HandlerNears
<1>3. ~ok' => ~Clean'  BY DEF Clean, Armed
<1>4. CASE ~ok
  <2>1. ic.mask = {} /\ isr.pc \in {"off", "end"}  BY <1>4 DEF IInv, ErrorsMask, Sleeping, WasReset
  <2>2. INTR_STAT = {}  BY <2>1, DeafStat DEF IInv
  <2>3. IsrEnd
    BY <2>1, <2>2 DEF i2c_silan_isr, IsrEnter, IsrAbort, ReadMessage, ReadSkips, ReadEnds,
                      PumpMessage, PumpEnds, PumpFails
  <2>4. isr.pc = "end" /\ dev'.cmd_err = dev.cmd_err /\ dev'.msg_err = dev.msg_err
    BY <1>0, <2>3 DEF IsrEnd, DevType
  <2>5. Bit(ok)' = Bit(ok) /\ ~Clean'  BY <1>3, <1>4, <2>4 DEF Bit
  <2>6. QED  BY <1>2, <2>4, <2>5, FailingFalls
<1>5. CASE ok
  <2>1. "TX_ABRT" \in ic.raw /\ Armed  BY <1>5 DEF Clean, Armed, Sleeping
  <2>2. "TX_ABRT" \in INTR_STAT  BY <2>1 DEF CInv, Listens, INTR_STAT
  <2>3. ~IsrEnter  BY <2>2 DEF IsrEnter
  <2>4. CASE IsrAbort \/ PumpFails
    <3>1. dev'.cmd_err \/ dev'.msg_err  BY <1>0, <2>4 DEF IsrAbort, PumpFails, DevType
    <3>2. Bit(ok)' = 0 /\ Bit(ok) = 1 /\ ~Clean'  BY <1>3, <1>5, <3>1 DEF Bit
    <3>3. QED  BY <3>2, FailingFalls
  <2>5. CASE ReadMessage \/ ReadSkips \/ ReadEnds \/ PumpMessage \/ PumpEnds \/ IsrEnd
    <3>1. /\ isr.pc # "off" /\ ic'.raw = ic.raw
          /\ dev'.cmd_err = dev.cmd_err /\ dev'.msg_err = dev.msg_err
      BY <1>0, <2>5 DEF ReadMessage, ReadSkips, ReadEnds, PumpMessage, PumpEnds, IsrEnd, Progress,
                        IcType, DevType
    <3>2. Bit(ok)' = Bit(ok) /\ ~Clean'  BY <1>5, <2>1, <3>1 DEF Bit, Clean
    <3>3. QED  BY <1>2, <3>1, <3>2, FailingFalls
  <2>6. QED  BY <2>3, <2>4, <2>5 DEF i2c_silan_isr
<1>6. QED  BY <1>4, <1>5

-----------------------------------------------------------------------------
(* A clean call whose next messages, transmit FIFO and transaction stay falls *)
(* with the work of the handler.                                             *)
LEMMA HandlesFall ==
    ASSUME Clean, Clean', UNCHANGED msgs, dev'.msg_write_idx = dev.msg_write_idx,
           dev'.wleft = dev.wleft, dev'.writing = dev.writing, ic'.tx = ic.tx,
           ic'.active = ic.active, ic'.raw = ic.raw, Handles' < Handles
    PROVE  Lower(Distance', Distance)
<1>1. ToPump' = ToPump /\ LeftToPump' = LeftToPump /\ Transmits' = Transmits
  BY DEF ToPump, LeftToPump, AllPumped, Transmits, Bit
<1>2. QED  BY <1>1, CleanFalls

(* The work of the handler: what it has in hand counts for more than where   *)
(* it stands.                                                                *)
LEMMA Weighs ==
    ASSUME NEW r \in Nat, NEW b \in Nat, NEW t \in Nat, NEW s \in 0..5,
           NEW r2 \in Nat, NEW b2 \in Nat, NEW t2 \in Nat, NEW s2 \in 0..5,
           r2 <= r, b2 <= b, t2 <= t, (r2 < r \/ b2 < b \/ t2 < t) \/ s2 < s
    PROVE  6 * (r2 + b2 + t2) + s2 < 6 * (r + b + t) + s
<1> DEFINE p == r + b + t
           q == r2 + b2 + t2
<1>1. p \in Nat /\ q \in Nat /\ q <= p  OBVIOUS
<1>2. r2 < r \/ b2 < b \/ t2 < t => q + 1 <= p  OBVIOUS
<1> HIDE DEF p, q
<1>3. CASE q + 1 <= p  BY <1>1, <1>3 DEF p, q
<1>4. CASE s2 < s  BY <1>1, <1>4 DEF p, q
<1>5. QED  BY <1>2, <1>3, <1>4

(* The same of the state. *)
LEMMA HandlesLess ==
    ASSUME IInv, IInv', Len(ic'.rx) \in Nat, Len(ic'.rx) <= Len(ic.rx),
           ic'.mask \subseteq ic.mask, ToRead' \in Nat, ToRead' <= ToRead, Standing' \in 0..5,
           \/ Len(ic'.rx) < Len(ic.rx) \/ ToRead' < ToRead \/ Standing' < Standing
           \/ "TX_EMPTY" \in ic.mask /\ "TX_EMPTY" \notin ic'.mask
    PROVE  Handles' < Handles
<1>1. Len(ic.rx) \in Nat /\ ToRead \in Nat /\ Standing \in 0..5  BY Numbers
<1> DEFINE b == Bit("TX_EMPTY" \in ic.mask)
<1>2. /\ b \in Nat /\ b' \in Nat /\ b' <= b
      /\ "TX_EMPTY" \in ic.mask /\ "TX_EMPTY" \notin ic'.mask => b' < b
  BY DEF Bit
<1> HIDE DEF b
<1>3. 6 * (Len(ic'.rx) + b' + ToRead') + Standing' < 6 * (Len(ic.rx) + b + ToRead) + Standing
  BY <1>1, <1>2, Weighs
<1>4. QED  BY <1>3 DEF Handles, b

-----------------------------------------------------------------------------
(* The handler reads the status: it has come with something to do, or the    *)
(* STOP is taken note of.                                                    *)
LEMMA EnterFalls ==
    ASSUME IInv, IInv', CInv, Clean, IsrEnter PROVE Lower(Distance', Distance)
<1>1. /\ isr.pc = "off" /\ UNCHANGED <<pc, msgs, dev, quiet>> /\ "TX_ABRT" \notin INTR_STAT
      /\ ic'.mask = ic.mask /\ ic'.raw = ic.raw \ INTR_STAT
      /\ ic'.active = ic.active /\ ic'.tx = ic.tx /\ ic'.rx = ic.rx
      /\ isr'.pc = Goes(INTR_STAT) /\ INTR_STAT # {}
  BY DEF IsrEnter, IInv, IcType
<1>2. Clean'  BY <1>1 DEF Clean, Armed
<1>3. ToPump' = ToPump /\ LeftToPump' = LeftToPump /\ ToRead' = ToRead
  BY <1>1 DEF ToPump, LeftToPump, AllPumped, ToRead
<1>4. CASE "STOP_DET" \in INTR_STAT
  <2>1. "STOP_DET" \in ic.raw /\ "STOP_DET" \notin ic'.raw  BY <1>1, <1>4, CleanPending
  <2>2. PICK t, x \in Nat : t = Len(ic.tx) /\ x = Bit(ic.active)
    <3>1. Len(ic.tx) \in Nat /\ Bit(ic.active) \in {0, 1}  BY Numbers
    <3>2. QED  BY <3>1
  <2>3. Transmits = 3 * t + 2 * x + 1 /\ Transmits' = 3 * t + 2 * x + 0
    BY <1>1, <2>1, <2>2 DEF Transmits, Bit
  <2>4. Transmits' < Transmits  BY <2>2, <2>3
  <2>5. QED  BY <1>2, <1>3, <2>4, CleanFalls
<1>5. CASE "STOP_DET" \notin INTR_STAT
  <2>1. "STOP_DET" \in ic'.raw <=> "STOP_DET" \in ic.raw  BY <1>1, <1>5
  <2>2. Transmits' = Transmits  BY <1>1, <2>1 DEF Transmits, Bit
  <2>3. INTR_STAT \subseteq INTR_DEFAULT_MASK  BY DeafStat DEF IInv
  <2>4. isr'.pc \in {"read", "pump"}
    <3>1. "RX_FULL" \in INTR_STAT \/ "TX_EMPTY" \in INTR_STAT
      BY <1>1, <1>5, <2>3 DEF INTR_DEFAULT_MASK
    <3>2. QED  BY <1>1, <3>1, GoesTo, GoesWhy
  <2>5. isr'.pc = "read" => ic'.rx # <<>>  BY <1>1, GoesWhy, CleanPending
  <2>6. isr'.pc = "pump" => Len(ic'.tx) < Depth
    <3>1. "TX_EMPTY" \in INTR_STAT => "TX_EMPTY" \in Level
      BY DEF INTR_STAT, IInv, IcType
    <3>2. "TX_EMPTY" \in Level => Len(ic.tx) < Depth  BY DEF Level
    <3>3. QED  BY <1>1, <3>1, <3>2, GoesWhy
  <2>7. Standing = 2 /\ Standing' \in {0, 1}  BY <1>1, <2>4, <2>5, <2>6 DEF Standing
  <2>8. Handles' < Handles
    <3>1. Len(ic.rx) \in Nat /\ ToRead \in Nat  BY Numbers
    <3>2. Len(ic'.rx) = Len(ic.rx) /\ ic'.mask \subseteq ic.mask  BY <1>1
    <3>3. Standing' < Standing /\ Standing' \in 0..5  BY <2>7
    <3>4. Len(ic'.rx) <= Len(ic.rx) /\ ToRead' <= ToRead /\ ToRead' \in Nat /\ Len(ic'.rx) \in Nat
      BY <1>3, <3>1, <3>2
    <3>5. QED  BY <3>2, <3>3, <3>4, HandlesLess
  <2>9. QED  BY <1>2, <1>3, <2>2, <2>8, CleanFalls
<1>6. QED  BY <1>4, <1>5

(* A handler that has passed the last message leaves the receive FIFO empty. *)
LEMMA PassedAll ==
    ASSUME IInv, CInv, Clean, dev.msg_read_idx > Len(msgs) PROVE ic.rx = <<>>
<1>1. Histories /\ Parts  BY DEF CInv, Parts
<1>2. SUFFICES ASSUME ic.rx # <<>> PROVE FALSE  OBVIOUS
<1>3. 1 \in DOMAIN ic.rx
  <2>1. ic.rx \in Seq(Entry)  BY <1>1, FlowParts
  <2>2. QED  BY <1>2, <2>1
<1>4. PICK j \in DOMAIN wire : wire[j] = ic.rx[1]  BY <1>1, <1>3 DEF Parts, FifoIsRead
<1>5. wire[j].m \in 1..Len(msgs)  BY <1>1, WireIs DEF Parts, IsByte
<1>6. Len(msgs) \in Nat /\ dev.msg_read_idx \in Nat  BY DEF IInv, CallerType, DevType
<1>7. Stored(ic.rx[1].m, ic.rx[1].i)  BY <1>4, <1>5, <1>6 DEF Stored
<1>8. QED  BY <1>1, <1>3, <1>7 DEF Parts, FifoIsRead

(* The handler takes bytes from the receive FIFO, passes a message, or leaves *)
(* the empty FIFO.                                                           *)
LEMMA ReadFalls ==
    ASSUME IInv, IInv', CInv, Clean, ReadMessage \/ ReadSkips \/ ReadEnds
    PROVE  Lower(Distance', Distance)
<1>0. /\ IcType /\ DevType /\ IsrType /\ ic.rx \in Seq(Entry)
      /\ Len(ic.rx) \in Nat /\ ToRead \in Nat /\ Standing \in 0..5
  BY Numbers DEF IInv, IcType
<1>1. /\ isr.pc = "read" /\ UNCHANGED <<pc, msgs, quiet>>
      /\ ic'.mask = ic.mask /\ ic'.raw = ic.raw /\ ic'.active = ic.active /\ ic'.tx = ic.tx
      /\ dev'.msg_write_idx = dev.msg_write_idx /\ dev'.wleft = dev.wleft
      /\ dev'.writing = dev.writing /\ dev'.cmd_err = dev.cmd_err /\ dev'.msg_err = dev.msg_err
  BY <1>0 DEF ReadMessage, ReadSkips, ReadEnds, IcType, DevType
<1>2. Clean'  BY <1>1 DEF Clean, Armed
<1>3. SUFFICES Handles' < Handles  BY <1>1, <1>2, HandlesFall
<1>4. Standing' \in 0..5 /\ Len(ic'.rx) \in Nat /\ ToRead' \in Nat
  <2>1. IsrType' /\ IcType' /\ DevType' /\ CallerType'  BY DEF IInv
  <2>2. ToRead' = Len(msgs') + 1 - dev'.msg_read_idx  BY DEF ToRead
  <2>3. QED  BY <2>1, <2>2 DEF IsrType, IcType, DevType, CallerType, Standing
<1>5. ASSUME Len(ic'.rx) <= Len(ic.rx), ToRead' <= ToRead,
             Len(ic'.rx) < Len(ic.rx) \/ ToRead' < ToRead \/ Standing' < Standing
      PROVE  Handles' < Handles
  BY <1>1, <1>4, <1>5, HandlesLess
<1>6. \A stat : Goes(stat \ {"RX_FULL"}) \in {"pump", "end"}  BY DEF Goes
<1>7. ic.rx = <<>> => Standing = 5  BY <1>1 DEF Standing
<1>8. isr'.pc \in {"pump", "end"} => Standing' <= 4  BY DEF Standing
<1>9. CASE ReadMessage
  <2> DEFINE m == dev.msg_read_idx
             left == IF dev.reading THEN dev.rleft ELSE msgs[m].len
             n == IF left < Len(ic.rx) THEN left ELSE Len(ic.rx)
  <2>1. /\ m <= Len(msgs) /\ ic'.rx = SubSeq(ic.rx, n + 1, Len(ic.rx))
        /\ \/ /\ n < left /\ dev'.msg_read_idx = m
              /\ isr'.pc = Goes(isr.stat \ {"RX_FULL"})
           \/ n = left /\ dev'.msg_read_idx = m + 1
    BY <1>0, <1>9 DEF ReadMessage, IcType, DevType, IsrType
  <2>2. m \in Nat /\ Len(msgs) \in Nat /\ left \in Nat
    <3>1. m \in 1..(Len(msgs) + 1) /\ Len(msgs) \in Nat  BY DEF IInv, DevType, CallerType
    <3>2. m \in 1..Len(msgs)  BY <2>1, <3>1
    <3>3. QED  BY <1>0, <3>1, <3>2, MsgAt DEF IInv, DevType
  <2> HIDE DEF left
  <2>3. n \in 0..Len(ic.rx) /\ (n < left => n = Len(ic.rx))  BY <1>0, <2>2
  <2> HIDE DEF n
  <2>4. Len(ic'.rx) = Len(ic.rx) - n
    <3>1. n + 1 \in 1..(Len(ic.rx) + 1) /\ Len(ic.rx) \in 0..Len(ic.rx)  BY <1>0, <2>3
    <3>2. QED  BY <1>0, <2>1, <2>3, <3>1, SubSeqProperties
  <2>5. CASE n < left /\ dev'.msg_read_idx = m /\ isr'.pc = Goes(isr.stat \ {"RX_FULL"})
    <3>1. ToRead' = ToRead  BY <1>1, <2>5 DEF ToRead
    <3>2. Standing' <= 4  BY <1>6, <1>8, <2>5
    <3>3. CASE Len(ic.rx) = 0
      <4>1. Standing = 5  BY <1>0, <1>7, <3>3, EmptySeq
      <4>2. Standing' < Standing /\ Len(ic'.rx) <= Len(ic.rx) /\ ToRead' <= ToRead
        BY <1>0, <1>4, <2>3, <2>4, <3>1, <3>2, <3>3, <4>1
      <4>3. QED  BY <1>5, <4>2
    <3>4. CASE Len(ic.rx) # 0
      <4>1. Len(ic'.rx) < Len(ic.rx) /\ ToRead' <= ToRead  BY <1>0, <2>3, <2>4, <2>5, <3>1, <3>4
      <4>2. QED  BY <1>0, <1>4, <1>5, <4>1
    <3>5. QED  BY <3>3, <3>4
  <2>6. CASE n = left /\ dev'.msg_read_idx = m + 1
    <3>1. ToRead' < ToRead /\ ToRead' <= ToRead  BY <1>1, <2>2, <2>6 DEF ToRead
    <3>2. Len(ic'.rx) <= Len(ic.rx)  BY <1>0, <2>3, <2>4
    <3>3. QED  BY <1>5, <3>1, <3>2
  <2>7. QED  BY <2>1, <2>5, <2>6
<1>10. CASE ReadSkips
  <2>1. dev'.msg_read_idx = dev.msg_read_idx + 1 /\ ic'.rx = ic.rx
    BY <1>0, <1>10 DEF ReadSkips, DevType
  <2>2. dev.msg_read_idx \in Nat /\ Len(msgs) \in Nat  BY DEF IInv, DevType, CallerType
  <2>3. ToRead' < ToRead /\ ToRead' <= ToRead  BY <1>1, <2>1, <2>2 DEF ToRead
  <2>4. QED  BY <1>0, <1>5, <2>1, <2>3
<1>11. CASE ReadEnds
  <2>1. UNCHANGED <<dev, ic>> /\ isr'.pc = Goes(isr.stat \ {"RX_FULL"}) /\ ic.rx = <<>>
    BY <1>0, <1>11, PassedAll DEF ReadEnds, IsrType
  <2>2. ToRead' = ToRead  BY <1>1, <2>1 DEF ToRead
  <2>3. Standing' < Standing
    <3>1. Standing = 5 /\ Standing' <= 4  BY <1>6, <1>7, <1>8, <2>1
    <3>2. QED  BY <1>4, <3>1
  <2>4. QED  BY <1>0, <1>5, <2>1, <2>2, <2>3
<1>12. QED  BY <1>9, <1>10, <1>11

(* The handler writes to the transmit FIFO, or leaves the full one. *)
LEMMA PumpFalls ==
    ASSUME Prompt, IInv, IInv', CInv, PumpsWhenAsked, Clean, PumpMessage
    PROVE  Lower(Distance', Distance)
<1> DEFINE m == dev.msg_write_idx
           left == IF dev.writing THEN dev.wleft ELSE msgs[m].len
           room == Room(msgs[m].rd)
           n == Least({left, room})
           new == [k \in 1..n |-> Byte(m, msgs[m].len - left + k)]
<1>0. IcType /\ DevType /\ IsrType  BY DEF IInv
<1>1. /\ isr.pc = "pump" /\ m <= Len(msgs) /\ UNCHANGED <<pc, msgs, quiet>>
      /\ ic'.raw = ic.raw /\ ic'.active = ic.active /\ ic'.rx = ic.rx
      /\ ic'.tx = Written(new)
      /\ ic'.mask = IF n < left THEN INTR_DEFAULT_MASK ELSE ic.mask
      /\ dev'.wleft = left - n /\ (n < left => dev'.writing)
      /\ dev'.msg_write_idx = IF n < left THEN m ELSE m + 1
      /\ dev'.msg_read_idx = dev.msg_read_idx
      /\ dev'.cmd_err = dev.cmd_err /\ dev'.msg_err = dev.msg_err
      /\ isr'.pc = IF n < left THEN "end" ELSE isr.pc
  BY <1>0 DEF PumpMessage, Progress, IcType, DevType, IsrType
<1>2. /\ m \in 1..Len(msgs) /\ Len(msgs) \in Nat /\ msgs[m].rd \in BOOLEAN /\ left \in Nat
      /\ room \in Nat
  <2>1. m \in 1..(Len(msgs) + 1) /\ Len(msgs) \in Nat  BY DEF IInv, DevType, CallerType
  <2>2. m \in 1..Len(msgs)  BY <1>1, <2>1
  <2>3. msgs[m].len \in Nat /\ msgs[m].rd \in BOOLEAN  BY <2>2, MsgAt DEF IInv
  <2>4. left \in Nat  BY <1>0, <2>3 DEF DevType
  <2>5. room \in Nat  BY <1>0, <2>3, RoomFits
  <2>6. QED  BY <2>1, <2>2, <2>3, <2>4, <2>5
<1>3. LeftToPump = left  BY <1>2 DEF LeftToPump, AllPumped
<1>4. n \in {left, room}
  <2>1. \A a, b \in Int : Least({a, b}) \in {a, b}  BY LeastOf
  <2>2. QED  BY <1>2, <2>1
<1>5. Clean'  BY <1>1 DEF Clean, Armed
<1> HIDE DEF left, n
<1>6. CASE ~(n < left)
  <2>1. ToPump' < ToPump
    <3>1. dev'.msg_write_idx = m + 1  BY <1>1, <1>6
    <3>2. QED  BY <1>1, <1>2, <3>1 DEF ToPump
  <2>2. QED  BY <1>5, <2>1, CleanFalls
<1>7. CASE n < left
  <2>1. dev'.msg_write_idx = m /\ dev'.writing /\ dev'.wleft = left - n  BY <1>1, <1>7
  <2>2. ToPump' = ToPump  BY <1>1, <2>1 DEF ToPump
  <2>3. LeftToPump' = left - n  BY <1>1, <1>2, <2>1 DEF LeftToPump, AllPumped
  <2>4. n = room  BY <1>2, <1>4, <1>7
  <2>5. CASE room >= 1
    <3>1. LeftToPump' < LeftToPump  BY <1>2, <1>3, <2>3, <2>4, <2>5
    <3>2. QED  BY <1>5, <2>2, <3>1, CleanFalls
  <2>6. CASE room = 0
    <3>1. LeftToPump' = LeftToPump  BY <1>2, <1>3, <2>3, <2>4, <2>6
    <3>2. ic'.tx = ic.tx
      <4>1. new = <<>>  BY <2>4, <2>6
      <4>2. ic.tx \o <<>> = ic.tx  BY <1>0 DEF IcType
      <4>3. QED  BY <1>1, <4>1, <4>2 DEF Written
    <3>3. Transmits' = Transmits  BY <1>1, <3>2 DEF Transmits
    <3>4. ~(Len(ic.tx) < Depth)
      <4>1. Len(ic.tx) \in Nat /\ Len(ic.rx) \in Nat /\ Depth \in Nat  BY <1>0, SilanI2cAssumption DEF IcType
      <4>2. Depth - Len(ic.rx) >= 1
        <5>1. Drained /\ lag \in 0..MaxLag  BY DEF CInv, Histories
        <5>2. MaxLag \in Nat /\ MaxLag >= 1 /\ 2 * MaxLag <= Depth  BY SilanI2cAssumption DEF Prompt
        <5>3. Len(ic.rx) <= lag + 0  BY <1>1, <5>1 DEF Drained
        <5>4. QED  BY <4>1, <5>1, <5>2, <5>3
      <4> DEFINE a == Depth - Len(ic.tx)
                 b == Depth - Len(ic.rx)
      <4>3. room = IF msgs[m].rd THEN Least({a, b}) ELSE a  BY <4>1, <4>2 DEF Room
      <4>4. a \in Int /\ b \in Int /\ b >= 1  BY <4>1, <4>2
      <4> HIDE DEF a, b, room
      <4>5. Least({a, b}) \in {a, b}  BY <4>4, LeastOf
      <4>6. a = 0  BY <2>6, <4>3, <4>4, <4>5
      <4>7. QED  BY <4>1, <4>6 DEF a
    <3>5. Standing = 4 /\ Standing' = 3  BY <1>1, <1>7, <3>4 DEF Standing
    <3>6. Handles' < Handles
      <4>1. "TX_EMPTY" \in ic.mask  BY <1>1 DEF PumpsWhenAsked
      <4>2. "TX_EMPTY" \in ic'.mask  BY <1>1, <1>7 DEF INTR_DEFAULT_MASK
      <4>3. Bit("TX_EMPTY" \in ic.mask)' = 1 /\ Bit("TX_EMPTY" \in ic.mask) = 1
        BY <4>1, <4>2 DEF Bit
      <4>4. Len(ic'.rx) = Len(ic.rx) /\ Len(ic.rx) \in Nat /\ ToRead' = ToRead /\ ToRead \in Nat
        BY <1>1, Numbers DEF ToRead
      <4>5. PICK r, t \in Nat : r = Len(ic.rx) /\ t = ToRead  BY <4>4
      <4>6. Handles = 6 * (r + 1 + t) + 4 /\ Handles' = 6 * (r + 1 + t) + 3
        BY <3>5, <4>3, <4>4, <4>5 DEF Handles
      <4>7. QED  BY <4>5, <4>6
    <3>7. QED  BY <1>5, <2>2, <3>1, <3>3, <3>6, CleanFalls
  <2>7. QED  BY <1>2, <2>5, <2>6
<1>8. QED  BY <1>6, <1>7

(* All messages are written and TX_EMPTY is masked, or the handler returns. *)
LEMMA EndFalls ==
    ASSUME IInv, IInv', CInv, PumpsWhenAsked, Clean, PumpEnds \/ IsrEnd
    PROVE  Lower(Distance', Distance)
<1>0. /\ IcType /\ DevType /\ IsrType /\ Len(ic.rx) \in Nat /\ ToRead \in Nat /\ ~dev.msg_err
  BY Numbers DEF IInv, Clean, Armed
<1>1. /\ UNCHANGED <<pc, msgs, quiet>>
      /\ ic'.rx = ic.rx /\ ic'.raw = ic.raw /\ ic'.active = ic.active /\ ic'.tx = ic.tx
      /\ dev'.msg_write_idx = dev.msg_write_idx /\ dev'.wleft = dev.wleft
      /\ dev'.msg_read_idx = dev.msg_read_idx
      /\ dev'.writing = dev.writing /\ dev'.cmd_err = dev.cmd_err /\ dev'.msg_err = dev.msg_err
  BY <1>0 DEF PumpEnds, IsrEnd, IcType, DevType
<1>2. Clean'  BY <1>1 DEF Clean, Armed
<1>3. SUFFICES Handles' < Handles  BY <1>1, <1>2, HandlesFall
<1>4. Len(ic'.rx) \in Nat /\ Len(ic'.rx) <= Len(ic.rx) /\ ToRead' \in Nat /\ ToRead' <= ToRead
  <2>1. ToRead' = ToRead  BY <1>1 DEF ToRead
  <2>2. QED  BY <1>0, <1>1, <2>1
<1>5. CASE PumpEnds
  <2>1. /\ isr.pc = "pump" /\ isr'.pc = "end" /\ ic'.mask = INTR_DEFAULT_MASK \ {"TX_EMPTY"}
    BY <1>0, <1>5 DEF PumpEnds, IcType, IsrType
  <2>2. "TX_EMPTY" \in ic.mask /\ "TX_EMPTY" \notin ic'.mask  BY <2>1 DEF PumpsWhenAsked
  <2>3. ic'.mask \subseteq ic.mask
    <3>1. Armed /\ Listens  BY DEF Clean, CInv
    <3>2. QED  BY <2>1, <3>1 DEF Listens, INTR_DEFAULT_MASK
  <2>4. Standing' \in 0..5  BY <2>1 DEF Standing
  <2>5. QED  BY <1>4, <2>2, <2>3, <2>4, HandlesLess
<1>6. CASE IsrEnd
  <2>1. isr.pc = "end" /\ isr'.pc = "off" /\ ic' = ic  BY <1>6 DEF IsrEnd, IsrOff
  <2>2. Standing = 3 /\ Standing' = 2  BY <2>1 DEF Standing
  <2>3. Standing' < Standing /\ Standing' \in 0..5  BY <2>2
  <2>4. QED  BY <1>4, <2>1, <2>3, HandlesLess
<1>7. QED  BY <1>5, <1>6

(* Every step. *)
LEMMA NextFalls ==
    ASSUME Prompt, IInv, CInv, PumpsWhenAsked, Next PROVE BringsQuiet
<1> SUFFICES ASSUME Sleeping, Sleeping' PROVE Lower(Distance', Distance)  BY DEF BringsQuiet
<1>0. IInv'  BY NextInv
<1>1. ASSUME NEW call \in Calls, XferBegin(call) PROVE FALSE  BY <1>1 DEF XferBegin, Sleeping
<1>2. ~Caller /\ ~Signalled
  BY DEF Caller, BusBusy, i2c_silan_xfer_init, Completed, TimedOut, reset_i2c_bus, Signalled,
         Return, Sleeping
<1>3. CASE HwByte \/ HwAbort \/ HwStop  BY <1>3, ControllerFalls
<1>4. CASE i2c_silan_isr
  <2>1. CASE ~Clean  BY <1>4, <2>1, HandlerFails
  <2>2. CASE Clean
    <3>1. CASE IsrEnter  BY <1>0, <2>2, <3>1, EnterFalls
    <3>2. CASE IsrAbort \/ PumpFails
      <4>1. dev'.cmd_err \/ dev'.msg_err  BY <3>2 DEF IsrAbort, PumpFails, IInv, DevType
      <4>2. ~Clean'  BY <4>1 DEF Clean, Armed
      <4>3. QED  BY <2>2, <4>2, ErrorFalls
    <3>3. CASE ReadMessage \/ ReadSkips \/ ReadEnds  BY <1>0, <2>2, <3>3, ReadFalls
    <3>4. CASE PumpMessage  BY <1>0, <2>2, <3>4, PumpFalls
    <3>5. CASE PumpEnds \/ IsrEnd  BY <1>0, <2>2, <3>5, EndFalls
    <3>6. QED  BY <1>4, <3>1, <3>2, <3>3, <3>4, <3>5 DEF i2c_silan_isr
  <2>3. QED  BY <2>1, <2>2
<1>5. QED  BY <1>1, <1>2, <1>3, <1>4 DEF Next

\* Each number of the distance is a natural number.
DistanceBounded == Distance \in Nat \X Nat \X Nat \X Nat \X Nat

(* No interrupt storm: while a call that found the controller quiet sleeps,  *)
(* each step of the handler and the controller, errors and aborts included,  *)
(* lowers a tuple of natural numbers in lexicographic order.  So there are   *)
(* finitely many before i2c_silan_xfer is woken or can run into its timeout, *)
(* although TX_EMPTY and RX_FULL are levels that the handler cannot clear:   *)
(* it fills the transmit FIFO, empties the receive FIFO or masks the         *)
(* interrupt whenever it has been called.                                    *)
THEOREM NoInterruptStorm == ASSUME Prompt PROVE Spec => []DistanceBounded /\ [][BringsQuiet]_vars
<1>1. IInv => DistanceBounded
  <2>1. SUFFICES ASSUME IInv PROVE DistanceBounded  OBVIOUS
  <2>2. /\ ToPump \in Nat /\ StepsLeft \in Nat /\ LeftToPump \in Nat /\ Transmits \in Nat
        /\ Handles \in Nat
    BY <2>1, Numbers
  <2>3. Bit(~dev.cmd_err /\ ~dev.msg_err) \in Nat  BY DEF Bit
  <2>4. QED  BY <2>2, <2>3 DEF DistanceBounded, Distance
<1>2. IInv /\ CInv /\ PumpsWhenAsked /\ [Next]_vars =>
          (IInv /\ CInv /\ PumpsWhenAsked)' /\ [BringsQuiet]_vars
  BY NextInv, NextClean, NextPumps, NextFalls
<1>3. Init => IInv /\ CInv /\ PumpsWhenAsked  BY InitInv, InitClean, InitPumps
<1>4. QED  BY <1>1, <1>2, <1>3, PTL DEF Spec
=============================================================================
