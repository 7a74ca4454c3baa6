---------------------------- MODULE Pl08x_proofs ----------------------------
(***************************************************************************)
(* Proofs about Pl08x, for every number of channels and every environment. *)
(* A physical channel serves one virtual channel at a time, the two sides  *)
(* of the association agree, and no transfer runs on a free channel.  Then *)
(* the types of all variables, that Pl08x implements DmaChannel, and what  *)
(* follows for Pl08x from the proofs about DmaChannel.  At last what holds *)
(* for polite clients only, and that their transfers go forward.           *)
(***************************************************************************)
EXTENDS Pl08x, FiniteSetTheorems, TLAPS

\* The types of the variables that record who owns what.
OwnType ==
    /\ phychan \in [Chan -> Phy \cup {None}]
    /\ serving \in [Phy -> Chan \cup {None}]
    /\ hw \in [Phy -> {"idle", "busy", "halted"}]
    /\ tc \subseteq Phy /\ irq \in IrqRec

IInv == OwnType /\ PhyExclusive /\ NoStrayDma

\* The owners and the hardware, the variables IInv is about besides irq.
ownVars == <<phychan, serving, hw>>

(* None is neither a virtual nor a physical channel. *)
LEMMA NoneIsNone == None \notin Chan /\ None \notin Phy
  BY Pl08xAssumption DEF None, Chan, Slave, Memcpy, Phy

(* The least element of a set, if any, is an element. *)
LEMMA FirstIn == ASSUME NEW S, NEW x \in First(S) PROVE x \in S
  BY DEF First

(* Initially nobody owns anything. *)
LEMMA InitInv == Init => IInv
<1> SUFFICES ASSUME Init PROVE IInv  OBVIOUS
<1>1. OwnType  BY DEF Init, OwnType, IrqIdle, IrqRec
<1>2. PhyExclusive  BY NoneIsNone DEF Init, PhyExclusive
<1>3. NoStrayDma  BY DEF Init, NoStrayDma
<1>4. QED  BY <1>1, <1>2, <1>3 DEF IInv

(* Giving a free physical channel to a virtual channel that has none         *)
(* (pl08x_get_phy_channel).                                                 *)
LEMMA GetInv ==
    ASSUME IInv, NEW c \in Chan, NEW p \in Phy, phychan[c] = None, serving[p] = None,
           phychan' = [phychan EXCEPT ![c] = p], serving' = [serving EXCEPT ![p] = c],
           hw' = hw, irq' = irq, tc' = tc
    PROVE  IInv'
<1>1. OwnType'  BY DEF IInv, OwnType
<1>2. PhyExclusive'  BY NoneIsNone DEF IInv, OwnType, PhyExclusive
<1>3. NoStrayDma'  BY NoneIsNone DEF IInv, OwnType, NoStrayDma
<1>4. QED  BY <1>1, <1>2, <1>3 DEF IInv

(* Releasing the physical channel of a virtual one, which stops it           *)
(* (release_phy_channel).                                                   *)
LEMMA ReleaseInv ==
    ASSUME IInv, NEW c \in Chan, phychan[c] # None,
           phychan' = [phychan EXCEPT ![c] = None], serving' = Released(c),
           hw' = [hw EXCEPT ![phychan[c]] = "idle"], irq' \in IrqRec, tc' \subseteq Phy
    PROVE  IInv'
<1>0. phychan[c] \in Phy /\ serving[phychan[c]] = c
  BY DEF IInv, OwnType, PhyExclusive
<1>1. OwnType'  BY <1>0 DEF IInv, OwnType, Released
<1>2. PhyExclusive'  BY <1>0, NoneIsNone DEF IInv, OwnType, PhyExclusive, Released
<1>3. NoStrayDma'  BY <1>0, NoneIsNone DEF IInv, OwnType, NoStrayDma, Released
<1>4. QED  BY <1>1, <1>2, <1>3 DEF IInv

(* Changing what an owned physical channel does. *)
LEMMA HwInv ==
    ASSUME IInv, NEW p \in Phy, serving[p] # None,
           NEW h \in {"idle", "busy", "halted"}, hw' = [hw EXCEPT ![p] = h],
           UNCHANGED <<phychan, serving>>, irq' \in IrqRec, tc' \subseteq Phy
    PROVE  IInv'
<1>1. OwnType'  BY DEF IInv, OwnType
<1>2. PhyExclusive'  BY DEF IInv, PhyExclusive
<1>3. NoStrayDma'  BY DEF IInv, OwnType, NoStrayDma
<1>4. QED  BY <1>1, <1>2, <1>3 DEF IInv

(* A step that leaves owners and hardware alone. *)
LEMMA SameInv ==
    ASSUME IInv, UNCHANGED ownVars, irq' \in IrqRec, tc' \subseteq Phy
    PROVE  IInv'
  BY DEF IInv, OwnType, PhyExclusive, NoStrayDma, ownVars

(* Preparing a descriptor. *)
LEMMA PrepInv == ASSUME IInv, NEW c \in Chan, pl08x_prep(c) PROVE IInv'
<1>0. UNCHANGED <<hw, irq, tc>> /\ irq \in IrqRec /\ tc \subseteq Phy  BY DEF pl08x_prep, IInv, OwnType
<1>1. CASE PrepHasPhy(c)  BY <1>0, <1>1, SameInv DEF PrepHasPhy, ownVars
<1>2. CASE PrepGetsPhy(c)
  <2>1. PICK p \in First(FreePhy(serving)) :
            /\ phychan' = [phychan EXCEPT ![c] = p]
            /\ serving' = [serving EXCEPT ![p] = c]
    BY <1>2 DEF PrepGetsPhy
  <2>2. p \in Phy /\ serving[p] = None  BY FirstIn DEF FreePhy
  <2>3. phychan[c] = None  BY <1>2 DEF PrepGetsPhy
  <2>4. QED  BY <1>0, <2>1, <2>2, <2>3, GetInv
<1>3. CASE PrepNoPhy(c)  BY <1>0, <1>3, SameInv DEF PrepNoPhy, ownVars
<1>4. QED  BY <1>1, <1>2, <1>3 DEF pl08x_prep

(* Issuing pending descriptors. *)
LEMMA IssueInv == ASSUME IInv, NEW c \in Chan, pl08x_issue_pending(c) PROVE IInv'
<1>0. irq' = irq /\ irq \in IrqRec /\ tc \subseteq Phy
  BY DEF pl08x_issue_pending, IssueNothing, IssueStarts, Crash, IInv, OwnType, vars
<1>1. CASE UNCHANGED <<ownVars, tc>>  BY <1>0, <1>1, SameInv
<1>2. CASE /\ phychan[c] # None /\ StartHw(phychan[c])
           /\ UNCHANGED <<phychan, serving>>
  <2>1. phychan[c] \in Phy /\ serving[phychan[c]] = c
    BY <1>2 DEF IInv, OwnType, PhyExclusive
  <2>2. QED  BY <1>0, <1>2, <2>1, NoneIsNone, HwInv DEF StartHw
<1>3. QED
  BY <1>1, <1>2 DEF pl08x_issue_pending, IssueNothing, IssueStarts, Crash, vars, ownVars

(* DMA_TERMINATE_ALL, DMA_PAUSE and DMA_RESUME. *)
LEMMA ControlInv ==
    ASSUME IInv, NEW c \in Chan,
           pl08x_terminate_all(c) \/ pl08x_pause(c) \/ pl08x_resume(c)
    PROVE  IInv'
<1>1. CASE ControlNothing(c)
  BY <1>1, SameInv DEF ControlNothing, vars, ownVars, IInv, OwnType
<1>2. CASE TerminateAll(c)
  BY <1>2, ReleaseInv DEF TerminateAll, IInv, OwnType
<1>3. ASSUME NEW from, NEW to \in {"busy", "halted"}, NEW st, PauseResume(c, from, to, st)
      PROVE IInv'
  <2>1. phychan[c] \in Phy /\ serving[phychan[c]] # None
    BY <1>3, NoneIsNone DEF PauseResume, IInv, OwnType, PhyExclusive
  <2>2. PICK h \in {"idle", "busy", "halted"} : hw' = [hw EXCEPT ![phychan[c]] = h]
    BY <1>3, <2>1 DEF PauseResume, IInv, OwnType
  <2>3. QED  BY <1>3, <2>1, <2>2, HwInv DEF PauseResume, IInv, OwnType
<1>4. QED
  BY <1>1, <1>2, <1>3 DEF pl08x_terminate_all, pl08x_pause, pl08x_resume

(* The hand-over of a freed physical channel to a waiting memcpy. *)
LEMMA HandoverInv ==
    ASSUME IInv, NEW p \in Phy, NEW c \in Chan, serving[p] = c, TaskletHandover(c, p),
           irq' \in IrqRec
    PROVE  IInv'
<1>0. phychan[c] = p  BY DEF IInv, PhyExclusive
<1> DEFINE got(w) == IF phychan[w] # None THEN {phychan[w]} ELSE First(FreePhy(Released(c)))
<1>a. PICK w \in First(Waiting \ {c}) : \E q \in got(w) : HandoverTo(c, p, w, q)
  BY Zenon DEF TaskletHandover
<1>b. PICK q \in got(w) : HandoverTo(c, p, w, q)
  BY <1>a
<1>1. /\ phychan' = [phychan EXCEPT ![c] = None, ![w] = q]
      /\ serving' = [Released(c) EXCEPT ![q] = w]
  BY <1>b, Zenon DEF HandoverTo
<1>2. /\ hw' \in [Phy -> {"idle", "busy", "halted"}]
      /\ \A r \in Phy : hw'[r] # "idle" => r = q \/ (r # p /\ hw[r] # "idle")
  <2> DEFINE starts == ~IsTxd(chan[w].at) /\ chan[w].pend_list # <<>>
  <2>1. hw' = [r \in Phy |-> IF starts /\ r = q THEN "busy" ELSE IF r = p THEN "idle" ELSE hw[r]]
    BY <1>b, Zenon DEF HandoverTo
  <2> HIDE DEF starts
  <2>2. QED  BY <2>1 DEF IInv, OwnType
<1>3. tc' \subseteq tc \cup {q}
  <2> DEFINE starts == ~IsTxd(chan[w].at) /\ chan[w].pend_list # <<>>
  <2>1. tc' = IF starts /\ q # p /\ hw[q] = "busy" THEN (tc \ {p}) \cup {q} ELSE tc \ {p}
    BY <1>b, Zenon DEF HandoverTo
  <2> HIDE DEF starts
  <2>2. QED  BY <2>1
<1>4. w \in Chan /\ w # c
  BY FirstIn DEF Waiting, Chan
<1>5. q \in Phy /\ (q = phychan[w] \/ (phychan[w] = None /\ (q = p \/ serving[q] = None)))
  <2>1. CASE phychan[w] # None  BY <1>b, <1>4, <2>1 DEF IInv, OwnType
  <2>2. CASE phychan[w] = None
    <3>1. q \in FreePhy(Released(c))  BY <1>b, <2>2, FirstIn
    <3>2. QED  BY <3>1, <2>2, <1>0 DEF FreePhy, Released, IInv, OwnType
  <2>3. QED  BY <2>1, <2>2
<1>6. OwnType'
  BY <1>0, <1>1, <1>2, <1>3, <1>4, <1>5 DEF IInv, OwnType, Released
<1>7. PhyExclusive'
  BY <1>0, <1>1, <1>4, <1>5, NoneIsNone DEF IInv, OwnType, PhyExclusive, Released
<1>8. NoStrayDma'
  BY <1>0, <1>1, <1>2, <1>4, <1>5, NoneIsNone DEF IInv, OwnType, NoStrayDma, Released
<1>9. QED  BY <1>6, <1>7, <1>8 DEF IInv

(* The interrupt handler. *)
LEMMA HandlerInv == ASSUME IInv, Handler PROVE IInv'
<1>1. CASE IrqChan
  <2> DEFINE after(p) == [irq EXCEPT !.val = @ \ {p}, !.mask = @ \cup {p},
                               !.cb = IF IsTxd(chan[serving[p]].at) THEN serving[p] ELSE None]
  <2>1. PICK p \in First(irq.val) :
          \/ Crash
          \/ serving[p] # None /\ pl08x_tasklet(serving[p], p) /\ irq' = after(p)
    BY <1>1, Zenon DEF IrqChan
  <2>2. p \in Phy  BY FirstIn DEF IInv, OwnType, IrqRec
  <2>3. CASE Crash  BY <2>3, SameInv DEF Crash, ownVars, IInv, OwnType
  <2>4. CASE serving[p] # None /\ pl08x_tasklet(serving[p], p) /\ irq' = after(p)
    <3> DEFINE c == serving[p]
    <3>0. c \in Chan /\ phychan[c] = p /\ p # None /\ tc \subseteq Phy
      BY <2>2, <2>4, NoneIsNone DEF IInv, OwnType, PhyExclusive
    <3>a. irq' \in IrqRec
      BY <2>2, <2>4, <3>0 DEF IInv, OwnType, IrqRec
    <3>1. CASE TaskletNext(c, p)
      <4>1. tc' \subseteq Phy  BY <2>2, <3>0, <3>1 DEF TaskletNext, StartHw
      <4>2. QED  BY <2>2, <2>4, <3>0, <3>a, <3>1, <4>1, HwInv DEF TaskletNext, StartHw
    <3>2. CASE TaskletHold(c)
      BY <3>0, <3>a, <3>2, SameInv DEF TaskletHold, ownVars
    <3>3. CASE TaskletRelease(c, p)
      BY <3>0, <3>a, <3>3, ReleaseInv DEF TaskletRelease
    <3>4. CASE TaskletHandover(c, p)
      BY <2>2, <3>0, <3>a, <3>4, HandoverInv
    <3>5. QED  BY <2>4, <3>1, <3>2, <3>3, <3>4 DEF pl08x_tasklet
  <2>5. QED  BY <2>1, <2>3, <2>4
<1>2. CASE IrqEnter
  BY <1>2, SameInv, NoneIsNone DEF IrqEnter, ownVars, IInv, OwnType, IrqRec
<1>3. CASE CallbackReturn
  BY <1>3, SameInv DEF CallbackReturn, ownVars, IInv, OwnType, IrqRec
<1>4. CASE IrqExit
  BY <1>4, SameInv DEF IrqExit, IrqIdle, ownVars, IInv, OwnType, IrqRec
<1>5. QED  BY <1>1, <1>2, <1>3, <1>4 DEF Handler

(* Every step keeps the invariant. *)
LEMMA NextInv == IInv /\ [Next]_vars => IInv'
<1> SUFFICES ASSUME IInv, [Next]_vars PROVE IInv'  OBVIOUS
<1>1. ASSUME NEW c \in Chan, pl08x_tx_submit(c) PROVE IInv'
  BY <1>1, SameInv DEF pl08x_tx_submit, ownVars, IInv, OwnType
<1>2. ASSUME NEW p \in Phy, HwComplete(p) PROVE IInv'
  <2>1. hw[p] # "idle" /\ hw' = [hw EXCEPT ![p] = "idle"] /\ tc' = tc \cup {p}
        /\ UNCHANGED <<phychan, serving, irq>>
    BY <1>2 DEF HwComplete
  <2>2. serving[p] # None  BY <2>1 DEF IInv, NoStrayDma
  <2>3. tc' \subseteq Phy /\ irq' \in IrqRec  BY <2>1 DEF IInv, OwnType
  <2>4. QED  BY <2>1, <2>2, <2>3, HwInv
<1>3. CASE UNCHANGED vars
  BY <1>3, SameInv DEF vars, ownVars, IInv, OwnType
<1>4. ASSUME NEW p \in Phy, HwError(p) PROVE IInv'
  <2>1. hw[p] # "idle" /\ hw' = [hw EXCEPT ![p] = "idle"] /\ UNCHANGED <<phychan, serving, tc, irq>>
    BY <1>4 DEF HwError
  <2>2. serving[p] # None  BY <2>1 DEF IInv, NoStrayDma
  <2>3. tc' \subseteq Phy /\ irq' \in IrqRec  BY <2>1 DEF IInv, OwnType
  <2>4. QED  BY <2>1, <2>2, <2>3, HwInv
<1>5. QED
  BY <1>1, <1>2, <1>3, <1>4, PrepInv, IssueInv, ControlInv, HandlerInv DEF Next

(* For every number of slave, memcpy and physical channels, whatever clients *)
(* and hardware do: a physical channel serves one virtual channel at a time, *)
(* both sides of the association agree, and a channel that moves data has an *)
(* owner (prep_phy_channel, release_phy_channel, pl08x_tasklet).             *)
THEOREM PhysicalChannelsOwned == Spec => [](PhyExclusive /\ NoStrayDma)
<1>1. IInv => PhyExclusive /\ NoStrayDma  BY DEF IInv
<1>2. QED  BY InitInv, NextInv, <1>1, PTL DEF Spec

-----------------------------------------------------------------------------
(* Pl08x implements DmaChannel.                                              *)

ChanType ==
    /\ chan \in [Chan -> ChanRec]
    /\ prepared \in [Chan -> Seq(BOOLEAN)]
    /\ crashed \in BOOLEAN

(* A channel with an active descriptor has a physical channel, so only one   *)
(* without is refused another descriptor in PrepNoPhy.                       *)
ActiveHasPhy == \A c \in Chan : IsTxd(chan[c].at) => phychan[c] # None

RInv == IInv /\ ChanType /\ ActiveHasPhy

\* The part of a channel a client can see.
View(c) == <<chan[c].at, chan[c].pend_list, chan[c].cookie, chan[c].lc>>

\* What a step is to a client of the driver.
ClientStep == Client!Next \/ UNCHANGED Client!vars

-----------------------------------------------------------------------------
(* A queue is its first descriptor and the others. *)
LEMMA ConsIsSeq == ASSUME NEW S, NEW s \in Seq(S), s # <<>>
                   PROVE  /\ Head(s) \in S /\ Tail(s) \in Seq(S)
                          /\ <<Head(s)>> \o Tail(s) = s
<1>1. Len(s) \in Nat /\ Len(s) # 0  OBVIOUS
<1>2. Head(s) \in S /\ Tail(s) \in Seq(S)  BY <1>1
<1>3. <<Head(s)>> \o Tail(s) \in Seq(S)  BY <1>2
<1>4. Len(<<Head(s)>> \o Tail(s)) = Len(s)  BY <1>1, <1>2
<1>5. ASSUME NEW i \in 1..Len(s) PROVE (<<Head(s)>> \o Tail(s))[i] = s[i]
  BY <1>1, <1>2
<1>6. QED  BY <1>1, <1>3, <1>4, <1>5

(* The first descriptor put before the others. *)
LEMMA ConsParts == ASSUME NEW S, NEW x \in S, NEW s \in Seq(S)
                   PROVE  /\ <<x>> \o s \in Seq(S) /\ <<x>> \o s # <<>>
                          /\ Head(<<x>> \o s) = x /\ Tail(<<x>> \o s) = s
<1> DEFINE t == <<x>> \o s
<1>1. Len(s) \in Nat /\ Len(t) = 1 + Len(s) /\ t \in Seq(S) /\ t[1] = x  OBVIOUS
<1>2. \A i \in 1..Len(s) : t[i + 1] = s[i]  BY <1>1
<1> HIDE DEF t
<1>3. Len(t) # 0  BY <1>1
<1>4. t # <<>> /\ Head(t) = x  BY <1>1, <1>3
<1>5. Tail(t) \in Seq(S) /\ Len(Tail(t)) = Len(s)  BY <1>1, <1>4
<1>6. \A i \in 1..Len(s) : Tail(t)[i] = s[i]  BY <1>1, <1>2, <1>4, <1>5
<1>7. Tail(t) = s  BY <1>1, <1>5, <1>6
<1>8. QED  BY <1>1, <1>4, <1>7 DEF t

(* A descriptor appended after the first and the others. *)
LEMMA ConsAppend == ASSUME NEW S, NEW x \in S, NEW s \in Seq(S), NEW y \in S
                    PROVE  Append(<<x>> \o s, y) = <<x>> \o Append(s, y)
<1> DEFINE t == <<x>> \o s
           u == <<x>> \o Append(s, y)
<1>1. Len(s) \in Nat /\ Len(t) = 1 + Len(s) /\ t \in Seq(S)  OBVIOUS
<1>2. Len(u) = 2 + Len(s) /\ u \in Seq(S) /\ Append(t, y) \in Seq(S) /\ Len(Append(t, y)) = 2 + Len(s)
  BY <1>1
<1>3. ASSUME NEW i \in 1..(2 + Len(s)) PROVE Append(t, y)[i] = u[i]
  BY <1>1, <1>2
<1>4. QED  BY <1>1, <1>2, <1>3

-----------------------------------------------------------------------------
(* What a client sees of channel c, by the value of chan[c].at. *)
LEMMA QueueOf ==
    ASSUME ChanType, NEW c \in Chan
    PROVE  LET q == Outstanding(c)
               p == chan[c].pend_list IN
           /\ p \in Seq(Txd) /\ q \in Seq(Txd)
           /\ IsTxd(chan[c].at) => /\ chan[c].at \in Txd /\ q = <<chan[c].at>> \o p
                                   /\ q # <<>> /\ Head(q) = chan[c].at /\ Tail(q) = p
           /\ ~IsTxd(chan[c].at) => q = p
<1>1. chan[c].pend_list \in Seq(Txd) /\ chan[c].at \in Txd \cup {NoTxd}
  BY DEF ChanType, ChanRec
<1>2. IsTxd(chan[c].at) => chan[c].at \in Txd  BY <1>1 DEF IsTxd, NoTxd
<1>3. CASE IsTxd(chan[c].at)
  <2> DEFINE p == chan[c].pend_list
             q == <<chan[c].at>> \o p
  <2>1. q \in Seq(Txd) /\ q # <<>> /\ Head(q) = chan[c].at /\ Tail(q) = p
    BY <1>1, <1>2, <1>3, ConsParts
  <2>2. Outstanding(c) = q  BY <1>3 DEF Outstanding
  <2> HIDE DEF q
  <2>3. QED  BY <1>1, <1>2, <1>3, <2>1, <2>2 DEF q
<1>4. CASE ~IsTxd(chan[c].at)
  <2>1. Outstanding(c) = chan[c].pend_list  BY <1>4 DEF Outstanding
  <2>2. QED  BY <1>1, <1>4, <2>1
<1>5. QED  BY <1>3, <1>4

(* A step that changes no view is a stuttering step. *)
LEMMA SameView == ASSUME \A d \in Chan : View(d)' = View(d) PROVE UNCHANGED Client!vars
<1>1. \A d \in Chan : /\ chan'[d].at = chan[d].at /\ chan'[d].pend_list = chan[d].pend_list
                      /\ chan'[d].cookie = chan[d].cookie /\ chan'[d].lc = chan[d].lc
  BY DEF View
<1>2. \A d \in Chan : Outstanding(d)' = Outstanding(d)  BY <1>1 DEF Outstanding
<1>3. QED  BY <1>1, <1>2 DEF Client!vars

(* A step that starts the first pending descriptor of w. *)
LEMMA StartView ==
    ASSUME ChanType, NEW w \in Chan, \A d \in Chan \ {w} : View(d)' = View(d),
           ~IsTxd(chan[w].at), chan[w].pend_list # <<>>,
           View(w)' = <<Head(chan[w].pend_list), Tail(chan[w].pend_list), chan[w].cookie, chan[w].lc>>
    PROVE  Client!Start(w)
<1> DEFINE p == chan[w].pend_list
<1>1. \A d \in Chan \ {w} : /\ chan'[d].at = chan[d].at /\ chan'[d].pend_list = chan[d].pend_list
                            /\ chan'[d].cookie = chan[d].cookie /\ chan'[d].lc = chan[d].lc
  BY DEF View
<1>2. /\ chan'[w].at = Head(p) /\ chan'[w].pend_list = Tail(p)
      /\ chan'[w].cookie = chan[w].cookie /\ chan'[w].lc = chan[w].lc
  BY DEF View
<1>3. p \in Seq(Txd) /\ Outstanding(w) = p  BY QueueOf
<1>4. Head(p) \in Txd /\ <<Head(p)>> \o Tail(p) = p  BY <1>3, ConsIsSeq
<1>5. IsTxd(chan'[w].at)  BY <1>2, <1>4 DEF Txd, IsTxd
<1>6. Outstanding(w)' = p  BY <1>2, <1>4, <1>5 DEF Outstanding
<1>7. \A d \in Chan : Outstanding(d)' = Outstanding(d)  BY <1>1, <1>3, <1>6 DEF Outstanding
<1>8. \A d \in Chan : IsTxd(chan'[d].at) = IF d = w THEN TRUE ELSE IsTxd(chan[d].at)
  BY <1>1, <1>5 DEF IsTxd
<1>9. \A d \in Chan : chan'[d].cookie = chan[d].cookie /\ chan'[d].lc = chan[d].lc
  BY <1>1, <1>2
<1>10. [d \in Chan |-> IsTxd(chan'[d].at)] = [[d \in Chan |-> IsTxd(chan[d].at)] EXCEPT ![w] = TRUE]
  BY <1>8 
<1>11. QED  BY <1>3, <1>7, <1>9, <1>10 DEF Client!Start

(* The active descriptor of c completes; the next one, if any, becomes the   *)
(* active one, or else channel w may start.                                  *)
LEMMA CompleteView ==
    ASSUME ChanType, NEW c \in Chan, IsTxd(chan[c].at),
           chan'[c].lc = chan[c].at.cookie, \A d \in Chan \ {c} : chan'[d].lc = chan[d].lc,
           \A d \in Chan : chan'[d].cookie = chan[d].cookie,
           Outstanding(c)' = chan[c].pend_list,
           \A d \in Chan \ {c} : Outstanding(d)' = Outstanding(d)
    PROVE  Client!Complete(c)
<1>1. Head(Outstanding(c)) = chan[c].at /\ Tail(Outstanding(c)) = chan[c].pend_list
  BY QueueOf
<1>2. QED  BY <1>1 DEF Client!Complete

(* The active descriptor of c completes and the next one is started. *)
LEMMA NextView ==
    ASSUME ChanType, NEW c \in Chan, IsTxd(chan[c].at),
           \A d \in Chan \ {c} : View(d)' = View(d),
           chan[c].pend_list # <<>>,
           View(c)' = <<Head(chan[c].pend_list), Tail(chan[c].pend_list),
                        chan[c].cookie, chan[c].at.cookie>>
    PROVE  Client!CompleteAlone(c)
<1> DEFINE p == chan[c].pend_list
<1>1. \A d \in Chan \ {c} : /\ chan'[d].at = chan[d].at /\ chan'[d].pend_list = chan[d].pend_list
                            /\ chan'[d].cookie = chan[d].cookie /\ chan'[d].lc = chan[d].lc
  BY DEF View
<1>2. /\ chan'[c].at = Head(p) /\ chan'[c].pend_list = Tail(p)
      /\ chan'[c].cookie = chan[c].cookie /\ chan'[c].lc = chan[c].at.cookie
  BY DEF View
<1>3. p \in Seq(Txd) /\ Tail(Outstanding(c)) = p  BY QueueOf
<1>4. Head(p) \in Txd /\ <<Head(p)>> \o Tail(p) = p  BY <1>3, ConsIsSeq
<1>5. IsTxd(chan'[c].at)  BY <1>2, <1>4 DEF Txd, IsTxd
<1>6. Outstanding(c)' = p  BY <1>2, <1>4, <1>5 DEF Outstanding
<1>7. \A d \in Chan \ {c} : Outstanding(d)' = Outstanding(d)  BY <1>1 DEF Outstanding
<1>8. Client!Complete(c)  BY <1>1, <1>2, <1>6, <1>7, CompleteView
<1>9. \A d \in Chan : IsTxd(chan'[d].at) = IF d = c THEN TRUE ELSE IsTxd(chan[d].at)
  BY <1>1, <1>5 DEF IsTxd
<1>10. [d \in Chan |-> IsTxd(chan'[d].at)] = [[d \in Chan |-> IsTxd(chan[d].at)] EXCEPT ![c] = TRUE]
  BY <1>9
<1>11. QED  BY <1>3, <1>8, <1>10 DEF Client!CompleteAlone

(* The last descriptor of c completes, and no channel starts. *)
LEMMA LastView ==
    ASSUME ChanType, NEW c \in Chan, IsTxd(chan[c].at),
           \A d \in Chan \ {c} : View(d)' = View(d),
           chan[c].pend_list = <<>>,
           View(c)' = <<NoTxd, <<>>, chan[c].cookie, chan[c].at.cookie>>
    PROVE  Client!CompleteAlone(c)
<1>1. \A d \in Chan \ {c} : /\ chan'[d].at = chan[d].at /\ chan'[d].pend_list = chan[d].pend_list
                            /\ chan'[d].cookie = chan[d].cookie /\ chan'[d].lc = chan[d].lc
  BY DEF View
<1>2. /\ chan'[c].at = NoTxd /\ chan'[c].pend_list = <<>>
      /\ chan'[c].cookie = chan[c].cookie /\ chan'[c].lc = chan[c].at.cookie
  BY DEF View
<1>3. Tail(Outstanding(c)) = <<>>  BY QueueOf
<1>4. ~IsTxd(chan'[c].at)  BY <1>2 DEF NoTxd, IsTxd
<1>5. Outstanding(c)' = <<>>  BY <1>2, <1>4 DEF Outstanding
<1>6. \A d \in Chan \ {c} : Outstanding(d)' = Outstanding(d)  BY <1>1 DEF Outstanding
<1>7. Client!Complete(c)  BY <1>1, <1>2, <1>5, <1>6, CompleteView
<1>8. \A d \in Chan : IsTxd(chan'[d].at) = IF d = c THEN FALSE ELSE IsTxd(chan[d].at)
  BY <1>1, <1>4 DEF IsTxd
<1>9. [d \in Chan |-> IsTxd(chan'[d].at)] = [[d \in Chan |-> IsTxd(chan[d].at)] EXCEPT ![c] = FALSE]
  BY <1>8
<1>10. QED  BY <1>3, <1>7, <1>9 DEF Client!CompleteAlone

(* The last descriptor of c completes, and the waiting channel w starts. *)
LEMMA HandView ==
    ASSUME ChanType, NEW c \in Chan, NEW w \in Chan, w # c,
           IsTxd(chan[c].at), ~IsTxd(chan[w].at),
           \A d \in Chan \ {c, w} : View(d)' = View(d),
           chan[c].pend_list = <<>>, chan[w].pend_list # <<>>,
           View(c)' = <<NoTxd, <<>>, chan[c].cookie, chan[c].at.cookie>>,
           View(w)' = <<Head(chan[w].pend_list), Tail(chan[w].pend_list), chan[w].cookie, chan[w].lc>>
    PROVE  Client!CompleteAndStart(c, w)
<1> DEFINE p == chan[w].pend_list
<1>1. \A d \in Chan \ {c, w} : /\ chan'[d].at = chan[d].at /\ chan'[d].pend_list = chan[d].pend_list
                               /\ chan'[d].cookie = chan[d].cookie /\ chan'[d].lc = chan[d].lc
  BY DEF View
<1>2. /\ chan'[c].at = NoTxd /\ chan'[c].pend_list = <<>>
      /\ chan'[c].cookie = chan[c].cookie /\ chan'[c].lc = chan[c].at.cookie
  BY DEF View
<1>3. /\ chan'[w].at = Head(p) /\ chan'[w].pend_list = Tail(p)
      /\ chan'[w].cookie = chan[w].cookie /\ chan'[w].lc = chan[w].lc
  BY DEF View
<1>4. Tail(Outstanding(c)) = <<>>  BY QueueOf
<1>5. p \in Seq(Txd) /\ Outstanding(w) = p  BY QueueOf
<1>6. Head(p) \in Txd /\ <<Head(p)>> \o Tail(p) = p  BY <1>5, ConsIsSeq
<1>7. IsTxd(chan'[w].at) /\ ~IsTxd(chan'[c].at)  BY <1>2, <1>3, <1>6 DEF Txd, NoTxd, IsTxd
<1>8. Outstanding(c)' = <<>>  BY <1>2, <1>7 DEF Outstanding
<1>9. Outstanding(w)' = p  BY <1>3, <1>6, <1>7 DEF Outstanding
<1>10. \A d \in Chan \ {c} : Outstanding(d)' = Outstanding(d)  BY <1>1, <1>5, <1>9 DEF Outstanding
<1>11. Client!Complete(c)  BY <1>1, <1>2, <1>3, <1>8, <1>10, CompleteView
<1>12. \A d \in Chan : IsTxd(chan'[d].at)
                      = IF d = c THEN FALSE ELSE IF d = w THEN TRUE ELSE IsTxd(chan[d].at)
  BY <1>1, <1>7 DEF IsTxd
<1>13. [d \in Chan |-> IsTxd(chan'[d].at)]
       = [[d \in Chan |-> IsTxd(chan[d].at)] EXCEPT ![c] = FALSE, ![w] = TRUE]
  BY <1>12
<1>14. QED  BY <1>4, <1>5, <1>11, <1>13 DEF Client!CompleteAndStart

(* A channel loses all its descriptors. *)
LEMMA DiscardView ==
    ASSUME ChanType, NEW c \in Chan, \A d \in Chan \ {c} : View(d)' = View(d),
           View(c)' = <<NoTxd, <<>>, chan[c].cookie, chan[c].lc>>
    PROVE  Client!Discard(c)
<1>1. \A d \in Chan \ {c} : /\ chan'[d].at = chan[d].at /\ chan'[d].pend_list = chan[d].pend_list
                            /\ chan'[d].cookie = chan[d].cookie /\ chan'[d].lc = chan[d].lc
  BY DEF View
<1>2. /\ chan'[c].at = NoTxd /\ chan'[c].pend_list = <<>>
      /\ chan'[c].cookie = chan[c].cookie /\ chan'[c].lc = chan[c].lc
  BY DEF View
<1>3. ~IsTxd(chan'[c].at)  BY <1>2 DEF NoTxd, IsTxd
<1>4. \A d \in Chan : Outstanding(d)' = IF d = c THEN <<>> ELSE Outstanding(d)
  BY <1>1, <1>2, <1>3 DEF Outstanding
<1>5. \A d \in Chan : IsTxd(chan'[d].at) = IF d = c THEN FALSE ELSE IsTxd(chan[d].at)
  BY <1>1, <1>3 DEF IsTxd
<1>6. [d \in Chan |-> IsTxd(chan'[d].at)] = [[d \in Chan |-> IsTxd(chan[d].at)] EXCEPT ![c] = FALSE]
  BY <1>5
<1>7. \A d \in Chan : chan'[d].cookie = chan[d].cookie /\ chan'[d].lc = chan[d].lc
  BY <1>1, <1>2
<1>8. QED  BY <1>4, <1>6, <1>7 DEF Client!Discard

(* A descriptor joins the queue of c. *)
LEMMA SubmitView ==
    ASSUME ChanType, NEW c \in Chan, \A d \in Chan \ {c} : View(d)' = View(d),
           NEW s \in BOOLEAN, NEW k \in 1..MaxCookie, k = NextCookie(chan[c].cookie), CookieFree(c, k),
           View(c)' = <<chan[c].at, Append(chan[c].pend_list, [cookie |-> k, signal |-> s]),
                        k, chan[c].lc>>
    PROVE  Client!Submit(c, s)
<1> DEFINE t == [cookie |-> k, signal |-> s]
           p == chan[c].pend_list
<1>1. \A d \in Chan \ {c} : /\ chan'[d].at = chan[d].at /\ chan'[d].pend_list = chan[d].pend_list
                            /\ chan'[d].cookie = chan[d].cookie /\ chan'[d].lc = chan[d].lc
  BY DEF View
<1>2. /\ chan'[c].at = chan[c].at /\ chan'[c].pend_list = Append(p, t)
      /\ chan'[c].cookie = k /\ chan'[c].lc = chan[c].lc
  BY DEF View
<1>3. t \in Txd  BY DEF Txd
<1>4. Outstanding(c)' = Append(Outstanding(c), t)
  <2> HIDE DEF t
  <2>0. p \in Seq(Txd)  BY QueueOf
  <2>1. CASE IsTxd(chan[c].at)
    <3>1. chan[c].at \in Txd /\ Outstanding(c) = <<chan[c].at>> \o p  BY <2>1, QueueOf
    <3>2. Outstanding(c)' = <<chan[c].at>> \o Append(p, t)  BY <1>2, <2>1 DEF Outstanding
    <3>3. Append(<<chan[c].at>> \o p, t) = <<chan[c].at>> \o Append(p, t)
      BY <1>3, <2>0, <3>1, ConsAppend
    <3>4. QED  BY <3>1, <3>2, <3>3
  <2>2. CASE ~IsTxd(chan[c].at)  BY <1>2, <2>2 DEF Outstanding
  <2>3. QED  BY <2>1, <2>2
<1>5. \A d \in Chan \ {c} : Outstanding(d)' = Outstanding(d)  BY <1>1 DEF Outstanding
<1>6. [d \in Chan |-> Outstanding(d)']
      = [[d \in Chan |-> Outstanding(d)] EXCEPT ![c] = Append(Outstanding(c), t)]
  <2> HIDE DEF t
  <2>1. QED  BY <1>4, <1>5
<1>7. /\ [d \in Chan |-> chan'[d].cookie] = [[d \in Chan |-> chan[d].cookie] EXCEPT ![c] = k]
      /\ [d \in Chan |-> chan'[d].lc] = [d \in Chan |-> chan[d].lc]
      /\ [d \in Chan |-> IsTxd(chan'[d].at)] = [d \in Chan |-> IsTxd(chan[d].at)]
  BY <1>1, <1>2
<1>8. QED
  BY <1>6, <1>7 DEF Client!Submit, Client!NextCookie, Client!CookieFree, NextCookie, CookieFree
-----------------------------------------------------------------------------
(* The states of a channel. *)
States == {"IDLE", "RUNNING", "PAUSED", "WAITING"}

(* A step that replaces the record of one channel. *)
LEMMA OneChan ==
    ASSUME ChanType, NEW c \in Chan, NEW r \in ChanRec, chan' = [chan EXCEPT ![c] = r]
    PROVE  /\ chan' \in [Chan -> ChanRec] /\ chan'[c] = r
           /\ \A d \in Chan \ {c} : chan'[d] = chan[d] /\ View(d)' = View(d)
           /\ View(c)' = <<r.at, r.pend_list, r.cookie, r.lc>>
  BY DEF ChanType, View

(* What ActiveHasPhy depends on. *)
LEMMA ActiveSame ==
    ASSUME ActiveHasPhy, \A d \in Chan : IsTxd(chan'[d].at) /\ phychan'[d] = None =>
                                          IsTxd(chan[d].at) /\ phychan[d] = None
    PROVE  ActiveHasPhy'
  BY DEF ActiveHasPhy

(* Without an active descriptor, at is NULL. *)
LEMMA NotActive == ASSUME ChanType, NEW c \in Chan, ~IsTxd(chan[c].at) PROVE chan[c].at = NoTxd
  BY DEF ChanType, ChanRec, Txd, IsTxd

(* Preparing a descriptor: what the client has submitted stays, unless it is *)
(* refused.                                                                  *)
LEMMA PrepStep == ASSUME RInv, NEW c \in Chan, pl08x_prep(c)
                  PROVE  ChanType' /\ ActiveHasPhy' /\ ClientStep
<1>0. crashed' = crashed /\ ChanType /\ ActiveHasPhy /\ chan[c] \in ChanRec
  BY DEF pl08x_prep, RInv, ChanType
<1>1. prepared' \in [Chan -> Seq(BOOLEAN)]
  <2>1. prepared' = prepared \/ \E b \in BOOLEAN : prepared' = [prepared EXCEPT ![c] = Append(prepared[c], b)]
    <3>1. CASE PrepHasPhy(c)  BY <3>1, Zenon DEF PrepHasPhy
    <3>2. CASE PrepGetsPhy(c)
      <4>1. (c \in Slave) \in BOOLEAN  OBVIOUS
      <4>2. prepared' = [prepared EXCEPT ![c] = Append(prepared[c], c \in Slave)]
        BY <3>2, Zenon DEF PrepGetsPhy
      <4>3. QED  BY <4>1, <4>2, Zenon
    <3>3. CASE PrepNoPhy(c)  BY <3>3, Zenon DEF PrepNoPhy
    <3>4. QED  BY <3>1, <3>2, <3>3, Zenon DEF pl08x_prep
  <2>2. ASSUME NEW b \in BOOLEAN PROVE Append(prepared[c], b) \in Seq(BOOLEAN)
    BY <1>0 DEF ChanType
  <2>3. QED  BY <1>0, <2>1, <2>2 DEF ChanType
<1>2. ASSUME \A d \in Chan : View(d)' = View(d), chan' \in [Chan -> ChanRec],
             \A d \in Chan : phychan'[d] = None => phychan[d] = None
      PROVE  ChanType' /\ ActiveHasPhy' /\ ClientStep
  <2>1. ActiveHasPhy'  BY <1>0, <1>2, ActiveSame DEF View
  <2>2. ClientStep  BY <1>2, SameView DEF ClientStep
  <2>3. QED  BY <1>0, <1>1, <1>2, <2>1, <2>2 DEF ChanType
<1>3. CASE PrepHasPhy(c)
  <2>1. chan' = [chan EXCEPT ![c] = [chan[c] EXCEPT !.state = IdleToPaused(chan[c].state)]]
    BY <1>3 DEF PrepHasPhy
  <2>2. chan' \in [Chan -> ChanRec] /\ \A d \in Chan : View(d)' = View(d)
    BY <1>0, <2>1 DEF ChanType, ChanRec, View, IdleToPaused
  <2>3. QED  BY <1>2, <1>3, <2>2 DEF PrepHasPhy
<1>4. CASE PrepGetsPhy(c)
  <2> DEFINE st == IdleToPaused(chan[c].state)
             h == chan[c].phychan_hold + 1
             r == [chan[c] EXCEPT !.state = st, !.phychan_hold = h]
  <2>1. chan' = [chan EXCEPT ![c] = r]  BY <1>4, Zenon DEF PrepGetsPhy
  <2>2. h \in Int /\ st \in States  BY <1>0 DEF ChanRec, IdleToPaused, States
  <2> HIDE DEF st, h
  <2>3. r \in ChanRec /\ r.at = chan[c].at /\ r.pend_list = chan[c].pend_list
        /\ r.cookie = chan[c].cookie /\ r.lc = chan[c].lc
    BY <1>0, <2>2 DEF ChanRec, States
  <2> HIDE DEF r
  <2>4. chan' \in [Chan -> ChanRec] /\ \A d \in Chan : View(d)' = View(d)
    BY <1>0, <2>1, <2>3, OneChan DEF View
  <2>5. PICK p \in First(FreePhy(serving)) : phychan' = [phychan EXCEPT ![c] = p]
    BY <1>4 DEF PrepGetsPhy
  <2>6. p \in Phy  BY FirstIn DEF FreePhy
  <2>7. \A d \in Chan : phychan'[d] = None => phychan[d] = None
    BY <2>5, <2>6, NoneIsNone DEF RInv, IInv, OwnType
  <2>8. QED  BY <1>2, <2>4, <2>7
<1>5. CASE PrepNoPhy(c)
  <2>1. CASE UNCHANGED chan
    BY <1>0, <1>2, <1>5, <2>1 DEF PrepNoPhy, View, ChanType
  <2>2. CASE chan' = [chan EXCEPT ![c].pend_list = <<>>]
    <3> DEFINE r == [chan[c] EXCEPT !.pend_list = <<>>]
    <3>1. chan' = [chan EXCEPT ![c] = r]  BY <2>2
    <3>2. chan[c].at = NoTxd  BY <1>0, <1>5, NotActive DEF PrepNoPhy, ActiveHasPhy
    <3>3. r \in ChanRec /\ r.at = NoTxd /\ r.pend_list = <<>>
          /\ r.cookie = chan[c].cookie /\ r.lc = chan[c].lc
      <4>1. <<>> \in Seq(Txd)  OBVIOUS
      <4>2. QED  BY <1>0, <3>2, <4>1 DEF ChanRec
    <3> HIDE DEF r
    <3>4. Client!Discard(c) /\ chan' \in [Chan -> ChanRec]
      BY <1>0, <3>1, <3>3, OneChan, DiscardView
    <3>5. ActiveHasPhy'
      <4>1. phychan' = phychan  BY <1>5 DEF PrepNoPhy
      <4>2. \A d \in Chan : IsTxd(chan'[d].at) => IsTxd(chan[d].at)
        BY <1>0, <3>1, <3>2, <3>3, OneChan
      <4>3. QED  BY <1>0, <4>1, <4>2, ActiveSame
    <3>6. QED  BY <1>0, <1>1, <3>4, <3>5 DEF ChanType, ClientStep, Client!Next
  <2>3. QED  BY <1>5, <2>1, <2>2 DEF PrepNoPhy
<1>6. QED  BY <1>3, <1>4, <1>5 DEF pl08x_prep

(* Submitting a descriptor. *)
LEMMA SubmitStep == ASSUME RInv, NEW c \in Chan, pl08x_tx_submit(c)
                    PROVE  ChanType' /\ ActiveHasPhy' /\ ClientStep
<1>0. /\ crashed' = crashed /\ phychan' = phychan /\ ChanType /\ ActiveHasPhy
      /\ chan[c] \in ChanRec
  BY DEF pl08x_tx_submit, RInv, ChanType
<1>1. Head(prepared[c]) \in BOOLEAN /\ Tail(prepared[c]) \in Seq(BOOLEAN)
  BY <1>0, ConsIsSeq DEF pl08x_tx_submit, ChanType
<1>2. PICK s \in BOOLEAN : s = Head(prepared[c])  BY <1>1
<1>3. PICK k \in 1..MaxCookie : k = NextCookie(chan[c].cookie)
  BY <1>0, Pl08xAssumption DEF ChanRec, NextCookie
<1> DEFINE wait == c \in Memcpy /\ phychan[c] = None
<1>4. PICK st \in States : st = IF wait THEN "WAITING" ELSE chan[c].state
  BY <1>0 DEF ChanRec, States
<1>5. PICK h \in Int : h = IF wait THEN chan[c].phychan_hold ELSE chan[c].phychan_hold - 1
  BY <1>0 DEF ChanRec
<1>6. PICK wt \in BOOLEAN : wt = (chan[c].waiting \/ wait)
  BY Zenon
<1> DEFINE t == [cookie |-> k, signal |-> s]
           p == Append(chan[c].pend_list, t)
           r == [chan[c] EXCEPT !.cookie = k, !.pend_list = p, !.state = st,
                                !.waiting = wt, !.phychan_hold = h]
<1>7. chan' = [chan EXCEPT ![c] = r]
  BY <1>2, <1>3, <1>4, <1>5, <1>6, Zenon DEF pl08x_tx_submit
<1>8. p \in Seq(Txd)
  <2>1. t \in Txd  BY <1>2, <1>3 DEF Txd
  <2> HIDE DEF t
  <2>2. QED  BY <1>0, <2>1 DEF ChanRec
<1>9. CookieFree(c, k)  BY <1>3 DEF pl08x_tx_submit
<1>10. r \in ChanRec /\ r.at = chan[c].at /\ r.pend_list = p /\ r.cookie = k /\ r.lc = chan[c].lc
  <2> HIDE DEF p
  <2>1. k \in 0..MaxCookie  OBVIOUS
  <2>2. QED  BY <1>0, <1>8, <2>1 DEF ChanRec, States
<1>11. /\ chan' \in [Chan -> ChanRec] /\ \A d \in Chan \ {c} : View(d)' = View(d)
       /\ View(c)' = <<chan[c].at, p, k, chan[c].lc>>
  <2> HIDE DEF r, p
  <2>1. QED  BY <1>0, <1>7, <1>10, OneChan
<1>12. Client!Submit(c, s)  BY <1>0, <1>3, <1>9, <1>11, SubmitView
<1>13. ActiveHasPhy'
  <2>1. \A d \in Chan : IsTxd(chan'[d].at) => IsTxd(chan[d].at)  BY <1>11 DEF View
  <2>2. QED  BY <1>0, <2>1, ActiveSame
<1>14. prepared' \in [Chan -> Seq(BOOLEAN)]
  BY <1>0, <1>1 DEF pl08x_tx_submit, ChanType
<1>15. ClientStep  BY <1>12 DEF ClientStep, Client!Next
<1>16. QED  BY <1>0, <1>11, <1>13, <1>14, <1>15 DEF ChanType

-----------------------------------------------------------------------------
(* The first pending descriptor becomes the active one. *)
LEMMA StartNextFields ==
    ASSUME NEW ch \in [Chan -> ChanRec], NEW c \in Chan, ch[c].pend_list # <<>>
    PROVE  LET s == StartNext(ch, c)
               p == ch[c].pend_list IN
           /\ s \in [Chan -> ChanRec] /\ \A d \in Chan \ {c} : s[d] = ch[d]
           /\ s[c].at = Head(p) /\ s[c].pend_list = Tail(p)
           /\ s[c].cookie = ch[c].cookie /\ s[c].lc = ch[c].lc
<1> DEFINE p == ch[c].pend_list
           hd == Head(p)
           tl == Tail(p)
           r == [ch[c] EXCEPT !.at = hd, !.pend_list = tl, !.state = "RUNNING"]
<1>1. StartNext(ch, c) = [ch EXCEPT ![c] = r]  BY Zenon DEF StartNext
<1>2. ch[c] \in ChanRec  OBVIOUS
<1>3. hd \in Txd /\ tl \in Seq(Txd)  BY <1>2, ConsIsSeq DEF ChanRec
<1> HIDE DEF hd, tl
<1>4. r \in ChanRec /\ r.at = hd /\ r.pend_list = tl /\ r.cookie = ch[c].cookie /\ r.lc = ch[c].lc
  BY <1>2, <1>3 DEF ChanRec
<1> HIDE DEF r
<1>5. QED  BY <1>1, <1>4 DEF hd, tl

(* The active descriptor, if any, is retired. *)
LEMMA RetiredFields ==
    ASSUME ChanType, NEW c \in Chan
    PROVE  LET s == Retired(c) IN
           /\ s \in [Chan -> ChanRec] /\ \A d \in Chan \ {c} : s[d] = chan[d]
           /\ s[c].at = NoTxd /\ s[c].pend_list = chan[c].pend_list
           /\ s[c].cookie = chan[c].cookie /\ s[c].state = chan[c].state
           /\ s[c].lc = IF IsTxd(chan[c].at) THEN chan[c].at.cookie ELSE chan[c].lc
<1> DEFINE l == IF IsTxd(chan[c].at) THEN chan[c].at.cookie ELSE chan[c].lc
           r == [chan[c] EXCEPT !.at = NoTxd, !.lc = l]
<1>1. Retired(c) = [chan EXCEPT ![c] = r]  BY Zenon DEF Retired
<1>2. chan[c] \in ChanRec  BY DEF ChanType
<1>3. l \in 0..MaxCookie
  <2>1. CASE IsTxd(chan[c].at)
    <3>1. chan[c].at \in Txd  BY <1>2, <2>1 DEF ChanRec, IsTxd, NoTxd
    <3>2. chan[c].at.cookie \in 0..MaxCookie  BY <3>1 DEF Txd
    <3>3. QED  BY <2>1, <3>2
  <2>2. CASE ~IsTxd(chan[c].at)  BY <1>2, <2>2 DEF ChanRec
  <2>3. QED  BY <2>1, <2>2
<1> HIDE DEF l
<1>4. r \in ChanRec /\ r.at = NoTxd /\ r.lc = l /\ r.pend_list = chan[c].pend_list
      /\ r.cookie = chan[c].cookie /\ r.state = chan[c].state
  BY <1>2, <1>3 DEF ChanRec
<1> HIDE DEF r
<1>5. QED  BY <1>1, <1>4 DEF l, ChanType

(* Issuing pending descriptors. *)
LEMMA IssueStep == ASSUME RInv, NEW c \in Chan, pl08x_issue_pending(c)
                   PROVE  ChanType' /\ ActiveHasPhy' /\ ClientStep
<1>0. ChanType /\ ActiveHasPhy /\ prepared' = prepared /\ phychan' = phychan
  BY DEF pl08x_issue_pending, IssueNothing, IssueStarts, Crash, vars, RInv
<1>1. CASE UNCHANGED chan
  <2>1. crashed' \in BOOLEAN
    BY <1>0 DEF pl08x_issue_pending, IssueNothing, IssueStarts, Crash, vars, ChanType
  <2>2. ClientStep  BY <1>1, SameView DEF ClientStep, View
  <2>3. QED  BY <1>0, <1>1, <2>1, <2>2 DEF ChanType, ActiveHasPhy
<1>2. CASE IssueStarts(c) /\ phychan[c] # None
  <2>1. /\ chan' = StartNext(chan, c) /\ crashed' = crashed
        /\ ~IsTxd(chan[c].at) /\ chan[c].pend_list # <<>>
    BY <1>2 DEF IssueStarts
  <2>2. /\ chan' \in [Chan -> ChanRec] /\ \A d \in Chan \ {c} : chan'[d] = chan[d]
        /\ View(c)' = <<Head(chan[c].pend_list), Tail(chan[c].pend_list), chan[c].cookie, chan[c].lc>>
    BY <1>0, <2>1, StartNextFields DEF ChanType, View
  <2>3. Client!Start(c)  BY <1>0, <2>1, <2>2, StartView DEF View
  <2>4. ActiveHasPhy'  BY <1>0, <1>2, <2>2 DEF ActiveHasPhy
  <2>5. ClientStep  BY <2>3 DEF ClientStep, Client!Next
  <2>6. QED  BY <1>0, <2>1, <2>2, <2>4, <2>5 DEF ChanType
<1>3. QED  BY <1>1, <1>2 DEF pl08x_issue_pending, IssueNothing, IssueStarts, Crash, vars

(* DMA_TERMINATE_ALL, DMA_PAUSE and DMA_RESUME. *)
LEMMA ControlStep ==
    ASSUME RInv, NEW c \in Chan,
           pl08x_terminate_all(c) \/ pl08x_pause(c) \/ pl08x_resume(c)
    PROVE  ChanType' /\ ActiveHasPhy' /\ ClientStep
<1>0. ChanType /\ ActiveHasPhy /\ chan[c] \in ChanRec  BY DEF RInv, ChanType
<1>1. CASE ControlNothing(c)
  <2>1. ClientStep  BY <1>1, SameView DEF ControlNothing, vars, ClientStep, View
  <2>2. QED  BY <1>0, <1>1, <2>1 DEF ControlNothing, vars, ChanType, ActiveHasPhy
<1>2. CASE TerminateAll(c)
  <2> DEFINE r == [chan[c] EXCEPT !.state = "IDLE", !.at = NoTxd, !.pend_list = <<>>]
  <2>1. chan' = [chan EXCEPT ![c] = r] /\ UNCHANGED <<prepared, crashed>>
    BY <1>2, Zenon DEF TerminateAll
  <2>2. r \in ChanRec /\ r.at = NoTxd /\ r.pend_list = <<>>
        /\ r.cookie = chan[c].cookie /\ r.lc = chan[c].lc
    <3>1. <<>> \in Seq(Txd)  OBVIOUS
    <3>2. QED  BY <1>0, <3>1 DEF ChanRec
  <2> HIDE DEF r
  <2>3. chan' \in [Chan -> ChanRec] /\ Client!Discard(c)
    BY <1>0, <2>1, <2>2, OneChan, DiscardView
  <2>4. ActiveHasPhy'
    <3>1. ~IsTxd(chan'[c].at) /\ \A d \in Chan \ {c} : chan'[d] = chan[d]
      <4>1. chan'[c] = r /\ \A d \in Chan \ {c} : chan'[d] = chan[d]
        BY <1>0, <2>1, <2>2, OneChan
      <4>2. QED  BY <2>2, <4>1 DEF NoTxd, IsTxd
    <3>2. \A d \in Chan \ {c} : phychan'[d] = phychan[d]
      BY <1>2 DEF TerminateAll, RInv, IInv, OwnType
    <3>3. QED  BY <1>0, <3>1, <3>2 DEF ActiveHasPhy
  <2>5. ClientStep  BY <2>3 DEF ClientStep, Client!Next
  <2>6. QED  BY <1>0, <2>1, <2>3, <2>4, <2>5 DEF ChanType
<1>3. ASSUME NEW from, NEW to, NEW st \in {"PAUSED", "RUNNING"}, PauseResume(c, from, to, st)
      PROVE  ChanType' /\ ActiveHasPhy' /\ ClientStep
  <2> DEFINE r == [chan[c] EXCEPT !.state = st]
  <2>1. chan' = [chan EXCEPT ![c] = r] /\ UNCHANGED <<phychan, prepared, crashed>>
    BY <1>3 DEF PauseResume
  <2>2. r \in ChanRec /\ r.at = chan[c].at /\ r.pend_list = chan[c].pend_list
        /\ r.cookie = chan[c].cookie /\ r.lc = chan[c].lc
    BY <1>0 DEF ChanRec
  <2> HIDE DEF r
  <2>3. chan' \in [Chan -> ChanRec] /\ \A d \in Chan : View(d)' = View(d)
    BY <1>0, <2>1, <2>2, OneChan DEF View
  <2>4. ActiveHasPhy'  BY <1>0, <2>1, <2>3 DEF View, ActiveHasPhy
  <2>5. ClientStep  BY <2>3, SameView DEF ClientStep
  <2>6. QED  BY <1>0, <2>1, <2>3, <2>4, <2>5 DEF ChanType
<1>4. QED
  BY <1>1, <1>2, <1>3 DEF pl08x_terminate_all, pl08x_pause, pl08x_resume

(* pl08x_tasklet for a channel that is not followed by another. *)
LEMMA TaskletStep ==
    ASSUME RInv, NEW p \in Phy, NEW c \in Chan, phychan[c] = p,
           TaskletNext(c, p) \/ TaskletHold(c) \/ TaskletRelease(c, p)
    PROVE  chan' \in [Chan -> ChanRec] /\ ActiveHasPhy' /\ ClientStep
<1>0. ChanType /\ ActiveHasPhy /\ p # None  BY NoneIsNone DEF RInv
<1> DEFINE rt == Retired(c)
           l == IF IsTxd(chan[c].at) THEN chan[c].at.cookie ELSE chan[c].lc
<1>1. /\ rt \in [Chan -> ChanRec] /\ \A d \in Chan \ {c} : rt[d] = chan[d]
      /\ rt[c].at = NoTxd /\ rt[c].pend_list = chan[c].pend_list
      /\ rt[c].cookie = chan[c].cookie /\ rt[c].state = chan[c].state /\ rt[c].lc = l
  BY <1>0, RetiredFields
<1>2. chan[c].state \in States  BY <1>0 DEF ChanType, ChanRec, States
<1> HIDE DEF rt
<1>3. CASE TaskletNext(c, p)
  <2> DEFINE sn == StartNext(rt, c)
             r == [sn[c] EXCEPT !.state = chan[c].state]
             q == chan[c].pend_list
  <2>1. q # <<>> /\ chan' = [sn EXCEPT ![c].state = chan[c].state] /\ UNCHANGED phychan
    BY <1>3 DEF TaskletNext, rt
  <2>2. /\ sn \in [Chan -> ChanRec] /\ \A d \in Chan \ {c} : sn[d] = chan[d]
        /\ sn[c].at = Head(q) /\ sn[c].pend_list = Tail(q)
        /\ sn[c].cookie = chan[c].cookie /\ sn[c].lc = l
    BY <1>1, <2>1, StartNextFields
  <2> HIDE DEF sn, l
  <2>3. chan' = [sn EXCEPT ![c] = r]  BY <2>1
  <2>4. r \in ChanRec /\ r.at = Head(q) /\ r.pend_list = Tail(q) /\ r.cookie = chan[c].cookie /\ r.lc = l
    <3>1. sn[c] \in ChanRec  BY <2>2
    <3>2. QED  BY <1>2, <2>2, <3>1 DEF ChanRec, States
  <2> HIDE DEF r
  <2>5. /\ chan' \in [Chan -> ChanRec] /\ \A d \in Chan \ {c} : chan'[d] = chan[d]
        /\ View(c)' = <<Head(q), Tail(q), chan[c].cookie, l>>
    BY <2>2, <2>3, <2>4 DEF View
  <2>6. \A d \in Chan \ {c} : View(d)' = View(d)  BY <2>5 DEF View
  <2>7. ClientStep
    <3>1. CASE IsTxd(chan[c].at)
      <4>1. Client!CompleteAlone(c)  BY <1>0, <2>1, <2>5, <2>6, <3>1, NextView DEF l
      <4>2. QED  BY <4>1 DEF ClientStep, Client!Next
    <3>2. CASE ~IsTxd(chan[c].at)
      <4>1. Client!Start(c)  BY <1>0, <2>1, <2>5, <2>6, <3>2, StartView DEF l
      <4>2. QED  BY <4>1 DEF ClientStep, Client!Next
    <3>3. QED  BY <3>1, <3>2
  <2>8. ActiveHasPhy'  BY <1>0, <2>1, <2>5 DEF ActiveHasPhy
  <2>9. QED  BY <2>5, <2>7, <2>8
<1>4. CASE TaskletHold(c) \/ TaskletRelease(c, p)
  <2>1. PICK st \in States : chan' = [rt EXCEPT ![c] = [rt[c] EXCEPT !.state = st]]
    <3>1. CASE TaskletHold(c)
      <4>1. [rt EXCEPT ![c] = [rt[c] EXCEPT !.state = chan[c].state]] = rt
        BY <1>1 DEF ChanRec
      <4>2. QED  BY <1>2, <3>1, <4>1 DEF TaskletHold, rt
    <3>2. CASE TaskletRelease(c, p)
      BY <3>2 DEF TaskletRelease, rt, States
    <3>3. QED  BY <1>4, <3>1, <3>2
  <2>2. chan[c].pend_list = <<>>  BY <1>4 DEF TaskletHold, TaskletRelease
  <2> DEFINE r == [rt[c] EXCEPT !.state = st]
  <2> HIDE DEF l
  <2>3. r \in ChanRec /\ r.at = NoTxd /\ r.pend_list = <<>> /\ r.cookie = chan[c].cookie /\ r.lc = l
    <3>1. rt[c] \in ChanRec  BY <1>1
    <3>2. QED  BY <1>1, <2>2, <3>1 DEF ChanRec, States
  <2> HIDE DEF r
  <2>4. /\ chan' \in [Chan -> ChanRec] /\ \A d \in Chan \ {c} : chan'[d] = chan[d]
        /\ View(c)' = <<NoTxd, <<>>, chan[c].cookie, l>>
    BY <1>1, <2>1, <2>3 DEF View, r
  <2>5. \A d \in Chan \ {c} : View(d)' = View(d)  BY <2>4 DEF View
  <2>6. ClientStep
    <3>1. CASE IsTxd(chan[c].at)
      <4>1. Client!CompleteAlone(c)  BY <1>0, <2>2, <2>4, <2>5, <3>1, LastView DEF l
      <4>2. QED  BY <4>1 DEF ClientStep, Client!Next
    <3>2. CASE ~IsTxd(chan[c].at)
      <4>1. View(c)' = View(c)  BY <1>0, <2>2, <2>4, <3>2, NotActive DEF View, l
      <4>2. QED  BY <2>5, <4>1, SameView DEF ClientStep
    <3>3. QED  BY <3>1, <3>2
  <2>7. ActiveHasPhy'
    <3>1. ~IsTxd(chan'[c].at)  BY <2>4 DEF View, NoTxd, IsTxd
    <3>2. \A d \in Chan \ {c} : phychan'[d] = phychan[d]
      BY <1>4 DEF TaskletHold, TaskletRelease, RInv, IInv, OwnType
    <3>3. QED  BY <1>0, <2>4, <3>1, <3>2 DEF ActiveHasPhy
  <2>8. QED  BY <2>4, <2>6, <2>7
<1>5. QED  BY <1>3, <1>4

(* The hand-over: channel c is done, and memcpy channel w may start. *)
LEMMA HandoverStep ==
    ASSUME RInv, NEW p \in Phy, NEW c \in Chan, phychan[c] = p, TaskletHandover(c, p)
    PROVE  chan' \in [Chan -> ChanRec] /\ ActiveHasPhy' /\ ClientStep
<1>0. ChanType /\ ActiveHasPhy /\ p # None /\ chan[c].pend_list = <<>>
  BY NoneIsNone DEF RInv, TaskletHandover
<1> DEFINE got(w) == IF phychan[w] # None THEN {phychan[w]} ELSE First(FreePhy(Released(c)))
<1>1. PICK w \in First(Waiting \ {c}) : \E q \in got(w) : HandoverTo(c, p, w, q)
  BY Zenon DEF TaskletHandover
<1>2. PICK q \in got(w) : HandoverTo(c, p, w, q)  BY <1>1
<1>3. w \in Chan /\ w # c  BY FirstIn DEF Waiting, Chan
<1>4. q # None
  <2>1. CASE phychan[w] # None  BY <1>2, <2>1
  <2>2. CASE phychan[w] = None
    <3>1. q \in FreePhy(Released(c))  BY <1>2, <2>2, FirstIn
    <3>2. QED  BY <3>1, NoneIsNone DEF FreePhy
  <2>3. QED  BY <2>1, <2>2
<1>5. \A d \in Chan : phychan'[d] = IF d = w THEN q ELSE IF d = c THEN None ELSE phychan[d]
  <2>1. phychan' = [phychan EXCEPT ![c] = None, ![w] = q]  BY <1>2, Zenon DEF HandoverTo
  <2>2. QED  BY <1>3, <2>1 DEF RInv, IInv, OwnType
<1> DEFINE rt == Retired(c)
           l == IF IsTxd(chan[c].at) THEN chan[c].at.cookie ELSE chan[c].lc
           h == IF phychan[w] # None THEN chan[w].phychan_hold - 1 ELSE chan[w].phychan_hold
           rc == [rt[c] EXCEPT !.state = "IDLE"]
           rw == [chan[w] EXCEPT !.state = "RUNNING", !.waiting = FALSE, !.phychan_hold = h]
           rest == [rt EXCEPT ![c] = rc, ![w] = rw]
           starts == ~IsTxd(chan[w].at) /\ chan[w].pend_list # <<>>
<1>6. /\ rt \in [Chan -> ChanRec] /\ \A d \in Chan \ {c} : rt[d] = chan[d]
      /\ rt[c].at = NoTxd /\ rt[c].pend_list = chan[c].pend_list
      /\ rt[c].cookie = chan[c].cookie /\ rt[c].lc = l
  BY <1>0, RetiredFields
<1>7. chan' = IF starts THEN StartNext(rest, w) ELSE rest
  <2> DEFINE model == [Retired(c) EXCEPT
                         ![c].state = "IDLE", ![w].state = "RUNNING", ![w].waiting = FALSE,
                         ![w].phychan_hold = IF phychan[w] # None THEN @ - 1 ELSE @]
  <2>1. chan' = IF starts THEN StartNext(model, w) ELSE model
    BY <1>2, Zenon DEF HandoverTo
  <2>2. model = rest
    <3> HIDE DEF rt
    <3>0. rt[w] = chan[w]  BY <1>3, <1>6
    <3>1. model = [rt EXCEPT ![c].state = "IDLE", ![w].state = "RUNNING", ![w].waiting = FALSE,
                         ![w].phychan_hold = IF phychan[w] # None THEN @ - 1 ELSE @]
      BY DEF rt
    <3> HIDE DEF model
    <3>2. QED  BY <1>3, <1>6, <3>0, <3>1
  <2> HIDE DEF model, rest, starts
  <2>3. QED  BY <2>1, <2>2
<1> HIDE DEF rt, l
<1>8. /\ rest \in [Chan -> ChanRec] /\ \A d \in Chan \ {c, w} : rest[d] = chan[d]
      /\ rest[c].at = NoTxd /\ rest[c].pend_list = <<>>
      /\ rest[c].cookie = chan[c].cookie /\ rest[c].lc = l
      /\ rest[w].at = chan[w].at /\ rest[w].pend_list = chan[w].pend_list
      /\ rest[w].cookie = chan[w].cookie /\ rest[w].lc = chan[w].lc
  <2>1. rc \in ChanRec /\ rc.at = NoTxd /\ rc.pend_list = <<>>
        /\ rc.cookie = chan[c].cookie /\ rc.lc = l
    <3>1. rt[c] \in ChanRec  BY <1>6
    <3>2. QED  BY <1>0, <1>6, <3>1 DEF ChanRec
  <2>2. rw \in ChanRec /\ rw.at = chan[w].at /\ rw.pend_list = chan[w].pend_list
        /\ rw.cookie = chan[w].cookie /\ rw.lc = chan[w].lc
    <3>1. chan[w] \in ChanRec  BY <1>0, <1>3 DEF ChanType
    <3>2. h \in Int  BY <3>1 DEF ChanRec
    <3> HIDE DEF h
    <3>3. QED  BY <3>1, <3>2 DEF ChanRec
  <2> HIDE DEF rc, rw
  <2>3. QED  BY <1>3, <1>6, <2>1, <2>2
<1> HIDE DEF rest
<1>9. CASE starts
  <2>1. chan' = StartNext(rest, w) /\ ~IsTxd(chan[w].at) /\ chan[w].pend_list # <<>>
    BY <1>7, <1>9
  <2>2. /\ chan' \in [Chan -> ChanRec] /\ \A d \in Chan \ {w} : chan'[d] = rest[d]
        /\ chan'[w].at = Head(chan[w].pend_list) /\ chan'[w].pend_list = Tail(chan[w].pend_list)
        /\ chan'[w].cookie = chan[w].cookie /\ chan'[w].lc = chan[w].lc
    BY <1>3, <1>8, <2>1, StartNextFields
  <2>3. /\ \A d \in Chan \ {c, w} : View(d)' = View(d)
        /\ View(c)' = <<NoTxd, <<>>, chan[c].cookie, l>>
        /\ View(w)' = <<Head(chan[w].pend_list), Tail(chan[w].pend_list), chan[w].cookie, chan[w].lc>>
    BY <1>3, <1>8, <2>2 DEF View
  <2>4. ClientStep
    <3>1. CASE IsTxd(chan[c].at)
      <4>1. Client!CompleteAndStart(c, w)  BY <1>0, <1>3, <2>1, <2>3, <3>1, HandView DEF l
      <4>2. QED  BY <1>3, <4>1 DEF ClientStep, Client!Next
    <3>2. CASE ~IsTxd(chan[c].at)
      <4>1. View(c)' = View(c)  BY <1>0, <2>3, <3>2, NotActive DEF View, l
      <4>2. Client!Start(w)  BY <1>0, <1>3, <2>1, <2>3, <4>1, StartView
      <4>3. QED  BY <1>3, <4>2 DEF ClientStep, Client!Next
    <3>3. QED  BY <3>1, <3>2
  <2>5. ActiveHasPhy'
    <3>1. ~IsTxd(chan'[c].at)  BY <1>3, <1>8, <2>2 DEF NoTxd, IsTxd
    <3>2. \A d \in Chan \ {c, w} : chan'[d] = chan[d]  BY <1>8, <2>2
    <3>3. QED  BY <1>0, <1>3, <1>4, <1>5, <3>1, <3>2 DEF ActiveHasPhy
  <2>6. QED  BY <2>2, <2>4, <2>5
<1>10. CASE ~starts
  <2>1. chan' = rest  BY <1>7, <1>10
  <2>2. (\A d \in Chan \ {c} : View(d)' = View(d)) /\ View(c)' = <<NoTxd, <<>>, chan[c].cookie, l>>
    BY <1>3, <1>8, <2>1 DEF View
  <2>3. ClientStep
    <3>1. CASE IsTxd(chan[c].at)
      <4>1. Client!CompleteAlone(c)  BY <1>0, <2>2, <3>1, LastView DEF l
      <4>2. QED  BY <4>1 DEF ClientStep, Client!Next
    <3>2. CASE ~IsTxd(chan[c].at)
      <4>1. View(c)' = View(c)  BY <1>0, <2>2, <3>2, NotActive DEF View, l
      <4>2. QED  BY <2>2, <4>1, SameView DEF ClientStep
    <3>3. QED  BY <3>1, <3>2
  <2>4. ActiveHasPhy'
    <3>1. ~IsTxd(chan'[c].at)  BY <1>3, <1>8, <2>1 DEF NoTxd, IsTxd
    <3>2. \A d \in Chan \ {c} : chan'[d].at = chan[d].at  BY <1>8, <2>1
    <3>3. QED  BY <1>0, <1>3, <1>4, <1>5, <3>1, <3>2 DEF ActiveHasPhy
  <2>5. QED  BY <1>8, <2>1, <2>3, <2>4
<1>11. QED  BY <1>9, <1>10

-----------------------------------------------------------------------------
(* Initially every channel is idle and its queue empty. *)
LEMMA InitStep == Init => RInv /\ Client!Init
<1> SUFFICES ASSUME Init PROVE RInv /\ Client!Init  OBVIOUS
<1>1. ChanType
  <2>1. <<>> \in Seq(Txd) /\ <<>> \in Seq(BOOLEAN) /\ 0 \in 0..MaxCookie  BY Pl08xAssumption
  <2> DEFINE r == [state |-> "IDLE", phychan_hold |-> 0, pend_list |-> <<>>,
                   at |-> NoTxd, waiting |-> FALSE, cookie |-> 0, lc |-> 0]
  <2>2. r \in ChanRec  BY <2>1 DEF ChanRec
  <2>3. chan = [c \in Chan |-> r] /\ prepared = [c \in Chan |-> <<>>] /\ crashed = FALSE
    BY DEF Init
  <2> HIDE DEF r
  <2>4. QED  BY <2>1, <2>2, <2>3 DEF ChanType
<1>2. \A c \in Chan : ~IsTxd(chan[c].at) /\ chan[c].pend_list = <<>> /\ chan[c].cookie = 0 /\ chan[c].lc = 0
  BY DEF Init, IsTxd, NoTxd
<1>3. Client!Init
  <2>1. \A c \in Chan : Outstanding(c) = <<>> /\ IsTxd(chan[c].at) = FALSE
    BY <1>2 DEF Outstanding
  <2>2. QED  BY <1>2, <2>1 DEF Client!Init
<1>4. QED  BY <1>1, <1>2, <1>3, InitInv DEF RInv, ActiveHasPhy

(* A step that changes neither the channels nor who owns what. *)
LEMMA OtherStep ==
    ASSUME RInv, UNCHANGED <<phychan, chan, prepared>>, crashed' \in BOOLEAN
    PROVE  ChanType' /\ ActiveHasPhy' /\ ClientStep
<1>1. ClientStep  BY SameView DEF ClientStep, View
<1>2. QED  BY <1>1 DEF RInv, ChanType, ActiveHasPhy

(* The interrupt handler. *)
LEMMA HandlerStep == ASSUME RInv, Handler PROVE ChanType' /\ ActiveHasPhy' /\ ClientStep
<1>1. CASE IrqChan
  <2>1. PICK p \in First(irq.val) :
          \/ Crash
          \/ serving[p] # None /\ pl08x_tasklet(serving[p], p) /\ UNCHANGED <<prepared, crashed>>
    BY <1>1, Zenon DEF IrqChan
  <2>2. p \in Phy  BY FirstIn DEF RInv, IInv, OwnType, IrqRec
  <2>3. CASE Crash  BY <2>3, OtherStep DEF Crash
  <2>4. CASE serving[p] # None /\ pl08x_tasklet(serving[p], p) /\ UNCHANGED <<prepared, crashed>>
    <3> DEFINE c == serving[p]
    <3>1. c \in Chan /\ phychan[c] = p
      BY <2>2, <2>4, NoneIsNone DEF RInv, IInv, OwnType, PhyExclusive
    <3>2. chan' \in [Chan -> ChanRec] /\ ActiveHasPhy' /\ ClientStep
      BY <2>2, <2>4, <3>1, TaskletStep, HandoverStep DEF pl08x_tasklet
    <3>3. QED  BY <2>4, <3>2 DEF ChanType, RInv
  <2>5. QED  BY <2>1, <2>3, <2>4
<1>2. CASE IrqEnter \/ CallbackReturn \/ IrqExit
  BY <1>2, OtherStep DEF IrqEnter, CallbackReturn, IrqExit, RInv, ChanType
<1>3. QED  BY <1>1, <1>2 DEF Handler

(* Every step keeps the invariant and is a step of DmaChannel or none. *)
LEMMA NextStep == RInv /\ [Next]_vars => RInv' /\ [Client!Next]_(Client!vars)
<1> SUFFICES ASSUME RInv, [Next]_vars PROVE ChanType' /\ ActiveHasPhy' /\ ClientStep
  BY NextInv DEF RInv, ClientStep
<1>1. CASE UNCHANGED vars  BY <1>1, OtherStep DEF vars, RInv, ChanType
<1>2. ASSUME NEW p \in Phy, HwComplete(p) \/ HwError(p)
      PROVE  ChanType' /\ ActiveHasPhy' /\ ClientStep
  BY <1>2, OtherStep DEF HwComplete, HwError, RInv, ChanType
<1>3. QED
  BY <1>1, <1>2, PrepStep, SubmitStep, IssueStep, ControlStep, HandlerStep DEF Next

(* The variables of the driver keep their types, for every number of         *)
(* channels and whatever clients and hardware do.                            *)
THEOREM TypesHold == Spec => []TypeOK
<1>1. RInv => TypeOK  BY DEF RInv, IInv, OwnType, ChanType, TypeOK
<1>2. QED  BY InitStep, NextStep, <1>1, PTL DEF Spec

(* To its clients the driver is a set of queues of descriptors, for every    *)
(* number of slave, memcpy and physical channels, whatever clients and       *)
(* hardware do: sharing the physical channels, the hold, the hand-over to a  *)
(* waiting memcpy and an interrupt handler that runs callbacks half-way are  *)
(* invisible (module DmaChannel).                                            *)
THEOREM DriverIsQueues == Spec => ImplementsDmaChannel
  BY InitStep, NextStep, PTL DEF Spec, ImplementsDmaChannel, Client!Spec

\* DmaChannel with what is proved about it.
Proved == INSTANCE DmaChannel_proofs WITH
    queue <- [c \in Chan |-> Outstanding(c)],
    going <- [c \in Chan |-> IsTxd(chan[c].at)],
    last_used <- [c \in Chan |-> chan[c].cookie],
    last_complete <- [c \in Chan |-> chan[c].lc]

(* No descriptor of a client is lost, duplicated or reordered, and a client  *)
(* that polls is never told that an outstanding one is complete, for every   *)
(* number of channels and every largest cookie (pl08x_tx_submit,             *)
(* pl08x_tasklet, pl08x_dma_tx_status).                                      *)
THEOREM CookiesTellTheTruth == Spec => []CookiesTrue
<1>1. Client!Init => Proved!Init  BY DEF Client!Init, Proved!Init
<1>2. [Client!Next]_(Client!vars) => [Proved!Next]_(Proved!vars)
  BY DEF Client!Next, Client!vars, Proved!Next, Proved!vars, Client!Submit, Proved!Submit,
         Client!Start, Proved!Start, Client!Complete, Proved!Complete, Client!CompleteAlone,
         Proved!CompleteAlone, Client!CompleteAndStart, Proved!CompleteAndStart,
         Client!Discard, Proved!Discard, Client!CookieFree, Proved!CookieFree,
         Client!NextCookie, Proved!NextCookie
<1>3. Spec => Proved!Spec
  BY DriverIsQueues, <1>1, <1>2, PTL DEF ImplementsDmaChannel, Client!Spec, Proved!Spec
<1>4. Proved!Spec => [](Proved!QueueInOrder /\ Proved!NoFalseSuccess)
  BY Pl08xAssumption, Proved!CookiesInOrder
<1>5. Proved!QueueInOrder => QueueInOrder
  BY DEF Proved!QueueInOrder, QueueInOrder, Proved!NextCookie, NextCookie
<1>6. Proved!NoFalseSuccess => NoFalseSuccess
  BY DEF Proved!NoFalseSuccess, NoFalseSuccess, Proved!dma_async_is_complete, dma_async_is_complete
<1>7. Proved!QueueInOrder /\ Proved!NoFalseSuccess => CookiesTrue
  BY <1>5, <1>6 DEF CookiesTrue
<1>8. QED  BY <1>3, <1>4, <1>7, PTL

-----------------------------------------------------------------------------
(* Clients with one descriptor at a time, whose callbacks call the driver    *)
(* only for their own channel and who do not terminate between prep and      *)
(* submit, on hardware without bus errors.  Transfers end at any time, while *)
(* the handler runs too, save one started on a channel that the handler has  *)
(* served already.                                                           *)
Polite == MaxQueue = 1 /\ Env = {}

\* A channel without a descriptor: it has no physical channel either.
Unused(c) ==
    /\ prepared[c] = <<>> /\ chan[c].pend_list = <<>> /\ ~IsTxd(chan[c].at)
    /\ phychan[c] = None /\ chan[c].phychan_hold = 0
    /\ chan[c].state # "WAITING" /\ ~chan[c].waiting

\* One whose descriptor is prepared: a memcpy may be without a physical channel.
Ready(c) ==
    /\ prepared[c] = <<c \in Slave>> /\ chan[c].pend_list = <<>> /\ ~IsTxd(chan[c].at)
    /\ c \in Slave => phychan[c] # None
    /\ chan[c].phychan_hold = IF phychan[c] = None THEN 0 ELSE 1
    /\ chan[c].state # "WAITING" /\ ~chan[c].waiting

\* One whose descriptor is submitted: it waits just if it has no physical channel.
Queued(c) ==
    /\ prepared[c] = <<>> /\ Len(chan[c].pend_list) = 1 /\ ~IsTxd(chan[c].at)
    /\ c \in Slave => phychan[c] # None /\ Head(chan[c].pend_list).signal
    /\ chan[c].phychan_hold = 0
    /\ phychan[c] = None <=> chan[c].state = "WAITING"
    /\ phychan[c] = None <=> chan[c].waiting

\* One whose descriptor is started.
Active(c) ==
    /\ prepared[c] = <<>> /\ chan[c].pend_list = <<>> /\ IsTxd(chan[c].at)
    /\ c \in Slave => chan[c].at.signal
    /\ phychan[c] # None /\ chan[c].phychan_hold = 0
    /\ chan[c].state # "WAITING" /\ ~chan[c].waiting

Phase(c) == Unused(c) \/ Ready(c) \/ Queued(c) \/ Active(c)
Phases == \A c \in Chan : Phase(c)

\* A physical channel runs, or has a terminal count, just for an active
\* descriptor, and not both.
Works(p) == hw[p] # "idle" \/ p \in tc
WorkIsActive == \A p \in Phy : Works(p) => serving[p] # None /\ Active(serving[p])
ActiveIsWork == \A c \in Chan : Active(c) => Works(phychan[c])
EndsOnce == \A p \in Phy : ~(hw[p] # "idle" /\ p \in tc)

\* What the handler has still to serve has its terminal count, what it has
\* served has none; the channel of the running callback is not to be served.
InHandler ==
    /\ ~irq.on => irq = IrqIdle
    /\ irq.val \subseteq tc
    /\ tc \cap irq.mask = {}
    /\ irq.cb # None => phychan[irq.cb] \notin irq.val

PInv == ~crashed /\ Phases /\ WorkIsActive /\ ActiveIsWork /\ EndsOnce /\ InHandler

\* What the phase of channel c depends on.
SameChan(c) == chan'[c] = chan[c] /\ prepared'[c] = prepared[c] /\ phychan'[c] = phychan[c]

(* A channel a step leaves alone stays in its phase. *)
LEMMA SamePhase == ASSUME NEW c \in Chan, SameChan(c)
                   PROVE  (Phase(c)' <=> Phase(c)) /\ (Active(c)' <=> Active(c))
  BY DEF SameChan, Phase, Unused, Ready, Queued, Active

(* A step of at most two channels: it starts what is active afterwards and   *)
(* stops what these channels ran before.                                     *)
LEMMA WorkStep ==
    ASSUME RInv, PInv, OwnType', PhyExclusive', NEW c \in Chan, NEW w \in Chan,
           \A d \in Chan \ {c, w} : SameChan(d), Phase(c)', Phase(w)',
           \A p \in Phy : Works(p)' <=>
               \/ Active(c)' /\ p = phychan'[c]
               \/ Active(w)' /\ p = phychan'[w]
               \/ p # phychan[c] /\ p # phychan[w] /\ Works(p)
    PROVE  Phases' /\ WorkIsActive' /\ ActiveIsWork'
<1>0. OwnType /\ PhyExclusive /\ Phases /\ WorkIsActive /\ ActiveIsWork
  BY DEF RInv, IInv, PInv
<1>1. Phases'  BY <1>0, SamePhase DEF Phases
<1>2. WorkIsActive'
  <2> SUFFICES ASSUME NEW p \in Phy, Works(p)' PROVE serving'[p] # None /\ Active(serving[p])'
    BY DEF WorkIsActive
  <2>1. ASSUME NEW d \in Chan, phychan'[d] = p, Active(d)'
        PROVE  serving'[p] # None /\ Active(serving[p])'
    <3>1. serving'[p] = d  BY <2>1 DEF PhyExclusive
    <3>2. QED  BY <2>1, <3>1, NoneIsNone
  <2>2. CASE p # phychan[c] /\ p # phychan[w] /\ Works(p)
    <3>1. PICK d \in Chan : d = serving[p] /\ Active(d)
      BY <1>0, <2>2 DEF WorkIsActive, OwnType
    <3>2. phychan[d] = p /\ d # c /\ d # w  BY <1>0, <2>2, <3>1 DEF PhyExclusive
    <3>3. SameChan(d)  BY <3>2
    <3>4. phychan'[d] = p /\ Active(d)'  BY <3>1, <3>2, <3>3, SamePhase DEF SameChan
    <3>5. QED  BY <2>1, <3>4
  <2>3. QED  BY <2>1, <2>2
<1>3. ActiveIsWork'
  <2> SUFFICES ASSUME NEW d \in Chan, Active(d)' PROVE Works(phychan[d])'
    BY DEF ActiveIsWork
  <2>1. PICK p \in Phy : p = phychan'[d]  BY DEF Active, OwnType
  <2>2. CASE d = c \/ d = w
    <3>1. Works(p)'  BY <2>1, <2>2
    <3>2. QED  BY <2>1, <3>1 DEF Works
  <2>3. CASE d # c /\ d # w
    <3>1. SameChan(d)  BY <2>3
    <3>2. phychan'[d] = phychan[d] /\ Active(d)  BY <3>1, SamePhase DEF SameChan
    <3>3. Works(p)  BY <1>0, <2>1, <3>2 DEF ActiveIsWork
    <3>4. p # phychan[c] /\ p # phychan[w]
      BY <1>0, <2>1, <2>3, <3>2 DEF PhyExclusive
    <3>5. Works(p)'  BY <3>3, <3>4
    <3>6. QED  BY <2>1, <3>5 DEF Works
  <2>4. QED  BY <2>2, <2>3
<1>4. QED  BY <1>1, <1>2, <1>3

(* The physical channel of a channel that is not active does not work. *)
LEMMA QuietPhy == ASSUME RInv, PInv, NEW c \in Chan, ~Active(c), phychan[c] # None
                  PROVE  ~Works(phychan[c])
<1>1. phychan[c] \in Phy /\ serving[phychan[c]] = c
  BY DEF RInv, IInv, OwnType, PhyExclusive
<1>2. QED  BY <1>1 DEF PInv, WorkIsActive

(* Preparing: the channel had no descriptor. *)
LEMMA PrepPolite == ASSUME Polite, RInv, RInv', PInv, NEW c \in Chan, pl08x_prep(c) PROVE PInv'
<1>0. /\ hw' = hw /\ tc' = tc /\ irq' = irq /\ ~crashed' /\ ChanType /\ ChanType' /\ OwnType
      /\ OwnType' /\ PhyExclusive' /\ chan[c] \in ChanRec
  BY DEF pl08x_prep, PInv, RInv, IInv, ChanType
<1>1. Unused(c)
  <2>1. Len(prepared[c]) + Len(Outstanding(c)) < 1  BY DEF pl08x_prep, Polite
  <2>2. ~Ready(c)
    <3>1. Ready(c) => Len(prepared[c]) = 1 /\ Outstanding(c) = <<>>
      BY DEF Ready, Outstanding
    <3>2. QED  BY <2>1, <3>1
  <2>3. ~Queued(c)
    <3>1. Queued(c) => prepared[c] = <<>> /\ Len(Outstanding(c)) = 1
      BY DEF Queued, Outstanding
    <3>2. QED  BY <2>1, <3>1
  <2>4. ~Active(c)
    <3>1. Active(c) => prepared[c] = <<>> /\ Len(Outstanding(c)) = 1
      BY DEF Active, Outstanding
    <3>2. QED  BY <2>1, <3>1
  <2>5. QED  BY <2>2, <2>3, <2>4 DEF PInv, Phases, Phase
<1>2. /\ \A d \in Chan \ {c} : SameChan(d)
      /\ Phase(c)' /\ ~Active(c)'
      /\ phychan'[c] = None \/ (phychan'[c] \in Phy /\ serving[phychan'[c]] = None)
  <2>1. CASE PrepHasPhy(c)  BY <1>1, <2>1 DEF PrepHasPhy, Unused
  <2>2. CASE PrepGetsPhy(c)
    <3> DEFINE st == IdleToPaused(chan[c].state)
               h == chan[c].phychan_hold + 1
    <3>1. chan' = [chan EXCEPT ![c] = [chan[c] EXCEPT !.state = st, !.phychan_hold = h]]
      BY <2>2, Zenon DEF PrepGetsPhy
    <3>2. h = 1 /\ st # "WAITING"  BY <1>0, <1>1 DEF IdleToPaused, Unused, ChanRec
    <3> HIDE DEF st, h
    <3>3. PICK p \in First(FreePhy(serving)) : phychan' = [phychan EXCEPT ![c] = p]
      BY <2>2 DEF PrepGetsPhy
    <3>4. p \in Phy /\ serving[p] = None  BY FirstIn DEF FreePhy
    <3>5. phychan'[c] = p /\ \A d \in Chan \ {c} : phychan'[d] = phychan[d]
      BY <1>0, <3>3 DEF OwnType
    <3>6. /\ chan'[c].phychan_hold = h /\ chan'[c].state = st
          /\ chan'[c].pend_list = chan[c].pend_list /\ chan'[c].at = chan[c].at
          /\ chan'[c].waiting = chan[c].waiting
          /\ \A d \in Chan \ {c} : chan'[d] = chan[d]
      BY <1>0, <3>1 DEF ChanType, ChanRec
    <3>7. /\ prepared'[c] = <<c \in Slave>>
          /\ \A d \in Chan \ {c} : prepared'[d] = prepared[d]
      <4>1. prepared' = [prepared EXCEPT ![c] = Append(<<>>, c \in Slave)]
        BY <1>1, <2>2, Zenon DEF PrepGetsPhy, Unused
      <4>2. Append(<<>>, c \in Slave) = <<c \in Slave>>  OBVIOUS
      <4>3. QED  BY <1>0, <4>1, <4>2 DEF ChanType
    <3>8. Ready(c)' /\ ~Active(c)'
      BY <1>1, <3>2, <3>4, <3>5, <3>6, <3>7, NoneIsNone DEF Ready, Active, Unused
    <3>9. QED  BY <3>4, <3>5, <3>6, <3>7, <3>8 DEF SameChan, Phase
  <2>3. CASE PrepNoPhy(c)
    <3>1. CASE c \in Slave /\ chan' = [chan EXCEPT ![c].pend_list = <<>>] /\ UNCHANGED prepared
      <4>1. chan' = chan  BY <1>0, <1>1, <3>1 DEF Unused, ChanRec, ChanType
      <4>2. phychan' = phychan  BY <2>3 DEF PrepNoPhy
      <4>3. \A d \in Chan : SameChan(d)  BY <3>1, <4>1, <4>2 DEF SameChan
      <4>4. QED  BY <1>1, <4>2, <4>3, SamePhase DEF Phase, Unused, Active
    <3>2. CASE /\ c \in Memcpy /\ prepared' = [prepared EXCEPT ![c] = Append(@, FALSE)]
               /\ UNCHANGED chan
      <4>1. phychan' = phychan  BY <2>3 DEF PrepNoPhy
      <4>2. /\ prepared'[c] = <<FALSE>>
            /\ \A d \in Chan \ {c} : prepared'[d] = prepared[d]
        <5>1. Append(prepared[c], FALSE) = <<FALSE>>  BY <1>1 DEF Unused
        <5>2. QED  BY <1>0, <3>2, <5>1 DEF ChanType
      <4>3. c \notin Slave  BY <3>2, Pl08xAssumption DEF Slave, Memcpy
      <4>4. Ready(c)' /\ ~Active(c)'
        <5>1. (c \in Slave) = FALSE  BY <4>3
        <5>2. prepared'[c] = <<c \in Slave>>  BY <4>2, <5>1, Zenon
        <5>3. QED  BY <1>1, <3>2, <4>1, <4>3, <5>2 DEF Ready, Active, Unused
      <4>5. QED  BY <1>1, <3>2, <4>1, <4>2, <4>4 DEF SameChan, Phase, Unused
    <3>3. QED  BY <2>3, <3>1, <3>2 DEF PrepNoPhy
  <2>4. QED  BY <2>1, <2>2, <2>3 DEF pl08x_prep
<1>3. phychan[c] = None  BY <1>1 DEF Unused
<1>4. \A p \in Phy : Works(p)' <=> Works(p)  BY <1>0 DEF Works
<1>5. Phases' /\ WorkIsActive' /\ ActiveIsWork'
  BY <1>0, <1>2, <1>3, <1>4, WorkStep, NoneIsNone
<1>6. EndsOnce'  BY <1>0 DEF PInv, EndsOnce
<1>7. InHandler'
  <2>1. irq'.cb # None => phychan'[irq'.cb] \notin irq'.val
    <3>1. CASE irq.cb = c
      <4>1. \A p \in irq.val : p \in Phy /\ serving[p] # None
        BY <1>0 DEF PInv, WorkIsActive, Works, OwnType, InHandler
      <4>2. QED  BY <1>0, <1>2, <3>1, <4>1, NoneIsNone
    <3>2. CASE irq.cb # c /\ irq.cb # None
      <4>1. irq.cb \in Chan  BY <1>0, <3>2 DEF OwnType, IrqRec
      <4>2. QED  BY <1>0, <1>2, <3>2, <4>1 DEF SameChan, PInv, InHandler
    <3>3. QED  BY <1>0, <3>1, <3>2
  <2>2. QED  BY <1>0, <2>1 DEF PInv, InHandler, IrqIdle
<1>8. QED  BY <1>0, <1>5, <1>6, <1>7 DEF PInv

(* Submitting: the prepared descriptor becomes the pending one. *)
LEMMA SubmitPolite == ASSUME Polite, RInv, RInv', PInv, NEW c \in Chan, pl08x_tx_submit(c) PROVE PInv'
<1>0. /\ hw' = hw /\ tc' = tc /\ irq' = irq /\ ~crashed' /\ phychan' = phychan
      /\ ChanType /\ OwnType /\ OwnType' /\ PhyExclusive' /\ chan[c] \in ChanRec
  BY DEF pl08x_tx_submit, PInv, RInv, IInv, ChanType
<1>1. Ready(c)
  BY DEF pl08x_tx_submit, PInv, Phases, Phase, Unused, Queued, Active
<1>2. /\ \A d \in Chan \ {c} : SameChan(d)
      /\ Queued(c)' /\ ~Active(c)'
  <2> DEFINE wait == c \in Memcpy /\ phychan[c] = None
             k == NextCookie(chan[c].cookie)
             t == [cookie |-> k, signal |-> Head(prepared[c])]
             pl == Append(chan[c].pend_list, t)
             st == IF wait THEN "WAITING" ELSE chan[c].state
             wt == chan[c].waiting \/ wait
             h == IF wait THEN chan[c].phychan_hold ELSE chan[c].phychan_hold - 1
             r == [chan[c] EXCEPT !.cookie = k, !.pend_list = pl, !.state = st,
                                  !.waiting = wt, !.phychan_hold = h]
  <2>1. chan' = [chan EXCEPT ![c] = r]  BY Zenon DEF pl08x_tx_submit
  <2>2. Len(pl) = 1 /\ Head(pl) = t
    <3>1. chan[c].pend_list = <<>>  BY <1>1 DEF Ready
    <3> HIDE DEF t
    <3>2. QED  BY <3>1
  <2>3. t.signal = (c \in Slave)
    <3>1. Head(prepared[c]) = (c \in Slave)  BY <1>1 DEF Ready
    <3>2. t.signal = Head(prepared[c])  OBVIOUS
    <3>3. QED  BY <3>1, <3>2
  <2>4. wait <=> phychan[c] = None  BY <1>1 DEF Ready, Chan
  <2>5. h = 0
    <3>1. CASE wait  BY <1>1, <2>4, <3>1 DEF Ready
    <3>2. CASE ~wait  BY <1>1, <2>4, <3>2 DEF Ready
    <3>3. QED  BY <3>1, <3>2
  <2>6. st = "WAITING" <=> phychan[c] = None
    <3>1. CASE wait  BY <2>4, <3>1
    <3>2. CASE ~wait  BY <1>1, <2>4, <3>2 DEF Ready
    <3>3. QED  BY <3>1, <3>2
  <2>7. wt <=> phychan[c] = None
    <3>1. ~chan[c].waiting  BY <1>1 DEF Ready
    <3>2. QED  BY <2>4, <3>1, Zenon
  <2>8. /\ prepared'[c] = <<>>
        /\ \A d \in Chan \ {c} : prepared'[d] = prepared[d]
    <3>1. prepared' = [prepared EXCEPT ![c] = Tail(prepared[c])]  BY DEF pl08x_tx_submit
    <3>2. Tail(prepared[c]) = <<>>
      <4>1. \A b : Tail(<<b>>) = <<>>  OBVIOUS
      <4>2. QED  BY <1>1, <4>1 DEF Ready
    <3>3. QED  BY <1>0, <3>1, <3>2 DEF ChanType
  <2> HIDE DEF pl, st, wt, h, k, t
  <2>9. /\ r.pend_list = pl /\ r.state = st /\ r.phychan_hold = h /\ r.at = chan[c].at
        /\ r.waiting = wt
    BY <1>0, Zenon DEF ChanRec
  <2> HIDE DEF r
  <2>10. chan'[c] = r /\ \A d \in Chan \ {c} : chan'[d] = chan[d]
    BY <1>0, <2>1 DEF ChanType
  <2>11. Queued(c)'
    <3>1. prepared'[c] = <<>> /\ Len(chan'[c].pend_list) = 1 /\ ~IsTxd(chan'[c].at)
      BY <1>1, <2>2, <2>8, <2>9, <2>10 DEF Ready
    <3>2. c \in Slave => phychan'[c] # None /\ Head(chan'[c].pend_list).signal
      BY <1>0, <1>1, <2>2, <2>3, <2>9, <2>10 DEF Ready
    <3>3. chan'[c].phychan_hold = 0 /\ (phychan'[c] = None <=> chan'[c].state = "WAITING")
      BY <1>0, <2>5, <2>6, <2>9, <2>10
    <3>4. phychan'[c] = None <=> chan'[c].waiting
      BY <1>0, <2>7, <2>9, <2>10, Zenon
    <3>5. QED  BY <3>1, <3>2, <3>3, <3>4 DEF Queued
  <2>12. ~Active(c)'  BY <1>1, <2>9, <2>10 DEF Ready, Active
  <2>13. QED  BY <1>0, <2>8, <2>10, <2>11, <2>12 DEF SameChan
<1>3. phychan[c] # None => ~Works(phychan[c])  BY <1>1, QuietPhy DEF Ready, Active
<1>4. \A p \in Phy : Works(p)' <=> Works(p)  BY <1>0 DEF Works
<1>5. Phases' /\ WorkIsActive' /\ ActiveIsWork'
  BY <1>0, <1>2, <1>3, <1>4, WorkStep, NoneIsNone DEF Phase
<1>6. EndsOnce' /\ InHandler'  BY <1>0 DEF PInv, EndsOnce, InHandler, IrqIdle
<1>7. QED  BY <1>0, <1>5, <1>6 DEF PInv

(* A queue of one descriptor is its head. *)
LEMMA OneIsHead == ASSUME NEW S, NEW s \in Seq(S), Len(s) = 1
                   PROVE  s # <<>> /\ Head(s) \in S /\ Tail(s) = <<>>
<1>1. s # <<>>  OBVIOUS
<1>2. Head(s) \in S /\ Tail(s) \in Seq(S)  BY <1>1, ConsIsSeq
<1>3. Len(Tail(s)) = 0  BY <1>1
<1>4. Tail(s) = <<>>
  <2>1. \A t \in Seq(S) : Len(t) = 0 => t = <<>>  OBVIOUS
  <2>2. QED  BY <1>2, <1>3, <2>1
<1>5. QED  BY <1>1, <1>2, <1>4

(* A step that changes nothing. *)
LEMMA StutterPolite == ASSUME PInv, UNCHANGED vars PROVE PInv'
  BY DEF vars, PInv, Phases, Phase, Unused, Ready, Queued, Active,
         WorkIsActive, ActiveIsWork, EndsOnce, Works, InHandler

(* Issuing: the pending descriptor becomes the active one. *)
LEMMA IssuePolite == ASSUME Polite, RInv, RInv', PInv, NEW c \in Chan, pl08x_issue_pending(c) PROVE PInv'
<1>0. /\ ChanType /\ OwnType /\ OwnType' /\ PhyExclusive /\ PhyExclusive' /\ chan[c] \in ChanRec
  BY DEF RInv, IInv, ChanType
<1>1. CASE IssueNothing(c)
  BY <1>1, StutterPolite DEF IssueNothing
<1>2. CASE IssueStarts(c)
  <2>1. Queued(c) /\ phychan[c] # None
    BY <1>2 DEF IssueStarts, PInv, Phases, Phase, Unused, Ready, Queued, Active
  <2>2. /\ chan' = StartNext(chan, c) /\ StartHw(phychan[c])
        /\ phychan' = phychan /\ serving' = serving /\ prepared' = prepared /\ irq' = irq
        /\ ~crashed' /\ chan[c].pend_list # <<>>
    BY <1>2, <2>1 DEF IssueStarts, PInv
  <2>3. PICK p \in Phy : p = phychan[c]  BY <1>0, <2>1 DEF OwnType
  <2>4. ~Works(p)  BY <2>1, <2>3, QuietPhy DEF Queued, Active
  <2>5. hw' = [hw EXCEPT ![p] = "busy"] /\ tc' = tc
    BY <2>2, <2>3, <2>4 DEF StartHw, Works
  <2>6. Active(c)' /\ \A d \in Chan \ {c} : SameChan(d)
    <3>1. /\ \A d \in Chan \ {c} : chan'[d] = chan[d]
          /\ chan'[c].at = Head(chan[c].pend_list) /\ chan'[c].pend_list = Tail(chan[c].pend_list)
      BY <1>0, <2>2, StartNextFields DEF ChanType
    <3>2. /\ chan'[c].state = "RUNNING" /\ chan'[c].waiting = chan[c].waiting
          /\ chan'[c].phychan_hold = chan[c].phychan_hold
      BY <1>0, <2>2 DEF StartNext, ChanType, ChanRec
    <3>3. Head(chan[c].pend_list) \in Txd /\ Tail(chan[c].pend_list) = <<>>
      <4>1. chan[c].pend_list \in Seq(Txd) /\ Len(chan[c].pend_list) = 1
        BY <1>0, <2>1 DEF ChanRec, Queued
      <4>2. QED  BY <4>1, OneIsHead
    <3>4. IsTxd(chan'[c].at)  BY <3>1, <3>3 DEF Txd, IsTxd
    <3>5. ~chan'[c].waiting
      <4>1. ~chan[c].waiting  BY <2>1, Zenon DEF Queued
      <4>2. QED  BY <3>2, <4>1
    <3>6. Active(c)'
      BY <2>1, <2>2, <3>1, <3>2, <3>3, <3>4, <3>5 DEF Active, Queued
    <3>7. QED  BY <2>2, <3>1, <3>6 DEF SameChan
  <2>7. \A r \in Phy : Works(r)' <=> r = p \/ Works(r)
    BY <1>0, <2>5 DEF Works, OwnType
  <2>8. Phases' /\ WorkIsActive' /\ ActiveIsWork'
    <3>1. Phase(c)'  BY <2>6 DEF Phase
    <3>2. phychan'[c] = p  BY <2>2, <2>3
    <3>3. QED  BY <1>0, <2>3, <2>6, <2>7, <3>1, <3>2, WorkStep
  <2>9. EndsOnce'  BY <1>0, <2>4, <2>5 DEF PInv, EndsOnce, Works, OwnType
  <2>10. InHandler'  BY <2>2, <2>5 DEF PInv, InHandler, IrqIdle
  <2>11. QED  BY <2>2, <2>8, <2>9, <2>10 DEF PInv
<1>3. QED  BY <1>1, <1>2 DEF pl08x_issue_pending

(* Terminating, pausing and resuming. *)
LEMMA ControlPolite ==
    ASSUME Polite, RInv, RInv', PInv, NEW c \in Chan,
           pl08x_terminate_all(c) \/ pl08x_pause(c) \/ pl08x_resume(c)
    PROVE  PInv'
<1>0. /\ ChanType /\ OwnType /\ OwnType' /\ PhyExclusive /\ PhyExclusive' /\ chan[c] \in ChanRec
  BY DEF RInv, IInv, ChanType
<1>1. CASE ControlNothing(c)
  BY <1>1, StutterPolite DEF ControlNothing
<1>2. CASE MayCall(c) /\ prepared[c] = <<>> /\ TerminateAll(c)
  <2>1. PICK p \in Phy : p = phychan[c]  BY <1>0, <1>2 DEF TerminateAll, OwnType
  <2>2. Queued(c) \/ Active(c)
    BY <1>2 DEF TerminateAll, PInv, Phases, Phase, Unused, Ready
  <2>3. /\ phychan' = [phychan EXCEPT ![c] = None] /\ hw' = [hw EXCEPT ![p] = "idle"]
        /\ tc' = tc \ {p} /\ prepared' = prepared /\ irq' = irq /\ ~crashed'
        /\ chan' = [chan EXCEPT ![c].state = "IDLE", ![c].at = NoTxd, ![c].pend_list = <<>>]
    BY <1>2, <2>1 DEF TerminateAll, PInv
  <2>4. Unused(c)' /\ \A d \in Chan \ {c} : SameChan(d)
    <3>1. /\ chan'[c].state = "IDLE" /\ chan'[c].at = NoTxd /\ chan'[c].pend_list = <<>>
          /\ chan'[c].waiting = chan[c].waiting /\ chan'[c].phychan_hold = chan[c].phychan_hold
          /\ \A d \in Chan \ {c} : chan'[d] = chan[d]
      BY <1>0, <2>3 DEF ChanType, ChanRec
    <3>2. phychan'[c] = None /\ \A d \in Chan \ {c} : phychan'[d] = phychan[d]
      BY <1>0, <2>3 DEF OwnType
    <3>3. ~chan[c].waiting /\ chan[c].phychan_hold = 0
      <4>1. phychan[c] # None  BY <2>1, NoneIsNone
      <4>2. QED  BY <2>2, <4>1, Zenon DEF Queued, Active
    <3>4. Unused(c)'
      BY <1>2, <2>3, <3>1, <3>2, <3>3 DEF Unused, IsTxd, NoTxd
    <3>5. QED  BY <2>3, <3>1, <3>2, <3>4 DEF SameChan
  <2>5. ~Active(c)'  BY <2>4 DEF Unused, Active
  <2>6. \A r \in Phy : Works(r)' <=> r # p /\ Works(r)
    BY <1>0, <2>3 DEF Works, OwnType
  <2>7. Phases' /\ WorkIsActive' /\ ActiveIsWork'
    <3>1. Phase(c)'  BY <2>4 DEF Phase
    <3>2. QED  BY <1>0, <2>1, <2>4, <2>5, <2>6, <3>1, WorkStep
  <2>8. EndsOnce'  BY <1>0, <2>3 DEF PInv, EndsOnce, OwnType
  <2>9. InHandler'
    <3>1. irq.on => irq.cb = c /\ irq.cb # None  BY <1>2 DEF MayCall, Polite
    <3>2. irq.val \subseteq tc \ {p}
      <4>1. irq.on => p \notin irq.val  BY <2>1, <3>1 DEF PInv, InHandler
      <4>2. ~irq.on => irq.val = {}  BY DEF PInv, InHandler, IrqIdle
      <4>3. QED  BY <4>1, <4>2 DEF PInv, InHandler
    <3>3. irq'.cb # None => phychan'[irq'.cb] \notin irq'.val
      <4>1. irq.cb # None => irq.on  BY DEF PInv, InHandler, IrqIdle
      <4>2. phychan'[c] = None /\ None \notin irq.val
        BY <1>0, <2>4, NoneIsNone DEF Unused, OwnType, IrqRec
      <4>3. QED  BY <2>3, <3>1, <4>1, <4>2
    <3>4. QED  BY <2>3, <3>2, <3>3 DEF PInv, InHandler
  <2>10. QED  BY <2>3, <2>7, <2>8, <2>9 DEF PInv
<1>3. ASSUME NEW from \in {"busy", "halted"}, NEW to \in {"busy", "halted"},
             NEW st \in {"PAUSED", "RUNNING"}, PauseResume(c, from, to, st)
      PROVE  PInv'
  <2>1. PICK p \in Phy : p = phychan[c]  BY <1>0, <1>3 DEF PauseResume, OwnType
  <2>2. PICK h \in {"idle", "busy", "halted"} :
            hw' = [hw EXCEPT ![p] = h] /\ (h = "idle" <=> hw[p] = "idle")
    BY <1>0, <1>3, <2>1 DEF PauseResume, OwnType
  <2>3. /\ phychan' = phychan /\ tc' = tc /\ prepared' = prepared /\ irq' = irq /\ ~crashed'
        /\ chan' = [chan EXCEPT ![c].state = st]
    BY <1>3 DEF PauseResume, PInv
  <2>4. /\ chan'[c].state = st /\ chan'[c].at = chan[c].at
        /\ chan'[c].pend_list = chan[c].pend_list
        /\ chan'[c].waiting = chan[c].waiting /\ chan'[c].phychan_hold = chan[c].phychan_hold
        /\ \A d \in Chan \ {c} : chan'[d] = chan[d]
    BY <1>0, <2>3 DEF ChanType, ChanRec
  <2>5. phychan[c] # None /\ Phase(c)  BY <2>1, NoneIsNone DEF PInv, Phases
  <2>6. Phase(c)' /\ (Active(c)' <=> Active(c))
    <3>1. Active(c)' <=> Active(c)
      BY <2>3, <2>4, <2>5 DEF Active, Phase, Unused, Ready, Queued
    <3>2. CASE Ready(c)
      <4>1. Ready(c)'  BY <2>3, <2>4, <3>2 DEF Ready
      <4>2. QED  BY <3>1, <4>1 DEF Phase
    <3>3. CASE Queued(c)
      <4>1. Queued(c)'  BY <2>3, <2>4, <2>5, <3>3 DEF Queued
      <4>2. QED  BY <3>1, <4>1 DEF Phase
    <3>4. QED  BY <2>5, <3>1, <3>2, <3>3 DEF Phase, Unused
  <2>7. \A d \in Chan \ {c} : SameChan(d)  BY <2>3, <2>4 DEF SameChan
  <2>8. \A r \in Phy : Works(r)' <=> Works(r)
    BY <1>0, <2>2, <2>3 DEF Works, OwnType
  <2>9. Works(p) <=> Active(c)
    <3>1. Active(c) => Works(p)  BY <2>1 DEF PInv, ActiveIsWork
    <3>2. ~Active(c) => ~Works(p)  BY <2>1, <2>5, QuietPhy
    <3>3. QED  BY <3>1, <3>2
  <2>10. Phases' /\ WorkIsActive' /\ ActiveIsWork'
    <3>1. \A r \in Phy : Works(r)' <=>
             \/ Active(c)' /\ r = phychan'[c]
             \/ r # phychan[c] /\ Works(r)
      BY <2>1, <2>3, <2>6, <2>8, <2>9
    <3>2. QED  BY <1>0, <2>6, <2>7, <3>1, WorkStep
  <2>11. EndsOnce' /\ InHandler'
    BY <1>0, <2>2, <2>3 DEF PInv, EndsOnce, InHandler, IrqIdle, OwnType
  <2>12. QED  BY <2>3, <2>10, <2>11 DEF PInv
<1>4. CASE pl08x_terminate_all(c)
  BY <1>1, <1>2, <1>4 DEF pl08x_terminate_all, Polite
<1>5. QED
  BY <1>1, <1>3, <1>4 DEF pl08x_pause, pl08x_resume

(* A transfer ends, on a channel the handler has not served if it runs. *)
LEMMA CompletePolite == ASSUME Polite, RInv, RInv', PInv, NEW p \in Phy, HwComplete(p) PROVE PInv'
<1>0. OwnType  BY DEF RInv, IInv
<1>1. /\ p \notin irq.mask /\ hw[p] = "busy" /\ hw' = [hw EXCEPT ![p] = "idle"] /\ tc' = tc \cup {p}
      /\ UNCHANGED <<phychan, serving, chan, prepared, irq, crashed>>
  BY DEF HwComplete, Polite
<1>3. \A c \in Chan : (Phase(c)' <=> Phase(c)) /\ (Active(c)' <=> Active(c))
  BY <1>1, SamePhase DEF SameChan
<1>4. \A r \in Phy : Works(r)' <=> Works(r)  BY <1>0, <1>1 DEF Works, OwnType
<1>5. Phases'  BY <1>3 DEF PInv, Phases
<1>6. WorkIsActive'
  <2> SUFFICES ASSUME NEW r \in Phy, Works(r)' PROVE serving'[r] # None /\ Active(serving[r])'
    BY DEF WorkIsActive
  <2>1. PICK d \in Chan : d = serving[r] /\ Active(d) /\ d # None
    BY <1>0, <1>4 DEF PInv, WorkIsActive, OwnType
  <2>2. Active(d)' /\ serving'[r] = d  BY <1>1, <1>3, <2>1
  <2>3. QED  BY <2>1, <2>2
<1>7. ActiveIsWork'
  <2> SUFFICES ASSUME NEW c \in Chan, Active(c)' PROVE Works(phychan[c])'
    BY DEF ActiveIsWork
  <2>1. PICK r \in Phy : r = phychan[c]  BY <1>0, <1>3 DEF Active, OwnType
  <2>2. Works(r)'  BY <1>3, <1>4, <2>1 DEF PInv, ActiveIsWork
  <2>3. QED  BY <1>1, <2>1, <2>2 DEF Works
<1>8. EndsOnce'  BY <1>0, <1>1 DEF PInv, EndsOnce, OwnType
<1>9. InHandler'
  <2>1. irq' = irq /\ phychan' = phychan /\ tc' = tc \cup {p}  BY <1>1
  <2>2. tc' \cap irq'.mask = {} /\ irq'.val \subseteq tc'  BY <1>1, <2>1 DEF PInv, InHandler
  <2>3. QED  BY <2>1, <2>2 DEF PInv, InHandler
<1>10. QED  BY <1>1, <1>5, <1>6, <1>7, <1>8, <1>9 DEF PInv

(* The handler serves a terminal count: it retires the active descriptor of  *)
(* the channel, which has no other, and frees its physical channel, or hands *)
(* one to a waiting memcpy; other active channels are left alone.            *)
LEMMA TaskletPolite ==
    ASSUME Polite, RInv, RInv', PInv, NEW p \in tc, NEW c \in Chan, Active(c), phychan[c] = p,
           pl08x_tasklet(c, p), prepared' = prepared
    PROVE  /\ Phases' /\ WorkIsActive' /\ ActiveIsWork' /\ EndsOnce'
           /\ tc' = tc \ {p} /\ phychan'[c] = None
           /\ \A d \in Chan \ {c} : Active(d) => SameChan(d)
           /\ \A r \in Phy : hw'[r] = "halted" => hw[r] = "halted" /\ r # p
<1>0. /\ ChanType /\ OwnType /\ OwnType' /\ PhyExclusive /\ PhyExclusive' /\ chan[c] \in ChanRec
      /\ p \in Phy /\ hw[p] = "idle" /\ serving[p] = c
  BY DEF RInv, IInv, ChanType, OwnType, PInv, EndsOnce, PhyExclusive
<1>1. chan[c].pend_list = <<>> /\ chan[c].phychan_hold = 0 /\ ~chan[c].waiting
      /\ prepared[c] = <<>>
  BY DEF Active
<1>2. ~TaskletNext(c, p) /\ ~TaskletHold(c)  BY <1>1 DEF TaskletNext, TaskletHold
<1> DEFINE l == IF IsTxd(chan[c].at) THEN chan[c].at.cookie ELSE chan[c].lc
           rc == [chan[c] EXCEPT !.at = NoTxd, !.lc = l, !.state = "IDLE"]
           rt == Retired(c)
<1>3. rt = [chan EXCEPT ![c] = [chan[c] EXCEPT !.at = NoTxd, !.lc = l]]
  BY Zenon DEF Retired
<1> HIDE DEF l, rt
<1>4. /\ rc.at = NoTxd /\ rc.state = "IDLE" /\ rc.pend_list = <<>> /\ rc.phychan_hold = 0
      /\ ~rc.waiting
  BY <1>0, <1>1 DEF ChanRec
<1>a. /\ rt \in [Chan -> ChanRec] /\ \A d \in Chan \ {c} : rt[d] = chan[d]
  BY <1>0, RetiredFields DEF rt
<1>b. [rt[c] EXCEPT !.state = "IDLE"] = rc
  BY <1>0, <1>3 DEF ChanType, ChanRec
<1> HIDE DEF rc
<1>5. ASSUME chan'[c] = rc, phychan'[c] = None PROVE Unused(c)'
  BY <1>1, <1>4, <1>5 DEF Unused, IsTxd, NoTxd
<1>6. CASE TaskletRelease(c, p)
  <2>1. /\ phychan' = [phychan EXCEPT ![c] = None] /\ hw' = [hw EXCEPT ![p] = "idle"]
        /\ tc' = tc \ {p}
    BY <1>6 DEF TaskletRelease
  <2>2. chan' = [rt EXCEPT ![c] = rc]
    <3>1. chan' = [rt EXCEPT ![c].state = "IDLE"]  BY <1>6, Zenon DEF TaskletRelease, rt
    <3>2. QED  BY <1>b, <3>1
  <2>3. chan'[c] = rc /\ \A d \in Chan \ {c} : chan'[d] = chan[d]  BY <1>a, <2>2
  <2>4. phychan'[c] = None /\ \A d \in Chan \ {c} : phychan'[d] = phychan[d]
    BY <1>0, <2>1 DEF OwnType
  <2>5. Unused(c)' /\ \A d \in Chan \ {c} : SameChan(d)  BY <1>5, <2>3, <2>4 DEF SameChan
  <2>6. Phase(c)' /\ ~Active(c)'  BY <2>5 DEF Phase, Unused, Active
  <2>7. \A r \in Phy : Works(r)' <=> r # p /\ Works(r)  BY <1>0, <2>1 DEF Works, OwnType
  <2>8. Phases' /\ WorkIsActive' /\ ActiveIsWork'
    BY <1>0, <2>5, <2>6, <2>7, WorkStep
  <2>9. EndsOnce'  BY <1>0, <2>1 DEF PInv, EndsOnce, OwnType
  <2>10. \A r \in Phy : hw'[r] = "halted" => hw[r] = "halted" /\ r # p
    BY <1>0, <2>1 DEF OwnType
  <2>11. QED  BY <2>1, <2>4, <2>5, <2>8, <2>9, <2>10
<1>7. CASE TaskletHandover(c, p)
  <2> DEFINE got(w) == IF phychan[w] # None THEN {phychan[w]} ELSE First(FreePhy(Released(c)))
  <2>1. PICK w \in First(Waiting \ {c}) : \E q \in got(w) : HandoverTo(c, p, w, q)
    BY <1>7, Zenon DEF TaskletHandover
  <2>2. PICK q \in got(w) : HandoverTo(c, p, w, q)  BY <2>1
  <2>3. w \in Chan /\ w # c /\ w \in Memcpy /\ chan[w].state = "WAITING"
    BY FirstIn DEF Waiting, Chan
  <2>4. Queued(w) /\ phychan[w] = None /\ chan[w] \in ChanRec
    BY <1>0, <2>3 DEF PInv, Phases, Phase, Unused, Ready, Queued, Active, ChanType
  <2>5. q \in Phy /\ (q = p \/ serving[q] = None)
    <3>1. q \in FreePhy(Released(c))  BY <2>2, <2>4, FirstIn
    <3>2. QED  BY <1>0, <3>1 DEF FreePhy, Released, OwnType
  <2>6. hw[q] = "idle" /\ (q # p => q \notin tc)
    BY <1>0, <2>5 DEF PInv, WorkIsActive, Works, OwnType
  <2>7. chan[w].pend_list \in Seq(Txd) /\ Len(chan[w].pend_list) = 1 /\ ~IsTxd(chan[w].at)
    BY <2>4 DEF Queued, ChanRec
  <2> DEFINE hd == Head(chan[w].pend_list)
             starts == ~IsTxd(chan[w].at) /\ chan[w].pend_list # <<>>
             h == IF phychan[w] # None THEN chan[w].phychan_hold - 1 ELSE chan[w].phychan_hold
             rw == [chan[w] EXCEPT !.state = "RUNNING", !.waiting = FALSE, !.phychan_hold = h]
             rest == [rt EXCEPT ![c] = rc, ![w] = rw]
             model == [rt EXCEPT
                         ![c].state = "IDLE", ![w].state = "RUNNING", ![w].waiting = FALSE,
                         ![w].phychan_hold = IF phychan[w] # None THEN @ - 1 ELSE @]
  <2>8. chan[w].pend_list # <<>> /\ hd \in Txd /\ Tail(chan[w].pend_list) = <<>>
    BY <2>7, OneIsHead
  <2>9. starts  BY <2>7, <2>8
  <2>10. /\ phychan' = [phychan EXCEPT ![c] = None, ![w] = q]
         /\ hw' = [r \in Phy |-> IF starts /\ r = q THEN "busy" ELSE IF r = p THEN "idle" ELSE hw[r]]
         /\ tc' = IF starts /\ q # p /\ hw[q] = "busy" THEN (tc \ {p}) \cup {q} ELSE tc \ {p}
         /\ chan' = IF starts THEN StartNext(model, w) ELSE model
    BY <2>2, Zenon DEF HandoverTo, rt
  <2> HIDE DEF starts, model, rest, hd
  <2>11. /\ phychan' = [phychan EXCEPT ![c] = None, ![w] = q]
         /\ hw' = [r \in Phy |-> IF r = q THEN "busy" ELSE IF r = p THEN "idle" ELSE hw[r]]
         /\ tc' = tc \ {p}
         /\ chan' = StartNext(model, w)
    BY <2>6, <2>9, <2>10
  <2>12. model = rest
    <3>1. rt[w] = chan[w]  BY <1>a, <2>3
    <3>2. QED  BY <1>a, <1>b, <2>3, <3>1 DEF model, rest
  <2>13. rw \in ChanRec /\ rw.pend_list = chan[w].pend_list /\ rw.phychan_hold = 0
         /\ rw.state = "RUNNING" /\ rw.waiting = FALSE
    <3>1. h = 0  BY <2>4 DEF Queued
    <3> HIDE DEF h
    <3>2. chan[w] \in ChanRec /\ h \in Int /\ FALSE \in BOOLEAN  BY <2>4, <3>1
    <3>3. rw \in ChanRec  BY <3>2 DEF ChanRec
    <3>4. rw.pend_list = chan[w].pend_list /\ rw.phychan_hold = h
          /\ rw.state = "RUNNING" /\ rw.waiting = FALSE
      BY <3>2 DEF ChanRec
    <3>5. QED  BY <3>1, <3>3, <3>4
  <2> HIDE DEF rw
  <2>14. /\ rest \in [Chan -> ChanRec] /\ rest[c] = rc /\ rest[w] = rw
         /\ \A d \in Chan \ {c, w} : rest[d] = chan[d]
    <3>1. rc \in ChanRec
      <4>1. rt[c] \in ChanRec  BY <1>a
      <4>2. QED  BY <1>b, <4>1 DEF ChanRec
    <3>2. QED  BY <1>a, <2>3, <2>13, <3>1 DEF rest
  <2>15. /\ \A d \in Chan \ {w} : chan'[d] = rest[d]
         /\ chan'[w].at = hd /\ chan'[w].pend_list = <<>>
         /\ chan'[w].phychan_hold = 0 /\ chan'[w].state = "RUNNING" /\ ~chan'[w].waiting
    <3>1. chan' = StartNext(rest, w)  BY <2>11, <2>12
    <3>2. /\ \A d \in Chan \ {w} : chan'[d] = rest[d]
          /\ chan'[w].at = Head(rest[w].pend_list) /\ chan'[w].pend_list = Tail(rest[w].pend_list)
      BY <2>3, <2>8, <2>13, <2>14, <3>1, StartNextFields
    <3>3. /\ chan'[w].state = "RUNNING" /\ chan'[w].waiting = rest[w].waiting
          /\ chan'[w].phychan_hold = rest[w].phychan_hold
      BY <2>3, <2>14, <3>1 DEF StartNext, ChanRec
    <3>4. QED  BY <2>8, <2>13, <2>14, <3>2, <3>3 DEF hd
  <2>16. /\ phychan'[c] = None /\ phychan'[w] = q
         /\ \A d \in Chan \ {c, w} : phychan'[d] = phychan[d]
    BY <1>0, <2>3, <2>11 DEF OwnType
  <2>17. Unused(c)' /\ ~Active(c)'
    <3>1. chan'[c] = rc  BY <2>3, <2>14, <2>15
    <3>2. Unused(c)'  BY <1>5, <2>16, <3>1
    <3>3. QED  BY <3>2 DEF Unused, Active
  <2>18. Active(w)'
    <3>1. w \notin Slave  BY <2>3, Pl08xAssumption DEF Slave, Memcpy
    <3>2. IsTxd(chan'[w].at)  BY <2>8, <2>15 DEF Txd, IsTxd
    <3>3. phychan'[w] # None  BY <2>5, <2>16, NoneIsNone
    <3>4. prepared'[w] = <<>>  BY <2>4 DEF Queued
    <3>5. QED  BY <2>15, <3>1, <3>2, <3>3, <3>4 DEF Active
  <2>19. \A d \in Chan \ {c, w} : SameChan(d)
    <3>1. \A d \in Chan \ {c, w} : chan'[d] = chan[d]  BY <2>14, <2>15
    <3>2. QED  BY <2>16, <3>1 DEF SameChan
  <2>20. \A r \in Phy : Works(r)' <=> r = q \/ (r # p /\ Works(r))
    BY <1>0, <2>5, <2>11 DEF Works, OwnType
  <2>21. Phases' /\ WorkIsActive' /\ ActiveIsWork'
    <3>1. Phase(c)' /\ Phase(w)'  BY <2>17, <2>18 DEF Phase
    <3>2. \A r \in Phy : Works(r)' <=>
             \/ Active(c)' /\ r = phychan'[c]
             \/ Active(w)' /\ r = phychan'[w]
             \/ r # phychan[c] /\ r # phychan[w] /\ Works(r)
      BY <2>4, <2>16, <2>17, <2>18, <2>20, NoneIsNone
    <3>3. QED  BY <1>0, <2>3, <2>19, <3>1, <3>2, WorkStep
  <2>22. EndsOnce'  BY <1>0, <2>5, <2>6, <2>11 DEF PInv, EndsOnce, OwnType
  <2>23. \A r \in Phy : hw'[r] = "halted" => hw[r] = "halted" /\ r # p  BY <2>11
  <2>24. ~Active(w)  BY <2>7 DEF Active
  <2>25. QED  BY <2>11, <2>16, <2>19, <2>21, <2>22, <2>23, <2>24
<1>8. QED  BY <1>2, <1>6, <1>7 DEF pl08x_tasklet

(* The interrupt handler. *)
LEMMA HandlerPolite == ASSUME Polite, RInv, RInv', PInv, Handler PROVE PInv'
<1>0. OwnType /\ PhyExclusive /\ irq \in IrqRec  BY DEF RInv, IInv, OwnType
<1>1. ASSUME UNCHANGED <<phychan, serving, chan, prepared, hw, tc, crashed>>, InHandler'
      PROVE  PInv'
  BY <1>1 DEF PInv, Phases, Phase, Unused, Ready, Queued, Active, WorkIsActive, ActiveIsWork,
              EndsOnce, Works
<1>2. CASE IrqEnter
  <2>1. /\ irq' = [on |-> TRUE, val |-> tc, mask |-> {}, cb |-> None] /\ tc' = tc
    BY <1>2 DEF IrqEnter
  <2>2. InHandler'  BY <2>1 DEF InHandler
  <2>3. QED  BY <1>1, <1>2, <2>2 DEF IrqEnter
<1>3. CASE CallbackReturn
  <2>1. irq' = [irq EXCEPT !.cb = None] /\ UNCHANGED <<phychan, tc>>
    BY <1>3 DEF CallbackReturn
  <2>2. irq'.on = irq.on /\ irq'.val = irq.val /\ irq'.mask = irq.mask /\ irq'.cb = None
    BY <1>0, <2>1 DEF IrqRec
  <2>3. irq.on  BY <1>3 DEF CallbackReturn, PInv, InHandler, IrqIdle
  <2>4. InHandler'  BY <2>1, <2>2, <2>3 DEF PInv, InHandler
  <2>5. QED  BY <1>1, <1>3, <2>4 DEF CallbackReturn
<1>4. CASE IrqExit
  <2>1. tc' = tc /\ irq' = IrqIdle  BY <1>4 DEF IrqExit, PInv, InHandler
  <2>2. InHandler'  BY <2>1 DEF InHandler, IrqIdle
  <2>3. QED  BY <1>1, <1>4, <2>1, <2>2 DEF IrqExit
<1>5. CASE IrqChan
  <2>1. irq.on /\ irq.val \subseteq tc  BY <1>5 DEF IrqChan, PInv, InHandler
  <2> DEFINE after(r) == [irq EXCEPT !.val = @ \ {r}, !.mask = @ \cup {r},
                               !.cb = IF IsTxd(chan[serving[r]].at) THEN serving[r] ELSE None]
  <2>2. PICK p \in First(irq.val) :
          \/ serving[p] = None /\ Crash
          \/ /\ serving[p] # None /\ pl08x_tasklet(serving[p], p) /\ irq' = after(p)
             /\ UNCHANGED <<prepared, crashed>>
    BY <1>5, Zenon DEF IrqChan
  <2>3. p \in tc /\ p \in Phy  BY <1>0, <2>1, FirstIn DEF OwnType
  <2>4. PICK c \in Chan : c = serving[p] /\ Active(c) /\ c # None
    BY <1>0, <2>3 DEF PInv, WorkIsActive, Works, OwnType
  <2>5. phychan[c] = p  BY <1>0, <2>3, <2>4 DEF PhyExclusive
  <2>6. pl08x_tasklet(c, p) /\ irq' = after(p) /\ prepared' = prepared /\ crashed' = crashed
    BY <2>2, <2>4
  <2>7. /\ Phases' /\ WorkIsActive' /\ ActiveIsWork' /\ EndsOnce'
        /\ tc' = tc \ {p} /\ phychan'[c] = None
    BY <2>3, <2>4, <2>5, <2>6, TaskletPolite
  <2>8. /\ irq'.on /\ irq'.val = irq.val \ {p} /\ irq'.mask = irq.mask \cup {p} /\ irq'.cb = c
    <3>1. IsTxd(chan[c].at)  BY <2>4 DEF Active
    <3>2. irq' = [irq EXCEPT !.val = @ \ {p}, !.mask = @ \cup {p}, !.cb = c]
      BY <2>4, <2>6, <3>1
    <3>3. QED  BY <1>0, <2>1, <3>2 DEF IrqRec
  <2>9. InHandler'
    <3>1. None \notin irq'.val  BY <1>0, <2>8, NoneIsNone DEF IrqRec
    <3>2. irq'.val \subseteq tc' /\ tc' \cap irq'.mask = {}
      BY <2>1, <2>7, <2>8 DEF PInv, InHandler
    <3>3. QED  BY <2>7, <2>8, <3>1, <3>2 DEF InHandler
  <2>10. QED  BY <2>6, <2>7, <2>9 DEF PInv
<1>6. QED  BY <1>2, <1>3, <1>4, <1>5 DEF Handler

(* With polite clients every step keeps the invariant. *)
LEMMA NextPolite == Polite /\ RInv /\ RInv' /\ PInv /\ [Next]_vars => PInv'
<1> SUFFICES ASSUME Polite, RInv, RInv', PInv, [Next]_vars PROVE PInv'  OBVIOUS
<1>1. CASE UNCHANGED vars  BY <1>1, StutterPolite
<1>2. \A p \in Phy : ~HwError(p)  BY DEF HwError, Polite
<1>3. QED
  BY <1>1, <1>2, PrepPolite, SubmitPolite, IssuePolite, ControlPolite, CompletePolite, HandlerPolite DEF Next

(* Initially no channel has a descriptor. *)
LEMMA InitPolite == Init => PInv
<1> SUFFICES ASSUME Init PROVE PInv  OBVIOUS
<1>1. ~crashed /\ InHandler  BY DEF Init, InHandler, IrqIdle
<1>2. \A c \in Chan : Unused(c)  BY DEF Init, Unused, IsTxd, NoTxd
<1>3. Phases /\ ActiveIsWork  BY <1>2 DEF Phases, Phase, ActiveIsWork, Unused, Active
<1>4. WorkIsActive /\ EndsOnce  BY DEF Init, WorkIsActive, EndsOnce, Works
<1>5. QED  BY <1>1, <1>3, <1>4 DEF PInv

(* The invariant says what the driver promises. *)
LEMMA PolitePromises == RInv /\ PInv => NoCrash /\ HoldsExact /\ StartedWithSignal /\ HardwareInStep
<1> SUFFICES ASSUME RInv, PInv PROVE NoCrash /\ HoldsExact /\ StartedWithSignal /\ HardwareInStep
  OBVIOUS
<1>0. \A c \in Chan : Phase(c)  BY DEF PInv, Phases
<1>1. NoCrash  BY DEF PInv, NoCrash
<1>2. HoldMatchesPrepared
  <2> SUFFICES ASSUME NEW c \in Chan
               PROVE chan[c].phychan_hold = IF phychan[c] = None THEN 0 ELSE Len(prepared[c])
    BY DEF HoldMatchesPrepared
  <2>1. CASE Unused(c)  BY <2>1 DEF Unused
  <2>2. CASE Ready(c)
    <3>1. Len(prepared[c]) = 1  BY <2>2 DEF Ready
    <3>2. QED  BY <2>2, <3>1 DEF Ready
  <2>3. CASE Queued(c) \/ Active(c)
    <3>1. Len(prepared[c]) = 0 /\ chan[c].phychan_hold = 0  BY <2>3 DEF Queued, Active
    <3>2. QED  BY <3>1
  <2>4. QED  BY <1>0, <2>1, <2>2, <2>3 DEF Phase
<1>3. IdleHoldsNothing
  <2> SUFFICES ASSUME NEW c \in Chan, phychan[c] # None
               PROVE  prepared[c] # <<>> \/ chan[c].pend_list # <<>> \/ IsTxd(chan[c].at)
    BY DEF IdleHoldsNothing
  <2>1. ~Unused(c)  BY DEF Unused
  <2>2. CASE Ready(c)
    <3>1. \A b : <<b>> # <<>>  OBVIOUS
    <3>2. QED  BY <2>2, <3>1 DEF Ready
  <2>3. CASE Queued(c)
    <3>1. Len(chan[c].pend_list) # Len(<<>>)  BY <2>3 DEF Queued
    <3>2. QED  BY <3>1
  <2>4. CASE Active(c)  BY <2>4 DEF Active
  <2>5. QED  BY <1>0, <2>1, <2>2, <2>3, <2>4 DEF Phase
<1>4. StartedWithSignal
  BY <1>0 DEF StartedWithSignal, Phase, Unused, Ready, Queued, Active, Chan
<1>5. CompletionPending
  <2> SUFFICES ASSUME NEW c \in Chan, IsTxd(chan[c].at)
               PROVE  hw[phychan[c]] # "idle" \/ phychan[c] \in tc
    BY DEF CompletionPending
  <2>1. Active(c)  BY <1>0 DEF Phase, Unused, Ready, Queued
  <2>2. QED  BY <2>1 DEF PInv, ActiveIsWork, Works
<1>6. BusyIsActive  BY DEF BusyIsActive, PInv, WorkIsActive, Works, Active
<1>7. QED  BY <1>1, <1>2, <1>3, <1>4, <1>5, <1>6 DEF HoldsExact, HardwareInStep

(* For every number of channels and every largest cookie: when each client   *)
(* has one descriptor at a time, calls from a callback only for its own      *)
(* channel and does not terminate between prep and submit, there are no bus  *)
(* errors, and a transfer started on a channel that the running handler has  *)
(* served does not end before that handler, the driver follows no NULL       *)
(* pointer, counts its holds exactly and keeps no physical channel it does   *)
(* not need, starts every slave transfer under its signal, and loses no      *)
(* completion, of a transfer that ends while the handler runs neither        *)
(* (prep_phy_channel, pl08x_tx_submit, pl08x_issue_pending, pl08x_irq,       *)
(* pl08x_tasklet).                                                           *)
THEOREM PoliteClientsServed ==
    ASSUME Polite
    PROVE  Spec => [](NoCrash /\ HoldsExact /\ StartedWithSignal /\ HardwareInStep)
<1>1. Polite  OBVIOUS
<1>2. RInv /\ RInv' /\ PInv /\ [Next]_vars => PInv'  BY <1>1, NextPolite
<1>3. Spec => []RInv  BY InitStep, NextStep, PTL DEF Spec
<1>4. QED  BY <1>2, <1>3, InitPolite, PolitePromises, PTL DEF Spec

-----------------------------------------------------------------------------
(* A started transfer only goes forward: what is left of StartedRetires but  *)
(* for fairness.                                                             *)

\* A transfer is halted only on behalf of a client that has paused it.
HaltedIsPaused == \A p \in Phy : hw[p] = "halted" => chan[serving[p]].state = "PAUSED"

\* The steps pl08x_irq still has to take: to serve each channel left in its copy
\* of the status word, to come back from each callback, and to return.
HandlerLeft ==
    IF irq.on THEN 2 * Cardinality(irq.val) + (IF irq.cb # None THEN 2 ELSE 1) ELSE 0

\* The handler serves only what has ended and leaves a terminal count alone that
\* it has not served, and a started transfer that is not paused moves data or has
\* a terminal count.
Ongoing ==
    /\ HandlerLeft \in 0..(2 * NPhy + 2)
    /\ irq.val \subseteq tc /\ tc \cap irq.mask = {}
    /\ \A c \in Chan : IsTxd(chan[c].at) /\ chan[c].state # "PAUSED" =>
           hw[phychan[c]] = "busy" \/ phychan[c] \in tc

\* A descriptor that stays active is the same one, on the same physical channel,
\* and its terminal count is not lost.
Carried(c) ==
    IsTxd(chan[c].at) /\ IsTxd(chan'[c].at) =>
        /\ chan'[c].at = chan[c].at /\ phychan'[c] = phychan[c]
        /\ phychan[c] \in tc => phychan[c] \in tc'

\* A step taken while the handler runs brings its end nearer, or is a call of the
\* driver by the callback or the end of a transfer, which give it no more to do.
HandlerNears == irq.on => HandlerLeft' < HandlerLeft \/ UNCHANGED irq
Forward == HandlerNears /\ \A c \in Chan : Carried(c)

(* With polite clients a channel with a descriptor started is active. *)
LEMMA TxdIsActive == ASSUME PInv, NEW c \in Chan PROVE IsTxd(chan[c].at) <=> Active(c)
  BY DEF PInv, Phases, Phase, Unused, Ready, Queued, Active

(* A channel a step leaves alone keeps its transfer. *)
LEMMA SameCarried ==
    ASSUME NEW c \in Chan, SameChan(c), phychan[c] \in tc => phychan[c] \in tc'
    PROVE  Carried(c)
  BY DEF SameChan, Carried

(* A step that halts nothing new and leaves the channels alone whose         *)
(* transfers it leaves halted.                                               *)
LEMMA HaltedStays ==
    ASSUME RInv, RInv', HaltedIsPaused,
           \A p \in Phy : hw'[p] = "halted" =>
               /\ hw[p] = "halted"
               /\ \A c \in Chan : phychan[c] = p => SameChan(c)
    PROVE  HaltedIsPaused'
<1> SUFFICES ASSUME NEW p \in Phy, hw'[p] = "halted" PROVE chan'[serving'[p]].state = "PAUSED"
  BY DEF HaltedIsPaused
<1>1. hw[p] = "halted" /\ chan[serving[p]].state = "PAUSED"  BY DEF HaltedIsPaused
<1>2. PICK c \in Chan : c = serving[p]  BY <1>1 DEF RInv, IInv, NoStrayDma, OwnType
<1>3. phychan[c] = p  BY <1>2 DEF RInv, IInv, PhyExclusive
<1>4. SameChan(c)  BY <1>3
<1>5. serving'[p] = c  BY <1>3, <1>4 DEF RInv, IInv, PhyExclusive, SameChan
<1>6. QED  BY <1>1, <1>2, <1>4, <1>5 DEF SameChan

(* How much the handler has to do is a bounded number. *)
LEMMA LeftBounded ==
    ASSUME RInv
    PROVE  /\ IsFiniteSet(irq.val) /\ Cardinality(irq.val) \in 0..NPhy
           /\ HandlerLeft \in 0..(2 * NPhy + 2)
           /\ irq.on => HandlerLeft >= 1
<1>1. irq.val \subseteq 1..NPhy  BY DEF RInv, IInv, OwnType, IrqRec, Phy
<1>2. NPhy \in Nat  BY Pl08xAssumption
<1>3. IsFiniteSet(1..NPhy) /\ Cardinality(1..NPhy) = NPhy
  <2>1. NPhy \in Int /\ 1 \in Int  BY <1>2
  <2>2. QED  BY <1>2, <2>1, FS_Interval
<1>4. IsFiniteSet(irq.val) /\ Cardinality(irq.val) <= NPhy
  BY <1>1, <1>3, FS_Subset
<1>5. Cardinality(irq.val) \in Nat  BY <1>4, FS_CardinalityType
<1>6. QED  BY <1>2, <1>4, <1>5 DEF HandlerLeft

(* A step that leaves the handler alone. *)
LEMMA SameNears ==
    ASSUME UNCHANGED irq
    PROVE  HandlerNears
  BY DEF HandlerNears

(* Preparing and submitting: no transfer is involved. *)
LEMMA PrepForward ==
    ASSUME Polite, RInv, RInv', PInv, PInv', HaltedIsPaused, NEW c \in Chan,
           pl08x_prep(c) \/ pl08x_tx_submit(c)
    PROVE  HaltedIsPaused' /\ Forward
<1>0. ChanType /\ OwnType /\ PhyExclusive  BY DEF RInv, IInv
<1>1. hw' = hw /\ tc' = tc /\ irq' = irq /\ MayCall(c)  BY DEF pl08x_prep, pl08x_tx_submit
<1>2. ~IsTxd(chan[c].at)
  <2>1. CASE pl08x_prep(c)
    <3>1. Active(c) => Len(prepared[c]) = 0 /\ Len(Outstanding(c)) = 1
      BY DEF Active, Outstanding
    <3>2. Len(prepared[c]) + Len(Outstanding(c)) < 1  BY <2>1 DEF pl08x_prep, Polite
    <3>3. ASSUME Active(c) PROVE FALSE
      <4>1. Len(prepared[c]) = 0 /\ Len(Outstanding(c)) = 1  BY <3>1, <3>3
      <4>2. QED  BY ONLY <3>2, <4>1
    <3>4. QED  BY <3>3, TxdIsActive
  <2>2. CASE pl08x_tx_submit(c)
    <3>1. ~Active(c)  BY <2>2 DEF pl08x_tx_submit, Active
    <3>2. QED  BY <3>1, TxdIsActive
  <2>3. QED  BY <2>1, <2>2
<1>3. \A d \in Chan \ {c} : SameChan(d)
  <2>1. \A d \in Chan \ {c} : chan'[d] = chan[d] /\ prepared'[d] = prepared[d]
    <3>1. CASE pl08x_prep(c)
      BY <1>0, <3>1 DEF pl08x_prep, PrepHasPhy, PrepGetsPhy, PrepNoPhy, ChanType
    <3>2. CASE pl08x_tx_submit(c)
      <4> DEFINE wait == c \in Memcpy /\ phychan[c] = None
                 k == NextCookie(chan[c].cookie)
                 t == [cookie |-> k, signal |-> Head(prepared[c])]
                 r == [chan[c] EXCEPT
                         !.cookie = k, !.pend_list = Append(chan[c].pend_list, t),
                         !.state = IF wait THEN "WAITING" ELSE chan[c].state,
                         !.waiting = chan[c].waiting \/ wait,
                         !.phychan_hold = IF wait THEN chan[c].phychan_hold
                                                  ELSE chan[c].phychan_hold - 1]
      <4>1. chan' = [chan EXCEPT ![c] = r]  BY <3>2, Zenon DEF pl08x_tx_submit
      <4> HIDE DEF r
      <4>2. QED  BY <1>0, <3>2, <4>1 DEF pl08x_tx_submit, ChanType
    <3>3. QED  BY <3>1, <3>2
  <2>2. \A d \in Chan \ {c} : phychan'[d] = phychan[d]
    BY <1>0 DEF pl08x_prep, pl08x_tx_submit, PrepHasPhy, PrepGetsPhy, PrepNoPhy, OwnType
  <2>3. QED  BY <2>1, <2>2 DEF SameChan
<1>4. \A d \in Chan : Carried(d)
  <2>1. Carried(c)  BY <1>2 DEF Carried
  <2>2. QED  BY <1>1, <1>3, <2>1, SameCarried
<1>5. HaltedIsPaused'
  <2>1. phychan[c] # None => ~Works(phychan[c])  BY <1>2, TxdIsActive, QuietPhy
  <2>2. ASSUME NEW p \in Phy, hw'[p] = "halted"
        PROVE  hw[p] = "halted" /\ \A d \in Chan : phychan[d] = p => SameChan(d)
    <3>1. phychan[c] # p  BY <1>1, <2>1, <2>2, NoneIsNone DEF Works
    <3>2. QED  BY <1>1, <1>3, <2>2, <3>1
  <2>3. QED  BY <2>2, HaltedStays
<1>6. QED  BY <1>1, <1>4, <1>5, SameNears DEF Forward

(* A step that changes nothing. *)
LEMMA StutterForward ==
    ASSUME HaltedIsPaused, UNCHANGED vars PROVE HaltedIsPaused' /\ \A c \in Chan : Carried(c)
  BY DEF vars, HaltedIsPaused, Carried

(* Issuing starts a transfer on a channel that has none. *)
LEMMA IssueForward ==
    ASSUME Polite, RInv, RInv', PInv, PInv', HaltedIsPaused, NEW c \in Chan,
           pl08x_issue_pending(c)
    PROVE  HaltedIsPaused' /\ Forward
<1>0. ChanType /\ OwnType /\ PhyExclusive  BY DEF RInv, IInv
<1>1. CASE IssueNothing(c)
  <2>1. UNCHANGED vars /\ MayCall(c)  BY <1>1 DEF IssueNothing, pl08x_issue_pending
  <2>2. HandlerNears  BY <2>1, SameNears DEF vars
  <2>3. QED  BY <2>1, <2>2, StutterForward DEF Forward
<1>2. CASE IssueStarts(c)
  <2>1. phychan[c] # None /\ ~IsTxd(chan[c].at) /\ MayCall(c)
    BY <1>2 DEF IssueStarts, pl08x_issue_pending, PInv, Phases, Phase, Unused, Ready, Queued,
                Active
  <2>2. /\ chan' = StartNext(chan, c) /\ StartHw(phychan[c]) /\ chan[c].pend_list # <<>>
        /\ phychan' = phychan /\ prepared' = prepared /\ irq' = irq
    BY <1>2, <2>1 DEF IssueStarts
  <2>3. PICK p \in Phy : p = phychan[c]  BY <1>0, <2>1 DEF OwnType
  <2>4. ~Works(p)  BY <2>1, <2>3, TxdIsActive, QuietPhy
  <2>5. hw' = [hw EXCEPT ![p] = "busy"] /\ tc' = tc
    BY <2>2, <2>3, <2>4 DEF StartHw, Works
  <2>6. \A d \in Chan \ {c} : SameChan(d)
    <3>1. \A d \in Chan \ {c} : chan'[d] = chan[d]
      BY <1>0, <2>2, StartNextFields DEF ChanType
    <3>2. QED  BY <2>2, <3>1 DEF SameChan
  <2>7. \A d \in Chan : Carried(d)
    <3>1. Carried(c)  BY <2>1 DEF Carried
    <3>2. QED  BY <2>5, <2>6, <3>1, SameCarried
  <2>8. HaltedIsPaused'
    <3>1. ASSUME NEW q \in Phy, hw'[q] = "halted"
          PROVE  hw[q] = "halted" /\ \A d \in Chan : phychan[d] = q => SameChan(d)
      BY <1>0, <2>3, <2>5, <2>6, <3>1 DEF OwnType
    <3>2. QED  BY <3>1, HaltedStays
  <2>9. QED  BY <2>1, <2>2, <2>5, <2>7, <2>8, SameNears DEF Forward
<1>3. QED  BY <1>1, <1>2 DEF pl08x_issue_pending

(* Terminating ends the transfer, pausing halts it and resuming takes it on. *)
LEMMA ControlForward ==
    ASSUME Polite, RInv, RInv', PInv, PInv', HaltedIsPaused, NEW c \in Chan,
           pl08x_terminate_all(c) \/ pl08x_pause(c) \/ pl08x_resume(c)
    PROVE  HaltedIsPaused' /\ Forward
<1>0. ChanType /\ OwnType /\ PhyExclusive /\ PhyExclusive' /\ chan[c] \in ChanRec /\ MayCall(c)
  BY DEF RInv, IInv, ChanType, pl08x_terminate_all, pl08x_pause, pl08x_resume
<1>1. CASE ControlNothing(c)
  <2>1. UNCHANGED vars  BY <1>1 DEF ControlNothing
  <2>2. HandlerNears  BY <1>0, <2>1, SameNears DEF vars
  <2>3. QED  BY <2>1, <2>2, StutterForward DEF Forward
<1>2. CASE TerminateAll(c)
  <2>1. PICK p \in Phy : p = phychan[c]  BY <1>0, <1>2 DEF TerminateAll, OwnType
  <2>2. /\ phychan' = [phychan EXCEPT ![c] = None] /\ hw' = [hw EXCEPT ![p] = "idle"]
        /\ tc' = tc \ {p} /\ prepared' = prepared /\ irq' = irq
        /\ chan' = [chan EXCEPT ![c].state = "IDLE", ![c].at = NoTxd, ![c].pend_list = <<>>]
    BY <1>2, <2>1 DEF TerminateAll
  <2>3. chan'[c].at = NoTxd /\ \A d \in Chan \ {c} : chan'[d] = chan[d]
    BY <1>0, <2>2 DEF ChanType, ChanRec
  <2>4. \A d \in Chan \ {c} : SameChan(d)
    BY <1>0, <2>2, <2>3 DEF SameChan, OwnType
  <2>5. \A d \in Chan : Carried(d)
    <3>1. Carried(c)  BY <2>3 DEF Carried, IsTxd, NoTxd
    <3>2. ASSUME NEW d \in Chan \ {c} PROVE Carried(d)
      <4>1. phychan[d] # p  BY <1>0, <2>1 DEF PhyExclusive
      <4>2. QED  BY <2>2, <2>4, <4>1, SameCarried
    <3>3. QED  BY <3>1, <3>2
  <2>6. HaltedIsPaused'
    <3>1. ASSUME NEW q \in Phy, hw'[q] = "halted"
          PROVE  hw[q] = "halted" /\ \A d \in Chan : phychan[d] = q => SameChan(d)
      BY <1>0, <2>1, <2>2, <2>4, <3>1 DEF OwnType
    <3>2. QED  BY <3>1, HaltedStays
  <2>7. HandlerNears  BY <2>2, SameNears
  <2>8. QED  BY <2>5, <2>6, <2>7 DEF Forward
<1>3. ASSUME NEW from, NEW to, NEW st, PauseResume(c, from, to, st),
             st # "PAUSED" => from = "halted" /\ to = "busy"
      PROVE  HaltedIsPaused' /\ Forward
  <2>1. PICK p \in Phy : p = phychan[c]  BY <1>0, <1>3 DEF PauseResume, OwnType
  <2>2. /\ hw' = [hw EXCEPT ![p] = IF @ = from THEN to ELSE @]
        /\ chan' = [chan EXCEPT ![c].state = st]
        /\ UNCHANGED <<phychan, serving, prepared, tc, irq>>
    BY <1>3, <2>1 DEF PauseResume
  <2>3. /\ chan'[c].at = chan[c].at /\ chan'[c].state = st
        /\ \A d \in Chan \ {c} : chan'[d] = chan[d]
    BY <1>0, <2>2 DEF ChanType, ChanRec
  <2>4. \A d \in Chan : Carried(d)  BY <2>2, <2>3 DEF Carried
  <2>5. HaltedIsPaused'
    <3> SUFFICES ASSUME NEW q \in Phy, hw'[q] = "halted"
                 PROVE  chan'[serving'[q]].state = "PAUSED"
      BY DEF HaltedIsPaused
    <3>1. CASE q = p
      <4>1. serving'[q] = c  BY <1>0, <2>1, <2>2, <3>1 DEF PhyExclusive
      <4>2. CASE st = "PAUSED"  BY <2>3, <4>1, <4>2
      <4>3. CASE st # "PAUSED"
        <5>1. hw'[p] # "halted"  BY <1>0, <1>3, <2>2, <4>3 DEF OwnType
        <5>2. QED  BY <3>1, <5>1
      <4>4. QED  BY <4>2, <4>3
    <3>2. CASE q # p
      <4>1. hw[q] = "halted"  BY <1>0, <2>2, <3>2 DEF OwnType
      <4>2. chan[serving[q]].state = "PAUSED"  BY <4>1 DEF HaltedIsPaused
      <4>3. serving[q] \in Chan /\ serving[q] # c
        BY <1>0, <2>1, <3>2, <4>1 DEF PhyExclusive, OwnType, RInv, IInv, NoStrayDma
      <4>4. QED  BY <2>2, <2>3, <4>2, <4>3
    <3>3. QED  BY <3>1, <3>2
  <2>6. QED  BY <1>0, <2>2, <2>4, <2>5, SameNears DEF Forward
<1>4. CASE pl08x_terminate_all(c)  BY <1>1, <1>2, <1>4 DEF pl08x_terminate_all
<1>5. CASE pl08x_pause(c)  BY <1>1, <1>3, <1>5 DEF pl08x_pause
<1>6. CASE pl08x_resume(c)  BY <1>1, <1>3, <1>6 DEF pl08x_resume
<1>7. QED  BY <1>4, <1>5, <1>6

(* A transfer ends. *)
LEMMA CompleteForward ==
    ASSUME Polite, RInv, RInv', PInv, HaltedIsPaused, NEW p \in Phy, HwComplete(p)
    PROVE  HaltedIsPaused' /\ Forward
<1>0. OwnType  BY DEF RInv, IInv
<1>1. /\ hw' = [hw EXCEPT ![p] = "idle"] /\ tc' = tc \cup {p}
      /\ UNCHANGED <<phychan, serving, chan, prepared, irq>>
  BY DEF HwComplete
<1>2. \A c \in Chan : SameChan(c)  BY <1>1 DEF SameChan
<1>3. \A c \in Chan : Carried(c)  BY <1>1, <1>2, SameCarried
<1>4. HaltedIsPaused'  BY <1>0, <1>1 DEF HaltedIsPaused, OwnType
<1>5. QED  BY <1>1, <1>3, <1>4 DEF Forward, HandlerNears

(* The handler: each channel it serves is one less in its copy of the status *)
(* word, and each callback returns.                                          *)
LEMMA HandlerForward ==
    ASSUME Polite, RInv, RInv', PInv, HaltedIsPaused, Handler
    PROVE  HaltedIsPaused' /\ Forward
<1>0. OwnType /\ PhyExclusive /\ irq \in IrqRec  BY DEF RInv, IInv, OwnType
<1> DEFINE k == Cardinality(irq.val)
<1>1. IsFiniteSet(irq.val) /\ k \in Nat  BY LeftBounded, Pl08xAssumption
<1>2. ASSUME UNCHANGED <<phychan, serving, chan, prepared, hw, tc>>
      PROVE  HaltedIsPaused' /\ \A c \in Chan : Carried(c)
  BY <1>2 DEF HaltedIsPaused, Carried
<1>3. CASE IrqEnter  BY <1>2, <1>3 DEF IrqEnter, Forward, HandlerNears
<1>4. CASE CallbackReturn
  <2>1. irq.cb # None /\ irq' = [irq EXCEPT !.cb = None]  BY <1>4 DEF CallbackReturn
  <2>2. irq'.on = irq.on /\ irq'.val = irq.val /\ irq'.cb = None  BY <1>0, <2>1 DEF IrqRec
  <2>3. irq.on => HandlerLeft = 2 * k + 2 /\ HandlerLeft' = 2 * k + 1
    BY <2>1, <2>2 DEF HandlerLeft
  <2> HIDE DEF k
  <2>4. HandlerNears  BY <1>1, <2>3 DEF HandlerNears
  <2>5. QED  BY <1>2, <1>4, <2>4 DEF CallbackReturn, Forward
<1>5. CASE IrqExit
  <2>1. tc' = tc /\ irq' = IrqIdle /\ irq.on  BY <1>5 DEF IrqExit, PInv, InHandler
  <2>2. HandlerLeft' = 0  BY <2>1 DEF HandlerLeft, IrqIdle
  <2>3. HandlerNears  BY <2>1, <2>2, LeftBounded DEF HandlerNears
  <2>4. QED  BY <1>2, <1>5, <2>1, <2>3 DEF IrqExit, Forward
<1>6. CASE IrqChan
  <2>1. irq.on /\ irq.val \subseteq tc /\ irq.cb = None  BY <1>6 DEF IrqChan, PInv, InHandler
  <2> DEFINE after(r) == [irq EXCEPT !.val = @ \ {r}, !.mask = @ \cup {r},
                               !.cb = IF IsTxd(chan[serving[r]].at) THEN serving[r] ELSE None]
  <2>2. PICK p \in First(irq.val) :
          \/ serving[p] = None /\ Crash
          \/ /\ serving[p] # None /\ pl08x_tasklet(serving[p], p) /\ irq' = after(p)
             /\ UNCHANGED <<prepared, crashed>>
    BY <1>6, Zenon DEF IrqChan
  <2>3. p \in tc /\ p \in Phy /\ p \in irq.val  BY <1>0, <2>1, FirstIn DEF OwnType
  <2>4. PICK c \in Chan : c = serving[p] /\ Active(c) /\ c # None
    BY <1>0, <2>3 DEF PInv, WorkIsActive, Works, OwnType
  <2>5. phychan[c] = p  BY <1>0, <2>3, <2>4 DEF PhyExclusive
  <2>6. pl08x_tasklet(c, p) /\ irq' = after(p) /\ prepared' = prepared
    BY <2>2, <2>4
  <2>7. /\ Phases' /\ tc' = tc \ {p} /\ phychan'[c] = None
        /\ \A d \in Chan \ {c} : Active(d) => SameChan(d)
        /\ \A r \in Phy : hw'[r] = "halted" => hw[r] = "halted" /\ r # p
    BY <2>3, <2>4, <2>5, <2>6, TaskletPolite
  <2>8. irq'.on /\ irq'.val = irq.val \ {p} /\ irq'.cb = c
    <3>1. IsTxd(chan[c].at)  BY <2>4 DEF Active
    <3>2. irq' = [irq EXCEPT !.val = @ \ {p}, !.mask = @ \cup {p}, !.cb = c]
      BY <2>4, <2>6, <3>1
    <3>3. QED  BY <1>0, <2>1, <3>2 DEF IrqRec
  <2>9. HandlerNears
    <3>1. Cardinality(irq.val \ {p}) = k - 1  BY <1>1, <2>3, FS_RemoveElement
    <3>2. HandlerLeft = 2 * k + 1 /\ HandlerLeft' = 2 * (k - 1) + 2
      BY <2>1, <2>4, <2>8, <3>1 DEF HandlerLeft
    <3> HIDE DEF k
    <3>3. QED  BY <1>1, <3>2 DEF HandlerNears
  <2>10. \A d \in Chan : Carried(d)
    <3>1. Carried(c)
      <4>1. ~IsTxd(chan'[c].at)
        BY <2>7 DEF Phases, Phase, Unused, Ready, Queued, Active
      <4>2. QED  BY <4>1 DEF Carried
    <3>2. ASSUME NEW d \in Chan \ {c} PROVE Carried(d)
      <4>1. CASE Active(d)
        <5>1. phychan[d] # p  BY <1>0, <2>3, <2>5 DEF PhyExclusive
        <5>2. QED  BY <2>7, <4>1, <5>1, SameCarried
      <4>2. CASE ~Active(d)
        <5>1. ~IsTxd(chan[d].at)  BY <4>2, TxdIsActive
        <5>2. QED  BY <5>1 DEF Carried
      <4>3. QED  BY <4>1, <4>2
    <3>3. QED  BY <3>1, <3>2
  <2>11. HaltedIsPaused'
    <3>1. ASSUME NEW r \in Phy, hw'[r] = "halted"
          PROVE  hw[r] = "halted" /\ \A d \in Chan : phychan[d] = r => SameChan(d)
      <4>1. hw[r] = "halted" /\ r # p  BY <2>7, <3>1
      <4>2. ASSUME NEW d \in Chan, phychan[d] = r PROVE SameChan(d)
        <5>1. serving[r] = d /\ Works(r)  BY <1>0, <4>1, <4>2 DEF PhyExclusive, Works
        <5>2. Active(d)  BY <5>1 DEF PInv, WorkIsActive
        <5>3. QED  BY <2>5, <2>7, <4>1, <4>2, <5>2
      <4>3. QED  BY <4>1, <4>2
    <3>2. QED  BY <3>1, HaltedStays
  <2>12. QED  BY <2>9, <2>10, <2>11 DEF Forward
<1>7. QED  BY <1>3, <1>4, <1>5, <1>6 DEF Handler

(* Every step takes every transfer forward. *)
LEMMA NextForward ==
    ASSUME Polite, RInv, RInv', PInv, PInv', HaltedIsPaused, [Next]_vars
    PROVE  HaltedIsPaused' /\ [Forward]_vars
<1>1. CASE UNCHANGED vars  BY <1>1, StutterForward
<1>2. CASE Next
  <2>0. \A p \in Phy : ~HwError(p)  BY DEF HwError, Polite
  <2>1. HaltedIsPaused' /\ Forward
    BY <1>2, <2>0, PrepForward, IssueForward, ControlForward, CompleteForward, HandlerForward DEF Next
  <2>2. QED  BY <2>1
<1>3. QED  BY <1>1, <1>2

(* What goes on follows from the invariants. *)
LEMMA IsOngoing == RInv /\ PInv /\ HaltedIsPaused => Ongoing
<1> SUFFICES ASSUME RInv, PInv, HaltedIsPaused PROVE Ongoing  OBVIOUS
<1>1. HandlerLeft \in 0..(2 * NPhy + 2)  BY LeftBounded
<1>2. irq.val \subseteq tc /\ tc \cap irq.mask = {}  BY DEF PInv, InHandler
<1>3. ASSUME NEW c \in Chan, IsTxd(chan[c].at), chan[c].state # "PAUSED"
      PROVE  hw[phychan[c]] = "busy" \/ phychan[c] \in tc
  <2>1. Active(c)  BY <1>3, TxdIsActive
  <2>2. PICK p \in Phy : p = phychan[c]  BY <2>1 DEF Active, RInv, IInv, OwnType
  <2>3. serving[p] = c  BY <2>2 DEF RInv, IInv, PhyExclusive
  <2>4. hw[p] # "halted"  BY <1>3, <2>3 DEF HaltedIsPaused
  <2>5. Works(p)  BY <2>1, <2>2 DEF PInv, ActiveIsWork
  <2>6. hw[p] \in {"idle", "busy", "halted"}  BY DEF RInv, IInv, OwnType
  <2>7. QED  BY <2>2, <2>4, <2>5, <2>6 DEF Works
<1>4. QED  BY <1>1, <1>2, <1>3 DEF Ongoing

(* For polite clients and every number of channels a started transfer only   *)
(* goes forward.  Unless it is paused it moves data or has its terminal      *)
(* count; until it is retired or terminated it stays on its physical         *)
(* channel, and its terminal count is cleared neither by the transfers that  *)
(* other clients start, stop or pause, nor by the hand-over in               *)
(* pl08x_tasklet, nor by a handler that runs when it comes; and pl08x_irq    *)
(* returns after at most two steps for each physical channel and two more,   *)
(* whatever the callbacks call and whichever transfers end meanwhile.        *)
THEOREM TransfersGoForward == ASSUME Polite PROVE Spec => []Ongoing /\ [][Forward]_vars
<1>1. Polite  OBVIOUS
<1>2. RInv /\ RInv' /\ PInv /\ [Next]_vars => PInv'  BY <1>1, NextPolite
<1>3. RInv /\ RInv' /\ PInv /\ PInv' /\ HaltedIsPaused /\ [Next]_vars =>
          HaltedIsPaused' /\ [Forward]_vars
  BY <1>1, NextForward
<1>4. Spec => []RInv  BY InitStep, NextStep, PTL DEF Spec
<1>5. Init => HaltedIsPaused  BY DEF Init, HaltedIsPaused
<1>6. QED  BY <1>2, <1>3, <1>4, <1>5, InitPolite, IsOngoing, PTL DEF Spec
=============================================================================
