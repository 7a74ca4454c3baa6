------------------------------- MODULE Pl08x -------------------------------
(***************************************************************************)
(* The DMA controller driver, drivers/dma/dlna_pl08x.c, built without      *)
(* CONFIG_SILAN_DMA_LLI_INT: virtual channels (slave channels, one per     *)
(* peripheral, and memcpy channels) that share the physical channels of a  *)
(* PL080.  A client prepares a descriptor, submits it, and issues the      *)
(* pending ones; the interrupt handler retires a finished descriptor and   *)
(* runs the client's callback in hard interrupt context (pl08x_irq calls   *)
(* pl08x_tasklet directly).                                                *)
(*                                                                         *)
(* Every entry point works under plchan->lock with interrupts off on a     *)
(* uniprocessor, so each is one step.  The interrupt handler is several    *)
(* steps: no thread runs between them, but the hardware does.  A client    *)
(* calls from a thread, or from a callback while the handler is inside it. *)
(* Descriptor contents (addresses, LLIs, bus widths) are left out, but not *)
(* whether the descriptor carries the channel's flow-control signal.       *)
(***************************************************************************)
EXTENDS Integers, Sequences

CONSTANTS
    NSlave, NMemcpy,  \* number of slave and of memcpy channels
    NPhy,             \* vd->channels
    MaxCookie,        \* the largest dma_cookie_t
    MaxQueue,         \* bound: descriptors of a channel prepared or outstanding
    MaxHold,          \* bound on the size of phychan_hold
    Env               \* what clients and hardware may do, a subset of AnyEnv

\* cross_call: a callback calls the driver for another channel than its own;
\* terminate_prepared: a client terminates between preparing and submitting;
\* fast_hw: a transfer that the interrupt handler or a callback started on a
\* channel just served may end before the handler is done;
\* bus_error: a transfer may end with an error interrupt.
AnyEnv == {"cross_call", "terminate_prepared", "fast_hw", "bus_error"}

Slave == 1..NSlave
Memcpy == (NSlave + 1)..(NSlave + NMemcpy)
Chan == Slave \cup Memcpy
Phy == 1..NPhy
None == 0

ASSUME Pl08xAssumption ==
    /\ NSlave \in Nat /\ NMemcpy \in Nat /\ NPhy \in Nat \ {0}
    /\ MaxCookie \in Nat \ {0} /\ MaxQueue \in Nat \ {0} /\ MaxHold \in Nat
    /\ Env \subseteq AnyEnv

\* A descriptor: its cookie, and whether its ccfg names the channel's signal.
Txd == [cookie : 1..MaxCookie, signal : BOOLEAN]
NoTxd == [cookie |-> 0, signal |-> FALSE]
IsTxd(t) == t.cookie # 0

VARIABLES
    phychan,   \* plchan->phychan: the physical channel of a virtual one, or None
    serving,   \* phychan->serving: the virtual channel of a physical one, or None
    chan,      \* the rest of struct pl08x_dma_chan
    prepared,  \* descriptors prepared and not yet submitted (their signal flags)
    hw,        \* what a physical channel is doing
    tc,        \* PL080_INT_STATUS: physical channels with a terminal count
    irq,       \* the interrupt handler
    crashed    \* the kernel followed a NULL pointer

vars == <<phychan, serving, chan, prepared, hw, tc, irq, crashed>>

ChanRec == [state : {"IDLE", "RUNNING", "PAUSED", "WAITING"}, phychan_hold : Int,
            pend_list : Seq(Txd), at : Txd \cup {NoTxd}, waiting : BOOLEAN,
            cookie : 0..MaxCookie, lc : 0..MaxCookie]

\* val: channels the handler has still to serve; mask: those it has served;
\* cb: the virtual channel whose callback is running.
IrqRec == [on : BOOLEAN, val : SUBSET Phy, mask : SUBSET Phy, cb : Chan \cup {None}]
IrqIdle == [on |-> FALSE, val |-> {}, mask |-> {}, cb |-> None]

Init ==
    /\ phychan = [c \in Chan |-> None]
    /\ serving = [p \in Phy |-> None]
    /\ chan = [c \in Chan |-> [state |-> "IDLE", phychan_hold |-> 0, pend_list |-> <<>>,
                               at |-> NoTxd, waiting |-> FALSE, cookie |-> 0, lc |-> 0]]
    /\ prepared = [c \in Chan |-> <<>>]
    /\ hw = [p \in Phy |-> "idle"]
    /\ tc = {}
    /\ irq = IrqIdle
    /\ crashed = FALSE

\* The driver may be called for channel c: by a thread outside the handler, or
\* by the callback the handler is running.
MayCall(c) ==
    /\ ~crashed
    /\ irq.on => irq.cb # None /\ ("cross_call" \in Env \/ irq.cb = c)

\* The loops over channels take the lowest that fits: the least element of a
\* set, as a set of one element or none.
First(S) == {x \in S : \A y \in S : x <= y}
FreePhy(srv) == {p \in Phy : srv[p] = None}
Outstanding(c) == IF IsTxd(chan[c].at) THEN <<chan[c].at>> \o chan[c].pend_list
                                      ELSE chan[c].pend_list
Crash == crashed' = TRUE /\ UNCHANGED <<phychan, serving, chan, prepared, hw, tc, irq>>

-----------------------------------------------------------------------------
(* Preparing: pl08x_prep_slave_sg and pl08x_prep_dma_memcpy, which end in    *)
(* pl08x_prep_channel_resources and prep_phy_channel.                        *)

IdleToPaused(s) == IF s = "IDLE" THEN "PAUSED" ELSE s

\* The channel already has a physical channel: prep_phy_channel returns at
\* once, without a hold and without putting the signal into the descriptor.
PrepHasPhy(c) ==
    /\ phychan[c] # None
    /\ chan' = [chan EXCEPT ![c].state = IdleToPaused(@)]
    /\ prepared' = [prepared EXCEPT ![c] = Append(@, FALSE)]
    /\ UNCHANGED <<phychan, serving>>

\* mutant of PrepGetsPhy: the search does not skip channels in use.
PrepStealsPhy(c) ==
    /\ phychan[c] = None
    /\ \E p \in First(Phy) :
       /\ phychan' = [phychan EXCEPT ![c] = p]
       /\ serving' = [serving EXCEPT ![p] = c]
    /\ chan' = [chan EXCEPT ![c].state = IdleToPaused(@), ![c].phychan_hold = @ + 1]
    /\ prepared' = [prepared EXCEPT ![c] = Append(@, c \in Slave)]

\* mutant of PrepGetsPhy: no hold on the channel.
PrepWithoutHold(c) ==
    /\ phychan[c] = None
    /\ \E p \in First(FreePhy(serving)) :
       /\ phychan' = [phychan EXCEPT ![c] = p]
       /\ serving' = [serving EXCEPT ![p] = c]
    /\ chan' = [chan EXCEPT ![c].state = IdleToPaused(@)]
    /\ prepared' = [prepared EXCEPT ![c] = Append(@, c \in Slave)]

\* It takes the first free physical channel, and a hold on it.
PrepGetsPhy(c) ==
    /\ phychan[c] = None
    /\ \E p \in First(FreePhy(serving)) :
       /\ phychan' = [phychan EXCEPT ![c] = p]
       /\ serving' = [serving EXCEPT ![p] = c]
    /\ chan' = [chan EXCEPT ![c].state = IdleToPaused(@), ![c].phychan_hold = @ + 1]
    /\ prepared' = [prepared EXCEPT ![c] = Append(@, c \in Slave)]

\* All are taken: a slave is refused and loses its pending list; a memcpy
\* goes on without a physical channel.
PrepNoPhy(c) ==
    /\ phychan[c] = None
    /\ FreePhy(serving) = {}
    /\ \/ /\ c \in Slave
          /\ chan' = [chan EXCEPT ![c].pend_list = <<>>]
          /\ UNCHANGED prepared
       \/ /\ c \in Memcpy
          /\ prepared' = [prepared EXCEPT ![c] = Append(@, FALSE)]
          /\ UNCHANGED chan
    /\ UNCHANGED <<phychan, serving>>

pl08x_prep(c) ==
    /\ MayCall(c)
    /\ Len(prepared[c]) + Len(Outstanding(c)) < MaxQueue
    /\ chan[c].phychan_hold < MaxHold
    /\ PrepHasPhy(c) \/ PrepGetsPhy(c) \/ PrepNoPhy(c)
    /\ UNCHANGED <<hw, tc, irq, crashed>>

-----------------------------------------------------------------------------
(* Submitting and starting.                                                  *)

CookieNoWrap(k) == k + 1   \* mutant: no wrap
NextCookie(k) == IF k = MaxCookie THEN 1 ELSE k + 1

\* Bound: fewer than MaxCookie descriptors are submitted between two completions.
CookieFree(c, k) == k # chan[c].lc /\ (chan[c].lc = 0 => k > chan[c].cookie)

\* mutant of pl08x_tx_submit: the hold is not given back.
SubmitKeepsHold(c) ==
    LET k == NextCookie(chan[c].cookie)
        txd == [cookie |-> k, signal |-> Head(prepared[c])]
        wait == c \in Memcpy /\ phychan[c] = None
    IN
    /\ MayCall(c)
    /\ prepared[c] # <<>>
    /\ CookieFree(c, k)
    /\ prepared' = [prepared EXCEPT ![c] = Tail(@)]
    /\ chan' = [chan EXCEPT
                  ![c].cookie = k,
                  ![c].pend_list = Append(@, txd),
                  ![c].state = IF wait THEN "WAITING" ELSE @,
                  ![c].waiting = @ \/ wait]
    /\ UNCHANGED <<phychan, serving, hw, tc, irq, crashed>>

pl08x_tx_submit(c) ==
    LET k == NextCookie(chan[c].cookie)
        txd == [cookie |-> k, signal |-> Head(prepared[c])]
        wait == c \in Memcpy /\ phychan[c] = None
    IN
    /\ MayCall(c)
    /\ prepared[c] # <<>>
    /\ CookieFree(c, k) /\ chan[c].phychan_hold > -MaxHold
    /\ prepared' = [prepared EXCEPT ![c] = Tail(@)]
    /\ chan' = [chan EXCEPT
                  ![c].cookie = k,
                  ![c].pend_list = Append(@, txd),
                  ![c].state = IF wait THEN "WAITING" ELSE @,
                  ![c].waiting = @ \/ wait,
                  ![c].phychan_hold = IF wait THEN @ ELSE @ - 1]
    /\ UNCHANGED <<phychan, serving, hw, tc, irq, crashed>>

\* mutant of StartNext: the started descriptor stays on the pending list.
StartKeepsPending(ch, c) ==
    [ch EXCEPT ![c].at = Head(ch[c].pend_list), ![c].state = "RUNNING"]

\* The first pending descriptor of c becomes the active one (list_del and the
\* bookkeeping of pl08x_start_txd), as a function of the channel records.
StartNext(ch, c) ==
    [ch EXCEPT ![c].at = Head(ch[c].pend_list),
               ![c].pend_list = Tail(@), ![c].state = "RUNNING"]

\* pl08x_start_txd on physical channel p waits until it is inactive: a running
\* transfer ends first, with its terminal count.
StartHw(p) ==
    /\ hw' = [hw EXCEPT ![p] = "busy"]
    /\ tc' = IF hw[p] = "busy" THEN tc \cup {p} ELSE tc

IssueNothing(c) ==
    /\ \/ IsTxd(chan[c].at)
       \/ chan[c].state = "WAITING"
       \/ chan[c].pend_list = <<>>
    /\ UNCHANGED vars

IssueStarts(c) ==
    /\ ~IsTxd(chan[c].at)
    /\ chan[c].state # "WAITING"
    /\ chan[c].pend_list # <<>>
    /\ \/ /\ phychan[c] # None
          /\ chan' = StartNext(chan, c)
          /\ StartHw(phychan[c])
          /\ UNCHANGED <<phychan, serving, prepared, irq, crashed>>
       \/ phychan[c] = None /\ Crash      \* pl08x_start_txd of a NULL phychan

pl08x_issue_pending(c) == MayCall(c) /\ (IssueNothing(c) \/ IssueStarts(c))

\* dma_async_is_complete, by which pl08x_dma_tx_status answers a client.
dma_async_is_complete(cookie, last_complete, last_used) ==
    IF last_complete <= last_used
    THEN cookie <= last_complete \/ cookie > last_used
    ELSE cookie <= last_complete /\ cookie > last_used

-----------------------------------------------------------------------------
(* pl08x_control.                                                            *)

\* release_phy_channel: stop the channel, clear its interrupt, mark it free.
Released(c) == [serving EXCEPT ![phychan[c]] = None]

ControlNothing(c) == phychan[c] = None /\ ~IsTxd(chan[c].at) /\ UNCHANGED vars

\* mutant of TerminateAll: the physical channel is freed but not stopped.
TerminateLeavesHw(c) ==
    /\ phychan[c] # None
    /\ phychan' = [phychan EXCEPT ![c] = None]
    /\ serving' = Released(c)
    /\ UNCHANGED hw
    /\ tc' = tc \ {phychan[c]}
    /\ chan' = [chan EXCEPT ![c].state = "IDLE", ![c].at = NoTxd, ![c].pend_list = <<>>]
    /\ UNCHANGED <<prepared, irq, crashed>>

\* mutant of TerminateAll: the jobs not yet fired stay queued.
TerminateKeepsPending(c) ==
    /\ phychan[c] # None
    /\ phychan' = [phychan EXCEPT ![c] = None]
    /\ serving' = Released(c)
    /\ hw' = [hw EXCEPT ![phychan[c]] = "idle"]
    /\ tc' = tc \ {phychan[c]}
    /\ chan' = [chan EXCEPT ![c].state = "IDLE", ![c].at = NoTxd]
    /\ UNCHANGED <<prepared, irq, crashed>>

TerminateAll(c) ==
    /\ phychan[c] # None
    /\ phychan' = [phychan EXCEPT ![c] = None]
    /\ serving' = Released(c)
    /\ hw' = [hw EXCEPT ![phychan[c]] = "idle"]
    /\ tc' = tc \ {phychan[c]}
    /\ chan' = [chan EXCEPT ![c].state = "IDLE", ![c].at = NoTxd, ![c].pend_list = <<>>]
    /\ UNCHANGED <<prepared, irq, crashed>>

\* DMA_PAUSE and DMA_RESUME set and clear the HALT bit.
PauseResume(c, from, to, state) ==
    /\ phychan[c] # None
    /\ hw' = [hw EXCEPT ![phychan[c]] = IF @ = from THEN to ELSE @]
    /\ chan' = [chan EXCEPT ![c].state = state]
    /\ UNCHANGED <<phychan, serving, prepared, tc, irq, crashed>>

pl08x_terminate_all(c) ==
    /\ MayCall(c)
    /\ "terminate_prepared" \in Env \/ prepared[c] = <<>>
    /\ ControlNothing(c) \/ TerminateAll(c)
pl08x_pause(c) == MayCall(c) /\ (ControlNothing(c) \/ PauseResume(c, "busy", "halted", "PAUSED"))
pl08x_resume(c) == MayCall(c) /\ (ControlNothing(c) \/ PauseResume(c, "halted", "busy", "RUNNING"))

-----------------------------------------------------------------------------
(* The hardware and the interrupt handler.                                   *)

\* External: a transfer ends and raises the channel's terminal count, also while
\* the handler runs; without fast_hw not on a channel that it has served.
HwComplete(p) ==
    /\ ~crashed
    /\ hw[p] = "busy"
    /\ "fast_hw" \in Env \/ p \notin irq.mask
    /\ hw' = [hw EXCEPT ![p] = "idle"]
    /\ tc' = tc \cup {p}
    /\ UNCHANGED <<phychan, serving, chan, prepared, irq, crashed>>

\* A transfer ends with a bus error.  pl08x_irq logs and clears PL080_ERR_STATUS
\* before it reads PL080_INT_STATUS and does no more: the descriptor stays the
\* active one.  An error between the two reads is served like a terminal count,
\* which is HwComplete.
HwError(p) ==
    /\ ~crashed
    /\ "bus_error" \in Env
    /\ hw[p] = "busy"
    /\ hw' = [hw EXCEPT ![p] = "idle"]
    /\ UNCHANGED <<phychan, serving, chan, prepared, tc, irq, crashed>>

\* mutant of IrqEnter: the loop stops one channel early.
IrqMissesLast ==
    /\ ~crashed /\ ~irq.on /\ tc # {}
    /\ irq' = [on |-> TRUE, val |-> tc \ {NPhy}, mask |-> {}, cb |-> None]
    /\ UNCHANGED <<phychan, serving, chan, prepared, hw, tc, crashed>>

\* pl08x_irq reads PL080_INT_STATUS once.
IrqEnter ==
    /\ ~crashed /\ ~irq.on /\ tc # {}
    /\ irq' = [on |-> TRUE, val |-> tc, mask |-> {}, cb |-> None]
    /\ UNCHANGED <<phychan, serving, chan, prepared, hw, tc, crashed>>

\* mutant of Retired: the newest cookie is recorded as completed.
RetiresNewest(c) ==
    [chan EXCEPT ![c].at = NoTxd, ![c].lc = IF IsTxd(chan[c].at) THEN chan[c].cookie ELSE @]

\* pl08x_tasklet, the active descriptor retired.
Retired(c) ==
    [chan EXCEPT ![c].at = NoTxd, ![c].lc = IF IsTxd(chan[c].at) THEN chan[c].at.cookie ELSE @]

\* Another descriptor is pending: it is started on the same physical channel.
TaskletNext(c, p) ==
    /\ chan[c].pend_list # <<>>
    /\ chan' = [StartNext(Retired(c), c) EXCEPT ![c].state = chan[c].state]
    /\ StartHw(p)
    /\ UNCHANGED <<phychan, serving>>

\* "a new txd being prepared and will soon be queued": the channel is kept.
TaskletHold(c) ==
    /\ chan[c].pend_list = <<>> /\ chan[c].phychan_hold # 0
    /\ chan' = Retired(c)
    /\ UNCHANGED <<phychan, serving, hw, tc>>

\* Memcpy channels that wait for a physical channel.
Waiting == {w \in Memcpy : chan[w].state = "WAITING" /\ chan[w].waiting}

\* No work left: the physical channel is freed, and nobody waits for it.
TaskletRelease(c, p) ==
    /\ chan[c].pend_list = <<>> /\ chan[c].phychan_hold = 0
    /\ Waiting \ {c} = {}
    /\ phychan' = [phychan EXCEPT ![c] = None]
    /\ serving' = Released(c)
    /\ hw' = [hw EXCEPT ![p] = "idle"]
    /\ tc' = tc \ {p}
    /\ chan' = [Retired(c) EXCEPT ![c].state = "IDLE"]

\* mutant of TaskletHandover: the freed channel is stopped after the waiting
\* memcpy was started on it.
HandoverStopsLate(c, p) ==
    \E w \in First(Waiting \ {c}) :
    \E q \in IF phychan[w] # None THEN {phychan[w]} ELSE First(FreePhy(Released(c))) :
    LET rest == [Retired(c) EXCEPT
                   ![c].state = "IDLE",
                   ![w].state = "RUNNING", ![w].waiting = FALSE]
    IN
    /\ chan[c].pend_list = <<>> /\ chan[c].phychan_hold = 0
    /\ phychan' = [phychan EXCEPT ![c] = None, ![w] = q]
    /\ serving' = [Released(c) EXCEPT ![q] = w]
    /\ hw' = [hw EXCEPT ![q] = "busy", ![p] = "idle"]
    /\ tc' = tc \ {p}
    /\ chan' = StartNext(rest, w)

\* Memcpy w gets physical channel q, and pl08x_issue_pending starts it.  One
\* that obtained a physical channel while it waited keeps that one, its hold is
\* decremented all the same, and it may have been started already.
HandoverTo(c, p, w, q) ==
    LET rest == [Retired(c) EXCEPT
                   ![c].state = "IDLE",
                   ![w].state = "RUNNING", ![w].waiting = FALSE,
                   ![w].phychan_hold = IF phychan[w] # None THEN @ - 1 ELSE @]
        starts == ~IsTxd(chan[w].at) /\ chan[w].pend_list # <<>>
    IN
    /\ phychan' = [phychan EXCEPT ![c] = None, ![w] = q]
    /\ serving' = [Released(c) EXCEPT ![q] = w]
    /\ hw' = [r \in Phy |-> IF starts /\ r = q THEN "busy" ELSE IF r = p THEN "idle" ELSE hw[r]]
    /\ tc' = IF starts /\ q # p /\ hw[q] = "busy" THEN (tc \ {p}) \cup {q} ELSE tc \ {p}
    /\ chan' = IF starts THEN StartNext(rest, w) ELSE rest

\* No work left, and the first waiting memcpy gets a physical channel.
TaskletHandover(c, p) ==
    /\ chan[c].pend_list = <<>> /\ chan[c].phychan_hold = 0
    /\ \E w \in First(Waiting \ {c}) :
       \E q \in IF phychan[w] # None THEN {phychan[w]} ELSE First(FreePhy(Released(c))) :
          HandoverTo(c, p, w, q)

pl08x_tasklet(c, p) ==
    TaskletNext(c, p) \/ TaskletHold(c) \/ TaskletRelease(c, p) \/ TaskletHandover(c, p)

\* The handler serves the lowest channel left in its copy of the status word
\* and calls the callback of the retired descriptor, if there was one.
IrqChan ==
    /\ ~crashed /\ irq.on /\ irq.cb = None
    /\ \E p \in First(irq.val) : LET c == serving[p] IN
       \/ c = None /\ Crash              \* pl08x_tasklet(NULL)
       \/ /\ c # None
          /\ pl08x_tasklet(c, p)
          /\ irq' = [irq EXCEPT !.val = @ \ {p}, !.mask = @ \cup {p},
                                !.cb = IF IsTxd(chan[c].at) THEN c ELSE None]
          /\ UNCHANGED <<prepared, crashed>>

CallbackReturn ==
    /\ ~crashed /\ irq.cb # None
    /\ irq' = [irq EXCEPT !.cb = None]
    /\ UNCHANGED <<phychan, serving, chan, prepared, hw, tc, crashed>>

\* mutant of IrqExit: all terminal counts are cleared.
IrqExitClearsAll ==
    /\ ~crashed /\ irq.on /\ irq.cb = None /\ irq.val = {}
    /\ tc' = {}
    /\ irq' = IrqIdle
    /\ UNCHANGED <<phychan, serving, chan, prepared, hw, crashed>>

\* The terminal counts of the channels served are cleared last.
IrqExit ==
    /\ ~crashed /\ irq.on /\ irq.cb = None /\ irq.val = {}
    /\ tc' = tc \ irq.mask
    /\ irq' = IrqIdle
    /\ UNCHANGED <<phychan, serving, chan, prepared, hw, crashed>>

-----------------------------------------------------------------------------
Handler == IrqEnter \/ IrqChan \/ CallbackReturn \/ IrqExit

Next ==
    \/ \E c \in Chan :
         \/ pl08x_prep(c) \/ pl08x_tx_submit(c) \/ pl08x_issue_pending(c)
         \/ pl08x_terminate_all(c) \/ pl08x_pause(c) \/ pl08x_resume(c)
    \/ \E p \in Phy : HwComplete(p) \/ HwError(p)
    \/ Handler

Spec == Init /\ [][Next]_vars

\* The interrupt handler runs and returns, and a transfer that runs ends
\* however often other channels interrupt it.
Fairness == WF_vars(Handler) /\ \A p \in Phy : SF_vars(HwComplete(p))
FairSpec == Spec /\ Fairness

-----------------------------------------------------------------------------
TypeOK ==
    /\ phychan \in [Chan -> Phy \cup {None}]
    /\ serving \in [Phy -> Chan \cup {None}]
    /\ chan \in [Chan -> ChanRec]
    /\ prepared \in [Chan -> Seq(BOOLEAN)]
    /\ hw \in [Phy -> {"idle", "busy", "halted"}]
    /\ tc \subseteq Phy
    /\ irq \in IrqRec
    /\ crashed \in BOOLEAN

(* A physical channel serves at most one virtual channel, and the two sides  *)
(* of the association agree (prep_phy_channel, release_phy_channel and the   *)
(* hand-over in pl08x_tasklet).                                              *)
PhyExclusive ==
    \A c \in Chan, p \in Phy : phychan[c] = p <=> serving[p] = c

(* A transfer never outlives its owner: a physical channel that moves data   *)
(* is in the service of a virtual channel, so a terminate reaches it         *)
(* (pl08x_put_phy_channel stops the channel it frees).                       *)
NoStrayDma == \A p \in Phy : hw[p] # "idle" => serving[p] # None

(* Descriptors are neither lost, duplicated nor reordered: the outstanding   *)
(* ones of a channel are, oldest first, the last ones submitted              *)
(* (pl08x_tx_submit, pl08x_issue_pending, pl08x_tasklet).                    *)
QueueInOrder ==
    \A c \in Chan : LET q == Outstanding(c) IN
        /\ \A i \in 1..(Len(q) - 1) : q[i + 1].cookie = NextCookie(q[i].cookie)
        /\ q # <<>> => q[Len(q)].cookie = chan[c].cookie

(* A client that polls is never told that an outstanding descriptor is       *)
(* complete, across the wrap of the cookie too (pl08x_dma_tx_status).        *)
NoFalseSuccess ==
    \A c \in Chan : \A i \in DOMAIN Outstanding(c) :
        ~dma_async_is_complete(Outstanding(c)[i].cookie, chan[c].lc, chan[c].cookie)

(* What clients know by their cookies is true: descriptors complete in the   *)
(* order they were submitted in, and only when they are done.                *)
CookiesTrue == QueueInOrder /\ NoFalseSuccess

(* To its clients the driver is a set of queues, module DmaChannel: physical *)
(* channels, holds, waiting memcpys, the hand-over and the steps of the      *)
(* interrupt handler do not show.                                            *)
Client == INSTANCE DmaChannel WITH
    queue <- [c \in Chan |-> Outstanding(c)],
    going <- [c \in Chan |-> IsTxd(chan[c].at)],
    last_used <- [c \in Chan |-> chan[c].cookie],
    last_complete <- [c \in Chan |-> chan[c].lc]
ImplementsDmaChannel == Client!Spec

(* The driver follows no NULL pointer: pl08x_start_txd always finds a        *)
(* physical channel and pl08x_irq always finds the channel it serves.        *)
NoCrash == ~crashed

(* The hold counts the descriptors between prep and submit: it is 1 from the *)
(* first to the second, and never negative, so a physical channel is freed   *)
(* neither too early nor never (pl08x.h, "phychan_hold").                    *)
HoldMatchesPrepared ==
    \A c \in Chan : chan[c].phychan_hold = IF phychan[c] = None THEN 0 ELSE Len(prepared[c])

(* A memcpy waits only while every physical channel is taken: "Do this       *)
(* memcpy whenever there is a channel ready" (dlna_pl08x.c:1028).            *)
WaitsOnlyWhenFull == Waiting # {} => FreePhy(serving) = {}

(* No channel keeps a physical channel it has no use for (phychan_hold and   *)
(* the release in pl08x_tasklet).                                            *)
IdleHoldsNothing ==
    \A c \in Chan : phychan[c] # None =>
        prepared[c] # <<>> \/ chan[c].pend_list # <<>> \/ IsTxd(chan[c].at)

(* Physical channels are held as long as they are needed and no longer.      *)
HoldsExact == HoldMatchesPrepared /\ IdleHoldsNothing

(* Every transfer of a slave runs under its flow-control signal              *)
(* (prep_phy_channel, "Assign the flow control signal to this channel").     *)
StartedWithSignal == \A c \in Slave : IsTxd(chan[c].at) => chan[c].at.signal

(* The completion of an active descriptor is not lost: its transfer still    *)
(* runs or its terminal count is set.  pl08x_irq must "Clear only the        *)
(* terminal interrupts on channels we processed" (dlna_pl08x.c:1757), not    *)
(* those of transfers that end while it is busy with another channel.  With  *)
(* fast_hw it is false: a transfer started on a channel after that was       *)
(* served, and ended before the clear, loses its terminal count.  With       *)
(* bus_error it is false as well: nothing retires the failed descriptor.     *)
CompletionPending ==
    \A c \in Chan : IsTxd(chan[c].at) => hw[phychan[c]] # "idle" \/ phychan[c] \in tc

(* A descriptor is retired, and its callback run, only when the hardware is  *)
(* done with it: data still moving belongs to an active descriptor.          *)
BusyIsActive ==
    \A p \in Phy : hw[p] # "idle" => serving[p] # None /\ IsTxd(chan[serving[p]].at)

(* The driver and the hardware agree on what is active.                      *)
HardwareInStep == CompletionPending /\ BusyIsActive

(* The transfer of a client with one descriptor at a time eventually ends:   *)
(* its descriptor is retired or terminated, unless the channel is paused     *)
(* (pl08x_irq, pl08x_tasklet).                                               *)
StartedRetires ==
    \A c \in Chan : IsTxd(chan[c].at) ~> (~IsTxd(chan[c].at) \/ chan[c].state = "PAUSED")
=============================================================================
