------------------------------- MODULE SuvPcm -------------------------------
(***************************************************************************)
(* The PCM platform driver, sound/soc/silan/suv_pcm.c, built without       *)
(* CONFIG_SILAN_DMA_LLI_INT, for one stream: the ALSA core's calls, the    *)
(* start tasklet, and the completion callback audio_dma_complete, which    *)
(* the DMA driver runs in hard interrupt context.                          *)
(*                                                                         *)
(* The ALSA core (external, from sound/core/pcm_native.c) calls the driver *)
(* under the stream lock with interrupts off, so a call is one step that   *)
(* also makes the core's state change.  A stream may be suspended in every *)
(* state it can be open in, and is resumed only while it is suspended, as  *)
(* alsa-lib does.  The DMA channel (external, module Pl08x) is the queue   *)
(* of the fragments submitted to it; a fragment that is finished waits for *)
(* the interrupt handler.  Positions are counted in fragments; a fragment  *)
(* is a period, because periods_min is 2.                                  *)
(***************************************************************************)
EXTENDS Integers, Sequences

CONSTANTS
    Periods,   \* the numbers of periods an application may choose
    Env        \* what may happen besides plain playing, a subset of AnyEnv

\* pause: the application pauses; prep_fails: no descriptor can be prepared;
\* late_tasklet: an application call comes before a scheduled tasklet has run.
AnyEnv == {"pause", "prep_fails", "late_tasklet"}

ASSUME SuvPcmAssumption == Periods \subseteq Nat \ {0, 1} /\ Env \subseteq AnyEnv

NR_DMA_CHAIN == 2

VARIABLES
    pcm,         \* runtime->status->state
    suspended,   \* runtime->status->suspended_state
    periods,     \* runtime->periods
    prtd,        \* struct sl_pcm_runtime_data
    tasklet,     \* "no", "queued", "reinit" (queued, then tasklet_init), "starting"
    dma,         \* the fragments submitted to the DMA channel, oldest first
    halted,      \* the channel is paused
    tc,          \* its oldest fragment is finished and the interrupt is pending
    bug,         \* BUG() was hit, a NULL channel followed, or a division by 0 done
    races        \* history: which of Race have happened, and still matter

vars == <<pcm, suspended, periods, prtd, tasklet, dma, halted, tc, bug, races>>
core == <<pcm, suspended, periods>>
channel == <<dma, halted, tc>>

\* overtaken: prepare or hw_params came before a scheduled tasklet had run;
\* stray: the stream was stopped, paused or suspended while it was scheduled;
\* caught: a suspension found a fragment finished and its interrupt pending;
\* released: a pause was released;
\* bare: a stream without a channel was suspended.
Race == {"overtaken", "stray", "caught", "released", "bare"}

Zeroed == [frags |-> 0, frag_count |-> 0, pos |-> 0, dmacount |-> 0, dma_chan |-> FALSE]

Init ==
    /\ pcm = "CLOSED" /\ suspended = "OPEN" /\ periods = 0
    /\ prtd = Zeroed
    /\ tasklet = "no"
    /\ dma = <<>> /\ halted = FALSE /\ tc = FALSE
    /\ bug = FALSE /\ races = {}

\* A call of the application: no softirq is running.
Call ==
    /\ ~bug
    /\ tasklet # "starting"
    /\ "late_tasklet" \in Env \/ tasklet = "no"

Becomes(state) == pcm' = state /\ UNCHANGED <<suspended, periods>>
TerminateAll == dma' = <<>> /\ halted' = FALSE /\ tc' = FALSE
Schedule == tasklet' = IF tasklet = "no" THEN "queued" ELSE tasklet

\* The history: what a call adds when the tasklet is scheduled; terminating the
\* channel of a stream without a scheduled tasklet settles all of it.
Late(race) == IF tasklet = "no" THEN {} ELSE {race}
Settles == races' = IF tasklet = "no" THEN {} ELSE races \cup {"stray"}

-----------------------------------------------------------------------------
(* The driver's operations, as the core calls them.                          *)

silan_pcm_open ==
    /\ Call /\ pcm = "CLOSED"
    /\ pcm' = "OPEN" /\ suspended' = "OPEN" /\ periods' = 0
    /\ prtd' = Zeroed
    /\ UNCHANGED <<tasklet, channel, bug, races>>

\* When it fails (no memory, no channel) the core calls silan_pcm_hw_free at once:
\* from "OPEN" nothing changes, else that is the step silan_pcm_hw_free.
silan_pcm_hw_params(n) ==
    /\ Call /\ pcm \in {"OPEN", "SETUP", "PREPARED"}
    /\ pcm' = "SETUP" /\ periods' = n /\ UNCHANGED suspended
    /\ prtd' = [prtd EXCEPT !.pos = 0, !.dma_chan = TRUE]
    /\ tasklet' = IF tasklet = "queued" THEN "reinit" ELSE tasklet
    /\ races' = (races \ {"bare"}) \cup Late("overtaken")
    /\ UNCHANGED <<channel, bug>>

\* mutant of silan_pcm_hw_free: the tasklet is not waited for.
HwFreeAtOnce ==
    /\ Call /\ pcm \in {"SETUP", "PREPARED", "SUSPENDED"}
    /\ Becomes("OPEN")
    /\ prtd' = [prtd EXCEPT !.dma_chan = FALSE]
    /\ TerminateAll
    /\ races' = races \ {"bare"}
    /\ UNCHANGED <<tasklet, bug>>

\* mutant of silan_pcm_hw_free: the channel is released but not terminated.
HwFreeKeepsDma ==
    /\ Call /\ tasklet # "queued"
    /\ pcm \in {"SETUP", "PREPARED", "SUSPENDED"}
    /\ Becomes("OPEN")
    /\ prtd' = [prtd EXCEPT !.dma_chan = FALSE]
    /\ Settles
    /\ UNCHANGED <<tasklet, channel, bug>>

\* tasklet_kill waits until a scheduled tasklet has run.  The core calls it for
\* a suspended stream too, when the file is closed.
silan_pcm_hw_free ==
    /\ Call /\ tasklet # "queued"
    /\ pcm \in {"SETUP", "PREPARED", "SUSPENDED"}
    /\ Becomes("OPEN")
    /\ prtd' = [prtd EXCEPT !.dma_chan = FALSE]
    /\ TerminateAll /\ Settles
    /\ UNCHANGED <<tasklet, bug>>

silan_pcm_close ==
    /\ Call /\ pcm = "OPEN"
    /\ Becomes("CLOSED")
    /\ prtd' = Zeroed
    /\ UNCHANGED <<tasklet, channel, bug, races>>

\* mutant of silan_pcm_prepare: the position is not reset.
PrepareKeepsPos ==
    /\ Call /\ pcm \notin {"CLOSED", "OPEN", "RUNNING"} /\ periods # 0
    /\ Becomes("PREPARED")
    /\ prtd' = [prtd EXCEPT !.frags = periods, !.frag_count = 0]
    /\ races' = races \cup Late("overtaken")
    /\ UNCHANGED <<tasklet, channel, bug>>

silan_pcm_prepare ==
    /\ Call /\ pcm \notin {"CLOSED", "OPEN", "RUNNING"} /\ periods # 0
    /\ Becomes("PREPARED")
    /\ prtd' = [prtd EXCEPT !.frags = periods, !.frag_count = 0, !.pos = 0]
    /\ races' = races \cup Late("overtaken")
    /\ UNCHANGED <<tasklet, channel, bug>>

\* silan_pcm_trigger, START and PAUSE_RELEASE.
TriggerStart(from) ==
    /\ Call /\ pcm = from
    /\ Becomes("RUNNING")
    /\ prtd' = [prtd EXCEPT !.frag_count = -1]
    /\ Schedule
    /\ UNCHANGED <<channel, bug>>

\* mutant of TriggerStop: the engine is left running.
TriggerStopNothing(to) ==
    /\ Call /\ pcm = "RUNNING" /\ prtd.dma_chan
    /\ Becomes(to)
    /\ Settles
    /\ UNCHANGED <<prtd, tasklet, channel, bug>>

\* silan_pcm_trigger, STOP and PAUSE_PUSH.
TriggerStop(to) ==
    /\ Call /\ pcm = "RUNNING" /\ prtd.dma_chan
    /\ Becomes(to)
    /\ TerminateAll /\ Settles
    /\ UNCHANGED <<prtd, tasklet, bug>>

Start == TriggerStart("PREPARED") /\ UNCHANGED races
PausePush == "pause" \in Env /\ TriggerStop("PAUSED")
PauseRelease == TriggerStart("PAUSED") /\ races' = races \cup {"released"}

\* snd_pcm_drop of a paused stream releases the pause and stops the stream in
\* one critical section.
DropPaused ==
    /\ Call /\ pcm = "PAUSED"
    /\ Becomes("SETUP")
    /\ prtd' = [prtd EXCEPT !.frag_count = -1]
    /\ Schedule
    /\ TerminateAll
    /\ races' = races \cup {"stray"}
    /\ UNCHANGED bug

\* snd_pcm_drop of a stream that does not run calls no trigger.
DropIdle ==
    /\ Call /\ pcm \in {"PREPARED", "XRUN"}
    /\ Becomes("SETUP")
    /\ UNCHANGED <<prtd, tasklet, channel, bug, races>>

Drop == TriggerStop("SETUP") \/ DropPaused \/ DropIdle

\* snd_pcm_suspend: every open stream is suspended, the channel of one that runs
\* is paused.
Suspend ==
    /\ Call /\ pcm \notin {"CLOSED", "SUSPENDED"}
    /\ pcm = "RUNNING" => prtd.dma_chan
    /\ pcm' = "SUSPENDED" /\ suspended' = pcm /\ UNCHANGED periods
    /\ halted' = (halted \/ (pcm = "RUNNING" /\ dma # <<>>))
    /\ races' = races \cup Late("stray") \cup (IF tc THEN {"caught"} ELSE {})
                     \cup (IF pcm = "OPEN" THEN {"bare"} ELSE {})
    /\ UNCHANGED <<prtd, tasklet, dma, tc, bug>>

Resume ==
    /\ Call /\ pcm = "SUSPENDED"
    /\ Becomes(suspended)
    /\ halted' = (halted /\ suspended # "RUNNING")
    /\ races' = IF suspended = "OPEN" THEN races \ {"bare"} ELSE races
    /\ UNCHANGED <<prtd, tasklet, dma, tc, bug>>

Bug == bug' = TRUE /\ UNCHANGED <<core, prtd, tasklet, channel, races>>

\* STOP, PAUSE_PUSH or SUSPEND follows the NULL channel of a stream that was
\* prepared without one ...
TriggerNull ==
    /\ Call /\ pcm = "RUNNING" /\ ~prtd.dma_chan
    /\ Bug

\* ... and snd_pcm_do_reset divides by the period size of a stream that has no
\* parameters yet.
PrepareUnset ==
    /\ Call /\ pcm = "SUSPENDED" /\ periods = 0
    /\ Bug

-----------------------------------------------------------------------------
(* dma_tasklet and audio_dma_complete.                                       *)

Failed == "prep_fails" \in Env

\* mutant of Fill: the position does not wrap at the end of the buffer.
FillNoWrap(q, d) ==
    /\ dma' = q \o [i \in 1..(NR_DMA_CHAIN - d) |-> (prtd.frag_count + i - 1) % prtd.frags]
    /\ prtd' = [prtd EXCEPT !.dmacount = NR_DMA_CHAIN,
                            !.frag_count = (@ + NR_DMA_CHAIN - d) % prtd.frags,
                            !.pos = @ + NR_DMA_CHAIN - d]

\* The while loop of dma_tasklet on queue q with count d: n fragments are
\* submitted, all that are missing unless preparing the next one failed.
Fill(q, d) ==
    \E n \in 0..(NR_DMA_CHAIN - d) :
        /\ n < NR_DMA_CHAIN - d => Failed
        /\ dma' = q \o [i \in 1..n |-> (prtd.frag_count + i - 1) % prtd.frags]
        /\ prtd' = [prtd EXCEPT
                      !.dmacount = IF n < NR_DMA_CHAIN - d THEN d + n + 1 ELSE d + n,
                      !.frag_count = (@ + n) % prtd.frags,
                      !.pos = (@ + n) % prtd.frags]

\* The tasklet after START: the channel is cleared and fragment 0 submitted...
StartPrepared ==
    /\ prtd.frag_count < 0
    /\ TerminateAll
    /\ tasklet' = "starting"
    /\ UNCHANGED <<core, prtd, bug, races>>

\* ... or could not be.
StartFailed ==
    /\ prtd.frag_count < 0 /\ Failed
    /\ TerminateAll
    /\ tasklet' = "no"
    /\ UNCHANGED <<core, prtd, bug, races>>

TaskletFills ==
    /\ prtd.frag_count >= 0 /\ prtd.dmacount < NR_DMA_CHAIN
    /\ Fill(dma, prtd.dmacount)
    /\ tasklet' = "no"
    /\ UNCHANGED <<core, halted, tc, bug, races>>

\* BUG_ON(dmacount >= NR_DMA_CHAIN), a NULL channel, or a tasklet that
\* tasklet_action finds queued but not marked scheduled.
TaskletBug ==
    /\ \/ prtd.frag_count >= 0 /\ prtd.dmacount >= NR_DMA_CHAIN
       \/ ~prtd.dma_chan
       \/ tasklet = "reinit"
    /\ Bug

dma_tasklet ==
    /\ ~bug
    /\ \/ tasklet \in {"queued", "reinit"} /\ TaskletBug
       \/ tasklet = "queued" /\ prtd.dma_chan /\ (StartPrepared \/ StartFailed \/ TaskletFills)

\* mutant of StartIssues: one descriptor is counted for the one submitted.
StartCountsOne ==
    /\ ~bug /\ tasklet = "starting"
    /\ prtd' = [prtd EXCEPT !.dmacount = 1, !.frag_count = 1]
    /\ dma' = <<0>>
    /\ tasklet' = "no"
    /\ UNCHANGED <<core, halted, tc, bug, races>>

\* mutant of StartIssues: frag_count keeps its "not started" mark.
StartKeepsMark ==
    /\ ~bug /\ tasklet = "starting"
    /\ prtd' = [prtd EXCEPT !.dmacount = NR_DMA_CHAIN]
    /\ dma' = <<0>>
    /\ tasklet' = "no"
    /\ UNCHANGED <<core, halted, tc, bug, races>>

\* The counters are set and the channel is started.
StartIssues ==
    /\ ~bug /\ tasklet = "starting"
    /\ prtd' = [prtd EXCEPT !.dmacount = NR_DMA_CHAIN, !.frag_count = 1]
    /\ dma' = <<0>>
    /\ tasklet' = "no"
    /\ UNCHANGED <<core, halted, tc, bug, races>>

\* The controller finishes a fragment.
HwFinish ==
    /\ ~bug /\ dma # <<>> /\ ~halted /\ ~tc
    /\ tc' = TRUE
    /\ UNCHANGED <<core, prtd, tasklet, dma, halted, bug, races>>

\* The interrupt handler retires it, also while the stream is suspended: the
\* callback submits and starts the next fragment, and snd_pcm_period_elapsed may
\* find an underrun, or the end of a drain, and stop a running stream.
audio_dma_complete ==
    /\ ~bug /\ tc
    /\ tc' = FALSE /\ halted' = FALSE
    /\ \/ /\ prtd.frag_count < 0                  \* a restart is on its way
          /\ dma' = Tail(dma)
          /\ UNCHANGED <<core, prtd, races>>
       \/ /\ prtd.frag_count >= 0
          /\ Fill(Tail(dma), prtd.dmacount - 1)
          /\ UNCHANGED <<core, races>>
       \/ /\ prtd.frag_count >= 0 /\ pcm = "RUNNING"
          /\ \E state \in {"XRUN", "SETUP"} : Becomes(state)
          /\ prtd' = [prtd EXCEPT !.frag_count = (@ + 1) % prtd.frags,
                                  !.pos = (@ + 1) % prtd.frags]
          /\ dma' = <<>> /\ Settles
    /\ UNCHANGED <<tasklet, bug>>

-----------------------------------------------------------------------------
Next ==
    \/ silan_pcm_open \/ silan_pcm_hw_free \/ silan_pcm_close \/ silan_pcm_prepare
    \/ \E n \in Periods : silan_pcm_hw_params(n)
    \/ Start \/ PausePush \/ PauseRelease \/ Drop \/ Suspend \/ Resume
    \/ TriggerNull \/ PrepareUnset
    \/ dma_tasklet \/ StartIssues \/ HwFinish \/ audio_dma_complete

Spec == Init /\ [][Next]_vars

\* Softirqs and interrupt handlers run, and the controller finishes what it was
\* given.
Fairness ==
    /\ WF_vars(dma_tasklet) /\ WF_vars(StartIssues)
    /\ WF_vars(HwFinish) /\ WF_vars(audio_dma_complete)
FairSpec == Spec /\ Fairness

-----------------------------------------------------------------------------
TypeOK ==
    /\ pcm \in {"CLOSED", "OPEN", "SETUP", "PREPARED", "RUNNING", "PAUSED", "XRUN", "SUSPENDED"}
    /\ suspended \in {"OPEN", "SETUP", "PREPARED", "RUNNING", "PAUSED", "XRUN"}
    /\ periods \in Periods \cup {0}
    /\ prtd \in [frags : Periods \cup {0}, frag_count : Int, pos : Nat,
                 dmacount : 0..NR_DMA_CHAIN, dma_chan : BOOLEAN]
    /\ prtd.frags > 0 => prtd.pos < prtd.frags /\ prtd.frag_count \in -1..(prtd.frags - 1)
    /\ tasklet \in {"no", "queued", "reinit", "starting"}
    /\ dma \in Seq(Nat) /\ halted \in BOOLEAN /\ tc \in BOOLEAN /\ bug \in BOOLEAN
    /\ races \subseteq Race

\* The engine moves data.
Moving == dma # <<>> /\ ~halted /\ ~tc

(* BUG_ON(dmacount >= NR_DMA_CHAIN) in dma_tasklet fires, the tasklet or a   *)
(* trigger meets a NULL channel, or the core divides by a period size of 0,  *)
(* only when prepare or hw_params overtook a scheduled tasklet, or after the *)
(* core suspended a stream that had no channel and prepare let it go on:     *)
(* pauses, failing preparations, and stops and suspends that overtake the    *)
(* tasklet do no such harm.                                                  *)
NoBug == bug => "overtaken" \in races \/ "bare" \in races

(* The engine moves data only while the stream runs (silan_pcm_trigger),     *)
(* except that a tasklet scheduled when the stream was stopped, paused or    *)
(* suspended starts it afterwards, and that the callback of a fragment which *)
(* was finished when the stream was suspended starts the next one.           *)
EngineStopped == Moving => pcm = "RUNNING" \/ "stray" \in races \/ "caught" \in races

(* While the engine moves data for a running stream, the position            *)
(* silan_pcm_pointer reports is that of the fragment it works on, unless a   *)
(* pause was released, or one of the races with the tasklet or a suspension  *)
(* has happened since the channel was last stopped.                          *)
PointerTracksDma ==
    pcm = "RUNNING" /\ Moving /\ races \subseteq {"bare"} => prtd.pos = Head(dma)

(* The driver gives the DMA channel one descriptor at a time, although       *)
(* NR_DMA_CHAIN is 2, the discipline under which module Pl08x is correct,    *)
(* unless prepare overtakes the tasklet.                                     *)
OneInFlight == "overtaken" \notin races => Len(dma) <= 1

(* Once the buffer is freed (silan_pcm_hw_free) and the private data is      *)
(* (silan_pcm_close), no tasklet or callback touches them, unless hw_params  *)
(* re-initialised a tasklet it had overtaken.                                *)
Quiesced ==
    pcm \in {"OPEN", "CLOSED"} =>
        tasklet \in IF "overtaken" \in races THEN {"no", "reinit"} ELSE {"no"}

(* Even when calls overtake the tasklet, no transfer touches a buffer that   *)
(* silan_pcm_hw_free has freed.                                              *)
NoDmaAfterFree == pcm \in {"OPEN", "CLOSED"} => dma = <<>>

(* What silan_pcm_hw_free and silan_pcm_close free is not used any more.     *)
NoUseAfterFree == Quiesced /\ NoDmaAfterFree

(* A running stream keeps moving: its position changes again and again until *)
(* it is stopped, paused or suspended, or the kernel has stopped in a bug.   *)
PlaysOn ==
    \A i \in 0..10 :
        (pcm = "RUNNING" /\ prtd.pos = i) ~> (pcm # "RUNNING" \/ prtd.pos # i \/ bug)
=============================================================================
