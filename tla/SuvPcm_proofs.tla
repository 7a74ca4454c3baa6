---------------------------- MODULE SuvPcm_proofs ----------------------------
(***************************************************************************)
(* Proofs about SuvPcm, for every choice of periods.  The first part holds *)
(* whatever happens (pauses, failing preparations, suspensions, calls that *)
(* overtake the tasklet); the second that a stream which is not paused and *)
(* whose tasklet runs before the next call is fed and advances.            *)
(***************************************************************************)
EXTENDS SuvPcm, SequenceTheorems, TLAPS

\* TypeOK in parts: the scalars, and the fields of prtd.
Scalars ==
    /\ pcm \in {"CLOSED", "OPEN", "SETUP", "PREPARED", "RUNNING", "PAUSED", "XRUN", "SUSPENDED"}
    /\ suspended \in {"OPEN", "SETUP", "PREPARED", "RUNNING", "PAUSED", "XRUN"}
    /\ periods \in Periods \cup {0}
    /\ tasklet \in {"no", "queued", "reinit", "starting"}
    /\ dma \in Seq(Nat)
    /\ halted \in BOOLEAN /\ tc \in BOOLEAN /\ bug \in BOOLEAN
    /\ races \subseteq Race
Fields ==
    /\ prtd = [frags |-> prtd.frags, frag_count |-> prtd.frag_count, pos |-> prtd.pos,
               dmacount |-> prtd.dmacount, dma_chan |-> prtd.dma_chan]
    /\ prtd.frags \in Periods \cup {0} /\ prtd.frag_count \in Int /\ prtd.pos \in Nat
    /\ prtd.dmacount \in 0..NR_DMA_CHAIN /\ prtd.dma_chan \in BOOLEAN
    /\ prtd.frags > 0 => prtd.pos < prtd.frags /\ prtd.frag_count \in -1..(prtd.frags - 1)

\* The stream is in one of these states, or suspended in one.
At(states) == pcm \in states \/ (pcm = "SUSPENDED" /\ suspended \in states)

\* A stream that is more than open has its channel, unless it was suspended
\* without one; a channel comes with the number of periods, a prepared stream has
\* its fragments, and an open one, suspended or not, has nothing on its way.
Configured ==
    /\ pcm \notin {"CLOSED", "OPEN"} => prtd.dma_chan \/ "bare" \in races
    /\ prtd.dma_chan => periods # 0
    /\ At({"PREPARED", "RUNNING", "PAUSED", "XRUN"}) => prtd.frags # 0
    /\ At({"OPEN"}) => dma = <<>> /\ tasklet \in {"no", "reinit"}
                       /\ ("overtaken" \notin races => tasklet = "no")

\* Whoever is going to divide by frags, or to use the channel, finds it set, and
\* two descriptors are counted for the one in flight.
Backed ==
    /\ dma # <<>> \/ tasklet \in {"queued", "starting"} => prtd.frags # 0
    /\ dma # <<>> \/ tasklet = "starting" => prtd.dma_chan
    /\ dma # <<>> => prtd.dmacount = NR_DMA_CHAIN
    /\ tc => dma # <<>>
    /\ tasklet = "starting" => dma = <<>> /\ halted = FALSE

\* A tasklet that prepare and hw_params have not overtaken finds the mark of the
\* START that queued it, and one that is scheduled for a stream that does not run
\* is stray.
Marked ==
    /\ "overtaken" \notin races => tasklet # "reinit" /\ (tasklet # "no" => prtd.frag_count = -1)
    /\ tasklet # "no" => pcm = "RUNNING" \/ "stray" \in races

\* A transfer that can still end or call back belongs to a stream that runs, or
\* is left over from a race.
Held ==
    dma # <<>> /\ (~halted \/ tc) => pcm = "RUNNING" \/ "stray" \in races \/ "caught" \in races

\* Without a race a tasklet is queued from the beginning of the stream, and the
\* next fragment to submit follows the one that plays, through a suspension too.
InStep ==
    races \subseteq {"bare"} =>
        /\ tasklet # "no" => prtd.pos = 0 /\ (dma = <<>> \/ (halted /\ ~tc))
        /\ At({"PREPARED"}) => prtd.pos = 0
        /\ dma # <<>> /\ tasklet = "no" /\ At({"RUNNING"}) =>
              prtd.pos = Head(dma) /\ prtd.frag_count = (prtd.pos + 1) % prtd.frags

IInv ==
    /\ Scalars /\ Fields /\ Configured /\ Backed /\ Marked /\ Held /\ InStep
    /\ NoBug /\ OneInFlight /\ NoUseAfterFree

-----------------------------------------------------------------------------
(* Every number of periods is at least 2. *)
LEMMA PeriodsTwo == /\ \A n \in Periods : n \in Nat /\ n >= 2
                    /\ \A n \in Periods \cup {0} : n \in Nat
  BY SuvPcmAssumption

(* The remainder of a division by a number of periods. *)
LEMMA Wraps ==
    ASSUME NEW n \in Periods, NEW k \in Nat
    PROVE  k % n \in Nat /\ k % n < n /\ k % n \in -1..(n - 1)
  BY PeriodsTwo

(* A smaller number is its own remainder. *)
LEMMA Small == ASSUME NEW n \in Nat, n >= 2, NEW k \in Nat, k < n PROVE k % n = k
  OBVIOUS

(* A terminated channel has an empty queue. *)
LEMMA EmptyQueue == <<>> \in Seq(Nat) /\ Len(<<>>) = 0
  OBVIOUS

(* The parts make up TypeOK. *)
LEMMA PartsType == Scalars /\ Fields => TypeOK
<1> SUFFICES ASSUME Scalars, Fields PROVE TypeOK  OBVIOUS
<1>1. prtd \in [frags : Periods \cup {0}, frag_count : Int, pos : Nat,
                dmacount : 0..NR_DMA_CHAIN, dma_chan : BOOLEAN]
  BY DEF Fields
<1>2. QED  BY <1>1 DEF Scalars, Fields, TypeOK

(* A closed stream has nothing in flight. *)
LEMMA InitInv == Init => IInv
<1> SUFFICES ASSUME Init PROVE IInv  OBVIOUS
<1> USE DEF Init, Zeroed, NR_DMA_CHAIN
<1>1. Scalars  BY EmptyQueue DEF Scalars
<1>2. Fields  BY DEF Fields
<1>3. Configured /\ Backed /\ Marked  BY DEF Configured, At, Backed, Marked
<1>4. Held /\ InStep  BY DEF Held, InStep, At
<1>5. NoBug /\ OneInFlight /\ NoUseAfterFree
  BY EmptyQueue DEF NoBug, OneInFlight, NoUseAfterFree, Quiesced, NoDmaAfterFree
<1>6. QED  BY <1>1, <1>2, <1>3, <1>4, <1>5 DEF IInv

(* Opening the stream allocates its private data. *)
LEMMA OpenInv == ASSUME IInv, silan_pcm_open PROVE IInv'
<1> USE DEF silan_pcm_open, Zeroed, Call, channel, IInv, NR_DMA_CHAIN,
            NoUseAfterFree, Quiesced, NoDmaAfterFree
<1>1. Scalars'  BY EmptyQueue DEF Scalars, Race
<1>2. Fields'  BY PeriodsTwo DEF Scalars, Fields
<1>3. Configured'  BY PeriodsTwo DEF Scalars, Fields, Configured, Backed, Marked, At
<1>4. Backed'  BY PeriodsTwo DEF Scalars, Fields, Configured, Backed, At
<1>5. Marked'  BY DEF Scalars, Fields, Marked
<1>6. Held'  BY DEF Scalars, Held
<1>7. InStep'  BY DEF Scalars, Fields, Marked, Held, InStep, At
<1>8. NoBug' /\ OneInFlight'  BY EmptyQueue DEF Scalars, NoBug, OneInFlight
<1>9. NoUseAfterFree'  BY DEF Scalars, Configured, Marked, At
<1>10. QED  BY <1>1, <1>2, <1>3, <1>4, <1>5, <1>6, <1>7, <1>8, <1>9

(* Choosing parameters takes the channel and re-initialises a queued tasklet. *)
LEMMA ParamsInv == ASSUME IInv, NEW n \in Periods, silan_pcm_hw_params(n) PROVE IInv'
<1> USE DEF silan_pcm_hw_params, Late, Call, channel, IInv, NR_DMA_CHAIN,
            NoUseAfterFree, Quiesced, NoDmaAfterFree
<1>1. Scalars'  BY EmptyQueue DEF Scalars, Race
<1>2. Fields'  BY PeriodsTwo DEF Scalars, Fields
<1>3. Configured'  BY PeriodsTwo DEF Scalars, Fields, Configured, Backed, Marked, At
<1>4. Backed'  BY PeriodsTwo DEF Scalars, Fields, Configured, Backed, At
<1>5. Marked'  BY DEF Scalars, Fields, Marked
<1>6. Held'  BY DEF Scalars, Held
<1>7. InStep'  BY DEF Scalars, Fields, Marked, Held, InStep, At
<1>8. NoBug' /\ OneInFlight'  BY EmptyQueue DEF Scalars, NoBug, OneInFlight
<1>9. NoUseAfterFree'  BY DEF Scalars, Configured, Marked, At
<1>10. QED  BY <1>1, <1>2, <1>3, <1>4, <1>5, <1>6, <1>7, <1>8, <1>9

(* Freeing the buffer waits for the tasklet and terminates the channel. *)
LEMMA FreeInv == ASSUME IInv, silan_pcm_hw_free PROVE IInv'
<1> USE DEF silan_pcm_hw_free, Becomes, TerminateAll, Settles, Call, channel, IInv, NR_DMA_CHAIN,
            NoUseAfterFree, Quiesced, NoDmaAfterFree
<1>1. Scalars'  BY EmptyQueue DEF Scalars, Race
<1>2. Fields'  BY PeriodsTwo DEF Scalars, Fields
<1>3. Configured'  BY PeriodsTwo DEF Scalars, Fields, Configured, Backed, Marked, At
<1>4. Backed'  BY PeriodsTwo DEF Scalars, Fields, Configured, Backed, At
<1>5. Marked'  BY DEF Scalars, Fields, Marked
<1>6. Held'  BY DEF Scalars, Held
<1>7. InStep'  BY DEF Scalars, Fields, Marked, Held, InStep, At
<1>8. NoBug' /\ OneInFlight'  BY EmptyQueue DEF Scalars, NoBug, OneInFlight
<1>9. NoUseAfterFree'  BY DEF Scalars, Configured, Marked, At
<1>10. QED  BY <1>1, <1>2, <1>3, <1>4, <1>5, <1>6, <1>7, <1>8, <1>9

(* Closing the stream frees its private data. *)
LEMMA CloseInv == ASSUME IInv, silan_pcm_close PROVE IInv'
<1> USE DEF silan_pcm_close, Becomes, Zeroed, Call, channel, IInv, NR_DMA_CHAIN,
            NoUseAfterFree, Quiesced, NoDmaAfterFree
<1>1. Scalars'  BY EmptyQueue DEF Scalars, Race
<1>2. Fields'  BY PeriodsTwo DEF Scalars, Fields
<1>3. Configured'  BY PeriodsTwo DEF Scalars, Fields, Configured, Backed, Marked, At
<1>4. Backed'  BY PeriodsTwo DEF Scalars, Fields, Configured, Backed, At
<1>5. Marked'  BY DEF Scalars, Fields, Marked
<1>6. Held'  BY DEF Scalars, Held
<1>7. InStep'  BY DEF Scalars, Fields, Marked, Held, InStep, At
<1>8. NoBug' /\ OneInFlight'  BY EmptyQueue DEF Scalars, NoBug, OneInFlight
<1>9. NoUseAfterFree'  BY DEF Scalars, Configured, Marked, At
<1>10. QED  BY <1>1, <1>2, <1>3, <1>4, <1>5, <1>6, <1>7, <1>8, <1>9

(* Preparing sets the number of fragments. *)
LEMMA PrepareInv == ASSUME IInv, silan_pcm_prepare PROVE IInv'
<1> USE DEF silan_pcm_prepare, Becomes, Late, Call, channel, IInv, NR_DMA_CHAIN,
            NoUseAfterFree, Quiesced, NoDmaAfterFree
<1>1. Scalars'  BY EmptyQueue DEF Scalars, Race
<1>2. Fields'
  <2>1. prtd' = [frags |-> periods, frag_count |-> 0, pos |-> 0,
                 dmacount |-> prtd.dmacount, dma_chan |-> prtd.dma_chan]
    BY DEF Fields
  <2>2. periods \in Periods \cup {0} /\ periods \in Nat
    BY PeriodsTwo DEF Scalars
  <2>3. periods > 0 => 0 < periods /\ 0 \in -1..(periods - 1)  BY <2>2
  <2>4. prtd.dmacount \in 0..2 /\ prtd.dma_chan \in BOOLEAN  BY DEF Fields
  <2>5. /\ prtd'.frags = periods /\ prtd'.frag_count = 0 /\ prtd'.pos = 0
        /\ prtd'.dmacount = prtd.dmacount /\ prtd'.dma_chan = prtd.dma_chan
    BY <2>1
  <2>6. QED  BY ONLY <2>1, <2>2, <2>3, <2>4, <2>5 DEF Fields, NR_DMA_CHAIN
<1>3. Configured'  BY PeriodsTwo DEF Scalars, Fields, Configured, Backed, Marked, At
<1>4. Backed'  BY PeriodsTwo DEF Scalars, Fields, Configured, Backed, At
<1>5. Marked'  BY DEF Scalars, Fields, Marked
<1>6. Held'  BY DEF Scalars, Held
<1>7. InStep'  BY DEF Scalars, Fields, Marked, Held, InStep, At
<1>8. NoBug' /\ OneInFlight'  BY EmptyQueue DEF Scalars, NoBug, OneInFlight
<1>9. NoUseAfterFree'  BY DEF Scalars, Configured, Marked, At
<1>10. QED  BY <1>1, <1>2, <1>3, <1>4, <1>5, <1>6, <1>7, <1>8, <1>9

(* Starting marks the position and queues the tasklet. *)
LEMMA StartInv == ASSUME IInv, Start PROVE IInv'
<1> USE DEF Start, TriggerStart, Becomes, Schedule, Call, channel, IInv, NR_DMA_CHAIN,
            NoUseAfterFree, Quiesced, NoDmaAfterFree
<1>1. Scalars'  BY EmptyQueue DEF Scalars, Race
<1>2. Fields'  BY PeriodsTwo DEF Scalars, Fields
<1>3. Configured'  BY PeriodsTwo DEF Scalars, Fields, Configured, Backed, Marked, At
<1>4. Backed'  BY PeriodsTwo DEF Scalars, Fields, Configured, Backed, At
<1>5. Marked'  BY DEF Scalars, Fields, Marked
<1>6. Held'  BY DEF Scalars, Held
<1>7. InStep'  BY DEF Scalars, Fields, Marked, Held, InStep, At
<1>8. NoBug' /\ OneInFlight'  BY EmptyQueue DEF Scalars, NoBug, OneInFlight
<1>9. NoUseAfterFree'  BY DEF Scalars, Configured, Marked, At
<1>10. QED  BY <1>1, <1>2, <1>3, <1>4, <1>5, <1>6, <1>7, <1>8, <1>9

(* Releasing a pause does the same. *)
LEMMA ReleaseInv == ASSUME IInv, PauseRelease PROVE IInv'
<1> USE DEF PauseRelease, TriggerStart, Becomes, Schedule, Call, channel, IInv, NR_DMA_CHAIN,
            NoUseAfterFree, Quiesced, NoDmaAfterFree
<1>1. Scalars'  BY EmptyQueue DEF Scalars, Race
<1>2. Fields'  BY PeriodsTwo DEF Scalars, Fields
<1>3. Configured'  BY PeriodsTwo DEF Scalars, Fields, Configured, Backed, Marked, At
<1>4. Backed'  BY PeriodsTwo DEF Scalars, Fields, Configured, Backed, At
<1>5. Marked'  BY DEF Scalars, Fields, Marked
<1>6. Held'  BY DEF Scalars, Held
<1>7. InStep'  BY DEF Scalars, Fields, Marked, Held, InStep, At
<1>8. NoBug' /\ OneInFlight'  BY EmptyQueue DEF Scalars, NoBug, OneInFlight
<1>9. NoUseAfterFree'  BY DEF Scalars, Configured, Marked, At
<1>10. QED  BY <1>1, <1>2, <1>3, <1>4, <1>5, <1>6, <1>7, <1>8, <1>9

(* Stopping, or pausing, terminates the channel. *)
LEMMA StopInv == ASSUME IInv, NEW to \in {"SETUP", "PAUSED"}, TriggerStop(to) PROVE IInv'
<1> USE DEF TriggerStop, Becomes, TerminateAll, Settles, Call, channel, IInv, NR_DMA_CHAIN,
            NoUseAfterFree, Quiesced, NoDmaAfterFree
<1>1. Scalars'  BY EmptyQueue DEF Scalars, Race
<1>2. Fields'  BY PeriodsTwo DEF Scalars, Fields
<1>3. Configured'  BY PeriodsTwo DEF Scalars, Fields, Configured, Backed, Marked, At
<1>4. Backed'  BY PeriodsTwo DEF Scalars, Fields, Configured, Backed, At
<1>5. Marked'  BY DEF Scalars, Fields, Marked
<1>6. Held'  BY DEF Scalars, Held
<1>7. InStep'  BY DEF Scalars, Fields, Marked, Held, InStep, At
<1>8. NoBug' /\ OneInFlight'  BY EmptyQueue DEF Scalars, NoBug, OneInFlight
<1>9. NoUseAfterFree'  BY DEF Scalars, Configured, Marked, At
<1>10. QED  BY <1>1, <1>2, <1>3, <1>4, <1>5, <1>6, <1>7, <1>8, <1>9

(* Dropping a paused stream queues the tasklet and terminates the channel. *)
LEMMA DropPausedInv == ASSUME IInv, DropPaused PROVE IInv'
<1> USE DEF DropPaused, Becomes, Schedule, TerminateAll, Call, channel, IInv, NR_DMA_CHAIN,
            NoUseAfterFree, Quiesced, NoDmaAfterFree
<1>1. Scalars'  BY EmptyQueue DEF Scalars, Race
<1>2. Fields'  BY PeriodsTwo DEF Scalars, Fields
<1>3. Configured'  BY PeriodsTwo DEF Scalars, Fields, Configured, Backed, Marked, At
<1>4. Backed'  BY PeriodsTwo DEF Scalars, Fields, Configured, Backed, At
<1>5. Marked'  BY DEF Scalars, Fields, Marked
<1>6. Held'  BY DEF Scalars, Held
<1>7. InStep'  BY DEF Scalars, Fields, Marked, Held, InStep, At
<1>8. NoBug' /\ OneInFlight'  BY EmptyQueue DEF Scalars, NoBug, OneInFlight
<1>9. NoUseAfterFree'  BY DEF Scalars, Configured, Marked, At
<1>10. QED  BY <1>1, <1>2, <1>3, <1>4, <1>5, <1>6, <1>7, <1>8, <1>9

(* Dropping a stream that does not run changes nothing else. *)
LEMMA DropIdleInv == ASSUME IInv, DropIdle PROVE IInv'
<1> USE DEF DropIdle, Becomes, Call, channel, IInv, NR_DMA_CHAIN,
            NoUseAfterFree, Quiesced, NoDmaAfterFree
<1>1. Scalars'  BY EmptyQueue DEF Scalars, Race
<1>2. Fields'  BY PeriodsTwo DEF Scalars, Fields
<1>3. Configured'  BY PeriodsTwo DEF Scalars, Fields, Configured, Backed, Marked, At
<1>4. Backed'  BY PeriodsTwo DEF Scalars, Fields, Configured, Backed, At
<1>5. Marked'  BY DEF Scalars, Fields, Marked
<1>6. Held'  BY DEF Scalars, Held
<1>7. InStep'  BY DEF Scalars, Fields, Marked, Held, InStep, At
<1>8. NoBug' /\ OneInFlight'  BY EmptyQueue DEF Scalars, NoBug, OneInFlight
<1>9. NoUseAfterFree'  BY DEF Scalars, Configured, Marked, At
<1>10. QED  BY <1>1, <1>2, <1>3, <1>4, <1>5, <1>6, <1>7, <1>8, <1>9

(* Suspending pauses a running channel. *)
LEMMA SuspendInv == ASSUME IInv, Suspend PROVE IInv'
<1> USE DEF Suspend, Late, Call, channel, IInv, NR_DMA_CHAIN,
            NoUseAfterFree, Quiesced, NoDmaAfterFree
<1>1. Scalars'  BY EmptyQueue DEF Scalars, Race
<1>2. Fields'  BY PeriodsTwo DEF Scalars, Fields
<1>3. Configured'  BY PeriodsTwo DEF Scalars, Fields, Configured, Backed, Marked, At
<1>4. Backed'  BY PeriodsTwo DEF Scalars, Fields, Configured, Backed, At
<1>5. Marked'  BY DEF Scalars, Fields, Marked
<1>6. Held'  BY DEF Scalars, Held
<1>7. InStep'  BY DEF Scalars, Fields, Marked, Held, InStep, At
<1>8. NoBug' /\ OneInFlight'  BY EmptyQueue DEF Scalars, NoBug, OneInFlight
<1>9. NoUseAfterFree'  BY DEF Scalars, Configured, Marked, At
<1>10. QED  BY <1>1, <1>2, <1>3, <1>4, <1>5, <1>6, <1>7, <1>8, <1>9

(* Resuming goes back to the state that was suspended. *)
LEMMA ResumeInv == ASSUME IInv, Resume PROVE IInv'
<1> USE DEF Resume, Becomes, Call, channel, IInv, NR_DMA_CHAIN,
            NoUseAfterFree, Quiesced, NoDmaAfterFree
<1>1. Scalars'  BY EmptyQueue DEF Scalars, Race
<1>2. Fields'  BY PeriodsTwo DEF Scalars, Fields
<1>3. Configured'  BY PeriodsTwo DEF Scalars, Fields, Configured, Backed, Marked, At
<1>4. Backed'  BY PeriodsTwo DEF Scalars, Fields, Configured, Backed, At
<1>5. Marked'  BY DEF Scalars, Fields, Marked
<1>6. Held'  BY DEF Scalars, Held
<1>7. InStep'  BY DEF Scalars, Fields, Marked, Held, InStep, At
<1>8. NoBug' /\ OneInFlight'  BY EmptyQueue DEF Scalars, NoBug, OneInFlight
<1>9. NoUseAfterFree'  BY DEF Scalars, Configured, Marked, At
<1>10. QED  BY <1>1, <1>2, <1>3, <1>4, <1>5, <1>6, <1>7, <1>8, <1>9

(* Following a NULL channel, or dividing by 0, needs a stream that was       *)
(* suspended without a channel.                                              *)
LEMMA CallBugInv == ASSUME IInv, TriggerNull \/ PrepareUnset PROVE IInv'
<1> USE DEF TriggerNull, PrepareUnset, Bug, core, channel
<1>1. "bare" \in races  BY DEF IInv, Fields, Configured
<1>2. bug' = TRUE /\ UNCHANGED <<pcm, suspended, periods, prtd, tasklet, dma, halted, tc, races>>
  OBVIOUS
<1>3. QED
  BY ONLY IInv, <1>1, <1>2 DEF IInv, Scalars, Fields, Configured, At, Backed, Marked, Held, InStep,
     NoBug, OneInFlight, NoUseAfterFree, Quiesced, NoDmaAfterFree

(* What the loop of dma_tasklet leaves when d descriptors are counted: the    *)
(* counters stay in range, and when one is missing either it is submitted or *)
(* preparing it has failed.                                                  *)
LEMMA FillDoes ==
    ASSUME IInv, NEW q \in Seq(Nat), NEW d \in 0..1, Fill(q, d),
           prtd.frag_count >= 0, prtd.frags # 0
    PROVE  /\ Fields' /\ dma' \in Seq(Nat)
           /\ prtd'.frags = prtd.frags /\ prtd'.dma_chan = prtd.dma_chan
           /\ prtd'.dmacount = NR_DMA_CHAIN \/ (d = 0 /\ dma' = q)
           /\ d = 1 =>
                /\ prtd'.dmacount = NR_DMA_CHAIN
                /\ \/ /\ dma' = q /\ prtd'.pos = prtd.pos
                      /\ prtd'.frag_count = prtd.frag_count
                   \/ /\ dma' = Append(q, prtd.frag_count)
                      /\ prtd'.pos = (prtd.pos + 1) % prtd.frags
                      /\ prtd'.frag_count = (prtd.frag_count + 1) % prtd.frags
<1> USE DEF NR_DMA_CHAIN
<1>0. /\ prtd.frags \in Periods /\ prtd.frags \in Nat /\ prtd.frags >= 2
      /\ prtd.frag_count \in Nat /\ prtd.frag_count < prtd.frags
      /\ prtd.pos \in Nat /\ prtd.pos < prtd.frags
  BY PeriodsTwo DEF IInv, Fields
<1>1. PICK n \in 0..(2 - d) :
        /\ dma' = q \o [i \in 1..n |-> (prtd.frag_count + i - 1) % prtd.frags]
        /\ prtd' = [prtd EXCEPT
                      !.dmacount = IF n < 2 - d THEN d + n + 1 ELSE d + n,
                      !.frag_count = (@ + n) % prtd.frags,
                      !.pos = (@ + n) % prtd.frags]
  BY DEF Fill
<1> DEFINE more == [i \in 1..n |-> (prtd.frag_count + i - 1) % prtd.frags]
<1>2. /\ prtd'.frags = prtd.frags /\ prtd'.dma_chan = prtd.dma_chan
      /\ prtd'.dmacount = IF n < 2 - d THEN d + n + 1 ELSE d + n
      /\ prtd'.frag_count = (prtd.frag_count + n) % prtd.frags
      /\ prtd'.pos = (prtd.pos + n) % prtd.frags
      /\ prtd' = [frags |-> prtd'.frags, frag_count |-> prtd'.frag_count, pos |-> prtd'.pos,
                  dmacount |-> prtd'.dmacount, dma_chan |-> prtd'.dma_chan]
  BY <1>1 DEF IInv, Fields
<1>3. prtd'.dmacount \in 1..2 /\ (d = 1 => prtd'.dmacount = 2)
  BY <1>2
<1>4. /\ prtd'.frag_count \in Nat /\ prtd'.frag_count < prtd.frags
      /\ prtd'.pos \in Nat /\ prtd'.pos < prtd.frags
  <2>1. n \in Nat /\ prtd.frag_count + n \in Nat /\ prtd.pos + n \in Nat  BY <1>0
  <2>2. /\ (prtd.frag_count + n) % prtd.frags \in Nat
        /\ (prtd.frag_count + n) % prtd.frags < prtd.frags
        /\ (prtd.pos + n) % prtd.frags \in Nat /\ (prtd.pos + n) % prtd.frags < prtd.frags
    BY ONLY <1>0, <2>1, Wraps
  <2>3. QED  BY ONLY <1>2, <2>2
<1>5. Fields'
  <2>1. prtd'.frag_count \in -1..(prtd.frags - 1)  BY ONLY <1>0, <1>4
  <2>2. prtd'.frags \in Periods \cup {0} /\ prtd'.dma_chan \in BOOLEAN
    BY <1>2 DEF IInv, Fields
  <2>3. QED  BY ONLY <1>0, <1>2, <1>3, <1>4, <2>1, <2>2 DEF Fields, NR_DMA_CHAIN
<1>6. more \in Seq(Nat)
  <2>1. \A i \in 1..n : (prtd.frag_count + i - 1) % prtd.frags \in Nat
    <3>1. TAKE i \in 1..n
    <3>2. prtd.frag_count + i - 1 \in Nat  BY <1>0
    <3>3. QED  BY <1>0, <3>2, Wraps
  <2>2. QED  BY <2>1
<1>7. dma' \in Seq(Nat)  BY <1>1, <1>6
<1>8. ASSUME d = 1
      PROVE  \/ /\ dma' = q /\ prtd'.pos = prtd.pos
                /\ prtd'.frag_count = prtd.frag_count
             \/ /\ dma' = Append(q, prtd.frag_count)
                /\ prtd'.pos = (prtd.pos + 1) % prtd.frags
                /\ prtd'.frag_count = (prtd.frag_count + 1) % prtd.frags
  <2>0. \A k \in Nat : k < prtd.frags => k % prtd.frags = k  BY ONLY <1>0, Small
  <2>1. CASE n = 0
    <3>1. more = <<>>  BY <2>1
    <3>2. dma' = q  BY <1>1, <3>1
    <3>3. QED  BY <1>0, <1>2, <2>0, <2>1, <3>2
  <2>2. CASE n = 1
    <3>1. more = <<prtd.frag_count>>
      <4>1. (prtd.frag_count + 1 - 1) % prtd.frags = prtd.frag_count  BY <1>0, <2>0
      <4>2. QED  BY <2>2, <4>1
    <3>2. q \o <<prtd.frag_count>> = Append(q, prtd.frag_count)  BY <1>0, AppendIsConcat
    <3>3. dma' = Append(q, prtd.frag_count)  BY <1>1, <3>1, <3>2
    <3>4. QED  BY <1>2, <2>2, <3>3
  <2>3. QED  BY <1>8, <2>1, <2>2
<1>9. prtd'.dmacount = 2 \/ (d = 0 /\ dma' = q)
  <2>1. CASE d = 0 /\ n = 0
    <3>1. more = <<>>  BY <2>1
    <3>2. QED  BY <1>1, <2>1, <3>1
  <2>2. CASE ~(d = 0 /\ n = 0)  BY <1>2, <2>2
  <2>3. QED  BY <2>1, <2>2
<1>10. QED  BY <1>2, <1>3, <1>5, <1>7, <1>8, <1>9

(* The tasklet clears the channel and prepares fragment 0. *)
LEMMA PreparedInv ==
    ASSUME IInv, tasklet = "queued", prtd.dma_chan, StartPrepared \/ StartFailed PROVE IInv'
<1> USE DEF StartPrepared, StartFailed, TerminateAll, core, IInv, NR_DMA_CHAIN
<1>1. Scalars'  BY EmptyQueue DEF Scalars
<1>2. Fields'  BY DEF Fields
<1>3. Configured'  BY DEF Configured, At
<1>4. Backed' /\ Marked' /\ Held'  BY DEF Scalars, Fields, Backed, Marked, Held
<1>5. InStep'  BY DEF InStep, At
<1>6. NoBug' /\ OneInFlight'  BY EmptyQueue DEF NoBug, OneInFlight
<1>7. NoUseAfterFree'  BY DEF Scalars, NoUseAfterFree, Quiesced, NoDmaAfterFree
<1>8. QED  BY <1>1, <1>2, <1>3, <1>4, <1>5, <1>6, <1>7

(* The tasklet fills the queue up, as it does only when a call has overtaken it. *)
LEMMA FillsInv == ASSUME IInv, tasklet = "queued", prtd.dma_chan, TaskletFills PROVE IInv'
<1> USE DEF core, NR_DMA_CHAIN
<1>0. "overtaken" \in races  BY DEF TaskletFills, IInv, Scalars, Fields, Marked
<1>1. /\ prtd.dmacount \in 0..1 /\ prtd.frags # 0 /\ prtd.frag_count >= 0
      /\ dma \in Seq(Nat) /\ dma = <<>>
  BY DEF TaskletFills, IInv, Scalars, Fields, Backed
<1>2. Fill(dma, prtd.dmacount)  BY DEF TaskletFills
<1>3. /\ tasklet' = "no" /\ pcm' = pcm /\ suspended' = suspended /\ periods' = periods
      /\ halted' = halted /\ tc' = tc /\ bug' = bug /\ races' = races
  BY DEF TaskletFills
<1>4. /\ Fields' /\ dma' \in Seq(Nat) /\ prtd'.frags = prtd.frags
      /\ prtd'.dma_chan = prtd.dma_chan /\ (prtd'.dmacount = 2 \/ dma' = dma)
  BY <1>1, <1>2, FillDoes
<1>5. ~At({"OPEN"}) /\ pcm # "CLOSED"
  BY DEF IInv, Configured, At, NoUseAfterFree, Quiesced
<1>6. Scalars' /\ Configured'  BY <1>3, <1>4, <1>5 DEF IInv, Scalars, Configured, At
<1>7. Backed'
  <2>1. ~tc  BY <1>1 DEF IInv, Backed
  <2>2. QED  BY <1>1, <1>3, <1>4, <2>1 DEF Backed
<1>8. Marked' /\ Held' /\ InStep'
  BY <1>0, <1>3 DEF IInv, Scalars, Marked, Held, InStep
<1>9. NoBug' /\ OneInFlight' /\ NoUseAfterFree'
  BY <1>0, <1>3, <1>5 DEF NoBug, OneInFlight, NoUseAfterFree, Quiesced, NoDmaAfterFree, At
<1>10. QED  BY <1>4, <1>6, <1>7, <1>8, <1>9 DEF IInv

(* A tasklet that no call has overtaken, of a stream with a channel, does not *)
(* stop in BUG.                                                               *)
LEMMA BugInv ==
    ASSUME IInv, tasklet \in {"queued", "reinit"}, TaskletBug PROVE IInv'
<1> USE DEF TaskletBug, Bug, core, channel
<1>1. "overtaken" \in races \/ "bare" \in races
  BY DEF IInv, Scalars, Fields, Configured, Marked, NoUseAfterFree, Quiesced
<1>2. QED
  BY <1>1 DEF IInv, Scalars, Fields, Configured, At, Backed, Marked, Held, InStep, NoBug, OneInFlight,
              NoUseAfterFree, Quiesced, NoDmaAfterFree

(* The tasklet sets the counters and starts the channel. *)
LEMMA IssuesInv == ASSUME IInv, StartIssues PROVE IInv'
<1> USE DEF core, NR_DMA_CHAIN
<1>0. /\ tasklet = "starting" /\ tasklet' = "no" /\ dma' = <<0>> /\ halted = FALSE /\ ~tc
      /\ UNCHANGED <<pcm, suspended, periods, halted, tc, bug, races>>
      /\ prtd.frags # 0 /\ prtd.dma_chan /\ ~At({"OPEN"}) /\ pcm # "CLOSED"
  BY DEF StartIssues, IInv, Backed, Configured, NoUseAfterFree, Quiesced, At
<1>1. Scalars'  BY <1>0 DEF IInv, Scalars
<1>2. /\ prtd' = [frags |-> prtd.frags, frag_count |-> 1, pos |-> prtd.pos,
                  dmacount |-> 2, dma_chan |-> prtd.dma_chan]
      /\ prtd'.frags = prtd.frags /\ prtd'.frag_count = 1 /\ prtd'.pos = prtd.pos
      /\ prtd'.dmacount = 2 /\ prtd'.dma_chan = prtd.dma_chan
  BY DEF StartIssues, IInv, Fields
<1>3. prtd.frags \in Nat /\ prtd.frags >= 2 /\ 1 \in -1..(prtd.frags - 1)
  BY <1>0, PeriodsTwo DEF IInv, Fields
<1>4. Fields'
  <2>1. /\ prtd.frags \in Periods \cup {0} /\ prtd.pos \in Nat /\ prtd.dma_chan \in BOOLEAN
        /\ prtd.frags > 0 => prtd.pos < prtd.frags
    BY DEF IInv, Fields
  <2>2. QED  BY ONLY <1>2, <1>3, <2>1 DEF Fields, NR_DMA_CHAIN
<1>5. Configured'  BY <1>0, <1>2 DEF IInv, Configured, At
<1>6. Backed' /\ Marked'  BY <1>0, <1>2 DEF IInv, Backed, Marked
<1>7. Held'  BY <1>0 DEF IInv, Held, Marked
<1>8. InStep'
  <2>1. 1 = (0 + 1) % prtd.frags  BY <1>3
  <2>2. Head(<<0>>) = 0  OBVIOUS
  <2>3. races \subseteq {"bare"} => prtd.pos = 0  BY <1>0 DEF IInv, InStep
  <2>4. races \subseteq {"bare"} =>
          prtd'.pos = Head(dma') /\ prtd'.frag_count = (prtd'.pos + 1) % prtd'.frags
    BY <1>0, <1>2, <2>1, <2>2, <2>3
  <2>5. QED  BY <1>0, <2>3, <2>4, <1>2 DEF InStep
<1>9. NoBug' /\ OneInFlight' /\ NoUseAfterFree'
  BY <1>0 DEF IInv, NoBug, OneInFlight, NoUseAfterFree, Quiesced, NoDmaAfterFree, At
<1>10. QED  BY <1>1, <1>4, <1>5, <1>6, <1>7, <1>8, <1>9 DEF IInv

(* The controller finishes the fragment it works on. *)
LEMMA FinishInv == ASSUME IInv, HwFinish PROVE IInv'
  BY DEF HwFinish, core, IInv, Scalars, Fields, Configured, At, Backed, Marked, Held, InStep, NoBug,
         OneInFlight, NoUseAfterFree, Quiesced, NoDmaAfterFree

(* The rest of a queue. *)
LEMMA TailOf ==
    ASSUME NEW q \in Seq(Nat), q # <<>>
    PROVE  Tail(q) \in Seq(Nat) /\ Len(Tail(q)) = Len(q) - 1 /\ Len(q) \in Nat
  OBVIOUS

(* A queue of one. *)
LEMMA AppendOne ==
    ASSUME NEW q \in Seq(Nat), NEW x \in Nat
    PROVE  /\ Append(q, x) \in Seq(Nat) /\ Len(Append(q, x)) = Len(q) + 1
           /\ Append(q, x) # <<>> /\ (Len(q) = 0 => Head(Append(q, x)) = x)
  OBVIOUS

(* A fragment has been played: the callback submits the next one, or stops   *)
(* the stream, or leaves the queue to the tasklet.                           *)
LEMMA CompleteInv == ASSUME IInv, audio_dma_complete PROVE IInv'
<1> USE DEF core, NR_DMA_CHAIN
<1>0. /\ dma # <<>> /\ dma \in Seq(Nat) /\ prtd.frags # 0 /\ prtd.dma_chan /\ prtd.dmacount = 2
      /\ ~At({"OPEN"}) /\ pcm # "CLOSED"
      /\ "overtaken" \notin races => Len(dma) = 1
      /\ Tail(dma) \in Seq(Nat) /\ Len(Tail(dma)) = Len(dma) - 1 /\ Len(dma) \in Nat
      /\ tc' = FALSE /\ halted' = FALSE /\ tasklet' = tasklet /\ bug' = bug
      /\ pcm = "RUNNING" \/ "stray" \in races \/ "caught" \in races
      /\ tasklet # "starting"
  <2>1. tc /\ dma # <<>> /\ dma \in Seq(Nat)  BY DEF audio_dma_complete, IInv, Scalars, Backed
  <2>2. Tail(dma) \in Seq(Nat) /\ Len(Tail(dma)) = Len(dma) - 1 /\ Len(dma) \in Nat
    BY <2>1, TailOf
  <2>3. /\ prtd.frags # 0 /\ prtd.dma_chan /\ prtd.dmacount = 2 /\ tasklet # "starting"
    BY <2>1 DEF IInv, Backed
  <2>4. ~At({"OPEN"}) /\ pcm # "CLOSED"
    BY <2>1 DEF IInv, Configured, At, NoUseAfterFree, NoDmaAfterFree
  <2>5. "overtaken" \notin races => Len(dma) = 1  BY <2>1, <2>2 DEF IInv, OneInFlight
  <2>6. tc' = FALSE /\ halted' = FALSE /\ tasklet' = tasklet /\ bug' = bug
    BY DEF audio_dma_complete
  <2>7. pcm = "RUNNING" \/ "stray" \in races \/ "caught" \in races  BY <2>1 DEF IInv, Held
  <2>8. QED  BY <2>1, <2>2, <2>3, <2>4, <2>5, <2>6, <2>7
<1>1. CASE prtd.frag_count < 0 /\ dma' = Tail(dma) /\ UNCHANGED <<core, prtd, races>>
  <2>1. Scalars' /\ Fields' /\ Configured' /\ Marked'
    <3>0. dma' \in Seq(Nat)  BY <1>0, <1>1
    <3>1. Scalars' /\ Fields'
      <4>1. Scalars'  BY <1>0, <1>1, <3>0 DEF IInv, Scalars
      <4>2. Fields'  BY <1>1 DEF IInv, Fields
      <4>3. QED  BY <4>1, <4>2
    <3>2. Configured'  BY <1>0, <1>1 DEF IInv, Configured, At
    <3>3. Marked'  BY <1>0, <1>1 DEF IInv, Marked
    <3>4. QED  BY <3>1, <3>2, <3>3
  <2>2. Backed' /\ Held'  BY <1>0, <1>1 DEF IInv, Backed, Held
  <2>3. InStep'
    <3>1. races \subseteq {"bare"} => Len(dma) = 1  BY <1>0
    <3>2. dma' \in Seq(Nat) /\ Len(dma') = Len(dma) - 1 /\ Len(dma) \in Nat  BY <1>0, <1>1
    <3>3. races \subseteq {"bare"} => dma' = <<>>
      <4>1. Len(dma') = 0 => dma' = <<>>  BY <3>2, EmptySeq
      <4>2. QED  BY <3>1, <3>2, <4>1
    <3>4. QED  BY <1>0, <1>1, <3>3 DEF IInv, InStep, At
  <2>4. NoBug' /\ OneInFlight' /\ NoUseAfterFree'
    BY <1>0, <1>1 DEF IInv, NoBug, OneInFlight, NoUseAfterFree, Quiesced, NoDmaAfterFree, At
  <2>5. QED  BY <2>1, <2>2, <2>3, <2>4 DEF IInv
<1>2. CASE /\ prtd.frag_count >= 0
           /\ Fill(Tail(dma), prtd.dmacount - 1)
           /\ UNCHANGED <<core, races>>
  <2>1. /\ Fields' /\ dma' \in Seq(Nat)
        /\ prtd'.frags = prtd.frags /\ prtd'.dma_chan = prtd.dma_chan /\ prtd'.dmacount = 2
        /\ \/ dma' = Tail(dma)
           \/ /\ dma' = Append(Tail(dma), prtd.frag_count)
              /\ prtd'.pos = (prtd.pos + 1) % prtd.frags
              /\ prtd'.frag_count = (prtd.frag_count + 1) % prtd.frags
    <3>1. prtd.dmacount - 1 = 1 /\ 1 \in 0..1  BY <1>0
    <3>2. Fill(Tail(dma), 1)  BY <1>2, <3>1
    <3>3. QED  BY <1>0, <1>2, <3>1, <3>2, FillDoes
  <2>2. "overtaken" \notin races => tasklet = "no"  BY <1>2 DEF IInv, Scalars, Fields, Marked
  <2>3. prtd.frag_count \in Nat  BY <1>2 DEF IInv, Fields
  <2>4. "overtaken" \notin races =>
          /\ Len(dma') <= 1
          /\ dma' = <<>> \/ (Head(dma') = prtd.frag_count
                             /\ prtd'.pos = (prtd.pos + 1) % prtd.frags
                             /\ prtd'.frag_count = (prtd.frag_count + 1) % prtd.frags)
    <3>1. HAVE "overtaken" \notin races
    <3>2. Len(Tail(dma)) = 0  BY <1>0, <3>1
    <3>3. CASE dma' = Tail(dma)
      <4>1. dma' = <<>>  BY <1>0, <3>2, <3>3, EmptySeq
      <4>2. QED  BY <4>1, EmptyQueue
    <3>4. CASE /\ dma' = Append(Tail(dma), prtd.frag_count)
               /\ prtd'.pos = (prtd.pos + 1) % prtd.frags
               /\ prtd'.frag_count = (prtd.frag_count + 1) % prtd.frags
      <4>1. /\ Len(Append(Tail(dma), prtd.frag_count)) = 0 + 1
            /\ Head(Append(Tail(dma), prtd.frag_count)) = prtd.frag_count
        BY <1>0, <2>3, <3>2, AppendOne
      <4>2. QED  BY <3>4, <4>1
    <3>5. QED  BY <2>1, <3>3, <3>4
  <2>5. Scalars' /\ Configured' /\ Marked'
    BY <1>0, <1>2, <2>1, <2>2 DEF IInv, Scalars, Configured, At, Marked
  <2>6. Backed' /\ Held'  BY <1>0, <1>2, <2>1 DEF IInv, Scalars, Backed, Held
  <2>7. InStep'
    <3>1. SUFFICES ASSUME races \subseteq {"bare"} PROVE InStep'
      BY <1>2 DEF InStep
    <3>2. pcm = "RUNNING" /\ tasklet = "no" /\ prtd.frag_count = (prtd.pos + 1) % prtd.frags
      BY <1>0, <2>2, <3>1 DEF IInv, InStep, At
    <3>3. dma' = <<>> \/ (Head(dma') = prtd.frag_count
                          /\ prtd'.pos = (prtd.pos + 1) % prtd.frags
                          /\ prtd'.frag_count = (prtd.frag_count + 1) % prtd.frags)
      BY <2>4, <3>1
    <3>4. dma' = <<>> \/ (prtd'.pos = Head(dma')
                          /\ prtd'.frag_count = (prtd'.pos + 1) % prtd'.frags)
      BY <2>1, <3>2, <3>3
    <3>5. QED  BY <1>0, <1>2, <3>2, <3>4 DEF InStep, At
  <2>8. NoBug' /\ OneInFlight' /\ NoUseAfterFree'
    BY <1>0, <1>2, <2>4 DEF IInv, NoBug, OneInFlight, NoUseAfterFree, Quiesced, NoDmaAfterFree, At
  <2>9. QED  BY <2>1, <2>5, <2>6, <2>7, <2>8 DEF IInv
<1>3. CASE /\ prtd.frag_count >= 0 /\ pcm = "RUNNING"
           /\ \E state \in {"XRUN", "SETUP"} : Becomes(state)
           /\ prtd' = [prtd EXCEPT !.frag_count = (@ + 1) % prtd.frags,
                                   !.pos = (@ + 1) % prtd.frags]
           /\ dma' = <<>> /\ Settles
  <2>1. /\ pcm' \in {"XRUN", "SETUP"} /\ UNCHANGED <<suspended, periods>> /\ dma' = <<>>
        /\ races' = IF tasklet = "no" THEN {} ELSE races \cup {"stray"}
    BY <1>3 DEF Becomes, Settles
  <2>2. /\ prtd'.frags = prtd.frags /\ prtd'.dma_chan = prtd.dma_chan
        /\ prtd'.dmacount = prtd.dmacount
        /\ prtd'.frag_count = (prtd.frag_count + 1) % prtd.frags
        /\ prtd'.pos = (prtd.pos + 1) % prtd.frags
        /\ prtd' = [frags |-> prtd'.frags, frag_count |-> prtd'.frag_count, pos |-> prtd'.pos,
                    dmacount |-> prtd'.dmacount, dma_chan |-> prtd'.dma_chan]
    BY <1>3 DEF IInv, Fields
  <2>3. /\ prtd.frags \in Periods /\ prtd.frags \in Nat
        /\ prtd.frag_count + 1 \in Nat /\ prtd.pos + 1 \in Nat
    BY <1>0, <1>3, PeriodsTwo DEF IInv, Fields
  <2>4. Fields'
    <3>1. /\ prtd'.frag_count \in Nat /\ prtd'.frag_count \in -1..(prtd.frags - 1)
          /\ prtd'.pos \in Nat /\ prtd'.pos < prtd.frags
      BY <2>2, <2>3, Wraps
    <3>2. QED  BY <2>2, <3>1 DEF IInv, Fields
  <2>5. "overtaken" \notin races => tasklet = "no"  BY <1>3 DEF IInv, Scalars, Fields, Marked
  <2>6. Scalars' /\ Configured' /\ Marked'
    BY <1>0, <2>1, <2>2, <2>5, EmptyQueue DEF IInv, Scalars, Race, Configured, At, Marked
  <2>7. Backed' /\ Held' /\ InStep'  BY <1>0, <2>1, <2>2 DEF IInv, Backed, Held, InStep, At
  <2>8. NoBug' /\ OneInFlight' /\ NoUseAfterFree'
    <3>1. ~bug  BY DEF audio_dma_complete
    <3>2. QED
      BY <1>0, <2>1, <3>1, EmptyQueue DEF NoBug, OneInFlight, NoUseAfterFree, Quiesced, NoDmaAfterFree
  <2>9. QED  BY <2>4, <2>6, <2>7, <2>8 DEF IInv
<1>4. QED  BY <1>1, <1>2, <1>3 DEF audio_dma_complete

(* Every step keeps the invariant. *)
LEMMA NextInv == IInv /\ [Next]_vars => IInv'
<1> SUFFICES ASSUME IInv, [Next]_vars PROVE IInv'  OBVIOUS
<1>1. CASE silan_pcm_open \/ silan_pcm_hw_free \/ silan_pcm_close \/ silan_pcm_prepare
  BY <1>1, OpenInv, FreeInv, CloseInv, PrepareInv
<1>2. CASE \E n \in Periods : silan_pcm_hw_params(n)  BY <1>2, ParamsInv
<1>3. CASE Start \/ PauseRelease  BY <1>3, StartInv, ReleaseInv
<1>4. CASE PausePush \/ Drop  BY <1>4, StopInv, DropPausedInv, DropIdleInv DEF PausePush, Drop
<1>5. CASE Suspend \/ Resume \/ TriggerNull \/ PrepareUnset
  BY <1>5, SuspendInv, ResumeInv, CallBugInv
<1>6. CASE dma_tasklet  BY <1>6, BugInv, PreparedInv, FillsInv DEF dma_tasklet
<1>7. CASE StartIssues \/ HwFinish \/ audio_dma_complete  BY <1>7, IssuesInv, FinishInv, CompleteInv
<1>8. CASE UNCHANGED vars
  BY <1>8 DEF vars, IInv, Scalars, Fields, Configured, At, Backed, Marked, Held, InStep, NoBug,
              OneInFlight, NoUseAfterFree, Quiesced, NoDmaAfterFree
<1>9. QED  BY <1>1, <1>2, <1>3, <1>4, <1>5, <1>6, <1>7, <1>8 DEF Next

(* The counters and positions of the PCM driver stay in range whatever the   *)
(* application does: pauses, suspensions, failing preparations, calls that   *)
(* overtake the tasklet.                                                     *)
THEOREM TypesHold == Spec => []TypeOK
<1>1. IInv => TypeOK  BY PartsType DEF IInv
<1>2. QED  BY InitInv, NextInv, <1>1, PTL DEF Spec

(* In every environment: BUG_ON in dma_tasklet fires, a trigger or the       *)
(* tasklet meets a NULL channel, or the core divides by a period size of 0,  *)
(* only after prepare or hw_params overtook a scheduled tasklet or a stream  *)
(* without a channel was suspended; at most one descriptor is in flight      *)
(* unless a call overtook the tasklet so; and in any case nothing uses the   *)
(* buffer after silan_pcm_hw_free.                                           *)
THEOREM StreamIsSafe == Spec => [](NoBug /\ OneInFlight /\ NoUseAfterFree)
<1>1. IInv => NoBug /\ OneInFlight /\ NoUseAfterFree  BY DEF IInv
<1>2. QED  BY InitInv, NextInv, <1>1, PTL DEF Spec

(* In every environment: the engine moves data for a stream that does not    *)
(* run only after a race of the tasklet with the call that stopped the       *)
(* stream, or of a finished fragment with a suspension; and unless such a    *)
(* race has happened, or a pause was released, since the channel was last    *)
(* stopped, the position silan_pcm_pointer reports is that of the fragment   *)
(* the engine works on.                                                      *)
THEOREM StreamInStep == Spec => [](EngineStopped /\ PointerTracksDma)
<1>1. IInv => EngineStopped  BY DEF IInv, Scalars, Held, EngineStopped, Moving
<1>2. IInv => PointerTracksDma
  BY DEF IInv, Scalars, InStep, At, PointerTracksDma, Moving
<1>3. QED  BY InitInv, NextInv, <1>1, <1>2, PTL DEF Spec

-----------------------------------------------------------------------------
(* A stream that is not paused, whose tasklet runs before the next call and  *)
(* for which descriptors can be prepared plays on: what PlaysOn rests on.    *)

Provided == "pause" \notin Env /\ "late_tasklet" \notin Env /\ "prep_fails" \notin Env

\* No pause, and no call overtakes the tasklet.
Plain ==
    /\ races \subseteq {"caught", "bare"}
    /\ pcm # "PAUSED" /\ suspended # "PAUSED"

\* A running stream has a tasklet on its way or a fragment that the engine works
\* on or has finished, and a suspended one a fragment to go on with.
Fed ==
    /\ pcm = "RUNNING" => tasklet \in {"queued", "starting"} \/ (dma # <<>> /\ ~halted)
    /\ pcm = "SUSPENDED" /\ suspended = "RUNNING" => dma # <<>>
    /\ dma # <<>> /\ tasklet = "no" => prtd.frag_count >= 0

\* How many steps of the tasklet, the controller and the handler are left until
\* the position changes.
Left ==
    IF tasklet = "queued" THEN IF dma = <<>> THEN 4 ELSE IF tc THEN 5 ELSE 6
    ELSE IF tasklet = "starting" THEN 3
    ELSE IF tc THEN 1 ELSE 2

\* A step of a stream that runs, and goes on, takes it nearer to the next position
\* or to it, which is another one.
Advances ==
    pcm = "RUNNING" /\ pcm' = "RUNNING" /\ ~bug' =>
        \/ prtd'.pos = prtd.pos /\ Left' < Left
        \/ prtd'.pos = (prtd.pos + 1) % prtd.frags /\ prtd'.pos # prtd.pos

(* Initially no stream runs. *)
LEMMA InitFed == Init => Plain /\ Fed
  BY DEF Init, Plain, Fed

(* No call of the application leaves a running stream without work, and none *)
(* leaves it running.                                                        *)
LEMMA CallFeeds ==
    ASSUME Provided, IInv, Plain, Fed,
           \/ silan_pcm_open \/ silan_pcm_hw_free \/ silan_pcm_close \/ silan_pcm_prepare
           \/ \E n \in Periods : silan_pcm_hw_params(n)
           \/ Start \/ PausePush \/ PauseRelease \/ Drop \/ Suspend \/ Resume
    PROVE  Plain' /\ Fed' /\ Advances
<1> USE DEF IInv, Scalars, Fields, Provided, Call, Becomes, TerminateAll, Schedule, Late, Settles,
            channel, Plain, Fed, Advances
<1>1. CASE silan_pcm_open \/ silan_pcm_close
  BY <1>1 DEF silan_pcm_open, silan_pcm_close, Zeroed
<1>2. CASE silan_pcm_hw_free  BY <1>2 DEF silan_pcm_hw_free
<1>3. CASE silan_pcm_prepare  BY <1>3 DEF silan_pcm_prepare
<1>4. ASSUME NEW n \in Periods, silan_pcm_hw_params(n) PROVE Plain' /\ Fed' /\ Advances
  BY <1>4 DEF silan_pcm_hw_params
<1>5. CASE Start \/ PauseRelease  BY <1>5 DEF Start, PauseRelease, TriggerStart
<1>6. CASE PausePush \/ Drop
  BY <1>6 DEF PausePush, Drop, TriggerStop, DropPaused, DropIdle
<1>7. CASE Suspend  BY <1>7 DEF Suspend
<1>8. CASE Resume  BY <1>8 DEF Resume
<1>9. QED  BY <1>1, <1>2, <1>3, <1>4, <1>5, <1>6, <1>7, <1>8

(* A crash feeds nothing and changes nothing. *)
LEMMA BugFeeds ==
    ASSUME Plain, Fed, Bug PROVE Plain' /\ Fed' /\ Advances
  BY DEF Bug, core, channel, Plain, Fed, Advances

(* The tasklet clears the channel, and then starts it. *)
LEMMA TaskletFeeds ==
    ASSUME Provided, IInv, Plain, Fed, dma_tasklet \/ StartIssues
    PROVE  Plain' /\ Fed' /\ Advances
<1> USE DEF Plain, Fed, Advances, Left, core
<1>1. /\ tasklet # "no" => prtd.frag_count = -1 /\ pcm = "RUNNING" /\ tasklet # "reinit"
  BY DEF IInv, Scalars, Marked
<1>2. CASE dma_tasklet
  <2>1. tasklet = "queued" /\ prtd.frag_count = -1 /\ pcm = "RUNNING"
    BY <1>1, <1>2 DEF dma_tasklet
  <2>2. CASE TaskletBug  BY <2>2, BugFeeds DEF TaskletBug
  <2>3. ~StartFailed  BY DEF StartFailed, Failed, Provided
  <2>4. ~TaskletFills  BY <2>1 DEF TaskletFills
  <2>5. CASE StartPrepared
    <3>1. /\ tasklet' = "starting" /\ prtd' = prtd /\ pcm' = pcm /\ suspended' = suspended
          /\ races' = races /\ dma' = <<>>
      BY <2>5 DEF StartPrepared, TerminateAll
    <3>2. Left' = 3 /\ Left >= 4  BY <2>1, <3>1
    <3>3. QED  BY <2>1, <3>1, <3>2
  <2>6. QED  BY <1>2, <2>2, <2>3, <2>4, <2>5 DEF dma_tasklet
<1>3. CASE StartIssues
  <2>1. /\ prtd'.pos = prtd.pos /\ prtd'.frag_count = 1 /\ dma' = <<0>>
        /\ tasklet = "starting" /\ tasklet' = "no"
        /\ pcm' = pcm /\ suspended' = suspended /\ halted' = halted /\ races' = races /\ tc' = tc
        /\ halted = FALSE /\ pcm = "RUNNING"
    BY <1>1, <1>3 DEF StartIssues, IInv, Fields, Backed
  <2>2. <<0>> # <<>>  OBVIOUS
  <2>3. Left = 3 /\ Left' <= 2  BY <2>1
  <2>4. QED  BY <2>1, <2>2, <2>3
<1>4. QED  BY <1>2, <1>3

(* The controller finishes the fragment of a running stream. *)
LEMMA FinishFeeds ==
    ASSUME IInv, Plain, Fed, HwFinish PROVE Plain' /\ Fed' /\ Advances
<1>1. /\ tc = FALSE /\ tc' = TRUE /\ dma # <<>> /\ tasklet # "starting"
      /\ UNCHANGED <<pcm, suspended, prtd, tasklet, dma, halted, races>>
  BY DEF HwFinish, core, IInv, Scalars, Backed
<1>2. Left' < Left  BY <1>1 DEF Left
<1>3. QED  BY <1>1, <1>2 DEF Plain, Fed, Advances

(* The next of two or more positions is another one. *)
LEMMA NextPosition ==
    ASSUME NEW n \in Nat, n >= 2, NEW p \in Nat, p < n PROVE (p + 1) % n # p
<1>1. CASE p + 1 < n
  <2>1. (p + 1) % n = p + 1  BY <1>1, Small
  <2>2. QED  BY <2>1
<1>2. CASE p + 1 = n
  <2>1. n % n = 0  OBVIOUS
  <2>2. QED  BY <1>2, <2>1
<1>3. QED  BY <1>1, <1>2

(* Where nothing fails, the loop of dma_tasklet submits what is missing. *)
LEMMA FillFeeds ==
    ASSUME Provided, IInv, NEW q \in Seq(Nat), Fill(q, 1), prtd.frag_count \in Nat, prtd.frags # 0
    PROVE  dma' # <<>> /\ prtd'.pos = (prtd.pos + 1) % prtd.frags
<1>1. PICK n \in 0..(NR_DMA_CHAIN - 1) :
        /\ n < NR_DMA_CHAIN - 1 => Failed
        /\ dma' = q \o [i \in 1..n |-> (prtd.frag_count + i - 1) % prtd.frags]
        /\ prtd' = [prtd EXCEPT
                      !.dmacount = IF n < NR_DMA_CHAIN - 1 THEN 1 + n + 1 ELSE 1 + n,
                      !.frag_count = (@ + n) % prtd.frags,
                      !.pos = (@ + n) % prtd.frags]
  BY DEF Fill
<1>2. n = 1  BY <1>1 DEF NR_DMA_CHAIN, Failed, Provided
<1>3. prtd'.pos = (prtd.pos + 1) % prtd.frags  BY <1>1, <1>2 DEF IInv, Fields
<1>4. dma' # <<>>
  <2> DEFINE one == [i \in 1..1 |-> (prtd.frag_count + i - 1) % prtd.frags]
  <2>1. prtd.frags \in Periods  BY DEF IInv, Fields
  <2>2. \A i \in 1..1 : (prtd.frag_count + i - 1) % prtd.frags \in Nat
    <3>1. (prtd.frag_count + 1 - 1) = prtd.frag_count  OBVIOUS
    <3>2. (prtd.frag_count + 1 - 1) % prtd.frags \in Nat  BY <2>1, <3>1, Wraps
    <3>3. QED  BY <3>2
  <2>3. one \in Seq(Nat) /\ Len(one) = 1  BY <2>2
  <2>4. dma' = q \o one  BY <1>1, <1>2
  <2> HIDE DEF one
  <2>5. Len(q \o one) = Len(q) + 1 /\ Len(q) \in Nat
    <3>1. Len(q \o one) = Len(q) + Len(one)  BY <2>3, ConcatProperties
    <3>2. Len(q) \in Nat  OBVIOUS
    <3>3. QED  BY <2>3, <3>1, <3>2
  <2>6. Len(dma') # 0  BY <2>4, <2>5
  <2>7. QED  BY <2>6
<1>5. QED  BY <1>3, <1>4

(* The callback submits the next fragment, or the stream is stopped. *)
LEMMA CompleteFeeds ==
    ASSUME Provided, IInv, Plain, Fed, audio_dma_complete
    PROVE  Plain' /\ Fed' /\ Advances
<1> USE DEF core
<1>1. /\ dma # <<>> /\ tc /\ tc' = FALSE /\ halted' = FALSE /\ tasklet' = tasklet
      /\ Tail(dma) \in Seq(Nat) /\ prtd.dmacount = 2 /\ prtd.frags # 0
      /\ tasklet # "no" => prtd.frag_count = -1 /\ pcm = "RUNNING" /\ tasklet = "queued"
  <2>1. dma # <<>> /\ tc /\ tc' = FALSE /\ halted' = FALSE /\ tasklet' = tasklet
    BY DEF audio_dma_complete, IInv, Backed
  <2>2. Tail(dma) \in Seq(Nat)  BY <2>1, TailOf DEF IInv, Scalars
  <2>3. prtd.dmacount = 2 /\ prtd.frags # 0  BY <2>1 DEF IInv, Backed, NR_DMA_CHAIN
  <2>4. tasklet # "no" => prtd.frag_count = -1 /\ pcm = "RUNNING" /\ tasklet = "queued"
    BY <2>1 DEF IInv, Scalars, Backed, Marked, Plain
  <2>5. QED  BY <2>1, <2>2, <2>3, <2>4
<1>2. /\ prtd.frags \in Periods /\ prtd.frags \in Nat /\ prtd.frags >= 2
      /\ prtd.pos \in Nat /\ prtd.pos < prtd.frags
  BY <1>1, PeriodsTwo DEF IInv, Fields
<1>3. CASE prtd.frag_count < 0 /\ dma' = Tail(dma) /\ UNCHANGED <<core, prtd, races>>
  <2>1. tasklet = "queued" /\ pcm = "RUNNING"  BY <1>1, <1>3 DEF Fed, IInv, Fields
  <2>2. dma' = <<>>
    <3>1. Len(dma) <= 1 /\ dma \in Seq(Nat)  BY DEF IInv, Scalars, OneInFlight, Plain
    <3>2. Len(Tail(dma)) = Len(dma) - 1 /\ Len(dma) \in Nat /\ Len(Tail(dma)) \in Nat
      BY <1>1, <3>1, TailOf
    <3>3. \A a, b \in Nat : a <= 1 /\ b = a - 1 => b = 0  OBVIOUS
    <3>4. Len(Tail(dma)) = 0  BY <3>1, <3>2, <3>3
    <3>5. QED  BY <1>1, <1>3, <3>4, EmptySeq
  <2>3. Left' = 4 /\ Left = 5  BY <1>1, <2>1, <2>2 DEF Left
  <2>4. QED  BY <1>1, <1>3, <2>1, <2>2, <2>3 DEF Plain, Fed, Advances
<1>4. CASE /\ prtd.frag_count >= 0
           /\ Fill(Tail(dma), prtd.dmacount - 1)
           /\ UNCHANGED <<core, races>>
  <2>1. prtd.frag_count \in Nat  BY <1>4 DEF IInv, Fields
  <2>2. Fill(Tail(dma), 1)
    <3>1. prtd.dmacount - 1 = 1  BY <1>1
    <3>2. QED  BY <1>4, <3>1
  <2>3. dma' # <<>> /\ prtd'.pos = (prtd.pos + 1) % prtd.frags  BY <1>1, <2>1, <2>2, FillFeeds
  <2>4. prtd'.pos # prtd.pos  BY <1>2, <2>3, NextPosition
  <2>5. prtd'.frag_count >= 0
    <3>1. Fields'
      <4>1. 1 \in 0..1 /\ prtd.frag_count >= 0  BY <1>4
      <4>2. QED  BY <1>1, <2>2, <4>1, FillDoes
    <3>2. PICK n \in 0..(NR_DMA_CHAIN - 1) : prtd'.frag_count = (prtd.frag_count + n) % prtd.frags
      BY <2>2 DEF Fill, IInv, Fields
    <3>3. prtd.frag_count + n \in Nat  BY <2>1
    <3>4. (prtd.frag_count + n) % prtd.frags \in Nat  BY <1>2, <3>3, Wraps
    <3>5. QED  BY <3>2, <3>4
  <2>6. QED  BY <1>1, <1>4, <2>3, <2>4, <2>5 DEF Plain, Fed, Advances
<1>5. CASE /\ \E state \in {"XRUN", "SETUP"} : Becomes(state)
           /\ dma' = <<>> /\ Settles
           /\ pcm = "RUNNING" /\ prtd.frag_count >= 0
  BY <1>1, <1>5 DEF Becomes, Settles, Plain, Fed, Advances
<1>6. QED  BY <1>3, <1>4, <1>5 DEF audio_dma_complete

(* A running stream is never left without a tasklet that starts it or a      *)
(* fragment in the engine, through suspend and resume (also when a suspension *)
(* catches a finished fragment) and any number of restarts: each step of     *)
(* dma_tasklet, of the controller and of audio_dma_complete that neither     *)
(* stops the stream nor crashes takes it nearer to, or to, the next position *)
(* that silan_pcm_pointer reports; six steps at most lie between two.        *)
THEOREM StreamPlaysOn ==
    ASSUME "pause" \notin Env, "late_tasklet" \notin Env, "prep_fails" \notin Env
    PROVE  Spec => []Fed /\ [][Advances /\ Left \in 0..6]_vars
<1>1. Provided  BY DEF Provided
<1>2. Left \in 0..6  BY DEF Left
<1>3. IInv /\ Plain /\ Fed /\ [Next]_vars => Plain' /\ Fed' /\ [Advances /\ Left \in 0..6]_vars
  <2>1. SUFFICES ASSUME IInv, Plain, Fed, [Next]_vars
                 PROVE  Plain' /\ Fed' /\ [Advances /\ Left \in 0..6]_vars
    OBVIOUS
  <2>2. CASE UNCHANGED vars  BY <2>1, <2>2 DEF vars, Plain, Fed
  <2>3. CASE TriggerNull \/ PrepareUnset
    BY <1>2, <2>1, <2>3, BugFeeds DEF TriggerNull, PrepareUnset
  <2>4. CASE Next /\ ~(TriggerNull \/ PrepareUnset)
    BY <1>1, <1>2, <2>1, <2>4, CallFeeds, TaskletFeeds, FinishFeeds, CompleteFeeds DEF Next
  <2>5. QED  BY <2>1, <2>2, <2>3, <2>4
<1>4. QED  BY InitInv, NextInv, InitFed, <1>3, PTL DEF Spec
=============================================================================
