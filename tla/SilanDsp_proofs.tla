--------------------------- MODULE SilanDsp_proofs ---------------------------
(***************************************************************************)
(* Proofs about SilanDsp.  The first part is for any number of threads and *)
(* everything that can go wrong; the second for one thread whose calls are *)
(* neither interrupted by a signal nor timed out; the third, which also    *)
(* has a DSP that answers, that a waiting thread comes nearer to its       *)
(* return.                                                                 *)
(***************************************************************************)
EXTENDS SilanDsp, TLAPS

\* A thread inside dsp_send_cmd has the number of its call.
InCall == \A t \in Threads : pc[t] \in {"wait", "woken"} => call[t] # None

\* TypeOK in parts: the flags, the other values, and the maps.
Flags ==
    /\ open \in BOOLEAN /\ init \in BOOLEAN /\ failed \in BOOLEAN
    /\ crashed \in BOOLEAN /\ tx_work \in BOOLEAN /\ rx_work \in BOOLEAN /\ hostint \in BOOLEAN
Values ==
    /\ firmware_name \in Names \cup {NoName} /\ image \in Names \cup {NoName}
    /\ wanted \in Names \cup {NoName} /\ loader \in Threads \cup {None}
    /\ msg \in Calls \cup {None} /\ mailbox \in Calls \cup {None} /\ dsp \in Calls \cup {None}
Maps ==
    /\ pc \in [Threads -> {"user", "load", "wait", "woken"}]
    /\ call \in [Threads -> Calls \cup {None}] /\ calls \in 0..MaxCalls
    /\ cfg_wait_q \subseteq Calls /\ served \subseteq Calls /\ ok \subseteq Calls

IInv == TypeOK /\ InCall /\ OneLoader /\ NameIsImage /\ FailedNotQueued

\* The command of thread t is in at most one place on its way to the DSP and
\* back, and only while t waits; a reply is under way only for a served command.
OnItsWay(t) ==
    /\ tx_work \/ mailbox # None \/ dsp # None \/ hostint \/ rx_work => pc[t] = "wait"
    /\ tx_work => msg = call[t] /\ mailbox = None
    /\ mailbox # None => mailbox = call[t]
    /\ tx_work \/ mailbox # None => dsp = None
    /\ dsp # None => dsp = call[t]
    /\ tx_work \/ mailbox # None \/ dsp # None => ~hostint /\ ~rx_work
    /\ hostint => ~rx_work
    /\ hostint \/ rx_work \/ pc[t] = "woken" => call[t] \in served

Alone == \A t \in Threads : OnItsWay(t)

-----------------------------------------------------------------------------
(* Any number of threads, any fault.                                         *)

(* Initially nobody is inside the driver. *)
LEMMA InitInv == Init => IInv
<1> SUFFICES ASSUME Init PROVE IInv  OBVIOUS
<1>0. calls \in 0..MaxCalls /\ {} \subseteq Calls  BY SilanDspAssumption DEF Init
<1>1. TypeOK  BY <1>0 DEF Init, TypeOK
<1>2. InCall /\ OneLoader /\ NameIsImage /\ FailedNotQueued
  BY DEF Init, InCall, OneLoader, NameIsImage, FailedNotQueued
<1>3. QED  BY <1>1, <1>2 DEF IInv

(* Opening and closing the device. *)
LEMMA OpenInv == ASSUME IInv, silan_dsp_open \/ silan_dsp_close PROVE IInv'
<1> USE DEF silan_dsp_open, silan_dsp_close,
            firmware, mbox, device, callers, IInv
<1>1. TypeOK'
  <2>1. Flags'  BY DEF TypeOK, Flags
  <2>2. Values'  BY DEF TypeOK, Values
  <2>3. Maps'  BY SilanDspAssumption DEF TypeOK, InCall, Maps, Calls, None
  <2>4. QED  BY ONLY <2>1, <2>2, <2>3 DEF TypeOK, Flags, Values, Maps
<1>2. InCall' /\ OneLoader'  BY SilanDspAssumption DEF TypeOK, InCall, OneLoader, Calls, None
<1>3. NameIsImage'  BY SilanDspAssumption DEF TypeOK, NameIsImage, OneLoader
<1>4. FailedNotQueued'  BY DEF TypeOK, FailedNotQueued, Inside
<1>5. QED  BY <1>1, <1>2, <1>3, <1>4

(* Writing a name: it is loaded, or another load is under way. *)
LEMMA WriteInv ==
    ASSUME IInv, NEW t \in Threads, NEW name \in Names, silan_dsp_write(t, name)
    PROVE  IInv'
<1> USE DEF silan_dsp_write, BeginLoad,
            firmware, mbox, device, callers, IInv
<1>1. TypeOK'
  <2>1. Flags'  BY DEF TypeOK, Flags
  <2>2. Values'  BY DEF TypeOK, Values
  <2>3. Maps'  BY SilanDspAssumption DEF TypeOK, InCall, Maps, Calls, None
  <2>4. QED  BY ONLY <2>1, <2>2, <2>3 DEF TypeOK, Flags, Values, Maps
<1>2. InCall' /\ OneLoader'  BY SilanDspAssumption DEF TypeOK, InCall, OneLoader, Calls, None
<1>3. NameIsImage'  BY SilanDspAssumption DEF TypeOK, NameIsImage, OneLoader
<1>4. FailedNotQueued'  BY DEF TypeOK, FailedNotQueued, Inside
<1>5. QED  BY <1>1, <1>2, <1>3, <1>4

(* The image arrives; the thread that loads it is the only one. *)
LEMMA ReloadInv == ASSUME IInv, NEW t \in Threads, silan_dsp_reload(t) PROVE IInv'
<1> USE DEF silan_dsp_reload,
            firmware, mbox, device, callers, IInv
<1>1. TypeOK'
  <2>1. Flags'  BY DEF TypeOK, Flags
  <2>2. Values'  BY DEF TypeOK, Values
  <2>3. Maps'  BY SilanDspAssumption DEF TypeOK, InCall, Maps, Calls, None
  <2>4. QED  BY ONLY <2>1, <2>2, <2>3 DEF TypeOK, Flags, Values, Maps
<1>2. InCall' /\ OneLoader'  BY SilanDspAssumption DEF TypeOK, InCall, OneLoader, Calls, None
<1>3. NameIsImage'  BY SilanDspAssumption DEF TypeOK, NameIsImage, OneLoader
<1>4. FailedNotQueued'  BY DEF TypeOK, FailedNotQueued, Inside
<1>5. QED  BY <1>1, <1>2, <1>3, <1>4

(* The image does not arrive. *)
LEMMA LoadFailsInv == ASSUME IInv, NEW t \in Threads, LoadFails(t) PROVE IInv'
<1> USE DEF LoadFails,
            firmware, mbox, device, callers, IInv
<1>1. TypeOK'
  <2>1. Flags'  BY DEF TypeOK, Flags
  <2>2. Values'  BY DEF TypeOK, Values
  <2>3. Maps'  BY SilanDspAssumption DEF TypeOK, InCall, Maps, Calls, None
  <2>4. QED  BY ONLY <2>1, <2>2, <2>3 DEF TypeOK, Flags, Values, Maps
<1>2. InCall' /\ OneLoader'  BY SilanDspAssumption DEF TypeOK, InCall, OneLoader, Calls, None
<1>3. NameIsImage'  BY SilanDspAssumption DEF TypeOK, NameIsImage, OneLoader
<1>4. FailedNotQueued'  BY DEF TypeOK, FailedNotQueued, Inside
<1>5. QED  BY <1>1, <1>2, <1>3, <1>4

(* The reload ioctl only marks the DSP as started. *)
LEMMA IoctlInv == ASSUME IInv, NEW t \in Threads, IoctlReload(t) PROVE IInv'
<1> USE DEF IoctlReload,
            firmware, mbox, device, callers, IInv
<1>1. TypeOK'
  <2>1. Flags'  BY DEF TypeOK, Flags
  <2>2. Values'  BY DEF TypeOK, Values
  <2>3. Maps'  BY SilanDspAssumption DEF TypeOK, InCall, Maps, Calls, None
  <2>4. QED  BY ONLY <2>1, <2>2, <2>3 DEF TypeOK, Flags, Values, Maps
<1>2. InCall' /\ OneLoader'  BY SilanDspAssumption DEF TypeOK, InCall, OneLoader, Calls, None
<1>3. NameIsImage'  BY SilanDspAssumption DEF TypeOK, NameIsImage, OneLoader
<1>4. FailedNotQueued'  BY DEF TypeOK, FailedNotQueued, Inside
<1>5. QED  BY <1>1, <1>2, <1>3, <1>4

(* Sending a command. *)
LEMMA SendInv == ASSUME IInv, NEW t \in Threads, dsp_send_cmd(t) PROVE IInv'
<1> USE DEF dsp_send_cmd,
            firmware, mbox, device, callers, IInv
<1>1. TypeOK'
  <2>1. Flags'  BY DEF TypeOK, Flags
  <2>2. Values'
    <3>1. msg' \in Calls \cup {None}  BY SilanDspAssumption DEF TypeOK, Calls
    <3>2. QED  BY <3>1 DEF TypeOK, Values
  <2>3. Maps'  BY SilanDspAssumption DEF TypeOK, InCall, Maps, Calls, None
  <2>4. QED  BY ONLY <2>1, <2>2, <2>3 DEF TypeOK, Flags, Values, Maps
<1>2. InCall' /\ OneLoader'  BY SilanDspAssumption DEF TypeOK, InCall, OneLoader, Calls, None
<1>3. NameIsImage'  BY SilanDspAssumption DEF TypeOK, NameIsImage, OneLoader
<1>4. FailedNotQueued'  BY DEF TypeOK, FailedNotQueued, Inside
<1>5. QED  BY <1>1, <1>2, <1>3, <1>4

(* A thread is woken, or a signal reaches it: the call reports success. *)
LEMMA ReturnInv ==
    ASSUME IInv, NEW t \in Threads, SendReturns(t) \/ SendSignalled(t)
    PROVE  IInv'
<1> USE DEF SendReturns, SendSignalled,
            firmware, mbox, device, callers, IInv
<1>1. TypeOK'
  <2>1. Flags'  BY DEF TypeOK, Flags
  <2>2. Values'  BY DEF TypeOK, Values
  <2>3. Maps'  BY SilanDspAssumption DEF TypeOK, InCall, Maps, Calls, None
  <2>4. QED  BY ONLY <2>1, <2>2, <2>3 DEF TypeOK, Flags, Values, Maps
<1>2. InCall' /\ OneLoader'  BY SilanDspAssumption DEF TypeOK, InCall, OneLoader, Calls, None
<1>3. NameIsImage'  BY SilanDspAssumption DEF TypeOK, NameIsImage, OneLoader
<1>4. FailedNotQueued'  BY DEF TypeOK, FailedNotQueued, Inside
<1>5. QED  BY <1>1, <1>2, <1>3, <1>4

(* A timeout: the entry is off the wait queue. *)
LEMMA TimeoutInv == ASSUME IInv, NEW t \in Threads, SendTimesOut(t) PROVE IInv'
<1> USE DEF SendTimesOut,
            firmware, mbox, device, callers, IInv
<1>0. /\ pc' \in [Threads -> {"user", "load", "wait", "woken"}]
      /\ cfg_wait_q' \subseteq Calls /\ firmware_name' \in Names \cup {NoName}
  BY DEF TypeOK
<1>1. TypeOK'  BY <1>0 DEF TypeOK
<1>2. InCall' /\ OneLoader'  BY SilanDspAssumption DEF TypeOK, InCall, OneLoader, Calls, None
<1>3. NameIsImage'  BY SilanDspAssumption DEF TypeOK, NameIsImage, OneLoader
<1>4. FailedNotQueued'  BY DEF TypeOK, FailedNotQueued, Inside
<1>5. QED  BY <1>1, <1>2, <1>3, <1>4

(* A reply wakes every waiting thread. *)
LEMMA WakeInv == ASSUME IInv, mbox_rx_work PROVE IInv'
<1> USE DEF mbox_rx_work,
            firmware, mbox, device, callers, IInv
<1>0. pc' \in [Threads -> {"user", "load", "wait", "woken"}] /\ cfg_wait_q' \subseteq Calls
  BY DEF TypeOK
<1>1. TypeOK'
  <2>1. TypeOK /\ rx_work' = FALSE
        /\ UNCHANGED <<msg, tx_work, crashed, call, calls, ok, firmware, device>>
    BY DEF IInv
  <2>2. /\ open' \in BOOLEAN /\ init' \in BOOLEAN /\ failed' \in BOOLEAN
        /\ crashed' \in BOOLEAN /\ tx_work' \in BOOLEAN /\ rx_work' \in BOOLEAN
        /\ hostint' \in BOOLEAN
    BY ONLY <2>1 DEF TypeOK, firmware, device
  <2>3. /\ firmware_name' \in Names \cup {NoName} /\ image' \in Names \cup {NoName}
        /\ wanted' \in Names \cup {NoName} /\ loader' \in Threads \cup {None}
    BY ONLY <2>1 DEF TypeOK, firmware, device
  <2>4. /\ call' \in [Threads -> Calls \cup {None}] /\ calls' \in 0..MaxCalls
        /\ msg' \in Calls \cup {None} /\ mailbox' \in Calls \cup {None}
        /\ dsp' \in Calls \cup {None} /\ served' \subseteq Calls /\ ok' \subseteq Calls
    BY ONLY <2>1 DEF TypeOK, firmware, device
  <2>5. QED  BY ONLY <1>0, <2>2, <2>3, <2>4 DEF TypeOK
<1>2. InCall' /\ OneLoader'  BY SilanDspAssumption DEF TypeOK, InCall, OneLoader, Calls, None
<1>3. NameIsImage'  BY SilanDspAssumption DEF TypeOK, NameIsImage, OneLoader
<1>4. FailedNotQueued'  BY DEF TypeOK, FailedNotQueued, Inside
<1>5. QED  BY <1>1, <1>2, <1>3, <1>4

(* The other work item, the interrupt handler and the DSP. *)
LEMMA WorkInv ==
    ASSUME IInv, WakesDead \/ mbox_tx_work \/ silan_dsp_interrupt \/ DspTakes \/ DspAnswers \/ DspSilent
    PROVE  IInv'
<1> USE DEF WakesDead, mbox_tx_work, silan_dsp_interrupt, DspTakes, DspAnswers, DspSilent,
            firmware, mbox, device, callers, IInv
<1>1. TypeOK'
  <2>1. CASE WakesDead \/ silan_dsp_interrupt
    <3>1. Flags'  BY <2>1 DEF TypeOK, Flags
    <3>2. Values'  BY <2>1 DEF TypeOK, Values
    <3>3. Maps'  BY <2>1 DEF TypeOK, Maps
    <3>4. QED  BY ONLY <3>1, <3>2, <3>3 DEF TypeOK, Flags, Values, Maps
  <2>2. CASE mbox_tx_work
    <3>1. tx_work' \in BOOLEAN  BY <2>2
    <3>2. mailbox' \in Calls \cup {None}  BY <2>2 DEF TypeOK
    <3>3. QED  BY <2>2, <3>1, <3>2 DEF TypeOK
  <2>3. CASE DspTakes \/ DspSilent  BY <2>3 DEF TypeOK
  <2>4. CASE DspAnswers  BY <2>4 DEF TypeOK
  <2>5. QED  BY <2>1, <2>2, <2>3, <2>4
<1>2. InCall' /\ OneLoader'  BY SilanDspAssumption DEF TypeOK, InCall, OneLoader, Calls, None
<1>3. NameIsImage'  BY SilanDspAssumption DEF TypeOK, NameIsImage, OneLoader
<1>4. FailedNotQueued'  BY DEF TypeOK, FailedNotQueued, Inside
<1>5. QED  BY <1>1, <1>2, <1>3, <1>4

(* Every step keeps the invariant. *)
LEMMA NextInv == IInv /\ [Next]_vars => IInv'
<1> SUFFICES ASSUME IInv, [Next]_vars PROVE IInv'  OBVIOUS
<1>1. CASE silan_dsp_open \/ silan_dsp_close  BY <1>1, OpenInv
<1>2. ASSUME NEW t \in Threads, Thread(t) PROVE IInv'
  BY <1>2, SendInv, ReturnInv, TimeoutInv, ReloadInv, LoadFailsInv, IoctlInv, WriteInv DEF Thread
<1>3. CASE System  BY <1>3, WakeInv, WorkInv DEF System
<1>4. CASE UNCHANGED vars
  BY <1>4 DEF vars, firmware, mbox, device, callers, IInv, TypeOK, InCall, OneLoader, NameIsImage,
              FailedNotQueued, Inside
<1>5. QED  BY <1>1, <1>2, <1>3, <1>4 DEF Next

(* Threads, work items, the interrupt handler and the DSP keep the driver's  *)
(* state in its types, whatever goes wrong.                                  *)
THEOREM TypesHold == Spec => []TypeOK
<1>1. IInv => TypeOK  BY DEF IInv
<1>2. QED  BY InitInv, NextInv, <1>1, PTL DEF Spec

(* Any number of threads: one at a time loads firmware, a noted name is the  *)
(* name of the image the DSP has or is being given unless a load has failed, *)
(* and a call that timed out is not on the wait queue when it returns.       *)
THEOREM ThreadsKeepApart == Spec => [](OneLoader /\ NameIsImage /\ FailedNotQueued)
<1>1. IInv => OneLoader /\ NameIsImage /\ FailedNotQueued  BY DEF IInv
<1>2. QED  BY InitInv, NextInv, <1>1, PTL DEF Spec

-----------------------------------------------------------------------------
(* One thread, no signal and no timeout.                                     *)

\* The assumptions of this part.
OneCaller == \E t \in Threads : Threads = {t} /\ "signal" \notin Env /\ "timeout" \notin Env

AInv == Alone /\ ServedBeforeSuccess

(* Initially no command is on its way. *)
LEMMA InitAlone == Init => AInv
  BY DEF Init, AInv, Alone, OnItsWay, ServedBeforeSuccess

(* A call, and what a thread does with the firmware. *)
LEMMA ThreadAlone ==
    ASSUME OneCaller, IInv, AInv, NEW t \in Threads, Thread(t) PROVE AInv'
<1> USE DEF AInv, Alone, OnItsWay, ServedBeforeSuccess, IInv, TypeOK, InCall,
            firmware, mbox, device, callers, None
<1>0. Threads = {t} /\ "signal" \notin Env /\ "timeout" \notin Env  BY DEF OneCaller
<1>1. CASE dsp_send_cmd(t)  BY <1>0, <1>1 DEF dsp_send_cmd
<1>2. CASE SendReturns(t)  BY <1>0, <1>2 DEF SendReturns
<1>3. CASE silan_dsp_reload(t)  BY <1>0, <1>3 DEF silan_dsp_reload
<1>4. CASE LoadFails(t)  BY <1>0, <1>4 DEF LoadFails
<1>5. CASE IoctlReload(t)  BY <1>0, <1>5 DEF IoctlReload
<1>6. ASSUME NEW n \in Names, silan_dsp_write(t, n) PROVE AInv'
  BY <1>0, <1>6 DEF silan_dsp_write, BeginLoad
<1>7. ~SendSignalled(t) /\ ~SendTimesOut(t)  BY <1>0 DEF SendSignalled, SendTimesOut
<1>8. QED  BY <1>1, <1>2, <1>3, <1>4, <1>5, <1>6, <1>7 DEF Thread

(* The work items, the interrupt handler and the DSP pass the command on. *)
LEMMA SystemAlone == ASSUME OneCaller, IInv, AInv, System PROVE AInv'
<1> USE DEF AInv, Alone, OnItsWay, ServedBeforeSuccess, IInv, TypeOK, InCall,
            firmware, mbox, device, callers, None
<1>0. PICK t \in Threads : Threads = {t}  BY DEF OneCaller
<1>1. CASE mbox_tx_work
  <2>1. Inside(msg)  BY <1>1 DEF mbox_tx_work, Inside
  <2>2. QED  BY <1>0, <1>1, <2>1 DEF mbox_tx_work
<1>2. CASE mbox_rx_work  BY <1>0, <1>2 DEF mbox_rx_work
<1>3. CASE WakesDead  BY <1>0, <1>3 DEF WakesDead
<1>4. CASE silan_dsp_interrupt  BY <1>0, <1>4 DEF silan_dsp_interrupt
<1>5. CASE DspTakes  BY <1>0, <1>5 DEF DspTakes
<1>6. CASE DspAnswers  BY <1>0, <1>6 DEF DspAnswers
<1>7. CASE DspSilent  BY <1>0, <1>7 DEF DspSilent
<1>8. QED  BY <1>1, <1>2, <1>3, <1>4, <1>5, <1>6, <1>7 DEF System

(* Every step of one thread and the system keeps the command on its way. *)
LEMMA NextAlone == ASSUME OneCaller, IInv, AInv, [Next]_vars PROVE AInv'
<1> USE DEF AInv, Alone, OnItsWay, ServedBeforeSuccess, firmware, mbox, device, callers
<1>1. CASE silan_dsp_open \/ silan_dsp_close  BY <1>1 DEF silan_dsp_open, silan_dsp_close
<1>2. CASE UNCHANGED vars  BY <1>2 DEF vars
<1>3. QED  BY <1>1, <1>2, ThreadAlone, SystemAlone DEF Next

(* One thread whose calls are neither interrupted nor timed out gets success *)
(* only for a command the DSP has carried out: no reply to an earlier        *)
(* command is left over in the interrupt or in a work item.  A DSP that is   *)
(* silent or keeps the mailbox mutex, and loads that fail, do not change it. *)
THEOREM OneThreadServed ==
    ASSUME NEW thread, Threads = {thread}, "signal" \notin Env, "timeout" \notin Env
    PROVE  Spec => []ServedBeforeSuccess
<1>1. OneCaller  BY DEF OneCaller
<1>2. IInv /\ AInv /\ [Next]_vars => AInv'  BY <1>1, NextAlone
<1>3. AInv => ServedBeforeSuccess  BY DEF AInv
<1>4. QED  BY InitInv, NextInv, InitAlone, <1>2, <1>3, PTL DEF Spec

-----------------------------------------------------------------------------
(* No wake-up is lost: what Answered rests on.  One thread, as above, and a  *)
(* DSP that neither keeps the mailbox mutex nor leaves a command unanswered. *)

\* The assumptions of this part.
Cooperative == OneCaller /\ "mutex_busy" \notin Env /\ "silent" \notin Env

\* While thread t waits its command, or the reply, is somewhere on the way, and
\* the wait queue holds exactly the entry the reply will wake.
NotForgotten ==
    /\ ~crashed
    /\ \A t \in Threads :
          /\ pc[t] = "wait" => tx_work \/ mailbox # None \/ dsp # None \/ hostint \/ rx_work
          /\ cfg_wait_q = IF pc[t] = "wait" THEN {call[t]} ELSE {}

\* How many steps of the work items, the interrupt handler, the DSP and the
\* thread are left until the call of thread t returns.
StepsLeft(t) ==
    CASE pc[t] = "woken" -> 1
      [] pc[t] = "wait"  -> IF tx_work THEN 6 ELSE IF mailbox # None THEN 5 ELSE
                            IF dsp # None THEN 4 ELSE IF hostint THEN 3 ELSE 2
      [] OTHER           -> 0

\* While thread t is inside dsp_send_cmd every step brings its return nearer, or
\* changes nothing of the call, the mailbox, the DSP and the wait queue.
BringsReturn(t) ==
    pc[t] \in {"wait", "woken"} =>
        StepsLeft(t)' = StepsLeft(t) - 1 \/ UNCHANGED <<mbox, device, callers>>

(* Initially nobody waits. *)
LEMMA InitNotForgotten == Init => NotForgotten
  BY DEF Init, NotForgotten

(* A thread joins the wait queue when it sends its command, and nothing else  *)
(* it does is done while it waits.                                           *)
LEMMA ThreadMoves ==
    ASSUME Cooperative, IInv, AInv, NotForgotten, NEW t \in Threads, Thread(t)
    PROVE  NotForgotten' /\ BringsReturn(t)
<1> USE DEF NotForgotten, BringsReturn, StepsLeft, AInv, Alone, OnItsWay, IInv, TypeOK, InCall,
            firmware, mbox, device, callers, None
<1>0. Threads = {t} /\ "signal" \notin Env /\ "timeout" \notin Env  BY DEF Cooperative, OneCaller
<1>1. CASE dsp_send_cmd(t)  BY <1>0, <1>1 DEF dsp_send_cmd
<1>2. CASE SendReturns(t)  BY <1>0, <1>2 DEF SendReturns
<1>3. CASE silan_dsp_reload(t)  BY <1>0, <1>3 DEF silan_dsp_reload
<1>4. CASE LoadFails(t)  BY <1>0, <1>4 DEF LoadFails
<1>5. CASE IoctlReload(t)  BY <1>0, <1>5 DEF IoctlReload
<1>6. ASSUME NEW n \in Names, silan_dsp_write(t, n) PROVE NotForgotten' /\ BringsReturn(t)
  BY <1>0, <1>6 DEF silan_dsp_write, BeginLoad
<1>7. ~SendSignalled(t) /\ ~SendTimesOut(t)  BY <1>0 DEF SendSignalled, SendTimesOut
<1>8. QED  BY <1>1, <1>2, <1>3, <1>4, <1>5, <1>6, <1>7 DEF Thread

(* The work items, the interrupt handler and the DSP each pass the command or *)
(* its reply on to the next, and the reply finds the thread on the queue.    *)
LEMMA SystemMoves ==
    ASSUME Cooperative, IInv, AInv, NotForgotten, System, NEW t \in Threads
    PROVE  NotForgotten' /\ BringsReturn(t)
<1> USE DEF NotForgotten, AInv, Alone, OnItsWay, IInv, TypeOK, InCall,
            firmware, mbox, device, callers, None
<1>0. Threads = {t} /\ "mutex_busy" \notin Env /\ "silent" \notin Env
  BY DEF Cooperative, OneCaller
<1>1. CASE mbox_tx_work
  <2>0. pc[t] = "wait" /\ call[t] # None /\ msg = call[t]  BY <1>0, <1>1 DEF mbox_tx_work
  <2>a. Inside(msg)  BY <2>0 DEF Inside
  <2>1. mailbox' = call[t] /\ pc[t] = "wait" /\ call[t] # None
    BY <1>0, <1>1, <2>0, <2>a DEF mbox_tx_work
  <2>2. QED  BY <1>0, <1>1, <2>1 DEF mbox_tx_work, BringsReturn, StepsLeft
<1>2. CASE mbox_rx_work
  <2>1. pc[t] = "wait" /\ cfg_wait_q = {call[t]} /\ Inside(call[t])
    BY <1>0, <1>2 DEF mbox_rx_work, Inside
  <2>2. pc'[t] = "woken" /\ cfg_wait_q' = {}  BY <1>0, <1>2, <2>1 DEF mbox_rx_work
  <2>3. QED  BY <1>0, <1>2, <2>1, <2>2 DEF mbox_rx_work, BringsReturn, StepsLeft
<1>3. ~WakesDead
  <2>1. \A c \in cfg_wait_q : Inside(c)  BY <1>0 DEF Inside
  <2>2. QED  BY <2>1 DEF WakesDead
<1>4. CASE silan_dsp_interrupt
  <2>1. pc[t] = "wait" /\ ~tx_work /\ mailbox = None /\ dsp = None  BY <1>4 DEF silan_dsp_interrupt
  <2>2. /\ pc' = pc /\ ~tx_work' /\ mailbox' = None /\ dsp' = None /\ ~hostint' /\ rx_work'
        /\ UNCHANGED <<cfg_wait_q, call, crashed>>
    BY <1>4, <2>1 DEF silan_dsp_interrupt
  <2>3. StepsLeft(t) = 3 /\ StepsLeft(t)' = 2  BY <1>4, <2>1, <2>2 DEF silan_dsp_interrupt, StepsLeft
  <2>4. NotForgotten'  BY <1>0, <2>2
  <2>5. BringsReturn(t)  BY ONLY <2>3 DEF BringsReturn
  <2>6. QED  BY <2>4, <2>5
<1>5. CASE DspTakes  BY <1>0, <1>5 DEF DspTakes, BringsReturn, StepsLeft
<1>6. CASE DspAnswers
  <2>1. pc[t] = "wait" /\ ~tx_work /\ mailbox = None /\ dsp # None  BY <1>6 DEF DspAnswers
  <2>2. /\ pc' = pc /\ ~tx_work' /\ mailbox' = None /\ dsp' = None /\ hostint'
        /\ UNCHANGED <<cfg_wait_q, call, crashed>>
    BY <1>6, <2>1 DEF DspAnswers
  <2>3. StepsLeft(t) = 4 /\ StepsLeft(t)' = 3  BY <2>1, <2>2 DEF StepsLeft
  <2>4. NotForgotten'  BY <1>0, <2>2
  <2>5. BringsReturn(t)  BY ONLY <2>3 DEF BringsReturn
  <2>6. QED  BY <2>4, <2>5
<1>7. ~DspSilent  BY <1>0 DEF DspSilent
<1>8. QED  BY <1>1, <1>2, <1>3, <1>4, <1>5, <1>6, <1>7 DEF System

(* Every step. *)
LEMMA NextMoves ==
    ASSUME Cooperative, IInv, AInv, NotForgotten, [Next]_vars
    PROVE  NotForgotten' /\ \A t \in Threads : BringsReturn(t)
<1> USE DEF NotForgotten, BringsReturn, firmware, mbox, device, callers
<1>0. PICK t \in Threads : Threads = {t}  BY DEF Cooperative, OneCaller
<1>1. CASE silan_dsp_open \/ silan_dsp_close  BY <1>1 DEF silan_dsp_open, silan_dsp_close
<1>2. CASE UNCHANGED vars  BY <1>2 DEF vars
<1>3. CASE Thread(t)  BY <1>0, <1>3, ThreadMoves
<1>4. CASE System  BY <1>0, <1>4, SystemMoves
<1>5. QED  BY <1>0, <1>1, <1>2, <1>3, <1>4 DEF Next

(* With one thread, neither signals nor timeouts, and a DSP that takes and   *)
(* answers every command, no wake-up is lost and no dead entry is woken: a   *)
(* waiting thread is on the wait queue and its command or the reply is on    *)
(* the way, and every step from dsp_send_cmd over mbox_tx_work, the DSP,     *)
(* silan_dsp_interrupt and mbox_rx_work back to the thread brings its return *)
(* nearer by one of at most six.  Failing loads do not change that.          *)
THEOREM NoWakeUpIsLost ==
    ASSUME NEW thread, Threads = {thread}, "signal" \notin Env, "timeout" \notin Env,
           "mutex_busy" \notin Env, "silent" \notin Env
    PROVE  Spec => []NotForgotten /\ [][\A t \in Threads : BringsReturn(t)]_vars
<1>1. OneCaller /\ Cooperative  BY DEF OneCaller, Cooperative
<1>2. IInv /\ AInv /\ [Next]_vars => AInv'  BY <1>1, NextAlone
<1>3. IInv /\ AInv /\ NotForgotten /\ [Next]_vars =>
          NotForgotten' /\ [\A t \in Threads : BringsReturn(t)]_vars
  BY <1>1, NextMoves
<1>4. QED  BY InitInv, NextInv, InitAlone, InitNotForgotten, <1>2, <1>3, PTL DEF Spec
=============================================================================
