------------------------------ MODULE SilanDsp ------------------------------
(***************************************************************************)
(* The DSP driver, drivers/char/dsp_new: threads of one application share  *)
(* the open device file; write() names a firmware image and loads it,      *)
(* ioctl() sends a command to the DSP through a mailbox and sleeps until   *)
(* any reply wakes it.  Two work items and an interrupt handler run beside *)
(* the threads.                                                            *)
(*                                                                         *)
(* The build is uniprocessor and not preemptible: a thread loses the CPU   *)
(* only where it sleeps, in request_firmware and in schedule_timeout.  The *)
(* DSP and its firmware are external.  A command is known by the number of *)
(* the call that sends it; its buffer and its wait-queue entry live on the *)
(* caller's stack until the call returns.                                  *)
(***************************************************************************)
EXTENDS Naturals, FiniteSets

CONSTANTS
    Threads,    \* threads of the application
    Names,      \* firmware names it writes
    MaxCalls,   \* bound: commands sent
    Env         \* what may go wrong, a subset of AnyEnv

\* timeout: a command waits for DSP_MSG_TIMEOUT; signal: a signal reaches a
\* sleeping thread; mutex_busy: the DSP holds the mailbox mutex; silent: the
\* firmware does not answer; load_fails: request_firmware fails.
AnyEnv == {"timeout", "signal", "mutex_busy", "silent", "load_fails"}

NoName == "none"
None == 0
Calls == 1..MaxCalls

ASSUME SilanDspAssumption ==
    MaxCalls \in Nat /\ None \notin Threads /\ NoName \notin Names /\ Env \subseteq AnyEnv

VARIABLES
    open, init,       \* dsp_info->open, dsp_info->init
    firmware_name,    \* dsp_info->firmware_name
    image,            \* what area 0 holds
    loader,           \* the thread whose "dspfirmware" device is registered
    wanted,           \* the name it asked request_firmware for
    pc,               \* where a thread is: "user", "load", "wait", "woken"
    call,             \* the call a thread is in, or made last
    calls,            \* number of calls so far
    cfg_wait_q,       \* calls whose wait-queue entry is queued
    msg,              \* mbox_info->msg.mcmd: the call whose buffer it points to
    tx_work, rx_work, \* queued work items
    mailbox,          \* the command in the mailbox, with the interrupt to the DSP set
    dsp,              \* the command the firmware is working on
    hostint,          \* the interrupt to the host is raised
    served,           \* history: commands the firmware has carried out
    ok,               \* history: calls that returned DSP_ERROR_NONE
    failed,           \* history: a load has failed
    crashed           \* a wake-up followed an entry on a dead stack frame

firmware == <<open, init, firmware_name, image, loader, wanted, failed>>
mbox == <<cfg_wait_q, msg, tx_work, rx_work, crashed>>
device == <<mailbox, dsp, hostint, served>>
callers == <<pc, call, calls, ok>>
vars == <<firmware, mbox, device, callers>>

Init ==
    /\ open = FALSE /\ init = FALSE
    /\ firmware_name = NoName /\ image = NoName
    /\ loader = None /\ wanted = NoName
    /\ pc = [t \in Threads |-> "user"] /\ call = [t \in Threads |-> None] /\ calls = 0
    /\ cfg_wait_q = {} /\ msg = None /\ tx_work = FALSE /\ rx_work = FALSE
    /\ mailbox = None /\ dsp = None /\ hostint = FALSE
    /\ served = {} /\ ok = {} /\ failed = FALSE
    /\ crashed = FALSE

Inside(c) == \E t \in Threads : call[t] = c /\ pc[t] \in {"wait", "woken"}

-----------------------------------------------------------------------------
(* core.c: open, close, write and the firmware.                              *)

silan_dsp_open ==
    /\ ~open
    /\ open' = TRUE
    /\ UNCHANGED <<init, firmware_name, image, loader, wanted, failed, mbox, device, callers>>

\* The last reference goes when no thread is inside a call.
silan_dsp_close ==
    /\ open /\ \A t \in Threads : pc[t] = "user"
    /\ open' = FALSE
    /\ UNCHANGED <<init, firmware_name, image, loader, wanted, failed, mbox, device, callers>>

\* mutant of BeginLoad: the device is registered whoever else has one.
LoadBeside(t, name) ==
    /\ loader' = t /\ wanted' = name
    /\ pc' = [pc EXCEPT ![t] = "load"]
    /\ UNCHANGED failed

\* dsp_load_firmware up to its sleep: a second "dspfirmware" device cannot be
\* registered while one is, and the write returns 0.
BeginLoad(t, name) ==
    \/ /\ loader = None
       /\ loader' = t /\ wanted' = name
       /\ pc' = [pc EXCEPT ![t] = "load"]
       /\ UNCHANGED failed
    \/ /\ loader # None
       /\ failed' = TRUE
       /\ UNCHANGED <<loader, wanted, pc>>

\* mutant of silan_dsp_write: a new name is noted, but an initialised DSP is not
\* reloaded.
WriteOnlyNotes(t, name) ==
    /\ open /\ pc[t] = "user"
    /\ firmware_name' = name
    /\ IF init THEN UNCHANGED <<loader, wanted, pc, failed>> ELSE BeginLoad(t, name)
    /\ UNCHANGED <<open, init, image, call, calls, ok, mbox, device>>

\* A new name, or a DSP that was never started, makes it load.
silan_dsp_write(t, name) ==
    /\ open /\ pc[t] = "user"
    /\ firmware_name' = name
    /\ IF firmware_name # name \/ ~init
       THEN BeginLoad(t, name)
       ELSE UNCHANGED <<loader, wanted, pc, failed>>
    /\ UNCHANGED <<open, init, image, call, calls, ok, mbox, device>>

\* request_firmware returns: the image is copied and the DSP reset and started.
silan_dsp_reload(t) ==
    /\ pc[t] = "load"
    /\ image' = wanted /\ init' = TRUE
    /\ loader' = None /\ wanted' = NoName
    /\ pc' = [pc EXCEPT ![t] = "user"]
    /\ mailbox' = None /\ dsp' = None /\ hostint' = FALSE
    /\ UNCHANGED <<open, firmware_name, failed, served, mbox, call, calls, ok>>

\* request_firmware fails; the name stays noted.
LoadFails(t) ==
    /\ pc[t] = "load" /\ "load_fails" \in Env
    /\ loader' = None /\ wanted' = NoName /\ failed' = TRUE
    /\ pc' = [pc EXCEPT ![t] = "user"]
    /\ UNCHANGED <<open, init, firmware_name, image, mbox, device, call, calls, ok>>

\* ioctl DSP_CMD_RELOAD only marks the DSP as started.
IoctlReload(t) ==
    /\ open /\ pc[t] = "user"
    /\ init' = TRUE
    /\ UNCHANGED <<open, firmware_name, image, loader, wanted, failed, mbox, device, callers>>

-----------------------------------------------------------------------------
(* cmd.c: sending a command.                                                 *)

\* mutant of dsp_send_cmd: the command is queued before the thread is a waiter,
\* so it is not on the wait queue when it sleeps.
SendNotQueued(t) ==
    /\ open /\ pc[t] = "user" /\ calls < MaxCalls
    /\ calls' = calls + 1
    /\ call' = [call EXCEPT ![t] = calls + 1]
    /\ pc' = [pc EXCEPT ![t] = "wait"]
    /\ msg' = calls + 1
    /\ tx_work' = TRUE
    /\ UNCHANGED <<rx_work, cfg_wait_q, crashed, ok, firmware, device>>

\* dsp_send_cmd up to its sleep.
dsp_send_cmd(t) ==
    /\ open /\ pc[t] = "user" /\ calls < MaxCalls
    /\ calls' = calls + 1
    /\ call' = [call EXCEPT ![t] = calls + 1]
    /\ pc' = [pc EXCEPT ![t] = "wait"]
    /\ cfg_wait_q' = cfg_wait_q \cup {calls + 1}
    /\ msg' = calls + 1
    /\ tx_work' = TRUE
    /\ UNCHANGED <<rx_work, crashed, ok, firmware, device>>

\* Woken by a reply, with some of the second left: autoremove_wake_function took
\* it off the wait queue.
SendReturns(t) ==
    /\ pc[t] = "woken"
    /\ pc' = [pc EXCEPT ![t] = "user"]
    /\ ok' = ok \cup {call[t]}
    /\ UNCHANGED <<call, calls, firmware, mbox, device>>

\* A signal: schedule_timeout returns the time that is left, which is taken for
\* a reply, and the entry stays on the wait queue.
SendSignalled(t) ==
    /\ pc[t] = "wait" /\ "signal" \in Env
    /\ pc' = [pc EXCEPT ![t] = "user"]
    /\ ok' = ok \cup {call[t]}
    /\ UNCHANGED <<call, calls, firmware, mbox, device>>

\* mutant of SendTimesOut: the entry stays on the wait queue.
TimeoutStaysQueued(t) ==
    /\ pc[t] \in {"wait", "woken"} /\ "timeout" \in Env
    /\ pc' = [pc EXCEPT ![t] = "user"]
    /\ firmware_name' = NoName
    /\ UNCHANGED <<open, init, image, loader, wanted, failed, call, calls, ok, mbox, device>>

\* The second is over when the thread runs, also one that a reply has woken: the
\* ioctl fails, and forgets the firmware name so that the next write loads it
\* again.
SendTimesOut(t) ==
    /\ pc[t] \in {"wait", "woken"} /\ "timeout" \in Env
    /\ pc' = [pc EXCEPT ![t] = "user"]
    /\ cfg_wait_q' = cfg_wait_q \ {call[t]}
    /\ firmware_name' = NoName
    /\ UNCHANGED <<open, init, image, loader, wanted, failed, call, calls, ok,
                   msg, tx_work, rx_work, crashed, device>>

-----------------------------------------------------------------------------
(* cmd.c and cxc.c: the work items and the interrupt handler.                *)

\* mutant of mbox_tx_work: the message slot is taken for a ring and advanced.
TxAdvances ==
    /\ tx_work
    /\ tx_work' = FALSE
    /\ mailbox' = msg /\ msg' = msg + 1
    /\ UNCHANGED <<cfg_wait_q, rx_work, crashed, dsp, hostint, served, firmware, callers>>

\* mbox_tx_work: the command is copied into the mailbox, or dropped when the
\* DSP holds the mutex.  The buffer of a call that has returned holds anything.
mbox_tx_work ==
    /\ tx_work
    /\ tx_work' = FALSE
    /\ \/ mailbox' \in IF Inside(msg) THEN {msg} ELSE Calls
       \/ "mutex_busy" \in Env /\ UNCHANGED mailbox
    /\ UNCHANGED <<cfg_wait_q, msg, rx_work, crashed, dsp, hostint, served, firmware, callers>>

\* mbox_rx_work: a reply, whatever it answers, wakes every waiting thread.  An
\* entry left on a dead frame may still be intact; WakesDead is the other case.
mbox_rx_work ==
    /\ rx_work
    /\ rx_work' = FALSE
    /\ pc' = [t \in Threads |-> IF pc[t] = "wait" /\ call[t] \in cfg_wait_q THEN "woken" ELSE pc[t]]
    /\ cfg_wait_q' = {c \in cfg_wait_q : ~Inside(c)}
    /\ UNCHANGED <<msg, tx_work, crashed, call, calls, ok, firmware, device>>

WakesDead ==
    /\ rx_work /\ \E c \in cfg_wait_q : ~Inside(c)
    /\ crashed' = TRUE
    /\ UNCHANGED <<cfg_wait_q, msg, tx_work, rx_work, callers, firmware, device>>

\* mutant of silan_dsp_interrupt: the interrupt is not cleared.
InterruptStaysRaised ==
    /\ hostint
    /\ rx_work' = TRUE
    /\ UNCHANGED <<cfg_wait_q, msg, tx_work, crashed, device, firmware, callers>>

silan_dsp_interrupt ==
    /\ hostint
    /\ hostint' = FALSE
    /\ rx_work' = TRUE
    /\ UNCHANGED <<cfg_wait_q, msg, tx_work, crashed, mailbox, dsp, served, firmware, callers>>

\* External: a DSP that has been given an image runs.  The firmware takes a
\* command, and later carries it out and answers.
DspTakes ==
    /\ image # NoName /\ mailbox # None /\ dsp = None
    /\ dsp' = mailbox /\ mailbox' = None
    /\ UNCHANGED <<hostint, served, firmware, mbox, callers>>

DspAnswers ==
    /\ dsp # None
    /\ served' = served \cup {dsp}
    /\ hostint' = TRUE
    /\ dsp' = None
    /\ UNCHANGED <<mailbox, firmware, mbox, callers>>

DspSilent ==
    /\ dsp # None /\ "silent" \in Env
    /\ dsp' = None
    /\ UNCHANGED <<mailbox, hostint, served, firmware, mbox, callers>>

-----------------------------------------------------------------------------
Thread(t) ==
    \/ dsp_send_cmd(t) \/ SendReturns(t) \/ SendSignalled(t) \/ SendTimesOut(t)
    \/ silan_dsp_reload(t) \/ LoadFails(t) \/ IoctlReload(t)
    \/ \E n \in Names : silan_dsp_write(t, n)

System ==
    mbox_tx_work \/ mbox_rx_work \/ WakesDead \/ silan_dsp_interrupt \/ DspTakes \/ DspAnswers \/ DspSilent

Next ==
    /\ ~crashed
    /\ silan_dsp_open \/ silan_dsp_close \/ (\E t \in Threads : Thread(t)) \/ System

Spec == Init /\ [][Next]_vars

\* The kernel runs work items and handlers, and a started DSP answers.
Fairness ==
    /\ WF_vars(mbox_tx_work) /\ WF_vars(mbox_rx_work) /\ WF_vars(silan_dsp_interrupt)
    /\ WF_vars(DspTakes) /\ WF_vars(DspAnswers)
    /\ \A t \in Threads : WF_vars(SendReturns(t))
FairSpec == Spec /\ Fairness

-----------------------------------------------------------------------------
TypeOK ==
    /\ open \in BOOLEAN /\ init \in BOOLEAN /\ failed \in BOOLEAN
    /\ crashed \in BOOLEAN
    /\ firmware_name \in Names \cup {NoName} /\ image \in Names \cup {NoName}
    /\ wanted \in Names \cup {NoName} /\ loader \in Threads \cup {None}
    /\ pc \in [Threads -> {"user", "load", "wait", "woken"}]
    /\ call \in [Threads -> Calls \cup {None}] /\ calls \in 0..MaxCalls
    /\ cfg_wait_q \subseteq Calls /\ msg \in Calls \cup {None}
    /\ tx_work \in BOOLEAN /\ rx_work \in BOOLEAN /\ hostint \in BOOLEAN
    /\ mailbox \in Calls \cup {None} /\ dsp \in Calls \cup {None}
    /\ served \subseteq Calls /\ ok \subseteq Calls

(* An ioctl returns success only for a command the DSP has carried out       *)
(* (dsp_send_cmd, mbox_rx_work).                                             *)
ServedBeforeSuccess == ok \subseteq served

(* A call that failed leaves nothing on the wait queue: every entry belongs  *)
(* to a call that has not returned or that reported success, which is how a  *)
(* signal ends one (dsp_send_cmd, remove_wait_queue).                        *)
FailedNotQueued == \A c \in cfg_wait_q : Inside(c) \/ c \in ok

(* As long as no load has failed, a noted firmware name is the name of the   *)
(* image the DSP has, or of the one being loaded (silan_dsp_write,           *)
(* silan_dsp_ioctl, silan_dsp_reload).                                       *)
NameIsImage ==
    ~failed /\ firmware_name # NoName =>
        firmware_name = IF loader = None THEN image ELSE wanted

(* Only one thread at a time loads firmware, so the images of two never mix  *)
(* in area 0 (dsp_load_firmware).                                            *)
OneLoader == \A t \in Threads : pc[t] = "load" => loader = t

(* A thread that sends a command to a started DSP is answered: no wake-up is *)
(* lost between dsp_send_cmd, the work items and the interrupt handler.      *)
Answered == \A t \in Threads : (pc[t] = "wait" /\ image # NoName) ~> pc[t] = "user"
=============================================================================
