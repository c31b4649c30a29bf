---------------------------- MODULE TouchLifecycle ----------------------------
(***************************************************************************)
(* The life of the driver in TouchI2cDxe.c: the entry point, the bring-up  *)
(* attempt it shares with the retry armed, the poll armed, and the         *)
(* ExitBootServices notification, as they interleave under UEFI's task     *)
(* priority levels.                                                        *)
(*                                                                         *)
(* Two frames run driver code.  "app" is the boot thread at                *)
(* TPL_APPLICATION: it runs the entry point and then the boot loader.      *)
(* "cb" is the notification being dispatched at TPL_CALLBACK: a poll or a  *)
(* retry.  "cb" preempts "app" between any two of its steps, and a         *)
(* CALLBACK notification waits for the one that is running.                *)
(* TouchExitBootServices runs at TPL_NOTIFY, so no other code of the       *)
(* driver runs during it and it is one action.                             *)
(*                                                                         *)
(* What a report says (tip, X, Y) is left to TouchPointer, what detection  *)
(* does to the hardware to TouchDetect: here the panel is up or absent and *)
(* the controller is enabled or not.                                       *)
(***************************************************************************)
EXTENDS Naturals

CONSTANTS
  RetryMax,       \* TOUCH_RETRY_MAX: attempts, the one at entry included
  InputLens,      \* the wMaxInputLength values a HID descriptor may carry
  MaxFaults,      \* bound: boot services and bus reads that fail in one boot
  EbsMayPreempt   \* TRUE: ExitBootServices may be signalled at any step, the
                  \* assumption of the comments in TouchRetry and the entry
                  \* point.  FALSE: only by the boot loader at
                  \* TPL_APPLICATION, what the UEFI specification allows.

ASSUME RetryMaxAssumption == RetryMax \in Nat /\ RetryMax >= 2
ASSUME InputLensAssumption == InputLens # {} /\ InputLens \subseteq Nat \ {0}
ASSUME MaxFaultsAssumption == MaxFaults \in Nat
ASSUME EbsMayPreemptAssumption == EbsMayPreempt \in BOOLEAN

VARIABLES
  pc,          \* what each frame does next
  sys,         \* "boot", or "os" once ExitBootServices was signalled
  ev,          \* each event handle: "none", "open" or "closed"
  held,        \* the events whose field of TOUCH_DEV is not NULL
  armed,       \* the timers that are running
  pending,     \* notifications queued at TPL_CALLBACK
  devLive,     \* TOUCH_DEV is allocated
  ready,       \* Dev->Ready
  needReinit,  \* Dev->NeedReinit
  attempt,     \* Dev->AttemptCount
  maxInput,    \* Dev->HidDesc.wMaxInputLength; 0: descriptor zeroed
  bufLen,      \* bytes at Dev->InputBuf; 0: NULL
  layout,      \* Dev->Layout was parsed
  bus,         \* the controller the panel is on: "on" (enabled) or "off"
  panel,       \* "absent" until the panel answers, then "up"
  faults       \* failures the environment may still cause

vars == <<pc, sys, ev, held, armed, pending, devLive, ready, needReinit,
          attempt, maxInput, bufLen, layout, bus, panel, faults>>

Frames == {"app", "cb"}
Events == {"wait", "poll", "ebs", "retry"}
Timers == {"poll", "retry"}

BringUp == {"begin", "detect", "report", "allocBuf", "ready", "arm"}
AppLabels == BringUp \cup
  {"allocDev", "createWait", "createPoll", "createEbs", "install",
   "createRetry", "armRetry", "clearRetry", "closeRetry",
   "inertRetry", "inertPoll", "inertWait", "inertEbs", "inertFree", "loader"}
CbLabels == BringUp \cup
  {"idle", "poll", "reinit", "read", "cancel", "clear", "close"}

(* The type invariant, in three parts. *)
FlagsOK ==
  /\ devLive \in BOOLEAN /\ ready \in BOOLEAN
  /\ needReinit \in BOOLEAN /\ layout \in BOOLEAN

TimersOK == held \subseteq Events /\ armed \subseteq Timers /\ pending \subseteq Timers

TypeOK ==
  /\ FlagsOK /\ TimersOK
  /\ pc \in [Frames -> AppLabels \cup CbLabels]
  /\ pc["app"] \in AppLabels /\ pc["cb"] \in CbLabels
  /\ sys \in {"boot", "os"}
  /\ ev \in [Events -> {"none", "open", "closed"}]
  /\ attempt \in Nat
  /\ maxInput \in InputLens \cup {0} /\ bufLen \in InputLens \cup {0}
  /\ bus \in {"off", "on"} /\ panel \in {"absent", "up"}
  /\ faults \in 0..MaxFaults

Init ==
  /\ pc = [f \in Frames |-> IF f = "app" THEN "allocDev" ELSE "idle"]
  /\ sys = "boot"
  /\ ev = [e \in Events |-> "none"]
  /\ held = {} /\ armed = {} /\ pending = {}
  /\ devLive = FALSE /\ ready = FALSE /\ needReinit = FALSE
  /\ attempt = 0 /\ maxInput = 0 /\ bufLen = 0 /\ layout = FALSE
  /\ bus = "off" /\ panel \in {"absent", "up"} /\ faults = MaxFaults

-----------------------------------------------------------------------------
(* Frames, faults and the boot services the driver uses. *)

(* A frame runs when nothing of a higher priority does or is queued. *)
Runs(f) == f = "app" => pc["cb"] = "idle" /\ pending = {}
At(f, l) == Runs(f) /\ pc[f] = l
Go(f, l) == pc' = [pc EXCEPT ![f] = l]

Fault == faults > 0 /\ faults' = faults - 1
NoFault == UNCHANGED faults

Arm(t) == armed' = armed \cup {t}
Cancel(t) == armed' = armed \ {t}

(* Closing an event cancels its timer and takes it off the notify queue. *)
CloseEvent(e) ==
  /\ ev' = [ev EXCEPT ![e] = "closed"]
  /\ armed' = armed \ {e}
  /\ pending' = pending \ {e}

devFields == <<ready, needReinit, attempt, maxInput, bufLen, layout>>
services == <<ev, held, armed, pending, devLive>>

-----------------------------------------------------------------------------
(* The entry point up to the first attempt, and its Inert exit. *)

EntryAllocDev ==
  /\ At("app", "allocDev")
  /\ \/ devLive' = TRUE /\ Go("app", "createWait") /\ NoFault
     \/ devLive' = FALSE /\ Go("app", "loader") /\ Fault
  /\ UNCHANGED <<sys, ev, held, armed, pending, devFields, bus, panel>>

EntryCreate(e, here, next) ==
  /\ At("app", here)
  /\ \/ /\ ev' = [ev EXCEPT ![e] = "open"]
        /\ held' = held \cup {e}
        /\ Go("app", next) /\ NoFault
     \/ Go("app", "inertRetry") /\ Fault /\ UNCHANGED <<ev, held>>
  /\ UNCHANGED <<sys, armed, pending, devLive, devFields, bus, panel>>

EntryInstall ==
  /\ At("app", "install")
  /\ \/ Go("app", "begin") /\ NoFault
     \/ Go("app", "inertRetry") /\ Fault
  /\ UNCHANGED <<sys, services, devFields, bus, panel>>

(* Mutant: the Inert exit forgets WaitForInput. *)
InertCloseForgetsWait(e, here, next) ==
  /\ At("app", here)
  /\ Go("app", next)
  /\ IF e \in held \ {"wait"} THEN CloseEvent(e) ELSE UNCHANGED <<ev, armed, pending>>
  /\ UNCHANGED <<sys, held, devLive, devFields, bus, panel, faults>>

(* Inert closes what was created but leaves the fields of Dev set. *)
InertClose(e, here, next) ==
  /\ At("app", here)
  /\ Go("app", next)
  /\ IF e \in held THEN CloseEvent(e) ELSE UNCHANGED <<ev, armed, pending>>
  /\ UNCHANGED <<sys, held, devLive, devFields, bus, panel, faults>>

InertFree ==
  /\ At("app", "inertFree")
  /\ devLive' = FALSE /\ bufLen' = 0
  /\ Go("app", "loader")
  /\ UNCHANGED <<sys, ev, held, armed, pending, ready, needReinit, attempt,
                 maxInput, layout, bus, panel, faults>>

-----------------------------------------------------------------------------
(* One bring-up attempt, TouchTryBringUp, run by the entry point or by the *)
(* retry notification.                                                     *)

(* Mutant: gives up one attempt early. *)
FailedEarly(f) ==
  Go(f, IF f = "app" THEN "createRetry"
        ELSE IF attempt + 1 < RetryMax THEN "idle" ELSE "cancel")

(* Where the caller goes on when the attempt returns an error ... *)
Failed(f) ==
  Go(f, IF f = "app" THEN "createRetry"
        ELSE IF attempt < RetryMax THEN "idle" ELSE "cancel")
(* ... and when it succeeds. *)
Succeeded(f) == Go(f, IF f = "app" THEN "loader" ELSE "cancel")

BringUpBegin(f) ==
  /\ At(f, "begin")
  /\ attempt' = attempt + 1
  /\ maxInput' = 0 /\ layout' = FALSE /\ needReinit' = FALSE
  /\ Go(f, "detect")
  /\ UNCHANGED <<sys, services, ready, bufLen, bus, panel, faults>>

(* Mutant: a descriptor length outside the accepted ones gets through. *)
BringUpDetectUnchecked(f) ==
  /\ At(f, "detect")
  /\ \/ /\ panel = "up" /\ NoFault
        /\ bus' = "on" /\ maxInput' \in {n + 1 : n \in InputLens}
        /\ Go(f, "report")
     \/ /\ (panel = "absent" /\ NoFault) \/ Fault
        /\ bus' = "off" /\ maxInput' = maxInput
        /\ Failed(f)
  /\ UNCHANGED <<sys, services, ready, needReinit, attempt, bufLen, layout,
                 panel>>

BringUpDetect(f) ==
  /\ At(f, "detect")
  /\ \/ /\ panel = "up" /\ NoFault
        /\ bus' = "on" /\ maxInput' \in InputLens
        /\ Go(f, "report")
     \/ /\ (panel = "absent" /\ NoFault) \/ Fault
        /\ bus' = "off" /\ maxInput' = maxInput
        /\ Failed(f)
  /\ UNCHANGED <<sys, services, ready, needReinit, attempt, bufLen, layout,
                 panel>>

(* Allocate, read and parse the report descriptor. *)
BringUpReport(f) ==
  /\ At(f, "report")
  /\ \/ layout' = TRUE /\ Go(f, "allocBuf") /\ NoFault
     \/ layout' = layout /\ Failed(f) /\ Fault
  /\ UNCHANGED <<sys, services, ready, needReinit, attempt, maxInput, bufLen,
                 bus, panel>>

(* Mutant: keeps the buffer an earlier attempt allocated. *)
BringUpAllocBufOnce(f) ==
  /\ At(f, "allocBuf")
  /\ \/ bufLen' = (IF bufLen # 0 THEN bufLen ELSE maxInput) /\ Go(f, "ready") /\ NoFault
     \/ bufLen' = 0 /\ Failed(f) /\ Fault
  /\ UNCHANGED <<sys, services, ready, needReinit, attempt, maxInput, layout,
                 bus, panel>>

BringUpAllocBuf(f) ==
  /\ At(f, "allocBuf")
  /\ \/ bufLen' = maxInput /\ Go(f, "ready") /\ NoFault
     \/ bufLen' = 0 /\ Failed(f) /\ Fault
  /\ UNCHANGED <<sys, services, ready, needReinit, attempt, maxInput, layout,
                 bus, panel>>

(* SET_POWER, RESET and the acknowledge are best effort; then Ready. *)
BringUpReady(f) ==
  /\ At(f, "ready")
  /\ ready' = TRUE
  /\ Go(f, "arm")
  /\ UNCHANGED <<sys, services, needReinit, attempt, maxInput, bufLen, layout,
                 bus, panel, faults>>

(* Mutant: Ready stays TRUE when the poll timer cannot be armed. *)
BringUpArmStaysReady(f) ==
  /\ At(f, "arm")
  /\ \/ Arm("poll") /\ Succeeded(f) /\ NoFault
     \/ UNCHANGED armed /\ Failed(f) /\ Fault
  /\ UNCHANGED <<sys, ev, held, pending, devLive, devFields, bus, panel>>

BringUpArm(f) ==
  /\ At(f, "arm")
  /\ \/ Arm("poll") /\ ready' = ready /\ Succeeded(f) /\ NoFault
     \/ UNCHANGED armed /\ ready' = FALSE /\ Failed(f) /\ Fault
  /\ UNCHANGED <<sys, ev, held, pending, devLive, needReinit, attempt,
                 maxInput, bufLen, layout, bus, panel>>

-----------------------------------------------------------------------------
(* The entry point after a failed first attempt. *)

EntryCreateRetry ==
  /\ At("app", "createRetry")
  /\ \/ /\ ev' = [ev EXCEPT !["retry"] = "open"]
        /\ held' = held \cup {"retry"}
        /\ Go("app", "armRetry") /\ NoFault
     \/ Go("app", "loader") /\ Fault /\ UNCHANGED <<ev, held>>
  /\ UNCHANGED <<sys, armed, pending, devLive, devFields, bus, panel>>

EntryArmRetry ==
  /\ At("app", "armRetry")
  /\ \/ Arm("retry") /\ Go("app", "loader") /\ NoFault
     \/ UNCHANGED armed /\ Go("app", "clearRetry") /\ Fault
  /\ UNCHANGED <<sys, ev, held, pending, devLive, devFields, bus, panel>>

(* Mutant: RetryEvent is closed but not cleared. *)
EntryClearRetryForgets ==
  /\ At("app", "clearRetry")
  /\ Go("app", "closeRetry")
  /\ UNCHANGED <<sys, services, devFields, bus, panel, faults>>

EntryClearRetry ==
  /\ At("app", "clearRetry")
  /\ held' = held \ {"retry"}
  /\ Go("app", "closeRetry")
  /\ UNCHANGED <<sys, ev, armed, pending, devLive, devFields, bus, panel,
                 faults>>

EntryCloseRetry ==
  /\ At("app", "closeRetry")
  /\ CloseEvent("retry")
  /\ Go("app", "loader")
  /\ UNCHANGED <<sys, held, devLive, devFields, bus, panel, faults>>

-----------------------------------------------------------------------------
(* TouchRetry once the loop is over: cancel, clear the held, close. *)

RetryCancel ==
  /\ At("cb", "cancel")
  /\ Cancel("retry")
  /\ Go("cb", "clear")
  /\ UNCHANGED <<sys, ev, held, pending, devLive, devFields, bus, panel,
                 faults>>

(* Mutant: closes RetryEvent while the field still holds it. *)
RetryClearCloses ==
  /\ At("cb", "clear")
  /\ CloseEvent("retry")
  /\ Go("cb", "close")
  /\ UNCHANGED <<sys, held, devLive, devFields, bus, panel, faults>>

RetryClear ==
  /\ At("cb", "clear")
  /\ held' = held \ {"retry"}
  /\ Go("cb", "close")
  /\ UNCHANGED <<sys, ev, armed, pending, devLive, devFields, bus, panel,
                 faults>>

(* Mutant: the event is left open, with what is queued for it. *)
RetryCloseForgets ==
  /\ At("cb", "close")
  /\ Go("cb", "idle")
  /\ UNCHANGED <<sys, services, devFields, bus, panel, faults>>

RetryClose ==
  /\ At("cb", "close")
  /\ CloseEvent("retry")
  /\ Go("cb", "idle")
  /\ UNCHANGED <<sys, held, devLive, devFields, bus, panel, faults>>

-----------------------------------------------------------------------------
(* TouchPoll: the Ready test, the re-initialisation asked for by the last  *)
(* error or by Reset, and the read.                                        *)

PollStart ==
  /\ At("cb", "poll")
  /\ Go("cb", IF ~ready THEN "idle" ELSE IF needReinit THEN "reinit" ELSE "read")
  /\ UNCHANGED <<sys, services, devFields, bus, panel, faults>>

PollReinit ==
  /\ At("cb", "reinit")
  /\ \/ bus' = "on" /\ needReinit' = FALSE /\ Go("cb", "read")
     \/ UNCHANGED <<bus, needReinit>> /\ Go("cb", "idle")
  /\ UNCHANGED <<sys, services, ready, attempt, maxInput, bufLen, layout,
                 panel, faults>>

(* A report or a NAK leaves NeedReinit alone, any other error sets it. *)
PollRead ==
  /\ At("cb", "read")
  /\ needReinit' \in {needReinit, TRUE}
  /\ Go("cb", "idle")
  /\ UNCHANGED <<sys, services, ready, attempt, maxInput, bufLen, layout,
                 bus, panel, faults>>

-----------------------------------------------------------------------------
(* The boot manager, the firmware and the panel. *)

(* Reset(ExtendedVerification = TRUE) by the boot manager. *)
TouchReset ==
  /\ At("app", "loader") /\ sys = "boot"
  /\ devLive /\ ready /\ needReinit' = TRUE
  /\ UNCHANGED <<pc, sys, services, ready, attempt, maxInput, bufLen, layout,
                 bus, panel, faults>>

(* A timer period ends: queue the notification unless it already is. *)
Tick(t) ==
  /\ sys = "boot" /\ t \in armed \ pending
  /\ pending' = pending \cup {t}
  /\ UNCHANGED <<pc, sys, ev, held, armed, devLive, devFields, bus, panel,
                 faults>>

Dispatch(t) ==
  /\ t \in pending /\ pc["cb"] = "idle"
  /\ pending' = pending \ {t}
  /\ Go("cb", IF t = "poll" THEN "poll" ELSE "begin")
  /\ UNCHANGED <<sys, ev, held, armed, devLive, devFields, bus, panel,
                 faults>>

PanelComesUp ==
  /\ panel = "absent" /\ panel' = "up"
  /\ UNCHANGED <<pc, sys, services, devFields, bus, faults>>

(* Mutant: only the retry timer is cancelled. *)
TouchExitBootServicesKeepsPoll ==
  /\ armed' = armed \ (held \cap {"retry"})
  /\ bus' = IF ready THEN "off" ELSE bus

(* The notification cancels both timers through the fields of Dev and, only *)
(* when the panel is live, disables the controller.                         *)
TouchExitBootServices ==
  /\ armed' = armed \ held
  /\ bus' = IF ready THEN "off" ELSE bus

EbsMayRun ==
  /\ sys = "boot"
  /\ EbsMayPreempt \/ At("app", "loader")

ExitBootServices ==
  /\ EbsMayRun
  /\ sys' = "os"
  /\ IF ev["ebs"] = "open" THEN TouchExitBootServices ELSE UNCHANGED <<armed, bus>>
  /\ UNCHANGED <<pc, ev, held, pending, devLive, devFields, panel, faults>>

(* The operating system runs and nothing of the driver is left to run. *)
Stopped ==
  /\ sys = "os" /\ At("app", "loader")
  /\ UNCHANGED vars

-----------------------------------------------------------------------------
BringUpStep(f) ==
  \/ BringUpBegin(f) \/ BringUpDetect(f) \/ BringUpReport(f)
  \/ BringUpAllocBuf(f) \/ BringUpReady(f) \/ BringUpArm(f)

EntryStep ==
  \/ EntryAllocDev
  \/ EntryCreate("wait", "createWait", "createPoll")
  \/ EntryCreate("poll", "createPoll", "createEbs")
  \/ EntryCreate("ebs", "createEbs", "install")
  \/ EntryInstall
  \/ InertClose("retry", "inertRetry", "inertPoll")
  \/ InertClose("poll", "inertPoll", "inertWait")
  \/ InertClose("wait", "inertWait", "inertEbs")
  \/ InertClose("ebs", "inertEbs", "inertFree")
  \/ InertFree
  \/ BringUpStep("app")
  \/ EntryCreateRetry \/ EntryArmRetry \/ EntryClearRetry \/ EntryCloseRetry

NotifyStep ==
  \/ BringUpStep("cb")
  \/ RetryCancel \/ RetryClear \/ RetryClose
  \/ PollStart \/ PollReinit \/ PollRead

Next ==
  \/ EntryStep \/ NotifyStep
  \/ TouchReset \/ PanelComesUp \/ ExitBootServices \/ Stopped
  \/ \E t \in Timers : Tick(t) \/ Dispatch(t)

(* Code that runs goes on running, timers keep their period and the         *)
(* firmware dispatches what it queued.  Nothing makes the panel come up or  *)
(* the boot manager leave.                                                  *)
Fairness ==
  /\ WF_vars(EntryStep) /\ WF_vars(NotifyStep)
  /\ \A t \in Timers : WF_vars(Tick(t)) /\ WF_vars(Dispatch(t))

Spec == Init /\ [][Next]_vars
FairSpec == Spec /\ Fairness

-----------------------------------------------------------------------------
(* Properties.                                                             *)

(* TouchPoll reads wMaxInputLength bytes into InputBuf: whenever it gets   *)
(* there, the buffer was allocated for the descriptor now in Dev and the   *)
(* layout belongs to it, whatever earlier attempts allocated or zeroed.    *)
PollBufferFits ==
  pc["cb"] = "read" => layout /\ maxInput # 0 /\ bufLen = maxInput

(* TouchTryBringUp zeroes Layout and frees InputBuf under the poll timer's *)
(* feet: it must never run on a live device nor twice at once, even when   *)
(* a retry was queued while the successful attempt was still running.      *)
NoBringUpWhenLive ==
  /\ \A f \in Frames : pc[f] \in BringUp \ {"arm"} => ~ready
  /\ ~ (pc["app"] \in BringUp /\ pc["cb"] \in BringUp)
  /\ ready /\ pc["cb"] = "idle" => "retry" \notin pending

(* Whenever TouchExitBootServices can run, the handle it would pass to     *)
(* SetTimer for that timer is an open one, and Dev is allocated.           *)
EbsSeesOpenHandle(t) ==
  EbsMayRun /\ ev["ebs"] = "open" /\ t \in held => ev[t] = "open" /\ devLive

(* When only the boot loader can signal ExitBootServices, neither handle   *)
(* can be stale by the time it does, whichever way the loading ended.      *)
HandlesOpen == \A t \in Timers : EbsSeesOpenHandle(t)

(* The discipline the comment in TouchRetry describes, clear RetryEvent    *)
(* before closing it, is enough even if the notification preempts it.      *)
RetryHandleOpen == EbsSeesOpenHandle("retry")

(* Every notification gets Dev as its context: no event outlives Dev. *)
DevOutlivesEvents == (\E e \in Events : ev[e] = "open") => devLive

(* After ExitBootServices the driver never runs again, and a live panel's  *)
(* controller has been disabled.                                           *)
QuietHandoff ==
  sys = "os" =>
    /\ armed = {} /\ pending = {} /\ pc["cb"] = "idle" /\ pc["app"] = "loader"
    /\ ready => bus = "off"

(* What the comments of TouchExitBootServices, TouchTryBringUp and         *)
(* I2cBusDisable promise: the bus is idle for the OS driver.               *)
BusIdleAtHandoff == sys = "os" => bus = "off"

(* What the driver is as a whole: an implementation of TouchService.  The  *)
(* retry loop ends, within RetryMax attempts, and no attempt is made on a  *)
(* live panel or once the loop has ended.                                  *)
Phase ==
  IF sys = "os" THEN "handoff"
  ELSE IF pc["app"] # "loader" THEN "loading"
  ELSE IF ~devLive THEN "inert"
  ELSE IF ready /\ pc["cb"] # "arm" THEN "live"
  ELSE IF "retry" \in held THEN "retrying" ELSE "dormant"

Service == INSTANCE TouchService WITH phase <- Phase, tries <- attempt
ServiceSpec == Service!Spec

(* A panel that comes up while attempts are left for it -- each remaining  *)
(* fault may cost one -- is brought up, unless the boot manager leaves.    *)
LatePanelIsBroughtUp ==
  (panel = "up" /\ "retry" \in armed /\ attempt + faults < RetryMax)
    ~> (ready \/ sys = "os")
=============================================================================
