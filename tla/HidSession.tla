------------------------------ MODULE HidSession ------------------------------
(***************************************************************************)
(* The conversation with a panel that was found: TouchBringUp powers it on *)
(* and resets it, TouchPoll reads its reports and recovers the bus.  Each  *)
(* call of I2cHid.c is one transfer of I2cBus.c over the transport that    *)
(* detection selected.  The engines are taken by their contract,           *)
(* I2cTransfer, which DwI2c and MtkI2c are shown to implement.             *)
(***************************************************************************)
EXTENDS Naturals

CONSTANTS
  Kinds,            \* I2cBusKind: which transports are explored
  AckTries,         \* TOUCH_RESET_ACK_TRIES
  FirmwareStatuses  \* what the firmware's I2C host or master may return

ASSUME KindsAssumption == Kinds \subseteq {"dw", "mtk", "fw"}
ASSUME TriesAssumption == AckTries \in Nat \ {0}

VARIABLES
  calling, status, own, clean,  \* the transfer, as in I2cTransfer
  kind,        \* mKind
  site,        \* the call being made; "idle" between two polls
  tries,       \* Try of the acknowledge loop
  needReinit,  \* Dev->NeedReinit
  stuck,       \* DwI2cDisable would time out now
  works,       \* the bus and the panel carry out what is asked of them now
  finger,      \* a finger moves on the panel: it always has a report
  ack,         \* the reset acknowledge: "none", "coming" or "ready"
  accepted,    \* history: whose report the last poll took: "none", "own", "alien"
  ignored      \* history: a call whose result nobody looks at left the
               \* controller unclean, and it has not been cleaned since

transfer == <<calling, status, own, clean>>
driver == <<kind, site, tries, needReinit>>
panel == <<finger, ack>>
world == <<stuck, works, panel>>
history == <<accepted, ignored>>
vars == <<transfer, driver, world, history>>

Transfer == INSTANCE I2cTransfer WITH MayStrand <- TRUE

BringUpSites == {"setPower", "reset", "ack"}
Sites == BringUpSites \cup {"idle", "wake", "read"}

TypeOK ==
  /\ calling \in BOOLEAN /\ own \in BOOLEAN /\ clean \in BOOLEAN
  /\ status \in Transfer!Outcomes \cup {"NONE"}
  /\ kind \in Kinds /\ site \in Sites /\ tries \in 0..AckTries
  /\ needReinit \in BOOLEAN /\ stuck \in BOOLEAN /\ works \in BOOLEAN
  /\ finger \in BOOLEAN /\ ack \in {"none", "coming", "ready"}
  /\ accepted \in {"none", "own", "alien"} /\ ignored \in BOOLEAN

(* The panel answered and its report descriptor was read.  TouchDetect goes *)
(* on to the next register after any error, so the controller may be       *)
(* unclean already.                                                        *)
Init ==
  /\ calling = FALSE /\ status = "NONE" /\ own = FALSE
  /\ kind \in Kinds /\ clean \in BOOLEAN /\ (kind # "dw" => clean)
  /\ site = "setPower" /\ tries = 0 /\ needReinit = FALSE
  /\ stuck = FALSE /\ works \in BOOLEAN /\ finger \in BOOLEAN /\ ack = "none"
  /\ accepted = "none" /\ ignored = ~clean

-----------------------------------------------------------------------------
(* I2cBusXfer. *)

(* Mutant: the firmware's own statuses are passed on. *)
FwStatusRaw(request, outcome) == IF request = "SUCCESS" THEN outcome ELSE request

(* The request's own failure, or what became of it, in the vocabulary of   *)
(* DwI2cXfer.                                                              *)
FwStatus(request, outcome) ==
  LET s == IF request = "SUCCESS" THEN outcome ELSE request
  IN  IF s \in {"SUCCESS", "NO_RESPONSE", "TIMEOUT"} THEN s ELSE "DEVICE_ERROR"

(* FwXfer; what it reports as done is the firmware's to answer for. *)
FwXfer ==
  /\ calling /\ calling' = FALSE /\ clean' = clean
  /\ \E request, outcome \in FirmwareStatuses : status' = FwStatus(request, outcome)
  /\ own' = (status' = "SUCCESS")

(* Every bus error of DwI2cXfer is followed by DwI2cRecover, which a stuck *)
(* controller refuses; and what does not work may not be enabled again.    *)
DwI2cXfer ==
  /\ Transfer!End
  /\ status' \in Transfer!BusErrors =>
       (stuck => ~clean') /\ (~stuck /\ works => clean')

MtkI2cXfer == Transfer!End /\ clean'

(* While everything works, a clean transfer succeeds; the panel may still  *)
(* not acknowledge a read when it has nothing to say.                      *)
Works(isRead) ==
  works /\ clean =>
    \/ status' = "SUCCESS"
    \/ isRead /\ ~finger /\ ack # "ready" /\ status' = "NO_RESPONSE"

Call == site # "idle" /\ Transfer!Begin /\ UNCHANGED <<driver, world, history>>

XferReturns(isRead) ==
  /\ \/ kind = "dw" /\ DwI2cXfer
     \/ kind = "mtk" /\ MtkI2cXfer
     \/ kind = "fw" /\ FwXfer
  /\ Works(isRead)
  /\ UNCHANGED <<kind, stuck, works, finger>>

(* A result nobody looks at. *)
Ignore == ignored' = ~clean'

-----------------------------------------------------------------------------
(* TouchBringUp. *)

SetPowerEnd ==
  /\ site = "setPower" /\ XferReturns(FALSE) /\ Ignore
  /\ site' = "reset" /\ UNCHANGED <<tries, needReinit, ack, accepted>>

(* A command that went through resets the panel; one that failed on the    *)
(* bus may have.                                                           *)
ResetEnd ==
  /\ site = "reset" /\ XferReturns(FALSE) /\ Ignore
  /\ site' = IF status' = "SUCCESS" THEN "ack" ELSE "idle"
  /\ \/ ack' = IF own' THEN "coming" ELSE ack
     \/ status' \in Transfer!BusErrors /\ ack' = "coming"
  /\ UNCHANGED <<tries, needReinit, accepted>>

(* What a raw read that succeeded finds, by its length prefix and its ID:  *)
(* the acknowledge and "nothing" have length zero.  Bytes of another read  *)
(* may look like anything, and the panel's own may be lost meanwhile.      *)
Contents == {"ack", "nothing", "report", "foreign", "garbage"}
Found(content) ==
  /\ content \in Contents
  /\ own' => CASE ack = "ready" -> content = "ack"
               [] ack # "ready" /\ finger -> content = "report"
               [] OTHER -> content \in {"nothing", "report", "foreign"}
  /\ IF own' THEN ack' = IF ack = "ready" THEN "none" ELSE ack
     ELSE ack' \in {ack} \cup (IF ack = "ready" THEN {"none"} ELSE {})

(* Mutant: the tries are not counted. *)
AckEndUncounted ==
  /\ site = "ack" /\ XferReturns(TRUE) /\ Ignore
  /\ \E content \in Contents :
       /\ Found(content)
       /\ site' = IF status' = "SUCCESS" /\ content \in {"ack", "nothing"}
                  THEN "idle" ELSE "ack"
  /\ UNCHANGED <<tries, needReinit, accepted>>

(* Read until two zero bytes come, or the tries are used up. *)
AckEnd ==
  /\ site = "ack" /\ XferReturns(TRUE) /\ Ignore
  /\ tries' = tries + 1
  /\ \E content \in Contents :
       /\ Found(content)
       /\ site' = IF (status' = "SUCCESS" /\ content \in {"ack", "nothing"})
                     \/ tries' = AckTries
                  THEN "idle" ELSE "ack"
  /\ UNCHANGED <<needReinit, accepted>>

-----------------------------------------------------------------------------
(* TouchPoll. *)

(* I2cBusReinit.  DwI2cInit fails on a stuck controller, or when the       *)
(* enable does not show; the other transports' always succeed here.        *)
ReinitSucceeds == ~(kind = "dw" /\ stuck) /\ Transfer!ReinitWorks
ReinitFails == kind = "dw" /\ (stuck \/ ~works) /\ Transfer!ReinitFails

PollRead ==
  /\ site = "idle" /\ ~needReinit /\ site' = "read"
  /\ accepted' = "none"
  /\ UNCHANGED <<transfer, kind, tries, needReinit, world, ignored>>

PollReinit ==
  /\ site = "idle" /\ needReinit /\ ReinitSucceeds
  /\ site' = "wake" /\ accepted' = "none" /\ ignored' = FALSE
  /\ UNCHANGED <<kind, tries, needReinit, world>>

PollReinitFails ==
  /\ site = "idle" /\ needReinit /\ ReinitFails
  /\ accepted' = "none"
  /\ UNCHANGED <<driver, world, ignored>>

(* The panel is powered on again, whatever becomes of it. *)
WakeEnd ==
  /\ site = "wake" /\ XferReturns(FALSE) /\ Ignore
  /\ needReinit' = FALSE /\ site' = "read"
  /\ UNCHANGED <<tries, ack, accepted>>

(* Mutant: only a timeout asks for a recovery. *)
FailedTimeoutOnly == status' = "TIMEOUT"

Failed == status' \in Transfer!BusErrors

(* A failed read asks for a recovery; a report of the right ID is taken.   *)
ReadEnd ==
  /\ site = "read" /\ XferReturns(TRUE)
  /\ site' = "idle"
  /\ needReinit' = (needReinit \/ Failed)
  /\ ignored' = (ignored /\ ~clean')
  /\ \E content \in Contents :
       /\ Found(content)
       /\ accepted' = IF status' = "SUCCESS" /\ content = "report"
                      THEN IF own' THEN "own" ELSE "alien" ELSE "none"
  /\ UNCHANGED tries

(* The boot manager's Reset(ExtendedVerification), between two polls. *)
TouchReset ==
  /\ site = "idle" /\ needReinit' = TRUE
  /\ UNCHANGED <<transfer, kind, site, tries, world, history>>

-----------------------------------------------------------------------------
(* The controller, the bus, the panel and the finger. *)

Environment ==
  /\ \/ kind = "dw" /\ stuck' = ~stuck /\ UNCHANGED <<works, finger, ack>>
     \/ works' = ~works /\ UNCHANGED <<stuck, finger, ack>>
     \/ finger' = ~finger /\ UNCHANGED <<stuck, works, ack>>
     \/ ack = "coming" /\ ack' = "ready" /\ UNCHANGED <<stuck, works, finger>>
  /\ UNCHANGED <<transfer, driver, history>>

Driver ==
  \/ Call \/ SetPowerEnd \/ ResetEnd \/ AckEnd
  \/ PollRead \/ PollReinit \/ PollReinitFails \/ WakeEnd \/ ReadEnd

Next == Driver \/ TouchReset \/ Environment

(* The poll timer is periodic, and every transfer returns. *)
Spec == Init /\ [][Next]_vars /\ WF_vars(Driver)

-----------------------------------------------------------------------------
(* Properties.                                                             *)

(* "an error exit can leave undrained RX bytes AND still-queued READ       *)
(* commands ... silently corrupting every report after it": a report       *)
(* TouchPoll takes holds the bytes of its own read, through every failed   *)
(* read, refused recovery and failed re-initialisation.  The one exception *)
(* is a call whose result the code ignores, during TouchBringUp or the     *)
(* wake-up of a poll, that leaves a stuck or disabled controller behind.   *)
AcceptedIsOwn == accepted = "alien" => ignored

(* "stuck bus -- recover on the next tick": once the bus works, the        *)
(* controller obeys and a finger moves, its reports are read again and     *)
(* again, whatever happened before; with the same exception.               *)
TouchComesBack ==
  <>[](works /\ finger /\ ~stuck) => []<>(accepted = "own" \/ ignored)
=============================================================================
