-------------------------------- MODULE MtkI2c --------------------------------
(***************************************************************************)
(* The MediaTek transport: MtkI2cInit and MtkI2cReinit prepare the         *)
(* controller, MtkI2cXfer runs one transaction through its APDMA channel   *)
(* and polls INTR_STAT for the end of it.                                  *)
(*                                                                         *)
(* The firmware drives the same controller for its keyboard: whenever the  *)
(* driver has not raised the TPL to TPL_HIGH_LEVEL, a firmware callback may *)
(* run a transaction of its own.  Whether INTR_STAT tracks sources that    *)
(* INTR_MASK hides is not known of this controller: both kinds are         *)
(* explored.                                                               *)
(***************************************************************************)
EXTENDS Naturals, FiniteSets

CONSTANTS
  Requests,    \* the [w, r] lengths (WLen, RLen) callers ask for
  PageSize,    \* MTK_I2C_MAX_XFER
  Budget,      \* polls a try makes before it gives up, the first not counted
  MaxXfers,    \* bound: transfers explored
  MaxFaults    \* bound: mappings and allocations that fail

ASSUME RequestsAssumption == Requests \subseteq [w : Nat, r : Nat]
ASSUME BoundsAssumption ==
  PageSize \in Nat /\ Budget \in Nat /\ MaxXfers \in Nat /\ MaxFaults \in Nat

VARIABLES
  pc,           \* "idle", "initHw", "poll" or "result"; "off" after Disable
  tpl,          \* is the TPL raised to TPL_HIGH_LEVEL?
  mapped, txBuf, rxBuf, initialized,  \* the fields of MTK_I2C
  inherited, saved, irqMaskOn,
  xfer, req,    \* transfers begun, and the lengths of this one
  waited, acc,  \* Waited (in polls) and Acc of MtkDoTransfer
  status, rbuf, \* what MtkI2cXfer returned; whose bytes it copied to RBuf
  timing,       \* the SCL registers: "reset", "firmware" or "ours"
  mask,         \* is INTR_MASK on?
  stat,         \* INTR_STAT
  engine,       \* the transaction on the controller
  rxPage,       \* whose bytes are in the RX page
  latches,      \* does INTR_STAT track sources that are masked?
  faults,
  sent,         \* history: how often each transfer went over the wire
  nacked,       \* history: was this try not acknowledged?
  firmwareRan   \* history: the firmware had programmed the controller

vars == <<pc, tpl, mapped, txBuf, rxBuf, initialized, inherited, saved,
          irqMaskOn, xfer, req, waited, acc, status, rbuf, timing, mask, stat,
          engine, rxPage, latches, faults, sent, nacked, firmwareRan>>

prepared == <<mapped, txBuf, rxBuf, initialized, inherited, saved>>
try == <<waited, acc>>
result == <<status, rbuf>>
registers == <<timing, mask, stat>>
constant == <<latches, firmwareRan>>

Bits == {"ack", "arb", "comp", "rs"}
Done == {"comp", "rs"}
Timings == {"reset", "firmware", "ours"}
Xfers == 0..MaxXfers
Idle == [state |-> "idle", xfer |-> 0, read |-> FALSE, done |-> {}]
Engines == [state : {"idle", "running", "ending"}, xfer : Xfers,
            read : BOOLEAN, done : SUBSET Done]

TypeOK ==
  /\ pc \in {"idle", "initHw", "poll", "result", "off"} /\ tpl \in BOOLEAN
  /\ mapped \in BOOLEAN /\ txBuf \in BOOLEAN /\ rxBuf \in BOOLEAN
  /\ initialized \in BOOLEAN /\ inherited \in BOOLEAN
  /\ saved \in Timings /\ irqMaskOn \in BOOLEAN
  /\ xfer \in Xfers /\ req \in [w : Nat, r : Nat]
  /\ waited \in 0..Budget /\ acc \subseteq Bits
  /\ status \in {"NONE", "SUCCESS", "NO_RESPONSE", "DEVICE_ERROR", "TIMEOUT",
                 "NOT_READY", "INVALID_PARAMETER"}
  /\ rbuf \in Xfers /\ rxPage \in Xfers
  /\ timing \in Timings /\ mask \in BOOLEAN /\ stat \subseteq Bits
  /\ engine \in Engines /\ latches \in BOOLEAN /\ faults \in 0..MaxFaults
  /\ sent \in [1..MaxXfers -> Nat] /\ nacked \in BOOLEAN
  /\ firmwareRan \in BOOLEAN

Init ==
  /\ pc = "idle" /\ tpl = FALSE
  /\ mapped = FALSE /\ txBuf = FALSE /\ rxBuf = FALSE /\ initialized = FALSE
  /\ inherited = FALSE /\ saved = "reset" /\ irqMaskOn = FALSE
  /\ xfer = 0 /\ req = [w |-> 0, r |-> 0] /\ waited = 0 /\ acc = {}
  /\ status = "NONE" /\ rbuf = 0
  /\ timing \in {"reset", "firmware"} /\ firmwareRan = (timing = "firmware")
  /\ mask = FALSE /\ stat \in {{}, {"comp"}} /\ engine = Idle /\ rxPage = 0
  /\ latches \in BOOLEAN /\ faults = MaxFaults
  /\ sent = [x \in 1..MaxXfers |-> 0] /\ nacked = FALSE

-----------------------------------------------------------------------------
(* Preparing the controller, at the caller's TPL. *)

Fault == faults > 0 /\ faults' = faults - 1
NoFault == UNCHANGED faults

(* MtkI2cInit fails in a mapping or an allocation; what it had done stays. *)
MtkI2cInitFails ==
  /\ pc = "idle" /\ Fault
  /\ \/ ~mapped /\ UNCHANGED <<mapped, txBuf>>
     \/ ~txBuf /\ mapped' = TRUE /\ UNCHANGED txBuf
     \/ ~rxBuf /\ mapped' = TRUE /\ txBuf' = TRUE
  /\ UNCHANGED <<pc, tpl, rxBuf, initialized, inherited, saved, irqMaskOn, xfer,
                 req, try, result, registers, engine, rxPage, constant, sent,
                 nacked>>

(* MtkSnapshotTiming, on the first MtkI2cInit that gets this far. *)
MtkSnapshotTiming ==
  IF initialized THEN UNCHANGED <<saved, inherited>>
  ELSE saved' = timing /\ inherited' = (timing # "reset")

(* The first half of MtkInitHw: the resets. *)
ResetHw == engine' = Idle /\ stat' = {} /\ timing' = "reset"

MtkI2cInit ==
  /\ pc = "idle" /\ pc' = "initHw"
  /\ mapped' = TRUE /\ txBuf' = TRUE /\ rxBuf' = TRUE
  /\ MtkSnapshotTiming /\ ResetHw
  /\ UNCHANGED <<tpl, initialized, irqMaskOn, xfer, req, try, result, mask,
                 rxPage, constant, faults, sent, nacked>>

MtkI2cReinit ==
  /\ pc = "idle" /\ mapped /\ txBuf /\ rxBuf /\ pc' = "initHw"
  /\ ResetHw
  /\ UNCHANGED <<tpl, prepared, irqMaskOn, xfer, req, try, result, mask, rxPage,
                 constant, faults, sent, nacked>>

(* Mutant: always the driver's own timing. *)
ProgrammedOwn == "ours"

(* The timing the second half of MtkInitHw writes. *)
Programmed == IF inherited THEN saved ELSE "ours"

InitHwEnd ==
  /\ pc = "initHw" /\ pc' = "idle"
  /\ timing' = Programmed /\ mask' = FALSE /\ initialized' = TRUE
  /\ UNCHANGED <<tpl, mapped, txBuf, rxBuf, inherited, saved, irqMaskOn, xfer,
                 req, try, result, stat, engine, rxPage, constant, faults, sent,
                 nacked>>

(* MtkI2cDisable, for the hand-off to the operating system. *)
MtkI2cDisable ==
  /\ pc = "idle" /\ mapped /\ pc' = "off"
  /\ mask' = FALSE /\ stat' = {} /\ engine' = Idle
  /\ UNCHANGED <<tpl, prepared, irqMaskOn, xfer, req, try, result, timing,
                 rxPage, constant, faults, sent, nacked>>

-----------------------------------------------------------------------------
(* MtkI2cXfer and MtkDoTransfer. *)

Combined(q) == q.w > 0 /\ q.r > 0
IntrBits(q) == {"ack", "arb", "comp"} \cup (IF Combined(q) THEN {} ELSE {"rs"})

(* Mutant: INTR_STAT is not cleared before the start. *)
StatAtStartStale(q) == stat

(* INTR_STAT as the transaction starts: the bits it will look at cleared. *)
StatAtStart(q) == stat \ IntrBits(q)

(* The second half of MtkDoTransfer's programming: the start. *)
Start(q, x) ==
  /\ engine' = [state |-> "running", xfer |-> x, read |-> q.r > 0,
                done |-> Done \cap IntrBits(q)]
  /\ waited' = 0 /\ acc' = {} /\ nacked' = FALSE /\ pc' = "poll"

XferRefused ==
  /\ pc = "idle" /\ xfer < MaxXfers
  /\ xfer' = xfer + 1 /\ req' \in Requests
  /\ \/ status' = "NOT_READY" /\ ~ (initialized /\ txBuf /\ rxBuf)
     \/ /\ status' = "INVALID_PARAMETER" /\ initialized /\ txBuf /\ rxBuf
        /\ (req'.w + req'.r = 0 \/ req'.w > PageSize \/ req'.r > PageSize)
  /\ UNCHANGED <<pc, tpl, prepared, irqMaskOn, try, rbuf, registers, engine,
                 rxPage, constant, faults, sent, nacked>>

XferStart ==
  /\ pc = "idle" /\ initialized /\ txBuf /\ rxBuf /\ xfer < MaxXfers
  /\ xfer' = xfer + 1 /\ req' \in Requests
  /\ req'.w + req'.r > 0 /\ req'.w <= PageSize /\ req'.r <= PageSize
  /\ tpl' = TRUE /\ status' = "NONE" /\ rbuf' = 0
  /\ stat' = StatAtStart(req') /\ mask' = irqMaskOn
  /\ Start(req', xfer')
  /\ UNCHANGED <<prepared, irqMaskOn, timing, rxPage, constant, faults, sent>>

(* Mutant: the bits of the last poll only. *)
CollectedLast(seen) == seen

(* What has been seen of this try, with what this poll reads. *)
Collected(seen) == acc \cup seen

(* Mutant: one poll too many. *)
BudgetSpentLate == waited > Budget

BudgetSpent == waited >= Budget

(* Read INTR_STAT, clear what was read, and stop or go on. *)
Poll ==
  /\ pc = "poll"
  /\ LET seen == stat \cap IntrBits(req) IN
       /\ acc' = Collected(seen) /\ stat' = stat \ seen
       /\ IF (seen # {} /\ acc' \cap Done # {}) \/ BudgetSpent
          THEN pc' = "result" /\ mask' = FALSE /\ UNCHANGED waited
          ELSE waited' = waited + 1 /\ UNCHANGED <<pc, mask>>
  /\ UNCHANGED <<tpl, prepared, irqMaskOn, xfer, req, result, timing, engine,
                 rxPage, constant, faults, sent, nacked>>

Outcome ==
  CASE acc \cap Done = {} -> "TIMEOUT"
    [] acc \cap Done # {} /\ "ack" \in acc -> "NO_RESPONSE"
    [] acc \cap Done # {} /\ "ack" \notin acc /\ "arb" \in acc -> "DEVICE_ERROR"
    [] OTHER -> "SUCCESS"

(* Nothing at all was latched while the mask was off. *)
MaskIsSuspect == Outcome = "TIMEOUT" /\ ~irqMaskOn /\ acc = {}

Return(s) == status' = s /\ tpl' = FALSE /\ pc' = "idle"

XferSucceeds ==
  /\ pc = "result" /\ Outcome = "SUCCESS"
  /\ Return("SUCCESS")
  /\ rbuf' = IF req.r > 0 THEN rxPage ELSE 0
  /\ UNCHANGED <<prepared, irqMaskOn, xfer, req, try, registers, engine, rxPage,
                 constant, faults, sent, nacked>>

(* Mutant: the switch to masked polling is forgotten. *)
XferRetriesForgets ==
  /\ pc = "result" /\ MaskIsSuspect
  /\ timing' = Programmed /\ stat' = {} /\ mask' = TRUE
  /\ Start(req, xfer)
  /\ UNCHANGED <<tpl, prepared, irqMaskOn, xfer, req, result, rxPage, constant,
                 faults, sent>>

(* Switch to masked polling for good, re-initialise and try once more. *)
XferRetries ==
  /\ pc = "result" /\ MaskIsSuspect
  /\ irqMaskOn' = TRUE
  /\ timing' = Programmed /\ stat' = {} /\ mask' = TRUE
  /\ Start(req, xfer)
  /\ UNCHANGED <<tpl, prepared, xfer, req, result, rxPage, constant, faults,
                 sent>>

(* Any other error: re-initialise and return it. *)
XferFails ==
  /\ pc = "result" /\ Outcome # "SUCCESS" /\ ~MaskIsSuspect
  /\ Return(Outcome)
  /\ engine' = Idle /\ stat' = {} /\ timing' = Programmed
  /\ UNCHANGED <<prepared, irqMaskOn, xfer, req, try, rbuf, mask, rxPage,
                 constant, faults, sent, nacked>>

-----------------------------------------------------------------------------
(* The controller, the panel and the firmware. *)

Latch(bits) == stat' = IF latches \/ mask THEN stat \cup bits ELSE stat

(* The transaction is carried out and its completion shows. *)
HwDone ==
  /\ engine.state = "running" /\ engine' = Idle
  /\ \E bits \in SUBSET engine.done \ {{}} : Latch(bits)
  /\ rxPage' = IF engine.read THEN engine.xfer ELSE rxPage
  /\ sent' = [sent EXCEPT ![engine.xfer] = @ + 1]
  /\ UNCHANGED <<pc, tpl, prepared, irqMaskOn, xfer, req, try, result, timing,
                 mask, constant, faults, nacked>>

(* An error raises its own bit first, and the completion afterwards. *)
HwError(bit) ==
  /\ engine.state = "running" /\ engine' = [engine EXCEPT !.state = "ending"]
  /\ Latch({bit}) /\ nacked' = (nacked \/ bit = "ack")
  /\ UNCHANGED <<pc, tpl, prepared, irqMaskOn, xfer, req, try, result, timing,
                 mask, rxPage, constant, faults, sent>>

HwErrorDone ==
  /\ engine.state = "ending" /\ engine' = Idle
  /\ \E bits \in SUBSET engine.done \ {{}} : Latch(bits)
  /\ UNCHANGED <<pc, tpl, prepared, irqMaskOn, xfer, req, try, result, timing,
                 mask, rxPage, constant, faults, sent, nacked>>

(* A firmware callback talks to the keyboard, and leaves its completion or *)
(* clears it.                                                              *)
FirmwareTransfer ==
  /\ ~tpl /\ pc # "off"
  /\ engine' = Idle /\ stat' \in {{}, {"comp"}, {"rs"}}
  /\ UNCHANGED <<pc, tpl, prepared, irqMaskOn, xfer, req, try, result, timing,
                 mask, rxPage, constant, faults, sent, nacked>>

Software ==
  \/ InitHwEnd \/ Poll \/ XferSucceeds \/ XferRetries \/ XferFails

Finished ==
  /\ pc = "off" \/ (pc = "idle" /\ xfer = MaxXfers)
  /\ UNCHANGED vars

Next ==
  \/ MtkI2cInitFails \/ MtkI2cInit \/ MtkI2cReinit \/ MtkI2cDisable
  \/ XferRefused \/ XferStart \/ Software
  \/ HwDone \/ HwError("ack") \/ HwError("arb") \/ HwErrorDone
  \/ FirmwareTransfer \/ Finished

Spec == Init /\ [][Next]_vars
(* Only the processor is fair: the transaction may hang for ever. *)
FairSpec == Spec /\ WF_vars(Software)

-----------------------------------------------------------------------------
(* Properties.                                                             *)

(* A NAK whose completion bit comes in a later poll is still a NAK. *)
NaksAreReported == (pc = "idle" /\ status = "SUCCESS") => ~nacked

(* "The first timeout switches the instance to polling with the mask on    *)
(* and retries once": one transfer at most, in the life of the instance,   *)
(* reaches the panel twice, and none more often.                           *)
RepeatedOnce ==
  /\ \A x \in DOMAIN sent : sent[x] <= 2
  /\ Cardinality({x \in DOMAIN sent : sent[x] = 2}) <= 1

(* Through every reset, retry and failed preparation the controller keeps  *)
(* the speed the firmware set for its keyboard; one it never programmed    *)
(* gets ours.  MtkInitHw passes through the reset state.                   *)
SpeedKept ==
  pc # "initHw" => timing = IF firmwareRan THEN "firmware"
                            ELSE IF initialized THEN "ours" ELSE "reset"

(* MtkI2cXfer is the transfer the HID layer counts on, and one that never  *)
(* leaves the controller unclean.  It returns, so TPL_HIGH_LEVEL is not    *)
(* held by a transaction that hangs.  EFI_SUCCESS is this transfer's own:  *)
(* it went over the wire, and a read returned the bytes it fetched,        *)
(* whatever status an earlier transfer or the firmware's keyboard traffic  *)
(* left behind.  And between calls nothing of ours runs on the controller  *)
(* and its interrupts are masked: the firmware's next one starts clean.    *)
Calling == pc \in {"poll", "result"}
Own == status = "SUCCESS" /\ sent[xfer] > 0 /\ (req.r > 0 => rbuf = xfer)
Transfer ==
  INSTANCE I2cTransfer WITH
    MayStrand <- FALSE,
    calling <- Calling,
    status <- IF Calling THEN "NONE" ELSE status,
    own <- ~Calling /\ Own,
    clean <- pc \in {"idle", "off"} => engine.state = "idle" /\ ~mask /\ ~tpl
TransferSpec == Transfer!Spec
=============================================================================
