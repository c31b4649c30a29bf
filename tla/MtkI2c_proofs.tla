---------------------------- MODULE MtkI2c_proofs -----------------------------
(***************************************************************************)
(* Proofs about MtkI2c, for any page size, budget and lengths, any number  *)
(* of transfers and either kind of interrupt status: a transfer is sent at *)
(* most twice, and that once; a NAK is never a success; the firmware's     *)
(* speed survives; and the transport implements I2cTransfer without ever   *)
(* leaving the controller unclean.                                         *)
(***************************************************************************)
EXTENDS MtkI2c, FiniteSetTheorems, TLAPS

(* What this try has shown so far, read or not. *)
Shown == acc \cup (stat \cap IntrBits(req))
Errors == {"ack", "arb"}
Tracks == latches \/ mask

(* Between two calls nothing of ours is on the controller; the TPL is      *)
(* raised exactly as long as a call runs, on a prepared controller.        *)
CallsOK ==
  /\ tpl <=> Calling
  /\ pc \in {"idle", "off", "initHw"} => engine.state = "idle"
  /\ pc \in {"idle", "off", "result"} => ~mask
  /\ pc = "poll" => (mask <=> irqMaskOn)
  /\ Calling => initialized /\ xfer > 0 /\ status = "NONE"

(* A try that still runs is this one's, and no completion of it shows. *)
EngineOK ==
  /\ acc \subseteq IntrBits(req) \/ ~Calling
  /\ Calling /\ engine.state # "idle" =>
       /\ engine.xfer = xfer /\ engine.read = (req.r > 0)
       /\ engine.done = Done \cap IntrBits(req)
       /\ acc \cap Done = {}
       /\ pc = "poll" => Shown \cap Done = {}

(* As long as the try is polled, an error that came shows; without a       *)
(* status that tracks it, nothing does.                                    *)
ErrorsOK ==
  pc = "poll" =>
    /\ ~Tracks => Shown = {}
    /\ Tracks /\ engine.state = "ending" => Shown \cap Errors # {}
    /\ Tracks /\ nacked => "ack" \in Shown

(* The transfer has gone over the wire and its bytes are in the RX page. *)
Arrived == sent[xfer] > 0 /\ (req.r > 0 => rxPage = xfer)

(* A completion without an error means just that. *)
CompletionOK ==
  /\ pc = "poll" /\ Shown \cap Done # {} => Shown \cap Errors # {} \/ Arrived
  /\ pc = "result" /\ acc \cap Done # {} =>
       /\ engine.state = "idle"
       /\ acc \cap Errors # {} \/ Arrived
       /\ nacked => "ack" \in acc
ReturnedOK ==
  pc \in {"idle", "initHw"} /\ status = "SUCCESS" => ~nacked

(* A transfer is repeated only in the call that turns the mask on for good. *)
SentOK ==
  /\ \A x \in 1..MaxXfers : x > xfer => sent[x] = 0
  /\ \A x \in 1..MaxXfers : sent[x] <= 2
  /\ \A x, y \in 1..MaxXfers : sent[x] = 2 /\ sent[y] = 2 => x = y
  /\ ~irqMaskOn => \A x \in 1..MaxXfers : sent[x] <= 1
  /\ engine.state = "running" =>
       \/ sent[xfer] = 0
       \/ irqMaskOn /\ \A x \in 1..MaxXfers : sent[x] <= 1

(* The snapshot was taken before the first reset. *)
SpeedOK ==
  /\ SpeedKept
  /\ rxBuf => initialized \/ pc = "initHw"
  /\ initialized \/ pc = "initHw" =>
       inherited = firmwareRan /\ (firmwareRan => saved = "firmware")

Inv ==
  /\ TypeOK /\ CallsOK /\ EngineOK /\ ErrorsOK /\ CompletionOK /\ ReturnedOK
  /\ SentOK /\ SpeedOK
-----------------------------------------------------------------------------
(* Types.                                                                  *)

Flags ==
  /\ tpl \in BOOLEAN /\ mapped \in BOOLEAN /\ txBuf \in BOOLEAN /\ rxBuf \in BOOLEAN
  /\ initialized \in BOOLEAN /\ inherited \in BOOLEAN /\ irqMaskOn \in BOOLEAN
  /\ mask \in BOOLEAN /\ latches \in BOOLEAN /\ nacked \in BOOLEAN
  /\ firmwareRan \in BOOLEAN
Control ==
  /\ pc \in {"idle", "initHw", "poll", "result", "off"}
  /\ waited \in 0..Budget /\ faults \in 0..MaxFaults
  /\ saved \in Timings /\ timing \in Timings
  /\ xfer \in Xfers /\ req \in [w : Nat, r : Nat]
  /\ rbuf \in Xfers /\ rxPage \in Xfers
  /\ status \in {"NONE", "SUCCESS", "NO_RESPONSE", "DEVICE_ERROR", "TIMEOUT",
                 "NOT_READY", "INVALID_PARAMETER"}
Controller ==
  /\ acc \subseteq Bits /\ stat \subseteq Bits /\ engine \in Engines
  /\ sent \in [1..MaxXfers -> Nat]

LEMMA TypeParts == TypeOK <=> Flags /\ Control /\ Controller
  BY DEF TypeOK, Flags, Control, Controller

LEMMA FlagsStep == ASSUME Flags, [Next]_vars PROVE Flags'
<1> USE DEF Flags, prepared, try, result, registers, constant
<1>1. CASE MtkI2cInitFails
  BY <1>1, Zenon DEF MtkI2cInitFails
<1>2. CASE MtkI2cInit
  <2>1. (timing # "reset") \in BOOLEAN
    OBVIOUS
  <2>2. inherited' \in BOOLEAN
    BY <1>2, <2>1, Zenon DEF MtkI2cInit, MtkSnapshotTiming
  <2> QED BY <1>2, <2>2, Zenon DEF MtkI2cInit
<1>3. CASE MtkI2cReinit
  BY <1>3, Zenon DEF MtkI2cReinit
<1>4. CASE MtkI2cDisable
  BY <1>4, Zenon DEF MtkI2cDisable
<1>5. CASE InitHwEnd
  BY <1>5, Zenon DEF InitHwEnd
<1>6. CASE XferRefused
  BY <1>6, Zenon DEF XferRefused
<1>7. CASE XferStart
  BY <1>7, Zenon DEF XferStart, Start
<1>8. CASE Poll
  <2>1. mask' \in BOOLEAN
    BY <1>8 DEF Poll
  <2> QED BY <1>8, <2>1, Zenon DEF Poll
<1>9. CASE XferSucceeds
  BY <1>9, Zenon DEF XferSucceeds, Return
<1>10. CASE XferRetries
  BY <1>10, Zenon DEF XferRetries, Start
<1>11. CASE XferFails
  BY <1>11, Zenon DEF XferFails, Return
<1>12. CASE HwDone
  BY <1>12, Zenon DEF HwDone
<1>13. ASSUME NEW bit \in {"ack", "arb"}, HwError(bit) PROVE Flags'
  <2>1. (nacked \/ bit = "ack") \in BOOLEAN
    OBVIOUS
  <2>2. nacked' \in BOOLEAN
    BY <1>13, <2>1, Zenon DEF HwError
  <2> QED BY <1>13, <2>2, Zenon DEF HwError
<1>14. CASE HwErrorDone
  BY <1>14, Zenon DEF HwErrorDone
<1>15. CASE FirmwareTransfer
  BY <1>15, Zenon DEF FirmwareTransfer
<1>16. CASE UNCHANGED vars
  BY <1>16, Zenon DEF vars
<1> QED BY <1>1, <1>2, <1>3, <1>4, <1>5, <1>6, <1>7, <1>8, <1>9, <1>10, <1>11,
           <1>12, <1>13, <1>14, <1>15, <1>16
        DEF Next, Software, Finished

LEMMA ControlStep == ASSUME Control, engine \in Engines, [Next]_vars PROVE Control'
<1> USE DEF Control, prepared, try, result, registers, constant
<1>0. 0 \in Xfers /\ 0 \in 0..Budget /\ "reset" \in Timings /\ "ours" \in Timings
  BY BoundsAssumption DEF Xfers, Timings
<1>1. CASE MtkI2cInitFails
  <2>1. faults' \in 0..MaxFaults
    BY <1>1, BoundsAssumption DEF MtkI2cInitFails, Fault
  <2> QED BY <1>1, <2>1 DEF MtkI2cInitFails
<1>2. CASE MtkI2cInit
  BY <1>0, <1>2 DEF MtkI2cInit, MtkSnapshotTiming, ResetHw
<1>3. CASE MtkI2cReinit
  BY <1>0, <1>3 DEF MtkI2cReinit, ResetHw
<1>4. CASE MtkI2cDisable
  BY <1>4 DEF MtkI2cDisable
<1>5. CASE InitHwEnd
  BY <1>0, <1>5 DEF InitHwEnd, Programmed
<1>6. CASE XferRefused
  <2>1. xfer' \in Xfers /\ req' \in [w : Nat, r : Nat]
    BY <1>6, RequestsAssumption, BoundsAssumption DEF XferRefused, Xfers
  <2> QED BY <1>6, <2>1 DEF XferRefused
<1>7. CASE XferStart
  <2>1. xfer' \in Xfers /\ req' \in [w : Nat, r : Nat]
    BY <1>7, RequestsAssumption, BoundsAssumption DEF XferStart, Xfers
  <2>2. pc' = "poll" /\ waited' = 0
    BY <1>7 DEF XferStart, Start
  <2> QED BY <1>0, <1>7, <2>1, <2>2 DEF XferStart
<1>8. CASE Poll
  <2>1. pc' \in {"poll", "result"}
    BY <1>8 DEF Poll
  <2>2. waited' \in 0..Budget
    <3>1. waited' = waited \/ (waited' = waited + 1 /\ ~(waited >= Budget))
      BY <1>8 DEF Poll, BudgetSpent
    <3> QED BY <3>1, BoundsAssumption
  <2> QED BY <1>8, <2>1, <2>2 DEF Poll
<1>9. CASE XferSucceeds
  BY <1>0, <1>9 DEF XferSucceeds, Return
<1>10. CASE XferRetries
  BY <1>0, <1>10 DEF XferRetries, Programmed, Start
<1>11. CASE XferFails
  <2>1. status' \in {"TIMEOUT", "NO_RESPONSE", "DEVICE_ERROR", "SUCCESS"}
    <3>1. Outcome \in {"TIMEOUT", "NO_RESPONSE", "DEVICE_ERROR", "SUCCESS"}
      BY DEF Outcome
    <3> QED BY <1>11, <3>1 DEF XferFails, Return
  <2> QED BY <1>0, <1>11, <2>1 DEF XferFails, Programmed, Return
<1>12. CASE HwDone
  BY <1>12 DEF HwDone, Engines
<1>13. CASE HwError("ack") \/ HwError("arb")
  BY <1>13 DEF HwError
<1>14. CASE HwErrorDone \/ FirmwareTransfer
  BY <1>14 DEF HwErrorDone, FirmwareTransfer
<1>15. CASE UNCHANGED vars
  BY <1>15 DEF vars
<1> QED BY <1>1, <1>2, <1>3, <1>4, <1>5, <1>6, <1>7, <1>8, <1>9, <1>10, <1>11,
           <1>12, <1>13, <1>14, <1>15
        DEF Next, Software, Finished

LEMMA ControllerStep == ASSUME Control, Controller, [Next]_vars PROVE Controller'
<1> USE DEF Controller, prepared, try, result, registers, constant
<1>0. Idle \in Engines
  BY BoundsAssumption DEF Idle, Engines, Xfers
<1>1. CASE MtkI2cInitFails \/ InitHwEnd \/ XferRefused \/ XferSucceeds
  BY <1>1 DEF MtkI2cInitFails, InitHwEnd, XferRefused, XferSucceeds
<1>2. CASE MtkI2cInit \/ MtkI2cReinit \/ MtkI2cDisable \/ XferFails
  BY <1>0, <1>2 DEF MtkI2cInit, MtkI2cReinit, MtkI2cDisable, XferFails, ResetHw
<1>3. ASSUME NEW q, NEW x \in Xfers, Start(q, x)
      PROVE  engine' \in Engines /\ acc' = {}
  <2>1. (q.r > 0) \in BOOLEAN /\ Done \cap IntrBits(q) \subseteq Done
    OBVIOUS
  <2> QED BY <1>3, <2>1 DEF Start, Engines
<1>4. CASE XferStart
  <2>1. xfer' \in Xfers
    BY <1>4, BoundsAssumption DEF XferStart, Control, Xfers
  <2>2. engine' \in Engines /\ acc' = {}
    BY <1>3, <1>4, <2>1 DEF XferStart
  <2>3. stat' \subseteq Bits
    BY <1>4 DEF XferStart, StatAtStart
  <2> QED BY <1>4, <2>2, <2>3 DEF XferStart
<1>5. CASE XferRetries
  <2>1. engine' \in Engines /\ acc' = {}
    BY <1>3, <1>5 DEF XferRetries, Control
  <2> QED BY <1>5, <2>1 DEF XferRetries
<1>6. CASE Poll
  BY <1>6 DEF Poll, Collected
<1>7. CASE HwDone
  <2>1. engine.done \subseteq Bits
    BY DEF Engines, Done, Bits
  <2>2. stat' \subseteq Bits
    BY <1>7, <2>1 DEF HwDone, Latch
  <2>3. sent' \in [1..MaxXfers -> Nat]
    <3>1. sent' = [sent EXCEPT ![engine.xfer] = sent[engine.xfer] + 1]
      BY <1>7 DEF HwDone
    <3>2. \A x \in 1..MaxXfers : sent[x] \in Nat /\ sent[x] + 1 \in Nat
      OBVIOUS
    <3> QED BY <3>1, <3>2
  <2> QED BY <1>0, <1>7, <2>2, <2>3 DEF HwDone
<1>8. ASSUME NEW bit \in {"ack", "arb"}, HwError(bit) PROVE Controller'
  <2>1. engine' \in Engines
    BY <1>8 DEF HwError, Engines
  <2>2. stat' \subseteq Bits
    BY <1>8 DEF HwError, Latch, Bits
  <2> QED BY <1>8, <2>1, <2>2 DEF HwError
<1>9. CASE HwErrorDone
  <2>1. stat' \subseteq Bits
    BY <1>9 DEF HwErrorDone, Latch, Engines, Done, Bits
  <2> QED BY <1>0, <1>9, <2>1 DEF HwErrorDone
<1>10. CASE FirmwareTransfer
  BY <1>0, <1>10 DEF FirmwareTransfer, Bits
<1>11. CASE UNCHANGED vars
  BY <1>11 DEF vars
<1> QED BY <1>1, <1>2, <1>4, <1>5, <1>6, <1>7, <1>8, <1>9, <1>10, <1>11
        DEF Next, Software, Finished

-----------------------------------------------------------------------------
(* What a call finds and leaves.                                           *)

LEMMA CallsStep ==
  ASSUME TypeOK, CallsOK, CompletionOK, [Next]_vars
  PROVE  CallsOK'
<1> USE DEF CallsOK, Calling, Idle
<1>1. CASE MtkI2cInitFails \/ MtkI2cInit \/ MtkI2cReinit \/ MtkI2cDisable \/ InitHwEnd
  BY <1>1 DEF MtkI2cInitFails, MtkI2cInit, MtkI2cReinit, MtkI2cDisable, InitHwEnd,
              ResetHw, prepared, registers, result
<1>2. CASE XferRefused
  BY <1>2 DEF XferRefused, registers
<1>3. CASE XferStart
  <2>1. pc' = "poll" /\ tpl' = TRUE /\ xfer' > 0 /\ mask' = irqMaskOn'
    BY <1>3 DEF XferStart, Start, TypeOK, Xfers
  <2>2. initialized' /\ status' = "NONE"
    BY <1>3 DEF XferStart, prepared
  <2> QED BY <2>1, <2>2
<1>4. CASE Poll
  BY <1>4 DEF Poll, prepared, result, TypeOK
<1>5. CASE XferSucceeds
  <2>1. engine.state = "idle"
    <3>1. acc \cap Done # {}
      BY <1>5 DEF XferSucceeds, Outcome
    <3> QED BY <1>5, <3>1 DEF XferSucceeds, CompletionOK
  <2> QED BY <1>5, <2>1 DEF XferSucceeds, Return, registers
<1>6. CASE XferRetries
  BY <1>6 DEF XferRetries, Start, prepared, result
<1>7. CASE XferFails
  BY <1>7 DEF XferFails, Return
<1>8. CASE HwDone \/ HwErrorDone
  BY <1>8 DEF HwDone, HwErrorDone, prepared, result
<1>9. CASE HwError("ack") \/ HwError("arb")
  BY <1>9 DEF HwError, prepared, result
<1>10. CASE FirmwareTransfer
  BY <1>10 DEF FirmwareTransfer, prepared, result
<1>11. CASE UNCHANGED vars
  BY <1>11 DEF vars
<1> QED BY <1>1, <1>2, <1>3, <1>4, <1>5, <1>6, <1>7, <1>8, <1>9, <1>10, <1>11
        DEF Next, Software, Finished

-----------------------------------------------------------------------------
(* What shows of a try.                                                    *)

LEMMA TypeSets ==
  ASSUME TypeOK
  PROVE  /\ acc \subseteq Bits /\ stat \subseteq Bits /\ engine \in Engines
         /\ req.w \in Nat /\ req.r \in Nat
         /\ engine.state \in {"idle", "running", "ending"}
  BY DEF TypeOK, Engines

(* A try starts with nothing shown, a poll only moves what shows, and what *)
(* the controller latches is added.                                        *)
LEMMA StartShows ==
  ASSUME XferStart \/ XferRetries
  PROVE  /\ pc' = "poll" /\ acc' = {} /\ Shown' = {} /\ nacked' = FALSE
         /\ engine'.state = "running" /\ engine'.xfer = xfer'
         /\ engine'.read = (req'.r > 0) /\ engine'.done = Done \cap IntrBits(req')
<1>1. CASE XferStart
  <2>1. stat' \cap IntrBits(req') = {}
    BY <1>1 DEF XferStart, StatAtStart
  <2>2. Start(req', xfer')
    BY <1>1 DEF XferStart
  <2> QED BY <2>1, <2>2 DEF Start, Shown
<1>2. CASE XferRetries
  <2>1. Start(req', xfer') /\ stat' = {}
    BY <1>2 DEF XferRetries
  <2> QED BY <2>1 DEF Start, Shown
<1> QED BY <1>1, <1>2

LEMMA PollShows ==
  ASSUME TypeOK, EngineOK, Poll
  PROVE  /\ acc' = Shown /\ Shown' = Shown
         /\ pc' = "poll" \/ (pc' = "result" /\ mask' = FALSE)
         /\ UNCHANGED <<engine, req, xfer, nacked, latches, sent, rxPage, irqMaskOn>>
<1>1. acc' = acc \cup (stat \cap IntrBits(req))
  BY DEF Poll, Collected
<1>2. stat' = stat \ (stat \cap IntrBits(req)) /\ req' = req
  BY DEF Poll
<1>3. Shown' = acc' \cup (stat' \cap IntrBits(req))
  BY <1>2 DEF Shown, IntrBits, Combined
<1> QED BY <1>1, <1>2, <1>3 DEF Poll, Shown, constant

LEMMA LatchShows ==
  ASSUME NEW bits, Latch(bits), UNCHANGED <<acc, req>>
  PROVE  Shown' = IF Tracks THEN Shown \cup (bits \cap IntrBits(req)) ELSE Shown
  BY DEF Latch, Tracks, Shown, IntrBits, Combined

LEMMA EngineStep ==
  ASSUME TypeOK, CallsOK, EngineOK, [Next]_vars
  PROVE  EngineOK'
<1> USE DEF EngineOK
<1>1. CASE XferStart \/ XferRetries
  BY <1>1, StartShows
<1>2. CASE Poll
  <2>1. pc = "poll" /\ Calling
    BY <1>2 DEF Poll, Calling
  <2>2. Shown \subseteq IntrBits(req)
    BY <2>1 DEF Shown
  <2>3. acc' \subseteq IntrBits(req')
    BY <1>2, <2>2, PollShows
  <2> QED BY <1>2, <2>1, <2>3, PollShows
<1>3. CASE HwDone \/ HwErrorDone
  <2>1. engine'.state = "idle" /\ UNCHANGED <<acc, req, pc>>
    BY <1>3 DEF HwDone, HwErrorDone, Idle, try
  <2> QED BY <2>1 DEF Calling, IntrBits, Combined
<1>4. ASSUME NEW bit \in {"ack", "arb"}, HwError(bit) PROVE EngineOK'
  <2>1. engine.state # "idle" /\ UNCHANGED <<acc, req, pc, xfer>>
        /\ UNCHANGED <<engine.xfer, engine.read, engine.done>>
    BY <1>4, TypeSets DEF HwError, try, Engines
  <2>2. Shown' = Shown \/ Shown' = Shown \cup ({bit} \cap IntrBits(req))
    BY <1>4, <2>1, LatchShows DEF HwError
  <2>3. Shown \cap Done = {} => Shown' \cap Done = {}
    BY <1>4, <2>2 DEF Done
  <2>4. acc \subseteq IntrBits(req) => acc' \subseteq IntrBits(req')
    BY <2>1
  <2>5. Calling' = Calling
    BY <2>1 DEF Calling
  <2> QED BY <2>1, <2>3, <2>4, <2>5
<1>5. CASE ~Calling'
  BY <1>5
<1>6. CASE UNCHANGED vars
  <2>1. UNCHANGED <<acc, req, pc, xfer, engine, stat>>
    BY <1>6 DEF vars
  <2> QED BY <2>1 DEF Shown, Calling, IntrBits, Combined
<1>7. MtkI2cInitFails \/ MtkI2cInit \/ MtkI2cReinit \/ MtkI2cDisable \/ InitHwEnd
      \/ XferRefused \/ XferSucceeds \/ XferFails => ~Calling'
  BY DEF MtkI2cInitFails, MtkI2cInit, MtkI2cReinit, MtkI2cDisable, InitHwEnd,
         XferRefused, XferSucceeds, XferFails, Return, Calling
<1>8. FirmwareTransfer => ~Calling'
  BY DEF FirmwareTransfer, Calling, CallsOK
<1> QED BY <1>1, <1>2, <1>3, <1>4, <1>5, <1>6, <1>7, <1>8
        DEF Next, Software, Finished

LEMMA ErrorsStep ==
  ASSUME TypeOK, CallsOK, EngineOK, ErrorsOK, [Next]_vars
  PROVE  ErrorsOK'
<1> USE DEF ErrorsOK
<1>1. CASE XferStart \/ XferRetries
  BY <1>1, StartShows
<1>2. CASE Poll
  <2> SUFFICES ASSUME pc' = "poll" PROVE ErrorsOK'
    OBVIOUS
  <2>1. UNCHANGED <<engine, mask, latches, nacked>> /\ Shown' = Shown /\ pc = "poll"
    BY <1>2, PollShows DEF Poll
  <2> QED BY <2>1 DEF Tracks
<1>3. ASSUME NEW bits, Latch(bits), UNCHANGED <<pc, acc, req, mask, latches>>,
             pc = "poll"
      PROVE  /\ Tracks' = Tracks /\ Shown \subseteq Shown'
             /\ ~Tracks => Shown' = Shown
             /\ Tracks => bits \cap IntrBits(req) \subseteq Shown'
  BY <1>3, LatchShows DEF Tracks
<1>4. CASE HwDone \/ HwErrorDone
  <2> SUFFICES ASSUME pc = "poll" PROVE ErrorsOK'
    BY <1>4 DEF HwDone, HwErrorDone
  <2>1. PICK bits : Latch(bits)
    BY <1>4 DEF HwDone, HwErrorDone
  <2>2. UNCHANGED <<pc, acc, req, mask, latches, nacked>> /\ engine'.state = "idle"
    BY <1>4 DEF HwDone, HwErrorDone, try, constant, Idle
  <2> QED BY <1>3, <2>1, <2>2
<1>5. ASSUME NEW bit \in {"ack", "arb"}, HwError(bit) PROVE ErrorsOK'
  <2> SUFFICES ASSUME pc = "poll" PROVE ErrorsOK'
    BY <1>5 DEF HwError
  <2>1. Latch({bit}) /\ UNCHANGED <<pc, acc, req, mask, latches>>
        /\ (nacked' => nacked \/ bit = "ack")
    BY <1>5 DEF HwError, try, constant
  <2>2. /\ Tracks' = Tracks /\ Shown \subseteq Shown' /\ (~Tracks => Shown' = Shown)
        /\ Tracks => bit \in Shown'
    BY <1>3, <2>1 DEF IntrBits
  <2>3. Tracks => Shown' \cap Errors # {}
    BY <2>2 DEF Errors
  <2> QED BY <2>1, <2>2, <2>3
<1>6. CASE pc' # "poll"
  BY <1>6
<1>7. CASE UNCHANGED vars
  <2>1. UNCHANGED <<acc, req, pc, engine, stat, mask, latches, nacked>>
    BY <1>7 DEF vars
  <2>2. Shown' = Shown /\ Tracks' = Tracks
    BY <2>1 DEF Shown, Tracks, IntrBits, Combined
  <2> QED BY <2>1, <2>2
<1>8. MtkI2cInitFails \/ MtkI2cInit \/ MtkI2cReinit \/ MtkI2cDisable \/ InitHwEnd
      \/ XferRefused \/ XferSucceeds \/ XferFails \/ FirmwareTransfer => pc' # "poll"
  BY DEF MtkI2cInitFails, MtkI2cInit, MtkI2cReinit, MtkI2cDisable, InitHwEnd,
         XferRefused, XferSucceeds, XferFails, Return, FirmwareTransfer, CallsOK, Calling
<1> QED BY <1>1, <1>2, <1>4, <1>5, <1>6, <1>7, <1>8 DEF Next, Software, Finished

LEMMA CompletionStep ==
  ASSUME TypeOK, CallsOK, EngineOK, ErrorsOK, CompletionOK, [Next]_vars
  PROVE  CompletionOK'
<1> USE DEF CompletionOK
<1>1. CASE XferStart \/ XferRetries
  BY <1>1, StartShows
<1>2. CASE Poll
  <2>1. /\ acc' = Shown /\ Shown' = Shown /\ pc = "poll" /\ Calling
        /\ pc' = "poll" \/ pc' = "result"
        /\ UNCHANGED <<engine, req, xfer, nacked, sent, rxPage>>
    BY <1>2, PollShows DEF Poll, Calling
  <2>2. Shown \cap Done # {} => Shown \cap Errors # {} \/ Arrived
    BY <2>1
  <2>3. Arrived' = Arrived
    BY <2>1 DEF Arrived
  <2>4. Shown \cap Done # {} => engine.state = "idle" /\ (nacked => "ack" \in Shown)
    BY <2>1 DEF EngineOK, ErrorsOK
  <2> QED BY <2>1, <2>2, <2>3, <2>4
<1>3. CASE HwDone
  <2>1. /\ UNCHANGED <<pc, acc, req, xfer, nacked>> /\ engine.state # "idle"
        /\ sent' = [sent EXCEPT ![engine.xfer] = @ + 1]
        /\ rxPage' = IF engine.read THEN engine.xfer ELSE rxPage
    BY <1>3 DEF HwDone, try
  <2>2. ASSUME Calling PROVE Arrived'
    <3>1. engine.xfer = xfer /\ engine.read = (req.r > 0) /\ xfer \in 1..MaxXfers
      BY <2>1, <2>2 DEF EngineOK, CallsOK, TypeOK, Xfers
    <3>2. sent'[xfer] = sent[xfer] + 1 /\ sent[xfer] \in Nat
      BY <2>1, <3>1 DEF TypeOK
    <3>3. sent'[xfer] > 0
      BY <3>2
    <3>4. req.r > 0 => rxPage' = xfer
      BY <2>1, <3>1
    <3> QED BY <2>1, <3>3, <3>4 DEF Arrived
  <2>3. pc = "result" => acc \cap Done = {}
    BY <2>1 DEF EngineOK, Calling
  <2> QED BY <2>1, <2>2, <2>3 DEF Calling
<1>4. CASE HwErrorDone
  <2>1. UNCHANGED <<pc, acc, req, mask, latches>> /\ engine.state = "ending"
    BY <1>4 DEF HwErrorDone, try, constant
  <2>2. PICK bits : Latch(bits)
    BY <1>4 DEF HwErrorDone
  <2>3. Shown \subseteq Shown' /\ (~Tracks => Shown' = Shown)
    BY <2>1, <2>2, LatchShows
  <2>4. pc = "poll" /\ Shown' \cap Done # {} => Shown' \cap Errors # {}
    BY <2>1, <2>3 DEF ErrorsOK
  <2>5. pc = "result" => acc \cap Done = {}
    BY <2>1 DEF EngineOK, Calling
  <2> QED BY <2>1, <2>4, <2>5
<1>5. ASSUME NEW bit \in {"ack", "arb"}, HwError(bit) PROVE CompletionOK'
  <2>1. UNCHANGED <<pc, acc, req>> /\ engine.state # "idle" /\ Latch({bit})
    BY <1>5 DEF HwError, try
  <2>2. Calling => acc \cap Done = {} /\ (pc = "poll" => Shown \cap Done = {})
    BY <2>1 DEF EngineOK
  <2>3. Shown' = Shown \/ Shown' = Shown \cup ({bit} \cap IntrBits(req))
    BY <2>1, LatchShows
  <2>4. pc = "poll" => Shown' \cap Done = {}
    BY <1>5, <2>2, <2>3 DEF Done, Calling
  <2> QED BY <2>1, <2>2, <2>4 DEF Calling
<1>6. CASE ~Calling'
  BY <1>6 DEF Calling
<1>7. CASE UNCHANGED vars
  <2>1. UNCHANGED <<acc, req, pc, xfer, engine, stat, nacked, sent, rxPage>>
    BY <1>7 DEF vars
  <2>2. Shown' = Shown /\ Arrived' = Arrived
    BY <2>1 DEF Shown, Arrived, IntrBits, Combined
  <2> QED BY <2>1, <2>2
<1>8. MtkI2cInitFails \/ MtkI2cInit \/ MtkI2cReinit \/ MtkI2cDisable \/ InitHwEnd
      \/ XferRefused \/ XferSucceeds \/ XferFails \/ FirmwareTransfer => ~Calling'
  BY DEF MtkI2cInitFails, MtkI2cInit, MtkI2cReinit, MtkI2cDisable, InitHwEnd,
         XferRefused, XferSucceeds, XferFails, Return, FirmwareTransfer, CallsOK, Calling
<1> QED BY <1>1, <1>2, <1>3, <1>4, <1>5, <1>6, <1>7, <1>8 DEF Next, Software, Finished

(* What a success says of its try.                                         *)
LEMMA SuccessIsOwn ==
  ASSUME TypeOK, CompletionOK, XferSucceeds
  PROVE  engine.state = "idle" /\ ~nacked /\ Arrived
<1>1. pc = "result" /\ acc \cap Done # {} /\ "ack" \notin acc /\ "arb" \notin acc
  BY DEF XferSucceeds, Outcome
<1>2. acc \cap Errors = {}
  BY <1>1 DEF Errors
<1> QED BY <1>1, <1>2 DEF CompletionOK

LEMMA ReturnedStep ==
  ASSUME TypeOK, CallsOK, CompletionOK, ReturnedOK, [Next]_vars
  PROVE  ReturnedOK'
<1> USE DEF ReturnedOK
<1>1. CASE XferSucceeds
  BY <1>1, SuccessIsOwn DEF XferSucceeds
<1>2. CASE XferRefused \/ XferFails
  BY <1>2 DEF XferRefused, XferFails, Return
<1>3. CASE pc' \notin {"idle", "initHw"}
  BY <1>3
<1>4. CASE InitHwEnd \/ MtkI2cInitFails \/ MtkI2cInit \/ MtkI2cReinit \/ FirmwareTransfer
  <2>1. UNCHANGED <<status, nacked>>
    BY <1>4 DEF InitHwEnd, MtkI2cInitFails, MtkI2cInit, MtkI2cReinit,
                FirmwareTransfer, result
  <2>2. pc' \in {"idle", "initHw"} => pc \in {"idle", "initHw"}
    BY <1>4 DEF InitHwEnd, MtkI2cInitFails, MtkI2cInit, MtkI2cReinit, FirmwareTransfer
  <2> QED BY <2>1, <2>2
<1>5. CASE HwDone \/ HwErrorDone \/ HwError("ack") \/ HwError("arb")
  <2>1. engine.state # "idle" /\ pc' = pc
    BY <1>5 DEF HwDone, HwErrorDone, HwError
  <2> QED BY <2>1 DEF CallsOK
<1>6. CASE UNCHANGED vars
  BY <1>6 DEF vars
<1>7. MtkI2cDisable \/ XferStart \/ Poll \/ XferRetries => pc' \notin {"idle", "initHw"}
  BY DEF MtkI2cDisable, XferStart, Start, Poll, XferRetries
<1> QED BY <1>1, <1>2, <1>3, <1>4, <1>5, <1>6, <1>7 DEF Next, Software, Finished

-----------------------------------------------------------------------------
(* How often a transfer is sent, and at which speed.                       *)

LEMMA SentStep ==
  ASSUME TypeOK, CallsOK, EngineOK, SentOK, [Next]_vars
  PROVE  SentOK'
<1> USE DEF SentOK
<1>0. xfer \in Nat /\ \A x \in 1..MaxXfers : sent[x] \in Nat
  BY DEF TypeOK, Xfers
<1>1. CASE XferStart
  <2>1. UNCHANGED <<sent, irqMaskOn>> /\ xfer' = xfer + 1 /\ xfer < MaxXfers
    BY <1>1 DEF XferStart
  <2>2. xfer' \in 1..MaxXfers /\ sent'[xfer'] = 0
    BY <1>0, <2>1, BoundsAssumption
  <2>3. \A x \in 1..MaxXfers : x > xfer' => x > xfer
    BY <1>0, <2>1
  <2> QED BY <2>1, <2>2, <2>3
<1>2. CASE XferRetries
  <2>1. UNCHANGED <<sent, xfer>> /\ ~irqMaskOn /\ irqMaskOn'
    BY <1>2 DEF XferRetries, MaskIsSuspect
  <2> QED BY <2>1
<1>3. CASE HwDone
  <2>1. CASE engine.xfer = xfer /\ xfer \in 1..MaxXfers
    <3>1. /\ UNCHANGED <<xfer, irqMaskOn>> /\ engine'.state = "idle"
          /\ engine.state = "running"
          /\ sent' = [sent EXCEPT ![xfer] = sent[xfer] + 1]
      BY <1>3, <2>1 DEF HwDone, Idle
    <3>2. /\ sent'[xfer] = sent[xfer] + 1
          /\ \A x \in 1..MaxXfers : x # xfer => sent'[x] = sent[x]
      BY <2>1, <3>1 DEF TypeOK
    <3>3. \A x \in 1..MaxXfers : x > xfer => sent'[x] = 0
      BY <1>0, <3>2
    <3>4. CASE sent[xfer] = 0
      <4>1. sent'[xfer] = 1
        BY <3>2, <3>4
      <4>2. \A x \in 1..MaxXfers : sent'[x] = sent[x] \/ sent'[x] = 1
        BY <3>2, <4>1
      <4> QED BY <1>0, <3>1, <3>3, <4>2
    <3>5. CASE irqMaskOn /\ \A x \in 1..MaxXfers : sent[x] <= 1
      <4>1. sent'[xfer] <= 2
        BY <1>0, <2>1, <3>2, <3>5
      <4>2. \A x \in 1..MaxXfers : sent'[x] = 2 => x = xfer
        BY <1>0, <3>2, <3>5
      <4>3. \A x \in 1..MaxXfers : sent'[x] <= 2
        BY <1>0, <3>2, <3>5, <4>1
      <4> QED BY <3>1, <3>3, <3>5, <4>2, <4>3
    <3> QED BY <3>1, <3>4, <3>5
  <2>2. Calling
    <3>1. engine.state # "idle"
      BY <1>3 DEF HwDone
    <3> QED BY <3>1 DEF CallsOK, Calling, TypeOK
  <2>3. engine.xfer = xfer /\ xfer \in 1..MaxXfers
    <3>1. engine.state # "idle"
      BY <1>3 DEF HwDone
    <3>2. xfer > 0 /\ xfer \in 0..MaxXfers /\ engine.xfer = xfer
      BY <2>2, <3>1 DEF CallsOK, EngineOK, TypeOK, Xfers
    <3> QED BY <3>2, BoundsAssumption
  <2> QED BY <2>1, <2>3
<1>4. CASE XferRefused
  <2>1. UNCHANGED <<sent, irqMaskOn, engine>> /\ pc = "idle" /\ xfer' = xfer + 1
    BY <1>4 DEF XferRefused
  <2>2. engine.state = "idle"
    BY <2>1 DEF CallsOK
  <2>3. \A x \in 1..MaxXfers : x > xfer' => x > xfer
    BY <1>0, <2>1
  <2> QED BY <2>1, <2>2, <2>3
<1>5. CASE UNCHANGED <<sent, irqMaskOn, xfer>>
           /\ (engine'.state = "running" => engine.state = "running")
  BY <1>5
<1>6. MtkI2cInitFails \/ InitHwEnd \/ Poll \/ XferSucceeds \/ UNCHANGED vars
        => UNCHANGED <<sent, irqMaskOn, xfer, engine>>
  BY DEF MtkI2cInitFails, InitHwEnd, Poll, XferSucceeds, vars
<1>7. MtkI2cInit \/ MtkI2cReinit \/ MtkI2cDisable \/ XferFails \/ HwErrorDone
      \/ FirmwareTransfer \/ HwError("ack") \/ HwError("arb")
        => UNCHANGED <<sent, irqMaskOn, xfer>>
  BY DEF MtkI2cInit, MtkI2cReinit, MtkI2cDisable, XferFails, HwErrorDone,
         FirmwareTransfer, HwError
<1>8. MtkI2cInit \/ MtkI2cReinit \/ MtkI2cDisable \/ XferFails \/ HwErrorDone
      \/ FirmwareTransfer => engine'.state = "idle"
  BY DEF MtkI2cInit, MtkI2cReinit, MtkI2cDisable, XferFails, HwErrorDone,
         FirmwareTransfer, ResetHw, Idle
<1>9. HwError("ack") \/ HwError("arb") => engine'.state = "ending"
  BY TypeSets DEF HwError, Engines
<1> QED BY <1>1, <1>2, <1>3, <1>4, <1>5, <1>6, <1>7, <1>8, <1>9
        DEF Next, Software, Finished

LEMMA SpeedStep ==
  ASSUME TypeOK, CallsOK, SpeedOK, [Next]_vars
  PROVE  SpeedOK'
<1> USE DEF SpeedOK, SpeedKept, prepared, registers, constant
<1>1. CASE MtkI2cInitFails
  BY <1>1 DEF MtkI2cInitFails
<1>2. CASE MtkI2cInit
  <2>1. pc = "idle" /\ pc' = "initHw" /\ UNCHANGED <<initialized, firmwareRan>>
    BY <1>2 DEF MtkI2cInit
  <2>2. CASE initialized
    <3>1. UNCHANGED <<saved, inherited>>
      BY <1>2, <2>2 DEF MtkI2cInit, MtkSnapshotTiming
    <3> QED BY <2>1, <2>2, <3>1
  <2>3. CASE ~initialized
    <3>1. saved' = timing /\ inherited' = (timing # "reset")
      BY <1>2, <2>3 DEF MtkI2cInit, MtkSnapshotTiming
    <3>2. timing = IF firmwareRan THEN "firmware" ELSE "reset"
      BY <2>1, <2>3
    <3>3. inherited' <=> firmwareRan
      BY <3>1, <3>2
    <3>4. inherited' = firmwareRan
      <4>1. inherited' \in BOOLEAN /\ firmwareRan \in BOOLEAN
        BY <3>1, Zenon DEF TypeOK
      <4> QED BY <3>3, <4>1, Zenon
    <3>5. firmwareRan' => saved' = "firmware"
      BY <2>1, <3>1, <3>2
    <3> QED BY <2>1, <3>4, <3>5, Zenon
  <2> QED BY <2>2, <2>3
<1>3. CASE MtkI2cReinit
  BY <1>3 DEF MtkI2cReinit
<1>4. CASE InitHwEnd
  <2>1. UNCHANGED <<saved, inherited, firmwareRan, rxBuf>> /\ initialized' /\ pc = "initHw"
    BY <1>4 DEF InitHwEnd
  <2>2. inherited = firmwareRan /\ (firmwareRan => saved = "firmware")
    BY <2>1
  <2>3. timing' = IF firmwareRan THEN "firmware" ELSE "ours"
    BY <1>4, <2>2 DEF InitHwEnd, Programmed
  <2> QED BY <2>1, <2>2, <2>3
<1>5. CASE XferRetries \/ XferFails
  <2>1. initialized /\ pc # "initHw" /\ timing' = Programmed
        /\ UNCHANGED <<prepared, firmwareRan>>
    BY <1>5 DEF XferRetries, XferFails, CallsOK, Calling
  <2>2. pc' # "initHw"
    BY <1>5 DEF XferRetries, XferFails, Start, Return
  <2>3. timing' = IF firmwareRan THEN "firmware" ELSE "ours"
    BY <2>1 DEF Programmed
  <2> QED BY <2>1, <2>2, <2>3
<1>6. CASE UNCHANGED <<prepared, timing, firmwareRan>>
           /\ (pc' = "initHw" <=> pc = "initHw")
  BY <1>6
<1>7. MtkI2cDisable \/ XferRefused \/ XferStart \/ Poll \/ XferSucceeds \/ HwDone
      \/ HwErrorDone \/ FirmwareTransfer \/ HwError("ack") \/ HwError("arb")
      \/ UNCHANGED vars => UNCHANGED <<prepared, timing, firmwareRan>>
  BY DEF MtkI2cDisable, XferRefused, XferStart, Poll, XferSucceeds, HwDone,
         HwErrorDone, FirmwareTransfer, HwError, vars
<1>8. MtkI2cDisable \/ XferRefused \/ XferStart \/ Poll \/ XferSucceeds \/ HwDone
      \/ HwErrorDone \/ FirmwareTransfer \/ HwError("ack") \/ HwError("arb")
      \/ UNCHANGED vars => (pc' = "initHw" <=> pc = "initHw")
  BY DEF MtkI2cDisable, XferRefused, XferStart, Start, Poll, XferSucceeds, Return,
         HwDone, HwErrorDone, FirmwareTransfer, HwError, vars
<1> QED BY <1>1, <1>2, <1>3, <1>4, <1>5, <1>6, <1>7, <1>8
        DEF Next, Software, Finished

-----------------------------------------------------------------------------
(* The invariant and what follows from it.                                 *)

LEMMA InitInv == Init => Inv
<1> SUFFICES ASSUME Init PROVE Inv
  OBVIOUS
<1>1. Flags
  <2>1. (timing = "firmware") \in BOOLEAN
    OBVIOUS
  <2> QED BY <2>1, Zenon DEF Init, Flags
<1>2. Control /\ Controller
  <2>1. Idle \in Engines /\ 0 \in Xfers
    BY BoundsAssumption DEF Idle, Engines, Xfers
  <2>2. sent \in [1..MaxXfers -> Nat] /\ stat \subseteq Bits /\ acc \subseteq Bits
    BY DEF Init, Bits
  <2>3. timing \in Timings /\ saved \in Timings
    BY DEF Init, Timings
  <2> QED BY <2>1, <2>2, <2>3, BoundsAssumption DEF Init, Control, Controller
<1>3. CallsOK /\ EngineOK /\ ErrorsOK /\ CompletionOK /\ ReturnedOK
  BY DEF Init, Idle, CallsOK, EngineOK, ErrorsOK, CompletionOK, ReturnedOK, Calling
<1>4. SentOK
  BY DEF Init, Idle, SentOK
<1>5. SpeedOK
  BY DEF Init, SpeedOK, SpeedKept
<1> QED BY <1>1, <1>2, <1>3, <1>4, <1>5, TypeParts DEF Inv

LEMMA NextInv == Inv /\ [Next]_vars => Inv'
<1> SUFFICES ASSUME Inv, [Next]_vars PROVE Inv'
  OBVIOUS
<1>1. /\ TypeOK /\ CallsOK /\ EngineOK /\ ErrorsOK /\ CompletionOK /\ ReturnedOK
      /\ SentOK /\ SpeedOK
  BY DEF Inv
<1>2. TypeOK'
  <2>1. Flags /\ Control /\ Controller
    BY <1>1, TypeParts
  <2>2. Flags' /\ Control' /\ Controller'
    BY <2>1, FlagsStep, ControlStep, ControllerStep DEF Controller
  <2> QED BY <2>2, TypeParts DEF TypeOK, Flags, Control, Controller
<1>3. CallsOK' /\ EngineOK' /\ ErrorsOK' /\ CompletionOK' /\ ReturnedOK'
  BY <1>1, CallsStep, EngineStep, ErrorsStep, CompletionStep, ReturnedStep
<1>4. SentOK' /\ SpeedOK'
  BY <1>1, SentStep, SpeedStep
<1> QED BY <1>2, <1>3, <1>4 DEF Inv

(* What the conjuncts of Inv say of calls, tries and the shared controller *)
(* holds in every state, wherever the firmware's callbacks fall.           *)
THEOREM Invariant == Spec => []Inv
  BY InitInv, NextInv, PTL DEF Spec

(* Every path through MtkI2cInit, MtkI2cXfer and the firmware's callbacks  *)
(* leaves the state well typed; Waited never passes its budget.            *)
THEOREM Types == Spec => []TypeOK
<1>1. Inv => TypeOK
  BY DEF Inv
<1> QED BY <1>1, Invariant, PTL

(* MtkDoTransfer collects INTR_STAT over its polls, so a NAK is reported   *)
(* however late the completion comes.                                      *)
THEOREM NaksAlwaysReported == Spec => []NaksAreReported
<1>1. Inv => NaksAreReported
  BY DEF Inv, ReturnedOK, NaksAreReported
<1> QED BY <1>1, Invariant, PTL

(* The switch to masked polling is for good, so only one transfer in the   *)
(* life of the instance can reach the panel twice.                         *)
THEOREM OneRepetition == Spec => []RepeatedOnce
<1>1. Inv => RepeatedOnce
  <2> SUFFICES ASSUME Inv PROVE RepeatedOnce
    OBVIOUS
  <2> DEFINE twice == {x \in DOMAIN sent : sent[x] = 2}
  <2>1. DOMAIN sent = 1..MaxXfers /\ SentOK
    BY DEF Inv, TypeOK
  <2>2. \A x \in DOMAIN sent : sent[x] <= 2
    BY <2>1 DEF SentOK
  <2>3. twice = {} \/ \E x : twice = {x}
    BY <2>1 DEF SentOK
  <2>4. Cardinality(twice) = 0 \/ Cardinality(twice) = 1
    BY <2>3, FS_EmptySet, FS_Singleton, Zenon
  <2>5. Cardinality(twice) <= 1
    BY <2>4
  <2> QED BY <2>2, <2>5 DEF RepeatedOnce
<1> QED BY <1>1, Invariant, PTL

(* MtkSnapshotTiming comes before the first reset, so every MtkInitHw puts *)
(* back what the firmware had programmed.                                  *)
THEOREM SpeedAlwaysKept == Spec => []SpeedKept
<1>1. Inv => SpeedKept
  BY DEF Inv, SpeedOK
<1> QED BY <1>1, Invariant, PTL

-----------------------------------------------------------------------------
(* The transport is the transfer the HID layer counts on.                  *)

Reported == IF Calling THEN "NONE" ELSE status
OwnBytes == ~Calling /\ Own
Clean == pc \in {"idle", "off"} => engine.state = "idle" /\ ~mask /\ ~tpl

LEMMA InitTransfer == Init => Transfer!Init
<1> SUFFICES ASSUME Init PROVE Transfer!Init
  OBVIOUS
<1>1. Calling = FALSE /\ Reported = "NONE" /\ OwnBytes = FALSE /\ Clean = TRUE
  BY DEF Init, Idle, Calling, Reported, OwnBytes, Own, Clean
<1> QED BY <1>1, Zenon DEF Transfer!Init, Reported, OwnBytes, Clean

(* Each step of the transport, the controller or the firmware is a step of *)
(* the transfer, or none.                                                  *)
LEMMA StepTransfer ==
  ASSUME Inv, Inv', [Next]_vars
  PROVE  [Transfer!Next]_(Transfer!vars)
<1>0. Clean /\ Clean'
  <2>1. CallsOK /\ CallsOK'
    BY DEF Inv
  <2> QED BY <2>1 DEF CallsOK, Clean, Calling
<1>1. ASSUME Calling' = Calling, Reported' = Reported, OwnBytes' = OwnBytes
      PROVE  UNCHANGED Transfer!vars
  <2>1. Clean' = Clean
    BY <1>0 DEF Clean
  <2> QED BY <1>1, <2>1, Zenon DEF Transfer!vars, Reported, OwnBytes, Clean
<1>2. ASSUME Calling, Calling' PROVE UNCHANGED Transfer!vars
  <2>1. Calling' = Calling /\ Reported' = Reported /\ OwnBytes' = OwnBytes
    BY <1>2 DEF Calling, Reported, OwnBytes
  <2> QED BY <1>1, <2>1
<1>3. ASSUME ~Calling, ~Calling', UNCHANGED <<status, sent, xfer, req, rbuf>>
      PROVE  UNCHANGED Transfer!vars
  <2>1. Calling' = Calling /\ Reported' = Reported /\ OwnBytes' = OwnBytes
    BY <1>3 DEF Calling, Reported, OwnBytes, Own
  <2> QED BY <1>1, <2>1
<1>4. ASSUME Calling, ~Calling', status' \in Transfer!Outcomes,
             status' = "SUCCESS" => Own'
      PROVE  Transfer!End
  <2>1. Reported' = status' /\ (OwnBytes' <=> Own')
    BY <1>4 DEF Reported, OwnBytes
  <2>2. Reported' \in Transfer!Outcomes /\ (Reported' = "SUCCESS" => OwnBytes')
        /\ (OwnBytes' => Reported' = "SUCCESS")
    BY <1>4, <2>1 DEF Own
  <2>3. /\ OwnBytes' \in BOOLEAN /\ Clean' \in BOOLEAN /\ Clean' = Clean
        /\ Calling' = FALSE
    BY <1>0, <1>4 DEF OwnBytes, Clean, Calling
  <2> QED BY <1>0, <1>4, <2>2, <2>3, Zenon
          DEF Transfer!End, Reported, OwnBytes, Clean
<1>5. CASE XferRefused
  <2>1. ~Calling /\ ~Calling' /\ Reported' \in {"INVALID_PARAMETER", "NOT_READY"}
        /\ ~OwnBytes' /\ Calling' = Calling
    BY <1>5 DEF XferRefused, Calling, Reported, OwnBytes, Own
  <2>2. Reported' \in Transfer!Refusals
    BY <2>1 DEF Transfer!Refusals
  <2>3. Clean' = Clean
    BY <1>0 DEF Clean
  <2>4. Transfer!Refuse
    BY <2>1, <2>2, <2>3, Zenon DEF Transfer!Refuse, Reported, OwnBytes, Clean
  <2> QED BY <2>4 DEF Transfer!Next
<1>6. CASE XferStart
  <2>1. ~Calling /\ Calling' /\ Reported' = "NONE" /\ ~OwnBytes'
    BY <1>6, StartShows DEF XferStart, Calling, Reported, OwnBytes
  <2>2. Clean' = Clean
    BY <1>0 DEF Clean
  <2>3. Transfer!Begin
    BY <2>1, <2>2, Zenon DEF Transfer!Begin, Reported, OwnBytes, Clean
  <2> QED BY <2>3 DEF Transfer!Next
<1>7. CASE XferSucceeds
  <2>1. Calling /\ ~Calling' /\ status' = "SUCCESS"
        /\ rbuf' = (IF req.r > 0 THEN rxPage ELSE 0) /\ UNCHANGED <<sent, xfer, req>>
    BY <1>7 DEF XferSucceeds, Return, Calling
  <2>2. Arrived
    BY <1>7, SuccessIsOwn DEF Inv
  <2>3. Own'
    BY <2>1, <2>2 DEF Arrived, Own
  <2>4. status' \in Transfer!Outcomes
    BY <2>1 DEF Transfer!Outcomes
  <2> QED BY <1>4, <2>1, <2>3, <2>4 DEF Transfer!Next
<1>8. CASE XferFails
  <2>1. Calling /\ ~Calling' /\ status' = Outcome /\ Outcome # "SUCCESS"
    BY <1>8 DEF XferFails, Return, Calling
  <2>2. Outcome \in {"TIMEOUT", "NO_RESPONSE", "DEVICE_ERROR", "SUCCESS"}
    BY DEF Outcome
  <2>3. status' \in Transfer!Outcomes
    BY <2>1, <2>2 DEF Transfer!Outcomes, Transfer!BusErrors
  <2> QED BY <1>4, <2>1, <2>3 DEF Transfer!Next
<1>9. CASE Poll \/ XferRetries
  BY <1>2, <1>9, StartShows DEF Poll, XferRetries, Calling
<1>10. CASE HwDone \/ HwErrorDone \/ HwError("ack") \/ HwError("arb")
  <2>1. engine.state # "idle" /\ pc' = pc
    BY <1>10 DEF HwDone, HwErrorDone, HwError
  <2>2. Calling /\ Calling'
    BY <2>1 DEF Inv, CallsOK, TypeOK, Calling
  <2> QED BY <1>2, <2>2
<1>11. CASE MtkI2cInitFails \/ MtkI2cInit \/ MtkI2cReinit \/ MtkI2cDisable \/ InitHwEnd
            \/ FirmwareTransfer
  <2>1. UNCHANGED <<status, sent, xfer, req, rbuf>>
    BY <1>11 DEF MtkI2cInitFails, MtkI2cInit, MtkI2cReinit, MtkI2cDisable, InitHwEnd,
                 FirmwareTransfer, result
  <2>2. ~Calling /\ ~Calling'
    BY <1>11 DEF MtkI2cInitFails, MtkI2cInit, MtkI2cReinit, MtkI2cDisable, InitHwEnd,
                 FirmwareTransfer, Calling, Inv, CallsOK
  <2> QED BY <1>3, <2>1, <2>2
<1>12. CASE UNCHANGED vars
  <2>1. Calling' = Calling /\ Reported' = Reported /\ OwnBytes' = OwnBytes
    BY <1>12 DEF vars, Calling, Reported, OwnBytes, Own
  <2> QED BY <1>1, <2>1
<1> QED BY <1>5, <1>6, <1>7, <1>8, <1>9, <1>10, <1>11, <1>12
        DEF Next, Software, Finished

(* Whatever the panel, the bus and the firmware's keyboard do, MtkI2cXfer  *)
(* keeps the safety half of its promise: a success is this transfer's own, *)
(* and no outcome leaves the controller unclean.                           *)
THEOREM ImplementsTransfer == Spec => Transfer!Safe
  BY InitTransfer, StepTransfer, InitInv, NextInv, PTL DEF Spec, Transfer!Safe

=============================================================================
