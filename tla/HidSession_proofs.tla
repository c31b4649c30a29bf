-------------------------- MODULE HidSession_proofs --------------------------
(***************************************************************************)
(* A report TouchPoll takes is its own, unless a result the code ignores   *)
(* left a stuck or disabled controller behind: for any transports, any     *)
(* number of acknowledge tries and any statuses of the firmware.           *)
(***************************************************************************)
EXTENDS HidSession, TLAPS

(* Whenever the controller is unclean somebody has taken note of it, or    *)
(* nobody looked; a poll that reads owes no recovery; what the last poll   *)
(* took is forgotten before the next call; and TouchBringUp has tries      *)
(* left.                                                                   *)
Noted == ~clean => needReinit \/ ignored
ReadOwesNothing == site = "read" => ~needReinit
TakenAtIdle == site # "idle" => accepted = "none"
TriesLeft == site \in BringUpSites => tries < AckTries
Inv ==
  TypeOK /\ Noted /\ ReadOwesNothing /\ TakenAtIdle /\ TriesLeft /\ AcceptedIsOwn

(* Whichever transport carries a transfer out, what it returns is in the   *)
(* vocabulary, a success on a clean controller is its own, and only a bus  *)
(* error can leave the controller otherwise than it was.                   *)
LEMMA TransportKeepsContract ==
  ASSUME TypeOK, NEW isRead \in BOOLEAN, XferReturns(isRead)
  PROVE  /\ calling' = FALSE /\ status' \in Transfer!Outcomes
         /\ own' \in BOOLEAN /\ clean' \in BOOLEAN
         /\ clean /\ status' = "SUCCESS" => own'
         /\ clean' # clean => status' \in Transfer!BusErrors
<1>1. CASE kind = "dw" /\ DwI2cXfer
  BY <1>1 DEF DwI2cXfer, Transfer!End
<1>2. CASE kind = "mtk" /\ MtkI2cXfer
  BY <1>2 DEF MtkI2cXfer, Transfer!End
<1>3. CASE kind = "fw" /\ FwXfer
  BY <1>3 DEF FwXfer, FwStatus, TypeOK, Transfer!Outcomes, Transfer!BusErrors
<1> QED BY <1>1, <1>2, <1>3 DEF XferReturns

(* With what the state is before the call, that is the whole contract.     *)
LEMMA TransportEnds ==
  ASSUME TypeOK, NEW isRead \in BOOLEAN, XferReturns(isRead)
  PROVE  Transfer!End
<1>1. calling
  BY DEF XferReturns, DwI2cXfer, MtkI2cXfer, FwXfer, Transfer!End
<1>2. own' => status' = "SUCCESS"
  BY DEF XferReturns, DwI2cXfer, MtkI2cXfer, FwXfer, Transfer!End
<1> QED BY <1>1, <1>2, TransportKeepsContract DEF Transfer!End

(* The invariant holds when the panel has been found. *)
LEMMA InitInv == Init => Inv
<1> SUFFICES ASSUME Init PROVE Inv
  OBVIOUS
<1> clean \in BOOLEAN /\ ignored = ~clean
  BY DEF Init
<1>0. ignored \in BOOLEAN
  OBVIOUS
<1>1. Noted
  BY <1>0, Zenon DEF Noted
<1>2. /\ calling \in BOOLEAN /\ own \in BOOLEAN /\ needReinit \in BOOLEAN
      /\ stuck \in BOOLEAN /\ works \in BOOLEAN /\ finger \in BOOLEAN
  BY Zenon DEF Init
<1>3. tries \in 0..AckTries /\ TriesLeft
  BY TriesAssumption DEF Init, TriesLeft
<1>4. status = "NONE" /\ kind \in Kinds /\ site = "setPower" /\ ack = "none"
      /\ accepted = "none"
  BY DEF Init
<1>5. TypeOK
  BY <1>0, <1>2, <1>3, <1>4 DEF TypeOK, Sites, BringUpSites
<1>6. ReadOwesNothing /\ TakenAtIdle /\ AcceptedIsOwn
  BY <1>4 DEF ReadOwesNothing, TakenAtIdle, AcceptedIsOwn
<1> QED BY <1>1, <1>3, <1>5, <1>6 DEF Inv

(* Beginning a transfer disturbs nothing. *)
LEMMA CallStep == ASSUME Inv, Call PROVE Inv'
  BY DEF Inv, TypeOK, Noted, ReadOwesNothing, TakenAtIdle, AcceptedIsOwn, Call,
         TriesLeft, driver, world, panel, history, Transfer!Begin

(* The calls whose result is ignored say so when they leave it unclean. *)
LEMMA IgnoringStep ==
  ASSUME Inv, SetPowerEnd \/ ResetEnd \/ AckEnd \/ WakeEnd
  PROVE  Inv'
<1>1. PICK isRead \in BOOLEAN : XferReturns(isRead)
  BY DEF SetPowerEnd, ResetEnd, AckEnd, WakeEnd
<1>2. ignored' = ~clean' /\ site # "idle" /\ UNCHANGED accepted
  BY DEF SetPowerEnd, ResetEnd, AckEnd, WakeEnd, Ignore
<1>3. kind' = kind /\ stuck' = stuck /\ works' = works /\ finger' = finger
  BY <1>1 DEF XferReturns
<1>4. site' \in Sites /\ (site' = "read" => ~needReinit')
  BY DEF SetPowerEnd, ResetEnd, AckEnd, WakeEnd, Sites, BringUpSites
<1>5. needReinit' \in BOOLEAN /\ ack' \in {"none", "coming", "ready"}
  BY DEF SetPowerEnd, ResetEnd, AckEnd, WakeEnd, Found, Inv, TypeOK
<1>6. tries' \in 0..AckTries /\ TriesLeft'
  <2>1. CASE AckEnd
    BY <2>1, TriesAssumption DEF AckEnd, Inv, TypeOK, TriesLeft, BringUpSites
  <2>2. CASE ~AckEnd
    BY <2>2 DEF SetPowerEnd, ResetEnd, WakeEnd, Inv, TypeOK, TriesLeft, BringUpSites
  <2> QED BY <2>1, <2>2
<1>7. accepted' = "none"
  BY <1>2 DEF Inv, TakenAtIdle
<1>8. TypeOK'
  BY <1>1, <1>2, <1>3, <1>4, <1>5, <1>6, <1>7, TransportKeepsContract
  DEF Inv, TypeOK
<1> QED BY <1>2, <1>4, <1>6, <1>7, <1>8
        DEF Inv, Noted, ReadOwesNothing, TakenAtIdle, AcceptedIsOwn, TypeOK

(* A poll that owes nothing goes on to read; one that owes a recovery      *)
(* reads only after the controller was cleaned.                            *)
LEMMA PollStep ==
  ASSUME Inv, PollRead \/ PollReinit \/ PollReinitFails
  PROVE  Inv'
<1> USE DEF Inv, TypeOK, Noted, ReadOwesNothing, TakenAtIdle, TriesLeft,
            AcceptedIsOwn, Sites, BringUpSites
<1>1. CASE PollRead
  BY <1>1 DEF PollRead, transfer, world, panel
<1>2. CASE PollReinit
  BY <1>2 DEF PollReinit, ReinitSucceeds, Transfer!ReinitWorks, world, panel
<1>3. CASE PollReinitFails
  BY <1>3 DEF PollReinitFails, ReinitFails, Transfer!ReinitWorks,
              Transfer!ReinitFails, driver, world, panel
<1> QED BY <1>1, <1>2, <1>3

(* The read of a poll: on a clean controller a success is its own, and     *)
(* whatever leaves the controller unclean asks for a recovery; on an       *)
(* unclean one an ignored result is to blame, and stays so.                *)
LEMMA ReadStep == ASSUME Inv, ReadEnd PROVE Inv'
<1>1. XferReturns(TRUE)
  BY DEF ReadEnd
<1>2. /\ calling' = FALSE /\ status' \in Transfer!Outcomes
      /\ own' \in BOOLEAN /\ clean' \in BOOLEAN
      /\ clean /\ status' = "SUCCESS" => own'
      /\ clean' # clean => status' \in Transfer!BusErrors
  BY <1>1, TransportKeepsContract DEF Inv
<1>3. kind' = kind /\ stuck' = stuck /\ works' = works /\ finger' = finger
  BY <1>1 DEF XferReturns
<1>4. /\ site = "read" /\ site' = "idle" /\ tries' = tries
      /\ needReinit' = (needReinit \/ status' \in Transfer!BusErrors)
      /\ ignored' = (ignored /\ ~clean')
      /\ ack' \in {"none", "coming", "ready"}
      /\ accepted' \in {"none", "own", "alien"}
      /\ accepted' = "alien" => status' = "SUCCESS" /\ ~own'
  BY DEF ReadEnd, Failed, Found, Inv, TypeOK
<1>5. TypeOK'
  BY <1>2, <1>3, <1>4 DEF Inv, TypeOK, Sites
<1>6. ~clean => ignored
  BY <1>4 DEF Inv, Noted, ReadOwesNothing
<1>7. Noted'
  BY <1>2, <1>4, <1>6 DEF Noted, Inv, TypeOK
<1>8. AcceptedIsOwn'
  <2>1. ASSUME accepted' = "alien" PROVE ~clean /\ ~clean'
    <3>1. status' = "SUCCESS" /\ ~own'
      BY <1>4, <2>1
    <3>2. status' \notin Transfer!BusErrors
      BY <3>1 DEF Transfer!BusErrors
    <3> QED BY <1>2, <3>1, <3>2
  <2> QED BY <2>1, <1>4, <1>6 DEF AcceptedIsOwn
<1> QED BY <1>4, <1>5, <1>7, <1>8
        DEF Inv, ReadOwesNothing, TakenAtIdle, TriesLeft, BringUpSites

(* What the hardware, the panel and the finger do is not the driver's.     *)
LEMMA EnvironmentStep == ASSUME Inv, Environment PROVE Inv'
<1>1. UNCHANGED <<calling, status, own, clean, kind, site, tries, needReinit,
                  accepted, ignored>>
  BY DEF Environment, transfer, driver, history
<1>2. stuck' \in BOOLEAN /\ works' \in BOOLEAN /\ finger' \in BOOLEAN
  BY DEF Environment, Inv, TypeOK
<1>3. ack' \in {"none", "coming", "ready"}
  BY DEF Environment, Inv, TypeOK
<1> QED BY <1>1, <1>2, <1>3
        DEF Inv, TypeOK, Noted, ReadOwesNothing, TakenAtIdle, TriesLeft, AcceptedIsOwn

(* A Reset asks for a recovery, which no read of a poll then owes.         *)
LEMMA ResetStep == ASSUME Inv, TouchReset PROVE Inv'
  BY DEF Inv, TypeOK, Noted, ReadOwesNothing, TakenAtIdle, TriesLeft,
         AcceptedIsOwn, TouchReset, transfer, world, panel, history, BringUpSites

(* Every step preserves the invariant.                                     *)
LEMMA NextInv == Inv /\ [Next]_vars => Inv'
<1> SUFFICES ASSUME Inv, [Next]_vars PROVE Inv'
  OBVIOUS
<1>1. CASE Call
  BY <1>1, CallStep
<1>2. CASE SetPowerEnd \/ ResetEnd \/ AckEnd \/ WakeEnd
  BY <1>2, IgnoringStep
<1>3. CASE PollRead \/ PollReinit \/ PollReinitFails
  BY <1>3, PollStep
<1>4. CASE ReadEnd
  BY <1>4, ReadStep
<1>5. CASE Environment
  BY <1>5, EnvironmentStep
<1>6. CASE TouchReset
  BY <1>6, ResetStep
<1>7. CASE UNCHANGED vars
  BY <1>7 DEF vars, transfer, driver, world, panel, history, Inv, TypeOK, Noted,
              ReadOwesNothing, TakenAtIdle, TriesLeft, AcceptedIsOwn
<1> QED BY <1>1, <1>2, <1>3, <1>4, <1>5, <1>6, <1>7 DEF Next, Driver

(* The state of the conversation is what the declarations of the driver    *)
(* allow: in particular what I2cBusXfer returns stays in the vocabulary of *)
(* DwI2cXfer, whatever the firmware's I2C host returns, and the            *)
(* acknowledge loop ends within its tries.                                 *)
THEOREM SessionTypes == Spec => []TypeOK
<1>1. Inv => TypeOK
  BY DEF Inv
<1> QED BY <1>1, InitInv, NextInv, PTL DEF Spec

(* A report TouchPoll takes holds the bytes of its own read, unless a      *)
(* result that TouchBringUp or a poll's wake-up ignores left an unclean    *)
(* controller behind.                                                      *)
THEOREM AcceptedAlwaysOwn == Spec => []AcceptedIsOwn
<1>1. Inv => AcceptedIsOwn
  BY DEF Inv
<1> QED BY <1>1, InitInv, NextInv, PTL DEF Spec

(* Every call of the HID layer, over each of the three transports and      *)
(* whatever the firmware's host answers, is a transfer as I2cTransfer      *)
(* promises it, and between two calls nothing but a re-initialisation      *)
(* touches the controller.  (Not its initial state: detection may hand     *)
(* over an unclean controller.)                                            *)
THEOREM CallsAreTransfers == Spec => [][Transfer!Next]_transfer
<1>1. ASSUME Inv, [Next]_vars PROVE [Transfer!Next]_transfer
  <2> USE DEF Transfer!Next
  <2>1. CASE Call
    BY <2>1 DEF Call
  <2>2. CASE SetPowerEnd \/ ResetEnd \/ AckEnd \/ WakeEnd \/ ReadEnd
    <3>1. PICK isRead \in BOOLEAN : XferReturns(isRead)
      BY <2>2 DEF SetPowerEnd, ResetEnd, AckEnd, WakeEnd, ReadEnd
    <3> QED BY <1>1, <3>1, TransportEnds DEF Inv
  <2>3. CASE PollReinit \/ PollReinitFails
    BY <2>3 DEF PollReinit, PollReinitFails, ReinitSucceeds, ReinitFails
  <2>4. CASE PollRead \/ Environment \/ TouchReset \/ UNCHANGED vars
    BY <2>4 DEF PollRead, Environment, TouchReset, vars
  <2> QED BY <1>1, <2>1, <2>2, <2>3, <2>4 DEF Next, Driver
<1> QED BY <1>1, InitInv, NextInv, PTL DEF Spec
==============================================================================
