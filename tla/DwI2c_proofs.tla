----------------------------- MODULE DwI2c_proofs -----------------------------
(***************************************************************************)
(* Proofs about DwI2c, for FIFOs of any depth, any limits, any lengths and *)
(* any number of transfers: the FIFOs never overflow, a clean success was  *)
(* one transfer on the wire, and the engine implements I2cTransfer.        *)
(***************************************************************************)
EXTENDS DwI2c, SequenceTheorems, FiniteSetTheorems, TLAPS

Active == pc # "idle"

(* The commands the controller took, and how many of each kind these were. *)
Taken == wsent + rqueued - Len(tx)
WDone == IF Taken <= req.w THEN Taken ELSE req.w
RDone == IF Taken <= req.w THEN 0 ELSE Taken - req.w

(* The k-th write, the k-th read and the k-th command of this transfer.    *)
WriteOf(k) ==
  [read |-> FALSE, restart |-> FALSE, stop |-> (k = req.w /\ req.r = 0),
   tag |-> <<xfer, 1>>]
ReadOf(k) ==
  [read |-> TRUE, restart |-> (k = 1 /\ req.w > 0), stop |-> (k = req.r),
   tag |-> <<xfer, k>>]
Command(k) == IF k <= req.w THEN WriteOf(k) ELSE ReadOf(k - req.w)

(* How the loop counts, whatever the controller does. *)
CountsOK ==
  /\ rqueued > 0 => wsent = req.w
  /\ rqueued - rgot <= InflightMax
  /\ Active => req.w + req.r > 0 /\ xfer > 0
  /\ pc \in {"stopAbort", "stopActivity"} => AllMoved
  /\ pc = "recover" => status \in {"DEVICE_ERROR", "TIMEOUT"}
  /\ pc \notin {"idle", "recover"} => status = "NONE"

(* A transfer is sound as long as it runs; unless the last recovery failed *)
(* the controller is on, and no disable is pending.                        *)
SoundOK == (Active => sound = ~stranded) /\ (~stranded => on /\ asked)

(* Between transfers nothing is left. *)
LeftEmpty == ~Active /\ ~stranded => tx = <<>> /\ rx = <<>> /\ line # "held"

(* An abort ends the transfer and is latched until the loop sees it; one   *)
(* that was for the address came before anything was received.             *)
AbortOK ==
  Active /\ ~stranded =>
    /\ pc # "recover" => (nacked <=> abrt # "none")
    /\ nacked => tx = <<>> /\ line # "held"
    /\ pc # "recover" /\ abrt = "noack" => rgot = 0 /\ rx = <<>>

(* Otherwise the TX FIFO holds the commands the controller has yet to take *)
(* and the line tells how far it is.                                       *)
TxOK ==
  Active /\ ~stranded /\ ~nacked =>
    /\ Len(tx) <= wsent + rqueued
    /\ \A i \in 1..Len(tx) : tx[i] = Command(Taken + i)
    /\ line = "held" <=> (0 < Taken /\ Taken < req.w + req.r)
    /\ RDone = rgot + Len(rx)

(* The RX FIFO and RBuf hold the bytes of this transfer, in order. *)
RxOK ==
  Active /\ ~stranded =>
    /\ rgot + Len(rx) <= rqueued
    /\ \A i \in 1..Len(rx) : rx[i] = <<xfer, rgot + i>>
    /\ \A i \in 1..rgot : rbuf[i] = <<xfer, i>>

(* What the wire has seen of this transfer. *)
WireOK ==
  LET body == WireBody([w |-> WDone, r |-> RDone]) IN
    Active /\ ~stranded /\ ~nacked /\ Taken > 0 =>
      wire = IF line = "idle" THEN body \o <<"P">> ELSE body
ReturnedOnWire ==
  pc = "idle" /\ status = "SUCCESS" /\ ~nacked /\ sound =>
    wire = WireShape(req) /\ tx = <<>> /\ line = "idle"

Inv ==
  /\ TypeOK /\ CountsOK /\ SoundOK /\ LeftEmpty /\ AbortOK /\ TxOK /\ RxOK
  /\ WireOK /\ ReturnedOnWire

-----------------------------------------------------------------------------
(* Types.                                                                  *)

LEMMA EmptyFifos ==
  <<>> \in Seq(Cmds) /\ <<>> \in Seq(Bytes) /\ Len(<<>>) = 0 /\ Len(<<>>) <= TxDepth
  BY EmptySeq, DepthAssumption

(* The numbers of a state, for the arithmetic below.                       *)
LEMMA Numbers ==
  ASSUME TypeOK
  PROVE  /\ req.w \in Nat /\ req.r \in Nat /\ xfer \in Nat
         /\ wsent \in Nat /\ rqueued \in Nat /\ rgot \in Nat
         /\ wsent <= req.w /\ rqueued <= req.r /\ rgot <= rqueued
         /\ Len(tx) \in Nat /\ Len(rx) \in Nat
         /\ InflightMax \in Nat /\ InflightMax <= RxDepth
  BY InflightAssumption, LenProperties, BoundAssumption DEF TypeOK

(* The commands, bytes and bus conditions stay what they are.              *)
LEMMA LoopTypes ==
  ASSUME TypeOK, LoopTest \/ LoopPop \/ StopAbort \/ StopActivity
  PROVE  TypeOK'
<1> USE DEF history, hardware, fifos, spins, counters
<1>1. CASE LoopTest
  <2>1. /\ pc' \in {"stopAbort", "idle", "recover", "push"} /\ spin' \in Nat
        /\ abrt' \in {"none", "noack", "other"} /\ status' \in Statuses
    BY <1>1 DEF LoopTest, TypeOK, Statuses, Return, RecoverThenReturn,
                ClassifyAbort, AllMoved
  <2> QED BY <1>1, <2>1 DEF LoopTest, TypeOK
<1>2. CASE LoopPop
  <2>1. rbuf' \in Seq(Bytes) /\ rx' \in Seq(Bytes) /\ Len(rbuf') = rgot'
        /\ rgot' \in 0..rqueued
    <3>1. CASE rgot < rqueued /\ rx # <<>>
      <4>1. Head(rx) \in Bytes /\ Tail(rx) \in Seq(Bytes)
        BY <3>1 DEF TypeOK
      <4>2. /\ rbuf' = Append(rbuf, Head(rx)) /\ rx' = Tail(rx)
            /\ rgot' = rgot + 1
        BY <1>2, <3>1 DEF LoopPop
      <4>3. rbuf' \in Seq(Bytes) /\ Len(rbuf') = Len(rbuf) + 1
        BY <4>1, <4>2, AppendProperties DEF TypeOK
      <4> QED BY <3>1, <4>1, <4>2, <4>3 DEF TypeOK
    <3>2. CASE ~(rgot < rqueued /\ rx # <<>>)
      BY <1>2, <3>2 DEF LoopPop, TypeOK
    <3> QED BY <3>1, <3>2
  <2>2. pc' \in {"loop", "recover"} /\ spin' \in Nat /\ total' \in Nat
        /\ status' \in Statuses
    BY <1>2, SMTT(40) DEF LoopPop, TypeOK, Statuses, RecoverThenReturn
  <2> QED BY <1>2, <2>1, <2>2 DEF LoopPop, TypeOK
<1>3. CASE StopAbort
  BY <1>3 DEF StopAbort, TypeOK, Statuses, Return, RecoverThenReturn, ClassifyAbort
<1>4. CASE StopActivity
  BY <1>4 DEF StopActivity, TypeOK, Statuses, Return
<1> QED BY <1>1, <1>2, <1>3, <1>4

LEMMA PushTypes == ASSUME TypeOK, xfer # 0, LoopPush PROVE TypeOK'
<1>1. ASSUME NEW read \in BOOLEAN, NEW restart \in BOOLEAN, NEW stop \in BOOLEAN,
             TxNotFull, WriteCmd(read, restart, stop)
      PROVE  tx' \in Seq(Cmds) /\ Len(tx') <= TxDepth
  <2>1. [read |-> read, restart |-> restart, stop |-> stop,
         tag |-> <<xfer, rqueued + 1>>] \in Cmds
    BY DEF Cmds, Bytes, TypeOK
  <2> QED BY <1>1, <2>1, DepthAssumption, AppendProperties DEF TypeOK, WriteCmd, TxNotFull
<1>2. tx' \in Seq(Cmds) /\ Len(tx') <= TxDepth
  <2>1. (rqueued = 0 /\ req.w > 0) \in BOOLEAN /\ (rqueued = req.r - 1) \in BOOLEAN
        /\ (wsent = req.w - 1 /\ req.r = 0) \in BOOLEAN
    OBVIOUS
  <2> QED BY <1>1, <2>1 DEF LoopPush, TypeOK
<1>3. wsent' \in 0..req.w /\ rqueued' \in 0..req.r /\ rgot \in 0..rqueued'
  <2>1. CASE wsent < req.w /\ wsent' = wsent + 1 /\ rqueued' = rqueued
    BY <2>1 DEF TypeOK
  <2>2. CASE rqueued < req.r /\ wsent' = wsent /\ rqueued' = rqueued + 1
    BY <2>2 DEF TypeOK
  <2>3. CASE wsent' = wsent /\ rqueued' = rqueued
    BY <2>3 DEF TypeOK
  <2> QED BY <2>1, <2>2, <2>3 DEF LoopPush, MayQueueRead
<1>4. pushed' \in BOOLEAN
  BY DEF LoopPush, TypeOK
<1> QED
  BY <1>2, <1>3, <1>4 DEF LoopPush, TypeOK, spins, hardware, history

LEMMA CallTypes ==
  ASSUME TypeOK, XferStart \/ DwI2cRecover \/ DwI2cInit
  PROVE  TypeOK'
<1> USE DEF history, hardware, fifos, spins, counters, Flushed
<1>1. CASE XferStart
  <2>1. xfer' \in 0..MaxXfers /\ req' \in [w : Nat, r : Nat]
    BY <1>1, RequestsAssumption, BoundAssumption DEF XferStart, TypeOK
  <2>2. pc' \in {"idle", "loop"} /\ status' \in Statuses
        /\ abrt' \in {"none", "noack", "other"}
    BY <1>1 DEF XferStart, TypeOK, Statuses, Return
  <2>3. sound' \in BOOLEAN
    BY <1>1 DEF XferStart, TypeOK
  <2>4. rbuf' \in Seq(Bytes) /\ Len(rbuf') = 0
    BY <1>1, EmptyFifos DEF XferStart
  <2>5. wsent' \in 0..req'.w /\ rqueued' \in 0..req'.r /\ rgot' \in 0..rqueued'
    BY <1>1, <2>1 DEF XferStart
  <2> QED BY <1>1, <2>1, <2>2, <2>3, <2>4, <2>5 DEF XferStart, TypeOK
<1>2. CASE DwI2cRecover
  <2>1. tx' \in Seq(Cmds) /\ Len(tx') <= TxDepth /\ rx' \in Seq(Bytes)
        /\ line' \in {"idle", "held", "stopping"}
        /\ abrt' \in {"none", "noack", "other"}
    BY <1>2, EmptyFifos DEF DwI2cRecover, Reenable, DisableRefused, TypeOK
  <2>2. asked' \in BOOLEAN /\ on' \in BOOLEAN /\ stranded' \in BOOLEAN
    BY <1>2 DEF DwI2cRecover, Reenable, DisableRefused, TypeOK
  <2> QED BY <1>2, <2>1, <2>2 DEF DwI2cRecover, TypeOK
<1>3. CASE DwI2cInit
  <2>1. tx' \in Seq(Cmds) /\ Len(tx') <= TxDepth /\ rx' \in Seq(Bytes)
        /\ line' \in {"idle", "held", "stopping"}
    BY <1>3, EmptyFifos DEF DwI2cInit, Reenable, DisableRefused, TypeOK
  <2>2. asked' \in BOOLEAN /\ on' \in BOOLEAN /\ stranded' \in BOOLEAN
    BY <1>3 DEF DwI2cInit, Reenable, DisableRefused, TypeOK
  <2> QED BY <1>3, <2>1, <2>2 DEF DwI2cInit, TypeOK
<1> QED BY <1>1, <1>2, <1>3

LEMMA HardwareTypes ==
  ASSUME TypeOK, HwExecute \/ HwStop \/ HwStick \/ HwObey \/ HwEnable
  PROVE  TypeOK'
<1> USE DEF history, hardware, fifos, spins, counters, Flushed
<1> DEFINE Conditions == {"S", "W", "Sr", "R", "P"}
<1>1. CASE HwExecute
  <2> DEFINE c == Head(tx)
             condition == IF line = "idle" THEN <<"S">>
                          ELSE IF c.restart THEN Append(wire, "Sr") ELSE wire
  <2>1. c \in Cmds /\ Tail(tx) \in Seq(Cmds) /\ Len(Tail(tx)) <= TxDepth
    <3>1. tx \in Seq(Cmds) /\ tx # <<>>
      BY <1>1 DEF HwExecute, TypeOK
    <3>2. Len(Tail(tx)) = Len(tx) - 1 /\ Len(tx) <= TxDepth /\ Len(tx) \in Nat
      BY <3>1, HeadTailProperties, LenProperties DEF TypeOK
    <3> QED BY <3>1, <3>2, HeadTailProperties, DepthAssumption
  <2>2. condition \in Seq(Conditions)
    <3>1. wire \in Seq(Conditions) /\ <<"S">> \in Seq(Conditions)
      BY DEF TypeOK
    <3>2. Append(wire, "Sr") \in Seq(Conditions)
      BY <3>1, AppendProperties
    <3> QED BY <3>1, <3>2
  <2>3. \A x \in Conditions : condition \o <<x>> \in Seq(Conditions)
                              /\ Append(condition, x) \in Seq(Conditions)
    BY <2>2
  <2>4. c.tag \in Bytes
    BY <2>1 DEF Cmds
  <2>5. CASE Execute(c, condition)
    <3>1. rx' \in Seq(Bytes)
      BY <2>4, <2>5, AppendProperties DEF Execute, TypeOK
    <3>2. wire' \in Seq(Conditions)
      BY <2>3, <2>5 DEF Execute
    <3> QED BY <1>1, <2>1, <2>5, <3>1, <3>2 DEF Execute, HwExecute, TypeOK
  <2>6. CASE (Abort("noack") \/ Abort("other")) /\ wire' \in Seq(Conditions)
    BY <1>1, <2>6, EmptyFifos DEF Abort, HwExecute, TypeOK
  <2> QED BY <1>1, <2>2, <2>3, <2>5, <2>6 DEF HwExecute
<1>2. CASE HwStop
  BY <1>2, AppendProperties DEF HwStop, TypeOK
<1>3. CASE HwStick
  BY <1>3 DEF HwStick, TypeOK
<1>4. CASE HwObey
  <2>1. tx' \in Seq(Cmds) /\ Len(tx') <= TxDepth /\ rx' \in Seq(Bytes)
        /\ line' \in {"idle", "held", "stopping"}
    BY <1>4, EmptyFifos DEF HwObey, TypeOK
  <2>2. on' \in BOOLEAN
    BY <1>4 DEF HwObey, TypeOK
  <2> QED BY <1>4, <2>1, <2>2 DEF HwObey, TypeOK
<1>5. CASE HwEnable
  BY <1>5 DEF HwEnable, TypeOK
<1> QED BY <1>1, <1>2, <1>3, <1>4, <1>5

LEMMA StepTypes == ASSUME TypeOK, xfer # 0 \/ pc = "idle", [Next]_vars PROVE TypeOK'
<1>1. CASE LoopTest \/ LoopPop \/ StopAbort \/ StopActivity
  BY <1>1, LoopTypes
<1>2. CASE LoopPush
  <2>1. xfer # 0
    BY <1>2 DEF LoopPush
  <2> QED BY <1>2, <2>1, PushTypes
<1>3. CASE XferStart \/ DwI2cRecover \/ DwI2cInit
  BY <1>3, CallTypes
<1>4. CASE HwExecute \/ HwStop \/ HwStick \/ HwObey \/ HwEnable
  BY <1>4, HardwareTypes
<1>5. CASE UNCHANGED vars
  BY <1>5 DEF vars, TypeOK
<1> QED BY <1>1, <1>2, <1>3, <1>4, <1>5 DEF Next, Software, Finished
-----------------------------------------------------------------------------
(* The counts and the history, which the controller has no part in.        *)

LEMMA CountsStep ==
  ASSUME TypeOK, CountsOK, [Next]_vars
  PROVE  CountsOK'
<1> USE DEF CountsOK, Active, TypeOK, AllMoved
<1>1. CASE XferStart
  <2>1. req' \in [w : Nat, r : Nat]
    BY <1>1, RequestsAssumption DEF XferStart
  <2> QED BY <1>1, <2>1, InflightAssumption DEF XferStart, Return
<1>2. CASE LoopTest
  <2>1. UNCHANGED <<xfer, req, wsent, rqueued, rgot, rbuf>> /\ pc = "loop"
    BY <1>2 DEF LoopTest, counters
  <2>2. CASE AllMoved /\ pc' = "stopAbort" /\ status' = status
    BY <2>1, <2>2
  <2>3. CASE pc' = "idle" \/ (pc' = "recover" /\ status' = "DEVICE_ERROR")
    BY <2>1, <2>3
  <2>4. CASE pc' = "push" /\ status' = status
    BY <2>1, <2>4
  <2>5. \/ AllMoved /\ pc' = "stopAbort" /\ status' = status
        \/ pc' = "idle" \/ (pc' = "recover" /\ status' = "DEVICE_ERROR")
        \/ pc' = "push" /\ status' = status
    <3> HIDE DEF AllMoved, CountsOK
    <3> QED BY <1>2 DEF LoopTest, ClassifyAbort, Return, RecoverThenReturn
  <2> QED BY <2>2, <2>3, <2>4, <2>5
<1>3. CASE LoopPush
  <2>1. UNCHANGED <<xfer, req, rgot, rbuf, status>> /\ pc = "push" /\ pc' = "pop"
    BY <1>3 DEF LoopPush
  <2>2. CASE wsent < req.w /\ wsent' = wsent + 1 /\ rqueued' = rqueued
    BY <2>1, <2>2
  <2>3. CASE MayQueueRead /\ wsent' = wsent /\ rqueued' = rqueued + 1
    BY <2>1, <2>3, InflightAssumption DEF MayQueueRead
  <2>4. CASE wsent' = wsent /\ rqueued' = rqueued
    BY <2>1, <2>4
  <2>5. \/ wsent < req.w /\ wsent' = wsent + 1 /\ rqueued' = rqueued
        \/ MayQueueRead /\ wsent' = wsent /\ rqueued' = rqueued + 1
        \/ wsent' = wsent /\ rqueued' = rqueued
    BY <1>3 DEF LoopPush
  <2> QED BY <2>2, <2>3, <2>4, <2>5
<1>4. CASE LoopPop
  <2>1. UNCHANGED <<xfer, req, wsent, rqueued>> /\ pc = "pop"
    BY <1>4 DEF LoopPop
  <2>2. rgot' \in Nat /\ rgot <= rgot'
    BY <1>4, SMTT(40) DEF LoopPop
  <2>3. \/ pc' = "loop" /\ status' = status
        \/ pc' = "recover" /\ status' = "TIMEOUT"
    BY <1>4 DEF LoopPop, RecoverThenReturn
  <2>4. rqueued' - rgot' <= InflightMax
    <3> HIDE DEF TypeOK
    <3> QED BY <2>1, <2>2, Numbers
  <2>5. pc' \notin {"stopAbort", "stopActivity", "idle"}
    BY <2>3
  <2>6. /\ pc' = "recover" => status' \in {"DEVICE_ERROR", "TIMEOUT"}
        /\ pc' \notin {"idle", "recover"} => status' = "NONE"
    BY <2>1, <2>3
  <2> QED BY <2>1, <2>4, <2>5, <2>6
<1>5. CASE StopAbort \/ StopActivity
  BY <1>5 DEF StopAbort, StopActivity, ClassifyAbort, Return, RecoverThenReturn,
              counters
<1>6. CASE DwI2cRecover
  BY <1>6 DEF DwI2cRecover, counters
<1>7. CASE UNCHANGED <<pc, xfer, req, counters, status>>
  BY <1>7 DEF counters
<1> QED
  BY <1>1, <1>2, <1>3, <1>4, <1>5, <1>6, <1>7
  DEF Next, Software, DwI2cInit, HwExecute, HwStop, HwStick, HwObey,
      HwEnable, Finished, vars, counters

LEMMA SoundStep ==
  ASSUME TypeOK, SoundOK, [Next]_vars
  PROVE  SoundOK'
<1> USE DEF SoundOK, Active, TypeOK
<1>1. CASE XferStart
  BY <1>1 DEF XferStart, Return, hardware
<1>2. CASE LoopTest \/ LoopPush \/ LoopPop \/ StopAbort \/ StopActivity
  BY <1>2 DEF LoopTest, LoopPush, LoopPop, StopAbort, StopActivity, hardware, history
<1>3. CASE DwI2cRecover \/ DwI2cInit
  BY <1>3 DEF DwI2cRecover, DwI2cInit, Reenable, DisableRefused
<1>4. CASE HwExecute \/ HwStop \/ HwStick \/ HwObey \/ HwEnable
  BY <1>4 DEF HwExecute, HwStop, HwStick, HwObey, HwEnable, hardware, history
<1>5. CASE UNCHANGED vars
  BY <1>5 DEF vars
<1> QED BY <1>1, <1>2, <1>3, <1>4, <1>5 DEF Next, Software, Finished
-----------------------------------------------------------------------------
(* What the FIFOs hold.                                                    *)

Fifos == LeftEmpty /\ AbortOK /\ TxOK /\ RxOK

(* A transfer begins with both FIFOs empty.                                *)
LEMMA StartFifos ==
  ASSUME TypeOK, CountsOK, SoundOK, Fifos, XferStart
  PROVE  Fifos'
<1>1. UNCHANGED <<tx, rx, line, stranded>> /\ pc = "idle"
  BY DEF XferStart, fifos
<1>2. wsent' = 0 /\ rqueued' = 0 /\ rgot' = 0 /\ nacked' = FALSE
  BY DEF XferStart
<1>3. req' \in [w : Nat, r : Nat]
  BY RequestsAssumption DEF XferStart
<1>4. ~stranded => tx = <<>> /\ rx = <<>> /\ line # "held"
  BY <1>1 DEF Fifos, LeftEmpty, Active
<1>5. Active' => abrt' = "none" /\ pc' = "loop"
  BY DEF Active, XferStart, Return
<1>6. LeftEmpty'
  BY <1>1, <1>4 DEF LeftEmpty
<1>7. AbortOK'
  BY <1>1, <1>2, <1>4, <1>5 DEF AbortOK
<1>8. TxOK' /\ RxOK'
  <2> SUFFICES ASSUME ~stranded PROVE TxOK' /\ RxOK'
    BY <1>1 DEF TxOK, RxOK
  <2>0. req'.w \in Nat
    BY <1>3
  <2>1. Len(tx') = 0 /\ Len(rx') = 0 /\ line' # "held"
    BY <1>1, <1>4, EmptyFifos
  <2>2. Taken' = 0
    BY <1>2, <2>1 DEF Taken
  <2>3. RDone' = 0
    BY <2>0, <2>2 DEF RDone
  <2>4. TxOK'
    BY <1>2, <2>1, <2>2, <2>3 DEF TxOK
  <2>5. RxOK'
    BY <1>2, <2>1 DEF RxOK
  <2> QED BY <2>4, <2>5
<1> QED BY <1>6, <1>7, <1>8 DEF Fifos

(* Leaving the loop moves nothing; an address NAK leaves both empty.       *)
LEMMA WaitFifos ==
  ASSUME TypeOK, CountsOK, SoundOK, Fifos, LoopTest \/ StopAbort \/ StopActivity
  PROVE  Fifos'
<1>1. UNCHANGED <<xfer, req, wsent, rqueued, rgot, rbuf, tx, rx, line, stranded,
                  nacked>>
  BY DEF LoopTest, StopAbort, StopActivity, counters, fifos, history
<1>2. Active /\ pc # "recover"
  BY DEF LoopTest, StopAbort, StopActivity, Active
<1>3. \/ pc' # "idle" /\ pc' # "recover" /\ abrt' = abrt
      \/ pc' = "recover"
      \/ pc' = "idle" /\ abrt = "noack"
      \/ pc' = "idle" /\ pc = "stopActivity" /\ line = "idle" /\ tx = <<>>
  BY DEF LoopTest, StopAbort, StopActivity, ClassifyAbort, Return,
         RecoverThenReturn, MasterActive
<1>4. TxOK' /\ RxOK'
  <2>1. UNCHANGED <<Taken, RDone>>
    BY <1>1 DEF Taken, RDone
  <2>2. \A k : Command(k)' = Command(k)
    BY <1>1 DEF Command, WriteOf, ReadOf
  <2>3. TxOK'
    BY <1>1, <1>2, <2>1, <2>2 DEF Fifos, TxOK, Active
  <2>4. RxOK'
    BY <1>1, <1>2 DEF Fifos, RxOK, Active
  <2> QED BY <2>3, <2>4
<1>5. AbortOK'
  BY <1>1, <1>2, <1>3 DEF Fifos, AbortOK, Active
<1>6. LeftEmpty'
  <2> SUFFICES ASSUME pc' = "idle", ~stranded
               PROVE  tx = <<>> /\ rx = <<>> /\ line # "held"
    BY <1>1 DEF LeftEmpty, Active
  <2>1. CASE abrt = "noack"
    BY <1>2, <2>1 DEF Fifos, AbortOK
  <2>2. CASE pc = "stopActivity" /\ line = "idle" /\ tx = <<>>
    <3>1. rgot = rqueued
      BY <2>2 DEF CountsOK, AllMoved
    <3>2. Len(rx) = 0
      BY <1>2, <3>1 DEF Fifos, RxOK, TypeOK
    <3> QED BY <2>2, <3>2 DEF TypeOK
  <2> QED BY <1>3, <2>1, <2>2
<1> QED BY <1>4, <1>5, <1>6 DEF Fifos

(* The command that is queued is the next one of the transfer.             *)
LEMMA PushCommand ==
  ASSUME TypeOK, CountsOK, SoundOK, Fifos, LoopPush, ~stranded, ~nacked
  PROVE  /\ \/ UNCHANGED <<tx, wsent, rqueued>>
            \/ /\ tx' = Append(tx, Command(wsent + rqueued + 1))
               /\ \/ wsent' = wsent + 1 /\ rqueued' = rqueued
                  \/ wsent' = wsent /\ rqueued' = rqueued + 1
         /\ Taken' = Taken /\ Taken \in Nat
<1>1. on /\ abrt = "none" /\ Active /\ Len(tx) <= wsent + rqueued
  <2>1. Active /\ pc # "recover"
    BY DEF LoopPush, Active
  <2> QED BY <2>1 DEF Fifos, AbortOK, TxOK, SoundOK
<1>2. ASSUME wsent < req.w,
             WriteCmd(FALSE, FALSE, wsent = req.w - 1 /\ req.r = 0)
      PROVE  tx' = Append(tx, Command(wsent + rqueued + 1))
  <2>1. rqueued = 0 /\ rqueued + 1 = 1
    BY <1>2, Numbers DEF CountsOK
  <2>2. tx' = Append(tx, [read |-> FALSE, restart |-> FALSE,
                          stop |-> wsent = req.w - 1 /\ req.r = 0,
                          tag |-> <<xfer, rqueued + 1>>])
    BY <1>1, <1>2 DEF WriteCmd
  <2>3. (wsent = req.w - 1 /\ req.r = 0) = (wsent + 1 = req.w /\ req.r = 0)
    BY Numbers
  <2>4. tx' = Append(tx, WriteOf(wsent + 1))
    BY <2>1, <2>2, <2>3, Zenon DEF WriteOf
  <2>5. wsent + rqueued + 1 = wsent + 1 /\ wsent + 1 <= req.w
    BY <1>2, <2>1, Numbers
  <2> QED BY <2>4, <2>5, Zenon DEF Command
<1>3. ASSUME MayQueueRead,
             WriteCmd(TRUE, rqueued = 0 /\ req.w > 0, rqueued = req.r - 1)
      PROVE  tx' = Append(tx, Command(wsent + rqueued + 1))
  <2>1. tx' = Append(tx, [read |-> TRUE, restart |-> rqueued = 0 /\ req.w > 0,
                          stop |-> rqueued = req.r - 1,
                          tag |-> <<xfer, rqueued + 1>>])
    BY <1>1, <1>3 DEF WriteCmd
  <2>2. (rqueued = 0 /\ req.w > 0) = (rqueued + 1 = 1 /\ req.w > 0)
    BY Numbers
  <2>3. (rqueued = req.r - 1) = (rqueued + 1 = req.r)
    BY Numbers
  <2>4. tx' = Append(tx, ReadOf(rqueued + 1))
    BY <2>1, <2>2, <2>3, Zenon DEF ReadOf
  <2>5. ~(wsent + rqueued + 1 <= req.w)
    BY <1>3, Numbers DEF MayQueueRead
  <2>6. (wsent + rqueued + 1) - req.w = rqueued + 1
    BY <1>3, Numbers DEF MayQueueRead
  <2> QED BY <2>4, <2>5, <2>6, Zenon DEF Command
<1>4. CASE UNCHANGED <<tx, wsent, rqueued>>
  BY <1>1, <1>4, Numbers DEF Taken
<1>5. ASSUME tx' = Append(tx, Command(wsent + rqueued + 1)),
             \/ wsent' = wsent + 1 /\ rqueued' = rqueued
             \/ wsent' = wsent /\ rqueued' = rqueued + 1
      PROVE  Taken' = Taken /\ Taken \in Nat
  <2>1. tx \in Seq(Cmds \cup {Command(wsent + rqueued + 1)})
    BY SeqMonotonic DEF TypeOK
  <2>2. Len(tx') = Len(tx) + 1
    BY <1>5, <2>1, AppendProperties
  <2>3. Taken \in Nat
    BY <1>1, Numbers DEF Taken
  <2>4. CASE wsent' = wsent + 1 /\ rqueued' = rqueued
    BY <2>2, <2>3, <2>4, Numbers DEF Taken
  <2>5. CASE wsent' = wsent /\ rqueued' = rqueued + 1
    BY <2>2, <2>3, <2>5, Numbers DEF Taken
  <2> QED BY <1>5, <2>3, <2>4, <2>5
<1>6. CASE /\ TxNotFull /\ wsent < req.w
           /\ WriteCmd(FALSE, FALSE, wsent = req.w - 1 /\ req.r = 0)
           /\ wsent' = wsent + 1 /\ rqueued' = rqueued
  BY <1>2, <1>5, <1>6
<1>7. CASE /\ TxNotFull /\ MayQueueRead
           /\ WriteCmd(TRUE, rqueued = 0 /\ req.w > 0, rqueued = req.r - 1)
           /\ rqueued' = rqueued + 1 /\ wsent' = wsent
  BY <1>3, <1>5, <1>7
<1> QED BY <1>4, <1>6, <1>7 DEF LoopPush

(* A queued command leaves the controller as far as it was.                *)
LEMMA PushFifos ==
  ASSUME TypeOK, CountsOK, SoundOK, Fifos, LoopPush
  PROVE  Fifos'
<1>1. /\ UNCHANGED <<xfer, req, rgot, rbuf, rx, line, abrt, nacked, stranded>>
      /\ pc = "push" /\ pc' = "pop"
  BY DEF LoopPush, history
<1>2. Active /\ Active' /\ LeftEmpty'
  BY <1>1 DEF Active, LeftEmpty
<1>3. RxOK'
  <2>1. rqueued' = rqueued \/ rqueued' = rqueued + 1
    BY DEF LoopPush
  <2>2. rgot + Len(rx) <= rqueued => rgot + Len(rx) <= rqueued'
    BY <2>1, Numbers
  <2> QED BY <1>1, <1>2, <2>2 DEF Fifos, RxOK
<1>4. AbortOK'
  <2> SUFFICES ASSUME ~stranded, abrt # "none" PROVE tx' = tx
    BY <1>1, <1>2 DEF Fifos, AbortOK, Active
  <2> QED BY DEF LoopPush, WriteCmd
<1>5. TxOK'
  <2> SUFFICES ASSUME ~stranded, ~nacked PROVE TxOK'
    BY <1>1 DEF TxOK
  <2>1. /\ Len(tx) <= wsent + rqueued
        /\ line = "held" <=> (0 < Taken /\ Taken < req.w + req.r)
        /\ RDone = rgot + Len(rx) /\ \A i \in 1..Len(tx) : tx[i] = Command(Taken + i)
    BY <1>2 DEF Fifos, TxOK
  <2>2. Taken' = Taken /\ Taken \in Nat
    BY PushCommand
  <2>3. line' = "held" <=> (0 < Taken' /\ Taken' < req'.w + req'.r)
    BY <1>1, <2>1, <2>2
  <2>4. RDone' = rgot' + Len(rx')
    BY <1>1, <2>1, <2>2 DEF RDone
  <2>5. CASE UNCHANGED <<tx, wsent, rqueued>>
    BY <1>1, <2>1, <2>2, <2>3, <2>4, <2>5 DEF TxOK, Command, WriteOf, ReadOf
  <2>6. CASE /\ tx' = Append(tx, Command(wsent + rqueued + 1))
             /\ \/ wsent' = wsent + 1 /\ rqueued' = rqueued
                \/ wsent' = wsent /\ rqueued' = rqueued + 1
    <3>1. tx \in Seq(Cmds \cup {Command(wsent + rqueued + 1)})
      BY SeqMonotonic DEF TypeOK
    <3>2. /\ Len(tx') = Len(tx) + 1
          /\ \A i \in 1..Len(tx) : tx'[i] = tx[i]
          /\ tx'[Len(tx) + 1] = Command(wsent + rqueued + 1)
      BY <2>6, <3>1, AppendProperties
    <3>3. ASSUME NEW i \in 1..Len(tx') PROVE tx'[i] = Command(Taken + i)
      <4>1. CASE i \in 1..Len(tx)
        BY <2>1, <3>2, <4>1
      <4>2. CASE i = Len(tx) + 1
        <5>1. wsent + rqueued + 1 = Taken + i
          BY <4>2, Numbers, SMTT(40) DEF Taken
        <5> QED BY <3>2, <4>2, <5>1
      <4>3. i \in 1..Len(tx) \/ i = Len(tx) + 1
        BY <3>2, Numbers
      <4> QED BY <4>1, <4>2, <4>3
    <3>4. ASSUME NEW i \in 1..Len(tx') PROVE tx'[i] = (Command(Taken + i))'
      <4>1. (Command(Taken + i))' = Command(Taken + i)
        BY <1>1, <2>2 DEF Command, WriteOf, ReadOf
      <4> QED BY <3>3, <4>1
    <3>5. Len(tx') <= wsent' + rqueued'
      BY <2>1, <2>6, <3>2, Numbers, SMTT(40)
    <3> QED BY <2>3, <2>4, <3>4, <3>5 DEF TxOK
  <2> QED BY <2>5, <2>6, PushCommand
<1> QED BY <1>2, <1>3, <1>4, <1>5 DEF Fifos

(* Taking a byte out of the RX FIFO into RBuf keeps their order.           *)
LEMMA PopFifos ==
  ASSUME TypeOK, CountsOK, SoundOK, Fifos, LoopPop
  PROVE  Fifos'
<1>1. /\ UNCHANGED <<xfer, req, wsent, rqueued, tx, line, abrt, nacked, stranded>>
      /\ pc = "pop" /\ pc' \in {"loop", "recover"}
  BY DEF LoopPop, RecoverThenReturn, history
<1>2. Active /\ Active' /\ LeftEmpty' /\ Taken' = Taken
  BY <1>1 DEF Active, LeftEmpty, Taken
<1>3. /\ RDone' = RDone
      /\ \A k : Command(k)' = Command(k)
  BY <1>1, <1>2 DEF RDone, Command, WriteOf, ReadOf
<1>4. CASE UNCHANGED <<rbuf, rgot, rx>>
  <2>1. AbortOK'
    BY <1>1, <1>2, <1>4 DEF Fifos, AbortOK
  <2>2. TxOK'
    BY <1>1, <1>2, <1>3, <1>4 DEF Fifos, TxOK
  <2>3. RxOK'
    BY <1>1, <1>2, <1>4 DEF Fifos, RxOK
  <2> QED BY <1>2, <2>1, <2>2, <2>3 DEF Fifos
<1>5. CASE /\ rgot < rqueued /\ rx # <<>>
           /\ rbuf' = Append(rbuf, Head(rx)) /\ rgot' = rgot + 1 /\ rx' = Tail(rx)
  <2>1. /\ Head(rx) = rx[1] /\ Head(rx) \in Bytes
        /\ Len(rx') = Len(rx) - 1 /\ Len(rx) \in Nat
        /\ \A i \in 1..Len(rx') : rx'[i] = rx[i + 1]
    BY <1>5, HeadTailProperties, LenProperties DEF TypeOK
  <2>2. Len(rx) # 0
    BY <1>5, EmptySeq DEF TypeOK
  <2>3. /\ \A i \in 1..rgot : rbuf'[i] = rbuf[i]
        /\ rbuf'[rgot + 1] = rx[1]
    BY <1>5, <2>1, AppendProperties DEF TypeOK
  <2>4. AbortOK'
    BY <1>1, <1>2, <1>5 DEF Fifos, AbortOK
  <2>5. TxOK'
    <3>1. rgot' + Len(rx') = rgot + Len(rx)
      BY <1>5, <2>1, <2>2, Numbers
    <3> QED BY <1>1, <1>2, <1>3, <3>1 DEF Fifos, TxOK
  <2>6. RxOK'
    <3> SUFFICES ASSUME ~stranded PROVE RxOK'
      BY <1>1 DEF RxOK
    <3>1. /\ rgot + Len(rx) <= rqueued
          /\ \A i \in 1..Len(rx) : rx[i] = <<xfer, rgot + i>>
          /\ \A i \in 1..rgot : rbuf[i] = <<xfer, i>>
      BY <1>2 DEF Fifos, RxOK
    <3>2. rgot' + Len(rx') <= rqueued'
      BY <1>1, <1>5, <2>1, <2>2, <3>1, Numbers
    <3>3. ASSUME NEW i \in 1..Len(rx') PROVE rx'[i] = <<xfer, rgot' + i>>
      <4>1. i + 1 \in 1..Len(rx)
        BY <2>1, <2>2
      <4>2. rx[i + 1] = <<xfer, rgot + (i + 1)>>
        BY <3>1, <4>1
      <4>3. rgot + (i + 1) = rgot' + i
        BY <1>5, Numbers
      <4> QED BY <2>1, <4>2, <4>3
    <3>4. ASSUME NEW i \in 1..rgot' PROVE rbuf'[i] = <<xfer, i>>
      <4>1. CASE i \in 1..rgot
        BY <2>3, <3>1, <4>1
      <4>2. CASE i = rgot + 1
        <5>1. rx[1] = <<xfer, rgot + 1>>
          BY <2>1, <2>2, <3>1
        <5> QED BY <2>3, <4>2, <5>1
      <4>3. i \in 1..rgot \/ i = rgot + 1
        BY <1>5, Numbers
      <4> QED BY <4>1, <4>2, <4>3
    <3> QED BY <1>1, <3>2, <3>3, <3>4 DEF RxOK
  <2> QED BY <1>2, <2>4, <2>5, <2>6 DEF Fifos
<1> QED BY <1>4, <1>5 DEF LoopPop

(* A recovery or a re-initialisation that works leaves nothing behind; one *)
(* that does not is remembered.                                            *)
LEMMA CleanFifos ==
  ASSUME TypeOK, Fifos, DwI2cRecover \/ DwI2cInit
  PROVE  Fifos'
<1>1. pc' = "idle"
  BY DEF DwI2cRecover, DwI2cInit
<1>2. LeftEmpty'
  BY DEF LeftEmpty, DwI2cRecover, DwI2cInit, Reenable, DisableRefused, Flushed
<1> QED BY <1>1, <1>2 DEF Fifos, AbortOK, TxOK, RxOK, Active

LEMMA WriteFields ==
  ASSUME NEW k
  PROVE  /\ ~WriteOf(k).read /\ ~WriteOf(k).restart
         /\ WriteOf(k).stop <=> (k = req.w /\ req.r = 0)
  BY Zenon DEF WriteOf

LEMMA ReadFields ==
  ASSUME NEW k
  PROVE  /\ ReadOf(k).read /\ ReadOf(k).tag = <<xfer, k>>
         /\ ReadOf(k).restart <=> (k = 1 /\ req.w > 0)
         /\ ReadOf(k).stop <=> k = req.r
  BY Zenon DEF ReadOf

(* What the controller meets at the head of the TX FIFO.                   *)
LEMMA NextCommand ==
  ASSUME TypeOK, CountsOK, Fifos, HwExecute, Active, ~stranded
  PROVE  /\ nacked = FALSE /\ Taken \in Nat
         /\ Taken + 1 <= wsent + rqueued /\ Taken + 1 <= req.w + req.r
         /\ Head(tx) = Command(Taken + 1)
         /\ Len(Tail(tx)) = Len(tx) - 1
         /\ \A i \in 1..Len(Tail(tx)) : Tail(tx)[i] = Command((Taken + 1) + i)
<1>1. tx \in Seq(Cmds) /\ tx # <<>>
  BY DEF TypeOK, HwExecute
<1>2. Len(tx) # 0
  BY <1>1, EmptySeq
<1>3. nacked = FALSE
  BY <1>1 DEF Fifos, AbortOK, TypeOK
<1>4. Len(tx) <= wsent + rqueued /\ \A i \in 1..Len(tx) : tx[i] = Command(Taken + i)
  BY <1>3 DEF Fifos, TxOK
<1>5. Taken \in Nat /\ Taken + 1 <= wsent + rqueued
  BY <1>2, <1>4, Numbers DEF Taken
<1>6. Taken + 1 <= req.w + req.r
  BY <1>5, Numbers
<1>7. Head(tx) = tx[1] /\ Len(Tail(tx)) = Len(tx) - 1
      /\ \A i \in 1..Len(Tail(tx)) : Tail(tx)[i] = tx[i + 1]
  BY <1>1, HeadTailProperties
<1>8. Head(tx) = Command(Taken + 1)
  BY <1>2, <1>4, <1>7, Numbers
<1>9. ASSUME NEW i \in 1..Len(Tail(tx)) PROVE Tail(tx)[i] = Command((Taken + 1) + i)
  <2>1. i + 1 \in 1..Len(tx)
    BY <1>2, <1>7, Numbers
  <2>2. tx[i + 1] = Command(Taken + (i + 1))
    BY <1>4, <2>1
  <2>3. Taken + (i + 1) = (Taken + 1) + i
    BY <1>5
  <2> QED BY <1>7, <2>2, <2>3
<1> QED BY <1>3, <1>5, <1>6, <1>7, <1>8, <1>9

(* An abort comes before anything was received, if it is for the address,  *)
(* and ends the transfer.                                                  *)
LEMMA AbortFifos ==
  ASSUME TypeOK, CountsOK, Fifos, HwExecute, Active, ~stranded,
         NEW kind, Abort(kind), kind \in {"noack", "other"},
         kind = "noack" => line = "idle" \/ Head(tx).restart
  PROVE  Fifos'
<1>1. /\ UNCHANGED <<pc, xfer, req, wsent, rqueued, rgot, rbuf, rx, stranded>>
      /\ tx' = <<>> /\ line' = "stopping" /\ abrt' = kind /\ nacked' = TRUE
  BY DEF HwExecute, Abort, counters
<1>2. LeftEmpty' /\ TxOK'
  BY <1>1 DEF LeftEmpty, TxOK, Active
<1>3. RxOK'
  BY <1>1 DEF Fifos, RxOK, Active
<1>4. ASSUME kind = "noack" PROVE rgot = 0 /\ rx = <<>>
  <2>1. /\ Taken \in Nat /\ Taken + 1 <= req.w + req.r
        /\ Head(tx) = Command(Taken + 1)
    BY NextCommand
  <2>2. /\ line = "held" <=> (0 < Taken /\ Taken < req.w + req.r)
        /\ RDone = rgot + Len(rx)
    BY NextCommand DEF Fifos, TxOK
  <2>3. CASE line = "idle"
    <3>1. Taken = 0
      BY <2>1, <2>2, <2>3, Numbers
    <3> QED BY <3>1, <2>2, Numbers, EmptySeq DEF RDone, TypeOK
  <2>4. CASE Head(tx).restart
    <3>1. Head(tx) # WriteOf(Taken + 1)
      BY <2>4, WriteFields
    <3>2. ~(Taken + 1 <= req.w) /\ Head(tx) = ReadOf((Taken + 1) - req.w)
      BY <2>1, <3>1 DEF Command
    <3>3. (Taken + 1) - req.w = 1
      BY <2>4, <3>2, ReadFields
    <3>5. Taken <= req.w
      BY <2>1, <3>3, Numbers
    <3>4. RDone = 0
      BY <3>5 DEF RDone
    <3> QED BY <2>2, <3>4, Numbers, EmptySeq DEF TypeOK
  <2> QED BY <1>4, <2>3, <2>4
<1>5. AbortOK'
  BY <1>1, <1>4 DEF AbortOK
<1> QED BY <1>2, <1>3, <1>5 DEF Fifos

(* A command that is taken finds room for its byte, and brings the next one. *)
LEMMA ExecuteFifos ==
  ASSUME TypeOK, CountsOK, Fifos, HwExecute, Active, ~stranded,
         NEW condition, Execute(Head(tx), condition)
  PROVE  Fifos' /\ Taken' = Taken + 1 /\ nacked' = nacked
<1> DEFINE c == Head(tx)
<1>1. /\ UNCHANGED <<pc, xfer, req, wsent, rqueued, rgot, rbuf, stranded, abrt,
                     nacked>>
      /\ tx' = Tail(tx) /\ line' = IF c.stop THEN "stopping" ELSE "held"
      /\ rx' = IF c.read /\ Len(rx) < RxDepth THEN Append(rx, c.tag) ELSE rx
  BY DEF HwExecute, Execute, counters
<1>2. /\ nacked = FALSE /\ Taken \in Nat
      /\ Taken + 1 <= wsent + rqueued /\ Taken + 1 <= req.w + req.r
      /\ c = Command(Taken + 1) /\ Len(tx') = Len(tx) - 1
      /\ \A i \in 1..Len(tx') : tx'[i] = Command((Taken + 1) + i)
  BY <1>1, NextCommand
<1>3. RDone = rgot + Len(rx) /\ Len(tx) <= wsent + rqueued
  BY <1>2 DEF Fifos, TxOK
<1>4. Taken' = Taken + 1
  BY <1>1, <1>2, Numbers DEF Taken
<1>5. ASSUME Taken + 1 <= req.w
      PROVE  RDone' = RDone /\ rx' = rx /\ (c.stop <=> (Taken + 1 = req.w + req.r))
  <2>1. c = WriteOf(Taken + 1)
    BY <1>2, <1>5 DEF Command
  <2>2. ~c.read /\ (c.stop <=> (Taken + 1 = req.w /\ req.r = 0))
    BY <2>1, WriteFields
  <2>3. RDone' = RDone /\ rx' = rx
    BY <1>1, <1>2, <1>4, <1>5, <2>2, Numbers DEF RDone
  <2>4. c.stop <=> (Taken + 1 = req.w + req.r)
    <3>1. (Taken + 1 = req.w /\ req.r = 0) <=> (Taken + 1 = req.w + req.r)
      BY <1>2, <1>5, Numbers
    <3> QED BY <2>2, <3>1, Zenon
  <2> QED BY <2>3, <2>4
<1>6. ASSUME ~(Taken + 1 <= req.w)
      PROVE  /\ RDone' = RDone + 1 /\ RDone < rqueued
             /\ rx' = Append(rx, <<xfer, rgot + (Len(rx) + 1)>>)
             /\ c.stop <=> (Taken + 1 = req.w + req.r)
  <2>1. c = ReadOf((Taken + 1) - req.w)
    BY <1>2, <1>6 DEF Command
  <2>2. /\ c.read /\ (c.stop <=> (Taken + 1) - req.w = req.r)
        /\ c.tag = <<xfer, (Taken + 1) - req.w>>
    BY <2>1, ReadFields
  <2>3. req.w <= Taken /\ wsent = req.w
    BY <1>2, <1>6, Numbers, SMTT(40) DEF CountsOK
  <2>4. RDone = Taken - req.w /\ RDone' = RDone + 1
    BY <1>1, <1>2, <1>4, <2>3, Numbers, SMTT(40) DEF RDone
  <2>5. RDone < rqueued
    <3>1. Taken + 1 <= req.w + rqueued
      BY <1>2, <2>3
    <3>2. Taken \in Nat /\ RDone = Taken - req.w
      BY <1>2, <2>4
    <3> QED BY <3>1, <3>2, Numbers
  <2>6. Len(rx) < RxDepth
    <3>1. rqueued - rgot <= InflightMax /\ RxDepth \in Nat
      BY DepthAssumption DEF CountsOK
    <3>2. rgot + Len(rx) < rqueued
      BY <1>3, <2>5
    <3> QED BY <3>1, <3>2, Numbers
  <2>7. (Taken + 1) - req.w = rgot + (Len(rx) + 1)
    <3>1. Taken \in Nat /\ rgot + Len(rx) = Taken - req.w
      BY <1>2, <1>3, <2>4
    <3>2. Taken \in Nat /\ req.w \in Nat
      BY <3>1, Numbers
    <3>3. (Taken + 1) - req.w = (Taken - req.w) + 1
      BY <3>2
    <3>4. rgot + (Len(rx) + 1) = (rgot + Len(rx)) + 1
      BY Numbers
    <3> QED BY <3>1, <3>3, <3>4, Zenon
  <2>8. rx' = Append(rx, <<xfer, rgot + (Len(rx) + 1)>>)
    BY <1>1, <2>2, <2>6, <2>7
  <2>9. c.stop <=> (Taken + 1 = req.w + req.r)
    <3>1. ((Taken + 1) - req.w = req.r) <=> (Taken + 1 = req.w + req.r)
      BY <1>2, Numbers
    <3> QED BY <2>2, <3>1, Zenon
  <2> QED BY <2>4, <2>5, <2>8, <2>9
<1>7. c.stop <=> (Taken + 1 = req.w + req.r)
  BY <1>5, <1>6
<1>8. \/ RDone' = RDone /\ rx' = rx
      \/ RDone' = RDone + 1 /\ rx' = Append(rx, <<xfer, rgot + (Len(rx) + 1)>>)
         /\ RDone < rqueued
  BY <1>5, <1>6
<1>9. /\ RDone' = rgot + Len(rx') /\ RDone' <= rqueued
      /\ Active => \A i \in 1..Len(rx') : rx'[i] = <<xfer, rgot + i>>
  <2>1. /\ RDone <= rqueued
        /\ \A i \in 1..Len(rx) : rx[i] = <<xfer, rgot + i>>
    BY <1>3 DEF Fifos, RxOK
  <2>2. CASE RDone' = RDone /\ rx' = rx
    BY <1>3, <2>1, <2>2
  <2>3. CASE RDone' = RDone + 1 /\ rx' = Append(rx, <<xfer, rgot + (Len(rx) + 1)>>)
             /\ RDone < rqueued
    <3> DEFINE new == <<xfer, rgot + (Len(rx) + 1)>>
    <3>1. rx \in Seq(Bytes \cup {new})
      BY SeqMonotonic DEF TypeOK
    <3>2. /\ Len(rx') = Len(rx) + 1 /\ rx'[Len(rx) + 1] = new
          /\ \A i \in 1..Len(rx) : rx'[i] = rx[i]
      BY <2>3, <3>1, AppendProperties
    <3>3. RDone' = rgot + Len(rx') /\ RDone' <= rqueued
      BY <1>3, <2>3, <3>2, Numbers
    <3>4. ASSUME NEW i \in 1..Len(rx') PROVE rx'[i] = <<xfer, rgot + i>>
      <4>1. i \in 1..Len(rx) \/ i = Len(rx) + 1
        BY <3>2, Numbers
      <4> QED BY <2>1, <3>2, <4>1
    <3> QED BY <3>3, <3>4
  <2> QED BY <1>8, <2>2, <2>3
<1>10. TxOK'
  <2>1. line' = "held" <=> (0 < Taken' /\ Taken' < req.w + req.r)
    BY <1>1, <1>2, <1>4, <1>7, Numbers
  <2>2. ASSUME NEW i \in 1..Len(tx') PROVE tx'[i] = (Command(Taken + i))'
    <3>1. (Command(Taken + i))' = Command((Taken + 1) + i)
      BY <1>1, <1>4 DEF Command, WriteOf, ReadOf
    <3> QED BY <1>2, <3>1
  <2>3. Len(tx') <= wsent + rqueued
    BY <1>2, <1>3, Numbers
  <2> QED BY <1>1, <1>9, <2>1, <2>2, <2>3 DEF TxOK
<1>11. RxOK'
  <2>1. \A i \in 1..rgot : rbuf[i] = <<xfer, i>>
    BY DEF Fifos, RxOK
  <2> QED BY <1>1, <1>9, <2>1 DEF RxOK
<1>12. AbortOK' /\ LeftEmpty'
  <2>1. abrt = "none"
    BY DEF HwExecute
  <2> QED BY <1>1, <1>2, <2>1 DEF AbortOK, LeftEmpty, Active
<1> QED BY <1>1, <1>4, <1>10, <1>11, <1>12 DEF Fifos

(* The controller's other moves change the FIFOs only after a recovery     *)
(* that failed; a STOP that is sent ends what an abort or the last command *)
(* began.                                                                  *)
LEMMA ControllerFifos ==
  ASSUME TypeOK, CountsOK, SoundOK, Fifos, HwStop \/ HwStick \/ HwObey \/ HwEnable
  PROVE  Fifos'
<1>1. UNCHANGED <<pc, xfer, req, wsent, rqueued, rgot, rbuf, stranded, abrt, nacked>>
  BY DEF HwStop, HwStick, HwObey, HwEnable, counters, history
<1>2. \/ UNCHANGED <<tx, rx, line>>
      \/ UNCHANGED <<tx, rx>> /\ line = "stopping" /\ line' = "idle"
      \/ stranded
  BY DEF HwStop, HwStick, HwObey, HwEnable, fifos, SoundOK, TypeOK
<1>3. CASE stranded
  BY <1>1, <1>3 DEF Fifos, LeftEmpty, AbortOK, TxOK, RxOK
<1>4. CASE UNCHANGED <<tx, rx>> /\ (line' = "held" <=> line = "held")
  <2>1. Taken' = Taken /\ RDone' = RDone /\ (Active' <=> Active)
    BY <1>1, <1>4 DEF Taken, RDone, Active
  <2>2. \A k : Command(k)' = Command(k)
    BY <1>1 DEF Command, WriteOf, ReadOf
  <2>3. TxOK'
    BY <1>1, <1>4, <2>1, <2>2 DEF Fifos, TxOK
  <2>4. RxOK' /\ AbortOK' /\ LeftEmpty'
    BY <1>1, <1>4, <2>1 DEF Fifos, RxOK, AbortOK, LeftEmpty
  <2> QED BY <2>3, <2>4 DEF Fifos
<1>5. UNCHANGED <<tx, rx, line>> => UNCHANGED <<tx, rx>> /\ (line' = "held" <=> line = "held")
  OBVIOUS
<1> QED BY <1>2, <1>3, <1>4, <1>5

LEMMA ExecuteOrAbortFifos ==
  ASSUME TypeOK, CountsOK, SoundOK, Fifos, HwExecute
  PROVE  Fifos'
<1>1. CASE stranded
  BY <1>1 DEF HwExecute, Fifos, LeftEmpty, AbortOK, TxOK, RxOK
<1>2. CASE ~stranded /\ ~Active
  BY <1>2 DEF HwExecute, Fifos, LeftEmpty
<1>3. CASE ~stranded /\ Active
  <2> DEFINE c == Head(tx)
             condition == IF line = "idle" THEN <<"S">>
                          ELSE IF c.restart THEN Append(wire, "Sr") ELSE wire
  <2>1. CASE Execute(c, condition)
    BY <1>3, <2>1, ExecuteFifos
  <2>2. CASE (line = "idle" \/ c.restart) /\ Abort("noack")
    BY <1>3, <2>2, AbortFifos
  <2>3. CASE Abort("other")
    BY <1>3, <2>3, AbortFifos
  <2> QED BY <2>1, <2>2, <2>3 DEF HwExecute
<1> QED BY <1>1, <1>2, <1>3

LEMMA FifosStep ==
  ASSUME TypeOK, CountsOK, SoundOK, Fifos, [Next]_vars
  PROVE  Fifos'
<1>1. CASE XferStart
  BY <1>1, StartFifos
<1>2. CASE LoopTest \/ StopAbort \/ StopActivity
  BY <1>2, WaitFifos
<1>3. CASE LoopPush
  BY <1>3, PushFifos
<1>4. CASE LoopPop
  BY <1>4, PopFifos
<1>5. CASE DwI2cRecover \/ DwI2cInit
  BY <1>5, CleanFifos
<1>6. CASE HwExecute
  BY <1>6, ExecuteOrAbortFifos
<1>7. CASE HwStop \/ HwStick \/ HwObey \/ HwEnable
  BY <1>7, ControllerFifos
<1>8. CASE UNCHANGED vars
  <2>1. \A k : Command(k)' = Command(k)
    BY <1>8 DEF vars, Command, WriteOf, ReadOf
  <2> QED BY <1>8, <2>1 DEF vars, Fifos, LeftEmpty, AbortOK, TxOK, RxOK, Active,
                          Taken, RDone
<1> QED BY <1>1, <1>2, <1>3, <1>4, <1>5, <1>6, <1>7, <1>8
        DEF Next, Software, Finished
-----------------------------------------------------------------------------
(* What the wire has seen.                                                 *)

Conditions == {"S", "W", "Sr", "R", "P"}

(* One more of the same.                                                   *)
LEMMA OneMore ==
  ASSUME NEW s \in Conditions, NEW n \in Nat
  PROVE  /\ Times(n, s) \in Seq(Conditions)
         /\ Times(0, s) = <<>>
         /\ Times(n + 1, s) = Times(n, s) \o <<s>>
<1>1. \A k \in Nat : Times(k, s) \in Seq(Conditions) /\ Len(Times(k, s)) = k
  BY DEF Times
<1>2. Times(0, s) = <<>>
  BY <1>1, EmptySeq
<1>3. <<s>> \in Seq(Conditions) /\ Len(<<s>>) = 1 /\ <<s>>[1] = s
  OBVIOUS
<1>4. /\ Times(n, s) \o <<s>> \in Seq(Conditions)
      /\ Len(Times(n, s) \o <<s>>) = n + 1
      /\ \A i \in 1..(n + 1) : (Times(n, s) \o <<s>>)[i] = s
  <2>1. /\ Times(n, s) \o <<s>> \in Seq(Conditions)
        /\ Len(Times(n, s) \o <<s>>) = n + 1
        /\ \A i \in 1..(n + 1) : (Times(n, s) \o <<s>>)[i] =
             IF i <= n THEN Times(n, s)[i] ELSE <<s>>[i - n]
    BY <1>1, <1>3, ConcatProperties
  <2>2. \A i \in 1..n : Times(n, s)[i] = s
    BY DEF Times
  <2>3. ASSUME NEW i \in 1..(n + 1) PROVE (Times(n, s) \o <<s>>)[i] = s
    <3>1. CASE i <= n
      BY <2>1, <2>2, <3>1
    <3>2. CASE i = n + 1
      <4>1. ~(i <= n) /\ i - n = 1
        BY <3>2
      <4>2. (Times(n, s) \o <<s>>)[i] = IF i <= n THEN Times(n, s)[i] ELSE <<s>>[i - n]
        BY <2>1
      <4> HIDE DEF Times
      <4>3. (Times(n, s) \o <<s>>)[i] = <<s>>[1]
        BY <4>1, <4>2
      <4> QED BY <1>3, <4>3
    <3>3. i <= n \/ i = n + 1
      OBVIOUS
    <3> QED BY <3>1, <3>2, <3>3, Zenon
  <2> QED BY <2>1, <2>3
<1>5. \A i \in 1..(n + 1) : Times(n + 1, s)[i] = s
  BY DEF Times
<1>6. Times(n + 1, s) = Times(n, s) \o <<s>>
  BY <1>1, <1>4, <1>5, SeqEqual
<1> QED BY <1>1, <1>2, <1>6

(* What the wire sees of a transfer, one byte after the other.             *)
LEMMA WireGrows ==
  ASSUME NEW w \in Nat, NEW r \in Nat
  PROVE  /\ WireBody([w |-> w, r |-> r]) \in Seq(Conditions)
         /\ WireBody([w |-> 0, r |-> 0]) = <<"S">>
         /\ WireBody([w |-> w + 1, r |-> 0]) = WireBody([w |-> w, r |-> 0]) \o <<"W">>
         /\ w > 0 => WireBody([w |-> w, r |-> 1])
                       = (WireBody([w |-> w, r |-> 0]) \o <<"Sr">>) \o <<"R">>
         /\ r > 0 \/ w = 0 => WireBody([w |-> w, r |-> r + 1])
                                = WireBody([w |-> w, r |-> r]) \o <<"R">>
<1> DEFINE start == <<"S">>
           written(n) == start \o Times(n, "W")
           again(v, k) == IF v > 0 /\ k > 0 THEN <<"Sr">> ELSE <<>>
<1>1. \A v, k : WireBody([w |-> v, r |-> k]) = (written(v) \o again(v, k)) \o Times(k, "R")
  BY DEF WireBody
<1>2. /\ start \in Seq(Conditions) /\ <<"W">> \in Seq(Conditions)
      /\ <<"Sr">> \in Seq(Conditions) /\ <<"R">> \in Seq(Conditions)
      /\ <<>> \in Seq(Conditions)
  BY DEF Conditions
<1>3. /\ \A n \in Nat : Times(n, "W") \in Seq(Conditions)
                        /\ Times(n, "R") \in Seq(Conditions)
      /\ Times(0, "W") = <<>> /\ Times(0, "R") = <<>>
      /\ \A n \in Nat : /\ Times(n + 1, "W") = Times(n, "W") \o <<"W">>
                        /\ Times(n + 1, "R") = Times(n, "R") \o <<"R">>
  <2>1. "W" \in Conditions /\ "R" \in Conditions
    BY DEF Conditions
  <2> QED BY <2>1, OneMore
<1> HIDE DEF start
<1>4. \A n \in Nat : written(n) \in Seq(Conditions)
  BY <1>2, <1>3, ConcatProperties
<1>5. ASSUME NEW n \in Nat PROVE written(n + 1) = written(n) \o <<"W">>
  <2>1. written(n + 1) = start \o (Times(n, "W") \o <<"W">>)
    BY <1>3
  <2>2. /\ start \in Seq(Conditions) /\ Times(n, "W") \in Seq(Conditions)
        /\ <<"W">> \in Seq(Conditions)
    BY <1>2, <1>3
  <2>3. start \o (Times(n, "W") \o <<"W">>) = (start \o Times(n, "W")) \o <<"W">>
    BY <2>2, ConcatAssociative
  <2> QED BY <2>1, <2>3, Zenon
<1>6. written(0) = start
  BY <1>2, <1>3, ConcatEmptySeq
<1> HIDE DEF written
<1>7. \A n \in Nat : WireBody([w |-> n, r |-> 0]) = written(n)
  <2> TAKE n \in Nat
  <2>1. again(n, 0) = <<>>
    OBVIOUS
  <2>2. WireBody([w |-> n, r |-> 0]) = (written(n) \o <<>>) \o <<>>
    BY <1>1, <1>3, <2>1
  <2> QED BY <1>4, <2>2, ConcatEmptySeq
<1>8. ASSUME w > 0
      PROVE  WireBody([w |-> w, r |-> 1]) = (written(w) \o <<"Sr">>) \o <<"R">>
  <2>1. again(w, 1) = <<"Sr">>
    BY <1>8
  <2>2. Times(1, "R") = <<"R">>
    <3>1. Times(0 + 1, "R") = <<>> \o <<"R">>
      BY <1>3
    <3> QED BY <1>2, <3>1, ConcatEmptySeq
  <2> QED BY <1>1, <2>1, <2>2
<1> DEFINE before(k) == written(w) \o again(w, k)
<1>9. \A k \in Nat : before(k) \in Seq(Conditions)
  BY <1>2, <1>4, ConcatProperties
<1>10. r > 0 \/ w = 0 => before(r + 1) = before(r)
  OBVIOUS
<1>11. WireBody([w |-> w, r |-> r]) = before(r) \o Times(r, "R")
       /\ WireBody([w |-> w, r |-> r + 1]) = before(r + 1) \o Times(r + 1, "R")
  BY <1>1
<1> HIDE DEF before
<1>12. /\ before(r) \in Seq(Conditions) /\ Times(r, "R") \in Seq(Conditions)
       /\ Times(r + 1, "R") = Times(r, "R") \o <<"R">>
  BY <1>3, <1>9
<1>14. WireBody([w |-> w, r |-> r]) \in Seq(Conditions)
  BY <1>11, <1>12, ConcatProperties
<1>13. ASSUME r > 0 \/ w = 0
       PROVE  WireBody([w |-> w, r |-> r + 1]) = WireBody([w |-> w, r |-> r]) \o <<"R">>
  <2>1. WireBody([w |-> w, r |-> r + 1]) = before(r) \o (Times(r, "R") \o <<"R">>)
    BY <1>10, <1>11, <1>12, <1>13
  <2>2. before(r) \o (Times(r, "R") \o <<"R">>) = (before(r) \o Times(r, "R")) \o <<"R">>
    BY <1>2, <1>12, ConcatAssociative
  <2> QED BY <1>11, <2>1, <2>2
<1>15. WireBody([w |-> 0, r |-> 0]) = <<"S">>
  BY <1>6, <1>7 DEF start
<1>16. WireBody([w |-> w + 1, r |-> 0]) = WireBody([w |-> w, r |-> 0]) \o <<"W">>
  <2>1. w + 1 \in Nat
    OBVIOUS
  <2> QED BY <1>5, <1>7, <2>1, Zenon
<1>17. w > 0 => WireBody([w |-> w, r |-> 1])
                  = (WireBody([w |-> w, r |-> 0]) \o <<"Sr">>) \o <<"R">>
  BY <1>7, <1>8
<1> QED BY <1>13, <1>14, <1>15, <1>16, <1>17

(* A command that is taken puts the next condition of its transfer on the  *)
(* wire.                                                                   *)
LEMMA ExecuteWire ==
  ASSUME TypeOK, CountsOK, SoundOK, Fifos, WireOK, HwExecute, Active, ~stranded,
         Execute(Head(tx), IF line = "idle" THEN <<"S">>
                           ELSE IF Head(tx).restart THEN Append(wire, "Sr") ELSE wire)
  PROVE  WireOK'
<1> DEFINE c == Head(tx)
           Body(w, r) == WireBody([w |-> w, r |-> r])
<1>1. /\ UNCHANGED <<req, xfer>> /\ line' # "idle" /\ line \in {"idle", "held"}
      /\ wire' = (IF line = "idle" THEN <<"S">>
                  ELSE IF c.restart THEN Append(wire, "Sr") ELSE wire)
                 \o <<IF c.read THEN "R" ELSE "W">>
  BY DEF HwExecute, Execute, TypeOK
<1>2. /\ nacked = FALSE /\ Taken \in Nat
      /\ Taken + 1 <= wsent + rqueued /\ Taken + 1 <= req.w + req.r
      /\ c = Command(Taken + 1)
  BY NextCommand
<1>3. Taken' = Taken + 1
  BY ExecuteFifos
<1>4. line = "idle" <=> Taken = 0
  <2>1. line = "held" <=> (0 < Taken /\ Taken < req.w + req.r)
    BY <1>2 DEF Fifos, TxOK
  <2> QED BY <1>1, <1>2, <2>1, Numbers
<1>5. line # "idle" => wire = Body(WDone, RDone)
  BY <1>1, <1>2, <1>4 DEF WireOK
<1>6. wire \in Seq(Conditions) /\ "Sr" \in Conditions
  BY DEF TypeOK, Conditions
<1>7. Append(wire, "Sr") = wire \o <<"Sr">>
  BY <1>6, AppendIsConcat
<1>8. ASSUME Taken + 1 <= req.w
      PROVE  wire' = Body(Taken + 1, 0) /\ WDone' = Taken + 1 /\ RDone' = 0
  <2>1. ~c.read /\ ~c.restart
    BY <1>2, <1>8, WriteFields DEF Command
  <2>2. WDone = Taken /\ RDone = 0 /\ WDone' = Taken + 1 /\ RDone' = 0
    BY <1>1, <1>2, <1>3, <1>8, Numbers DEF WDone, RDone
  <2>3. wire' = Body(Taken, 0) \o <<"W">>
    <3>1. CASE Taken = 0
      BY <1>1, <1>4, <2>1, <3>1, WireGrows
    <3>2. CASE Taken # 0
      BY <1>1, <1>4, <1>5, <2>1, <2>2, <3>2
    <3> QED BY <3>1, <3>2
  <2> QED BY <1>2, <2>2, <2>3, WireGrows
<1>9. ASSUME ~(Taken + 1 <= req.w)
      PROVE  wire' = Body(WDone', RDone')
  <2>1. c = ReadOf((Taken + 1) - req.w)
    BY <1>2, <1>9 DEF Command
  <2>2. c.read /\ (c.restart <=> ((Taken + 1) - req.w = 1 /\ req.w > 0))
    BY <2>1, ReadFields
  <2>3. /\ WDone' = req.w /\ RDone' = (Taken - req.w) + 1
        /\ WDone = req.w /\ RDone = Taken - req.w
        /\ Taken - req.w \in Nat /\ req.w \in Nat
    <3>1. req.w \in Nat /\ Taken \in Nat /\ ~(Taken + 1 <= req.w)
      BY <1>2, <1>9, Numbers
    <3>2. WDone = req.w /\ RDone = Taken - req.w
      BY <3>1 DEF WDone, RDone
    <3>3. WDone' = req.w /\ RDone' = (Taken + 1) - req.w
      BY <1>1, <1>3, <3>1 DEF WDone, RDone
    <3>4. (Taken + 1) - req.w = (Taken - req.w) + 1 /\ Taken - req.w \in Nat
      BY <3>1
    <3> QED BY <3>1, <3>2, <3>3, <3>4
  <2>4. CASE Taken = 0
    <3>1. req.w = 0 /\ Taken - req.w = 0
      BY <1>9, <2>3, <2>4
    <3>2. wire' = <<"S">> \o <<"R">>
      BY <1>1, <1>4, <2>2, <2>4
    <3>3. Body(0, 0 + 1) = Body(0, 0) \o <<"R">> /\ Body(0, 0) = <<"S">>
      BY WireGrows
    <3> QED BY <2>3, <3>1, <3>2, <3>3
  <2>5. CASE Taken # 0 /\ Taken = req.w
    <3>1. c.restart /\ req.w > 0 /\ Taken - req.w = 0
      BY <1>2, <2>2, <2>5
    <3>2. wire' = (Body(req.w, 0) \o <<"Sr">>) \o <<"R">>
      BY <1>1, <1>4, <1>5, <1>7, <2>2, <2>3, <2>5, <3>1
    <3>3. WDone' = req.w /\ RDone' = 1
      BY <2>3, <3>1
    <3>4. Body(req.w, 1) = (Body(req.w, 0) \o <<"Sr">>) \o <<"R">>
      BY <2>3, <3>1, WireGrows
    <3> QED BY <3>2, <3>3, <3>4
  <2>6. CASE Taken # 0 /\ Taken # req.w
    <3>1. ~c.restart /\ Taken - req.w > 0
      BY <1>2, <1>9, <2>2, <2>3, <2>6
    <3>2. wire' = Body(req.w, Taken - req.w) \o <<"R">>
      BY <1>1, <1>4, <1>5, <2>2, <2>3, <2>6, <3>1
    <3>3. Body(req.w, (Taken - req.w) + 1) = Body(req.w, Taken - req.w) \o <<"R">>
      BY <2>3, <3>1, WireGrows
    <3> QED BY <2>3, <3>2, <3>3
  <2> QED BY <2>4, <2>5, <2>6
<1>10. wire' = Body(WDone', RDone')
  BY <1>8, <1>9
<1> QED BY <1>1, <1>10 DEF WireOK

LEMMA WireStep ==
  ASSUME TypeOK, CountsOK, SoundOK, Fifos, WireOK, [Next]_vars
  PROVE  WireOK'
<1>1. CASE XferStart
  <2> SUFFICES ASSUME ~stranded PROVE WireOK'
    BY <1>1 DEF XferStart, WireOK
  <2>1. tx' = <<>> /\ wsent' = 0 /\ rqueued' = 0
    BY <1>1 DEF XferStart, fifos, Fifos, LeftEmpty, Active
  <2>2. Len(tx') = 0
    BY <2>1, EmptyFifos
  <2>3. Taken' = 0
    <3>1. Taken' = 0 + 0 - 0
      BY <2>1, <2>2, Zenon DEF Taken
    <3> QED BY <3>1
  <2> QED BY <2>3 DEF WireOK
<1>2. CASE /\ UNCHANGED <<req, wire, line, nacked, stranded>> /\ Active
           /\ ~stranded /\ ~nacked => Taken' = Taken
  BY <1>2 DEF WireOK, WDone, RDone
<1>3. LoopTest \/ StopAbort \/ StopActivity \/ LoopPop =>
        UNCHANGED <<wsent, rqueued, tx, req, wire, line, nacked, stranded>> /\ Active
  BY DEF LoopTest, StopAbort, StopActivity, LoopPop, fifos, counters, history, Active
<1>4. LoopPush => /\ UNCHANGED <<req, wire, line, nacked, stranded>> /\ Active
                  /\ ~stranded /\ ~nacked => Taken' = Taken
  BY PushCommand DEF LoopPush, history, Active
<1>5. CASE DwI2cRecover \/ DwI2cInit
  BY <1>5 DEF DwI2cRecover, DwI2cInit, WireOK, Active
<1>6. CASE HwExecute
  <2>1. CASE ~Active \/ stranded
    BY <1>6, <2>1 DEF HwExecute, WireOK, Active
  <2>2. CASE nacked' = TRUE
    BY <2>2 DEF WireOK
  <2>3. CASE Active /\ ~stranded /\ nacked' # TRUE
    BY <1>6, <2>3, ExecuteWire DEF HwExecute, Abort
  <2> QED BY <2>1, <2>2, <2>3
<1>7. CASE HwStop
  <2>1. UNCHANGED <<req, wsent, rqueued, tx, nacked, stranded, pc>>
    BY <1>7 DEF HwStop, counters, fifos
  <2>2. line' = "idle" /\ line # "idle" /\ wire' = wire \o <<"P">>
    <3>1. wire \in Seq(Conditions) /\ "P" \in Conditions
      BY DEF TypeOK, Conditions
    <3>2. Append(wire, "P") = wire \o <<"P">>
      BY <3>1, AppendIsConcat
    <3> QED BY <1>7, <3>2 DEF HwStop
  <2>3. Taken' = Taken /\ WDone' = WDone /\ RDone' = RDone /\ (Active' <=> Active)
    BY <2>1 DEF Taken, WDone, RDone, Active
  <2> QED BY <2>1, <2>2, <2>3 DEF WireOK
<1>8. CASE UNCHANGED <<pc, req, wsent, rqueued, tx, wire, line, nacked, stranded>>
  BY <1>8 DEF WireOK, WDone, RDone, Taken, Active
<1>9. CASE HwStick \/ HwObey \/ HwEnable
  <2>1. UNCHANGED <<pc, req, wsent, rqueued, wire, nacked, stranded>>
        /\ (UNCHANGED <<tx, line>> \/ stranded)
    BY <1>9 DEF HwStick, HwObey, HwEnable, counters, fifos, history, SoundOK, TypeOK
  <2> QED BY <1>8, <2>1 DEF WireOK
<1>10. UNCHANGED <<wsent, rqueued, tx>> => Taken' = Taken
  BY DEF Taken
<1> QED BY <1>1, <1>2, <1>3, <1>4, <1>5, <1>6, <1>7, <1>8, <1>9, <1>10
        DEF Next, Software, Finished, vars

(* A transfer that succeeds has been on the wire, and whole.               *)
LEMMA ReturnedStep ==
  ASSUME TypeOK, CountsOK, SoundOK, Fifos, WireOK, ReturnedOnWire, [Next]_vars
  PROVE  ReturnedOnWire'
<1>1. CASE StopActivity
  <2> SUFFICES ASSUME ~MasterActive, ~nacked, sound
               PROVE  ReturnedOnWire'
    BY <1>1 DEF StopActivity, ReturnedOnWire, history, Return
  <2>1. Active /\ ~stranded /\ AllMoved /\ line = "idle" /\ tx = <<>>
    BY <1>1 DEF StopActivity, Active, SoundOK, CountsOK, MasterActive
  <2>2. Taken = req.w + req.r /\ req.w + req.r > 0
    BY <2>1, EmptyFifos, Numbers DEF Taken, AllMoved, CountsOK
  <2>3. WDone = req.w /\ RDone = req.r
    BY <2>2, Numbers DEF WDone, RDone
  <2>4. wire = WireBody([w |-> req.w, r |-> req.r]) \o <<"P">>
    BY <2>1, <2>2, <2>3, Numbers DEF WireOK
  <2>5. wire = WireShape(req)
    BY <2>4 DEF WireShape, WireBody
  <2>6. UNCHANGED <<req, wire, tx, line>>
    BY <1>1 DEF StopActivity, fifos, history
  <2> QED BY <2>1, <2>5, <2>6 DEF ReturnedOnWire
<1>2. CASE XferStart \/ LoopTest \/ LoopPush \/ LoopPop \/ StopAbort
  BY <1>2 DEF XferStart, LoopTest, LoopPush, LoopPop, StopAbort, ReturnedOnWire,
              Return, RecoverThenReturn, ClassifyAbort
<1>3. CASE DwI2cRecover
  BY <1>3 DEF DwI2cRecover, CountsOK, ReturnedOnWire
<1>4. CASE DwI2cInit
  BY <1>4 DEF DwI2cInit, Reenable, DisableRefused, Flushed, fifos, ReturnedOnWire
<1>5. CASE HwStick \/ HwObey \/ HwEnable
  BY <1>5 DEF HwStick, HwObey, HwEnable, Flushed, fifos, history, ReturnedOnWire
<1>6. CASE HwExecute \/ HwStop
  <2>1. UNCHANGED <<pc, status, sound>>
    BY <1>6 DEF HwExecute, HwStop
  <2>2. nacked' # nacked => nacked' = TRUE
    BY <1>6 DEF HwExecute, HwStop, Execute, Abort
  <2>3. tx # <<>> \/ line # "idle"
    BY <1>6 DEF HwExecute, HwStop
  <2> QED BY <2>1, <2>2, <2>3 DEF ReturnedOnWire, TypeOK
<1>7. CASE UNCHANGED vars
  BY <1>7 DEF vars, ReturnedOnWire
<1> QED BY <1>1, <1>2, <1>3, <1>4, <1>5, <1>6, <1>7 DEF Next, Software, Finished

-----------------------------------------------------------------------------
(* The invariant and what follows from it.                                 *)

LEMMA InitInv == Init => Inv
<1> SUFFICES ASSUME Init PROVE Inv
  OBVIOUS
<1> USE DEF Init
<1>1. TypeOK
  <2>1. <<>> \in Seq({"S", "W", "Sr", "R", "P"})
    BY EmptySeq
  <2>2. wire \in Seq({"S", "W", "Sr", "R", "P"})
    BY <2>1
  <2>3. tx \in Seq(Cmds) /\ Len(tx) <= TxDepth /\ rx \in Seq(Bytes)
        /\ rbuf \in Seq(Bytes) /\ Len(rbuf) = rgot
    BY EmptyFifos
  <2>4. /\ xfer \in 0..MaxXfers /\ req \in [w : Nat, r : Nat]
        /\ wsent \in 0..req.w /\ rqueued \in 0..req.r /\ rgot \in 0..rqueued
    BY BoundAssumption
  <2>5. status \in Statuses
    BY DEF Statuses
  <2> QED BY <2>2, <2>3, <2>4, <2>5 DEF TypeOK
<1>2. CountsOK
  BY InflightAssumption DEF CountsOK, Active
<1>3. SoundOK /\ LeftEmpty /\ AbortOK /\ TxOK /\ RxOK /\ WireOK /\ ReturnedOnWire
  BY DEF SoundOK, LeftEmpty, AbortOK, TxOK, RxOK, WireOK, ReturnedOnWire, Active
<1> QED BY <1>1, <1>2, <1>3 DEF Inv

LEMMA NextInv == Inv /\ [Next]_vars => Inv'
<1> SUFFICES ASSUME Inv, [Next]_vars PROVE Inv'
  OBVIOUS
<1>1. TypeOK /\ CountsOK /\ SoundOK /\ Fifos /\ WireOK /\ ReturnedOnWire
  BY DEF Inv, Fifos
<1>2. xfer # 0 \/ pc = "idle"
  BY <1>1 DEF CountsOK, Active, TypeOK
<1>3. TypeOK'
  BY <1>1, <1>2, StepTypes
<1>4. CountsOK' /\ SoundOK' /\ Fifos' /\ WireOK' /\ ReturnedOnWire'
  BY <1>1, CountsStep, SoundStep, FifosStep, WireStep, ReturnedStep
<1> QED BY <1>3, <1>4 DEF Inv, Fifos

(* What the conjuncts of Inv say of loop, FIFOs and wire holds in every    *)
(* state, between any two register accesses.                               *)
THEOREM Invariant == Spec => []Inv
  BY InitInv, NextInv, PTL DEF Spec

(* Every register access leaves the engine's counters within the lengths   *)
(* asked for, RBuf within RLen, and the TX FIFO within its depth: TFNF is  *)
(* looked at before every command.                                         *)
THEOREM Types == Spec => []TypeOK
<1>1. Inv => TypeOK
  BY DEF Inv
<1> QED BY <1>1, Invariant, PTL

(* The reads in the TX FIFO and the bytes in the RX FIFO are those         *)
(* LoopPush counted as in flight and LoopPop did not yet drain.            *)
LEMMA InFlight ==
  ASSUME Inv, ~stranded
  PROVE  Reads(tx) + Len(rx) <= InflightMax
<1> DEFINE reads == {i \in DOMAIN tx : tx[i].read}
<1>1. TypeOK /\ CountsOK /\ LeftEmpty /\ AbortOK /\ TxOK /\ RxOK
  BY DEF Inv
<1>2. DOMAIN tx = 1..Len(tx)
  BY <1>1, LenProperties DEF TypeOK
<1>3. ASSUME tx = <<>> PROVE Reads(tx) = 0
  <2>1. Len(tx) = 0
    BY <1>3, EmptyFifos
  <2>2. reads = {}
    BY <1>2, <2>1
  <2> QED BY <2>2, FS_EmptySet DEF Reads
<1>4. CASE ~Active
  BY <1>3, <1>4, EmptyFifos, InflightAssumption DEF LeftEmpty, Inv
<1>5. CASE Active /\ nacked
  <2>1. Reads(tx) = 0 /\ rgot + Len(rx) <= rqueued /\ rqueued - rgot <= InflightMax
    BY <1>1, <1>3, <1>5 DEF AbortOK, RxOK, CountsOK
  <2> QED BY <1>1, <2>1, Numbers
<1>6. CASE Active /\ ~nacked
  <2> DEFINE first == IF Taken <= req.w THEN (req.w - Taken) + 1 ELSE 1
  <2>1. /\ Len(tx) <= wsent + rqueued /\ RDone = rgot + Len(rx)
        /\ \A i \in 1..Len(tx) : tx[i] = Command(Taken + i)
        /\ rqueued - rgot <= InflightMax
    BY <1>1, <1>6 DEF TxOK, CountsOK
  <2>2. Taken \in Nat /\ Taken = (wsent + rqueued) - Len(tx)
    <3>1. /\ Len(tx) <= wsent + rqueued /\ wsent \in Nat /\ rqueued \in Nat
          /\ Len(tx) \in Nat
      BY <1>1, <2>1, Numbers
    <3> QED BY <3>1 DEF Taken
  <2>3. ASSUME NEW i \in 1..Len(tx) PROVE tx[i].read <=> Taken + i > req.w
    <3>1. tx[i] = Command(Taken + i)
      BY <2>1
    <3>2. Taken + i > req.w <=> ~(Taken + i <= req.w)
      BY <1>1, <2>2, Numbers, SMTT(40)
    <3>3. tx[i].read <=> ~(Taken + i <= req.w)
      BY <3>1, WriteFields, ReadFields DEF Command
    <3> QED BY <3>2, <3>3
  <2>4. first \in Nat
    BY <1>1, <2>2, Numbers
  <2>5. \A i \in 1..Len(tx) : Taken + i > req.w <=> first <= i
    BY <1>1, <2>2, Numbers, SMTT(40)
  <2>6. reads = first..Len(tx)
    <3>1. first >= 1
      BY <1>1, <2>2, Numbers
    <3>2. \A i \in first..Len(tx) : i \in 1..Len(tx)
      BY <1>1, <2>4, <3>1, Numbers
    <3>3. \A i : i \in reads <=> i \in first..Len(tx)
      <4> HIDE DEF first
      <4> QED BY <1>1, <1>2, <2>3, <2>4, <2>5, <3>2, Numbers
    <3> QED BY <3>3
  <2>7. Reads(tx) = IF first > Len(tx) THEN 0 ELSE (Len(tx) - first) + 1
    <3>1. first \in Int /\ Len(tx) \in Int
      BY <1>1, <2>4, Numbers
    <3>2. Cardinality(first..Len(tx)) = IF first > Len(tx) THEN 0 ELSE (Len(tx) - first) + 1
      BY <3>1, FS_Interval
    <3> QED BY <2>6, <3>2 DEF Reads
  <2>8. CASE Taken <= req.w
    <3>1. RDone = 0 /\ rgot = 0 /\ Len(rx) = 0 /\ first = (req.w - Taken) + 1
      BY <1>1, <2>1, <2>8, Numbers DEF RDone
    <3>2. Reads(tx) <= rqueued
      <4>1. /\ wsent \in Nat /\ rqueued \in Nat /\ req.w \in Nat /\ wsent <= req.w
            /\ Len(tx) \in Nat
        BY <1>1, Numbers
      <4>2. first = ((req.w - wsent) - rqueued) + Len(tx) + 1
        BY <2>2, <3>1, <4>1
      <4> HIDE DEF first
      <4> QED BY <2>7, <4>1, <4>2
    <3>3. rqueued - rgot <= InflightMax
      BY <2>1
    <3>4. Reads(tx) \in Nat
      BY <1>1, <2>4, <2>7, Numbers
    <3> HIDE DEF first
    <3> QED BY <1>1, <3>1, <3>2, <3>3, <3>4, Numbers
  <2>9. CASE ~(Taken <= req.w)
    <3>1. RDone = Taken - req.w /\ first = 1
      BY <2>9 DEF RDone
    <3>2. Reads(tx) = Len(tx)
      BY <1>1, <2>7, <3>1, Numbers
    <3>3. rgot + Len(rx) = ((wsent + rqueued) - Len(tx)) - req.w
      BY <2>1, <2>2, <3>1
    <3>4. rqueued - rgot <= InflightMax
      BY <2>1
    <3> QED BY <1>1, <3>2, <3>3, <3>4, Numbers, SMTT(40)
  <2> QED BY <2>8, <2>9
<1> QED BY <1>4, <1>5, <1>6

(* No byte that arrives finds the RX FIFO full, with whatever depths and   *)
(* lengths: what DW_RX_INFLIGHT_MAX is for.  Not so once a recovery failed *)
(* (`stranded`): a stuck controller keeps the bytes of another transfer.   *)
THEOREM RxNeverOverflows == Spec => []NoOverflow
<1>1. Inv => NoOverflow
  BY InFlight DEF NoOverflow
<1> QED BY <1>1, Invariant, PTL

(* A clean success was START, the bytes written, a repeated START, the     *)
(* bytes read and STOP, once each.  Clean (`sound`) leaves out a transfer  *)
(* begun after a DwI2cRecover or DwI2cInit that could not disable the      *)
(* controller or did not see it enabled: a disabled one drops a write, and *)
(* the transfer succeeds with nothing on the wire.                         *)
THEOREM WireIsOneTransfer == Spec => []OneTransferOnWire
<1>1. Inv => OneTransferOnWire
  BY DEF Inv, ReturnedOnWire, OneTransferOnWire
<1> QED BY <1>1, Invariant, PTL

-----------------------------------------------------------------------------
(* The engine is the transfer the HID layer counts on.                     *)

Outcome == IF pc = "idle" THEN status ELSE "NONE"
OwnBytes == pc = "idle" /\ Own
Clean == ~stranded /\ (pc = "idle" => tx = <<>> /\ rx = <<>>)

(* A success has in RBuf the bytes of its own read commands.               *)
LEMMA SuccessOwnsItsBytes ==
  ASSUME Inv, pc = "stopActivity", ~stranded
  PROVE  rbuf = [i \in 1..req.r |-> <<xfer, i>>]
<1>1. /\ rgot = req.r /\ Len(rbuf) = rgot /\ rbuf \in Seq(Bytes)
      /\ \A i \in 1..rgot : rbuf[i] = <<xfer, i>>
  BY DEF Inv, CountsOK, AllMoved, TypeOK, RxOK, Active
<1>2. rbuf \in [1..req.r -> Bytes]
  BY <1>1, LenProperties
<1> QED BY <1>1, <1>2

LEMMA InitTransfer == Init => Transfer!Init
<1> SUFFICES ASSUME Init PROVE Transfer!Init
  OBVIOUS
<1>1. pc = "idle" /\ status = "NONE" /\ ~stranded /\ tx = <<>> /\ rx = <<>>
  BY DEF Init
<1>2. ~Own
  BY <1>1 DEF Own
<1> QED BY <1>1, <1>2, Zenon DEF Transfer!Init

(* Each step of the engine or of the controller is a step of the transfer, *)
(* or none.                                                                *)
LEMMA StepTransfer ==
  ASSUME Inv, Inv', [Next]_vars
  PROVE  [Transfer!Next]_(Transfer!vars)
<1> DEFINE calling == pc # "idle"
<1>1. (Clean <=> ~stranded) /\ (Clean' <=> ~stranded')
  <2>1. LeftEmpty /\ LeftEmpty'
    BY DEF Inv
  <2> QED BY <2>1 DEF LeftEmpty, Clean, Active
<1>2. ASSUME calling' = calling, Outcome' = Outcome, OwnBytes' = OwnBytes, Clean' = Clean
      PROVE  UNCHANGED Transfer!vars
  BY <1>2, Zenon DEF Transfer!vars, Outcome, OwnBytes, Clean
<1>3. ASSUME UNCHANGED <<pc, status, req, xfer, rbuf, stranded>>
      PROVE  UNCHANGED Transfer!vars
  <2>1. calling' = calling /\ Outcome' = Outcome /\ OwnBytes' = OwnBytes
    BY <1>3 DEF Outcome, OwnBytes, Own
  <2>2. Clean' = Clean
    BY <1>1, <1>3 DEF Clean
  <2> QED BY <1>2, <2>1, <2>2
<1>4. ASSUME pc # "idle", pc' # "idle", UNCHANGED stranded
      PROVE  UNCHANGED Transfer!vars
  <2>1. calling' = calling /\ Outcome' = Outcome /\ OwnBytes' = OwnBytes
    BY <1>4 DEF Outcome, OwnBytes
  <2>2. Clean' = Clean
    BY <1>1, <1>4 DEF Clean
  <2> QED BY <1>2, <2>1, <2>2
<1>5. ASSUME pc # "idle", pc' = "idle",
             \/ UNCHANGED stranded /\ status' = "NO_RESPONSE"
             \/ UNCHANGED stranded /\ status' = "SUCCESS" /\ (~stranded => Own')
             \/ status' \in {"DEVICE_ERROR", "TIMEOUT"}
      PROVE  Transfer!End
  <2>1. calling /\ ~calling' /\ Outcome' = status'
    BY <1>5 DEF Outcome
  <2>2. Outcome' \in Transfer!Outcomes
    BY <1>5, <2>1 DEF Transfer!Outcomes, Transfer!BusErrors
  <2>3. OwnBytes' <=> Own'
    BY <1>5 DEF OwnBytes
  <2>4. OwnBytes' => Outcome' = "SUCCESS"
    BY <2>1 DEF OwnBytes, Own
  <2>5. Clean /\ Outcome' = "SUCCESS" => OwnBytes'
    BY <1>1, <1>5, <2>1, <2>3
  <2>6. Clean' # Clean => Outcome' \in Transfer!BusErrors
    <3>1. status' \in {"DEVICE_ERROR", "TIMEOUT"} => status' \in Transfer!BusErrors
      BY DEF Transfer!BusErrors
    <3>2. UNCHANGED stranded => Clean' = Clean
      BY <1>1 DEF Clean
    <3> QED BY <1>5, <2>1, <3>1, <3>2
  <2>7. OwnBytes' \in BOOLEAN /\ Clean' \in BOOLEAN
    BY DEF OwnBytes, Clean
  <2> QED BY <2>1, <2>2, <2>4, <2>5, <2>6, <2>7, Zenon
          DEF Transfer!End, Outcome, OwnBytes, Clean
<1>6. CASE XferStart
  <2>1. pc = "idle" /\ UNCHANGED stranded
    BY <1>6 DEF XferStart
  <2>2. Clean' = Clean
    BY <1>1, <2>1 DEF Clean
  <2>3. CASE pc' = "idle" /\ status' = "INVALID_PARAMETER"
    <3>1. ~calling /\ ~calling' /\ ~OwnBytes' /\ Outcome' = "INVALID_PARAMETER"
      BY <2>1, <2>3 DEF OwnBytes, Own, Outcome
    <3>2. Transfer!Refuse
      BY <2>2, <3>1, Zenon DEF Transfer!Refuse, Transfer!Refusals, Outcome, OwnBytes, Clean
    <3> QED BY <3>2 DEF Transfer!Next
  <2>4. CASE pc' = "loop"
    <3>1. ~calling /\ calling' /\ ~OwnBytes' /\ Outcome' = "NONE"
      BY <2>1, <2>4 DEF OwnBytes, Outcome
    <3>2. Transfer!Begin
      BY <2>2, <3>1, Zenon DEF Transfer!Begin, Outcome, OwnBytes, Clean
    <3> QED BY <3>2 DEF Transfer!Next
  <2> QED BY <1>6, <2>3, <2>4 DEF XferStart, Return
<1>7. CASE LoopTest \/ StopAbort
  <2>1. pc # "idle" /\ UNCHANGED stranded
    BY <1>7 DEF LoopTest, StopAbort, history
  <2>2. pc' # "idle" \/ (pc' = "idle" /\ status' = "NO_RESPONSE")
    BY <1>7 DEF LoopTest, StopAbort, ClassifyAbort, Return, RecoverThenReturn
  <2> QED BY <1>4, <1>5, <2>1, <2>2 DEF Transfer!Next
<1>8. CASE LoopPush \/ LoopPop
  BY <1>4, <1>8 DEF LoopPush, LoopPop, RecoverThenReturn, history
<1>9. CASE StopActivity
  <2>1. pc # "idle" /\ UNCHANGED <<stranded, req, xfer, rbuf>>
    BY <1>9 DEF StopActivity, history, counters
  <2>2. CASE pc' # "idle"
    BY <1>4, <2>1, <2>2
  <2>3. CASE pc' = "idle" /\ status' = "SUCCESS"
    <3>1. ~stranded => Own'
      BY <1>9, <2>1, <2>3, SuccessOwnsItsBytes DEF StopActivity, Own
    <3> QED BY <1>5, <2>1, <2>3, <3>1 DEF Transfer!Next
  <2> QED BY <1>9, <2>2, <2>3 DEF StopActivity, Return
<1>10. CASE DwI2cRecover
  <2>1. pc # "idle" /\ pc' = "idle" /\ status' \in {"DEVICE_ERROR", "TIMEOUT"}
    BY <1>10 DEF DwI2cRecover, Inv, CountsOK
  <2> QED BY <1>5, <2>1 DEF Transfer!Next
<1>11. CASE DwI2cInit
  <2>1. pc = "idle" /\ UNCHANGED <<pc, status, req, xfer, rbuf>>
    BY <1>11 DEF DwI2cInit, counters
  <2>2. ~calling /\ calling' = calling /\ Outcome' = Outcome /\ OwnBytes' = OwnBytes
    BY <2>1 DEF Outcome, OwnBytes, Own
  <2>3. CASE ~stranded'
    <3>1. Clean' = TRUE
      BY <1>1, <2>3 DEF Clean
    <3>2. Transfer!ReinitWorks
      BY <2>2, <3>1, Zenon DEF Transfer!ReinitWorks, Outcome, OwnBytes, Clean
    <3> QED BY <3>2 DEF Transfer!Next
  <2>4. CASE stranded'
    <3>1. Clean' = FALSE
      BY <1>1, <2>4 DEF Clean
    <3>2. Transfer!ReinitFails
      BY <2>2, <3>1, Zenon DEF Transfer!ReinitFails, Outcome, OwnBytes, Clean
    <3> QED BY <3>2 DEF Transfer!Next
  <2> QED BY <2>3, <2>4
<1>12. CASE HwExecute \/ HwStop \/ HwStick \/ HwObey \/ HwEnable \/ UNCHANGED vars
  BY <1>3, <1>12 DEF HwExecute, HwStop, HwStick, HwObey, HwEnable, counters, history, vars
<1> QED BY <1>6, <1>7, <1>8, <1>9, <1>10, <1>11, <1>12
        DEF Next, Software, Finished

(* Whatever the panel and the bus do, DwI2cXfer keeps the safety half of   *)
(* its promise: a transfer that began clean and succeeds returned its own  *)
(* bytes in order, and only an error of the bus leaves it unclean.         *)
THEOREM ImplementsTransfer == Spec => Transfer!Safe
  BY InitTransfer, StepTransfer, InitInv, NextInv, PTL DEF Spec, Transfer!Safe

=============================================================================
