-------------------------------- MODULE DwI2c ---------------------------------
(***************************************************************************)
(* DwI2cXfer, the polled transfer engine, against the DesignWare           *)
(* controller it drives through FIFOs.  Every register access that can be  *)
(* told apart is a step of the software; between any two steps the         *)
(* controller may execute commands, receive bytes, see a NAK, finish a     *)
(* STOP, or do nothing at all because the panel stretches the clock.       *)
(*                                                                         *)
(* Transfers follow each other on an enabled controller, as the calls of   *)
(* I2cHid.c do; what one leaves in a FIFO the next one meets, unless the   *)
(* controller is re-initialised in between.                                *)
(***************************************************************************)
EXTENDS Naturals, Sequences, FiniteSets

CONSTANTS
  Requests,     \* the [w, r] lengths (WLen, RLen) callers ask for
  MaxXfers,     \* bound: transfers explored
  TxDepth,      \* depth of the TX FIFO
  RxDepth,      \* depth of the RX FIFO
  InflightMax,  \* DW_RX_INFLIGHT_MAX
  SpinLimit,    \* DW_POLL_LIMIT
  SpinBudget    \* DW_XFER_SPIN_BUDGET

ASSUME RequestsAssumption == Requests \subseteq [w : Nat, r : Nat]
ASSUME DepthAssumption == TxDepth \in Nat \ {0} /\ RxDepth \in Nat \ {0}
ASSUME InflightAssumption == InflightMax \in Nat \ {0} /\ InflightMax <= RxDepth
ASSUME SpinAssumption == SpinLimit \in Nat /\ SpinBudget \in Nat
ASSUME BoundAssumption == MaxXfers \in Nat

VARIABLES
  pc,                    \* where DwI2cXfer is; "idle" between transfers
  xfer,                  \* transfers begun
  req,                   \* the current WLen and RLen
  wsent, rqueued, rgot,  \* WSent, RQueued, RGot
  pushed,                \* Progress, after the first half of an iteration
  spin, total,           \* Spin, TotalSpin
  rbuf,                  \* RBuf: what was read, oldest first
  status,                \* what DwI2cXfer returned last
  tx, rx,                \* the FIFOs
  line,                  \* "idle", "held" (SCL low, mid-transfer), "stopping"
  abrt,                  \* latched TX_ABRT: "none", "noack" or "other"
  asked,                 \* IC_ENABLE: the software wants it enabled
  stuck,                 \* IC_ENABLE_STATUS would not clear now
  on,                    \* IC_ENABLE_STATUS: is the controller enabled?
  wire,                  \* history: bus conditions since the last START
  nacked,                \* history: did this transfer meet an abort?
  stranded,              \* history: the last recovery found the controller stuck,
                         \* or did not see it enabled again
  sound                  \* history: was that not so as this transfer began?

vars == <<pc, xfer, req, wsent, rqueued, rgot, pushed, spin, total, rbuf,
          status, tx, rx, line, abrt, asked, stuck, on, wire, nacked, stranded,
          sound>>

counters == <<wsent, rqueued, rgot, rbuf>>
spins == <<spin, total>>
fifos == <<tx, rx>>
hardware == <<asked, stuck, on>>
history == <<wire, nacked, stranded, sound>>

Statuses == {"NONE", "SUCCESS", "NO_RESPONSE", "DEVICE_ERROR", "TIMEOUT",
             "INVALID_PARAMETER"}
\* A byte is known by the transfer and the position it was read for.
Bytes == (1..MaxXfers) \X Nat
Cmds == [read : BOOLEAN, restart : BOOLEAN, stop : BOOLEAN, tag : Bytes]

TypeOK ==
  /\ pc \in {"idle", "loop", "push", "pop", "stopAbort", "stopActivity", "recover"}
  /\ xfer \in 0..MaxXfers /\ req \in [w : Nat, r : Nat]
  /\ wsent \in 0..req.w /\ rqueued \in 0..req.r /\ rgot \in 0..rqueued
  /\ pushed \in BOOLEAN /\ spin \in Nat /\ total \in Nat
  /\ rbuf \in Seq(Bytes) /\ Len(rbuf) = rgot /\ status \in Statuses
  /\ tx \in Seq(Cmds) /\ Len(tx) <= TxDepth
  /\ rx \in Seq(Bytes)
  /\ line \in {"idle", "held", "stopping"}
  /\ abrt \in {"none", "noack", "other"}
  /\ asked \in BOOLEAN /\ stuck \in BOOLEAN /\ on \in BOOLEAN
  /\ nacked \in BOOLEAN /\ stranded \in BOOLEAN /\ sound \in BOOLEAN
  /\ wire \in Seq({"S", "W", "Sr", "R", "P"})

Init ==
  /\ pc = "idle" /\ xfer = 0 /\ req = [w |-> 0, r |-> 0]
  /\ wsent = 0 /\ rqueued = 0 /\ rgot = 0 /\ pushed = FALSE
  /\ spin = 0 /\ total = 0 /\ rbuf = <<>> /\ status = "NONE"
  /\ tx = <<>> /\ rx = <<>> /\ line = "idle" /\ abrt = "none"
  /\ asked = TRUE /\ stuck = FALSE /\ on = TRUE
  /\ wire = <<>> /\ nacked = FALSE /\ stranded = FALSE /\ sound = TRUE

-----------------------------------------------------------------------------
(* The software. *)

Return(s) == status' = s /\ pc' = "idle"
RecoverThenReturn(s) == status' = s /\ pc' = "recover"

(* Check the arguments, then clear what a previous transfer latched. *)
XferStart ==
  /\ pc = "idle" /\ xfer < MaxXfers
  /\ xfer' = xfer + 1 /\ req' \in Requests
  /\ wsent' = 0 /\ rqueued' = 0 /\ rgot' = 0 /\ rbuf' = <<>>
  /\ spin' = 0 /\ total' = 0 /\ pushed' = FALSE /\ nacked' = FALSE
  /\ sound' = ~stranded
  /\ IF req'.w = 0 /\ req'.r = 0
     THEN Return("INVALID_PARAMETER") /\ UNCHANGED abrt
     ELSE pc' = "loop" /\ status' = "NONE" /\ abrt' = "none"
  /\ UNCHANGED <<fifos, line, hardware, wire, stranded>>

(* ClassifyAbort clears the latch; only a mere address NAK needs no        *)
(* recovery.                                                               *)
ClassifyAbort ==
  /\ abrt' = "none"
  /\ IF abrt = "noack" THEN Return("NO_RESPONSE")
                       ELSE RecoverThenReturn("DEVICE_ERROR")

AllMoved == wsent = req.w /\ rqueued = req.r /\ rgot = req.r

LoopTest ==
  /\ pc = "loop" /\ pushed' = FALSE
  /\ CASE AllMoved -> pc' = "stopAbort" /\ spin' = 0 /\ UNCHANGED <<abrt, status>>
       [] ~AllMoved /\ abrt # "none" -> ClassifyAbort /\ spin' = spin
       [] OTHER -> pc' = "push" /\ UNCHANGED <<abrt, status, spin>>
  /\ UNCHANGED <<xfer, req, counters, total, fifos, line, hardware, history>>

(* Mutant: RESTART is left out. *)
WriteCmdNoRestart(read, restart, stop) ==
  tx' = IF abrt # "none" \/ ~on THEN tx
        ELSE Append(tx, [read |-> read, restart |-> FALSE, stop |-> stop,
                         tag |-> <<xfer, rqueued + 1>>])

(* A write to DATA_CMD; it is dropped while TX_ABRT keeps the FIFO flushed  *)
(* or the controller is disabled.                                          *)
WriteCmd(read, restart, stop) ==
  tx' = IF abrt # "none" \/ ~on THEN tx
        ELSE Append(tx, [read |-> read, restart |-> restart, stop |-> stop,
                         tag |-> <<xfer, rqueued + 1>>])

(* Mutant: TFNF is not looked at. *)
TxNotFullAlways == TRUE

TxNotFull == Len(tx) < TxDepth

(* Mutant: one read too many. *)
MayQueueReadOneMore == wsent = req.w /\ rqueued < req.r /\ rqueued - rgot <= InflightMax

MayQueueRead == wsent = req.w /\ rqueued < req.r /\ rqueued - rgot < InflightMax

(* Queue the next byte to write or the next read command. *)
LoopPush ==
  /\ pc = "push" /\ pc' = "pop"
  /\ \/ /\ TxNotFull /\ wsent < req.w
        /\ WriteCmd(FALSE, FALSE, wsent = req.w - 1 /\ req.r = 0)
        /\ wsent' = wsent + 1 /\ rqueued' = rqueued /\ pushed' = TRUE
     \/ /\ TxNotFull /\ MayQueueRead
        /\ WriteCmd(TRUE, rqueued = 0 /\ req.w > 0, rqueued = req.r - 1)
        /\ rqueued' = rqueued + 1 /\ wsent' = wsent /\ pushed' = TRUE
     \/ /\ ~ (TxNotFull /\ (wsent < req.w \/ MayQueueRead))
        /\ UNCHANGED <<tx, wsent, rqueued, pushed>>
  /\ UNCHANGED <<xfer, req, rgot, rbuf, spins, status, rx, line, abrt, hardware,
                 history>>

(* Drain one byte if there is one, then account for the iteration. *)
LoopPop ==
  /\ pc = "pop"
  /\ IF rgot < rqueued /\ rx # <<>>
     THEN rbuf' = Append(rbuf, Head(rx)) /\ rgot' = rgot + 1 /\ rx' = Tail(rx)
     ELSE UNCHANGED <<rbuf, rgot, rx>>
  /\ IF pushed \/ rgot' # rgot
     THEN spin' = 0 /\ total' = total /\ pc' = "loop" /\ status' = status
     ELSE /\ spin' = spin + 1 /\ total' = total + 1
          /\ IF spin' > SpinLimit \/ total' > SpinBudget
             THEN RecoverThenReturn("TIMEOUT")
             ELSE pc' = "loop" /\ status' = status
  /\ UNCHANGED <<xfer, req, wsent, rqueued, pushed, tx, line, abrt, hardware,
                 history>>

(* The wait for the STOP reads the abort latch and then the activity bit. *)
StopAbort ==
  /\ pc = "stopAbort"
  /\ CASE spin >= SpinLimit -> RecoverThenReturn("TIMEOUT") /\ abrt' = abrt
       [] spin < SpinLimit /\ abrt # "none" -> ClassifyAbort
       [] OTHER -> pc' = "stopActivity" /\ UNCHANGED <<abrt, status>>
  /\ UNCHANGED <<xfer, req, counters, pushed, spins, fifos, line, hardware, history>>

(* MST_ACTIVITY: the controller is taken to show it as soon as a command is *)
(* queued; the register reads in between give it the time to.               *)
MasterActive == line # "idle" \/ tx # <<>>

StopActivity ==
  /\ pc = "stopActivity"
  /\ IF MasterActive
     THEN pc' = "stopAbort" /\ spin' = spin + 1 /\ status' = status
     ELSE Return("SUCCESS") /\ spin' = spin
  /\ UNCHANGED <<xfer, req, counters, pushed, total, fifos, line, abrt, hardware,
                 history>>

Flushed == tx' = <<>> /\ rx' = <<>> /\ line' = "idle"

(* Mutant: does not disable, so nothing is flushed. *)
DwI2cRecoverNoFlush ==
  /\ pc = "recover" /\ pc' = "idle"
  /\ abrt' = "none" /\ stranded' = stuck
  /\ UNCHANGED <<xfer, req, counters, pushed, spins, status, fifos, line,
                 hardware, wire, nacked, sound>>

(* Both DwI2cRecover and DwI2cInit disable the controller, which flushes   *)
(* the FIFOs, and enable it again; the wait for that may end without it.   *)
Reenable ==
  ~stuck /\ Flushed /\ asked' = TRUE /\ on' \in BOOLEAN /\ stranded' = ~on'

(* One that stays enabled is left so, its disable requested.               *)
DisableRefused ==
  stuck /\ asked' = FALSE /\ stranded' = TRUE /\ UNCHANGED <<fifos, line, on>>

(* DwI2cRecover: nobody learns how it ended. *)
DwI2cRecover ==
  /\ pc = "recover" /\ pc' = "idle"
  /\ \/ Reenable /\ abrt' = "none"
     \/ DisableRefused /\ abrt' = abrt
  /\ UNCHANGED <<xfer, req, counters, pushed, spins, status, stuck, wire,
                 nacked, sound>>

(* DwI2cInit between two transfers, which is what I2cBusReinit calls. It   *)
(* fails unless the controller was disabled and shows that it is enabled.  *)
DwI2cInit ==
  /\ pc = "idle"
  /\ Reenable \/ DisableRefused
  /\ UNCHANGED <<pc, xfer, req, counters, pushed, spins, status, abrt, stuck,
                 wire, nacked, sound>>

-----------------------------------------------------------------------------
(* The controller and the panel. *)

(* An abort flushes the TX FIFO and ends the transfer on the bus. *)
Abort(kind) ==
  /\ abrt' = kind /\ tx' = <<>> /\ line' = "stopping" /\ nacked' = TRUE
  /\ rx' = rx

Execute(c, condition) ==
  /\ tx' = Tail(tx)
  /\ rx' = IF c.read /\ Len(rx) < RxDepth THEN Append(rx, c.tag) ELSE rx
  /\ line' = IF c.stop THEN "stopping" ELSE "held"
  /\ wire' = condition \o <<IF c.read THEN "R" ELSE "W">>
  /\ UNCHANGED <<abrt, nacked>>

HwExecute ==
  /\ tx # <<>> /\ abrt = "none" /\ line # "stopping"
  /\ LET c == Head(tx)
         condition == IF line = "idle" THEN <<"S">>
                      ELSE IF c.restart THEN Append(wire, "Sr") ELSE wire
     IN  \/ Execute(c, condition)
         \/ (line = "idle" \/ c.restart) /\ Abort("noack") /\ wire' = condition
         \/ ~c.read /\ Abort("other") /\ wire' = Append(condition, "W")
  /\ UNCHANGED <<pc, xfer, req, counters, pushed, spins, status, hardware,
                 stranded, sound>>

HwStop ==
  /\ line = "stopping" /\ line' = "idle" /\ wire' = Append(wire, "P")
  /\ UNCHANGED <<pc, xfer, req, counters, pushed, spins, status, fifos, abrt,
                 hardware, nacked, stranded, sound>>

(* The controller stops obeying IC_ENABLE. *)
HwStick ==
  /\ on /\ ~stuck /\ stuck' = TRUE
  /\ UNCHANGED <<pc, xfer, req, counters, pushed, spins, status, fifos, line,
                 abrt, asked, on, history>>

(* It obeys again; a disable requested in the meantime may be lost, or take *)
(* effect now, when nobody waits for it.                                   *)
HwObey ==
  /\ stuck /\ stuck' = FALSE
  /\ \/ UNCHANGED <<fifos, line, on>>
     \/ ~asked /\ Flushed /\ on' = FALSE
  /\ UNCHANGED <<pc, xfer, req, counters, pushed, spins, status, abrt, asked,
                 history>>

(* An enable takes effect when the wait for it has ended. *)
HwEnable ==
  /\ asked /\ ~on /\ on' = TRUE
  /\ UNCHANGED <<pc, xfer, req, counters, pushed, spins, status, fifos, line,
                 abrt, asked, stuck, history>>

(* The transfers of this model are used up. *)
Finished == pc = "idle" /\ xfer = MaxXfers /\ UNCHANGED vars

Software ==
  \/ LoopTest \/ LoopPush \/ LoopPop \/ StopAbort \/ StopActivity \/ DwI2cRecover

Next ==
  \/ XferStart \/ Software \/ DwI2cInit
  \/ HwExecute \/ HwStop \/ HwStick \/ HwObey \/ HwEnable \/ Finished

Spec == Init /\ [][Next]_vars
(* Only the processor is fair: the bus may hang for ever at any point. *)
FairSpec == Spec /\ WF_vars(Software)

-----------------------------------------------------------------------------
(* Properties.                                                             *)

(* Never more than DW_RX_INFLIGHT_MAX reads are outstanding, so no byte    *)
(* that arrives finds the RX FIFO full, stale bytes included; unless the   *)
(* last recovery found the controller stuck or left it disabled.           *)
Reads(q) == Cardinality({i \in DOMAIN q : q[i].read})
NoOverflow == ~stranded => Reads(tx) + Len(rx) <= InflightMax

(* A successful transfer that began on a clean controller was on the wire  *)
(* exactly once and in the shape I2C asks for: START, writes, a repeated   *)
(* START, reads, STOP.  Clean means that the last recovery or              *)
(* initialisation found the controller willing and saw it enabled again:   *)
(* DwI2cRecover does not report when it did not, and a disabled controller *)
(* drops what is written to it without an error.                           *)
Times(n, s) == [i \in 1..n |-> s]
WireBody(q) ==
  <<"S">> \o Times(q.w, "W")
    \o (IF q.w > 0 /\ q.r > 0 THEN <<"Sr">> ELSE <<>>)
    \o Times(q.r, "R")
WireShape(q) == WireBody(q) \o <<"P">>
OneTransferOnWire ==
  (pc = "idle" /\ status = "SUCCESS" /\ ~nacked /\ sound) =>
    wire = WireShape(req)

(* The engine is the transfer the HID layer counts on.  It returns,        *)
(* whatever the bus does: TPL_CALLBACK is not held for ever.  A success    *)
(* returned the bytes of its own commands, in order: what a failed         *)
(* transfer left behind never shifts a report, except from a recovery that *)
(* failed until the next one that works.  And whatever it returns          *)
(* otherwise, it leaves both FIFOs empty.                                  *)
Own == status = "SUCCESS" /\ rbuf = [i \in 1..req.r |-> <<xfer, i>>]
Transfer ==
  INSTANCE I2cTransfer WITH
    MayStrand <- TRUE,
    calling <- pc # "idle",
    status <- IF pc = "idle" THEN status ELSE "NONE",
    own <- pc = "idle" /\ Own,
    clean <- ~stranded /\ (pc = "idle" => tx = <<>> /\ rx = <<>>)
TransferSpec == Transfer!Spec

(* "Returns EFI_NO_RESPONSE on address NAK, EFI_DEVICE_ERROR on other      *)
(* aborts": a transfer the panel aborted is not a success.                 *)
AbortsAreReported == (pc = "idle" /\ status = "SUCCESS") => ~nacked
=============================================================================
