# TouchI2cDxe in TLA+

TouchI2cDxe is a UEFI driver that makes a HID-over-I2C touchscreen usable in a
boot manager: it finds the panel, brings it up, polls it from a timer and
produces `EFI_ABSOLUTE_POINTER_PROTOCOL`, until the operating system is started.
It runs in one address space, without locks, under the UEFI task priority
levels (TPL): code at a higher TPL preempts code at a lower one between any two
of its steps. The driver's hazards come from there, from hardware that answers
late, wrongly or not at all, and from a boot that can end at any moment.

This directory holds models of that driver in TLA+, TLC configurations that
check them on small instances, and TLAPS proofs about eight of them. Line numbers
refer to the files under `src/`; `PROJECT.json` maps each definition to its
lines.

## 1. The system

### Components

| Component | State | Operations | Interacts with |
|---|---|---|---|
| Lifecycle (`TouchI2cDxe.c`: entry point, `TouchTryBringUp`, `TouchRetry`, `TouchExitBootServices`) | `TOUCH_DEV`: four event handles, `Ready`, `NeedReinit`, `AttemptCount`, `InputBuf`, `HidDesc`, `Layout` | load, attempt, retry every second up to 60 times, poll every 10 ms, hand-off | boot services (timers, events, pool); detection; HID layer; transport |
| Pointer (layer 3, same file: `TouchPoll`, `TouchUpdateOrientation`, `TouchReset`, `TouchGetState`, `TouchWaitForInput`) | `State`, `StateChanged`, `LastTip`, `RotateActive`, `Mode` | take a report, decide the orientation, be read, be reset, signal input | boot manager (calls at a lower TPL); graphics output protocol; panel |
| Detection (same file: `TouchDetect`, `TouchResetKick`, `TouchMtkProbe`) | what was found, `ResetKicked`, `FwBusSearched`/`FwBusFound`, loop counters | profile pass, reset kick, fallback sweep | every layer below |
| SMBIOS identity (same file) | `mDmiProduct`, `mDmiBoard`, read once | walk the table, match a profile | detection |
| Layer 0, AMD (`FchAoacPowerOnI2c`) | power state of each tile (in hardware) | ask for D0, wait 100 ms | detection |
| Layer 0, Intel (`IntelLpss.c`) | PCI function, resets, clock | find the function, D0, release resets | detection |
| Layer 1, DesignWare (`DwI2c.c`) | controller registers and FIFOs | init, transfer, recover, disable | bus dispatch |
| Layer 1, MediaTek (`MtkI2c.c`) | `MTK_I2C`: mapping, DMA pages, timing snapshot, `IrqMaskOn` | init, re-init, transfer, disable | bus dispatch; firmware keyboard driver on the same bus |
| Bus dispatch (`I2cBus.c`) | selected transport, firmware host or master | transfer, re-init, disable | layers 1 and 2 |
| Layer 2 (`I2cHid.c`) | HID descriptor | read descriptor, power on, reset, read report | bus dispatch; panel |
| Report descriptor parser (`HidParse.c`) | none; global and local items while parsing | descriptor to `Layout` | lifecycle |
| Log and console, probe application, scripts | none that the driver reads | diagnostics | none |

The entry point creates the events, installs the protocol and makes one
attempt; if that fails it arms the retry timer. An attempt runs detection
through layers 0 to 2, parses the report descriptor, allocates the input
buffer, sets `Ready` and arms the poll timer. From then on the poll timer writes
`State` and the boot manager reads it. `ExitBootServices` cancels the timers and
disables the controller.

### What is hard, and what makes it correct

* *Lifecycle.* Notifications at TPL_CALLBACK interleave with the boot thread;
  every allocation and timer call can fail; attempts share one `TOUCH_DEV`.
  Correct: no closed handle is used, no freed memory is reachable, an attempt
  never runs on a live device, the input buffer fits the descriptor, nothing
  runs after the hand-off, a late panel is still brought up.
* *Pointer.* A poll falls between the steps of a call; the video mode changes
  while a finger is down; reads fail. Correct: `GetState` is atomic, no update
  (a lift-off above all) is lost, positions lie in the published ranges.
* *Detection.* Tiles power up late, controllers get stuck, the panel wakes up
  between two tries, 60 attempts repeat everything. Correct: only hardware the
  identity selects is touched, the panel is not overlooked or misattributed,
  the reset line is pulsed once, a failure leaves nothing enabled.
* *DesignWare transfers.* Software and controller race through two small FIFOs;
  the panel may stretch the clock for ever or NAK at any byte. Correct: no
  overflow, no stale byte in the next report, one well-formed transaction on
  the wire, an end to every call.
* *MediaTek transfers.* The firmware's keyboard driver uses the same
  controller; its status may or may not show what is masked; a transfer whose
  end was not seen is repeated. Correct: a success is the transfer's own, at
  most one transfer is repeated, the bus keeps the keyboard's speed.
* *Conversation with the panel.* Any call can fail, the recovery of a
  DesignWare controller can fail, and some results are ignored. Correct:
  a report that is taken holds its own bytes, and once the bus works reports
  come again.
* *Parser.* Sizes and counts come from the panel, in any order of items.
  Correct: nothing wraps, no field lies outside its report, and the fields are
  where the descriptor declares them.
* *Identity.* The SMBIOS table is the firmware's and may end anywhere. Correct:
  no profile is selected that the machine does not name.

## 2. The modules

### TouchLifecycle, TouchService

Two frames run code: `app`, the boot thread at TPL_APPLICATION (entry point,
then boot loader), and `cb`, the notification being dispatched at TPL_CALLBACK.
`pc` holds what each does next; an action is one call or assignment group of the
code. Bring-up (`BringUpBegin` .. `BringUpArm`) is shared by both frames, as
`TouchTryBringUp` is. `Tick` is a periodic timer that expires, `Dispatch` the
firmware that starts a queued notification, `ExitBootServices` the boot loader.
The environment fails at most `MaxFaults` boot services or reads, and lets the
panel come up whenever it likes. Two readings of the code's environment are kept
apart by `EbsMayPreempt`: what the UEFI specification allows (the boot loader
calls `ExitBootServices` at TPL_APPLICATION), and what comments in `TouchRetry`
and the entry point assume (it may arrive between any two steps).

`TouchService` is the abstract specification: the driver is loading, inert,
retrying, dormant, live or handed off. `TouchLifecycle` implements it under
`Phase`, liveness included.

### TouchPointer, PointerSlot

Starts where bring-up ends. A poll is one action, because the boot manager's
code runs below TPL_CALLBACK; the boot manager's `GetState` is three (test, copy,
clear), between which a poll falls unless the TPL is raised. Reports are a queue
in the panel; a read that fails may take its report with it, and the history
variable `lost` remembers that this was the latest one. `SetVideoMode` is the
boot manager's. The bits of a report are abstracted to tip and raw position.

`PointerSlot` is the abstract specification: a slot and an unread mark, and one
step to take both.

### TouchDetect

The loops of `TouchDetect` with their counters (`p`, `b`, `a`, `r`), one action
per call that touches hardware. Between any two actions the hardware moves: a
tile reaches D0, a controller sticks, the panel wakes, the firmware publishes
its I2C host. The profile, address and register tables are constants.
`IntelLpssPrepareI2c`, `FchAoacPowerOnI2c`, `DwI2cInit`, `DwI2cDisable` and the
MediaTek probe are modelled by their effect on power, timing, enable and target.
The reset kick (`Drive`) may take an awake panel down, for this attempt's sweep too:
that depends on how the pin was driven and on what is wired to it, which the code
cannot see, so both are left open. It comes up again when it likes (`PanelWakes`).
`Settings` are the machines: a configuration table, a place of the panel, which
PCI function sits at the Intel profile's location (the profile's, another one or
none), whether a tile may miss its deadline and how many faults there may be. A
function that is not the profile's is left alone; of the profile's own, a fault
is a failed configuration read after the request for D0, or a D0 or memory
decode that does not take effect, after which all ones read back and the resets
look released. `healthy`
remembers that a machine has neither slow tiles nor faults, for the properties
that promise something only then.

### SmbiosIdentity

`TouchReadDmiIdentity` and `TouchProfileMatchesIdentity` as operators `TouchDetect`
starts from: the choice of the entry point, the walk structure by structure
with each way it ends, the numbered strings. A name is a sequence of parts, so
that a board can begin with a profile's name and a cut can fall inside one.
`named` and `legible` are the declarative reading of the same table, which
`IdentityIsRead` holds the walk against and from which `IdentityGate` and
`NoMissedPanel` speak of the machine rather than of what the driver believes.

### I2cTransfer

The abstract layer-1 transfer: a call returns; one that begins on a clean
controller and succeeds has moved its own bytes; only a bus error may leave the
controller unclean, and only if the engine is one that may (`MayStrand`). Then
nothing is promised until a recovery or a re-initialisation has cleaned it.
`DwI2c` implements it with `MayStrand` true, `MtkI2c` with `MayStrand` false, and
`HidSession` is built on it.

### DwI2c

`DwI2cXfer` register read by register read, `ClassifyAbort`, `DwI2cRecover` and the
`DwI2cInit` of a re-initialisation, against a controller with two FIFOs that
executes commands, NAKs, aborts, stops or stalls between any two steps. `asked` is
what was written to `IC_ENABLE`, `on` what `IC_ENABLE_STATUS` shows. The controller
may stop obeying (`HwStick`) and obey again later (`HwObey`), with a disable
that was requested meanwhile lost or carried out when nobody waits for it; and the
wait for an enable may end without it (`Reenable`), which then takes effect at any
later time or never (`HwEnable`). `DwI2cInit` fails in both cases, `DwI2cRecover`
returns. A disabled controller drops what is written to its FIFO. `stranded`
remembers that the last of the two found the controller stuck or did not see it
enabled, `sound` that this was not so when the transfer began. The
bytes are named by the transfer and the position they were read for, so a stale
byte can be told from a fresh one.

### MtkI2c

`MtkI2cInit` (with its failures), `MtkI2cReinit`, `MtkI2cXfer` with
`MtkDoTransfer` and its one retry, `MtkI2cDisable`. `MtkInitHw` is two actions
where it runs at the caller's TPL and part of one where the TPL is raised.
`FirmwareTransfer` is the keyboard driver: it runs whenever the TPL is not
raised, resets whatever ran, and leaves a completion in `INTR_STAT` or not.
`latches` picks the two kinds of controller the code allows for. `sent`,
`nacked` and `firmwareRan` are history variables.

### HidSession

`TouchBringUp` (power on, reset, the acknowledge loop) and `TouchPoll` (recovery,
wake-up, read) over the dispatch of `I2cBus.c`. A transfer is two steps of
`I2cTransfer`, `Call` and its end, for whichever transport `kind` says; `FwXfer` maps
the statuses of the firmware's host to the vocabulary of `DwI2cXfer`, and
`I2cBusReinit` cleans the controller or fails, on a stuck one and on one that does
not show its enable. The controller
sticks and frees itself, the bus fails, the finger comes and goes, the panel
acknowledges its reset late, and the boot manager calls `Reset`, all at any time.
`accepted` remembers whose bytes the last report held. `ignored` remembers that a
call whose result the code does not look at (power on, reset and acknowledge in
`TouchBringUp`, the wake-up of a poll) left a stuck or disabled controller behind: then
nobody sets `NeedReinit`, and until a poll fails the next reads may take another
read's bytes. It is the one case the properties except, by name.

### HidParse, HidDescriptor

`HidParse` is `HidParseTouchLayout`, an action per kind of item, and the extraction
of the fields from a report as `TouchPoll` does it. 32-bit arithmetic wraps, at the
places the code guards and at those it does not. `HidDescriptor` says without a
parser where the items of a descriptor put tip, X and Y: a Pop undoes what lies in
its scope, an item belongs to the report whose ID is in force, a field starts where
the sizes before it in the same report add up to. Sizes, counts and positions are
unbounded there; a usage has its 32 bits. `LayoutIsDeclared` holds the parser against
it, `FieldsExtracted` the extraction against the bits of the report.

### The MC modules

`MCTouchPointer`, `MCTouchDetect`, `MCDwI2c`, `MCMtkI2c`, `MCHidSession` and
`MCHidParse` give the structured constants their values. A configuration
replaces no other definition.

## 3. The runs

| Run | Shows |
|---|---|
| `lifecycle` | TPL_APPLICATION hand-off: types, handles, memory, buffer, exclusivity of attempts, quiet hand-off, refinement of `TouchService`, a late panel comes up |
| `lifecycle_preempt` | with the comments' assumption, clearing `RetryEvent` before closing it is enough |
| `lifecycle_bus_idle` (violation) | an attempt that failed half-way leaves the controller enabled at the hand-off |
| `pointer` | no lost update, ranges, refinement of `PointerSlot`, releases arrive |
| `pointer_video` (violation) | a release keeps coordinates of the previous orientation |
| `detect` | healthy machines: identity read and respected, one kick, idle after failure, no panel missed but one the attempt's kick has reset, timing of a fresh tile; with late tiles, stuck controllers and failed reads: attribution, transport, power |
| `detect_fresh` (violation) | a tile that was late once is taken for one the firmware ran |
| `dw_i2c` | FIFO bounds and the shape on the wire, unless the last recovery found the controller stuck or left it disabled; refinement of `I2cTransfer`: the call returns, no stale bytes |
| `dw_i2c_abort` (violation) | an abort between two register reads is reported as success |
| `mtk_i2c` | NAKs, one repeat at most, speed, refinement of `I2cTransfer`: the call returns, a success is its own, the controller is idle between calls |
| `hid_session` | a report taken is the poll's own; reports come again once the bus works |
| `hid_parse` | offsets bounded, the layout is what the descriptor declares, the fields are the report's bits |

### Bounds, and why they are enough

* Lifecycle: `RetryMax = 4` (60 in the code) gives a first, a middle and a last
  retry after the attempt at entry; two input lengths tell a buffer of the
  current descriptor from one of an earlier; two faults let a failure follow a
  failure. The proofs lift all three.
* Pointer: a 2 x 3 portrait matrix, one raw position in its corner and one
  beyond it on both axes; all three graphics modes and switches between them;
  two waiting reports, so a tap's touch and release can both be pending; one
  read fault, which may or may not swallow a report. The proofs lift all.
* Detection: one profile of each kind (fixed AMD with reset line, Intel,
  MediaTek, sweep), two alternates of addresses and registers, so that first
  and last differ; two attempts, so that what one leaves the next one meets;
  one fault. `Settings` is the union of four sets: healthy machines of every
  identity and place; healthy machines with an SMBIOS table that is cut off in
  a header, between strings or inside a name, that is malformed, has wrong
  string numbers or another order, or is reached through either entry point;
  machines that Intel profiles are named for, where another PCI function or none
  sits at the profile's location; and machines with slow tiles and a fault, at one alternate of each kind.
* DesignWare: FIFOs of two, a read of three (so refills are needed), three
  transfers in a row (one that fails, one on what it left, one after that), spin
  limits of one and two polls, so a limit can be reached with a step to spare and
  without.
* MediaTek: three calls (one before the retry, the one that retries, one after
  it, or a call after a failed or a repeated one), one poll after the first,
  one failing mapping or allocation; a command, a register read, a plain read
  and the two kinds of refused call.
* Session: every transport; three acknowledge tries (200 in the code), a first,
  a middle and a last; no bound on the polls, the failures or the recoveries.
* Parser: every sequence of four out of fifteen groups of items: each way to
  write the touch usages (one with a page that wraps), report IDs, Push and Pop,
  padding, empty items, products that wrap, and usages that belong to no Input item. The numbers are
  scaled: a byte of item data has two bits, so that 32-bit arithmetic wraps at
  256; two report IDs, three local usages and a stack of one reach every limit.
  The proofs lift all of them.

`CHECK_DEADLOCK` is on everywhere. `Finished` (and its counterparts in the other
modules) is the explicit stutter of a model that has used up its bounds or of a
driver that has been handed off.

### Fairness, and why the code justifies it

* `TouchLifecycle`: weak fairness of the boot thread's entry steps and of a
  running notification (the processor runs), of each armed timer's tick and of
  each queued notification's dispatch (the firmware's timer and event services;
  the entry point returns, so TPL_CALLBACK is reached). None for the panel, for
  faults, or for the boot loader: it may wait for ever.
* `TouchPointer`: weak fairness of the poll (the timer was armed and keeps
  firing) and of the boot manager's wait-and-read loop, which is what
  `WaitForInput` is for. None for the panel, for video modes or for `Reset`.
* `DwI2c`, `MtkI2c`: weak fairness of the software only. The controller and the
  panel may hang at any point: that a call returns (`Returns` of `I2cTransfer`)
  rests on the spin budgets alone.
* `HidSession`: weak fairness of the driver (the poll timer is periodic, and
  transfers return, which the two runs above show). `TouchComesBack` assumes of
  the rest only what it says: that from some point on the bus works, the
  controller obeys and the finger moves.
* `TouchDetect` and `HidParse` have safety properties only.

## 4. The proofs

Each of `TouchLifecycle_proofs`, `TouchPointer_proofs`, `TouchDetect_proofs`,
`SmbiosIdentity_proofs`, `DwI2c_proofs`, `MtkI2c_proofs`, `HidSession_proofs` and
`HidParse_proofs` extends the module it is about and holds for every value of the
constants that satisfies the `ASSUME`s there. These say what the source fixes and
leave the bounds of the runs open: `RetryMax >= 2`, input lengths that are positive
numbers, any number of faults, polls, transfers and attempts; logical maxima that
are positive (bring-up replaces a zero by 0xFFFF), any raw positions; FIFOs of any
depth with `DW_RX_INFLIGHT_MAX` at most the RX depth; requests of any lengths. For
detection, the profile table may be any sequence of `Profile` records in which a
platform has its own controllers and no two profiles share a reset line
(`ProfilesAssumption`, true of `mProfiles`, 215-254); the two alternates arrays are
not empty; and a machine's configuration table has one entry per identifier
(`AreEntries`), its SMBIOS table any sequence of structures cut off anywhere
(`IsTable`), and a panel on the Intel controller only if that function is there.

Every invariant that a passing run checks is also proved, and so are the safety
parts of the refinements; what stays with TLC is named at the end.

**Lifecycle.** The safety invariants are not inductive: whether a closed handle
can be reached depends on who is running. `Inv` therefore says, label by label:
nothing is dispatched before the entry point returns (`LoadingIsQuiet`); what
`Ready` is where it is read (`ReadyByLabel`); in which labels the retry event is
open and in which its field still holds it (`RetryOpenByLabel`,
`RetryHeldByLabel`); how many attempts were made and that one is left wherever
one may start (`AttemptByLabel`); what bring-up has built so far
(`BufferByLabel`); which events exist and that Dev outlives them (`DevByLabel`,
`HandlesByLabel`). Each conjunct is preserved by each action in its own step, and
the invariants of the runs follow from `Inv`: `TypeCorrect`,
`PollBufferAlwaysFits`, `BringUpIsExclusive`, `RetryHandleAlwaysOpen` (for both
values of `EbsMayPreempt`), `DevAlwaysOutlivesEvents`. `HandlesAlwaysOpen` and
`HandoffIsQuiet` add the assumption that `EbsMayPreempt` is false; without it they
do not hold (section 5). `ImplementsService` shows that every step
maps to a step of `TouchService` or a stutter: its safety part, the bound on the
attempts included.

**Pointer.** `Inv` adds to the properties: the copy and the clear of `GetState` run
at TPL_NOTIFY with what was tested still true (`GetStateRaised`), `LastTip` is the
tip in `State` (`StateByReady`), and the published ranges belong to the rotation
last decided (`RangesPublished`). From it follow `PointerTypes`, `NoUpdateIsLost`,
`PositionAlwaysInRange` (for releases too as long as no video mode is set, which
the run, with mode switches, cannot say) and `ImplementsSlot`.

**Detection.** Almost none of the ten invariants is inductive: whether a failed
attempt leaves a controller enabled, or has overlooked the panel, is decided by
what every loop has done so far. `Inv` says so loop by loop. `ControlOK` ties the
cursors to the profile in hand; `PowerOK` and `TargetOK` say that the controller in
hand is powered and targets the address being tried; `KicksOK` equates a pulse of a
reset line with `ResetKicked`; `GateOK` bounds what was written by the profiles
*accepted*. `EnabledOK` names, for each controller that is on, the part of the
attempt that will still turn it off (`Pending`): what the profile pass enabled is
left to the fallback, which covers it again. `FreshOK` does the same for a
controller that is powered and unprogrammed (`Due`). The exhaustive search is
`TriedOK` (the profiles' own places), `LookedOK` (the alternates of the profile in
hand up to the cursors) and `OverOK` (the profiles the sweep is done with), each
saying that the panel is not there; `AwakeOK` and `ReadyOK` add that it was awake
and the controllers were powered when they were looked at. A kick that takes the
panel down ends the search's promise for this attempt (`knew`). TLC checked all
eighteen conjuncts on the states of the run `detect` before they were proved. The
profiles accepted become the profiles the machine names by `IdentityOK`, whose
initial case is the theorem of the next paragraph. From it follow `Types`,
`OnlyNamedHardwareDriven`, `TablesDecideProfiles`, `ResetKickedOnce`,
`AttributedToItsAddress`, `TransportIsTheFinder`, `GatedTilesUntouched`,
`FailureDisablesAll`, `FreshPowerMeansTiming` and `NothingOverlooked`, for any tables
of profiles, addresses and registers and any number of attempts.

**Identity.** What `TouchReadDmiIdentity` makes of an SMBIOS table of any length. The
walk is a recursive function over the table; that it exists (`WalkExists`) and what
it has read after each structure (`WalkReadsNames`, `WalkKnows`) is shown over a
least counterexample, with the library's well-foundedness of the natural numbers,
since the induction theorems proper cannot be used. `OnlyNamedAccepted`: unless the
table ends inside the name it holds, every name the walk ends with is one of the
table's, however it is cut off or malformed. `WholeTableIsRead`: nothing a whole
table names is missed; there the early end of the walk, once both names are known,
rests on there being one system and one baseboard. `IdentityFollowsTables` adds the
choice of the entry point.

**DesignWare.** `Inv` describes the transfer by how far it is: the TX FIFO holds
exactly the commands that follow those taken (`TxOK`), the RX FIFO and `RBuf` the
bytes that follow each other (`RxOK`), the wire the beginning of the transaction
(`WireOK`); an abort has emptied the TX FIFO and is latched until the loop sees it
(`AbortOK`); between transfers nothing is left (`LeftEmpty`) and the controller is enabled with no
disable pending (`SoundOK`), unless the last recovery found it stuck or did not see
it enabled. From it follow `Types`, `RxNeverOverflows` and
`WireIsOneTransfer`. `ImplementsTransfer` maps every step to one of `I2cTransfer`'s
safety part (`Safe`) or a stutter, with `MayStrand` true.

**MediaTek.** What makes the properties inductive is what `INTR_STAT` can be trusted
for: an error that came shows before its completion does (`ErrorsOK`), a completion
without one means the bytes have arrived (`CompletionOK`), a try that runs belongs to
the call in progress (`EngineOK`), the second sending of a transfer is in the call
that turns the mask on for good (`SentOK`), and the snapshot of the timing is older
than the first reset (`SpeedOK`). From it follow `Types`, `NaksAlwaysReported`,
`OneRepetition`, `SpeedAlwaysKept` and `ImplementsTransfer`, here with `MayStrand`
false: no error leaves the controller unclean.

**Session.** `AcceptedIsOwn` is not inductive: whether a read finds a clean
controller was decided by earlier calls. `Inv` adds that an unclean controller is
always noted, in `NeedReinit` or in `ignored` (`Noted`); that a poll which reads owes
no recovery (`ReadOwesNothing`); that nothing is taken between the start of a poll
and its read (`TakenAtIdle`); and that the acknowledge loop has tries left
(`TriesLeft`). `TransportKeepsContract` shows that every transport's transfer keeps
what `I2cTransfer` says. From it follow `SessionTypes`, `AcceptedAlwaysOwn` and
`CallsAreTransfers`: every step is one of `I2cTransfer` or a stutter, over each of the
transports (only the start differs: detection may hand over an unclean controller).

**Parser.** `TypeOK` and `OffsetsBounded` are inductive together. The core is
arithmetic: the guard divides before it multiplies (`BoundedProduct`), so neither
the product of size and count nor the running position wraps (`NoWrap`), and the
k-th field of an item ends within it (`FieldEnd`). `NoStaleBytes` adds what no
single run can say: two buffers that agree on a report give the same touch, so what
longer reports left in `InputBuf` is never seen.

*The fields.* `FieldsAlwaysExtracted` says that summing up single bits from some
offset gives the number that stands there in the report as a whole. The laws of
powers and of sums this needs are shown over a least counterexample (`StepByStep`),
as in the identity's walk; with them a number is its lowest digits and the rest,
a bit of the report is a bit of its byte, and the bits from an offset on are a
quotient and a remainder.

*The layout.* `LayoutAlwaysDeclared` is about every descriptor whose Push items nest
no deeper than the stack; behind a deeper one, as the property says, the parser's
Pop and the descriptor's part. Its inductive invariant, `Followed`, ties every piece
of the parser's state to what the items read so far declare: the stack holds the
globals at the Push items still open (`StackFollows`), `g` those at the end
(`GlobalsFollow`), the locals are the ones of the main item to come
(`LocalsFollow`), the entries of `Rids` are the first reports in their order
(`RidsAreTracked`), and each has the size and the first places its items give it, or
is marked as not to be trusted exactly if one of them is empty or leaves the longest
report (`RidsFollow`). TLC checked it on the states of the run `hid_parse` first.
Since the declarative side is over all items read, each step needs two kinds of
lemma: what an item declared stays as it was when more are read (`ItemsStay`,
`DeclaresStays`, `FollowedStays`), and what the new item adds. At the end, an entry
is usable exactly if its report is (`UsableMeans`), and the first such entry is the
first such report (`FirstUsable`).

**Model-checked only.** Liveness: `LatePanelIsBroughtUp`, `ReleaseArrives`,
`TouchComesBack`, and the liveness parts of `ServiceSpec` and `TransferSpec`;
fairness and ENABLED are out of the prover's reach.

## 5. Where code and words differ

Each is a run of its own, listed under `findings`: `BusIdleAtHandoff`,
`ReleaseLandsInRange`, `FreshTimingProgrammed`, `AbortsAreReported`.

Smaller ones, without a run:

* Under the comments' assumption that `ExitBootServices` may preempt any step, the
  Inert exit of the entry point exposes closed timer handles: it closes them
  with their fields still set (1692-1706). It cannot happen at
  TPL_APPLICATION, which `HandlesAlwaysOpen` assumes.
* `DwI2cRecover` relies on "the next DwI2cInit will fail" for a stuck controller.
  Where a result is ignored (`TouchI2cDxe.c` 811, 1265, 1273) nobody calls it.
* `DwI2cRecover` is to "return the controller to a known-idle state" (`DwI2c.c` 194),
  and does not look at how its wait for the enable ends (214-219). If the enable does
  not show, what the next transfer writes is dropped, and a transfer without a read
  finds nothing active and returns EFI_SUCCESS with nothing on the wire.
  `OneTransferOnWire` excepts it (`sound`).
* The kick's comment counts on "the caller's retry cadence" for a panel to come up
  again (`TouchI2cDxe.c` 915-916). The same attempt's sweep still follows (1144-1244):
  an awake panel behind that line at an alternate address does not acknowledge the
  profile's, is reset for that, and is missed until the next attempt.
  `NoMissedPanel` excepts the attempt that does so (`knew`).
* "On malformed or unavailable data the identity stays empty"
  (`TouchI2cDxe.c` 394-395): a table that ends inside a name yields the part that
  is left, which can be an exact product name of another machine. `legible =
  "misread"` is that case. A malformed structure after a good one leaves the
  names read so far.
* `HidParse.h` documents `EFI_COMPROMISED_DATA` (39); no path returns it.
* A Usage Page item of four bytes is kept whole, and shifting it left by 16 bits
  drops its upper half: such a page is read as its lower 16 bits. The model, and the
  usages in `HidDescriptor`, do the same.

## 6. What is not modelled

* The device-path search for the firmware's I2C host (`PathHasAcpiNode`,
  `I2cBusFindFirmwareController`): its verdict is an input of `TouchDetect`. Of
  `IntelLpss.c` the loop over PCI handles, the walk of the capability list, the
  decoding of the BAR and the values of the remap and clock registers: `TouchDetect`
  has their outcomes. All are straight-line searches or register values that
  keep no state in the driver.
* What a firmware host does with a transfer it reports as done: `HidSession` takes
  its successes for its own.
* The split of a descriptor's bytes into items, the fixup of byte 607 for one
  Goodix panel, and the bytes of the HID commands and the HID descriptor.
* The checksums and lengths of the SMBIOS entry points, which the code does not
  look at either, and names longer than its 31 characters.
* What a firmware transaction suffers when `MtkInitHw` resets the controller at
  the caller's TPL: the window is in the model, its effect on the firmware is
  not the driver's state.
* Two taps between two looks of the boot manager, and a lift-off lost with a
  failed read: the protocol has one slot, and the driver no timeout for a contact.
* Log file, console output, probe application and scripts: no state the driver
  reads.

## 7. Plan

The capability walk of `IntelLpss` and the search for the firmware's I2C host, as
operators with a declarative reading, as `SmbiosIdentity` is.
