------------------------- MODULE TouchPointer_proofs --------------------------
(***************************************************************************)
(* Proofs about TouchPointer, for every touch range, every set of raw      *)
(* positions and any number of bus errors: the driver implements           *)
(* PointerSlot, loses no update, and never lets a position out of range.   *)
(***************************************************************************)
EXTENDS TouchPointer, TLAPS

(* Types, the history of reports left out. *)
FlagsOK ==
  /\ ready \in BOOLEAN /\ stateChanged \in BOOLEAN /\ lastTip \in BOOLEAN
  /\ rotate \in BOOLEAN /\ needReinit \in BOOLEAN

ReportsOK == reports \in Seq(Reports)

StatesOK ==
  /\ state \in States /\ seen \in States /\ mode \in [x : Nat, y : Nat]
  /\ caller \in {"wait", "get", "copy", "clear"}

(* The steps of GetState that must not be interrupted run at TPL_NOTIFY,   *)
(* and what they rest on was tested at that level.                         *)
GetStateRaised ==
  /\ caller \in {"copy", "clear"} => tpl = "NOTIFY" /\ ready /\ stateChanged
  /\ caller = "clear" => seen = state

(* Nothing was reported before bring-up; LastTip is the tip in State.      *)
StateByReady ==
  /\ ~ready => state = Zero /\ seen = Zero /\ ~stateChanged
  /\ lastTip <=> state.tip

(* The published ranges are those of the decision taken last, which is     *)
(* still the right one unless the video mode was switched since.           *)
RangesPublished ==
  ready =>
    /\ mode = IF rotate THEN [x |-> YMax, y |-> XMax] ELSE [x |-> XMax, y |-> YMax]
    /\ ~VideoSwitch => rotate = (XMax < YMax /\ gop = "landscape")

Inv ==
  /\ FlagsOK /\ ReportsOK /\ StatesOK
  /\ GetStateRaised /\ StateByReady /\ RangesPublished
  /\ NoLostUpdate /\ PositionInRange
-----------------------------------------------------------------------------
(* What TakeReport computes.                                               *)
LEMMA ClampInRange ==
  ASSUME NEW m \in Nat, NEW max \in Nat
  PROVE  Clamp(m, max) \in 0..max
  BY DEF Clamp

(* The ranges TouchUpdateOrientation publishes.                            *)
LEMMA OrientationRanges ==
  ASSUME TouchUpdateOrientation
  PROVE  /\ rotate' \in BOOLEAN /\ mode' \in [x : Nat, y : Nat]
         /\ rotate' = (XMax < YMax /\ gop = "landscape")
         /\ mode' = IF rotate' THEN [x |-> YMax, y |-> XMax]
                              ELSE [x |-> XMax, y |-> YMax]
  BY RangeAssumption DEF TouchUpdateOrientation

(* A touch lands within the ranges published with it, rotated or not.      *)
LEMMA TouchLands ==
  ASSUME NEW tip \in BOOLEAN, NEW at \in Contacts, state \in States,
         TakeReport(tip, at)
  PROVE  /\ state' \in States
         /\ ~ReportChanges(tip) => UNCHANGED pointer
         /\ ReportChanges(tip) => state'.tip = tip /\ stateChanged' /\ lastTip' = tip
         /\ ReportChanges(tip) /\ tip => state'.x <= mode'.x /\ state'.y <= mode'.y
         /\ ReportChanges(tip) /\ ~tip => state'.x = state.x /\ state'.y = state.y
<1> DEFINE x == Clamp(at[1], XMax)
           y == Clamp(at[2], YMax)
<1>1. x \in 0..XMax /\ y \in 0..YMax
  BY ClampInRange, RangeAssumption, ContactsAssumption
<1>2. /\ x \in Coords /\ y \in Coords /\ XMax - x \in Coords
      /\ XMax - x \in 0..XMax
  BY <1>1, RangeAssumption DEF Coords, Larger
<1>3. TouchUpdateOrientation
  BY DEF TakeReport
<1>4. CASE ~ReportChanges(tip)
  BY <1>4 DEF TakeReport, pointer
<1>5. CASE ReportChanges(tip) /\ rotate'
  <2>1. state' = ReportState(tip, y, XMax - x)
    BY <1>5 DEF TakeReport
  <2>2. stateChanged' = TRUE /\ lastTip' = tip
    BY <1>5 DEF TakeReport
  <2>3. state' \in States /\ state'.tip = tip
    BY <1>2, <2>1 DEF ReportState, States
  <2>4. tip => state'.x <= mode'.x /\ state'.y <= mode'.y
    BY <1>1, <1>2, <1>3, <1>5, <2>1, OrientationRanges DEF ReportState
  <2>5. ~tip => state'.x = state.x /\ state'.y = state.y
    BY <2>1 DEF ReportState
  <2>6. QED
    BY <1>5, <2>2, <2>3, <2>4, <2>5
<1>6. CASE ReportChanges(tip) /\ ~rotate'
  <2>1. state' = ReportState(tip, x, y)
    BY <1>6 DEF TakeReport
  <2>2. stateChanged' = TRUE /\ lastTip' = tip
    BY <1>6 DEF TakeReport
  <2>3. state' \in States /\ state'.tip = tip
    BY <1>2, <2>1 DEF ReportState, States
  <2>4. tip => state'.x <= mode'.x /\ state'.y <= mode'.y
    BY <1>1, <1>2, <1>3, <1>6, <2>1, OrientationRanges DEF ReportState
  <2>5. ~tip => state'.x = state.x /\ state'.y = state.y
    BY <2>1 DEF ReportState
  <2>6. QED
    BY <1>6, <2>2, <2>3, <2>4, <2>5
<1>7. QED
  BY <1>4, <1>5, <1>6
-----------------------------------------------------------------------------
LEMMA ZeroState == Zero \in States /\ Zero.x = 0 /\ Zero.y = 0 /\ ~Zero.tip
  BY RangeAssumption DEF Zero, States, Coords, Larger

LEMMA InitInv == Init => Inv
<1> SUFFICES ASSUME Init PROVE Inv
  OBVIOUS
<1> USE DEF Init, Zero
<1>1. FlagsOK
  BY DEF FlagsOK
<1>2. ReportsOK
  BY DEF ReportsOK
<1>3. StatesOK
  BY RangeAssumption DEF DefaultMax, StatesOK, States, Coords, Larger
<1>4. GetStateRaised /\ RangesPublished
  BY DEF GetStateRaised, RangesPublished
<1>7. ~ready => state = Zero /\ seen = Zero /\ ~stateChanged
  OBVIOUS
<1>8. lastTip <=> state.tip
  OBVIOUS
<1>5. NoLostUpdate /\ PositionInRange
  BY DEF NoLostUpdate, PositionInRange
<1>6. QED
  BY <1>1, <1>2, <1>3, <1>4, <1>5, <1>7, <1>8 DEF Inv, StateByReady

(* What a poll that accepts a report does to the parts of Inv.             *)
LEMMA TouchReportKeepsInv ==
  ASSUME Inv, PollReport, Head(reports).kind = "touch"
  PROVE  Inv'
<1> DEFINE tip == Head(reports).tip
           at == Head(reports).at
<1>1. reports # <<>> /\ Head(reports) \in Reports /\ Tail(reports) \in Seq(Reports)
  BY DEF Inv, ReportsOK, PollReport
<1>2. tip \in BOOLEAN /\ at \in Contacts
  BY <1>1 DEF Reports
<1>3. /\ TakeReport(tip, at) /\ ready /\ tpl = "APPLICATION"
      /\ reports' = Tail(reports) /\ needReinit' = FALSE
      /\ UNCHANGED <<ready, gop, tpl, caller, seen>>
  BY DEF PollReport, PollMayRun, consumer
<1>4. TouchUpdateOrientation
  BY <1>3 DEF TakeReport
<1> HIDE DEF tip, at
<1>5. state \in States
  BY DEF Inv, StatesOK
<1>6. /\ state' \in States
      /\ ~ReportChanges(tip) => UNCHANGED pointer
      /\ ReportChanges(tip) => state'.tip = tip /\ stateChanged' = TRUE /\ lastTip' = tip
      /\ ReportChanges(tip) /\ tip => state'.x <= mode'.x /\ state'.y <= mode'.y
      /\ ReportChanges(tip) /\ ~tip => state'.x = state.x /\ state'.y = state.y
  BY <1>2, <1>3, <1>5, TouchLands
<1>7. FlagsOK'
  BY <1>2, <1>3, <1>4, <1>6, OrientationRanges DEF Inv, FlagsOK, pointer
<1>8. ReportsOK'
  BY <1>1, <1>3 DEF ReportsOK
<1>9. StatesOK'
  BY <1>3, <1>4, <1>6, OrientationRanges DEF Inv, StatesOK
<1>10. GetStateRaised'
  BY <1>3 DEF Inv, GetStateRaised
<1>11. StateByReady'
  BY <1>3, <1>6 DEF Inv, StateByReady, pointer
<1>12. RangesPublished'
  BY <1>3, <1>4, OrientationRanges DEF RangesPublished
<1>13. NoLostUpdate'
  BY <1>3, <1>6 DEF Inv, NoLostUpdate, pointer
<1>14. PositionInRange'
  <2>1. CASE ~VideoSwitch
    <3>1. mode' = mode
      BY <2>1, <1>3, <1>4, OrientationRanges DEF Inv, RangesPublished
    <3>2. QED
      BY <3>1, <2>1, <1>3, <1>6 DEF Inv, PositionInRange, pointer
  <2>2. CASE VideoSwitch /\ ReportChanges(tip)
    BY <2>2, <1>6 DEF PositionInRange
  <2>3. CASE VideoSwitch /\ ~ReportChanges(tip)
    <3>1. ~state'.tip
      BY <2>3, <1>6 DEF Inv, StateByReady, ReportChanges, pointer
    <3>2. QED
      BY <2>3, <3>1 DEF PositionInRange
  <2>4. QED
    BY <2>1, <2>2, <2>3
<1>15. QED
  BY <1>7, <1>8, <1>9, <1>10, <1>11, <1>12, <1>13, <1>14 DEF Inv

LEMMA StepInv == Inv /\ [Next]_vars => Inv'
<1> SUFFICES ASSUME Inv, [Next]_vars PROVE Inv'
  OBVIOUS
<1> USE DEF Inv, FlagsOK, ReportsOK, StatesOK, GetStateRaised, StateByReady,
            RangesPublished, NoLostUpdate, PositionInRange, pointer,
            orientation, panel, consumer, PollMayRun
<1>1. CASE TouchTryBringUp
  <2> USE <1>1 DEF TouchTryBringUp
  <2>1. TouchUpdateOrientation
    OBVIOUS
  <2>2. FlagsOK'
    BY <2>1, OrientationRanges
  <2>3. ReportsOK' /\ GetStateRaised'
    OBVIOUS
  <2>4. StatesOK'
    BY <2>1, OrientationRanges, ZeroState
  <2>5. StateByReady' /\ NoLostUpdate'
    BY ZeroState
  <2>6. RangesPublished'
    BY <2>1, OrientationRanges
  <2>7. PositionInRange'
    BY <2>1, <2>4, OrientationRanges, ZeroState, RangeAssumption
  <2>8. QED
    BY <2>2, <2>3, <2>4, <2>5, <2>6, <2>7
<1>2. CASE PollReinitFails
  BY <1>2 DEF PollReinitFails
<1>3. CASE PollNothing
  BY <1>3 DEF PollNothing
<1>4. CASE PollError
  BY <1>4 DEF PollError
<1>5. CASE PollReport
  <2>1. CASE Head(reports).kind = "touch"
    BY <1>5, <2>1, TouchReportKeepsInv
  <2>2. CASE Head(reports).kind # "touch"
    <3>1. Tail(reports) \in Seq(Reports)
      BY <1>5 DEF PollReport
    <3>2. needReinit' = FALSE /\ reports' = Tail(reports)
          /\ UNCHANGED <<ready, pointer, orientation, gop, consumer>>
      BY <1>5, <2>2 DEF PollReport
    <3>3. FlagsOK' /\ ReportsOK' /\ StatesOK'
      BY <3>1, <3>2
    <3>4. QED
      BY <3>2, <3>3
  <2>3. QED
    BY <2>1, <2>2
<1>6. CASE WaitForInput
  BY <1>6 DEF WaitForInput
<1>7. CASE CallUnasked
  BY <1>7 DEF CallUnasked
<1>8. CASE GetStateTest
  BY <1>8 DEF GetStateTest
<1>9. CASE GetStateCopy
  BY <1>9 DEF GetStateCopy
<1>10. CASE GetStateClear
  BY <1>10 DEF GetStateClear
<1>11. CASE SetVideoMode
  BY <1>11 DEF SetVideoMode
<1>12. CASE PanelReports
  <2>1. ReportsOK'
    BY <1>12 DEF PanelReports, Reports
  <2>2. UNCHANGED <<ready, pointer, needReinit, orientation, gop, consumer>>
    BY <1>12 DEF PanelReports
  <2>3. QED
    BY <2>1, <2>2
<1>13. CASE PanelReportsOther
  <2>1. ReportsOK'
    BY <1>13 DEF PanelReportsOther, Reports
  <2>2. UNCHANGED <<ready, pointer, needReinit, orientation, gop, consumer>>
    BY <1>13 DEF PanelReportsOther
  <2>3. QED
    BY <2>1, <2>2
<1>14. ASSUME NEW extended \in BOOLEAN, TouchReset(extended) PROVE Inv'
  <2> USE <1>14 DEF TouchReset
  <2>1. FlagsOK'
    OBVIOUS
  <2>2. ReportsOK' /\ GetStateRaised' /\ RangesPublished'
    OBVIOUS
  <2>3. StatesOK'
    BY ZeroState
  <2>4. StateByReady' /\ NoLostUpdate'
    BY ZeroState
  <2>5. PositionInRange'
    BY ZeroState, <2>3
  <2>6. QED
    BY <2>1, <2>2, <2>3, <2>4, <2>5
<1>15. CASE UNCHANGED vars
  BY <1>15 DEF vars
<1>16. QED
  BY <1>1, <1>2, <1>3, <1>4, <1>5, <1>6, <1>7, <1>8, <1>9, <1>10, <1>11, <1>12, <1>13, <1>14, <1>15
  DEF Next, TouchPoll
LEMMA AlwaysInv == Spec => []Inv
  BY InitInv, StepInv, PTL DEF Spec

-----------------------------------------------------------------------------
(* No update, a lift-off least of all, is lost between a poll and the test, *)
(* copy and clear of a GetState.                                           *)
THEOREM NoUpdateIsLost == Spec => []NoLostUpdate
<1>1. Inv => NoLostUpdate
  BY DEF Inv
<1>2. QED
  BY <1>1, AlwaysInv, PTL

(* Whatever the panel reports and however it is rotated, a touch is within *)
(* the ranges published, for every pair of logical maxima.                 *)
THEOREM PositionAlwaysInRange == Spec => []PositionInRange
<1>1. Inv => PositionInRange
  BY DEF Inv
<1>2. QED
  BY <1>1, AlwaysInv, PTL

-----------------------------------------------------------------------------
(* The driver implements PointerSlot.                                      *)
LEMMA InitSlot == Init => Slot!Init
  BY DEF Init, Slot!Init

LEMMA StepSlot == Inv /\ Inv' /\ [Next]_vars => [Slot!Next]_(Slot!svars)
<1> SUFFICES ASSUME Inv, Inv', [Next]_vars PROVE [Slot!Next]_(Slot!svars)
  OBVIOUS
<1> USE DEF Inv, FlagsOK, StatesOK, GetStateRaised, StateByReady, pointer,
            Slot!Next, Slot!Update, Slot!Take, Slot!Reset, Slot!svars
<1>1. CASE TouchTryBringUp
  BY <1>1, ZeroState DEF TouchTryBringUp, consumer
<1>2. CASE PollReinitFails
  BY <1>2 DEF PollReinitFails, consumer
<1>3. CASE PollNothing
  BY <1>3 DEF PollNothing, consumer
<1>4. CASE PollError
  BY <1>4 DEF PollError, consumer
<1>5. CASE PollReport
  <2>1. state' \in States /\ seen' = seen /\ caller' = caller /\ tpl = "APPLICATION"
    BY <1>5 DEF PollReport, PollMayRun, consumer
  <2>2. CASE UNCHANGED pointer
    BY <2>1, <2>2
  <2>3. CASE stateChanged'
    BY <2>1, <2>3
  <2>4. stateChanged' \/ UNCHANGED pointer
    BY <1>5 DEF PollReport, TakeReport
  <2>5. QED
    BY <2>2, <2>3, <2>4
<1>6. CASE WaitForInput
  BY <1>6 DEF WaitForInput, consumer
<1>7. CASE CallUnasked
  BY <1>7 DEF CallUnasked, consumer
<1>8. CASE GetStateTest
  BY <1>8 DEF GetStateTest, consumer
<1>9. CASE GetStateCopy
  BY <1>9 DEF GetStateCopy, consumer
<1>10. CASE GetStateClear
  BY <1>10 DEF GetStateClear, consumer
<1>11. CASE SetVideoMode
  BY <1>11 DEF SetVideoMode, consumer
<1>12. CASE PanelReports
  BY <1>12 DEF PanelReports, consumer
<1>13. CASE PanelReportsOther
  BY <1>13 DEF PanelReportsOther, consumer
<1>14. ASSUME NEW extended \in BOOLEAN, TouchReset(extended)
       PROVE  [Slot!Next]_(Slot!svars)
  BY <1>14 DEF TouchReset
<1>15. CASE UNCHANGED vars
  BY <1>15 DEF vars
<1>16. QED
  BY <1>1, <1>2, <1>3, <1>4, <1>5, <1>6, <1>7, <1>8, <1>9, <1>10, <1>11,
     <1>12, <1>13, <1>14, <1>15
  DEF Next, TouchPoll

(* GetState takes the state and the mark in one step, as far as the boot   *)
(* manager can tell.                                                       *)
THEOREM ImplementsSlot == Spec => SlotSpec
<1>1. Inv /\ Inv' /\ [Next]_vars => [Slot!Next]_(Slot!svars)
  BY StepSlot
<1>2. QED
  BY <1>1, InitSlot, AlwaysInv, PTL DEF Spec, SlotSpec, Slot!Spec

-----------------------------------------------------------------------------
(* The rest of the types: the machine around the driver.                   *)
WorldOK ==
  /\ gop \in {"none", "portrait", "landscape"} /\ tpl \in {"APPLICATION", "NOTIFY"}
  /\ Len(reports) <= QueueMax /\ contact \in BOOLEAN /\ lost \in BOOLEAN
  /\ faults \in 0..MaxFaults

LEMMA InitWorld == ASSUME Init PROVE WorldOK
<1>1. gop \in {"none", "portrait", "landscape"}
  BY GopModesAssumption DEF Init
<1>2. /\ tpl = "APPLICATION" /\ reports = <<>> /\ contact = FALSE /\ lost = FALSE
      /\ faults = MaxFaults
  BY DEF Init
<1>3. faults \in 0..MaxFaults
  BY <1>2, MaxFaultsAssumption
<1>4. Len(reports) <= QueueMax
  <2>1. Len(<<>>) = 0 /\ 0 <= QueueMax
    BY QueueMaxAssumption
  <2> QED
    BY <1>2, <2>1
<1> QED
  BY <1>1, <1>2, <1>3, <1>4 DEF WorldOK

LEMMA StepWorld ==
  ASSUME ReportsOK, WorldOK, [Next]_vars
  PROVE  WorldOK'
<1> USE QueueMaxAssumption, MaxFaultsAssumption DEF WorldOK
<1>1. CASE TouchTryBringUp
  BY <1>1 DEF TouchTryBringUp, consumer, panel
<1>2. CASE PollReinitFails \/ PollNothing
  BY <1>2 DEF PollReinitFails, PollNothing, consumer, panel
<1>3. ASSUME reports # <<>>, reports' = Tail(reports)
      PROVE  Len(reports') <= QueueMax
  BY <1>3 DEF ReportsOK
<1>4. CASE PollError
  <2>1. faults' \in 0..MaxFaults /\ UNCHANGED <<gop, tpl, contact>>
    BY <1>4 DEF PollError, consumer
  <2>2. Len(reports') <= QueueMax
    BY <1>3, <1>4 DEF PollError
  <2>3. lost' \in BOOLEAN
    BY <1>4, Zenon DEF PollError
  <2> QED
    BY <2>1, <2>2, <2>3
<1>5. CASE PollReport
  BY <1>3, <1>5 DEF PollReport, consumer
<1>6. CASE WaitForInput \/ CallUnasked
  BY <1>6 DEF WaitForInput, CallUnasked, panel
<1>7. CASE GetStateTest \/ GetStateCopy \/ GetStateClear
  BY <1>7 DEF GetStateTest, GetStateCopy, GetStateClear, panel
<1>8. CASE SetVideoMode
  BY <1>8 DEF SetVideoMode, consumer, panel
<1>9. CASE PanelReports \/ PanelReportsOther
  <2>1. Len(reports') = Len(reports) + 1 /\ Len(reports) \in Nat
    <3>1. CASE PanelReportsOther
      BY <3>1 DEF PanelReportsOther, ReportsOK
    <3>2. CASE PanelReports
      BY <3>2 DEF PanelReports, ReportsOK
    <3> QED
      BY <1>9, <3>1, <3>2
  <2>2. Len(reports') <= QueueMax
    BY <1>9, <2>1 DEF PanelReports, PanelReportsOther
  <2> QED
    BY <1>9, <2>2 DEF PanelReports, PanelReportsOther, consumer
<1>10. ASSUME NEW extended \in BOOLEAN, TouchReset(extended) PROVE WorldOK'
  BY <1>10 DEF TouchReset, panel
<1>11. CASE UNCHANGED vars
  BY <1>11 DEF vars
<1> QED
  BY <1>1, <1>2, <1>4, <1>5, <1>6, <1>7, <1>8, <1>9, <1>10, <1>11 DEF Next, TouchPoll

(* Dev->State stays within the larger of the two logical maxima, whichever *)
(* way reports are rotated, and the panel's queue within its bound.        *)
THEOREM PointerTypes == Spec => []TypeOK
<1>1. Inv => ReportsOK
  BY DEF Inv
<1>2. Init => WorldOK
  BY InitWorld
<1>3. ReportsOK /\ WorldOK /\ [Next]_vars => WorldOK'
  BY StepWorld
<1>4. Inv /\ WorldOK => TypeOK
  BY DEF Inv, FlagsOK, ReportsOK, StatesOK, WorldOK, TypeOK
<1> QED
  BY <1>1, <1>2, <1>3, <1>4, AlwaysInv, PTL DEF Spec
=============================================================================
