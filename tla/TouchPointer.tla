---------------------------- MODULE TouchPointer ------------------------------
(***************************************************************************)
(* Layer 3 once the protocol is installed: TouchPoll turns the panel's     *)
(* input reports into Dev->State, and the boot manager waits for input,    *)
(* takes the state and resets the pointer.                                 *)
(*                                                                         *)
(* The boot manager calls at TPL_APPLICATION (at most TPL_CALLBACK), so    *)
(* TouchPoll, which runs at TPL_CALLBACK, is one action to it; but a poll  *)
(* can fall between any two steps of a call, except while the call has     *)
(* raised the TPL to TPL_NOTIFY.                                           *)
(***************************************************************************)
EXTENDS Naturals, Sequences

CONSTANTS
  XMax, YMax,     \* Layout.XLogicalMax, Layout.YLogicalMax (bring-up has
                  \* replaced a zero by 0xFFFF)
  Contacts,       \* raw <<x, y>> positions the panel may report
  GopModes,       \* "none", "portrait", "landscape": the modes at bring-up
  VideoSwitch,    \* may the boot manager set another video mode later?
  QueueMax,       \* bound: reports waiting in the panel
  MaxFaults       \* bound: bus errors

ASSUME RangeAssumption == XMax \in Nat \ {0} /\ YMax \in Nat \ {0}
ASSUME ContactsAssumption == Contacts \subseteq Nat \X Nat
ASSUME QueueMaxAssumption == QueueMax \in Nat
ASSUME MaxFaultsAssumption == MaxFaults \in Nat
ASSUME GopModesAssumption == GopModes \subseteq {"none", "portrait", "landscape"}
ASSUME VideoSwitchAssumption == VideoSwitch \in BOOLEAN

VARIABLES
  ready,         \* Dev->Ready
  state,         \* Dev->State: CurrentX, CurrentY and ActiveButtons
  stateChanged,  \* Dev->StateChanged
  lastTip,       \* Dev->LastTip
  needReinit,    \* Dev->NeedReinit
  rotate,        \* Dev->RotateActive
  mode,          \* Dev->Mode.AbsoluteMaxX and AbsoluteMaxY
  gop,           \* the current graphics mode
  tpl,           \* the boot thread's task priority level
  caller,        \* what the boot manager does next
  seen,          \* the state it took last
  reports,       \* reports waiting in the panel, oldest first
  contact,       \* is a finger on the panel?
  lost,          \* history: a failed read took the panel's latest report
  faults         \* bus errors that may still happen

vars == <<ready, state, stateChanged, lastTip, needReinit, rotate, mode, gop,
          tpl, caller, seen, reports, contact, lost, faults>>

pointer == <<state, stateChanged, lastTip>>
orientation == <<rotate, mode>>
panel == <<reports, contact, lost>>
consumer == <<tpl, caller, seen>>

Larger(m, n) == IF m <= n THEN n ELSE m
Coords == 0..Larger(XMax, YMax)
States == [x : Coords, y : Coords, tip : BOOLEAN]
Zero == [x |-> 0, y |-> 0, tip |-> FALSE]
Reports == [kind : {"touch"}, tip : BOOLEAN, at : Contacts] \cup [kind : {"other"}]

(* The range published before the panel's own is known. *)
DefaultMax == 65535

TypeOK ==
  /\ ready \in BOOLEAN /\ state \in States
  /\ stateChanged \in BOOLEAN /\ lastTip \in BOOLEAN /\ needReinit \in BOOLEAN
  /\ rotate \in BOOLEAN /\ mode \in [x : Nat, y : Nat]
  /\ gop \in {"none", "portrait", "landscape"}
  /\ tpl \in {"APPLICATION", "NOTIFY"}
  /\ caller \in {"wait", "get", "copy", "clear"} /\ seen \in States
  /\ reports \in Seq(Reports) /\ Len(reports) <= QueueMax
  /\ contact \in BOOLEAN /\ lost \in BOOLEAN /\ faults \in 0..MaxFaults

Init ==
  /\ ready = FALSE /\ state = Zero /\ stateChanged = FALSE /\ lastTip = FALSE
  /\ needReinit = FALSE /\ rotate = FALSE
  /\ mode = [x |-> DefaultMax, y |-> DefaultMax] /\ gop \in GopModes
  /\ tpl = "APPLICATION" /\ caller = "wait" /\ seen = Zero
  /\ reports = <<>> /\ contact = FALSE /\ lost = FALSE /\ faults = MaxFaults

-----------------------------------------------------------------------------
(* The driver. *)

(* Rotate a portrait touch matrix onto a landscape framebuffer, and publish *)
(* the ranges that go with the decision.                                    *)
TouchUpdateOrientation ==
  /\ rotate' = (XMax < YMax /\ gop = "landscape")
  /\ mode' = IF rotate' THEN [x |-> YMax, y |-> XMax] ELSE [x |-> XMax, y |-> YMax]

(* The end of a successful TouchTryBringUp. *)
TouchTryBringUp ==
  /\ ~ready /\ tpl = "APPLICATION" /\ ready' = TRUE
  /\ state' = Zero /\ stateChanged' = FALSE /\ lastTip' = FALSE
  /\ needReinit' = FALSE
  /\ TouchUpdateOrientation
  /\ UNCHANGED <<gop, consumer, panel, faults>>

PollMayRun == ready /\ tpl = "APPLICATION"

(* Mutant: a spurious report beyond the logical range is taken as it is. *)
ClampNot(m, max) == m

Clamp(m, max) == IF m <= max THEN m ELSE max

(* Mutant: no final lift-off event. *)
ReportChangesOnTip(tip) == tip

(* The State a report leaves at screen position x, y, and whether it does. *)
ReportChanges(tip) == tip \/ lastTip
ReportState(tip, x, y) ==
  [x |-> IF tip THEN x ELSE state.x, y |-> IF tip THEN y ELSE state.y, tip |-> tip]

(* Mutant: rotates by the orientation decided for the last report. *)
TakeReportStale(tip, at) ==
  LET x == Clamp(at[1], XMax)
      y == Clamp(at[2], YMax)
  IN  /\ TouchUpdateOrientation
      /\ IF ReportChanges(tip)
         THEN /\ state' = IF rotate THEN ReportState(tip, y, XMax - x)
                                    ELSE ReportState(tip, x, y)
              /\ stateChanged' = TRUE /\ lastTip' = tip
         ELSE UNCHANGED pointer

(* The part of TouchPoll after the report is accepted. *)
TakeReport(tip, at) ==
  LET x == Clamp(at[1], XMax)
      y == Clamp(at[2], YMax)
  IN  /\ TouchUpdateOrientation
      /\ IF ReportChanges(tip)
         THEN /\ state' = IF rotate' THEN ReportState(tip, y, XMax - x)
                                     ELSE ReportState(tip, x, y)
              /\ stateChanged' = TRUE /\ lastTip' = tip
         ELSE UNCHANGED pointer

(* The re-initialisation a poll starts with fails; it is tried again. *)
PollReinitFails ==
  /\ PollMayRun /\ needReinit /\ faults > 0 /\ faults' = faults - 1
  /\ UNCHANGED <<ready, pointer, needReinit, orientation, gop, consumer, panel>>

(* Nothing pending: the panel does not acknowledge. *)
PollNothing ==
  /\ PollMayRun /\ reports = <<>> /\ needReinit' = FALSE
  /\ UNCHANGED <<ready, pointer, orientation, gop, consumer, panel, faults>>

(* Where the latest report of a contact waits, 0 if it does not. *)
LatestTouch ==
  LET touches == {i \in DOMAIN reports : reports[i].kind = "touch"}
  IN  IF touches = {} THEN 0 ELSE CHOOSE i \in touches : \A j \in touches : j <= i

(* The read fails; the panel may or may not still have the report. *)
PollError ==
  /\ PollMayRun /\ faults > 0 /\ faults' = faults - 1
  /\ needReinit' = TRUE
  /\ \/ UNCHANGED <<reports, lost>>
     \/ /\ reports # <<>> /\ reports' = Tail(reports)
        /\ lost' = (lost \/ LatestTouch = 1)
  /\ UNCHANGED <<ready, pointer, orientation, gop, consumer, contact>>

(* A report arrives: one of the touch collection is taken, the sentinel and *)
(* other report IDs are dropped before anything changes.                    *)
PollReport ==
  /\ PollMayRun /\ reports # <<>> /\ needReinit' = FALSE
  /\ reports' = Tail(reports)
  /\ IF Head(reports).kind = "touch"
     THEN TakeReport(Head(reports).tip, Head(reports).at)
     ELSE UNCHANGED <<pointer, orientation>>
  /\ UNCHANGED <<ready, gop, consumer, contact, lost, faults>>

TouchPoll == PollReinitFails \/ PollNothing \/ PollError \/ PollReport

-----------------------------------------------------------------------------
(* The boot manager's calls. *)

(* WaitForEvent on WaitForInput: TouchWaitForInput signals it. *)
WaitForInput ==
  /\ caller = "wait" /\ ready /\ stateChanged
  /\ caller' = "get"
  /\ UNCHANGED <<ready, pointer, needReinit, orientation, gop, tpl, seen, panel,
                 faults>>

(* A boot manager may also poll, without having waited. *)
CallUnasked ==
  /\ caller = "wait" /\ ~stateChanged /\ caller' = "get"
  /\ UNCHANGED <<ready, pointer, needReinit, orientation, gop, tpl, seen, panel,
                 faults>>

(* Mutant: does not raise the TPL. *)
GetStateTestUnraised ==
  /\ caller = "get"
  /\ caller' = IF ready /\ stateChanged THEN "copy" ELSE "wait"
  /\ UNCHANGED <<ready, pointer, needReinit, orientation, gop, tpl, seen, panel,
                 faults>>

(* GetState: raise the TPL and test; EFI_NOT_READY goes straight back. *)
GetStateTest ==
  /\ caller = "get"
  /\ IF ready /\ stateChanged THEN caller' = "copy" /\ tpl' = "NOTIFY"
                              ELSE caller' = "wait" /\ tpl' = tpl
  /\ UNCHANGED <<ready, pointer, needReinit, orientation, gop, seen, panel,
                 faults>>

GetStateCopy ==
  /\ caller = "copy" /\ caller' = "clear" /\ seen' = state
  /\ UNCHANGED <<ready, pointer, needReinit, orientation, gop, tpl, panel,
                 faults>>

GetStateClear ==
  /\ caller = "clear" /\ caller' = "wait"
  /\ stateChanged' = FALSE /\ tpl' = "APPLICATION"
  /\ UNCHANGED <<ready, state, lastTip, needReinit, orientation, gop, seen,
                 panel, faults>>

(* Mutant: leaves StateChanged set. *)
TouchResetStillChanged(extended) ==
  /\ caller = "wait"
  /\ state' = Zero /\ lastTip' = FALSE /\ seen' = Zero
  /\ needReinit' = (needReinit \/ (extended /\ ready))
  /\ UNCHANGED <<ready, stateChanged, orientation, gop, tpl, caller, panel,
                 faults>>

(* Reset: what the boot manager knows is that the pointer is at rest. *)
TouchReset(extended) ==
  /\ caller = "wait"
  /\ state' = Zero /\ stateChanged' = FALSE /\ lastTip' = FALSE /\ seen' = Zero
  /\ needReinit' = (needReinit \/ (extended /\ ready))
  /\ UNCHANGED <<ready, orientation, gop, tpl, caller, panel, faults>>

SetVideoMode ==
  /\ VideoSwitch /\ caller = "wait"
  /\ gop' \in {"portrait", "landscape"} \ {gop}
  /\ UNCHANGED <<ready, pointer, needReinit, orientation, consumer, panel, faults>>

-----------------------------------------------------------------------------
(* The panel: a contact is reported while it lasts and once when it ends;  *)
(* the position in the last report of a contact may be anything.           *)
PanelReports ==
  /\ Len(reports) < QueueMax
  /\ \E at \in Contacts, tip \in BOOLEAN :
       /\ tip \/ contact
       /\ contact' = tip /\ lost' = FALSE
       /\ reports' = Append(reports, [kind |-> "touch", tip |-> tip, at |-> at])
  /\ UNCHANGED <<ready, pointer, needReinit, orientation, gop, consumer, faults>>

(* A pen or vendor report, or the zero-length sentinel. *)
PanelReportsOther ==
  /\ Len(reports) < QueueMax
  /\ reports' = Append(reports, [kind |-> "other"])
  /\ UNCHANGED <<ready, pointer, needReinit, orientation, gop, consumer, contact,
                 lost, faults>>

Next ==
  \/ TouchTryBringUp \/ TouchPoll
  \/ WaitForInput \/ CallUnasked \/ GetStateTest \/ GetStateCopy \/ GetStateClear
  \/ \E extended \in BOOLEAN : TouchReset(extended)
  \/ SetVideoMode
  \/ PanelReports \/ PanelReportsOther

(* The poll timer keeps firing, and the boot manager waits for input and    *)
(* reads it when there is some.                                             *)
Fairness ==
  /\ WF_vars(TouchPoll) /\ WF_vars(WaitForInput)
  /\ WF_vars(GetStateTest) /\ WF_vars(GetStateCopy) /\ WF_vars(GetStateClear)

Spec == Init /\ [][Next]_vars
FairSpec == Spec /\ Fairness

-----------------------------------------------------------------------------
(* Properties.                                                             *)

(* GetState is atomic and no update gets lost, although it tests, copies   *)
(* and clears in separate steps: the driver implements PointerSlot, where  *)
(* the mark is down as soon as the copy is made.                           *)
Slot == INSTANCE PointerSlot WITH
  slot <- state, unread <- stateChanged /\ caller # "clear"
SlotSpec == Slot!Spec

(* What the boot manager last had is the current state, or StateChanged    *)
(* tells it to come back: a lift-off cannot be overlooked.                 *)
NoLostUpdate == stateChanged \/ seen = state

(* Every position in Dev->State is within the ranges published in          *)
(* Dev->Mode, which the boot manager scales it by, whatever was reported   *)
(* and whenever the orientation was decided.  A position kept for the      *)
(* release is, as long as no other video mode is set.                      *)
PositionInRange ==
  ready /\ (state.tip \/ ~VideoSwitch) =>
    state.x <= mode.x /\ state.y <= mode.y

(* "keep the last coordinates so the release lands on the icon": the       *)
(* position that comes with a release lies within the ranges the boot      *)
(* manager finds in Dev->Mode as it takes it.                              *)
ReleaseLandsInRange ==
  caller = "clear" /\ ~seen.tip => seen.x <= mode.x /\ seen.y <= mode.y

(* A touch the boot manager saw ends for it too once the finger is gone,   *)
(* in spite of bus errors: the pointer does not stay pressed, unless a     *)
(* failed read took the very report of the lift-off.                       *)
ReleaseArrives == seen.tip ~> (~seen.tip \/ contact \/ lost)
=============================================================================
