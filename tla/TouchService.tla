----------------------------- MODULE TouchService -----------------------------
(***************************************************************************)
(* What the boot manager is promised of the driver as a whole, with no     *)
(* word on events, timers, priorities or the panel.  The driver loads, and *)
(* from then on is inert (it loaded nothing), dormant (it gave up), live,  *)
(* or retrying; retrying ends within RetryMax tries, counted from the one  *)
(* made while loading; a live driver never tries again; after the hand-off *)
(* nothing moves.  TouchLifecycle implements it.                           *)
(***************************************************************************)
EXTENDS Naturals

CONSTANT RetryMax   \* tries, the one made while loading included

VARIABLES phase, tries

Loaded == {"inert", "retrying", "dormant", "live"}

Init == phase = "loading" /\ tries = 0

Try ==
  /\ phase \in {"loading", "retrying"} /\ tries < RetryMax
  /\ tries' = tries + 1
  /\ UNCHANGED phase

FinishLoading ==
  /\ phase = "loading" /\ phase' \in Loaded
  /\ phase' = "inert" <=> tries = 0
  /\ UNCHANGED tries

ComeUp == phase = "retrying" /\ phase' = "live" /\ UNCHANGED tries

GiveUp ==
  /\ phase = "retrying" /\ tries = RetryMax
  /\ phase' = "dormant"
  /\ UNCHANGED tries

Handoff == phase \in Loaded /\ phase' = "handoff" /\ UNCHANGED tries

Next == Try \/ FinishLoading \/ ComeUp \/ GiveUp \/ Handoff

Safe == Init /\ [][Next]_<<phase, tries>>

(* Loading ends, and so does retrying. *)
Spec ==
  /\ Safe
  /\ WF_<<phase, tries>>(FinishLoading)
  /\ WF_<<phase, tries>>(ComeUp \/ GiveUp \/ (phase = "retrying" /\ Try))
=============================================================================
