----------------------------- MODULE PointerSlot ------------------------------
(***************************************************************************)
(* What EFI_ABSOLUTE_POINTER_PROTOCOL promises its consumer: a slot that   *)
(* holds the latest state, and a mark that says the consumer has not had   *)
(* it yet.  Each update sets the mark, one GetState takes the state and    *)
(* the mark in one step, Reset empties the slot.  States in between may be *)
(* overwritten; the last one never gets lost.                              *)
(***************************************************************************)
CONSTANTS States, Zero

VARIABLES slot,    \* the latest state
          unread,  \* the mark
          seen     \* what the consumer had last

svars == <<slot, unread, seen>>

TypeOK == slot \in States /\ unread \in BOOLEAN /\ seen \in States

Init == slot = Zero /\ unread = FALSE /\ seen = Zero

Update == slot' \in States /\ unread' = TRUE /\ UNCHANGED seen
Take == unread /\ unread' = FALSE /\ seen' = slot /\ UNCHANGED slot
Reset == slot' = Zero /\ unread' = FALSE /\ seen' = Zero

Next == Update \/ Take \/ Reset

Spec == Init /\ [][Next]_svars

(* The consumer is up to date unless the mark says otherwise. *)
UpToDate == unread \/ seen = slot
=============================================================================
