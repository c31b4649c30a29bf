----------------------------- MODULE I2cTransfer ------------------------------
(***************************************************************************)
(* What the HID layer may count on from a layer-1 transfer, whichever      *)
(* engine carries it out: a call returns, in the vocabulary of the header; *)
(* one that begins on a clean controller and succeeds has moved its own    *)
(* bytes and left the controller clean; only an error of the bus, never a  *)
(* NAK or a refusal, may leave it otherwise, and then nothing is promised  *)
(* until a recovery or a re-initialisation has cleaned it.  MayStrand says *)
(* whether the engine may leave it unclean at all.                         *)
(***************************************************************************)
CONSTANT MayStrand   \* may a failed transfer leave the controller unclean?

VARIABLES
  calling,  \* is a transfer being carried out?
  status,   \* what the last one returned, "NONE" meanwhile
  own,      \* did it succeed with its own bytes?
  clean     \* does the next one find an enabled, idle controller and empty
            \* FIFOs?

vars == <<calling, status, own, clean>>

Refusals == {"INVALID_PARAMETER", "NOT_READY"}
BusErrors == {"DEVICE_ERROR", "TIMEOUT"}
Outcomes == BusErrors \cup {"SUCCESS", "NO_RESPONSE"}

Init == calling = FALSE /\ status = "NONE" /\ own = FALSE /\ clean = TRUE

Refuse ==
  /\ ~calling /\ status' \in Refusals /\ own' = FALSE
  /\ UNCHANGED <<calling, clean>>

Begin ==
  /\ ~calling /\ calling' = TRUE /\ status' = "NONE" /\ own' = FALSE
  /\ UNCHANGED clean

End ==
  /\ calling /\ calling' = FALSE
  /\ status' \in Outcomes /\ own' \in BOOLEAN /\ clean' \in BOOLEAN
  /\ own' => status' = "SUCCESS"
  /\ clean /\ status' = "SUCCESS" => own'
  /\ clean' # clean => status' \in BusErrors
  /\ clean' \/ MayStrand

(* The controller is re-initialised between two calls, or refuses to be. *)
ReinitWorks == ~calling /\ clean' = TRUE /\ UNCHANGED <<calling, status, own>>
ReinitFails ==
  ~calling /\ MayStrand /\ clean' = FALSE /\ UNCHANGED <<calling, status, own>>

Next == Refuse \/ Begin \/ End \/ ReinitWorks \/ ReinitFails

Returns == []<>~calling

Safe == Init /\ [][Next]_vars
Spec == Safe /\ Returns
===============================================================================
