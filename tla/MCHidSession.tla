----------------------------- MODULE MCHidSession -----------------------------
(* TLC instance of HidSession: every transport, and one status of the      *)
(* firmware that the callers do not know.                                  *)
EXTENDS HidSession

MCKinds == {"dw", "mtk", "fw"}
MCFirmwareStatuses ==
  {"SUCCESS", "NO_RESPONSE", "DEVICE_ERROR", "TIMEOUT", "BAD_BUFFER_SIZE"}
=============================================================================
