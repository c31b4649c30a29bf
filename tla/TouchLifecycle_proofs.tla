------------------------ MODULE TouchLifecycle_proofs -------------------------
(***************************************************************************)
(* Proofs about TouchLifecycle, for every RetryMax, every set of lengths   *)
(* and any number of faults.  The inductive invariant Inv says, label by   *)
(* label, who may be running and what that implies for the handles, the    *)
(* timers and the buffer.                                                  *)
(***************************************************************************)
EXTENDS TouchLifecycle, TLAPS

app == pc["app"]
cb == pc["cb"]

RetryTail == {"cancel", "clear", "close"}
Unregistered == {"allocDev", "createWait", "createPoll", "createEbs"}
InertLabels == {"inertRetry", "inertPoll", "inertWait", "inertEbs", "inertFree"}
AfterFailure == {"createRetry", "armRetry", "clearRetry", "closeRetry"}

(* Nothing is dispatched before the entry point returns.                   *)
LoadingIsQuiet ==
  app # "loader" =>
    cb = "idle" /\ pending = {} /\ armed = {} /\ (ready => app = "arm")

(* What Ready means where it is read or about to be written.               *)
ReadyByLabel ==
  /\ app \in BringUp \ {"arm"} \/ cb \in BringUp \ {"arm"} => ~ready
  /\ app = "arm" \/ cb \in {"arm", "reinit", "read"} => ready
  /\ "poll" \in armed \cup pending => ready /\ cb \notin BringUp

(* The retry event: open while anything can still come of it, gone once    *)
(* the panel is live, and held by its field until just before it closes.   *)
RetryOpenByLabel ==
  /\ "retry" \in armed \cup pending \cup held => ev["retry"] = "open"
  /\ cb \in BringUp \cup RetryTail => ev["retry"] = "open"
  /\ ready /\ cb \notin RetryTail \cup {"arm"} => ev["retry"] # "open"
  /\ app \in {"armRetry", "clearRetry", "closeRetry"} => ev["retry"] = "open"
  /\ app \in AppLabels \ {"armRetry", "clearRetry", "closeRetry", "loader"} =>
       ev["retry"] = "none"

RetryHeldByLabel ==
  /\ "retry" \in armed \cup pending /\ cb # "close" => "retry" \in held
  /\ app \in {"armRetry", "clearRetry"} => "retry" \in held
  /\ app = "closeRetry" => "retry" \notin held
  /\ cb \in BringUp \cup {"cancel", "clear"} => "retry" \in held
  /\ cb \in {"clear", "close"} => "retry" \notin armed
  /\ cb = "close" => "retry" \notin held

(* How many attempts were made, and that one is left where one may start.  *)
AttemptByLabel ==
  /\ attempt <= RetryMax
  /\ ev["retry"] = "open" /\ cb \notin BringUp \cup RetryTail => attempt < RetryMax
  /\ cb = "begin" => attempt < RetryMax
  /\ cb \in RetryTail /\ ~ready => attempt = RetryMax
  /\ app \in Unregistered \cup InertLabels \cup {"install", "begin"} => attempt = 0
  /\ app \in (BringUp \ {"begin"}) \cup AfterFailure => attempt = 1

(* The buffer, built up step by step by whichever frame brings up.         *)
BufferByLabel ==
  /\ ready => layout /\ maxInput # 0 /\ bufLen = maxInput
  /\ app \in {"report", "allocBuf", "ready"} \/ cb \in {"report", "allocBuf", "ready"} =>
       maxInput # 0
  /\ app \in {"allocBuf", "ready"} \/ cb \in {"allocBuf", "ready"} => layout
  /\ app = "ready" \/ cb = "ready" => bufLen = maxInput

(* The events the entry point creates, and the life of Dev.                *)
DevByLabel ==
  /\ \A e \in Events : ev[e] = "open" => devLive
  /\ app = "allocDev" => ~devLive
  /\ app \in AppLabels \ {"allocDev", "loader"} => devLive
  /\ ready => devLive

HandlesByLabel ==
  /\ \A e \in {"wait", "poll", "ebs"} : ev[e] = "open" => e \in held
  /\ app = "createEbs" => ev["poll"] = "open"
  /\ app \in {"install"} \cup BringUp \cup AfterFailure =>
       ev["poll"] = "open" /\ ev["ebs"] = "open"
  /\ app = "loader" /\ devLive => ev["poll"] = "open" /\ ev["ebs"] = "open"
  /\ app \in {"inertWait", "inertEbs", "inertFree"} => ev["poll"] # "open"
  /\ app \in {"inertEbs", "inertFree"} => ev["wait"] # "open"
  /\ app = "inertFree" => ev["ebs"] # "open"

Control == LoadingIsQuiet /\ ReadyByLabel /\ RetryOpenByLabel
Retrying == RetryHeldByLabel /\ AttemptByLabel
Device == BufferByLabel /\ DevByLabel /\ HandlesByLabel

Inv == TypeOK /\ Control /\ Retrying /\ Device

-----------------------------------------------------------------------------
(* Type correctness is inductive by itself.                                *)
LEMMA InitTypeOK == Init => TypeOK
<1> USE DEF Init
<1>1. Init => FlagsOK
  BY DEF FlagsOK
<1>2. Init => TimersOK
  BY DEF TimersOK
<1>3. QED
  BY <1>1, <1>2, MaxFaultsAssumption
  DEF TypeOK, Frames, AppLabels, CbLabels, BringUp

LEMMA StepTypeOK == TypeOK /\ [Next]_vars => TypeOK'
<1> SUFFICES ASSUME TypeOK, [Next]_vars PROVE TypeOK'
  OBVIOUS
<1> USE DEF At, Go, Runs, Frames, Events, Timers, services, devFields
<1>f. FlagsOK'
  BY DEF TypeOK, FlagsOK, EntryAllocDev, EntryArmRetry, EntryClearRetry, EntryCloseRetry,
      EntryCreate, EntryCreateRetry, EntryInstall, InertClose,
      InertFree, RetryCancel, RetryClear, RetryClose, PollStart,
      PollReinit, PollRead, TouchReset, PanelComesUp,
      ExitBootServices, BringUpBegin, BringUpDetect, BringUpReport,
      BringUpAllocBuf, BringUpReady, BringUpArm, Tick, Dispatch, Arm,
      Cancel, CloseEvent, Failed, Succeeded, Fault, NoFault,
      TouchExitBootServices, Next, EntryStep, NotifyStep, BringUpStep,
      Stopped, vars
<1>t. TimersOK'
  BY DEF TypeOK, TimersOK, EntryAllocDev, EntryArmRetry, EntryClearRetry, EntryCloseRetry,
      EntryCreate, EntryCreateRetry, EntryInstall, InertClose,
      InertFree, RetryCancel, RetryClear, RetryClose, PollStart,
      PollReinit, PollRead, TouchReset, PanelComesUp,
      ExitBootServices, BringUpBegin, BringUpDetect, BringUpReport,
      BringUpAllocBuf, BringUpReady, BringUpArm, Tick, Dispatch, Arm,
      Cancel, CloseEvent, Failed, Succeeded, Fault, NoFault,
      TouchExitBootServices, Next, EntryStep, NotifyStep, BringUpStep,
      Stopped, vars
<1> USE <1>f, <1>t, MaxFaultsAssumption, InputLensAssumption
    DEF TypeOK, AppLabels, CbLabels, BringUp
<1>1. CASE EntryAllocDev
  BY <1>1 DEF EntryAllocDev, Fault, NoFault
<1>2. CASE EntryCreate("wait", "createWait", "createPoll")
  BY <1>2 DEF EntryCreate, Fault, NoFault
<1>3. CASE EntryCreate("poll", "createPoll", "createEbs")
  BY <1>3 DEF EntryCreate, Fault, NoFault
<1>4. CASE EntryCreate("ebs", "createEbs", "install")
  BY <1>4 DEF EntryCreate, Fault, NoFault
<1>5. CASE EntryInstall
  BY <1>5 DEF EntryInstall, Fault, NoFault
<1>6. CASE InertClose("retry", "inertRetry", "inertPoll")
  BY <1>6 DEF InertClose, CloseEvent
<1>7. CASE InertClose("poll", "inertPoll", "inertWait")
  BY <1>7 DEF InertClose, CloseEvent
<1>8. CASE InertClose("wait", "inertWait", "inertEbs")
  BY <1>8 DEF InertClose, CloseEvent
<1>9. CASE InertClose("ebs", "inertEbs", "inertFree")
  BY <1>9 DEF InertClose, CloseEvent
<1>10. CASE InertFree
  BY <1>10 DEF InertFree
<1>11. CASE EntryCreateRetry
  BY <1>11 DEF EntryCreateRetry, Fault, NoFault
<1>12. CASE EntryArmRetry
  BY <1>12 DEF EntryArmRetry, Arm, Fault, NoFault
<1>13. CASE EntryClearRetry
  BY <1>13 DEF EntryClearRetry
<1>14. CASE EntryCloseRetry
  BY <1>14 DEF EntryCloseRetry, CloseEvent
<1>15. CASE RetryCancel
  BY <1>15 DEF RetryCancel, Cancel
<1>16. CASE RetryClear
  BY <1>16 DEF RetryClear
<1>17. CASE RetryClose
  BY <1>17 DEF RetryClose, CloseEvent
<1>18. CASE PollStart
  BY <1>18 DEF PollStart
<1>19. CASE PollReinit
  BY <1>19 DEF PollReinit
<1>20. CASE PollRead
  BY <1>20 DEF PollRead
<1>21. CASE TouchReset
  BY <1>21 DEF TouchReset
<1>22. CASE PanelComesUp
  BY <1>22 DEF PanelComesUp
<1>23. CASE ExitBootServices
  BY <1>23 DEF ExitBootServices, TouchExitBootServices
<1>24. ASSUME NEW f \in Frames, BringUpBegin(f) PROVE TypeOK'
  BY <1>24 DEF BringUpBegin
<1>25. ASSUME NEW f \in Frames, BringUpDetect(f) PROVE TypeOK'
  BY <1>25 DEF BringUpDetect, Failed, Fault, NoFault
<1>26. ASSUME NEW f \in Frames, BringUpReport(f) PROVE TypeOK'
  BY <1>26 DEF BringUpReport, Failed, Fault, NoFault
<1>27. ASSUME NEW f \in Frames, BringUpAllocBuf(f) PROVE TypeOK'
  BY <1>27 DEF BringUpAllocBuf, Failed, Fault, NoFault
<1>28. ASSUME NEW f \in Frames, BringUpReady(f) PROVE TypeOK'
  BY <1>28 DEF BringUpReady
<1>29. ASSUME NEW f \in Frames, BringUpArm(f) PROVE TypeOK'
  BY <1>29 DEF BringUpArm, Arm, Failed, Succeeded, Fault, NoFault
<1>30. ASSUME NEW t \in Timers, Tick(t) PROVE TypeOK'
  BY <1>30 DEF Tick
<1>31. ASSUME NEW t \in Timers, Dispatch(t) PROVE TypeOK'
  BY <1>31 DEF Dispatch
<1>32. CASE UNCHANGED vars
  BY <1>32 DEF vars
<1>33. QED
  BY <1>1, <1>2, <1>3, <1>4, <1>5, <1>6, <1>7, <1>8, <1>9, <1>10, <1>11,
     <1>12, <1>13, <1>14, <1>15, <1>16, <1>17, <1>18, <1>19, <1>20, <1>21,
     <1>22, <1>23, <1>24, <1>25, <1>26, <1>27, <1>28, <1>29, <1>30, <1>31,
     <1>32 DEF Next, EntryStep, NotifyStep, BringUpStep, Stopped

-----------------------------------------------------------------------------
(* The parts of Inv, each from all of it.                                  *)
LEMMA InitInv == Init => Inv
<1> SUFFICES ASSUME Init PROVE Inv
  OBVIOUS
<1> USE DEF Init, app, cb, Frames, Events
<1>1. TypeOK
  BY InitTypeOK
<1>2. Control
  BY DEF Control, LoadingIsQuiet, ReadyByLabel, RetryOpenByLabel, BringUp, RetryTail
<1>3. Retrying
  BY RetryMaxAssumption DEF Retrying, RetryHeldByLabel, AttemptByLabel, BringUp,
     RetryTail, AfterFailure
<1>4. Device
  BY DEF Device, BufferByLabel, DevByLabel, HandlesByLabel, BringUp, AfterFailure
<1>5. QED
  BY <1>1, <1>2, <1>3, <1>4 DEF Inv

LEMMA StepControl == Inv /\ [Next]_vars => Control'
<1> SUFFICES ASSUME Inv, [Next]_vars PROVE Control'
  OBVIOUS
<1> USE DEF Inv, TypeOK, Control, Retrying, LoadingIsQuiet, ReadyByLabel,
            RetryOpenByLabel, RetryHeldByLabel
<1> USE DEF At, Go, Runs, Frames, Events, Timers, services, devFields,
            app, cb, AppLabels, CbLabels, BringUp, RetryTail
<1>1. CASE EntryAllocDev
  BY <1>1 DEF EntryAllocDev, Fault, NoFault
<1>2. CASE EntryCreate("wait", "createWait", "createPoll")
  BY <1>2 DEF EntryCreate, Fault, NoFault
<1>3. CASE EntryCreate("poll", "createPoll", "createEbs")
  BY <1>3 DEF EntryCreate, Fault, NoFault
<1>4. CASE EntryCreate("ebs", "createEbs", "install")
  BY <1>4 DEF EntryCreate, Fault, NoFault
<1>5. CASE EntryInstall
  BY <1>5 DEF EntryInstall, Fault, NoFault
<1>6. CASE InertClose("retry", "inertRetry", "inertPoll")
  BY <1>6 DEF InertClose, CloseEvent
<1>7. CASE InertClose("poll", "inertPoll", "inertWait")
  BY <1>7 DEF InertClose, CloseEvent
<1>8. CASE InertClose("wait", "inertWait", "inertEbs")
  BY <1>8 DEF InertClose, CloseEvent
<1>9. CASE InertClose("ebs", "inertEbs", "inertFree")
  BY <1>9 DEF InertClose, CloseEvent
<1>10. CASE InertFree
  BY <1>10 DEF InertFree
<1>11. CASE EntryCreateRetry
  BY <1>11 DEF EntryCreateRetry, Fault, NoFault
<1>12. CASE EntryArmRetry
  BY <1>12 DEF EntryArmRetry, Arm, Fault, NoFault
<1>13. CASE EntryClearRetry
  BY <1>13 DEF EntryClearRetry
<1>14. CASE EntryCloseRetry
  BY <1>14 DEF EntryCloseRetry, CloseEvent
<1>15. CASE RetryCancel
  BY <1>15 DEF RetryCancel, Cancel
<1>16. CASE RetryClear
  BY <1>16 DEF RetryClear
<1>17. CASE RetryClose
  BY <1>17 DEF RetryClose, CloseEvent
<1>18. CASE PollStart
  BY <1>18 DEF PollStart
<1>19. CASE PollReinit
  BY <1>19 DEF PollReinit
<1>20. CASE PollRead
  BY <1>20 DEF PollRead
<1>21. CASE TouchReset
  BY <1>21 DEF TouchReset
<1>22. CASE PanelComesUp
  BY <1>22 DEF PanelComesUp
<1>23. CASE ExitBootServices
  BY <1>23 DEF ExitBootServices, TouchExitBootServices
<1>24. ASSUME NEW f \in Frames, BringUpBegin(f) PROVE Control'
  BY <1>24 DEF BringUpBegin
<1>25. ASSUME NEW f \in Frames, BringUpDetect(f) PROVE Control'
  BY <1>25 DEF BringUpDetect, Failed, Fault, NoFault
<1>26. ASSUME NEW f \in Frames, BringUpReport(f) PROVE Control'
  BY <1>26 DEF BringUpReport, Failed, Fault, NoFault
<1>27. ASSUME NEW f \in Frames, BringUpAllocBuf(f) PROVE Control'
  BY <1>27 DEF BringUpAllocBuf, Failed, Fault, NoFault
<1>28. ASSUME NEW f \in Frames, BringUpReady(f) PROVE Control'
  BY <1>28 DEF BringUpReady
<1>29. ASSUME NEW f \in Frames, BringUpArm(f) PROVE Control'
  <2> USE <1>29 DEF BringUpArm, Failed, Succeeded
  <2>1. "poll" \notin armed \cup pending /\ ready
    OBVIOUS
  <2>2. ready' \/ "poll" \notin armed' \cup pending'
    BY <2>1
  <2>3. LoadingIsQuiet' /\ RetryOpenByLabel'
    BY DEF Arm
  <2>4. ReadyByLabel'
    BY <2>1, <2>2
  <2>5. QED
    BY <2>3, <2>4
<1>30. ASSUME NEW t \in Timers, Tick(t) PROVE Control'
  BY <1>30 DEF Tick
<1>31. ASSUME NEW t \in Timers, Dispatch(t) PROVE Control'
  BY <1>31 DEF Dispatch
<1>32. CASE UNCHANGED vars
  BY <1>32 DEF vars
<1>33. QED
  BY <1>1, <1>2, <1>3, <1>4, <1>5, <1>6, <1>7, <1>8, <1>9, <1>10, <1>11,
     <1>12, <1>13, <1>14, <1>15, <1>16, <1>17, <1>18, <1>19, <1>20, <1>21,
     <1>22, <1>23, <1>24, <1>25, <1>26, <1>27, <1>28, <1>29, <1>30, <1>31,
     <1>32 DEF Next, EntryStep, NotifyStep, BringUpStep, Stopped

LEMMA StepRetrying == Inv /\ [Next]_vars => Retrying'
<1> SUFFICES ASSUME Inv, [Next]_vars PROVE Retrying'
  OBVIOUS
<1> USE RetryMaxAssumption
    DEF Inv, TypeOK, Control, Retrying, LoadingIsQuiet, ReadyByLabel,
        RetryOpenByLabel, RetryHeldByLabel, AttemptByLabel
<1> USE DEF At, Go, Runs, Frames, Events, Timers, services, devFields,
            app, cb, AppLabels, CbLabels, BringUp, RetryTail, Unregistered,
            InertLabels, AfterFailure
<1>1. CASE EntryAllocDev
  BY <1>1 DEF EntryAllocDev, Fault, NoFault
<1>2. CASE EntryCreate("wait", "createWait", "createPoll")
  BY <1>2 DEF EntryCreate, Fault, NoFault
<1>3. CASE EntryCreate("poll", "createPoll", "createEbs")
  BY <1>3 DEF EntryCreate, Fault, NoFault
<1>4. CASE EntryCreate("ebs", "createEbs", "install")
  BY <1>4 DEF EntryCreate, Fault, NoFault
<1>5. CASE EntryInstall
  BY <1>5 DEF EntryInstall, Fault, NoFault
<1>6. CASE InertClose("retry", "inertRetry", "inertPoll")
  BY <1>6 DEF InertClose, CloseEvent
<1>7. CASE InertClose("poll", "inertPoll", "inertWait")
  BY <1>7 DEF InertClose, CloseEvent
<1>8. CASE InertClose("wait", "inertWait", "inertEbs")
  BY <1>8 DEF InertClose, CloseEvent
<1>9. CASE InertClose("ebs", "inertEbs", "inertFree")
  BY <1>9 DEF InertClose, CloseEvent
<1>10. CASE InertFree
  BY <1>10 DEF InertFree
<1>11. CASE EntryCreateRetry
  BY <1>11 DEF EntryCreateRetry, Fault, NoFault
<1>12. CASE EntryArmRetry
  BY <1>12 DEF EntryArmRetry, Arm, Fault, NoFault
<1>13. CASE EntryClearRetry
  BY <1>13 DEF EntryClearRetry
<1>14. CASE EntryCloseRetry
  BY <1>14 DEF EntryCloseRetry, CloseEvent
<1>15. CASE RetryCancel
  BY <1>15 DEF RetryCancel, Cancel
<1>16. CASE RetryClear
  BY <1>16 DEF RetryClear
<1>17. CASE RetryClose
  BY <1>17 DEF RetryClose, CloseEvent
<1>18. CASE PollStart
  BY <1>18 DEF PollStart
<1>19. CASE PollReinit
  BY <1>19 DEF PollReinit
<1>20. CASE PollRead
  BY <1>20 DEF PollRead
<1>21. CASE TouchReset
  BY <1>21 DEF TouchReset
<1>22. CASE PanelComesUp
  BY <1>22 DEF PanelComesUp
<1>23. CASE ExitBootServices
  BY <1>23 DEF ExitBootServices, TouchExitBootServices
<1>24. ASSUME NEW f \in Frames, BringUpBegin(f) PROVE Retrying'
  BY <1>24 DEF BringUpBegin
<1>25. ASSUME NEW f \in Frames, BringUpDetect(f) PROVE Retrying'
  BY <1>25 DEF BringUpDetect, Failed, Fault, NoFault
<1>26. ASSUME NEW f \in Frames, BringUpReport(f) PROVE Retrying'
  BY <1>26 DEF BringUpReport, Failed, Fault, NoFault
<1>27. ASSUME NEW f \in Frames, BringUpAllocBuf(f) PROVE Retrying'
  BY <1>27 DEF BringUpAllocBuf, Failed, Fault, NoFault
<1>28. ASSUME NEW f \in Frames, BringUpReady(f) PROVE Retrying'
  BY <1>28 DEF BringUpReady
<1>29. ASSUME NEW f \in Frames, BringUpArm(f) PROVE Retrying'
  BY <1>29 DEF BringUpArm, Arm, Failed, Succeeded, Fault, NoFault
<1>30. ASSUME NEW t \in Timers, Tick(t) PROVE Retrying'
  BY <1>30 DEF Tick
<1>31. ASSUME NEW t \in Timers, Dispatch(t) PROVE Retrying'
  BY <1>31 DEF Dispatch
<1>32. CASE UNCHANGED vars
  BY <1>32 DEF vars
<1>33. QED
  BY <1>1, <1>2, <1>3, <1>4, <1>5, <1>6, <1>7, <1>8, <1>9, <1>10, <1>11,
     <1>12, <1>13, <1>14, <1>15, <1>16, <1>17, <1>18, <1>19, <1>20, <1>21,
     <1>22, <1>23, <1>24, <1>25, <1>26, <1>27, <1>28, <1>29, <1>30, <1>31,
     <1>32 DEF Next, EntryStep, NotifyStep, BringUpStep, Stopped

LEMMA StepDevice == Inv /\ [Next]_vars => Device'
<1> SUFFICES ASSUME Inv, [Next]_vars PROVE Device'
  OBVIOUS
<1> USE InputLensAssumption
    DEF Inv, TypeOK, Control, Device, LoadingIsQuiet, ReadyByLabel,
        RetryOpenByLabel, BufferByLabel, DevByLabel, HandlesByLabel
<1> USE DEF At, Go, Runs, Frames, Events, Timers, services, devFields,
            app, cb, AppLabels, CbLabels, BringUp, RetryTail, AfterFailure
<1>1. CASE EntryAllocDev
  BY <1>1 DEF EntryAllocDev, Fault, NoFault
<1>2. CASE EntryCreate("wait", "createWait", "createPoll")
  BY <1>2 DEF EntryCreate, Fault, NoFault
<1>3. CASE EntryCreate("poll", "createPoll", "createEbs")
  BY <1>3 DEF EntryCreate, Fault, NoFault
<1>4. CASE EntryCreate("ebs", "createEbs", "install")
  BY <1>4 DEF EntryCreate, Fault, NoFault
<1>5. CASE EntryInstall
  BY <1>5 DEF EntryInstall, Fault, NoFault
<1>6. CASE InertClose("retry", "inertRetry", "inertPoll")
  BY <1>6 DEF InertClose, CloseEvent
<1>7. CASE InertClose("poll", "inertPoll", "inertWait")
  BY <1>7 DEF InertClose, CloseEvent
<1>8. CASE InertClose("wait", "inertWait", "inertEbs")
  BY <1>8 DEF InertClose, CloseEvent
<1>9. CASE InertClose("ebs", "inertEbs", "inertFree")
  BY <1>9 DEF InertClose, CloseEvent
<1>10. CASE InertFree
  BY <1>10 DEF InertFree
<1>11. CASE EntryCreateRetry
  BY <1>11 DEF EntryCreateRetry, Fault, NoFault
<1>12. CASE EntryArmRetry
  BY <1>12 DEF EntryArmRetry, Arm, Fault, NoFault
<1>13. CASE EntryClearRetry
  BY <1>13 DEF EntryClearRetry
<1>14. CASE EntryCloseRetry
  BY <1>14 DEF EntryCloseRetry, CloseEvent
<1>15. CASE RetryCancel
  BY <1>15 DEF RetryCancel, Cancel
<1>16. CASE RetryClear
  BY <1>16 DEF RetryClear
<1>17. CASE RetryClose
  BY <1>17 DEF RetryClose, CloseEvent
<1>18. CASE PollStart
  BY <1>18 DEF PollStart
<1>19. CASE PollReinit
  BY <1>19 DEF PollReinit
<1>20. CASE PollRead
  BY <1>20 DEF PollRead
<1>21. CASE TouchReset
  BY <1>21 DEF TouchReset
<1>22. CASE PanelComesUp
  BY <1>22 DEF PanelComesUp
<1>23. CASE ExitBootServices
  BY <1>23 DEF ExitBootServices, TouchExitBootServices
<1>24. ASSUME NEW f \in Frames, BringUpBegin(f) PROVE Device'
  BY <1>24 DEF BringUpBegin
<1>25. ASSUME NEW f \in Frames, BringUpDetect(f) PROVE Device'
  BY <1>25 DEF BringUpDetect, Failed, Fault, NoFault
<1>26. ASSUME NEW f \in Frames, BringUpReport(f) PROVE Device'
  BY <1>26 DEF BringUpReport, Failed, Fault, NoFault
<1>27. ASSUME NEW f \in Frames, BringUpAllocBuf(f) PROVE Device'
  BY <1>27 DEF BringUpAllocBuf, Failed, Fault, NoFault
<1>28. ASSUME NEW f \in Frames, BringUpReady(f) PROVE Device'
  BY <1>28 DEF BringUpReady
<1>29. ASSUME NEW f \in Frames, BringUpArm(f) PROVE Device'
  BY <1>29 DEF BringUpArm, Arm, Failed, Succeeded, Fault, NoFault
<1>30. ASSUME NEW t \in Timers, Tick(t) PROVE Device'
  BY <1>30 DEF Tick
<1>31. ASSUME NEW t \in Timers, Dispatch(t) PROVE Device'
  BY <1>31 DEF Dispatch
<1>32. CASE UNCHANGED vars
  BY <1>32 DEF vars
<1>33. QED
  BY <1>1, <1>2, <1>3, <1>4, <1>5, <1>6, <1>7, <1>8, <1>9, <1>10, <1>11,
     <1>12, <1>13, <1>14, <1>15, <1>16, <1>17, <1>18, <1>19, <1>20, <1>21,
     <1>22, <1>23, <1>24, <1>25, <1>26, <1>27, <1>28, <1>29, <1>30, <1>31,
     <1>32 DEF Next, EntryStep, NotifyStep, BringUpStep, Stopped

LEMMA StepInv == Inv /\ [Next]_vars => Inv'
  BY StepTypeOK, StepControl, StepRetrying, StepDevice DEF Inv

LEMMA AlwaysInv == Spec => []Inv
  BY InitInv, StepInv, PTL DEF Spec

-----------------------------------------------------------------------------
(* What holds however ExitBootServices is signalled.                       *)

(* Every variable keeps its type: the labels a frame can reach, the state  *)
(* of every handle, lengths only the descriptor check lets through.        *)
THEOREM TypeCorrect == Spec => []TypeOK
  BY InitTypeOK, StepTypeOK, PTL DEF Spec

(* TouchPoll never reads into a buffer of another attempt.                 *)
THEOREM PollBufferAlwaysFits == Spec => []PollBufferFits
<1>1. Inv => PollBufferFits
  BY DEF Inv, Control, ReadyByLabel, Device, BufferByLabel, PollBufferFits, cb
<1>2. QED
  BY <1>1, AlwaysInv, PTL

(* TouchTryBringUp never runs on a live panel nor twice at once.           *)
THEOREM BringUpIsExclusive == Spec => []NoBringUpWhenLive
<1>1. Inv => NoBringUpWhenLive
  BY DEF Inv, Control, LoadingIsQuiet, ReadyByLabel, RetryOpenByLabel,
     RetryTail, NoBringUpWhenLive, app, cb, Frames, BringUp
<1>2. QED
  BY <1>1, AlwaysInv, PTL

(* The retry timer's handle is never stale for TouchExitBootServices, even *)
(* when it preempts TouchRetry or the entry point at any step.             *)
THEOREM RetryHandleAlwaysOpen == Spec => []RetryHandleOpen
<1>1. Inv => RetryHandleOpen
  BY DEF Inv, Control, RetryOpenByLabel, Device, DevByLabel, RetryHandleOpen,
     EbsSeesOpenHandle, Events
<1>2. QED
  BY <1>1, AlwaysInv, PTL

(* No notification can be given a TOUCH_DEV that was freed.                *)
THEOREM DevAlwaysOutlivesEvents == Spec => []DevOutlivesEvents
<1>1. Inv => DevOutlivesEvents
  BY DEF Inv, Device, DevByLabel, DevOutlivesEvents
<1>2. QED
  BY <1>1, AlwaysInv, PTL

-----------------------------------------------------------------------------
(* What holds when only the boot loader signals it.                        *)

(* Both timers' handles are good when ExitBootServices is signalled.       *)
THEOREM HandlesAlwaysOpen == ~EbsMayPreempt => (Spec => []HandlesOpen)
<1> SUFFICES ASSUME ~EbsMayPreempt PROVE Spec => []HandlesOpen
  OBVIOUS
<1>1. Inv => HandlesOpen
  BY DEF Inv, Control, RetryOpenByLabel, Device, DevByLabel, HandlesByLabel,
     HandlesOpen, EbsSeesOpenHandle, EbsMayRun, At, Timers, Events, app
<1>2. QED
  BY <1>1, AlwaysInv, PTL

(* The driver is quiet from the hand-off on: ExitBootServices stops what    *)
(* is armed, and nothing else was left to run.                             *)
LEMMA StepQuiet ==
  ~EbsMayPreempt /\ Inv /\ QuietHandoff /\ [Next]_vars => QuietHandoff'
<1> SUFFICES ASSUME ~EbsMayPreempt, Inv, QuietHandoff, [Next]_vars
             PROVE  QuietHandoff'
  OBVIOUS
<1> USE DEF QuietHandoff
<1>1. CASE ExitBootServices
  <2> USE <1>1 DEF ExitBootServices, EbsMayRun, At, Runs
  <2>1. app = "loader" /\ cb = "idle" /\ pending = {}
    BY DEF app, cb
  <2>2. armed \subseteq held
    BY <2>1 DEF Inv, TypeOK, TimersOK, Timers, Events, Control, ReadyByLabel,
       Retrying, RetryHeldByLabel, Device, DevByLabel, HandlesByLabel
  <2>3. ready \/ armed # {} => ev["ebs"] = "open"
    <3>1. armed # {} => "poll" \in armed \/ "retry" \in armed
      BY DEF Inv, TypeOK, TimersOK, Timers
    <3>2. "poll" \in armed => ready
      BY DEF Inv, Control, ReadyByLabel
    <3>3. "retry" \in armed \/ ready => devLive
      BY DEF Inv, Control, RetryOpenByLabel, Device, DevByLabel, Events
    <3>4. devLive => ev["ebs"] = "open"
      BY <2>1 DEF Inv, Device, HandlesByLabel
    <3>5. QED
      BY <3>1, <3>2, <3>3, <3>4
  <2>4. armed' = {} /\ (ready => bus' = "off")
    <3>1. CASE ev["ebs"] = "open"
      <4>1. armed' = armed \ held /\ bus' = IF ready THEN "off" ELSE bus
        BY <3>1 DEF TouchExitBootServices
      <4>2. QED
        BY <4>1, <2>2
    <3>2. CASE ev["ebs"] # "open"
      BY <3>2, <2>3
    <3>3. QED
      BY <3>1, <3>2
  <2>5. ready' = ready /\ pc' = pc /\ pending' = pending
    BY DEF devFields
  <2>6. QED
    BY <2>1, <2>4, <2>5 DEF app, cb
<1>2. CASE ~ExitBootServices
  <2>1. sys' = sys
    BY <1>2
    DEF Next, EntryStep, NotifyStep, BringUpStep, Stopped, vars,
       EntryAllocDev, EntryCreate, EntryInstall, InertClose, InertFree,
       EntryCreateRetry, EntryArmRetry, EntryClearRetry, EntryCloseRetry,
       RetryCancel, RetryClear, RetryClose, PollStart, PollReinit, PollRead,
       TouchReset, PanelComesUp, BringUpBegin, BringUpDetect, BringUpReport,
       BringUpAllocBuf, BringUpReady, BringUpArm, Tick, Dispatch
  <2>2. sys = "os" => UNCHANGED <<armed, pending, pc, ready, bus>>
    BY <1>2
    DEF Next, EntryStep, NotifyStep, BringUpStep, Stopped, vars, At, Frames,
       BringUp, services, devFields, EntryAllocDev, EntryCreate,
       EntryInstall, InertClose, InertFree, EntryCreateRetry, EntryArmRetry,
       EntryClearRetry, EntryCloseRetry, RetryCancel, RetryClear,
       RetryClose, PollStart, PollReinit, PollRead, TouchReset,
       PanelComesUp, BringUpBegin, BringUpDetect, BringUpReport,
       BringUpAllocBuf, BringUpReady, BringUpArm, Tick, Dispatch
  <2>3. QED
    BY <2>1, <2>2
<1>3. QED
  BY <1>1, <1>2

(* After ExitBootServices no code of the driver runs, no timer is armed    *)
(* and a live panel's controller is disabled.                              *)
THEOREM HandoffIsQuiet == ~EbsMayPreempt => (Spec => []QuietHandoff)
<1> SUFFICES ASSUME ~EbsMayPreempt PROVE Spec => []QuietHandoff
  OBVIOUS
<1>1. Init => QuietHandoff
  BY DEF Init, QuietHandoff
<1>2. Inv /\ QuietHandoff /\ [Next]_vars => QuietHandoff'
  BY StepQuiet
<1>3. QED
  BY <1>1, <1>2, AlwaysInv, PTL DEF Spec

-----------------------------------------------------------------------------
(* The driver as a whole implements the safety of TouchService: the phase  *)
(* and the number of tries move only as TouchService says.                 *)
LEMMA InitService == Init => Service!Init
  BY DEF Init, Service!Init, Phase, Frames

LEMMA StepService ==
  ~EbsMayPreempt /\ Inv /\ QuietHandoff /\ Inv' /\ [Next]_vars
    => [Service!Next]_<<Phase, attempt>>
<1> SUFFICES ASSUME ~EbsMayPreempt, Inv, QuietHandoff, Inv', [Next]_vars
             PROVE  [Service!Next]_<<Phase, attempt>>
  OBVIOUS
<1> USE DEF Inv, Control, Retrying, Device, TypeOK, LoadingIsQuiet, ReadyByLabel,
            RetryOpenByLabel, RetryHeldByLabel, AttemptByLabel, DevByLabel
<1> USE DEF At, Go, Runs, Frames, Events, Timers, services, devFields,
            app, cb, AppLabels, CbLabels, BringUp, RetryTail, Unregistered,
            InertLabels, AfterFailure, QuietHandoff
<1> USE RetryMaxAssumption
    DEF Phase, Service!Next, Service!Try, Service!FinishLoading,
        Service!ComeUp, Service!GiveUp, Service!Handoff, Service!Loaded
<1>1. CASE EntryAllocDev
  BY <1>1 DEF EntryAllocDev, Fault, NoFault
<1>2. CASE EntryCreate("wait", "createWait", "createPoll")
  BY <1>2 DEF EntryCreate, Fault, NoFault
<1>3. CASE EntryCreate("poll", "createPoll", "createEbs")
  BY <1>3 DEF EntryCreate, Fault, NoFault
<1>4. CASE EntryCreate("ebs", "createEbs", "install")
  BY <1>4 DEF EntryCreate, Fault, NoFault
<1>5. CASE EntryInstall
  BY <1>5 DEF EntryInstall, Fault, NoFault
<1>6. CASE InertClose("retry", "inertRetry", "inertPoll")
  BY <1>6 DEF InertClose, CloseEvent
<1>7. CASE InertClose("poll", "inertPoll", "inertWait")
  BY <1>7 DEF InertClose, CloseEvent
<1>8. CASE InertClose("wait", "inertWait", "inertEbs")
  BY <1>8 DEF InertClose, CloseEvent
<1>9. CASE InertClose("ebs", "inertEbs", "inertFree")
  BY <1>9 DEF InertClose, CloseEvent
<1>10. CASE InertFree
  BY <1>10 DEF InertFree
<1>11. CASE EntryCreateRetry
  BY <1>11 DEF EntryCreateRetry, Fault, NoFault
<1>12. CASE EntryArmRetry
  BY <1>12 DEF EntryArmRetry, Arm, Fault, NoFault
<1>13. CASE EntryClearRetry
  BY <1>13 DEF EntryClearRetry
<1>14. CASE EntryCloseRetry
  BY <1>14 DEF EntryCloseRetry, CloseEvent
<1>15. CASE RetryCancel
  BY <1>15 DEF RetryCancel, Cancel
<1>16. CASE RetryClear
  BY <1>16 DEF RetryClear
<1>17. CASE RetryClose
  BY <1>17 DEF RetryClose, CloseEvent
<1>18. CASE PollStart
  BY <1>18 DEF PollStart
<1>19. CASE PollReinit
  BY <1>19 DEF PollReinit
<1>20. CASE PollRead
  BY <1>20 DEF PollRead
<1>21. CASE TouchReset
  BY <1>21 DEF TouchReset
<1>22. CASE PanelComesUp
  BY <1>22 DEF PanelComesUp
<1>23. CASE ExitBootServices
  BY <1>23 DEF ExitBootServices, EbsMayRun
<1>24. ASSUME NEW f \in Frames, BringUpBegin(f)
                PROVE  [Service!Next]_<<Phase, attempt>>
  BY <1>24 DEF BringUpBegin
<1>25. ASSUME NEW f \in Frames, BringUpDetect(f)
                PROVE  [Service!Next]_<<Phase, attempt>>
  BY <1>25 DEF BringUpDetect, Failed, Fault, NoFault
<1>26. ASSUME NEW f \in Frames, BringUpReport(f)
                PROVE  [Service!Next]_<<Phase, attempt>>
  BY <1>26 DEF BringUpReport, Failed, Fault, NoFault
<1>27. ASSUME NEW f \in Frames, BringUpAllocBuf(f)
                PROVE  [Service!Next]_<<Phase, attempt>>
  BY <1>27 DEF BringUpAllocBuf, Failed, Fault, NoFault
<1>28. ASSUME NEW f \in Frames, BringUpReady(f)
                PROVE  [Service!Next]_<<Phase, attempt>>
  BY <1>28 DEF BringUpReady
<1>29. ASSUME NEW f \in Frames, BringUpArm(f)
                PROVE  [Service!Next]_<<Phase, attempt>>
  BY <1>29 DEF BringUpArm, Arm, Failed, Succeeded, Fault, NoFault
<1>30. ASSUME NEW t \in Timers, Tick(t)
                PROVE  [Service!Next]_<<Phase, attempt>>
  BY <1>30 DEF Tick
<1>31. ASSUME NEW t \in Timers, Dispatch(t)
                PROVE  [Service!Next]_<<Phase, attempt>>
  BY <1>31 DEF Dispatch
<1>32. CASE UNCHANGED vars
  BY <1>32 DEF vars
<1>33. QED
  BY <1>1, <1>2, <1>3, <1>4, <1>5, <1>6, <1>7, <1>8, <1>9, <1>10, <1>11,
     <1>12, <1>13, <1>14, <1>15, <1>16, <1>17, <1>18, <1>19, <1>20, <1>21,
     <1>22, <1>23, <1>24, <1>25, <1>26, <1>27, <1>28, <1>29, <1>30, <1>31,
     <1>32 DEF Next, EntryStep, NotifyStep, BringUpStep, Stopped


(* The safety part of ServiceSpec, for every RetryMax.                     *)
THEOREM ImplementsService == ~EbsMayPreempt => (Spec => Service!Safe)
<1> SUFFICES ASSUME ~EbsMayPreempt PROVE Spec => Service!Safe
  OBVIOUS
<1>1. Inv /\ QuietHandoff /\ Inv' /\ [Next]_vars => [Service!Next]_<<Phase, attempt>>
  BY StepService
<1>2. Spec => []QuietHandoff
  BY HandoffIsQuiet
<1>3. QED
  BY <1>1, <1>2, InitService, AlwaysInv, PTL DEF Spec, Service!Safe
=============================================================================
