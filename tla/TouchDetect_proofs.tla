-------------------------- MODULE TouchDetect_proofs --------------------------
(***************************************************************************)
(* Proofs about TouchDetect: what detection promises for every table of    *)
(* profiles and every machine, and not only for the ones TLC explores.     *)
(***************************************************************************)
EXTENDS TouchDetect, SmbiosIdentity_proofs, TLAPS

Accepted == {i \in DOMAIN Profiles : Matches(i)}

(* The bases the fallback sweeps for profile i. *)
Covered(i) ==
  CASE Profiles[i].platform = "intel" -> <<IntelBase>>
    [] IsSweep(i) -> <<1, 2, 3, 4, 5>>
    [] OTHER -> <<Profiles[i].base>>

Probing == {"profInit", "profRead"}
Driving == {"fbInit", "fbRead"}
Sweeping == {"fbBase"} \cup Driving

(* An own place: the profile's controller, address and register. *)
HasOwn(i) == i \in Accepted /\ ~IsSweep(i)
Own(i) == [base |-> Profiles[i].base, addr |-> Profiles[i].addr, reg |-> Profiles[i].reg]
UsesDw(i) == HasOwn(i) /\ Profiles[i].platform # "mtk"

(* Where the attempt is, and what it has chosen to drive. *)
ControlOK ==
  /\ pc # "idle" => found = NotFound /\ kind = "dw"
  /\ pc \in Probing => p \in Accepted /\ UsesDw(p)
  /\ pc \in {"fbPower", "fbMtk"} \cup Sweeping => p \in Accepted
  /\ pc = "fbPower" => IsSweep(p) /\ bases = Covered(p) /\ b \in Tiles
  /\ pc = "fbMtk" => Prof.platform = "mtk"
  /\ pc \in Sweeping =>
       Prof.platform # "mtk" /\ bases = Covered(p) /\ b \in 1..Len(bases) + 1
  /\ pc \in Driving => b \in DOMAIN bases
  /\ pc \in Probing \cup Sweeping /\ Prof.platform = "intel" => lpss = "ours"

PowerOK ==
  /\ PoweredBeforeUse
  /\ pc = "profRead" => power[Prof.base] = "d0"
  /\ pc \in Driving => power[bases[b]] = "d0"

TargetOK ==
  /\ pc = "profRead" => enabled[Prof.base] /\ tar[Prof.base] = Prof.addr
  /\ pc = "fbRead" => enabled[bases[b]] /\ tar[bases[b]] = Addrs[a]

KicksOK ==
  /\ pulses \in [Pins -> {0, 1}]
  /\ \A i \in DOMAIN Profiles :
       Profiles[i].gpio # 0 => (pulses[Profiles[i].gpio] = 1 <=> i \in kicked)

GateOK == touched \subseteq UNION {Allowed(i) : i \in Accepted}

IdentityOK ==
  /\ legible # "misread" => Accepted \subseteq named
  /\ legible = "whole" => Accepted = named

HealthOK ==
  healthy => /\ slow = FALSE /\ faults = 0 /\ stuck = {}
             /\ \A x \in DwBases : power[x] # "ramp"

(* The bases that a failed profile pass leaves enabled are the ones whose  *)
(* profiles the fallback has still to go through.                          *)
Pending(x) ==
  \/ pc = "profile" /\ \E i \in 1..(p - 1) : UsesDw(i) /\ Profiles[i].base = x
  \/ pc \in Probing /\ \E i \in 1..p : UsesDw(i) /\ Profiles[i].base = x
  \/ pc \in {"fallback", "fbPower", "fbMtk"}
     /\ \E i \in p..Len(Profiles) : UsesDw(i) /\ Profiles[i].base = x
  \/ pc \in Sweeping
     /\ \/ \E i \in (p + 1)..Len(Profiles) : UsesDw(i) /\ Profiles[i].base = x
        \/ UsesDw(p) /\ Prof.base = x /\ b = 1 /\ (pc = "fbInit" => a = 1)
        \/ pc = "fbRead" /\ bases[b] = x
EnabledOK ==
  /\ lpss # "ours" => ~enabled[IntelBase]
  /\ healthy /\ found = NotFound => \A x \in DwBases : enabled[x] => Pending(x)

(* Powered but never programmed: only what this step is about to program   *)
(* and knows to be fresh.                                                  *)
Due(x) ==
  \/ pc = "profInit" /\ x = Prof.base /\ fresh
  \/ pc = "fbPower" /\ x \in Tiles /\ x < b /\ freshTile[x]
  \/ /\ pc \in {"fbBase", "fbInit"}
     /\ pc = "fbInit" => a = 1 \/ bases[b] # x
     /\ \/ IsSweep(p) /\ x \in Tiles /\ b <= x /\ freshTile[x]
        \/ Prof.platform = "intel" /\ x = IntelBase /\ b = 1 /\ freshTile[1]
  \/ pc = "fbRead" /\ IsSweep(p) /\ x \in Tiles /\ b < x /\ freshTile[x]
FreshOK ==
  healthy /\ found = NotFound =>
    \A x \in DwBases : power[x] = "d0" /\ timing[x] = "reset" => Due(x)

(* Where a panel that was awake from the start has already been looked for. *)
At(x, ad, rg) == panel = [base |-> x, addr |-> ad, reg |-> rg]
MissedAt(x) ==
  \E n \in DOMAIN Addrs, m \in DOMAIN Regs : At(x, Addrs[n], Regs[m])
Searching == healthy /\ knew /\ found = NotFound
InFallback == {"fallback", "fbPower", "fbMtk"} \cup Sweeping

AwakeOK ==
  /\ knew => awake
  /\ panel.base = IntelBase => lpss = "ours"

(* The profile pass is done with profile i. *)
Tried(i) ==
  HasOwn(i) =>
    /\ panel # Own(i)
    /\ Profiles[i].platform = "amd" => power[Profiles[i].base] = "d0"
TriedOK ==
  Searching =>
    /\ pc \in {"profile"} \cup Probing => \A i \in 1..(p - 1) : Tried(i)
    /\ pc = "profInit" => power[Prof.base] = "d0"
    /\ pc \in {"idle"} \cup InFallback => \A i \in DOMAIN Profiles : Tried(i)

(* What the sweep of a profile is about to look at is powered. *)
ReadyOK ==
  Searching =>
    /\ pc = "fbPower" => \A t \in 1..(b - 1) : power[t] = "d0"
    /\ pc \in Sweeping => IF IsSweep(p) THEN \A t \in Tiles : power[t] = "d0"
                                       ELSE power[bases[1]] = "d0"

(* The loops of the fallback, up to where they are. *)
LookedOK ==
  Searching =>
    /\ pc \in Sweeping =>
         \A c \in 1..(b - 1) : power[bases[c]] = "d0" => ~MissedAt(bases[c])
    /\ pc \in Driving =>
         \A n \in 1..(a - 1), m \in DOMAIN Regs : ~At(bases[b], Addrs[n], Regs[m])
    /\ pc = "fbRead" => \A m \in 1..(r - 1) : ~At(bases[b], Addrs[a], Regs[m])
    /\ pc = "fbMtk" =>
         /\ \A n \in 1..(a - 1), m \in DOMAIN Regs : ~At(MtkBase, Addrs[n], Regs[m])
         /\ \A m \in 1..(r - 1) : ~At(MtkBase, Addrs[a], Regs[m])

(* The fallback is done with profile i. *)
Over(i) ==
  IF IsSweep(i) THEN /\ \A t \in Tiles : power[t] = "d0"
                     /\ \A x \in FchBases : power[x] = "d0" => ~MissedAt(x)
                ELSE ~MissedAt(Profiles[i].base)
OverOK ==
  Searching =>
    /\ pc \in InFallback => \A i \in 1..(p - 1) : i \in Accepted => Over(i)
    /\ pc = "idle" => \A i \in Accepted : Over(i)

Inv ==
  /\ TypeOK /\ ControlOK /\ PowerOK /\ TargetOK /\ PanelAttributed
  /\ TransportMatches /\ KicksOK /\ GateOK /\ IdentityOK /\ HealthOK
  /\ EnabledOK /\ FreshOK /\ PromptTimingProgrammed
  /\ AwakeOK /\ TriedOK /\ ReadyOK /\ LookedOK /\ OverOK

-----------------------------------------------------------------------------
(* The constants. *)

LEMMA ProfileFacts ==
  /\ Len(Profiles) \in Nat /\ DOMAIN Profiles = 1..Len(Profiles)
  /\ \A i \in DOMAIN Profiles :
       /\ Profiles[i].platform \in {"amd", "intel", "mtk"}
       /\ Profiles[i].base \in Bases \cup {0}
       /\ Profiles[i].addr \in Nat /\ Profiles[i].reg \in Nat /\ Profiles[i].gpio \in Nat
       /\ Profiles[i].platform = "intel" => Profiles[i].base = IntelBase
       /\ Profiles[i].platform = "mtk" => Profiles[i].base = MtkBase
       /\ Profiles[i].platform = "amd" /\ ~IsSweep(i) => Profiles[i].base \in Tiles
       /\ IsSweep(i) => Profiles[i].platform = "amd" /\ Profiles[i].base = 0
<1>1. Profiles \in Seq(Profile)
  BY ProfilesAssumption
<1>2. Len(Profiles) \in Nat /\ DOMAIN Profiles = 1..Len(Profiles)
  BY <1>1
<1>3. \A i \in DOMAIN Profiles : Profiles[i] \in Profile
  BY <1>1, <1>2
<1> QED
  BY <1>2, <1>3, ProfilesAssumption DEF Profile, IsSweep

LEMMA BaseFacts ==
  /\ FchBases = 1..5 /\ Tiles = 1..4 /\ IntelBase = 6 /\ MtkBase = 7
  /\ DwBases = 1..6 /\ Bases = 1..7 /\ Tiles \subseteq DwBases
BY DEF FchBases, Tiles, IntelBase, MtkBase, DwBases, Bases

LEMMA AlternatesFacts ==
  /\ Len(Addrs) \in Nat \ {0} /\ DOMAIN Addrs = 1..Len(Addrs)
  /\ Len(Regs) \in Nat \ {0} /\ DOMAIN Regs = 1..Len(Regs)
  /\ \A n \in DOMAIN Addrs : Addrs[n] \in Nat
BY AlternatesAssumption

(* What a profile in progress covers. *)
LEMMA CoveredFacts ==
  ASSUME NEW i \in DOMAIN Profiles, Profiles[i].platform # "mtk"
  PROVE  /\ Covered(i) \in {<<1, 2, 3, 4, 5>>} \cup {<<x>> : x \in DwBases}
         /\ Len(Covered(i)) \in 1..5 /\ DOMAIN Covered(i) = 1..Len(Covered(i))
         /\ \A c \in DOMAIN Covered(i) : Covered(i)[c] \in DwBases
         /\ IsSweep(i) => /\ Len(Covered(i)) = 5
                          /\ \A c \in 1..5 : Covered(i)[c] = c
         /\ ~IsSweep(i) => /\ Len(Covered(i)) = 1
                           /\ Covered(i)[1] = Profiles[i].base
<1>1. CASE IsSweep(i)
  <2>1. Covered(i) = <<1, 2, 3, 4, 5>>
    BY <1>1 DEF Covered, IsSweep
  <2> QED
    BY <2>1, <1>1, BaseFacts
<1>2. CASE ~IsSweep(i)
  <2>1. Covered(i) = <<Profiles[i].base>> /\ Profiles[i].base \in DwBases
    BY <1>2, ProfileFacts, BaseFacts DEF Covered
  <2> QED
    BY <2>1, <1>2, BaseFacts
<1> QED
  BY <1>1, <1>2

-----------------------------------------------------------------------------
(* Types.  The Boolean variables apart, for the provers' sake. *)

Flags ==
  /\ fresh \in BOOLEAN /\ freshTile \in [Tiles -> BOOLEAN]
  /\ fwSearched \in BOOLEAN /\ fwFound \in BOOLEAN
  /\ enabled \in [DwBases -> BOOLEAN] /\ awake \in BOOLEAN
  /\ fwPublished \in BOOLEAN /\ slow \in BOOLEAN
  /\ knew \in BOOLEAN /\ healthy \in BOOLEAN

Places ==
  /\ pc \in {"idle", "profile", "profInit", "profRead", "fallback", "fbPower",
             "fbBase", "fbInit", "fbRead", "fbMtk"}
  /\ p \in 1..Len(Profiles) + 1 /\ b \in 1..6
  /\ a \in 1..Len(Addrs) + 1 /\ r \in 1..Len(Regs) + 1
  /\ bases \in {<<>>, <<1, 2, 3, 4, 5>>} \cup {<<x>> : x \in DwBases}
  /\ pc \in {"profInit", "profRead", "fbPower", "fbBase", "fbInit", "fbRead",
            "fbMtk"} => p \in DOMAIN Profiles
  /\ pc \in {"fbRead", "fbMtk"} => a \in DOMAIN Addrs
  /\ pc = "fbMtk" => r \in DOMAIN Regs

Values ==
  /\ attempt \in 0..MaxAttempts
  /\ found = NotFound \/ found.base \in Bases
  /\ kicked \subseteq DOMAIN Profiles
  /\ kind \in {"dw", "mtk", "fw"}
  /\ power \in [DwBases -> {"gated", "ramp", "d0"}]
  /\ timing \in [DwBases -> {"firmware", "reset", "ours"}]
  /\ tar \in [DwBases -> Nat] /\ stuck \subseteq DwBases
  /\ faults \in Nat /\ lpss \in {"ours", "other", "none"}
  /\ named \subseteq DOMAIN Profiles /\ legible \in {"whole", "partly", "misread"}

LEMMA TypeParts == TypeOK <=> Flags /\ Places /\ Values
BY Zenon DEF TypeOK, Flags, Places, Values

LEMMA BasesFacts ==
  ASSUME NEW s \in {<<>>, <<1, 2, 3, 4, 5>>} \cup {<<x>> : x \in DwBases}
  PROVE  Len(s) \in 0..5 /\ DOMAIN s = 1..Len(s)
OBVIOUS

LEMMA PlacesStep ==
  ASSUME TypeOK, ControlOK, [Next]_vars
  PROVE  Places'
<1> USE ProfileFacts, AlternatesFacts, BaseFacts DEF Places
<1>0. Places
  BY TypeParts
<1>b. Len(bases) \in 0..5 /\ DOMAIN bases = 1..Len(bases)
  BY <1>0, BasesFacts
<1>1. CASE StartAttempt
  BY <1>0, <1>1 DEF StartAttempt
<1>2. CASE ProfSkip
  BY <1>0, <1>2 DEF ProfSkip, NextProfile
<1>3. CASE ProfPower
  BY <1>0, <1>3 DEF ProfPower
<1>4. CASE ProfPowerFails
  BY <1>0, <1>4 DEF ProfPowerFails, NextProfile
<1>5. CASE ProfInit
  BY <1>0, <1>5 DEF ProfInit, NextProfile
<1>6. CASE ProfRead
  BY <1>0, <1>6 DEF ProfRead, NextProfile, Found
<1>7. CASE ProfMtk
  BY <1>0, <1>7 DEF ProfMtk, NextProfile, Found
<1>8. CASE ProfEnd
  BY <1>0, <1>8 DEF ProfEnd
<1>9. CASE FbProfile
  <2>1. p \in DOMAIN Profiles /\ Prof.platform # "mtk" => Prof.base \in DwBases \/ IsSweep(p)
    BY <1>0, <1>9 DEF Prof
  <2>2. /\ p \in DOMAIN Profiles /\ b' = 1 /\ a' = 1 /\ r' = 1
        /\ p' \in {p, p + 1}
    BY <1>0, <1>9 DEF FbProfile, NextProfile
  <2>3. \/ pc' = "fallback"
        \/ pc' \in {"fbMtk", "fbBase", "fbPower"} /\ p' = p
    BY <1>9 DEF FbProfile, NextProfile
  <2>4. bases' \in {<<>>, <<1, 2, 3, 4, 5>>} \cup {<<x>> : x \in DwBases}
    BY <1>0, <1>9, <2>1, SMTT(40) DEF FbProfile, NextProfile, Prof
  <2> QED
    BY <1>0, <2>2, <2>3, <2>4, SMTT(60)
<1>10. CASE FbLpssFails
  BY <1>0, <1>10 DEF FbLpssFails, NextProfile
<1>11. CASE FbPower
  BY <1>0, <1>11, TypeOK, ControlOK, SMTT(60) DEF FbPower, ControlOK
<1>12. CASE FbBase
  <2>1. b <= Len(bases) => b + 1 \in 1..6
    <3>1. b \in 1..6
      BY <1>0
    <3> HIDE DEF Places
    <3> QED
      BY <3>1, <1>b, SMTT(60)
  <2>2. CASE b > Len(bases)
    <3>1. UNCHANGED <<b, r, bases>> /\ a' = 1 /\ pc' = "fallback" /\ p' = p + 1
      BY <1>0, <1>b, <1>12, <2>2, SMTT(60) DEF FbBase, NextProfile
    <3>2. p + 1 \in 1..Len(Profiles) + 1
      BY <1>0, <1>12, SMTT(60) DEF FbBase
    <3> QED
      BY <1>0, <3>1, <3>2
  <2>3. CASE b <= Len(bases)
    <3>1. UNCHANGED <<p, r, bases>> /\ a' = 1 /\ p \in DOMAIN Profiles
      BY <1>0, <1>b, <1>12, <2>3, SMTT(60) DEF FbBase
    <3>2. pc' \in {"fbBase", "fbInit"} /\ b' \in {b, b + 1}
      BY <1>0, <1>b, <1>12, <2>3, SMTT(40) DEF FbBase
    <3> QED
      BY <1>0, <3>1, <3>2, <2>1, <2>3
  <2> QED
    BY <2>2, <2>3, <1>0, <1>b
<1>13. CASE FbInit
  <2>1. b \in 1..Len(bases)
    BY <1>b, <1>13, ControlOK DEF FbInit, ControlOK, Driving
  <2>2. b + 1 \in 1..6
    BY <2>1, <1>b
  <2>3. UNCHANGED <<p, bases>> /\ r' = 1 /\ b' \in {b, b + 1} /\ p \in DOMAIN Profiles
    BY <1>0, <1>13 DEF FbInit
  <2>4. CASE a > Len(Addrs)
    BY <1>0, <1>13, <2>2, <2>3, <2>4 DEF FbInit
  <2>5. CASE a <= Len(Addrs)
    <3>1. pc' \in {"fbInit", "fbRead"} /\ a' \in {a, a + 1} /\ (pc' = "fbRead" => a' = a)
      BY <1>0, <1>13, <2>5 DEF FbInit
    <3> QED
      BY <1>0, <2>2, <2>3, <2>5, <3>1
  <2> QED
    BY <2>4, <2>5, <1>0
<1>14. CASE FbRead
  <2>1. UNCHANGED <<p, b, bases>> /\ a \in DOMAIN Addrs /\ p \in DOMAIN Profiles
    BY <1>0, <1>14 DEF FbRead
  <2>2. CASE r > Len(Regs)
    BY <1>0, <1>14, <2>1, <2>2, SMTT(40) DEF FbRead
  <2>3. CASE r <= Len(Regs)
    <3>1. pc' \in {"idle", "fbRead"} /\ r' \in {r, r + 1} /\ a' = a
      BY <1>0, <1>14, <2>3 DEF FbRead, Found
    <3> QED
      BY <1>0, <3>1, <2>1, <2>3, SMTT(60)
  <2> QED
    BY <2>2, <2>3, <1>0
<1>15. CASE FbMtk
  BY <1>0, <1>15, SMTT(60) DEF FbMtk, FbMtkAdvance, NextProfile, Found
<1>16. CASE FbEnd
  BY <1>0, <1>16 DEF FbEnd, loop
<1>17. CASE Environment \/ UNCHANGED vars
  BY <1>0, <1>17 DEF Environment, loop, vars
<1> QED
  BY <1>1, <1>2, <1>3, <1>4, <1>5, <1>6, <1>7, <1>8, <1>9, <1>10, <1>11, <1>12,
     <1>13, <1>14, <1>15, <1>16, <1>17 DEF Next, Finished

LEMMA FlagsStep ==
  ASSUME TypeOK, [Next]_vars
  PROVE  Flags'
<1> USE DEF Flags
<1>0. Flags
  BY TypeParts
<1>1. CASE StartAttempt
  BY <1>0, <1>1, Zenon DEF StartAttempt, hard, world
<1>2. CASE ProfSkip
  BY <1>0, <1>2, Zenon DEF ProfSkip, soft, hard, world, history
<1>3. CASE ProfPower
  BY <1>0, <1>3, Zenon DEF ProfPower, soft, world
<1>4. CASE ProfPowerFails
  BY <1>0, <1>4, Zenon DEF ProfPowerFails, soft, world
<1>5. CASE ProfInit
  BY <1>0, <1>5 DEF ProfInit, soft, world, DwI2cInit, DwInitWrites
<1>6. CASE ProfRead
  <2>1. awake' \in BOOLEAN /\ knew' \in BOOLEAN
    BY <1>0, <1>6 DEF ProfRead, TouchResetKick, Drive
  <2> QED
    BY <1>0, <1>6, <2>1, Zenon DEF ProfRead
<1>7. CASE ProfMtk
  BY <1>0, <1>7 DEF ProfMtk, MtkProbe, world
<1>8. CASE ProfEnd
  BY <1>0, <1>8, Zenon DEF ProfEnd, soft, hard, world, history
<1>9. CASE FbProfile
  BY <1>0, <1>9 DEF FbProfile, soft, world
<1>10. CASE FbLpssFails
  BY <1>0, <1>10 DEF FbLpssFails, soft, world
<1>11. CASE FbPower
  BY <1>0, <1>11 DEF FbPower, soft, world
<1>12. CASE FbBase
  BY <1>0, <1>12, Zenon DEF FbBase, soft, hard, world, history
<1>13. CASE FbInit
  BY <1>0, <1>13 DEF FbInit, soft, world, DwI2cInit, DwInitWrites
<1>14. CASE FbRead
  BY <1>0, <1>14 DEF FbRead, DwI2cDisable, world, history
<1>15. CASE FbMtk
  BY <1>0, <1>15 DEF FbMtk, MtkProbe, world
<1>16. CASE FbEnd
  BY <1>0, <1>16, Zenon DEF FbEnd, loop, soft, hard, world, history
<1>17. CASE Environment
  BY <1>0, <1>17 DEF Environment, loop, soft, history, PanelWakes, FirmwarePublishes,
     TileReachesD0, ControllerSticks, ControllerFrees, world
<1>18. CASE UNCHANGED vars
  BY <1>0, <1>18, Zenon DEF vars, loop, soft, hard, world, history
<1> QED
  BY <1>1, <1>2, <1>3, <1>4, <1>5, <1>6, <1>7, <1>8, <1>9, <1>10, <1>11, <1>12,
     <1>13, <1>14, <1>15, <1>16, <1>17, <1>18 DEF Next, Finished

(* The base in hand while the fallback drives a controller. *)
LEMMA ControlBases ==
  ASSUME TypeOK, ControlOK, pc \in Driving
  PROVE  /\ p \in DOMAIN Profiles /\ Prof.platform # "mtk" /\ bases = Covered(p)
         /\ b \in DOMAIN bases /\ b \in 1..5 /\ bases[b] \in DwBases
         /\ DOMAIN bases = 1..Len(bases) /\ Len(bases) \in 1..5
<1>1. /\ p \in DOMAIN Profiles /\ Prof.platform # "mtk" /\ bases = Covered(p)
      /\ b \in DOMAIN bases
  BY DEF ControlOK, Accepted, Driving, Sweeping
<1> QED
  BY <1>1, CoveredFacts DEF Prof

(* The controller in hand during the profile pass. *)
LEMMA ProbeBases ==
  ASSUME TypeOK, ControlOK, pc \in Probing
  PROVE  /\ p \in DOMAIN Profiles /\ p \in Accepted /\ UsesDw(p)
         /\ Profiles[p].base \in DwBases /\ Prof = Profiles[p]
         /\ Prof.base \in DwBases /\ Prof.base \in Bases /\ Prof.addr \in Nat
<1>1. p \in DOMAIN Profiles /\ p \in Accepted /\ UsesDw(p)
  BY DEF ControlOK, Accepted
<1>2. Profiles[p].base \in DwBases
  BY <1>1, ProfileFacts, BaseFacts DEF UsesDw, HasOwn
<1> QED
  BY <1>1, <1>2, ProfileFacts, BaseFacts DEF Prof

LEMMA DwI2cInitTypes ==
  ASSUME Values, NEW x \in DwBases, NEW addr \in Nat, NEW force, NEW ok \in BOOLEAN,
         DwI2cInit(x, addr, force, ok)
  PROVE  /\ timing' \in [DwBases -> {"firmware", "reset", "ours"}]
         /\ tar' \in [DwBases -> Nat] /\ faults' \in Nat
<1>1. faults' \in Nat
  BY DEF DwI2cInit, Values, NoFault, Fault
<1>2. CASE DwInitWrites(x, addr, force)
  BY <1>1, <1>2 DEF DwInitWrites, Values
<1>3. CASE UNCHANGED <<timing, tar>>
  BY <1>1, <1>3 DEF Values
<1> QED
  BY <1>2, <1>3 DEF DwI2cInit

LEMMA FoundTypes ==
  ASSUME NEW x \in Bases, NEW ad, Found(x, ad)
  PROVE  found'.base = x /\ found' # NotFound
BY BaseFacts DEF Found, NotFound

LEMMA ValuesStep ==
  ASSUME TypeOK, ControlOK, [Next]_vars
  PROVE  Values'
<1> USE DEF Values
<1>0. Values /\ Places
  BY TypeParts
<1>1. CASE StartAttempt
  BY <1>0, <1>1, MaxAttemptsAssumption DEF StartAttempt, identity, hard, world
<1>2. CASE ProfSkip
  BY <1>0, <1>2 DEF ProfSkip, soft, identity, hard, world
<1>3. CASE ProfPower
  BY <1>0, <1>3, SMTT(40) DEF ProfPower, soft, identity, world, AoacOk, LpssPrepare, NoFault, Fault
<1>4. CASE ProfPowerFails
  BY <1>0, <1>4 DEF ProfPowerFails, soft, identity, world, AoacTimeout, LpssFails, NoFault, Fault
<1>5. CASE ProfInit
  <2>1. p \in DOMAIN Profiles /\ Prof.base \in DwBases /\ Prof.addr \in Nat
    BY <1>5, ProbeBases DEF ProfInit, Probing
  <2>2. /\ timing' \in [DwBases -> {"firmware", "reset", "ours"}]
        /\ tar' \in [DwBases -> Nat] /\ faults' \in Nat
    BY <1>0, <1>5, <2>1, DwI2cInitTypes DEF ProfInit
  <2> QED
    BY <1>0, <1>5, <2>2 DEF ProfInit, soft, identity, world
<1>6. CASE ProfRead
  <2>1. p \in DOMAIN Profiles /\ Prof.base \in Bases
    BY <1>6, ProbeBases DEF ProfRead, Probing
  <2>2. found' = NotFound \/ found'.base \in Bases
    BY <1>0, <1>6, <2>1, FoundTypes DEF ProfRead
  <2>3. kicked' \subseteq DOMAIN Profiles
    BY <1>0, <1>6, <2>1 DEF ProfRead, TouchResetKick
  <2>4. faults' \in Nat
    BY <1>0, <1>6 DEF ProfRead, ReadDescriptor, Fault, NoFault
  <2> QED
    BY <1>0, <1>6, <2>2, <2>3, <2>4 DEF ProfRead, identity, world
<1>7. CASE ProfMtk
  <2>1. found' = NotFound \/ found'.base \in Bases
    BY <1>0, <1>7, FoundTypes, BaseFacts DEF ProfMtk
  <2>2. faults' \in Nat /\ kind' \in {"dw", "mtk", "fw"}
    BY <1>0, <1>7 DEF ProfMtk, MtkProbe, Fault, NoFault
  <2> QED
    BY <1>0, <1>7, <2>1, <2>2 DEF ProfMtk, identity, world
<1>8. CASE ProfEnd
  BY <1>0, <1>8 DEF ProfEnd, soft, identity, hard, world
<1>9. CASE FbProfile
  BY <1>0, <1>9 DEF FbProfile, soft, identity, world, LpssPrepare, NoFault, Fault
<1>10. CASE FbLpssFails
  BY <1>0, <1>10 DEF FbLpssFails, soft, identity, world, LpssFails, NoFault, Fault
<1>11. CASE FbPower
  BY <1>0, <1>11 DEF FbPower, soft, identity, world, AoacOk, AoacTimeout
<1>12. CASE FbBase
  BY <1>0, <1>12 DEF FbBase, soft, identity, hard, world
<1>13. CASE FbInit
  <2>1. CASE a > Len(Addrs)
    BY <1>0, <1>13, <2>1, AlternatesFacts, SMTT(40) DEF FbInit, soft, identity, world, Places
  <2>2. CASE a <= Len(Addrs)
    <3>1. bases[b] \in DwBases
      BY <1>13, ControlBases DEF FbInit, Driving
    <3>2. Addrs[a] \in Nat
      BY <1>0, <2>2, AlternatesFacts, SMTT(60) DEF Places
    <3>3. /\ timing' \in [DwBases -> {"firmware", "reset", "ours"}]
          /\ tar' \in [DwBases -> Nat] /\ faults' \in Nat
      <4>1. a \in Nat /\ Len(Addrs) \in Nat
        BY <1>0, AlternatesFacts DEF Places
      <4>2. \E ok \in BOOLEAN : DwI2cInit(bases[b], Addrs[a], TileFresh, ok)
        BY <1>13, <2>2, <4>1 DEF FbInit
      <4> HIDE DEF Values
      <4> QED
        BY <1>0, <4>2, <3>1, <3>2, DwI2cInitTypes
    <3> QED
      BY <1>0, <1>13, <3>3 DEF FbInit, soft, identity, world
  <2> QED
    BY <2>1, <2>2, <1>0, AlternatesFacts, SMTT(40) DEF Places
<1>14. CASE FbRead
  <2>1. bases[b] \in Bases
    BY <1>14, ControlBases, BaseFacts DEF FbRead, Driving
  <2>2. found' = NotFound \/ found'.base \in Bases
    BY <1>0, <1>14, <2>1, FoundTypes DEF FbRead
  <2>3. faults' \in Nat
    BY <1>0, <1>14 DEF FbRead, ReadDescriptor, Fault, NoFault
  <2> QED
    BY <1>0, <1>14, <2>2, <2>3 DEF FbRead, identity, world
<1>15. CASE FbMtk
  <2>1. found' = NotFound \/ found'.base \in Bases
    BY <1>0, <1>15, FoundTypes, BaseFacts DEF FbMtk
  <2>2. faults' \in Nat /\ kind' \in {"dw", "mtk", "fw"}
    BY <1>0, <1>15 DEF FbMtk, MtkProbe, Fault, NoFault
  <2> QED
    BY <1>0, <1>15, <2>1, <2>2 DEF FbMtk, identity, world
<1>16. CASE FbEnd
  BY <1>0, <1>16 DEF FbEnd, soft, identity, hard, world
<1>17. CASE Environment
  BY <1>0, <1>17 DEF Environment, soft, identity, PanelWakes, FirmwarePublishes,
     TileReachesD0, ControllerSticks, ControllerFrees, world, Fault
<1>18. CASE UNCHANGED vars
  BY <1>0, <1>18 DEF vars, soft, identity, hard, world
<1> QED
  BY <1>1, <1>2, <1>3, <1>4, <1>5, <1>6, <1>7, <1>8, <1>9, <1>10, <1>11, <1>12,
     <1>13, <1>14, <1>15, <1>16, <1>17, <1>18 DEF Next, Finished

-----------------------------------------------------------------------------
(* The machine itself does not change, nor do the profiles it selects; and *)
(* only a reset, which is taken note of, silences a panel that is awake.   *)
LEMMA Unmoved ==
  ASSUME [Next]_vars
  PROVE  /\ UNCHANGED <<dmi, named, legible, panel, slow, lpss, healthy>>
         /\ Accepted' = Accepted
         /\ \A i : Matches(i)' <=> Matches(i)
         /\ \A i : Allowed(i)' = Allowed(i)
         /\ awake /\ knew' => awake'
<1>1. /\ UNCHANGED <<dmi, named, legible, panel, slow, lpss, healthy>>
      /\ awake /\ knew' => awake'
  <2> USE DEF identity, hard, world, history
  <2>1. CASE StartAttempt \/ ProfSkip \/ ProfEnd \/ FbEnd
    BY <2>1 DEF StartAttempt, ProfSkip, ProfEnd, FbEnd
  <2>2. CASE ProfPower \/ ProfPowerFails \/ ProfInit
    BY <2>2 DEF ProfPower, ProfPowerFails, ProfInit
  <2>3. CASE ProfRead
    <3>1. UNCHANGED awake \/ (awake' = FALSE /\ knew' = (knew /\ awake'))
      BY <2>3 DEF ProfRead, TouchResetKick, Drive
    <3>2. awake /\ knew' => awake'
      BY <3>1, Zenon
    <3> QED
      BY <2>3, <3>2 DEF ProfRead
  <2>4. CASE FbProfile \/ FbLpssFails \/ FbPower
    BY <2>4 DEF FbProfile, FbLpssFails, FbPower
  <2>5. CASE FbBase \/ FbInit
    BY <2>5 DEF FbBase, FbInit
  <2>6. CASE FbRead \/ FbMtk
    BY <2>6 DEF FbRead, FbMtk
  <2>7. CASE Environment
    BY <2>7 DEF Environment, PanelWakes, FirmwarePublishes, TileReachesD0,
       ControllerSticks, ControllerFrees
  <2>8. CASE UNCHANGED vars
    BY <2>8 DEF vars
  <2>9. CASE ProfMtk
    BY <2>9 DEF ProfMtk
  <2> QED
    BY <2>1, <2>2, <2>3, <2>4, <2>5, <2>6, <2>7, <2>8, <2>9, Zenon DEF Next, Finished
<1>2. \A i : Matches(i)' <=> Matches(i)
  BY <1>1, Zenon DEF Matches, TouchProfileMatchesIdentity
<1>3. Accepted' = Accepted
  BY <1>2 DEF Accepted
<1>4. \A i : Allowed(i)' = Allowed(i)
  BY <1>1 DEF Allowed
<1> QED
  BY <1>1, <1>2, <1>3, <1>4, Zenon

LEMMA ControlStep ==
  ASSUME TypeOK, ControlOK, TransportMatches, [Next]_vars
  PROVE  ControlOK' /\ TransportMatches'
<1> USE ProfileFacts, BaseFacts DEF ControlOK, TransportMatches, Probing, Driving, Sweeping
<1>0. Places /\ Values
  BY TypeParts
<1>a. Accepted' = Accepted /\ lpss' = lpss
  BY Unmoved
<1>1. CASE StartAttempt
  BY <1>0, <1>1, <1>a DEF StartAttempt, Places
<1>2. CASE ProfSkip
  BY <1>0, <1>2, <1>a DEF ProfSkip, NextProfile, soft, Places
<1>3. CASE ProfPower
  BY <1>0, <1>3, <1>a DEF ProfPower, soft, Places, Accepted, UsesDw, HasOwn, LpssPrepare, LpssIsOurs, Prof
<1>4. CASE ProfPowerFails
  BY <1>0, <1>4, <1>a DEF ProfPowerFails, NextProfile, soft, Places
<1>5. CASE ProfInit
  <2>1. /\ pc' \in {"profile", "profRead"} /\ (pc' = "profRead" => p' = p)
        /\ UNCHANGED <<found, kind>>
    BY <1>5 DEF ProfInit, NextProfile, soft
  <2> QED
    BY <1>5, <2>1, <1>a DEF ProfInit, Prof, UsesDw, HasOwn
<1>6. CASE ProfRead
  BY <1>0, <1>6, <1>a, ProbeBases, FoundTypes DEF ProfRead, NextProfile, Found
<1>7. CASE ProfMtk
  BY <1>0, <1>7, <1>a, FoundTypes DEF ProfMtk, MtkProbe, NextProfile, Found
<1>8. CASE ProfEnd
  BY <1>0, <1>8, <1>a DEF ProfEnd, soft
<1>9. CASE FbProfile
  <2>1. pc = "fallback" /\ p \in DOMAIN Profiles /\ b' = 1 /\ UNCHANGED <<found, kind>>
    BY <1>0, <1>9 DEF FbProfile, soft, Places
  <2>2. CASE ~Matches(p)
    BY <1>9, <2>1, <2>2 DEF FbProfile, NextProfile
  <2>3. CASE Matches(p)
    <3>1. p' = p /\ p \in Accepted
      BY <1>9, <2>1, <2>3 DEF FbProfile, Accepted
    <3>2. CASE Prof.platform = "mtk"
      BY <1>9, <1>a, <2>1, <2>3, <3>1, <3>2 DEF FbProfile, Prof
    <3>3. CASE Prof.platform = "intel"
      <4>1. pc' = "fbBase" /\ bases' = <<IntelBase>> /\ lpss = "ours"
        BY <1>9, <2>1, <2>3, <3>3 DEF FbProfile, LpssPrepare, LpssIsOurs
      <4>2. bases' = Covered(p)
        BY <4>1, <3>3, <2>1 DEF Covered, Prof
      <4>3. 1 \in 1..Len(bases') + 1
        BY <4>1
      <4> QED
        BY <1>a, <2>1, <3>1, <3>3, <4>1, <4>2, <4>3 DEF Prof
    <3>4. CASE Prof.platform \notin {"mtk", "intel"}
      <4>1. /\ pc' = IF IsSweep(p) THEN "fbPower" ELSE "fbBase"
            /\ bases' = IF IsSweep(p) THEN <<1, 2, 3, 4, 5>> ELSE <<Prof.base>>
        BY <1>9, <2>1, <2>3, <3>4 DEF FbProfile
      <4>2. bases' = Covered(p)
        BY <4>1, <3>4 DEF Covered, Prof
      <4>3. 1 \in 1..Len(bases') + 1
        BY <4>2, <2>1, <3>4, CoveredFacts DEF Prof
      <4> QED
        BY <1>a, <2>1, <3>1, <3>4, <4>1, <4>2, <4>3 DEF Prof
    <3> QED
      BY <3>2, <3>3, <3>4
  <2> QED
    BY <2>2, <2>3
<1>10. CASE FbLpssFails
  BY <1>0, <1>10, <1>a DEF FbLpssFails, NextProfile, soft
<1>11. CASE FbPower
  <2>1. /\ p' = p /\ bases' = bases /\ UNCHANGED <<found, kind>>
        /\ p \in DOMAIN Profiles /\ Len(bases) = 5 /\ b \in 1..4
    BY <1>0, <1>11, CoveredFacts DEF FbPower, soft, Accepted
  <2>2. CASE b < 4
    BY <1>11, <1>a, <2>1, <2>2 DEF FbPower
  <2>3. CASE b = 4
    BY <1>11, <1>a, <2>1, <2>3 DEF FbPower, Prof
  <2> QED
    BY <2>1, <2>2, <2>3
<1>12. CASE FbBase
  BY <1>0, <1>12, <1>a, CoveredFacts DEF FbBase, NextProfile, soft, Prof
<1>13. CASE FbInit
  BY <1>0, <1>13, <1>a, ControlBases DEF FbInit, soft, Prof
<1>14. CASE FbRead
  BY <1>0, <1>14, <1>a, ControlBases, FoundTypes DEF FbRead, Found, Prof
<1>15. CASE FbMtk
  BY <1>0, <1>15, <1>a, FoundTypes DEF FbMtk, MtkProbe, FbMtkAdvance, NextProfile, Found, Prof
<1>16. CASE FbEnd
  BY <1>0, <1>16, <1>a DEF FbEnd, soft
<1>17. CASE Environment \/ UNCHANGED vars
  <2>1. UNCHANGED <<pc, p, b, bases, found, kind>>
    BY <1>17 DEF Environment, vars, loop, soft
  <2> QED
    BY <2>1, <1>a DEF Prof, UsesDw, HasOwn
<1> QED
  BY <1>1, <1>2, <1>3, <1>4, <1>5, <1>6, <1>7, <1>8, <1>9, <1>10, <1>11, <1>12,
     <1>13, <1>14, <1>15, <1>16, <1>17 DEF Next, Finished

-----------------------------------------------------------------------------
(* Power, targets, reset lines and what is written. *)

(* What is on stays on. *)
LEMMA PowerKept ==
  ASSUME TypeOK, [Next]_vars
  PROVE  \A x \in DwBases : power[x] = "d0" => power'[x] = "d0"
<1>0. power \in [DwBases -> {"gated", "ramp", "d0"}]
  BY TypeParts DEF Values
<1>1. CASE UNCHANGED power
  BY <1>1
<1>2. CASE \E t : AoacOk(t, fresh') \/ AoacTimeout(t)
  BY <1>0, <1>2 DEF AoacOk, AoacTimeout
<1>3. CASE \E t, f : AoacOk(t, f)
  BY <1>0, <1>3 DEF AoacOk
<1>4. CASE \E f : LpssPrepare(f)
  BY <1>0, <1>4 DEF LpssPrepare
<1>5. CASE \E t : TileReachesD0(t)
  BY <1>0, <1>5 DEF TileReachesD0
<1> QED
  <2>1. CASE StartAttempt \/ ProfSkip \/ ProfEnd \/ FbEnd \/ FbBase \/ UNCHANGED vars
    BY <2>1, <1>1 DEF StartAttempt, ProfSkip, ProfEnd, FbEnd, FbBase, hard, vars
  <2>2. CASE ProfPower
    BY <2>2, <1>2, <1>4 DEF ProfPower
  <2>3. CASE ProfPowerFails \/ FbLpssFails
    BY <2>3, <1>1, <1>2 DEF ProfPowerFails, FbLpssFails, LpssFails
  <2>4. CASE ProfInit \/ ProfRead \/ ProfMtk \/ FbInit \/ FbRead \/ FbMtk
    BY <2>4, <1>1 DEF ProfInit, ProfRead, ProfMtk, FbInit, FbRead, FbMtk
  <2>5. CASE FbProfile
    BY <2>5, <1>1, <1>4 DEF FbProfile
  <2>6. CASE FbPower
    BY <2>6, <1>2, <1>3 DEF FbPower
  <2>7. CASE Environment
    BY <2>7, <1>1, <1>5 DEF Environment, PanelWakes, FirmwarePublishes,
       ControllerSticks, ControllerFrees
  <2> QED
    BY <2>1, <2>2, <2>3, <2>4, <2>5, <2>6, <2>7 DEF Next, Finished

(* Only DwI2cInit enables a controller and chooses whom it talks to. *)
LEMMA DwI2cInitEffect ==
  ASSUME TypeOK, NEW x \in DwBases, NEW addr \in Nat, NEW force, NEW ok \in BOOLEAN,
         DwI2cInit(x, addr, force, ok)
  PROVE  /\ ok => enabled'[x] /\ tar'[x] = addr
         /\ \A y \in DwBases \ {x} : /\ enabled'[y] = enabled[y]
                                     /\ tar'[y] = tar[y] /\ timing'[y] = timing[y]
         /\ enabled[x] => enabled'[x]
<1>0. /\ enabled \in [DwBases -> BOOLEAN] /\ tar \in [DwBases -> Nat]
      /\ timing \in [DwBases -> {"firmware", "reset", "ours"}]
  BY TypeParts DEF Values, Flags
<1>1. CASE DwInitWrites(x, addr, force)
  BY <1>0, <1>1 DEF DwInitWrites
<1>2. CASE ~ok /\ UNCHANGED <<timing, enabled, tar>>
  BY <1>2
<1> QED
  BY <1>1, <1>2 DEF DwI2cInit

(* Elsewhere no controller is enabled or retargeted. *)
Initialising == ProfInit \/ FbInit
LEMMA EnableKept ==
  ASSUME TypeOK, ~Initialising, [Next]_vars
  PROVE  /\ UNCHANGED <<tar, timing>>
         /\ \A x \in DwBases : enabled'[x] => enabled[x]
         /\ ~FbRead => UNCHANGED enabled
<1>0. enabled \in [DwBases -> BOOLEAN]
  BY TypeParts DEF Flags
<1>1. CASE StartAttempt \/ ProfSkip \/ ProfEnd \/ FbEnd \/ FbBase \/ UNCHANGED vars
  BY <1>1 DEF StartAttempt, ProfSkip, ProfEnd, FbEnd, FbBase, hard, vars
<1>2. CASE ProfPower \/ ProfPowerFails \/ ProfRead \/ ProfMtk
  BY <1>2 DEF ProfPower, ProfPowerFails, ProfRead, ProfMtk
<1>3. CASE FbProfile \/ FbLpssFails \/ FbPower \/ FbMtk
  BY <1>3 DEF FbProfile, FbLpssFails, FbPower, FbMtk
<1>4. CASE FbRead
  BY <1>0, <1>4 DEF FbRead, DwI2cDisable
<1>5. CASE Environment
  BY <1>5 DEF Environment
<1> QED
  BY <1>1, <1>2, <1>3, <1>4, <1>5 DEF Next, Finished, Initialising

LEMMA PowerStep ==
  ASSUME TypeOK, ControlOK, PowerOK, [Next]_vars
  PROVE  PowerOK'
<1> USE DEF PowerOK, PoweredBeforeUse
<1>1. \A x \in DwBases : power[x] = "d0" => power'[x] = "d0"
  BY PowerKept
<1>2. CASE ProfInit
  <2>1. PoweredBeforeUse'
    <3>1. CASE Present(Prof.base)
      BY <1>1, <1>2, <3>1, ProbeBases, DwI2cInitEffect DEF ProfInit, Present, Probing
    <3>2. CASE ~Present(Prof.base)
      BY <1>1, <1>2, <3>2 DEF ProfInit
    <3> QED
      BY <3>1, <3>2
  <2>2. pc' = "profRead" => power[Prof.base] = "d0" /\ p' = p
    BY <1>2 DEF ProfInit, Present, NextProfile
  <2>3. pc' \in {"profRead", "profile"}
    BY <1>2 DEF ProfInit, NextProfile
  <2> QED
    BY <1>1, <1>2, <2>1, <2>2, <2>3, ProbeBases DEF Driving, Probing, Prof, ProfInit
<1>3. CASE FbInit
  <2>0. bases[b] \in DwBases /\ power[bases[b]] = "d0" /\ bases' = bases
    BY <1>3, ControlBases DEF FbInit, Driving
  <2>1. PoweredBeforeUse'
    <3>1. CASE a > Len(Addrs)
      BY <1>1, <1>3, <3>1, AlternatesFacts, TypeParts DEF FbInit, Places
    <3>2. CASE a <= Len(Addrs)
      <4>1. Addrs[a] \in Nat
        BY <3>2, AlternatesFacts, TypeParts DEF Places
      <4>2. \E ok \in BOOLEAN : DwI2cInit(bases[b], Addrs[a], TileFresh, ok)
        BY <1>3, <3>2, AlternatesFacts, TypeParts DEF FbInit, Places
      <4> QED
        BY <1>1, <4>1, <4>2, <2>0, DwI2cInitEffect
    <3> QED
      BY <3>1, <3>2, AlternatesFacts, TypeParts DEF Places
  <2>2. pc' \in {"fbBase", "fbInit", "fbRead"} /\ (pc' # "fbBase" => b' = b)
    BY <1>3 DEF FbInit
  <2> QED
    BY <1>1, <2>0, <2>1, <2>2 DEF Driving
<1>4. CASE ~Initialising
  <2>1. PoweredBeforeUse'
    BY <1>1, <1>4, EnableKept
  <2>2. CASE UNCHANGED <<pc, p, b, bases>> \/ pc' \notin {"profRead"} \cup Driving
    BY <1>1, <2>1, <2>2, ProbeBases, ControlBases DEF Prof, Driving, Probing
  <2>3. CASE FbBase
    <3>1. pc' = "fbInit" =>
            power[bases[b]] = "d0" /\ b' = b /\ bases' = bases /\ bases[b] \in DwBases
      BY <2>3, CoveredFacts DEF FbBase, Present, NextProfile, ControlOK, Sweeping, Accepted, Prof
    <3> QED
      BY <1>1, <2>1, <2>3, <3>1 DEF FbBase, NextProfile, Driving
  <2>4. CASE FbRead
    <3>1. bases[b] \in DwBases /\ power[bases[b]] = "d0" /\ UNCHANGED <<b, bases>>
      BY <2>4, ControlBases DEF FbRead, Driving
    <3> QED
      BY <1>1, <2>1, <2>4, <3>1 DEF FbRead, Found, Driving
  <2>5. CASE StartAttempt \/ ProfSkip \/ ProfEnd \/ FbEnd
    BY <2>2, <2>5 DEF StartAttempt, ProfSkip, ProfEnd, FbEnd, NextProfile, Driving
  <2>6. CASE ProfPower \/ ProfPowerFails \/ ProfRead \/ ProfMtk
    BY <2>2, <2>6 DEF ProfPower, ProfPowerFails, ProfRead, ProfMtk, NextProfile, Driving, Found
  <2>7. CASE FbProfile \/ FbLpssFails \/ FbPower \/ FbMtk
    BY <2>2, <2>7 DEF FbProfile, FbLpssFails, FbPower, FbMtk, NextProfile, Driving, Found,
       FbMtkAdvance
  <2>8. CASE Environment \/ UNCHANGED vars
    BY <2>2, <2>8 DEF Environment, vars, loop
  <2> QED
    BY <1>4, <2>3, <2>4, <2>5, <2>6, <2>7, <2>8 DEF Next, Finished, Initialising
<1> QED
  BY <1>2, <1>3, <1>4 DEF Initialising

(* The controller about to be read is enabled and targets the address that *)
(* the search believes it does.                                            *)
LEMMA TargetStep ==
  ASSUME TypeOK, ControlOK, TargetOK, [Next]_vars
  PROVE  TargetOK'
<1> USE DEF TargetOK
<1>1. CASE ProfInit
  <2>1. CASE pc' = "profRead"
    <3>1. DwI2cInit(Prof.base, Prof.addr, fresh, TRUE) /\ p' = p
      BY <1>1, <2>1 DEF ProfInit, NextProfile
    <3>2. enabled'[Prof.base] /\ tar'[Prof.base] = Prof.addr
      <4>1. Prof.base \in DwBases /\ Prof.addr \in Nat
        BY <1>1, ProbeBases DEF ProfInit, Probing
      <4> QED
        BY <3>1, <4>1, DwI2cInitEffect
    <3> QED
      BY <2>1, <3>1, <3>2 DEF Prof
  <2>2. CASE pc' = "profile"
    BY <2>2
  <2> QED
    BY <1>1, <2>1, <2>2 DEF ProfInit, NextProfile
<1>2. CASE FbInit
  <2>1. CASE pc' = "fbRead"
    <3>1. /\ DwI2cInit(bases[b], Addrs[a], TileFresh, TRUE)
          /\ UNCHANGED <<a, b, bases>> /\ a <= Len(Addrs)
      BY <1>2, <2>1 DEF FbInit
    <3>2. Addrs[a] \in Nat
      BY <3>1, AlternatesFacts, TypeParts DEF Places
    <3>3. enabled'[bases[b]] /\ tar'[bases[b]] = Addrs[a]
      BY <1>2, <3>1, <3>2, ControlBases, DwI2cInitEffect DEF FbInit, Driving
    <3> QED
      BY <2>1, <3>1, <3>3
  <2>2. CASE pc' \in {"fbBase", "fbInit"}
    BY <2>2
  <2> QED
    BY <1>2, <2>1, <2>2 DEF FbInit
<1>3. CASE ~Initialising
  <2>1. UNCHANGED tar /\ (~FbRead => UNCHANGED enabled)
    BY <1>3, EnableKept
  <2>2. CASE UNCHANGED <<pc, p, a, b, bases, enabled>> \/ pc' \notin {"profRead", "fbRead"}
    BY <2>1, <2>2 DEF Prof
  <2>3. CASE FbRead
    <3>1. pc' = "fbRead" => UNCHANGED <<pc, a, b, bases, enabled>>
      BY <2>3 DEF FbRead, Found
    <3> QED
      BY <2>1, <2>3, <3>1 DEF FbRead, Found
  <2>4. CASE StartAttempt \/ ProfSkip \/ ProfEnd \/ FbEnd \/ FbBase
    BY <2>2, <2>4 DEF StartAttempt, ProfSkip, ProfEnd, FbEnd, FbBase, NextProfile
  <2>5. CASE ProfPower \/ ProfPowerFails \/ ProfRead \/ ProfMtk
    BY <2>2, <2>5 DEF ProfPower, ProfPowerFails, ProfRead, ProfMtk, NextProfile, Found
  <2>6. CASE FbProfile \/ FbLpssFails \/ FbPower \/ FbMtk
    BY <2>2, <2>6 DEF FbProfile, FbLpssFails, FbPower, FbMtk, NextProfile, Found, FbMtkAdvance
  <2>7. CASE Environment \/ UNCHANGED vars
    BY <2>2, <2>7 DEF Environment, vars, loop, hard
  <2> QED
    BY <1>3, <2>3, <2>4, <2>5, <2>6, <2>7 DEF Next, Finished, Initialising
<1> QED
  BY <1>1, <1>2, <1>3 DEF Initialising

(* What an attempt finds: only a read or a MediaTek probe writes found, and *)
(* a read only once the panel acknowledged at its address.                 *)
LEMMA FoundStep ==
  ASSUME TypeOK, ControlOK, TargetOK, [Next]_vars, found' # found
  PROVE  /\ pc' = "idle" /\ found = NotFound
         /\ \/ found'.base = MtkBase
            \/ /\ found'.base \in DwBases /\ UNCHANGED <<tar, panel, timing, power>>
               /\ tar[found'.base] = found'.addr /\ panel.base = found'.base
               /\ \/ pc = "profRead" /\ found'.base = Prof.base
                  \/ pc = "fbRead" /\ found'.base = bases[b]
<1>1. CASE StartAttempt \/ ProfSkip \/ ProfEnd \/ FbEnd \/ FbBase
  BY <1>1 DEF StartAttempt, ProfSkip, ProfEnd, FbEnd, FbBase, soft
<1>2. CASE ProfPower \/ ProfPowerFails \/ ProfInit
  BY <1>2 DEF ProfPower, ProfPowerFails, ProfInit, soft
<1>3. CASE FbProfile \/ FbLpssFails \/ FbPower \/ FbInit
  BY <1>3 DEF FbProfile, FbLpssFails, FbPower, FbInit, soft
<1>4. CASE Environment \/ UNCHANGED vars
  BY <1>4 DEF Environment, vars, soft
<1>5. CASE ProfRead
  <2>1. Found(Prof.base, Prof.addr) /\ Answers(Prof.base, Prof.reg)
    BY <1>5 DEF ProfRead, ReadDescriptor
  <2>2. found'.base = Prof.base /\ found'.addr = Prof.addr /\ pc' = "idle"
    BY <2>1 DEF Found
  <2> QED
    BY <1>5, <2>1, <2>2, ProbeBases
    DEF ProfRead, Answers, Acks, Probing, world, TargetOK, ControlOK
<1>6. CASE FbRead
  <2>1. Found(bases[b], Addrs[a]) /\ \E reg : Answers(bases[b], reg)
    BY <1>6 DEF FbRead, ReadDescriptor
  <2>2. found'.base = bases[b] /\ found'.addr = Addrs[a] /\ pc' = "idle"
    BY <2>1 DEF Found
  <2> QED
    BY <1>6, <2>1, <2>2, ControlBases
    DEF FbRead, Answers, Acks, Driving, world, TargetOK, ControlOK
<1>7. CASE ProfMtk \/ FbMtk
  BY <1>7 DEF ProfMtk, FbMtk, Found, ControlOK
<1> QED
  BY <1>1, <1>2, <1>3, <1>4, <1>5, <1>6, <1>7 DEF Next, Finished

LEMMA AttributedStep ==
  ASSUME TypeOK, ControlOK, TargetOK, PanelAttributed, [Next]_vars
  PROVE  PanelAttributed'
<1>1. CASE found' # found
  BY <1>1, FoundStep, BaseFacts DEF PanelAttributed
<1>2. CASE found' = found
  <2>1. CASE found = NotFound
    BY <1>2, <2>1 DEF PanelAttributed
  <2>2. CASE found # NotFound
    <3>1. pc = "idle"
      BY <2>2 DEF ControlOK
    <3>2. ~Initialising
      BY <3>1 DEF Initialising, ProfInit, FbInit
    <3> QED
      BY <1>2, <3>2, EnableKept, Unmoved DEF PanelAttributed
  <2> QED
    BY <2>1, <2>2
<1> QED
  BY <1>1, <1>2

LEMMA PinFacts ==
  /\ \A i \in DOMAIN Profiles : Profiles[i].gpio # 0 => Profiles[i].gpio \in Pins
  /\ \A x \in Pins : \E i \in DOMAIN Profiles : Profiles[i].gpio = x /\ x # 0
  /\ \A i, j \in DOMAIN Profiles :
       Profiles[i].gpio = Profiles[j].gpio /\ Profiles[i].gpio # 0 => i = j
BY ProfilesAssumption DEF Pins

(* A reset line has been driven exactly if its profile remembers the kick. *)
LEMMA KicksStep ==
  ASSUME TypeOK, ControlOK, KicksOK, [Next]_vars
  PROVE  KicksOK'
<1>1. CASE UNCHANGED <<pulses, kicked>>
  BY <1>1, Zenon DEF KicksOK
<1>2. CASE ProfRead
  <2>1. CASE TouchResetKick /\ Prof.gpio # 0 /\ p \notin kicked
    <3>1. p \in DOMAIN Profiles /\ Prof = Profiles[p]
      BY <1>2, ProbeBases DEF ProfRead, Probing
    <3>2. pulses[Prof.gpio] = 0 /\ Prof.gpio \in Pins
      BY <2>1, <3>1, PinFacts DEF KicksOK
    <3>3. /\ pulses' \in [Pins -> {0, 1}] /\ pulses'[Prof.gpio] = 1
          /\ \A x \in Pins : x # Prof.gpio => pulses'[x] = pulses[x]
      BY <2>1, <3>2 DEF TouchResetKick, Drive, KicksOK
    <3>4. kicked' = kicked \cup {p}
      BY <2>1 DEF TouchResetKick
    <3> QED
      BY <2>1, <3>1, <3>3, <3>4, PinFacts DEF KicksOK
  <2> QED
    BY <1>1, <1>2, <2>1 DEF ProfRead
<1>3. CASE StartAttempt \/ ProfSkip \/ ProfEnd \/ FbEnd \/ FbBase
  BY <1>1, <1>3 DEF StartAttempt, ProfSkip, ProfEnd, FbEnd, FbBase, soft, history
<1>4. CASE ProfPower \/ ProfPowerFails \/ ProfInit \/ ProfMtk
  BY <1>1, <1>4 DEF ProfPower, ProfPowerFails, ProfInit, ProfMtk, soft
<1>5. CASE FbProfile \/ FbLpssFails \/ FbPower \/ FbInit \/ FbRead \/ FbMtk
  BY <1>1, <1>5 DEF FbProfile, FbLpssFails, FbPower, FbInit, FbRead, FbMtk, soft, history
<1>6. CASE Environment \/ UNCHANGED vars
  BY <1>1, <1>6 DEF Environment, vars, soft, history
<1> QED
  BY <1>2, <1>3, <1>4, <1>5, <1>6 DEF Next, Finished

(* Everything written belongs to a profile that the identity selects. *)
LEMMA GateStep ==
  ASSUME TypeOK, ControlOK, GateOK, [Next]_vars
  PROVE  GateOK'
<1>1. \A w \in touched : \E i \in Accepted : w \in Allowed(i)
  BY DEF GateOK
<1>2. SUFFICES \A w \in touched' : w \in touched \/ \E i \in Accepted : w \in Allowed(i)
  BY <1>1, Unmoved DEF GateOK
<1>3. \A i \in DOMAIN Profiles :
        /\ Profiles[i].platform = "amd" /\ ~IsSweep(i) =>
             {<<"aoac", Profiles[i].base>>, <<"mmio", Profiles[i].base>>} \subseteq Allowed(i)
        /\ Profiles[i].platform = "amd" /\ ~IsSweep(i) /\ Profiles[i].gpio # 0 =>
             <<"gpio", Profiles[i].gpio>> \in Allowed(i)
        /\ Profiles[i].platform = "mtk" => <<"mmio", MtkBase>> \in Allowed(i)
        /\ Profiles[i].platform = "intel" /\ lpss = "ours" =>
             {<<"lpss", IntelBase>>, <<"mmio", IntelBase>>} \subseteq Allowed(i)
        /\ IsSweep(i) => /\ \A t \in Tiles : <<"aoac", t>> \in Allowed(i)
                         /\ \A x \in FchBases : <<"mmio", x>> \in Allowed(i)
  <2> TAKE i \in DOMAIN Profiles
  <2>1. CASE IsSweep(i)
    BY <2>1, ProfileFacts DEF Allowed
  <2>2. CASE ~IsSweep(i) /\ Profiles[i].platform = "intel"
    BY <2>2, ProfileFacts DEF Allowed
  <2>3. CASE ~IsSweep(i) /\ Profiles[i].platform # "intel"
    <3>1. Allowed(i) = {<<"aoac", Profiles[i].base>>, <<"mmio", Profiles[i].base>>}
                       \cup (IF Profiles[i].gpio = 0 THEN {}
                             ELSE {<<"gpio", Profiles[i].gpio>>})
      BY <2>3 DEF Allowed
    <3> QED
      BY <3>1, <2>3, ProfileFacts
  <2> QED
    BY <2>1, <2>2, <2>3
<1>4. CASE UNCHANGED touched
  BY <1>4
<1>5. CASE ProfPower \/ ProfPowerFails
  <2>1. p \in Accepted /\ Prof = Profiles[p] /\ p \in DOMAIN Profiles
    BY <1>5, ProfileFacts, TypeParts DEF ProfPower, ProfPowerFails, Accepted, Prof, Places
  <2>2. touched' \subseteq touched \cup
          (IF Prof.platform = "amd" THEN {<<"aoac", Prof.base>>}
           ELSE IF lpss = "ours" THEN {<<"lpss", IntelBase>>} ELSE {})
    BY <1>5 DEF ProfPower, ProfPowerFails, AoacOk, AoacTimeout, LpssPrepare, LpssFails, LpssIsOurs
  <2>3. Prof.platform # "mtk" /\ (Prof.platform = "amd" => ~IsSweep(p))
    BY <1>5 DEF ProfPower, ProfPowerFails
  <2> QED
    BY <1>3, <2>1, <2>2, <2>3, ProfileFacts
<1>6. CASE ProfInit
  <2>1. p \in Accepted /\ p \in DOMAIN Profiles /\ UsesDw(p) /\ Prof = Profiles[p]
    BY <1>6, ProbeBases DEF ProfInit, Probing
  <2>2. touched' \subseteq touched \cup {<<"mmio", Prof.base>>}
    BY <1>6 DEF ProfInit
  <2>3. Prof.platform = "intel" => lpss = "ours"
    BY <1>6 DEF ProfInit, ControlOK, Probing
  <2> QED
    BY <1>3, <2>1, <2>2, <2>3, ProfileFacts DEF UsesDw, HasOwn
<1>7. CASE ProfRead
  <2>1. p \in Accepted /\ p \in DOMAIN Profiles /\ UsesDw(p) /\ Prof = Profiles[p]
    BY <1>7, ProbeBases DEF ProfRead, Probing
  <2>2. \/ touched' = touched
        \/ /\ Prof.platform = "amd" /\ Prof.gpio # 0
           /\ touched' = touched \cup {<<"gpio", Prof.gpio>>}
    BY <1>7 DEF ProfRead, TouchResetKick, Drive
  <2> QED
    BY <1>3, <2>1, <2>2 DEF UsesDw, HasOwn
<1>8. CASE ProfMtk \/ FbMtk
  <2>1. p \in Accepted /\ p \in DOMAIN Profiles /\ Profiles[p].platform = "mtk"
    BY <1>8, ProfileFacts, TypeParts DEF ProfMtk, FbMtk, ControlOK, Accepted, Prof, Places
  <2>2. touched' \subseteq touched \cup {<<"mmio", MtkBase>>}
    BY <1>8 DEF ProfMtk, FbMtk, MtkProbe
  <2> QED
    BY <1>3, <2>1, <2>2
<1>9. CASE FbProfile \/ FbLpssFails
  <2>1. \/ touched' = touched
        \/ /\ Matches(p) /\ Prof.platform = "intel" /\ lpss = "ours"
           /\ touched' = touched \cup {<<"lpss", IntelBase>>}
    BY <1>9 DEF FbProfile, FbLpssFails, LpssPrepare, LpssFails, LpssIsOurs
  <2>2. p \in DOMAIN Profiles
    BY <1>9, ProfileFacts, TypeParts DEF FbProfile, FbLpssFails, Places
  <2> QED
    BY <1>3, <2>1, <2>2 DEF Accepted, Prof
<1>10. CASE FbPower
  <2>1. p \in Accepted /\ p \in DOMAIN Profiles /\ IsSweep(p) /\ b \in Tiles
    BY <1>10 DEF FbPower, ControlOK, Accepted
  <2>2. touched' \subseteq touched \cup {<<"aoac", b>>}
    BY <1>10 DEF FbPower, AoacOk, AoacTimeout
  <2> QED
    BY <1>3, <2>1, <2>2
<1>11. CASE FbInit
  <2>1. p \in Accepted /\ p \in DOMAIN Profiles /\ bases = Covered(p) /\ b \in DOMAIN bases
        /\ Profiles[p].platform # "mtk"
    BY <1>11, ControlBases DEF FbInit, ControlOK, Driving, Sweeping, Prof
  <2>2. touched' \subseteq touched \cup {<<"mmio", bases[b]>>}
    BY <1>11 DEF FbInit
  <2>3. Profiles[p].platform = "intel" => lpss = "ours"
    BY <1>11 DEF FbInit, ControlOK, Sweeping, Driving, Prof
  <2>4. CASE IsSweep(p)
    <3>1. bases[b] \in FchBases
      BY <2>1, <2>4, CoveredFacts, BaseFacts
    <3> QED
      BY <1>3, <2>1, <2>2, <2>4, <3>1
  <2>5. CASE ~IsSweep(p)
    <3>1. bases[b] = Profiles[p].base
      BY <2>1, <2>5, CoveredFacts
    <3> QED
      BY <1>3, <2>1, <2>2, <2>3, <2>5, <3>1, ProfileFacts
  <2> QED
    BY <2>4, <2>5
<1>12. CASE StartAttempt \/ ProfSkip \/ ProfEnd \/ FbEnd \/ FbBase \/ FbRead
  BY <1>4, <1>12 DEF StartAttempt, ProfSkip, ProfEnd, FbEnd, FbBase, FbRead, history
<1>13. CASE Environment \/ UNCHANGED vars
  BY <1>4, <1>13 DEF Environment, vars, history
<1> QED
  BY <1>5, <1>6, <1>7, <1>8, <1>9, <1>10, <1>11, <1>12, <1>13 DEF Next, Finished

(* On a healthy machine nothing fails, and nothing starts to. *)
LEMMA HealthStep ==
  ASSUME TypeOK, ControlOK, HealthOK, [Next]_vars
  PROVE  HealthOK'
<1>1. SUFFICES ASSUME healthy
               PROVE  /\ slow' = FALSE /\ faults' = 0 /\ stuck' = {}
                      /\ \A x \in DwBases : power'[x] # "ramp"
  BY Unmoved DEF HealthOK
<1>2. slow = FALSE /\ slow' = slow /\ faults = 0 /\ stuck = {} /\ \A x \in DwBases : power[x] # "ramp"
  BY <1>1, Unmoved DEF HealthOK
<1>3. power \in [DwBases -> {"gated", "ramp", "d0"}]
  BY TypeParts DEF Values
<1>4. ~Fault /\ \A t : ~AoacTimeout(t)
  BY <1>2 DEF Fault, AoacTimeout
<1>5. \A t, f : AoacOk(t, f) => \A x \in DwBases : power'[x] # "ramp"
  BY <1>2, <1>3 DEF AoacOk
<1>6. \A f : LpssPrepare(f) => faults' = faults /\ \A x \in DwBases : power'[x] # "ramp"
  BY <1>2, <1>3, <1>4 DEF LpssPrepare, NoFault
<1>7. \A x, ad, f, ok : DwI2cInit(x, ad, f, ok) => faults' = faults
  BY <1>4 DEF DwI2cInit, NoFault
<1>8. CASE StartAttempt \/ ProfSkip \/ ProfEnd \/ FbEnd \/ FbBase \/ UNCHANGED vars
  BY <1>2, <1>8 DEF StartAttempt, ProfSkip, ProfEnd, FbEnd, FbBase, hard, vars
<1>9. CASE ProfPower
  BY <1>2, <1>5, <1>6, <1>9 DEF ProfPower, NoFault
<1>10. CASE ProfPowerFails \/ FbLpssFails
  BY <1>2, <1>4, <1>10 DEF ProfPowerFails, FbLpssFails, LpssFails, NoFault
<1>11. CASE ProfInit \/ FbInit
  BY <1>2, <1>7, <1>11 DEF ProfInit, FbInit
<1>12. CASE ProfRead \/ FbRead
  BY <1>2, <1>4, <1>12 DEF ProfRead, FbRead, ReadDescriptor, NoFault
<1>13. CASE ProfMtk \/ FbMtk
  BY <1>2, <1>4, <1>13 DEF ProfMtk, FbMtk, MtkProbe, NoFault
<1>14. CASE FbProfile \/ FbPower
  BY <1>2, <1>4, <1>5, <1>6, <1>14 DEF FbProfile, FbPower
<1>15. CASE Environment
  BY <1>2, <1>3, <1>4, <1>15 DEF Environment, PanelWakes, FirmwarePublishes, ControllerSticks,
     ControllerFrees, TileReachesD0
<1> QED
  BY <1>8, <1>9, <1>10, <1>11, <1>12, <1>13, <1>14, <1>15 DEF Next, Finished

-----------------------------------------------------------------------------
(* What a failed attempt leaves behind. *)

LEMMA StillNotFound ==
  ASSUME TypeOK, ControlOK, TargetOK, [Next]_vars, found' = NotFound
  PROVE  found = NotFound
<1>1. CASE found' = found
  BY <1>1
<1>2. CASE found' # found
  BY <1>2, FoundStep
<1> QED
  BY <1>1, <1>2

LEMMA SameProfiles ==
  ASSUME [Next]_vars
  PROVE  \A i : /\ UsesDw(i)' <=> UsesDw(i)
                /\ HasOwn(i)' <=> HasOwn(i)
                /\ IsSweep(i)' <=> IsSweep(i)
BY Unmoved DEF UsesDw, HasOwn, IsSweep

LEMMA HealthyInit ==
  ASSUME HealthOK, healthy, NEW x, NEW addr, NEW force, NEW ok, DwI2cInit(x, addr, force, ok)
  PROVE  ok /\ DwInitWrites(x, addr, force)
BY DEF HealthOK, DwI2cInit, Fault

LEMMA AbsentStep ==
  ASSUME TypeOK, ControlOK, EnabledOK, [Next]_vars, lpss' # "ours"
  PROVE  ~enabled'[IntelBase]
<1>1. lpss # "ours" /\ ~enabled[IntelBase] /\ IntelBase \in DwBases
  BY Unmoved, BaseFacts DEF EnabledOK
<1>2. CASE ~Initialising
  BY <1>1, <1>2, EnableKept
<1>3. CASE ProfInit
  <2>1. Prof.base \in DwBases /\ Prof.addr \in Nat /\ Prof.base # IntelBase
    BY <1>1, <1>3, ProbeBases, ProfileFacts, BaseFacts
    DEF ProfInit, Probing, ControlOK, UsesDw, HasOwn
  <2> QED
    BY <1>1, <1>3, <2>1, DwI2cInitEffect DEF ProfInit
<1>4. CASE FbInit
  <2>1. bases[b] \in DwBases /\ bases[b] # IntelBase
    <3>1. /\ p \in DOMAIN Profiles /\ Profiles[p].platform # "mtk" /\ bases = Covered(p)
          /\ b \in DOMAIN bases /\ bases[b] \in DwBases /\ b \in 1..5
      BY <1>4, ControlBases DEF FbInit, Driving, Prof
    <3>2. Profiles[p].platform # "intel"
      BY <1>1, <1>4 DEF FbInit, Driving, Sweeping, ControlOK, Prof
    <3>3. CASE IsSweep(p)
      BY <3>1, <3>3, CoveredFacts, BaseFacts
    <3>4. CASE ~IsSweep(p)
      BY <3>1, <3>2, <3>4, CoveredFacts, ProfileFacts, BaseFacts
    <3> QED
      BY <3>3, <3>4
  <2>2. CASE a > Len(Addrs)
    BY <1>1, <1>4, <2>2, AlternatesFacts, TypeParts DEF FbInit, Places
  <2>3. CASE a <= Len(Addrs)
    <3>1. Addrs[a] \in Nat
      BY <2>3, AlternatesFacts, TypeParts DEF Places
    <3>2. \E ok \in BOOLEAN : DwI2cInit(bases[b], Addrs[a], TileFresh, ok)
      BY <1>4, <2>3, AlternatesFacts, TypeParts DEF FbInit, Places
    <3> QED
      BY <1>1, <2>1, <3>1, <3>2, DwI2cInitEffect
  <2> QED
    BY <2>2, <2>3, AlternatesFacts, TypeParts DEF Places
<1> QED
  BY <1>2, <1>3, <1>4 DEF Initialising

LEMMA EnabledStep ==
  ASSUME TypeOK, ControlOK, PowerOK, TargetOK, HealthOK, EnabledOK, [Next]_vars
  PROVE  EnabledOK'
<1>1. SUFFICES ASSUME healthy, found' = NotFound, NEW x \in DwBases, enabled'[x]
               PROVE  Pending(x)'
  BY AbsentStep, Unmoved DEF EnabledOK
<1>2. found = NotFound
  BY <1>1, StillNotFound
<1>3. stuck = {} /\ faults = 0 /\ ~Fault
  BY <1>1 DEF HealthOK, Fault
<1>4. enabled[x] => Pending(x) /\ power[x] = "d0" /\ (lpss # "ours" => x # IntelBase)
  BY <1>1, <1>2 DEF EnabledOK, PowerOK, PoweredBeforeUse
<1>5. p \in Nat /\ p \in 1..Len(Profiles) + 1 /\ Len(Profiles) \in Nat
  BY TypeParts, ProfileFacts DEF Places
<1> USE SameProfiles DEF Pending, Probing, Sweeping, Driving
<1>6. CASE ~Initialising /\ ~FbRead
  <2>1. enabled[x] /\ Pending(x)
    BY <1>1, <1>4, <1>6, EnableKept
  <2>2. CASE StartAttempt \/ FbEnd
    BY <1>5, <2>1, <2>2 DEF StartAttempt, FbEnd
  <2>3. CASE ProfSkip \/ ProfPowerFails
    BY <1>5, <2>1, <2>3 DEF ProfSkip, ProfPowerFails, NextProfile
  <2>4. CASE ProfPower
    BY <1>5, <2>1, <2>4 DEF ProfPower
  <2>5. CASE ProfRead \/ ProfMtk
    <3>1. pc' = "profile" /\ p' = p + 1
      <4>1. CASE ProfRead
        BY <4>1, <1>1, ProbeBases, FoundTypes DEF ProfRead, NextProfile
      <4>2. CASE ProfMtk
        BY <4>2, <1>1, BaseFacts, FoundTypes DEF ProfMtk, NextProfile
      <4> QED
        BY <2>5, <4>1, <4>2
    <3> QED
      BY <1>5, <2>1, <2>5, <3>1 DEF ProfRead, ProfMtk
  <2>6. CASE ProfEnd
    BY <1>5, <2>1, <2>6, ProfileFacts DEF ProfEnd, UsesDw, HasOwn, Accepted
  <2>7. CASE FbProfile
    BY <1>5, <2>1, <2>7 DEF FbProfile, NextProfile, UsesDw, HasOwn, Accepted, Prof
  <2>8. CASE FbLpssFails
    BY <1>1, <1>3, <1>4, <1>5, <2>1, <2>8, ProfileFacts
    DEF FbLpssFails, NextProfile, LpssFails, LpssIsOurs, Prof
  <2>9. CASE FbPower
    BY <1>5, <2>1, <2>9 DEF FbPower, UsesDw, HasOwn, ControlOK, Prof
  <2>10. CASE FbBase
    BY <1>4, <1>5, <2>1, <2>10, CoveredFacts
    DEF FbBase, NextProfile, UsesDw, HasOwn, ControlOK, Prof, Present, Accepted
  <2>11. CASE FbMtk
    BY <1>5, <1>1, <2>1, <2>11, FoundTypes, BaseFacts
    DEF FbMtk, FbMtkAdvance, NextProfile, UsesDw, ControlOK, Prof
  <2>12. CASE Environment \/ UNCHANGED vars
    BY <2>1, <2>12 DEF Environment, vars, loop, Prof
  <2> QED
    BY <1>6, <2>2, <2>3, <2>4, <2>5, <2>6, <2>7, <2>8, <2>9, <2>10, <2>11, <2>12
    DEF Next, Finished, Initialising
<1>7. CASE ProfInit
  BY <1>1, <1>3, <1>4, <1>5, <1>7, ProbeBases, DwI2cInitEffect DEF ProfInit, NextProfile
<1>8. CASE FbInit
  <2>1. /\ p \in DOMAIN Profiles /\ p' = p /\ bases' = bases /\ b \in DOMAIN bases
        /\ bases[b] \in DwBases /\ b \in 1..5 /\ pc = "fbInit"
    BY <1>8, ControlBases DEF FbInit
  <2>2. CASE a > Len(Addrs)
    <3>1. enabled' = enabled /\ a > 1 /\ pc' = "fbBase"
      BY <1>8, <2>2, AlternatesFacts, TypeParts DEF FbInit, Places
    <3> QED
      BY <1>1, <1>4, <1>5, <2>1, <3>1
  <2>3. CASE a <= Len(Addrs)
    <3>1. Addrs[a] \in Nat
      BY <2>3, AlternatesFacts, TypeParts DEF Places
    <3>2. pc' = "fbRead" /\ b' = b /\ DwI2cInit(bases[b], Addrs[a], TileFresh, TRUE)
      <4>1. PICK ok \in BOOLEAN :
              /\ DwI2cInit(bases[b], Addrs[a], TileFresh, ok)
              /\ IF ok THEN pc' = "fbRead" /\ a' = a ELSE pc' = pc /\ a' = a + 1
        BY <1>8, <2>3, AlternatesFacts, TypeParts DEF FbInit, Places
      <4>2. ok = TRUE
        BY <1>1, <4>1, HealthyInit
      <4> QED
        BY <1>8, <2>3, <4>1, <4>2, AlternatesFacts, TypeParts DEF FbInit, Places
    <3>3. CASE x = bases[b]
      BY <2>1, <3>2, <3>3
    <3>4. CASE x # bases[b]
      <4>1. enabled[x]
        BY <1>1, <2>1, <3>1, <3>2, <3>4, DwI2cInitEffect
      <4>2. ~IsSweep(p) => bases[1] = Profiles[p].base
        BY <2>1, ControlBases, CoveredFacts DEF Prof
      <4>3. UsesDw(p) => ~IsSweep(p)
        BY DEF UsesDw, HasOwn
      <4> QED
        BY <1>4, <1>5, <2>1, <3>2, <3>4, <4>1, <4>2, <4>3 DEF Prof
    <3> QED
      BY <3>3, <3>4
  <2> QED
    BY <2>2, <2>3, AlternatesFacts, TypeParts DEF Places
<1>9. CASE FbRead
  <2>1. /\ p \in DOMAIN Profiles /\ p' = p /\ bases' = bases /\ b \in DOMAIN bases /\ b' = b
        /\ bases[b] \in DwBases /\ b \in 1..5 /\ pc = "fbRead"
    BY <1>9, ControlBases DEF FbRead
  <2>2. ~IsSweep(p) => bases[1] = Profiles[p].base
    BY <2>1, ControlBases, CoveredFacts DEF Prof
  <2>3. UsesDw(p) => ~IsSweep(p)
    BY DEF UsesDw, HasOwn
  <2>4. CASE r > Len(Regs)
    <3>1. enabled[x] /\ x # bases[b] /\ pc' = "fbInit"
      <4>1. enabled \in [DwBases -> BOOLEAN]
        BY TypeParts DEF Flags
      <4>2. DwI2cDisable(bases[b]) /\ pc' = "fbInit"
        BY <1>9, <2>4, AlternatesFacts, TypeParts DEF FbRead, Places
      <4> QED
        BY <1>1, <1>3, <2>1, <4>1, <4>2 DEF DwI2cDisable
    <3> QED
      BY <1>4, <1>5, <2>1, <2>2, <2>3, <3>1 DEF Prof
  <2>5. CASE r <= Len(Regs)
    <3>1. pc' = "fbRead" /\ enabled' = enabled /\ a' = a
      BY <1>1, <1>9, <2>1, <2>5, FoundTypes, BaseFacts, AlternatesFacts, TypeParts
      DEF FbRead, Places
    <3> QED
      BY <1>1, <1>4, <1>5, <2>1, <3>1 DEF Prof
  <2> QED
    BY <2>4, <2>5, AlternatesFacts, TypeParts DEF Places
<1> QED
  BY <1>6, <1>7, <1>8, <1>9 DEF Initialising

-----------------------------------------------------------------------------
(* The timing that a freshly powered controller gets. *)

LEMMA SweepBases ==
  ASSUME TypeOK, ControlOK, pc \in Sweeping
  PROVE  /\ p \in DOMAIN Profiles /\ Prof = Profiles[p] /\ b \in 1..6 /\ Len(bases) \in 1..5
         /\ IsSweep(p) => Len(bases) = 5 /\ \A c \in 1..5 : bases[c] = c
         /\ ~IsSweep(p) => Len(bases) = 1 /\ bases[1] = Prof.base
         /\ Prof.platform = "intel" => ~IsSweep(p) /\ Prof.base = IntelBase
<1>1. /\ p \in DOMAIN Profiles /\ Prof.platform # "mtk" /\ bases = Covered(p)
      /\ b \in 1..Len(bases) + 1
  BY DEF ControlOK, Accepted
<1>2. Len(bases) \in 1..5 /\ Prof = Profiles[p] /\ Profiles[p].platform # "mtk"
  BY <1>1, CoveredFacts DEF Prof
<1>3. b \in 1..6
  BY TypeParts DEF Places
<1>4. IsSweep(p) => Len(bases) = 5 /\ \A c \in 1..5 : bases[c] = c
  BY <1>1, <1>2, CoveredFacts
<1>5. ~IsSweep(p) => Len(bases) = 1 /\ bases[1] = Prof.base
  BY <1>1, <1>2, CoveredFacts
<1>6. Prof.platform = "intel" => ~IsSweep(p) /\ Prof.base = IntelBase
  BY <1>1, <1>2, ProfileFacts
<1> QED
  BY <1>1, <1>2, <1>3, <1>4, <1>5, <1>6

LEMMA FreshStep ==
  ASSUME TypeOK, ControlOK, PowerOK, TargetOK, HealthOK, FreshOK, [Next]_vars
  PROVE  FreshOK'
<1>1. SUFFICES ASSUME healthy, found' = NotFound, NEW x \in DwBases,
                      power'[x] = "d0", timing'[x] = "reset"
               PROVE  Due(x)'
  BY Unmoved DEF FreshOK
<1>2. found = NotFound
  BY <1>1, StillNotFound
<1>3. stuck = {} /\ ~Fault /\ (\A t : ~AoacTimeout(t)) /\ ~ \E t \in DwBases : power[t] = "ramp"
  BY <1>1 DEF HealthOK, Fault, AoacTimeout
<1>4. power[x] = "d0" /\ timing[x] = "reset" => Due(x)
  BY <1>1, <1>2 DEF FreshOK
<1>5. /\ power \in [DwBases -> {"gated", "ramp", "d0"}]
      /\ timing \in [DwBases -> {"firmware", "reset", "ours"}]
      /\ freshTile \in [Tiles -> BOOLEAN]
  BY TypeParts DEF Values, Flags
<1> USE BaseFacts DEF Due, Driving
<1>6. CASE ~Initialising
  <2>1. timing[x] = "reset"
    BY <1>1, <1>6, EnableKept
  <2>2. CASE UNCHANGED power
    <3>1. power[x] = "d0" /\ Due(x)
      BY <1>1, <1>4, <2>1, <2>2
    <3>2. CASE StartAttempt \/ ProfSkip \/ ProfEnd \/ FbEnd
      BY <3>1, <3>2 DEF StartAttempt, ProfSkip, ProfEnd, FbEnd
    <3>3. CASE ProfPower \/ ProfPowerFails \/ ProfRead \/ ProfMtk
      BY <3>1, <3>3 DEF ProfPower, ProfPowerFails, ProfRead, ProfMtk
    <3>4. CASE FbProfile \/ FbLpssFails \/ FbMtk
      BY <3>1, <3>4 DEF FbProfile, FbLpssFails, FbMtk
    <3>5. CASE FbBase
      <4>1. Sweeping \cap {pc} # {}
        BY <3>5 DEF FbBase, Sweeping
      <4>2. /\ IsSweep(p) => Len(bases) = 5 /\ \A c \in 1..5 : bases[c] = c
            /\ ~IsSweep(p) => Len(bases) = 1 /\ bases[1] = Prof.base
            /\ Prof.platform = "intel" => ~IsSweep(p) /\ Prof.base = IntelBase
            /\ b \in 1..6
        BY <4>1, SweepBases
      <4>3. b <= Len(bases) /\ (~Present(bases[b]) => x # bases[b])
        <5>1. \/ IsSweep(p) /\ x \in 1..4 /\ b <= x
              \/ Prof.platform = "intel" /\ x = IntelBase /\ b = 1
          BY <3>1, <3>5 DEF FbBase
        <5>2. b <= Len(bases)
          BY <4>2, <5>1
        <5> QED
          BY <3>1, <5>2 DEF Present
      <4>4. /\ UNCHANGED <<p, bases, freshTile>> /\ a' = 1
            /\ IF Present(bases[b]) THEN pc' = "fbInit" /\ b' = b
                                    ELSE pc' = "fbBase" /\ b' = b + 1
        BY <3>5, <4>2, <4>3 DEF FbBase
      <4> QED
        BY <3>1, <3>5, <4>2, <4>3, <4>4 DEF FbBase, Prof, IsSweep
    <3>6. CASE FbRead
      <4>1. /\ IsSweep(p) => \A c \in 1..5 : bases[c] = c
            /\ b \in 1..6
        BY <3>6, SweepBases DEF FbRead, Sweeping
      <4>2. /\ UNCHANGED <<p, b, bases, freshTile>>
            /\ pc' = "fbInit" \/ pc' = "fbRead"
        BY <3>6, <1>1, FoundTypes, ControlBases DEF FbRead
      <4> QED
        BY <3>1, <3>6, <4>1, <4>2 DEF FbRead, Prof, IsSweep
    <3>7. CASE FbPower
      BY <1>3, <1>5, <3>1, <3>7 DEF FbPower, AoacOk, IsSweep, Prof, ControlOK
    <3>8. CASE Environment \/ UNCHANGED vars
      BY <3>1, <3>8 DEF Environment, vars, loop, Prof, IsSweep
    <3> QED
      BY <1>6, <3>2, <3>3, <3>4, <3>5, <3>6, <3>7, <3>8 DEF Next, Finished, Initialising
  <2>3. CASE ProfPower
    <3>1. power[x] # "d0" /\ pc' = "profInit" /\ p' = p /\ p \in DOMAIN Profiles
      BY <1>4, <2>1, <2>3, ProfileFacts, TypeParts DEF ProfPower, Places
    <3>2. \/ AoacOk(Prof.base, fresh')
          \/ LpssPrepare(fresh') /\ Prof.platform = "intel"
      BY <2>3 DEF ProfPower
    <3>3. Prof = Profiles[p] /\ Prof' = Prof
      BY <3>1 DEF Prof
    <3>4. CASE AoacOk(Prof.base, fresh')
      <4>1. x = Prof.base
        BY <1>1, <1>5, <3>1, <3>4 DEF AoacOk
      <4> QED
        BY <3>1, <3>3, <3>4, <4>1 DEF AoacOk
    <3>5. CASE LpssPrepare(fresh') /\ Prof.platform = "intel"
      <4>1. x = IntelBase /\ Prof.base = IntelBase
        BY <1>1, <1>5, <3>1, <3>3, <3>5, ProfileFacts DEF LpssPrepare
      <4>2. fresh' = (power[IntelBase] # "d0")
        BY <1>1, <1>3, <3>1, <3>5, <4>1 DEF LpssPrepare
      <4> QED
        BY <3>1, <3>3, <4>1, <4>2
    <3> QED
      BY <3>2, <3>4, <3>5
  <2>4. CASE FbProfile
    BY <1>1, <1>3, <1>4, <1>5, <2>1, <2>4, ProfileFacts DEF FbProfile, LpssPrepare, Prof
  <2>5. CASE FbPower
    <3>1. b \in 1..4 /\ IsSweep(p) /\ UNCHANGED <<p, bases>>
      BY <2>5 DEF FbPower, ControlOK
    <3>2. PICK f \in BOOLEAN : AoacOk(b, f) /\ freshTile' = [freshTile EXCEPT ![b] = f]
      BY <1>3, <2>5 DEF FbPower
    <3>3. x \in Tiles /\ x <= b /\ freshTile'[x]
      <4>1. CASE power[x] = "d0"
        <5>1. x \in Tiles /\ x < b /\ freshTile[x]
          BY <1>4, <2>1, <2>5, <4>1 DEF FbPower
        <5> QED
          BY <1>5, <3>1, <3>2, <5>1
      <4>2. CASE power[x] # "d0"
        <5>1. x = b
          BY <1>1, <1>5, <3>2, <4>2 DEF AoacOk
        <5>2. f = TRUE
          BY <3>2, <4>2, <5>1 DEF AoacOk
        <5> QED
          BY <1>5, <3>1, <3>2, <5>1, <5>2
      <4> QED
        BY <4>1, <4>2
    <3> QED
      BY <2>5, <3>1, <3>3 DEF FbPower, IsSweep
  <2>6. CASE ProfPowerFails \/ FbLpssFails
    BY <2>2, <2>6, <1>3 DEF ProfPowerFails, FbLpssFails, LpssFails
  <2>7. CASE Environment
    BY <2>2, <2>7, <1>3, BaseFacts
    DEF Environment, TileReachesD0, PanelWakes, FirmwarePublishes, ControllerSticks,
        ControllerFrees
  <2>8. CASE StartAttempt \/ ProfSkip \/ ProfEnd \/ FbEnd \/ FbBase \/ UNCHANGED vars
    BY <2>2, <2>8 DEF StartAttempt, ProfSkip, ProfEnd, FbEnd, FbBase, hard, vars
  <2>9. CASE ProfRead \/ ProfMtk \/ FbRead \/ FbMtk
    BY <2>2, <2>9 DEF ProfRead, ProfMtk, FbRead, FbMtk
  <2> QED
    BY <1>6, <2>3, <2>4, <2>5, <2>6, <2>7, <2>8, <2>9 DEF Next, Finished, Initialising
<1>7. CASE ProfInit
  <2>1. power[x] = "d0" /\ Prof.base \in DwBases /\ Prof.addr \in Nat /\ pc = "profInit"
    BY <1>1, <1>7, ProbeBases DEF ProfInit, Probing
  <2>2. timing[x] = "reset" => x = Prof.base /\ fresh
    BY <1>4, <2>1
  <2>3. CASE Present(Prof.base)
    <3>1. \E ok \in BOOLEAN : DwI2cInit(Prof.base, Prof.addr, fresh, ok)
      BY <1>7, <2>3 DEF ProfInit
    <3>2. DwInitWrites(Prof.base, Prof.addr, fresh)
      BY <1>1, <3>1, HealthyInit
    <3> QED
      BY <1>1, <1>5, <2>1, <2>2, <3>2 DEF DwInitWrites
  <2>4. CASE ~Present(Prof.base)
    BY <1>1, <1>7, <2>1, <2>2, <2>4 DEF ProfInit, Present
  <2> QED
    BY <2>3, <2>4
<1>8. CASE FbInit
  <2>1. /\ power[x] = "d0" /\ bases[b] \in DwBases /\ pc = "fbInit" /\ b \in 1..5
        /\ UNCHANGED <<p, bases, freshTile>>
    BY <1>1, <1>8, ControlBases DEF FbInit
  <2>2. /\ IsSweep(p) => \A c \in 1..5 : bases[c] = c
        /\ ~IsSweep(p) => Len(bases) = 1 /\ bases[1] = Prof.base
        /\ Prof.platform = "intel" => ~IsSweep(p) /\ Prof.base = IntelBase
    BY <1>8, SweepBases DEF FbInit, Sweeping
  <2>3. CASE a > Len(Addrs)
    <3>1. timing' = timing /\ a > 1 /\ pc' = "fbBase" /\ b' = b + 1
      BY <1>8, <2>3, AlternatesFacts, TypeParts DEF FbInit, Places
    <3>2. Due(x)
      BY <1>1, <1>4, <2>1, <3>1
    <3> QED
      BY <2>1, <2>2, <3>1, <3>2 DEF Prof, IsSweep
  <2>4. CASE a <= Len(Addrs)
    <3>1. Addrs[a] \in Nat
      BY <2>4, AlternatesFacts, TypeParts DEF Places
    <3>2. pc' = "fbRead" /\ b' = b /\ DwInitWrites(bases[b], Addrs[a], TileFresh)
      <4>1. PICK ok \in BOOLEAN :
              /\ DwI2cInit(bases[b], Addrs[a], TileFresh, ok)
              /\ IF ok THEN pc' = "fbRead" /\ a' = a ELSE pc' = pc /\ a' = a + 1
        BY <1>8, <2>4, AlternatesFacts, TypeParts DEF FbInit, Places
      <4>2. ok = TRUE /\ DwInitWrites(bases[b], Addrs[a], TileFresh)
        BY <1>1, <4>1, HealthyInit
      <4> QED
        BY <1>8, <2>4, <4>1, <4>2, AlternatesFacts, TypeParts DEF FbInit, Places
    <3>3. CASE x = bases[b]
      <4>1. timing[x] = "reset" /\ ~TileFresh
        BY <1>1, <1>5, <2>1, <3>2, <3>3 DEF DwInitWrites
      <4>2. Due(x)
        BY <1>4, <2>1, <4>1
      <4> QED
        BY <2>1, <2>2, <3>3, <4>1, <4>2 DEF TileFresh
    <3>4. CASE x # bases[b]
      <4>1. timing[x] = "reset"
        BY <1>1, <1>5, <2>1, <3>2, <3>4 DEF DwInitWrites
      <4>2. Due(x)
        BY <1>4, <2>1, <4>1
      <4> QED
        BY <2>1, <2>2, <3>2, <3>4, <4>2, ControlBases DEF IsSweep, Driving
    <3> QED
      BY <3>3, <3>4
  <2> QED
    BY <2>3, <2>4, AlternatesFacts, TypeParts DEF Places
<1> QED
  BY <1>6, <1>7, <1>8 DEF Initialising

LEMMA TimingStep ==
  ASSUME TypeOK, ControlOK, PowerOK, TargetOK, FreshOK, PromptTimingProgrammed, [Next]_vars
  PROVE  PromptTimingProgrammed'
<1> USE DEF PromptTimingProgrammed, FreshTimingProgrammed
<1>1. SUFFICES ASSUME healthy, found' # NotFound, found'.base \in DwBases
               PROVE  timing'[found'.base] # "reset"
  BY Unmoved
<1>2. CASE found' # found
  <2>1. /\ found = NotFound /\ timing' = timing
        /\ \/ pc = "profRead" /\ found'.base = Prof.base
           \/ pc = "fbRead" /\ found'.base = bases[b]
    BY <1>1, <1>2, FoundStep, BaseFacts
  <2>2. power[found'.base] = "d0"
    BY <2>1 DEF PowerOK, Driving
  <2>3. ~Due(found'.base)
    <3>1. CASE pc = "profRead"
      BY <3>1 DEF Due
    <3>2. CASE pc = "fbRead"
      BY <2>1, <3>2, ControlBases, SweepBases DEF Due, Driving, Sweeping
    <3> QED
      BY <2>1, <3>1, <3>2
  <2> QED
    BY <1>1, <2>1, <2>2, <2>3 DEF FreshOK
<1>3. CASE found' = found
  <2>1. pc = "idle"
    BY <1>1, <1>3 DEF ControlOK
  <2>2. ~Initialising
    BY <2>1 DEF Initialising, ProfInit, FbInit
  <2> QED
    BY <1>1, <1>3, <2>2, EnableKept
<1> QED
  BY <1>2, <1>3

-----------------------------------------------------------------------------
(* Looking for a panel that answers. *)

LEMMA AwakeStep ==
  ASSUME AwakeOK, [Next]_vars
  PROVE  AwakeOK'
<1>1. CASE StartAttempt
  BY <1>1, Unmoved DEF StartAttempt, hard, world, AwakeOK
<1>2. CASE knew' => knew
  BY <1>2, Unmoved DEF AwakeOK
<1>3. CASE ProfSkip \/ ProfPower \/ ProfPowerFails \/ ProfInit \/ ProfRead \/ ProfMtk \/ ProfEnd
  BY <1>2, <1>3 DEF ProfSkip, ProfPower, ProfPowerFails, ProfInit, ProfRead, ProfMtk, ProfEnd,
     TouchResetKick, Drive, history
<1>4. CASE FbProfile \/ FbLpssFails \/ FbPower \/ FbBase \/ FbInit \/ FbRead \/ FbMtk \/ FbEnd
  BY <1>2, <1>4 DEF FbProfile, FbLpssFails, FbPower, FbBase, FbInit, FbRead, FbMtk, FbEnd,
     history
<1>5. CASE Environment \/ UNCHANGED vars
  BY <1>2, <1>5 DEF Environment, vars, history
<1> QED
  BY <1>1, <1>3, <1>4, <1>5 DEF Next, Finished

(* A later state of the same attempt, or of the idle time after it. *)
LEMMA StillSearching ==
  ASSUME TypeOK, ControlOK, TargetOK, AwakeOK, HealthOK, [Next]_vars, Searching', ~StartAttempt
  PROVE  /\ Searching /\ awake /\ ~Fault /\ faults = 0 /\ slow = FALSE /\ stuck = {}
         /\ \A t : ~AoacTimeout(t)
         /\ ~LpssIsOurs => panel.base # IntelBase
<1>1. healthy /\ found = NotFound
  <2>1. healthy' /\ found' = NotFound
    BY Zenon DEF Searching, NotFound
  <2>2. found = NotFound
    BY <2>1, StillNotFound
  <2> QED
    BY <2>1, <2>2, Unmoved, Zenon
<1>2. knew' => knew
  <2>1. CASE ProfSkip \/ ProfPower \/ ProfPowerFails \/ ProfInit \/ ProfRead \/ ProfMtk \/ ProfEnd
    BY <2>1 DEF ProfSkip, ProfPower, ProfPowerFails, ProfInit, ProfRead, ProfMtk, ProfEnd,
       TouchResetKick, Drive, history
  <2>2. CASE FbProfile \/ FbLpssFails \/ FbPower \/ FbBase \/ FbInit \/ FbRead \/ FbMtk \/ FbEnd
    BY <2>2 DEF FbProfile, FbLpssFails, FbPower, FbBase, FbInit, FbRead, FbMtk, FbEnd, history
  <2>3. CASE Environment \/ UNCHANGED vars
    BY <2>3 DEF Environment, vars, history
  <2> QED
    BY <2>1, <2>2, <2>3 DEF Next, Finished
<1>3. knew
  BY <1>2 DEF Searching
<1>4. slow = FALSE /\ faults = 0 /\ stuck = {}
  BY <1>1 DEF HealthOK
<1> QED
  BY <1>1, <1>3, <1>4 DEF Searching, AwakeOK, Fault, AoacTimeout, LpssIsOurs

(* A read that fails on healthy hardware: the panel is not there. *)
LEMMA ReadMisses ==
  ASSUME NEW x, NEW ad, NEW rg, NEW s \in Statuses, s # "SUCCESS", ReadDescriptor(x, rg, s),
         awake, ~Fault, kind = "dw", enabled[x], tar[x] = ad
  PROVE  ~At(x, ad, rg)
<1>1. SUFFICES ASSUME At(x, ad, rg)
               PROVE  FALSE
  OBVIOUS
<1>2. panel.base = x /\ panel.addr = ad /\ panel.reg = rg
  BY <1>1 DEF At
<1>3. Answers(x, rg) /\ Acks(x)
  BY <1>2 DEF Answers, Acks
<1> QED
  BY <1>3 DEF ReadDescriptor, Statuses

LEMMA ProbeMisses ==
  ASSUME NEW ad, NEW rg, MtkProbe(ad, rg, FALSE), awake, ~Fault
  PROVE  ~At(MtkBase, ad, rg)
BY DEF MtkProbe, At

(* Off the Intel function, no panel is on its controller. *)
LEMMA IntelMisses ==
  ASSUME panel.base # IntelBase
  PROVE  /\ \A i : panel = Own(i) => Profiles[i].base # IntelBase
         /\ ~MissedAt(IntelBase)
BY DEF Own, MissedAt, At

LEMMA TriedKept ==
  ASSUME TypeOK, [Next]_vars, NEW i \in DOMAIN Profiles, Tried(i)
  PROVE  Tried(i)'
<1>1. HasOwn(i)' <=> HasOwn(i)
  BY SameProfiles
<1>2. Own(i)' = Own(i) /\ panel' = panel
  BY Unmoved DEF Own
<1>3. HasOwn(i) /\ Profiles[i].platform = "amd" => Profiles[i].base \in DwBases
  BY ProfileFacts, BaseFacts DEF HasOwn
<1> QED
  BY <1>1, <1>2, <1>3, PowerKept DEF Tried

LEMMA TriedStep ==
  ASSUME TypeOK, ControlOK, PowerOK, TargetOK, HealthOK, AwakeOK, TriedOK, [Next]_vars
  PROVE  TriedOK'
<1>1. SUFFICES ASSUME Searching'
               PROVE  /\ pc' \in {"profile"} \cup Probing => \A i \in 1..(p' - 1) : Tried(i)'
                      /\ pc' = "profInit" => power'[Prof'.base] = "d0"
                      /\ pc' \in {"idle"} \cup InFallback => \A i \in DOMAIN Profiles : Tried(i)'
  BY DEF TriedOK, Probing, InFallback, Sweeping, Driving
<1>2. /\ p \in 1..Len(Profiles) + 1 /\ Len(Profiles) \in Nat /\ DOMAIN Profiles = 1..Len(Profiles)
      /\ power \in [DwBases -> {"gated", "ramp", "d0"}]
  BY TypeParts, ProfileFacts DEF Places, Values
<1>3. \A i \in DOMAIN Profiles : Tried(i) => Tried(i)'
  BY TriedKept
<1> USE DEF Probing, InFallback, Sweeping, Driving
<1>4. CASE StartAttempt
  BY <1>4 DEF StartAttempt
<1>5. CASE ~StartAttempt
  <2>1. /\ Searching /\ awake /\ ~Fault /\ \A t : ~AoacTimeout(t)
        /\ ~LpssIsOurs => panel.base # IntelBase
    BY <1>1, <1>5, StillSearching
  <2>2. CASE ProfSkip
    <3>1. /\ \A i \in 1..(p - 1) : Tried(i)
          /\ p' = p + 1 /\ pc' = "profile" /\ p \in DOMAIN Profiles
      BY <1>2, <2>1, <2>2 DEF ProfSkip, NextProfile, TriedOK
    <3>2. Tried(p)
      BY <2>2 DEF ProfSkip, Tried, HasOwn, Accepted
    <3> QED
      BY <1>2, <1>3, <3>1, <3>2
  <2>3. CASE ProfPower
    <3>1. /\ \A i \in 1..(p - 1) : Tried(i)
          /\ p' = p /\ pc' = "profInit" /\ p \in DOMAIN Profiles /\ Prof = Profiles[p]
      BY <1>2, <2>1, <2>3 DEF ProfPower, TriedOK, Prof
    <3>2. power'[Prof.base] = "d0"
      <4>1. CASE Prof.platform = "amd" /\ AoacOk(Prof.base, fresh')
        BY <1>2, <2>3, <3>1, <4>1, ProfileFacts, BaseFacts DEF ProfPower, AoacOk
      <4>2. CASE Prof.platform = "intel" /\ LpssPrepare(fresh')
        BY <1>2, <2>1, <3>1, <4>2, ProfileFacts, BaseFacts DEF LpssPrepare
      <4> QED
        BY <2>3, <4>1, <4>2 DEF ProfPower
    <3> QED
      BY <1>2, <1>3, <3>1, <3>2 DEF Prof
  <2>4. CASE ProfPowerFails
    <3>1. /\ \A i \in 1..(p - 1) : Tried(i)
          /\ p' = p + 1 /\ pc' = "profile" /\ p \in DOMAIN Profiles /\ Prof = Profiles[p]
      BY <1>2, <2>1, <2>4 DEF ProfPowerFails, NextProfile, TriedOK, Prof
    <3>2. Prof.platform = "intel" /\ ~LpssIsOurs
      BY <2>1, <2>4 DEF ProfPowerFails, LpssFails
    <3>3. Tried(p)
      BY <2>1, <3>1, <3>2, ProfileFacts, IntelMisses DEF Tried
    <3> QED
      BY <1>2, <1>3, <3>1, <3>3
  <2>5. CASE ProfInit
    <3>1. /\ \A i \in 1..(p - 1) : Tried(i)
          /\ p \in DOMAIN Profiles /\ Present(Prof.base)
      BY <1>2, <2>1, <2>5, ProbeBases DEF ProfInit, TriedOK, Present
    <3>2. pc' = "profRead" /\ p' = p
      BY <2>1, <2>5, <3>1, HealthyInit DEF ProfInit, Searching
    <3> QED
      BY <1>2, <1>3, <3>1, <3>2
  <2>6. CASE ProfRead
    <3>1. /\ \A i \in 1..(p - 1) : Tried(i)
          /\ p \in DOMAIN Profiles /\ Prof = Profiles[p]
      BY <1>2, <2>1, <2>6, ProbeBases DEF ProfRead, TriedOK
    <3>2. PICK s \in Statuses :
            /\ ReadDescriptor(Prof.base, Prof.reg, s)
            /\ IF s = "SUCCESS" THEN Found(Prof.base, Prof.addr) /\ UNCHANGED p
               ELSE NextProfile("profile") /\ UNCHANGED found
      BY <2>6 DEF ProfRead
    <3>3. s # "SUCCESS"
      BY <1>1, <2>6, <3>2, ProbeBases, FoundTypes DEF Searching, ProfRead
    <3>4. p' = p + 1 /\ pc' = "profile"
      BY <3>2, <3>3 DEF NextProfile
    <3>5. ~At(Prof.base, Prof.addr, Prof.reg)
      BY <2>1, <2>6, <3>2, <3>3, ReadMisses DEF ProfRead, TargetOK, ControlOK
    <3>6. Tried(p)
      BY <2>6, <3>1, <3>5 DEF Tried, At, Own, ProfRead, PowerOK
    <3> QED
      BY <1>2, <1>3, <3>1, <3>4, <3>6
  <2>7. CASE ProfMtk
    <3>1. /\ \A i \in 1..(p - 1) : Tried(i)
          /\ p \in DOMAIN Profiles /\ Prof = Profiles[p] /\ Prof.platform = "mtk"
      BY <1>2, <2>1, <2>7 DEF ProfMtk, TriedOK, Prof
    <3>2. PICK ok \in BOOLEAN :
            /\ MtkProbe(Prof.addr, Prof.reg, ok)
            /\ IF ok THEN Found(MtkBase, Prof.addr) /\ UNCHANGED p
                     ELSE NextProfile("profile") /\ UNCHANGED found
      BY <2>7 DEF ProfMtk
    <3>3. ok = FALSE
      BY <1>1, <3>2, BaseFacts, FoundTypes DEF Searching
    <3>4. p' = p + 1 /\ pc' = "profile"
      BY <3>2, <3>3 DEF NextProfile
    <3>5. ~At(MtkBase, Prof.addr, Prof.reg)
      BY <2>1, <3>2, <3>3, ProbeMisses
    <3>6. Tried(p)
      BY <3>1, <3>5, ProfileFacts DEF Tried, At, Own
    <3> QED
      BY <1>2, <1>3, <3>1, <3>4, <3>6
  <2>8. CASE ProfEnd
    <3>1. \A i \in 1..(p - 1) : Tried(i)
      BY <2>1, <2>8 DEF ProfEnd, TriedOK
    <3>2. \A i \in DOMAIN Profiles : Tried(i)
      BY <1>2, <2>8, <3>1 DEF ProfEnd
    <3> QED
      BY <1>3, <2>8, <3>2 DEF ProfEnd
  <2>9. CASE pc \in {"idle"} \cup InFallback /\ pc' \in {"idle"} \cup InFallback
    <3>1. \A i \in DOMAIN Profiles : Tried(i)
      BY <2>1, <2>9 DEF TriedOK
    <3> QED
      BY <1>3, <2>9, <3>1
  <2>10. CASE FbProfile \/ FbLpssFails \/ FbPower \/ FbBase \/ FbEnd
    BY <2>9, <2>10 DEF FbProfile, FbLpssFails, FbPower, FbBase, FbEnd, NextProfile
  <2>11. CASE FbInit \/ FbRead \/ FbMtk
    BY <2>9, <2>11 DEF FbInit, FbRead, FbMtk, FbMtkAdvance, NextProfile, Found
  <2>12. CASE Environment \/ UNCHANGED vars
    <3>1. UNCHANGED <<pc, p>>
      BY <2>12 DEF Environment, vars, loop
    <3>2. pc = "profInit" => power[Prof.base] = "d0" /\ Prof.base \in DwBases
      BY <2>1, ProbeBases DEF TriedOK
    <3> QED
      BY <1>2, <1>3, <2>1, <3>1, <3>2, PowerKept DEF TriedOK, Prof
  <2> QED
    BY <1>5, <2>2, <2>3, <2>4, <2>5, <2>6, <2>7, <2>8, <2>10, <2>11, <2>12 DEF Next, Finished
<1> QED
  BY <1>4, <1>5

LEMMA ReadyStep ==
  ASSUME TypeOK, ControlOK, TargetOK, HealthOK, AwakeOK, TriedOK, ReadyOK, [Next]_vars
  PROVE  ReadyOK'
<1>1. SUFFICES ASSUME Searching', ~StartAttempt
               PROVE  /\ pc' = "fbPower" => \A t \in 1..(b' - 1) : power'[t] = "d0"
                      /\ pc' \in Sweeping => IF IsSweep(p') THEN \A t \in Tiles : power'[t] = "d0"
                                             ELSE power'[bases'[1]] = "d0"
  BY DEF ReadyOK, StartAttempt, Sweeping, Driving, IsSweep
<1>2. /\ Searching /\ ~Fault /\ \A t : ~AoacTimeout(t)
  BY <1>1, StillSearching
<1>3. power \in [DwBases -> {"gated", "ramp", "d0"}]
  BY TypeParts DEF Values
<1>4. \A x \in DwBases : power[x] = "d0" => power'[x] = "d0"
  BY PowerKept
<1> USE BaseFacts DEF Sweeping, Driving
<1>5. CASE pc \in Sweeping /\ UNCHANGED <<p, bases>> /\ pc' # "fbPower"
  <2>1. IF IsSweep(p) THEN \A t \in Tiles : power[t] = "d0"
                      ELSE power[bases[1]] = "d0" /\ bases[1] \in DwBases
    BY <1>2, <1>5, CoveredFacts DEF ReadyOK, ControlOK, Accepted, Prof
  <2> QED
    BY <1>4, <1>5, <2>1
<1>6. CASE FbProfile
  <2>1. p \in DOMAIN Profiles /\ Tried(p) /\ Prof = Profiles[p]
    BY <1>2, <1>6, ProfileFacts, TypeParts DEF FbProfile, TriedOK, InFallback, Places, Prof
  <2>2. CASE pc' = "fbPower"
    BY <1>6, <2>2 DEF FbProfile
  <2>3. CASE pc' = "fbBase"
    <3>1. Matches(p) /\ p' = p /\ Prof.platform # "mtk"
      BY <1>6, <2>3 DEF FbProfile, NextProfile
    <3>2. CASE Prof.platform = "intel"
      <4>1. bases' = <<IntelBase>> /\ power'[IntelBase] = "d0" /\ ~IsSweep(p)
        BY <1>2, <1>3, <1>6, <2>1, <3>1, <3>2, ProfileFacts DEF FbProfile, LpssPrepare
      <4> QED
        BY <2>3, <3>1, <4>1
    <3>3. CASE Prof.platform # "intel"
      <4>1. ~IsSweep(p) /\ bases' = <<Prof.base>>
        BY <1>6, <2>3, <3>1, <3>3 DEF FbProfile
      <4>2. power[Prof.base] = "d0" /\ Prof.base \in DwBases
        BY <2>1, <3>1, <3>3, <4>1, ProfileFacts DEF Tried, HasOwn, Accepted
      <4> QED
        BY <1>4, <2>3, <3>1, <4>1, <4>2
    <3> QED
      BY <3>2, <3>3
  <2> QED
    BY <1>6, <2>2, <2>3 DEF FbProfile, NextProfile
<1>7. CASE FbPower
  <2>1. b \in 1..4 /\ IsSweep(p) /\ UNCHANGED <<p, bases>> /\ pc = "fbPower"
    BY <1>7 DEF FbPower, ControlOK
  <2>2. \A t \in 1..(b - 1) : power[t] = "d0"
    BY <1>2, <2>1 DEF ReadyOK
  <2>3. PICK f \in BOOLEAN : AoacOk(b, f)
    BY <1>2, <1>7 DEF FbPower
  <2>4. power'[b] = "d0"
    BY <1>3, <2>1, <2>3 DEF AoacOk
  <2>5. CASE b < 4
    BY <1>4, <1>7, <2>1, <2>2, <2>4, <2>5 DEF FbPower
  <2>6. CASE b = 4
    BY <1>4, <1>7, <2>1, <2>2, <2>4, <2>6 DEF FbPower
  <2> QED
    BY <2>1, <2>5, <2>6
<1>8. CASE FbBase \/ FbInit \/ FbRead
  BY <1>5, <1>8 DEF FbBase, FbInit, FbRead, NextProfile, Found
<1>9. CASE ProfSkip \/ ProfPower \/ ProfPowerFails \/ ProfInit
  BY <1>9 DEF ProfSkip, ProfPower, ProfPowerFails, ProfInit, NextProfile
<1>10. CASE ProfRead \/ ProfMtk \/ ProfEnd
  BY <1>10 DEF ProfRead, ProfMtk, ProfEnd, NextProfile, Found
<1>11. CASE FbLpssFails \/ FbMtk \/ FbEnd
  BY <1>11 DEF FbLpssFails, FbMtk, FbEnd, FbMtkAdvance, NextProfile, Found
<1>12. CASE Environment \/ UNCHANGED vars
  <2>1. UNCHANGED <<pc, p, b, bases>>
    BY <1>12 DEF Environment, vars, loop
  <2>2. CASE pc = "fbPower"
    <3>1. b \in 1..4 /\ \A t \in 1..(b - 1) : power[t] = "d0"
      BY <1>2, <2>2 DEF ReadyOK, ControlOK
    <3> QED
      BY <1>4, <2>1, <2>2, <3>1
  <2> QED
    BY <1>5, <2>1, <2>2
<1> QED
  BY <1>1, <1>6, <1>7, <1>8, <1>9, <1>10, <1>11, <1>12 DEF Next, Finished

(* While controllers are swept on healthy hardware, no power changes. *)
LEMMA PowerStable ==
  ASSUME TypeOK, HealthOK, healthy, pc \in Sweeping \cup {"fbMtk"}, [Next]_vars
  PROVE  power' = power
<1> USE DEF Sweeping, Driving
<1>1. CASE FbBase \/ FbInit \/ FbRead \/ FbMtk \/ UNCHANGED vars
  BY <1>1 DEF FbBase, FbInit, FbRead, FbMtk, hard, vars
<1>2. CASE Environment
  BY <1>2, BaseFacts DEF Environment, HealthOK, TileReachesD0, PanelWakes, FirmwarePublishes,
     ControllerSticks, ControllerFrees
<1>3. CASE StartAttempt \/ ProfSkip \/ ProfPower \/ ProfPowerFails \/ ProfInit \/ ProfRead
  BY <1>3 DEF StartAttempt, ProfSkip, ProfPower, ProfPowerFails, ProfInit, ProfRead
<1>4. CASE ProfMtk \/ ProfEnd \/ FbProfile \/ FbLpssFails \/ FbPower \/ FbEnd
  BY <1>4 DEF ProfMtk, ProfEnd, FbProfile, FbLpssFails, FbPower, FbEnd
<1> QED
  BY <1>1, <1>2, <1>3, <1>4 DEF Next, Finished

LEMMA SamePlace ==
  ASSUME [Next]_vars
  PROVE  /\ \A x, ad, rg : At(x, ad, rg)' <=> At(x, ad, rg)
         /\ \A x : MissedAt(x)' <=> MissedAt(x)
BY Unmoved DEF At, MissedAt

(* One place on the MediaTek controller, its own or probed in vain. *)
LEMMA FbMtkMisses ==
  ASSUME TypeOK, ControlOK, TargetOK, HealthOK, AwakeOK, TriedOK, [Next]_vars,
         FbMtk, Searching', ~StartAttempt
  PROVE  FbMtkAdvance /\ ~At(MtkBase, Addrs[a], Regs[r])
<1>1. Searching /\ awake /\ ~Fault
  BY StillSearching
<1>2. /\ p \in DOMAIN Profiles /\ Prof = Profiles[p] /\ Prof.platform = "mtk" /\ pc = "fbMtk"
      /\ p \in Accepted
  BY TypeParts DEF FbMtk, Places, ControlOK, Accepted, Prof
<1>3. CASE Addrs[a] = Prof.addr /\ Regs[r] = Prof.reg
  <2>1. Tried(p) /\ HasOwn(p) /\ Prof.base = MtkBase
    BY <1>1, <1>2, ProfileFacts DEF TriedOK, InFallback, HasOwn
  <2> QED
    BY <1>2, <1>3, <2>1 DEF FbMtk, Tried, Own, At
<1>4. CASE ~(Addrs[a] = Prof.addr /\ Regs[r] = Prof.reg)
  <2>1. PICK ok \in BOOLEAN :
          /\ MtkProbe(Addrs[a], Regs[r], ok)
          /\ IF ok THEN Found(MtkBase, Addrs[a]) /\ UNCHANGED <<p, a, r>>
             ELSE FbMtkAdvance /\ UNCHANGED found
    BY <1>4 DEF FbMtk
  <2>2. ok = FALSE
    BY <2>1, BaseFacts, FoundTypes DEF Searching
  <2> QED
    BY <1>1, <2>1, <2>2, ProbeMisses
<1> QED
  BY <1>3, <1>4

LEMMA LookedStep ==
  ASSUME TypeOK, ControlOK, TargetOK, HealthOK, AwakeOK, TriedOK, LookedOK, [Next]_vars
  PROVE  LookedOK'
<1>1. SUFFICES ASSUME Searching', ~StartAttempt
               PROVE  /\ pc' \in Sweeping =>
                           \A c \in 1..(b' - 1) : power'[bases'[c]] = "d0" => ~MissedAt(bases'[c])
                      /\ pc' \in Driving =>
                           \A n \in 1..(a' - 1), m \in DOMAIN Regs : ~At(bases'[b'], Addrs[n], Regs[m])
                      /\ pc' = "fbRead" => \A m \in 1..(r' - 1) : ~At(bases'[b'], Addrs[a'], Regs[m])
                      /\ pc' = "fbMtk" =>
                           /\ \A n \in 1..(a' - 1), m \in DOMAIN Regs : ~At(MtkBase, Addrs[n], Regs[m])
                           /\ \A m \in 1..(r' - 1) : ~At(MtkBase, Addrs[a'], Regs[m])
  BY SamePlace DEF LookedOK, StartAttempt, Sweeping, Driving
<1>2. /\ Searching /\ healthy /\ awake /\ ~Fault
  BY <1>1, StillSearching DEF Searching
<1>3. /\ b \in 1..6 /\ a \in 1..Len(Addrs) + 1 /\ r \in 1..Len(Regs) + 1
      /\ Len(Addrs) \in Nat \ {0} /\ DOMAIN Addrs = 1..Len(Addrs)
      /\ Len(Regs) \in Nat \ {0} /\ DOMAIN Regs = 1..Len(Regs)
  BY TypeParts, AlternatesFacts DEF Places
<1>4. pc \in Sweeping \cup {"fbMtk"} => power' = power
  BY <1>2, PowerStable
<1>5. pc \in Sweeping =>
        \A c \in 1..(b - 1) : power[bases[c]] = "d0" => ~MissedAt(bases[c])
  BY <1>2 DEF LookedOK
<1>6. pc \in Driving =>
        \A n \in 1..(a - 1), m \in DOMAIN Regs : ~At(bases[b], Addrs[n], Regs[m])
  BY <1>2 DEF LookedOK
<1>7. pc = "fbRead" => \A m \in 1..(r - 1) : ~At(bases[b], Addrs[a], Regs[m])
  BY <1>2 DEF LookedOK
<1>8. pc = "fbMtk" =>
        /\ \A n \in 1..(a - 1), m \in DOMAIN Regs : ~At(MtkBase, Addrs[n], Regs[m])
        /\ \A m \in 1..(r - 1) : ~At(MtkBase, Addrs[a], Regs[m])
  BY <1>2 DEF LookedOK
<1> USE DEF Sweeping, Driving
<1>9. CASE FbProfile \/ FbPower
  BY <1>9 DEF FbProfile, FbPower, NextProfile
<1>10. CASE FbBase
  <2>1. CASE b > Len(bases)
    <3>1. Len(bases) \in Nat
      BY <1>10, SweepBases DEF FbBase
    <3> QED
      BY <1>3, <1>10, <2>1, <3>1 DEF FbBase, NextProfile
  <2>2. CASE b <= Len(bases) /\ ~Present(bases[b])
    <3>1. b' = b + 1 /\ UNCHANGED <<pc, bases>> /\ pc = "fbBase"
      BY <1>10, <2>2, ControlOK, SweepBases DEF FbBase
    <3> QED
      BY <1>3, <1>4, <1>5, <2>2, <3>1 DEF Present
  <2>3. CASE b <= Len(bases) /\ Present(bases[b])
    <3>1. b' = b /\ a' = 1 /\ bases' = bases /\ pc' = "fbInit" /\ pc = "fbBase"
      BY <1>10, <2>3, SweepBases DEF FbBase
    <3> QED
      BY <1>3, <1>4, <1>5, <3>1
  <2> QED
    BY <1>3, <1>10, <2>1, <2>2, <2>3, SweepBases, SMTT(60) DEF FbBase
<1>11. CASE FbInit
  <2>1. CASE a > Len(Addrs)
    <3>1. b' = b + 1 /\ bases' = bases /\ pc' = "fbBase" /\ pc = "fbInit" /\ a = Len(Addrs) + 1
      BY <1>3, <1>11, <2>1 DEF FbInit
    <3>2. ~MissedAt(bases[b])
      BY <1>3, <1>6, <3>1 DEF MissedAt
    <3> QED
      BY <1>3, <1>4, <1>5, <3>1, <3>2
  <2>2. CASE a <= Len(Addrs)
    <3>1. UNCHANGED <<a, b, bases>> /\ r' = 1 /\ pc' = "fbRead" /\ pc = "fbInit"
      BY <1>2, <1>3, <1>11, <2>2, HealthyInit DEF FbInit
    <3> QED
      BY <1>3, <1>4, <1>5, <1>6, <3>1
  <2> QED
    BY <1>3, <2>1, <2>2
<1>12. CASE FbRead
  <2>1. CASE r > Len(Regs)
    <3>1. UNCHANGED <<b, bases>> /\ a' = a + 1 /\ pc' = "fbInit" /\ pc = "fbRead" /\ r = Len(Regs) + 1
      BY <1>3, <1>12, <2>1 DEF FbRead
    <3> QED
      BY <1>3, <1>4, <1>5, <1>6, <1>7, <3>1
  <2>2. CASE r <= Len(Regs)
    <3>1. PICK s \in Statuses :
            /\ ReadDescriptor(bases[b], Regs[r], s)
            /\ IF s = "SUCCESS" THEN Found(bases[b], Addrs[a]) /\ r' = r
               ELSE pc' = pc /\ r' = r + 1 /\ UNCHANGED found
      BY <1>3, <1>12, <2>2 DEF FbRead
    <3>2. s # "SUCCESS"
      BY <1>1, <1>12, <3>1, ControlBases, BaseFacts, FoundTypes DEF Searching, FbRead
    <3>3. UNCHANGED <<a, b, bases>> /\ r' = r + 1 /\ pc' = "fbRead" /\ pc = "fbRead"
      BY <1>3, <1>12, <2>2, <3>1, <3>2 DEF FbRead
    <3>4. ~At(bases[b], Addrs[a], Regs[r])
      BY <1>2, <3>1, <3>2, <3>3, ReadMisses DEF TargetOK, ControlOK
    <3> QED
      BY <1>3, <1>4, <1>5, <1>6, <1>7, <3>3, <3>4
  <2> QED
    BY <1>3, <2>1, <2>2
<1>13. CASE FbMtk
  <2>1. /\ p \in DOMAIN Profiles /\ Prof = Profiles[p] /\ Prof.platform = "mtk" /\ pc = "fbMtk"
        /\ a \in DOMAIN Addrs /\ r \in DOMAIN Regs /\ p \in Accepted
    BY <1>13, TypeParts DEF FbMtk, Places, ControlOK, Accepted, Prof
  <2>2. FbMtkAdvance /\ ~At(MtkBase, Addrs[a], Regs[r])
    BY <1>1, <1>13, FbMtkMisses
  <2>3. CASE r < Len(Regs)
    <3>1. r' = r + 1 /\ UNCHANGED <<pc, a>>
      BY <2>2, <2>3 DEF FbMtkAdvance
    <3> QED
      BY <1>3, <1>8, <2>1, <2>2, <3>1
  <2>4. CASE r = Len(Regs) /\ a < Len(Addrs)
    <3>1. r' = 1 /\ a' = a + 1 /\ pc' = pc
      BY <2>2, <2>4 DEF FbMtkAdvance
    <3> QED
      BY <1>3, <1>8, <2>1, <2>2, <2>4, <3>1
  <2>5. CASE r = Len(Regs) /\ a = Len(Addrs)
    <3>1. pc' = "fallback"
      BY <1>3, <2>2, <2>5 DEF FbMtkAdvance, NextProfile
    <3> QED
      BY <3>1
  <2> QED
    BY <1>3, <2>1, <2>3, <2>4, <2>5
<1>14. CASE ProfSkip \/ ProfPower \/ ProfPowerFails \/ ProfInit
  BY <1>14 DEF ProfSkip, ProfPower, ProfPowerFails, ProfInit, NextProfile
<1>15. CASE ProfRead \/ ProfMtk \/ ProfEnd
  BY <1>15 DEF ProfRead, ProfMtk, ProfEnd, NextProfile, Found
<1>16. CASE FbLpssFails \/ FbEnd
  BY <1>16 DEF FbLpssFails, FbEnd, NextProfile
<1>17. CASE Environment \/ UNCHANGED vars
  <2>1. UNCHANGED <<pc, p, b, a, r, bases>>
    BY <1>17 DEF Environment, vars, loop
  <2> QED
    BY <1>4, <1>5, <1>6, <1>7, <1>8, <2>1
<1> QED
  BY <1>1, <1>9, <1>10, <1>11, <1>12, <1>13, <1>14, <1>15, <1>16, <1>17 DEF Next, Finished

(* The only bases that the sweep can add are the tiles. *)
LEMMA OverKept ==
  ASSUME TypeOK, ControlOK, [Next]_vars, NEW i \in DOMAIN Profiles, Over(i)
  PROVE  Over(i)'
<1>1. power'[5] = "d0" => power[5] = "d0"
  <2> USE BaseFacts
  <2>1. power \in [DwBases -> {"gated", "ramp", "d0"}]
    BY TypeParts DEF Values
  <2>2. CASE UNCHANGED power
    BY <2>2
  <2>3. \A t \in DwBases \ {5} : \A f : AoacOk(t, f) \/ AoacTimeout(t) => power'[5] = power[5]
    BY <2>1 DEF AoacOk, AoacTimeout
  <2>4. \A f : LpssPrepare(f) => power'[5] = power[5]
    BY <2>1 DEF LpssPrepare
  <2>5. CASE StartAttempt \/ ProfSkip \/ ProfEnd \/ FbEnd \/ FbBase \/ UNCHANGED vars
    BY <2>2, <2>5 DEF StartAttempt, ProfSkip, ProfEnd, FbEnd, FbBase, hard, vars
  <2>6. CASE ProfPower \/ ProfPowerFails
    <3>1. p \in DOMAIN Profiles /\ Prof = Profiles[p]
      BY <2>6, ProfileFacts, TypeParts DEF ProfPower, ProfPowerFails, Places, Prof
    <3>2. Prof.platform = "amd" /\ ~IsSweep(p) => Prof.base \in DwBases \ {5}
      BY <3>1, ProfileFacts
    <3> QED
      BY <2>2, <2>3, <2>4, <2>6, <3>2 DEF ProfPower, ProfPowerFails, LpssFails
  <2>7. CASE FbProfile \/ FbLpssFails
    BY <2>2, <2>4, <2>7 DEF FbProfile, FbLpssFails, LpssFails
  <2>8. CASE FbPower
    <3>1. b \in DwBases \ {5}
      BY <2>8 DEF FbPower, ControlOK
    <3> QED
      BY <2>3, <2>8, <3>1 DEF FbPower
  <2>9. CASE ProfInit \/ ProfRead \/ ProfMtk \/ FbInit \/ FbRead \/ FbMtk
    BY <2>2, <2>9 DEF ProfInit, ProfRead, ProfMtk, FbInit, FbRead, FbMtk
  <2>10. CASE Environment
    BY <2>1, <2>2, <2>10 DEF Environment, TileReachesD0, PanelWakes, FirmwarePublishes,
       ControllerSticks, ControllerFrees
  <2> QED
    BY <2>5, <2>6, <2>7, <2>8, <2>9, <2>10 DEF Next, Finished
<1>2. IsSweep(i)' <=> IsSweep(i)
  BY SameProfiles
<1>3. \A x : MissedAt(x)' <=> MissedAt(x)
  BY SamePlace
<1>4. CASE IsSweep(i)
  <2>1. \A t \in Tiles : power[t] = "d0" /\ power'[t] = "d0"
    BY <1>4, BaseFacts, PowerKept DEF Over
  <2>2. \A x \in FchBases : power'[x] = "d0" => power[x] = "d0"
    BY <1>1, <2>1, BaseFacts
  <2> QED
    BY <1>2, <1>3, <1>4, <2>1, <2>2 DEF Over
<1>5. CASE ~IsSweep(i)
  BY <1>2, <1>3, <1>5 DEF Over
<1> QED
  BY <1>4, <1>5

LEMMA OverStep ==
  ASSUME TypeOK, ControlOK, TargetOK, HealthOK, AwakeOK, TriedOK, ReadyOK, LookedOK, OverOK,
         [Next]_vars
  PROVE  OverOK'
<1>1. SUFFICES ASSUME Searching', ~StartAttempt
               PROVE  /\ pc' \in InFallback => \A i \in 1..(p' - 1) : i \in Accepted => Over(i)'
                      /\ pc' = "idle" => \A i \in Accepted : Over(i)'
  BY Unmoved DEF OverOK, StartAttempt, InFallback, Sweeping, Driving
<1>2. /\ Searching /\ healthy /\ awake /\ ~Fault
      /\ ~LpssIsOurs => panel.base # IntelBase
  BY <1>1, StillSearching DEF Searching
<1>3. /\ p \in 1..Len(Profiles) + 1 /\ Len(Profiles) \in Nat /\ DOMAIN Profiles = 1..Len(Profiles)
      /\ b \in 1..6 /\ a \in 1..Len(Addrs) + 1 /\ r \in 1..Len(Regs) + 1
      /\ Len(Addrs) \in Nat \ {0} /\ DOMAIN Addrs = 1..Len(Addrs)
      /\ Len(Regs) \in Nat \ {0} /\ DOMAIN Regs = 1..Len(Regs)
  BY TypeParts, AlternatesFacts, ProfileFacts DEF Places
<1>4. \A i \in DOMAIN Profiles : Over(i) => Over(i)'
  BY OverKept
<1>5. pc \in InFallback => \A i \in 1..(p - 1) : i \in Accepted => Over(i)
  BY <1>2 DEF OverOK
<1> USE DEF InFallback, Sweeping, Driving
<1>6. CASE pc \in InFallback /\ pc' \in InFallback /\ p' = p
  BY <1>3, <1>4, <1>5, <1>6
<1>7. CASE /\ pc \in InFallback /\ pc' \in InFallback /\ p' = p + 1
           /\ p \in Accepted => Over(p)
  <2>1. \A i \in 1..p : i \in Accepted => Over(i)
    BY <1>3, <1>5, <1>7
  <2>2. \A i \in 1..p : i \in Accepted => i \in DOMAIN Profiles
    BY DEF Accepted
  <2> QED
    BY <1>3, <1>4, <1>7, <2>1, <2>2
<1>8. CASE FbProfile
  BY <1>6, <1>7, <1>8 DEF FbProfile, NextProfile, Accepted
<1>9. CASE FbLpssFails
  <2>1. p \in DOMAIN Profiles /\ Prof = Profiles[p] /\ Prof.platform = "intel" /\ ~LpssIsOurs
    BY <1>2, <1>3, <1>9 DEF FbLpssFails, LpssFails, Prof
  <2>2. Over(p)
    BY <1>2, <2>1, IntelMisses, ProfileFacts DEF Over
  <2> QED
    BY <1>7, <1>9, <2>2 DEF FbLpssFails, NextProfile
<1>10. CASE FbBase
  <2>1. CASE b > Len(bases)
    <3>1. /\ p' = p + 1 /\ pc' = "fallback" /\ pc = "fbBase" /\ Len(bases) \in 1..5
      <4>1. pc = "fbBase"
        BY <1>10 DEF FbBase
      <4>2. Len(bases) \in 1..5
        BY <4>1, SweepBases
      <4>3. ~(b <= Len(bases))
        BY <1>3, <2>1, <4>2
      <4>4. p' = p + 1 /\ pc' = "fallback"
        BY <1>10, <2>1, <4>3 DEF FbBase, NextProfile
      <4> QED
        BY <4>1, <4>2, <4>4
    <3>2. \A c \in 1..(b - 1) : power[bases[c]] = "d0" => ~MissedAt(bases[c])
      BY <1>2, <3>1 DEF LookedOK
    <3>3. Over(p)
      <4>1. CASE IsSweep(p)
        <5>1. Len(bases) = 5 /\ \A c \in 1..5 : bases[c] = c
          BY <3>1, <4>1, SweepBases
        <5>3. b = 6
          BY <1>3, <2>1, <5>1
        <5>2. \A t \in Tiles : power[t] = "d0"
          BY <1>2, <3>1, <4>1 DEF ReadyOK
        <5> QED
          BY <3>2, <4>1, <5>1, <5>2, <5>3, BaseFacts DEF Over
      <4>2. CASE ~IsSweep(p)
        <5>1. Len(bases) = 1 /\ bases[1] = Profiles[p].base
          BY <3>1, <4>2, SweepBases
        <5>2. power[bases[1]] = "d0"
          BY <1>2, <3>1, <4>2 DEF ReadyOK
        <5> QED
          BY <1>3, <2>1, <3>2, <4>2, <5>1, <5>2 DEF Over
      <4> QED
        BY <4>1, <4>2
    <3> QED
      BY <1>7, <3>1, <3>3
  <2>2. CASE ~(b > Len(bases))
    <3>1. Len(bases) \in Nat
      BY <1>10, SweepBases DEF FbBase
    <3> QED
      BY <1>3, <1>6, <1>10, <2>2, <3>1 DEF FbBase
  <2> QED
    BY <2>1, <2>2
<1>11. CASE FbPower \/ FbInit
  BY <1>6, <1>11 DEF FbPower, FbInit
<1>12. CASE FbRead
  <2>1. pc' # "idle"
    BY <1>1, <1>12, ControlBases, BaseFacts, FoundTypes DEF Searching, FbRead
  <2> QED
    BY <1>6, <1>12, <2>1 DEF FbRead, Found
<1>13. CASE FbMtk
  <2>1. /\ p \in DOMAIN Profiles /\ Prof = Profiles[p] /\ Prof.platform = "mtk" /\ pc = "fbMtk"
        /\ a \in DOMAIN Addrs /\ r \in DOMAIN Regs /\ p \in Accepted
        /\ Profiles[p].base = MtkBase /\ ~IsSweep(p)
    BY <1>13, TypeParts, ProfileFacts DEF FbMtk, Places, ControlOK, Accepted, Prof
  <2>2. FbMtkAdvance /\ ~At(MtkBase, Addrs[a], Regs[r])
    BY <1>1, <1>13, FbMtkMisses
  <2>3. CASE UNCHANGED <<pc, p>>
    BY <1>6, <2>1, <2>3
  <2>4. CASE pc' = "fallback" /\ p' = p + 1 /\ r = Len(Regs) /\ a = Len(Addrs)
    <3>1. /\ \A n \in 1..(a - 1), m \in DOMAIN Regs : ~At(MtkBase, Addrs[n], Regs[m])
          /\ \A m \in 1..(r - 1) : ~At(MtkBase, Addrs[a], Regs[m])
      BY <1>2, <2>1 DEF LookedOK
    <3>2. \A n \in DOMAIN Addrs, m \in DOMAIN Regs : ~At(MtkBase, Addrs[n], Regs[m])
      BY <1>3, <2>1, <2>2, <2>4, <3>1
    <3>3. Over(p)
      BY <2>1, <3>2 DEF Over, MissedAt
    <3> QED
      BY <1>7, <2>1, <2>4, <3>3
  <2> QED
    BY <1>3, <2>1, <2>2, <2>3, <2>4 DEF FbMtkAdvance, NextProfile
<1>14. CASE FbEnd
  <2>1. \A i \in Accepted : i \in DOMAIN Profiles
    BY DEF Accepted
  <2> QED
    BY <1>3, <1>4, <1>5, <1>14, <2>1 DEF FbEnd
<1>15. CASE ProfSkip \/ ProfPower \/ ProfPowerFails \/ ProfInit
  BY <1>15 DEF ProfSkip, ProfPower, ProfPowerFails, ProfInit, NextProfile
<1>16. CASE ProfRead \/ ProfMtk
  <2>1. pc' # "idle"
    <3>1. CASE ProfRead
      BY <1>1, <3>1, ProbeBases, FoundTypes DEF Searching, ProfRead, NextProfile, Probing
    <3>2. CASE ProfMtk
      BY <1>1, <3>2, BaseFacts, FoundTypes DEF Searching, ProfMtk, NextProfile
    <3> QED
      BY <1>16, <3>1, <3>2
  <2> QED
    BY <1>16, <2>1 DEF ProfRead, ProfMtk, NextProfile, Found
<1>17. CASE ProfEnd
  BY <1>17 DEF ProfEnd, Accepted
<1>18. CASE Environment \/ UNCHANGED vars
  <2>1. UNCHANGED <<pc, p>>
    BY <1>18 DEF Environment, vars, loop
  <2>2. pc = "idle" => \A i \in Accepted : Over(i)
    BY <1>2 DEF OverOK
  <2>3. \A i \in Accepted : i \in DOMAIN Profiles
    BY DEF Accepted
  <2> QED
    BY <1>4, <1>6, <2>1, <2>2, <2>3
<1> QED
  BY <1>1, <1>8, <1>9, <1>10, <1>11, <1>12, <1>13, <1>14, <1>15, <1>16, <1>17, <1>18
  DEF Next, Finished

-----------------------------------------------------------------------------
(* The initial states: the machine's tables have been read, nothing has    *)
(* been driven yet.                                                        *)
LEMMA InitTypes ==
  ASSUME Init
  PROVE  TypeOK
<1>1. PICK s \in Settings :
        /\ named = {i \in DOMAIN Profiles : \E t \in TablesOf(s.entries) : Names(Profiles[i], t)}
        /\ legible = Legibility(TablesOf(s.entries))
        /\ slow = s.slow /\ lpss = s.lpss
        /\ faults = s.faults /\ healthy = (~s.slow /\ s.faults = 0)
  BY DEF Init
<1>2. slow \in BOOLEAN /\ lpss \in {"ours", "other", "none"} /\ faults \in Nat
  BY <1>1, SettingsAssumption
<1>3. PICK on : /\ power = [x \in DwBases |-> IF x \in on THEN "d0" ELSE "gated"]
                /\ timing = [x \in DwBases |-> IF x \in on THEN "firmware" ELSE "reset"]
  BY DEF Init
<1>4. legible \in {"whole", "partly", "misread"}
  BY <1>1 DEF Legibility
<1>5. named \subseteq DOMAIN Profiles
  BY <1>1
<1>6. healthy \in BOOLEAN
  BY <1>1, Zenon
<1>7. Flags
  BY <1>2, <1>6 DEF Init, Flags
<1>8. Places
  BY ProfileFacts, AlternatesFacts DEF Init, Places
<1>9. power \in [DwBases -> {"gated", "ramp", "d0"}]
      /\ timing \in [DwBases -> {"firmware", "reset", "ours"}]
  BY <1>3
<1>10. Values
  BY <1>2, <1>4, <1>5, <1>9, MaxAttemptsAssumption DEF Init, Values
<1> QED
  BY <1>7, <1>8, <1>10, TypeParts

LEMMA InitIdentity ==
  ASSUME Init
  PROVE  IdentityOK
<1>1. PICK s \in Settings :
        /\ dmi = TouchReadDmiIdentity(s.entries)
        /\ named = {i \in DOMAIN Profiles : \E t \in TablesOf(s.entries) : Names(Profiles[i], t)}
        /\ legible = Legibility(TablesOf(s.entries))
  BY DEF Init
<1>2. AreEntries(s.entries)
  BY SettingsAssumption
<1>3. ASSUME NEW i \in DOMAIN Profiles
      PROVE  /\ legible # "misread" => (Matches(i) => i \in named)
             /\ legible = "whole" => (Matches(i) <=> i \in named)
  <2>1. i \in named <=> \E t \in TablesOf(s.entries) : Names(Profiles[i], t)
    BY <1>1
  <2>2. Matches(i) <=> TouchProfileMatchesIdentity(Profiles[i], TouchReadDmiIdentity(s.entries))
    BY <1>1 DEF Matches
  <2> QED
    BY <1>1, <1>2, <2>1, <2>2, IdentityFollowsTables
<1>4. named \subseteq DOMAIN Profiles
  BY <1>1
<1> QED
  BY <1>3, <1>4 DEF IdentityOK, Accepted

LEMMA InitInv ==
  ASSUME Init
  PROVE  Inv
<1>0. TypeOK /\ IdentityOK
  BY InitTypes, InitIdentity
<1>1. /\ pc = "idle" /\ found = NotFound /\ kind = "dw" /\ kicked = {} /\ stuck = {}
      /\ touched = {} /\ knew = FALSE /\ pulses = [x \in Pins |-> 0]
      /\ enabled = [x \in DwBases |-> FALSE]
  BY DEF Init
<1>2. PICK s \in Settings :
        /\ panel = s.panel /\ slow = s.slow /\ lpss = s.lpss
        /\ faults = s.faults /\ healthy = (~s.slow /\ s.faults = 0)
  BY DEF Init
<1>3. PICK on : /\ power = [x \in DwBases |-> IF x \in on THEN "d0" ELSE "gated"]
                /\ timing = [x \in DwBases |-> IF x \in on THEN "firmware" ELSE "reset"]
  BY DEF Init
<1>4. ControlOK
  BY <1>1 DEF ControlOK, Probing, Driving, Sweeping
<1>5. PowerOK /\ TargetOK
  BY <1>1 DEF PowerOK, PoweredBeforeUse, TargetOK, Driving
<1>6. PanelAttributed /\ TransportMatches /\ PromptTimingProgrammed
  BY <1>1 DEF PanelAttributed, TransportMatches, PromptTimingProgrammed, FreshTimingProgrammed
<1>7. KicksOK
  <2>1. \A i \in DOMAIN Profiles : Profiles[i].gpio # 0 => pulses[Profiles[i].gpio] = 0
    BY <1>1, PinFacts
  <2> QED
    BY <1>1, <2>1 DEF KicksOK
<1>8. GateOK
  BY <1>1 DEF GateOK
<1>9. HealthOK
  <2>1. healthy => slow = FALSE /\ faults = 0
    BY <1>2, SettingsAssumption
  <2>2. \A x \in DwBases : power[x] # "ramp"
    BY <1>3
  <2> QED
    BY <1>1, <2>1, <2>2 DEF HealthOK
<1>10. EnabledOK
  BY <1>1, BaseFacts DEF EnabledOK
<1>11. FreshOK
  <2>1. \A x \in DwBases : ~(power[x] = "d0" /\ timing[x] = "reset")
    BY <1>3
  <2> QED
    BY <2>1 DEF FreshOK
<1>12. AwakeOK
  BY <1>1, <1>2, SettingsAssumption DEF AwakeOK
<1>13. ~Searching
  BY <1>1 DEF Searching
<1>14. TriedOK /\ ReadyOK /\ LookedOK /\ OverOK
  BY <1>13 DEF TriedOK, ReadyOK, LookedOK, OverOK
<1> QED
  BY <1>0, <1>4, <1>5, <1>6, <1>7, <1>8, <1>9, <1>10, <1>11, <1>12, <1>14, Zenon DEF Inv

-----------------------------------------------------------------------------
(* Every step. *)

LEMMA IdentityStep ==
  ASSUME IdentityOK, [Next]_vars
  PROVE  IdentityOK'
BY Unmoved DEF IdentityOK

LEMMA TypesStep ==
  ASSUME TypeOK, ControlOK, [Next]_vars
  PROVE  TypeOK'
<1>1. Places' /\ Flags' /\ Values'
  BY PlacesStep, FlagsStep, ValuesStep, Zenon
<1> QED
  BY <1>1, Zenon DEF TypeOK, Places, Flags, Values

LEMMA NextInv ==
  ASSUME Inv, [Next]_vars
  PROVE  Inv'
<1>1. /\ TypeOK /\ ControlOK /\ PowerOK /\ TargetOK /\ PanelAttributed
      /\ TransportMatches /\ KicksOK /\ GateOK /\ IdentityOK /\ HealthOK
      /\ EnabledOK /\ FreshOK /\ PromptTimingProgrammed
      /\ AwakeOK /\ TriedOK /\ ReadyOK /\ LookedOK /\ OverOK
  BY Zenon DEF Inv
<1>2. TypeOK' /\ IdentityOK'
  BY <1>1, TypesStep, IdentityStep, Zenon
<1>3. ControlOK' /\ TransportMatches'
  BY <1>1, ControlStep, Zenon
<1>4. PowerOK' /\ TargetOK' /\ PanelAttributed'
  BY <1>1, PowerStep, TargetStep, AttributedStep, Zenon
<1>5. KicksOK' /\ GateOK' /\ HealthOK'
  BY <1>1, KicksStep, GateStep, HealthStep, Zenon
<1>6. EnabledOK' /\ FreshOK' /\ PromptTimingProgrammed'
  BY <1>1, EnabledStep, FreshStep, TimingStep, Zenon
<1>7. AwakeOK' /\ TriedOK' /\ ReadyOK'
  BY <1>1, AwakeStep, TriedStep, ReadyStep, Zenon
<1>8. LookedOK' /\ OverOK'
  BY <1>1, LookedStep, OverStep, Zenon
<1> QED
  BY <1>2, <1>3, <1>4, <1>5, <1>6, <1>7, <1>8, Zenon DEF Inv

(* The invariant holds in every state that detection reaches.              *)
THEOREM Invariant == Spec => []Inv
<1>1. Init => Inv
  BY InitInv
<1>2. Inv /\ [Next]_vars => Inv'
  BY NextInv
<1> QED
  BY <1>1, <1>2, PTL DEF Spec

-----------------------------------------------------------------------------
(* What follows. *)

(* Every variable stays in its set: the cursors of TouchDetect's loops in  *)
(* the arrays they index, whatever profiles and alternates there are.      *)
THEOREM Types == Spec => []TypeOK
<1>1. Inv => TypeOK
  BY DEF Inv
<1> QED
  BY <1>1, Invariant, PTL

(* Fail closed: no register block is written that does not belong to a     *)
(* profile the machine's SMBIOS tables name.                               *)
THEOREM OnlyNamedHardwareDriven == Spec => []IdentityGate
<1>1. Inv => IdentityGate
  BY DEF Inv, GateOK, IdentityOK, IdentityGate
<1> QED
  BY <1>1, Invariant, PTL

(* The profiles that TouchDetect accepts are those the tables name.        *)
THEOREM TablesDecideProfiles == Spec => []IdentityIsRead
<1>1. Inv => IdentityIsRead
  BY DEF Inv, IdentityOK, IdentityIsRead, Accepted
<1> QED
  BY <1>1, Invariant, PTL

(* TouchResetKick drives each reset line at most once over all attempts.   *)
THEOREM ResetKickedOnce == Spec => []KickOnce
<1>1. Inv => KickOnce
  BY DEF Inv, KicksOK, KickOnce
<1> QED
  BY <1>1, Invariant, PTL

(* What Dev says of a found panel is what the controller is set to, even   *)
(* if DwI2cInit could not stop a stuck controller on the way.              *)
THEOREM AttributedToItsAddress == Spec => []PanelAttributed
<1>1. Inv => PanelAttributed
  BY DEF Inv
<1> QED
  BY <1>1, Invariant, PTL

(* I2cBusKind selects the transport that found the panel, and DesignWare   *)
(* again after every probe that did not.                                   *)
THEOREM TransportIsTheFinder == Spec => []TransportMatches
<1>1. Inv => TransportMatches
  BY DEF Inv
<1> QED
  BY <1>1, Invariant, PTL

(* DwI2cControllerPresent keeps the driver off every gated tile.           *)
THEOREM GatedTilesUntouched == Spec => []PoweredBeforeUse
<1>1. Inv => PoweredBeforeUse
  BY DEF Inv, PowerOK
<1> QED
  BY <1>1, Invariant, PTL

(* An attempt that fails on healthy hardware leaves no controller enabled: *)
(* what the profile pass enabled, the fallback sweep goes over again and   *)
(* disables.                                                               *)
THEOREM FailureDisablesAll == Spec => []FailureLeavesIdle
<1>1. Inv => FailureLeavesIdle
  BY DEF Inv, EnabledOK, Pending, FailureLeavesIdle, Probing, Sweeping, Driving
<1> QED
  BY <1>1, Invariant, PTL

(* On healthy hardware a controller that was powered up by the driver has  *)
(* its timing programmed before a panel is found on it.                    *)
THEOREM FreshPowerMeansTiming == Spec => []PromptTimingProgrammed
<1>1. Inv => PromptTimingProgrammed
  BY DEF Inv
<1> QED
  BY <1>1, Invariant, PTL

(* The search is exhaustive: on healthy hardware a panel that answered     *)
(* from the start and sits where a named profile or its alternates say is  *)
(* found by that attempt; unless the attempt silenced it half-way by its   *)
(* own reset kick, which happens once per line.                            *)
THEOREM NothingOverlooked == Spec => []NoMissedPanel
<1>1. ASSUME Inv PROVE NoMissedPanel
  <2>1. SUFFICES ASSUME pc = "idle", found = NotFound, knew, healthy, legible = "whole",
                        NEW i \in named
                 PROVE  panel \notin SearchSpace(i)
    BY DEF NoMissedPanel
  <2>2. /\ i \in Accepted /\ i \in DOMAIN Profiles
        /\ Tried(i) /\ Over(i)
    BY <1>1, <2>1 DEF Inv, IdentityOK, Accepted, TriedOK, OverOK, Searching
  <2>3. CASE IsSweep(i)
    BY <2>2, <2>3 DEF Over, MissedAt, At, SearchSpace
  <2>4. CASE ~IsSweep(i)
    BY <2>2, <2>4 DEF Over, MissedAt, At, SearchSpace, Tried, HasOwn, Own
  <2> QED
    BY <2>3, <2>4
<1> QED
  BY <1>1, Invariant, PTL
=============================================================================
