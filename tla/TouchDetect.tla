----------------------------- MODULE TouchDetect ------------------------------
(***************************************************************************)
(* TouchDetect and what it calls: the profile pass, the reset kick, the    *)
(* fallback sweep, AOAC power-up of the FCH tiles, release of the Intel    *)
(* LPSS resets, DwI2cInit / DwI2cDisable as seen from outside, and the     *)
(* choice of the MediaTek transport.  Attempts follow each other (the      *)
(* retry timer); between any two steps the hardware moves: a tile that was *)
(* asked to power up gets there, the panel wakes up, a controller gets     *)
(* stuck or free, the firmware publishes its I2C host.                     *)
(*                                                                         *)
(* A controller is a number.  1..5 are mSweepBases (1..4 sit in the AOAC   *)
(* tiles I2C0..I2C3, 5 has no known tile), IntelBase is the Serial IO      *)
(* function and MtkBase the MediaTek controller.                           *)
(***************************************************************************)
EXTENDS Naturals, Sequences, FiniteSets, SmbiosIdentity

CONSTANTS
  Profiles,     \* mProfiles: [product, boards, platform, base, addr, reg, gpio]
  Addrs,        \* mCandidateAddrs
  Regs,         \* mCandidateDescRegs
  Settings,     \* the machines explored: [entries, panel, lpss, slow, faults]
  MaxAttempts   \* bound: attempts explored (TOUCH_RETRY_MAX is 60)

FchBases == 1..5
Tiles == 1..4
IntelBase == 6
MtkBase == 7
DwBases == FchBases \cup {IntelBase}
Bases == DwBases \cup {MtkBase}

Profile == [product : Seq(STRING), boards : SUBSET Seq(STRING),
            platform : {"amd", "intel", "mtk"}, base : Bases \cup {0},
            addr : Nat, reg : Nat, gpio : Nat]

(* mProfiles: where each platform's controller is, and that no two of them *)
(* share a reset line.                                                     *)
ASSUME ProfilesAssumption ==
  /\ Profiles \in Seq(Profile)
  /\ \A i \in DOMAIN Profiles :
       /\ Profiles[i].platform = "intel" => Profiles[i].base = IntelBase
       /\ Profiles[i].platform = "mtk" => Profiles[i].base = MtkBase
       /\ Profiles[i].platform = "amd" => Profiles[i].base \in Tiles \cup {0}
  /\ \A i, j \in DOMAIN Profiles :
       Profiles[i].gpio = Profiles[j].gpio /\ Profiles[i].gpio # 0 => i = j

(* The alternates are arrays of the source, and arrays are not empty.      *)
ASSUME AlternatesAssumption ==
  /\ Addrs \in Seq(Nat) /\ Len(Addrs) > 0
  /\ Regs \in Seq(Nat) /\ Len(Regs) > 0

ASSUME MaxAttemptsAssumption == MaxAttempts \in Nat

(* A machine: its configuration table's entries, where its panel is (on   *)
(* the Intel controller only if that is the function found there),         *)
(* which PCI function sits where the Intel one should, whether             *)
(* FchAoacPowerOnI2c may time out, and how often a controller gets stuck,  *)
(* an enable does not show, a PCI access fails or a descriptor read fails. *)
ASSUME SettingsAssumption ==
  \A s \in Settings :
    /\ AreEntries(s.entries)
    /\ s.panel \in [base : Bases, addr : Nat, reg : Nat]
    /\ s.panel.base = IntelBase => s.lpss = "ours"
    /\ s.slow \in BOOLEAN /\ s.faults \in Nat /\ s.lpss \in {"ours", "other", "none"}

VARIABLES
  pc, p, b, a, r,   \* where TouchDetect is, and its loop counters
  bases,            \* Bases[] of the fallback sweep
  fresh,            \* Fresh of the profile pass
  freshTile,        \* FreshByTile[] of the fallback sweep
  attempt,          \* Dev->AttemptCount
  found,            \* [base, addr, prof] in Dev after a success, or NotFound
  kicked,           \* profiles with Dev->ResetKicked set
  kind,             \* I2cBusKind: "dw", "mtk" or "fw"
  fwSearched, fwFound,  \* Dev->FwBusSearched, Dev->FwBusFound
  dmi,              \* [product, board]: mDmiProduct, mDmiBoard
  power,            \* "gated", "ramp" or "d0"; "ramp": asked for, not there
  timing,           \* SCL registers: "firmware", "reset" defaults or "ours"
  enabled, tar,     \* IC_ENABLE and IC_TAR (0: never programmed by us)
  stuck,            \* controllers whose IC_ENABLE_STATUS does not clear
  panel, awake,     \* where the panel is, and whether it answers
  slow,             \* may a tile miss the power-up deadline?
  lpss,             \* the PCI function at the profile's location: "ours",
                    \* "other" or "none"
  fwPublished,      \* the firmware's EFI_I2C_HOST for MtkBase is there
  faults,           \* bus faults that may still happen
  touched,          \* history: every register block written
  pulses,           \* history: how often each reset line was driven
  knew,             \* history: awake when this attempt began, and not reset since
  healthy,          \* history: the machine began without slow tiles and faults
  named,            \* history: the profiles that its SMBIOS tables name
  legible           \* history: are the tables "whole", cut off or malformed
                    \* somewhere ("partly"), or inside a name ("misread")?

identity == <<dmi, named, legible>>
loop == <<p, b, a, r, bases, fresh, freshTile>>
soft == <<found, kicked, kind, fwSearched, fwFound>>
world == <<panel, awake, fwPublished, slow, lpss>>
hard == <<power, timing, enabled, tar, stuck, faults, world>>
history == <<touched, pulses, knew, healthy>>
vars == <<pc, loop, attempt, soft, identity, hard, history>>

NotFound == [base |-> 0, addr |-> 0, prof |-> 0]
Prof == Profiles[p]
IsSweep(i) == Profiles[i].platform = "amd" /\ Profiles[i].base = 0
Pins == {Profiles[i].gpio : i \in DOMAIN Profiles} \ {0}

TypeOK ==
  /\ pc \in {"idle", "profile", "profInit", "profRead", "fallback", "fbPower",
             "fbBase", "fbInit", "fbRead", "fbMtk"}
  /\ p \in 1..Len(Profiles) + 1 /\ b \in 1..6
  /\ a \in 1..Len(Addrs) + 1 /\ r \in 1..Len(Regs) + 1
  /\ bases \in {<<>>, <<1, 2, 3, 4, 5>>} \cup {<<x>> : x \in DwBases}
  /\ fresh \in BOOLEAN /\ freshTile \in [Tiles -> BOOLEAN]
  /\ attempt \in 0..MaxAttempts
  /\ found = NotFound \/ found.base \in Bases
  /\ kicked \subseteq DOMAIN Profiles
  /\ kind \in {"dw", "mtk", "fw"} /\ fwSearched \in BOOLEAN /\ fwFound \in BOOLEAN
  /\ power \in [DwBases -> {"gated", "ramp", "d0"}]
  /\ timing \in [DwBases -> {"firmware", "reset", "ours"}]
  /\ enabled \in [DwBases -> BOOLEAN] /\ tar \in [DwBases -> Nat]
  /\ stuck \subseteq DwBases /\ awake \in BOOLEAN /\ fwPublished \in BOOLEAN
  /\ faults \in Nat /\ slow \in BOOLEAN /\ lpss \in {"ours", "other", "none"}
  /\ knew \in BOOLEAN /\ healthy \in BOOLEAN
  /\ named \subseteq DOMAIN Profiles /\ legible \in {"whole", "partly", "misread"}
  /\ pc \in {"profInit", "profRead", "fbPower", "fbBase", "fbInit", "fbRead",
            "fbMtk"} => p \in DOMAIN Profiles
  /\ pc \in {"fbRead", "fbMtk"} => a \in DOMAIN Addrs
  /\ pc = "fbMtk" => r \in DOMAIN Regs

(* The firmware ran a controller and left its timing there, or never       *)
(* powered it and the reset defaults are what a power-up finds.            *)
Init ==
  /\ pc = "idle" /\ p = 1 /\ b = 1 /\ a = 1 /\ r = 1 /\ bases = <<>>
  /\ fresh = FALSE /\ freshTile = [t \in Tiles |-> FALSE]
  /\ attempt = 0 /\ found = NotFound /\ kicked = {}
  /\ kind = "dw" /\ fwSearched = FALSE /\ fwFound = FALSE
  /\ \E s \in Settings :
       /\ dmi = TouchReadDmiIdentity(s.entries)
       /\ named = {i \in DOMAIN Profiles :
                    \E t \in TablesOf(s.entries) : Names(Profiles[i], t)}
       /\ legible = Legibility(TablesOf(s.entries))
       /\ panel = s.panel /\ slow = s.slow /\ lpss = s.lpss
       /\ faults = s.faults /\ healthy = (~s.slow /\ s.faults = 0)
  /\ \E on \in {{}, DwBases, {panel.base} \cap DwBases} :
       /\ power = [x \in DwBases |-> IF x \in on THEN "d0" ELSE "gated"]
       /\ timing = [x \in DwBases |-> IF x \in on THEN "firmware" ELSE "reset"]
  /\ enabled = [x \in DwBases |-> FALSE] /\ tar = [x \in DwBases |-> 0]
  /\ stuck = {} /\ awake \in BOOLEAN /\ fwPublished \in BOOLEAN
  /\ touched = {} /\ pulses = [x \in Pins |-> 0] /\ knew = FALSE

-----------------------------------------------------------------------------
(* The calls TouchDetect makes.  Each says what it returns and does. *)

Fault == faults > 0 /\ faults' = faults - 1
NoFault == UNCHANGED faults

Matches(i) == TouchProfileMatchesIdentity(Profiles[i], dmi)

(* FchAoacPowerOnI2c: Fresh only if this call saw the tile leave D3. *)
AoacOk(t, isFresh) ==
  /\ isFresh = (power[t] # "d0")
  /\ power' = [power EXCEPT ![t] = "d0"]
  /\ touched' = IF isFresh THEN touched \cup {<<"aoac", t>>} ELSE touched

AoacTimeout(t) ==
  /\ slow /\ power[t] # "d0"
  /\ power' = [power EXCEPT ![t] = "ramp"]
  /\ touched' = touched \cup {<<"aoac", t>>}

(* Mutant: only the location of the function is looked at. *)
LpssIsOursAnywhere == lpss # "none"

(* Location and both IDs must match the profile's, or nothing is poked. *)
LpssIsOurs == lpss = "ours"

(* IntelLpssPrepareI2c: Fresh only if the resets were still asserted.  A   *)
(* function that cannot be put in D0, or does not decode memory, reads as  *)
(* if they were released.                                                  *)
LpssPrepare(isFresh) ==
  /\ LpssIsOurs /\ touched' = touched \cup {<<"lpss", IntelBase>>}
  /\ \/ /\ NoFault /\ isFresh = (power[IntelBase] # "d0")
        /\ power' = [power EXCEPT ![IntelBase] = "d0"]
     \/ /\ Fault /\ power[IntelBase] # "d0" /\ isFresh = FALSE
        /\ UNCHANGED power

(* Not the function the profile was written for; or a configuration-space  *)
(* read fails after the request for D0.                                    *)
LpssFails ==
  /\ UNCHANGED power
  /\ \/ ~LpssIsOurs /\ NoFault /\ UNCHANGED touched
     \/ LpssIsOurs /\ Fault /\ touched' = touched \cup {<<"lpss", IntelBase>>}

(* Mutant: the COMP_TYPE test is left out. *)
PresentAlways(x) == TRUE

(* DwI2cControllerPresent: a gated window does not read back COMP_TYPE. *)
Present(x) == power[x] = "d0"

(* Mutant: does not see that the controller stayed enabled. *)
DwInitWritesBlind(x, addr, force) ==
  /\ timing' = [timing EXCEPT ![x] = IF force /\ x \notin stuck THEN "ours" ELSE @]
  /\ tar' = [tar EXCEPT ![x] = IF x \in stuck THEN @ ELSE addr]
  /\ enabled' = [enabled EXCEPT ![x] = TRUE]

(* DwI2cInit: nothing is written while the controller stays enabled. *)
DwInitWrites(x, addr, force) ==
  /\ x \notin stuck
  /\ timing' = [timing EXCEPT ![x] = IF force THEN "ours" ELSE @]
  /\ tar' = [tar EXCEPT ![x] = addr]
  /\ enabled' = [enabled EXCEPT ![x] = TRUE]

(* It succeeds once the enable shows, and gives up waiting otherwise. *)
DwI2cInit(x, addr, force, ok) ==
  \/ ok /\ DwInitWrites(x, addr, force) /\ NoFault
  \/ ~ok /\ DwInitWrites(x, addr, force) /\ Fault
  \/ ~ok /\ x \in stuck /\ NoFault /\ UNCHANGED <<timing, enabled, tar>>

(* Mutant: the sweep leaves the controller enabled. *)
DwI2cDisableNot(x) == UNCHANGED enabled

DwI2cDisable(x) ==
  enabled' = [enabled EXCEPT ![x] = @ /\ x \in stuck]

(* I2cHidReadDescriptor through the DesignWare controller: it reaches the  *)
(* slave the hardware targets, whatever the caller believes.               *)
Acks(x) ==
  awake /\ panel.base = x /\ tar[x] = panel.addr /\ enabled[x] /\ kind = "dw"
Answers(x, reg) == Acks(x) /\ reg = panel.reg

ReadDescriptor(x, reg, status) ==
  \/ status = "SUCCESS" /\ Answers(x, reg) /\ NoFault
  \/ status = "UNSUPPORTED" /\ ~Answers(x, reg) /\ Acks(x) /\ NoFault
  \/ status = "NO_RESPONSE" /\ ~Acks(x) /\ NoFault
  \/ status = "DEVICE_ERROR" /\ Fault
Statuses == {"SUCCESS", "UNSUPPORTED", "NO_RESPONSE", "DEVICE_ERROR"}

(* Mutant: a probe that fails leaves its transport selected. *)
MtkProbeStaysSelected(addr, reg, ok) ==
  LET useFw == IF fwSearched THEN fwFound ELSE fwPublished
      here == awake /\ panel = [base |-> MtkBase, addr |-> addr, reg |-> reg]
  IN  /\ fwSearched' = TRUE /\ fwFound' = useFw
      /\ \/ ok = here /\ NoFault
         \/ ~ok /\ here /\ Fault
      /\ kind' = IF useFw THEN "fw" ELSE "mtk"
      /\ touched' = IF useFw THEN touched ELSE touched \cup {<<"mmio", MtkBase>>}

(* TouchMtkProbe: through the firmware's host when it publishes one, else  *)
(* by driving the controller; the DesignWare selection is restored when    *)
(* the panel does not answer.                                              *)
MtkProbe(addr, reg, ok) ==
  LET useFw == IF fwSearched THEN fwFound ELSE fwPublished
      here == awake /\ panel = [base |-> MtkBase, addr |-> addr, reg |-> reg]
  IN  /\ fwSearched' = TRUE /\ fwFound' = useFw
      /\ \/ ok = here /\ NoFault
         \/ ~ok /\ here /\ Fault
      /\ kind' = IF ~ok THEN "dw" ELSE IF useFw THEN "fw" ELSE "mtk"
      /\ touched' = IF useFw THEN touched ELSE touched \cup {<<"mmio", MtkBase>>}

Found(x, addr) ==
  /\ found' = [base |-> x, addr |-> addr, prof |-> p]
  /\ pc' = "idle"

-----------------------------------------------------------------------------
(* The profile pass. *)

StartAttempt ==
  /\ pc = "idle" /\ found = NotFound /\ attempt < MaxAttempts
  /\ attempt' = attempt + 1
  /\ kind' = "dw" /\ fwSearched' = FALSE
  /\ pc' = "profile" /\ p' = 1
  /\ knew' = awake
  /\ UNCHANGED <<b, a, r, bases, fresh, freshTile, found, kicked, fwFound,
                 identity, hard, touched, pulses, healthy>>

NextProfile(label) == pc' = label /\ p' = p + 1

ProfSkip ==
  /\ pc = "profile" /\ p <= Len(Profiles)
  /\ ~Matches(p) \/ IsSweep(p)
  /\ NextProfile("profile")
  /\ UNCHANGED <<b, a, r, bases, fresh, freshTile, attempt, soft, identity,
                 hard, history>>

ProfPower ==
  /\ pc = "profile" /\ p <= Len(Profiles) /\ Matches(p)
  /\ Prof.platform # "mtk" /\ ~IsSweep(p)
  /\ \/ Prof.platform = "amd" /\ AoacOk(Prof.base, fresh') /\ NoFault
     \/ Prof.platform = "intel" /\ LpssPrepare(fresh')
  /\ fresh' \in BOOLEAN
  /\ pc' = "profInit" /\ p' = p
  /\ UNCHANGED <<b, a, r, bases, freshTile, attempt, soft, identity, timing,
                 enabled, tar, stuck, world, pulses, knew, healthy>>

ProfPowerFails ==
  /\ pc = "profile" /\ p <= Len(Profiles) /\ Matches(p)
  /\ \/ /\ Prof.platform = "amd" /\ ~IsSweep(p)
        /\ AoacTimeout(Prof.base) /\ NoFault
     \/ Prof.platform = "intel" /\ LpssFails
  /\ fresh' = FALSE /\ NextProfile("profile")
  /\ UNCHANGED <<b, a, r, bases, freshTile, attempt, soft, identity, timing,
                 enabled, tar, stuck, world, pulses, knew, healthy>>

ProfInit ==
  /\ pc = "profInit"
  /\ \/ /\ Present(Prof.base)
        /\ touched' = touched \cup {<<"mmio", Prof.base>>}
        /\ \E ok \in BOOLEAN :
             /\ DwI2cInit(Prof.base, Prof.addr, fresh, ok)
             /\ IF ok THEN pc' = "profRead" /\ p' = p ELSE NextProfile("profile")
     \/ /\ ~Present(Prof.base) /\ NextProfile("profile")
        /\ UNCHANGED <<timing, enabled, tar, faults, touched>>
  /\ UNCHANGED <<b, a, r, bases, fresh, freshTile, attempt, soft, identity,
                 power, stuck, world, pulses, knew, healthy>>

(* A line that was driven high is pulsed, and the panel behind it is out   *)
(* until it has come up again (PanelWakes); one that was not driven is     *)
(* only released.  What is behind the line is the board's wiring.          *)
Drive(line) ==
  /\ pulses' = [pulses EXCEPT ![line] = @ + 1]
  /\ touched' = touched \cup {<<"gpio", line>>}
  /\ awake' \in {awake, FALSE} /\ knew' = (knew /\ awake')

(* Mutant: forgets that it kicked. *)
TouchResetKickAgain == UNCHANGED kicked /\ Drive(Prof.gpio)

(* The controller is alive but nobody is there: kick the reset line once. *)
TouchResetKick == kicked' = kicked \cup {p} /\ Drive(Prof.gpio)

ProfRead ==
  /\ pc = "profRead"
  /\ \E s \in Statuses :
       /\ ReadDescriptor(Prof.base, Prof.reg, s)
       /\ IF s = "SUCCESS" THEN Found(Prof.base, Prof.addr) /\ UNCHANGED p
          ELSE NextProfile("profile") /\ UNCHANGED found
       /\ IF Prof.platform = "amd" /\ Prof.gpio # 0 /\ p \notin kicked /\ s = "NO_RESPONSE"
          THEN TouchResetKick
          ELSE UNCHANGED <<kicked, touched, pulses, awake, knew>>
  /\ UNCHANGED <<b, a, r, bases, fresh, freshTile, attempt, kind, fwSearched,
                 fwFound, identity, power, timing, enabled, tar, stuck, panel,
                 fwPublished, slow, lpss, healthy>>

ProfMtk ==
  /\ pc = "profile" /\ p <= Len(Profiles) /\ Matches(p)
  /\ Prof.platform = "mtk"
  /\ \E ok \in BOOLEAN :
       /\ MtkProbe(Prof.addr, Prof.reg, ok)
       /\ IF ok THEN Found(MtkBase, Prof.addr) /\ UNCHANGED p
                ELSE NextProfile("profile") /\ UNCHANGED found
  /\ UNCHANGED <<b, a, r, bases, fresh, freshTile, attempt, kicked, identity,
                 power, timing, enabled, tar, stuck, world, pulses, knew, healthy>>

ProfEnd ==
  /\ pc = "profile" /\ p > Len(Profiles)
  /\ p' = 1
  /\ pc' = IF ~ \E i \in DOMAIN Profiles : Matches(i) THEN "idle" ELSE "fallback"
  /\ UNCHANGED <<b, a, r, bases, fresh, freshTile, attempt, soft, identity,
                 hard, history>>

-----------------------------------------------------------------------------
(* The fallback sweep. *)

FbProfile ==
  /\ pc = "fallback" /\ p <= Len(Profiles)
  /\ b' = 1 /\ a' = 1 /\ r' = 1
  /\ IF ~Matches(p)
     THEN /\ NextProfile("fallback")
          /\ UNCHANGED <<bases, freshTile, power, faults, touched>>
     ELSE /\ p' = p
          /\ CASE Prof.platform = "mtk" ->
                    /\ pc' = "fbMtk"
                    /\ UNCHANGED <<bases, freshTile, power, faults, touched>>
               [] Prof.platform = "intel" ->
                    /\ pc' = "fbBase" /\ bases' = <<IntelBase>>
                    /\ \E f \in BOOLEAN :
                         /\ LpssPrepare(f)
                         /\ freshTile' = [t \in Tiles |-> t = 1 /\ f]
               [] OTHER ->
                    /\ pc' = IF IsSweep(p) THEN "fbPower" ELSE "fbBase"
                    /\ bases' = IF IsSweep(p) THEN <<1, 2, 3, 4, 5>>
                                ELSE <<Prof.base>>
                    /\ freshTile' = [t \in Tiles |-> FALSE]
                    /\ UNCHANGED <<power, faults, touched>>
  /\ UNCHANGED <<fresh, attempt, soft, identity, timing, enabled, tar, stuck,
                 world, pulses, knew, healthy>>

(* The alternates of an Intel profile are not tried. *)
FbLpssFails ==
  /\ pc = "fallback" /\ p <= Len(Profiles) /\ Matches(p)
  /\ Prof.platform = "intel"
  /\ LpssFails /\ freshTile' = [t \in Tiles |-> FALSE]
  /\ NextProfile("fallback")
  /\ UNCHANGED <<b, a, r, bases, fresh, attempt, soft, identity, timing,
                 enabled, tar, stuck, world, pulses, knew, healthy>>

(* Un-gate the four tiles; one that times out is not fresh. *)
FbPower ==
  /\ pc = "fbPower"
  /\ \/ \E f \in BOOLEAN :
          AoacOk(b, f) /\ freshTile' = [freshTile EXCEPT ![b] = f]
     \/ AoacTimeout(b) /\ UNCHANGED freshTile
  /\ IF b < 4 THEN b' = b + 1 /\ pc' = pc ELSE b' = 1 /\ pc' = "fbBase"
  /\ UNCHANGED <<p, a, r, bases, fresh, attempt, soft, identity, timing,
                 enabled, tar, stuck, faults, world, pulses, knew, healthy>>

(* Mutant: leaves out the last base. *)
FbBaseButLast ==
  /\ pc = "fbBase" /\ a' = 1
  /\ CASE b >= Len(bases) -> NextProfile("fallback") /\ b' = b
       [] b < Len(bases) /\ ~Present(bases[b]) -> UNCHANGED <<pc, p>> /\ b' = b + 1
       [] OTHER -> pc' = "fbInit" /\ UNCHANGED <<p, b>>
  /\ UNCHANGED <<r, bases, fresh, freshTile, attempt, soft, identity, hard,
                 history>>

FbBase ==
  /\ pc = "fbBase" /\ a' = 1
  /\ CASE b > Len(bases) -> NextProfile("fallback") /\ b' = b
       [] b <= Len(bases) /\ ~Present(bases[b]) -> UNCHANGED <<pc, p>> /\ b' = b + 1
       [] OTHER -> pc' = "fbInit" /\ UNCHANGED <<p, b>>
  /\ UNCHANGED <<r, bases, fresh, freshTile, attempt, soft, identity, hard,
                 history>>

(* Mutant: the sweep takes no tile to be fresh. *)
TileFreshIntelOnly == Prof.platform = "intel" /\ freshTile[1]

(* A profile with its own base never counts as fresh here. *)
TileFresh ==
  CASE Prof.platform = "intel" -> freshTile[1]
    [] IsSweep(p) /\ b <= 4 -> freshTile[b]
    [] OTHER -> FALSE

FbInit ==
  /\ pc = "fbInit" /\ r' = 1
  /\ \/ /\ a > Len(Addrs) /\ pc' = "fbBase" /\ b' = b + 1
        /\ UNCHANGED <<a, timing, enabled, tar, faults, touched>>
     \/ /\ a <= Len(Addrs) /\ b' = b
        /\ touched' = touched \cup {<<"mmio", bases[b]>>}
        /\ \E ok \in BOOLEAN :
             /\ DwI2cInit(bases[b], Addrs[a], TileFresh, ok)
             /\ IF ok THEN pc' = "fbRead" /\ a' = a ELSE pc' = pc /\ a' = a + 1
  /\ UNCHANGED <<p, bases, fresh, freshTile, attempt, soft, identity, power,
                 stuck, world, pulses, knew, healthy>>

FbRead ==
  /\ pc = "fbRead"
  /\ \/ /\ r > Len(Regs) /\ DwI2cDisable(bases[b])
        /\ pc' = "fbInit" /\ a' = a + 1 /\ UNCHANGED <<r, found, faults>>
     \/ /\ r <= Len(Regs) /\ UNCHANGED <<a, enabled>>
        /\ \E s \in Statuses :
             /\ ReadDescriptor(bases[b], Regs[r], s)
             /\ IF s = "SUCCESS" THEN Found(bases[b], Addrs[a]) /\ r' = r
                ELSE pc' = pc /\ r' = r + 1 /\ UNCHANGED found
  /\ UNCHANGED <<p, b, bases, fresh, freshTile, attempt, kicked, kind,
                 fwSearched, fwFound, identity, power, timing, tar, stuck,
                 world, history>>

(* Mutant: one register too many. *)
FbMtkAdvanceTooFar ==
  IF r <= Len(Regs) THEN r' = r + 1 /\ UNCHANGED <<pc, p, a>>
  ELSE IF a < Len(Addrs) THEN r' = 1 /\ a' = a + 1 /\ UNCHANGED <<pc, p>>
  ELSE NextProfile("fallback") /\ UNCHANGED <<r, a>>

(* The next address once the registers of this one are exhausted. *)
FbMtkAdvance ==
  IF r < Len(Regs) THEN r' = r + 1 /\ UNCHANGED <<pc, p, a>>
  ELSE IF a < Len(Addrs) THEN r' = 1 /\ a' = a + 1 /\ UNCHANGED <<pc, p>>
  ELSE NextProfile("fallback") /\ UNCHANGED <<r, a>>

FbMtk ==
  /\ pc = "fbMtk"
  /\ IF Addrs[a] = Prof.addr /\ Regs[r] = Prof.reg
     THEN /\ FbMtkAdvance
          /\ UNCHANGED <<found, kind, fwSearched, fwFound, faults, touched>>
     ELSE \E ok \in BOOLEAN :
            /\ MtkProbe(Addrs[a], Regs[r], ok)
            /\ IF ok THEN Found(MtkBase, Addrs[a]) /\ UNCHANGED <<p, a, r>>
                     ELSE FbMtkAdvance /\ UNCHANGED found
  /\ UNCHANGED <<b, bases, fresh, freshTile, attempt, kicked, identity, power,
                 timing, enabled, tar, stuck, world, pulses, knew, healthy>>

FbEnd ==
  /\ pc = "fallback" /\ p > Len(Profiles)
  /\ pc' = "idle"
  /\ UNCHANGED <<loop, attempt, soft, identity, hard, history>>

-----------------------------------------------------------------------------
(* The hardware and the firmware. *)

TileReachesD0(t) ==
  /\ power[t] = "ramp" /\ power' = [power EXCEPT ![t] = "d0"]
  /\ UNCHANGED <<stuck, faults, world>>

ControllerSticks(x) ==
  /\ enabled[x] /\ x \notin stuck /\ stuck' = stuck \cup {x} /\ Fault
  /\ UNCHANGED <<power, world>>

ControllerFrees(x) ==
  /\ x \in stuck /\ stuck' = stuck \ {x}
  /\ UNCHANGED <<power, faults, world>>

PanelWakes ==
  /\ ~awake /\ awake' = TRUE
  /\ UNCHANGED <<power, stuck, faults, panel, slow, lpss, fwPublished>>

FirmwarePublishes ==
  /\ ~fwPublished /\ fwPublished' = TRUE
  /\ UNCHANGED <<power, stuck, faults, panel, slow, lpss, awake>>

Environment ==
  /\ \/ PanelWakes \/ FirmwarePublishes
     \/ \E t \in Tiles : TileReachesD0(t)
     \/ \E x \in DwBases : ControllerSticks(x) \/ ControllerFrees(x)
  /\ UNCHANGED <<pc, loop, attempt, soft, identity, timing, enabled, tar, history>>

(* The panel is found, or the attempts of this model are used up. *)
Finished ==
  /\ pc = "idle" /\ (found # NotFound \/ attempt = MaxAttempts)
  /\ UNCHANGED vars

Next ==
  \/ StartAttempt
  \/ ProfSkip \/ ProfPower \/ ProfPowerFails \/ ProfInit \/ ProfRead \/ ProfMtk \/ ProfEnd
  \/ FbProfile \/ FbLpssFails \/ FbPower \/ FbBase \/ FbInit \/ FbRead \/ FbMtk \/ FbEnd
  \/ Environment \/ Finished

Spec == Init /\ [][Next]_vars

-----------------------------------------------------------------------------
(* Properties.                                                             *)

(* "Fail closed": only blocks that belong to a profile the machine's       *)
(* SMBIOS tables name are ever written, and a DSDT-confirmed profile stays *)
(* on its own controller even in the fallback sweep; unless a table ends   *)
(* inside the very name it holds.                                          *)
Allowed(i) ==
  LET q == Profiles[i] IN
    CASE IsSweep(i) -> {<<"aoac", t>> : t \in Tiles} \cup {<<"mmio", x>> : x \in FchBases}
      [] q.platform = "intel" ->
           IF lpss = "ours" THEN {<<"lpss", q.base>>, <<"mmio", q.base>>} ELSE {}
      [] OTHER -> {<<"aoac", q.base>>, <<"mmio", q.base>>}
                  \cup (IF q.gpio = 0 THEN {} ELSE {<<"gpio", q.gpio>>})
IdentityGate ==
  legible # "misread" => touched \subseteq UNION {Allowed(i) : i \in named}

(* The walk over the SMBIOS tables selects no profile that they do not     *)
(* name, however they are cut off or malformed, except inside a name; and  *)
(* every one that they do name when they are whole.  They are read once,   *)
(* before the first attempt.                                               *)
IdentityIsRead ==
  attempt = 0 =>
  LET accepted == {i \in DOMAIN Profiles : Matches(i)}
  IN  /\ legible # "misread" => accepted \subseteq named
      /\ legible = "whole" => accepted = named

(* A reset line is driven at most once, however many attempts are made. *)
KickOnce == \A x \in Pins : pulses[x] <= 1

(* The address in Dev is the one the controller really targets: a stuck    *)
(* controller never gets a panel attributed to the wrong address.          *)
PanelAttributed ==
  (found # NotFound /\ found.base \in DwBases) =>
    tar[found.base] = found.addr /\ panel.base = found.base

(* Whoever reads through the DesignWare path has it selected, and the      *)
(* transport selected after the attempt is the one that found the panel.   *)
TransportMatches ==
  /\ pc \in {"profRead", "fbRead"} => kind = "dw"
  /\ pc = "idle" =>
       (kind = "dw" <=> found = NotFound \/ found.base \in DwBases)

(* No register of a gated tile is ever programmed. *)
PoweredBeforeUse == \A x \in DwBases : enabled[x] => power[x] = "d0"

(* A failed attempt leaves every DesignWare controller disabled, when none *)
(* of them has refused it.                                                 *)
FailureLeavesIdle ==
  (pc = "idle" /\ found = NotFound /\ healthy) => \A x \in DwBases : ~enabled[x]

(* The places the sweep of profile i covers. *)
SearchSpace(i) ==
  {[base |-> x, addr |-> ad, reg |-> rg] :
     x \in IF IsSweep(i) THEN {y \in FchBases : power[y] = "d0"}
           ELSE {Profiles[i].base},
     ad \in {Addrs[n] : n \in DOMAIN Addrs},
     rg \in {Regs[n] : n \in DOMAIN Regs}}
  \cup (IF IsSweep(i) THEN {}
        ELSE {[base |-> Profiles[i].base, addr |-> Profiles[i].addr,
               reg |-> Profiles[i].reg]})

(* An attempt that fails did not overlook the panel: on healthy hardware   *)
(* with whole SMBIOS tables, one that is where the profile they name or    *)
(* its alternates say, and was awake from the start, is found; unless the  *)
(* attempt has reset it itself, by the one kick of its line: then it is up *)
(* again too late for the sweep, and it takes another attempt to find it.  *)
NoMissedPanel ==
  (pc = "idle" /\ attempt > 0 /\ found = NotFound /\ knew /\ healthy
   /\ legible = "whole") =>
    panel \notin UNION {SearchSpace(i) : i \in named}

(* "If the tile was freshly powered (firmware never programmed it), the    *)
(* full 400 kHz timing is programmed rather than inherited."               *)
FreshTimingProgrammed ==
  (found # NotFound /\ found.base \in DwBases) => timing[found.base] # "reset"

(* It does hold as long as no tile misses its deadline and nothing fails.  *)
PromptTimingProgrammed == healthy => FreshTimingProgrammed
=============================================================================
