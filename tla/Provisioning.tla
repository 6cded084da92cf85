------------------------------ MODULE Provisioning -----------------------------
(***************************************************************************)
(* The settings of the device: AppServices::init verifies the receiver and *)
(* the radio (Phase A), loads, mends and applies the settings in flash     *)
(* (Phase B) and starts the loop (Phase C), whose console lets an operator *)
(* change what the next boot applies.                                      *)
(*                                                                         *)
(* A setting is a key of its own in the flash store.  The code writes keys *)
(* one after the other, heeds no result of a write, and may lose power     *)
(* between any two of them.                                                *)
(***************************************************************************)
EXTENDS RadioDriver, Sequences, FiniteSets

CONSTANTS
  Absent,         \* the value of a key that is not there
  FirstStores,    \* what the flash may hold when the device is first switched on
  Intervals,      \* intervals the operator enters, of those accepted, in seconds
  Silences,       \* silences the operator enters, of those accepted, in steps of ten seconds
  Distances,      \* distances the operator enters, of those accepted, in metres; "nan",
                  \* which the shell accepts as well, is left out
  MaxCommands,    \* bound: commands of the operator
  MaxFaults       \* bound: power failures and failed writes

ASSUME ProvisioningAssumption ==
  /\ Absent \notin Nat
  /\ Intervals \subseteq 1 .. 3600
  /\ Silences \subseteq 1 .. 255
  /\ Distances \subseteq 0 .. 1000
  /\ MaxCommands \in Nat
  /\ MaxFaults \in Nat

VARIABLES
  nvs,            \* the keys in flash
  puts,           \* writes that the running call has still to do, in order
  phase,          \* where the boot or the loop is
  gnss_up,        \* whether the receiver answered, at once or after a second init
  boot_report,    \* radio_boot_result_ of the shell
  applied,        \* role and profile the loop runs with
  promised,       \* role and profile that the next boot was said to apply
  intact,         \* no write was cut short or lost since the keys were last whole
  commands,       \* commands so far
  faults          \* power failures and failed writes so far

settings == <<nvs, puts, phase, gnss_up, boot_report, applied, promised, intact,
              commands, faults>>
provVars == <<radioVars, settings>>

ProfileKeys == {"interval", "silence", "dist"}
PointerKeys == {"role_cur", "prof_cur", "role_prev", "prof_prev"}
Keys == ProfileKeys \cup PointerKeys

Values == Nat \cup {Absent}
Stores == [Keys -> Values]

ASSUME StoreAssumption == FirstStores \subseteq Stores

Profile(i, s, d) == [interval |-> i, silence |-> s, dist |-> d]

\* get_ootb_role_profile: Person, Dog, and the tracker.
OotbProfile(role) ==
  CASE role = 1 -> Profile(11, 5, 15)
    [] role = 2 -> Profile(360, 255, 100)
    [] OTHER    -> Profile(22, 11, 30)

\* Mutant: the silence may be shorter than three intervals.
ValidInRange(p) ==
  p.interval \in 1 .. 3600 /\ p.silence \in 1 .. 255 /\ p.dist \in 0 .. 1000

Valid(p) ==
  /\ p.interval \in 1 .. 3600
  /\ p.silence \in 1 .. 255
  /\ p.dist \in 0 .. 1000
  /\ p.silence * 10 >= 3 * p.interval

\* load_current_role_profile_record, first its valid flag and then its record.
ProfileValid(store) ==
  /\ \A k \in ProfileKeys : store[k] # Absent
  /\ Valid(Profile(store["interval"], store["silence"], store["dist"]))

\* The casts of interval and silence to 16 and 8 bits are left out: every operation stores
\* intervals of up to 3600 and silences of up to 255 only.
LoadedProfile(store) ==
  IF ProfileValid(store)
  THEN Profile(store["interval"], store["silence"], store["dist"])
  ELSE OotbProfile(0)

\* load_pointers: a pointer that is not there reads as 0.
Pointer(store, k) == IF store[k] = Absent THEN 0 ELSE store[k]

\* The writes of save_pointers, but for the schema version, which nothing reads.
PointerPuts(role, radio, prev_role, prev_radio) ==
  << <<"role_cur", role>>, <<"prof_cur", radio>>,
     <<"role_prev", prev_role>>, <<"prof_prev", prev_radio>> >>

\* The writes of save_current_role_profile_record.
ProfilePuts(p) == << <<"interval", p.interval>>, <<"silence", p.silence>>, <<"dist", p.dist>> >>

\* The writes of factory_reset_pointers: four removals, then the defaults.
ResetPuts ==
  << <<"role_cur", Absent>>, <<"prof_cur", Absent>>,
     <<"role_prev", Absent>>, <<"prof_prev", Absent>> >>
  \o PointerPuts(0, 0, 0, 0) \o ProfilePuts(OotbProfile(0))

-------------------------------------------------------------------------------
(* Phase B *)

EffectiveRole(store) ==
  IF store["role_cur"] # Absent /\ store["role_cur"] <= 2 THEN store["role_cur"] ELSE 0

RoleNormalized(store) ==
  store["role_cur"] # Absent /\ EffectiveRole(store) # store["role_cur"]

\* Only profile 0, the factory's, is known.
RadioChanged(store) == store["prof_cur"] # Absent /\ store["prof_cur"] # 0

NeedsProfile(store) == ~ProfileValid(store) \/ RoleNormalized(store)

EffectiveProfile(store) ==
  IF NeedsProfile(store) THEN OotbProfile(EffectiveRole(store)) ELSE LoadedProfile(store)

\* What a boot that finds this store applies.
Effective(store) ==
  [role |-> EffectiveRole(store), profile |-> EffectiveProfile(store)]

\* What Phase B writes, whether it changes anything or not.
BootPuts(store) ==
  (IF NeedsProfile(store) THEN ProfilePuts(EffectiveProfile(store)) ELSE <<>>)
  \o PointerPuts(
       EffectiveRole(store), 0,
       IF RoleNormalized(store) THEN store["role_cur"] ELSE Pointer(store, "role_prev"),
       IF RadioChanged(store) THEN store["prof_cur"] ELSE Pointer(store, "prof_prev"))

-------------------------------------------------------------------------------

ProvInit ==
  /\ RadioInit
  /\ nvs \in FirstStores
  /\ puts = <<>>
  /\ phase = "off"
  /\ gnss_up = FALSE
  /\ boot_report = "Ok"
  /\ applied = Effective(nvs)
  /\ promised = Effective(nvs)
  /\ intact = TRUE
  /\ commands = 0
  /\ faults = 0

SettingsStill == UNCHANGED <<nvs, puts, applied, promised, intact, commands, faults>>

PowerOn ==
  /\ phase = "off"
  /\ phase' = "gnss"
  /\ SettingsStill
  /\ UNCHANGED <<gnss_up, boot_report, radioVars>>

\* Phase A, the receiver: verify_on_boot, once more after a second init if it failed.
VerifyGnss ==
  /\ phase = "gnss"
  /\ \E answer \in Results :
       /\ boot_report' = answer
       /\ gnss_up' = (answer # "RepairFailed")
  /\ phase' = "radio"
  /\ RadioOn
  /\ SettingsStill

BootRadio ==
  /\ phase = "radio"
  /\ RadioBoot
  /\ UNCHANGED settings

\* combined_result: the worse of two results.
Worse(g, r) ==
  IF "RepairFailed" \in {g, r} THEN "RepairFailed"
  ELSE IF "Repaired" \in {g, r} THEN "Repaired" ELSE "Ok"

\* The end of Phase A, and Phase B up to its writes.
Provision ==
  /\ phase = "radio"
  /\ radio_step = "up"
  /\ phase' = "save"
  /\ boot_report' = Worse(boot_report, result)
  /\ applied' = Effective(nvs)
  /\ puts' = BootPuts(nvs)
  /\ UNCHANGED <<nvs, gnss_up, promised, intact, commands, faults>>
  /\ UNCHANGED radioVars

\* Phase C: the runtime is wired and the loop runs.
StartLoop ==
  /\ phase = "save"
  /\ puts = <<>>
  /\ phase' = "run"
  /\ UNCHANGED <<nvs, puts, gnss_up, boot_report, applied, promised, intact, commands, faults>>
  /\ UNCHANGED radioVars

\* One write of the running call.
Put ==
  /\ puts # <<>>
  /\ nvs' = [nvs EXCEPT ![Head(puts)[1]] = Head(puts)[2]]
  /\ puts' = Tail(puts)
  /\ UNCHANGED <<phase, gnss_up, boot_report, applied, promised, intact, commands, faults>>
  /\ UNCHANGED radioVars

\* A write fails and nobody looks.
PutFails ==
  /\ puts # <<>>
  /\ faults < MaxFaults
  /\ faults' = faults + 1
  /\ intact' = (intact /\ nvs[Head(puts)[1]] = Head(puts)[2])
  /\ puts' = Tail(puts)
  /\ UNCHANGED <<nvs, phase, gnss_up, boot_report, applied, promised, commands>>
  /\ UNCHANGED radioVars

\* A boot that is cut short is done again by the next one, unless it was mending the
\* profile of a role that it keeps: half a mended profile may look like a whole one.
CutIsHarmless ==
  \/ puts = <<>>
  \/ phase = "save" /\ (RoleNormalized(nvs) \/ Len(puts) <= Cardinality(PointerKeys))

MemoryLost ==
  /\ gnss_up' = FALSE
  /\ boot_report' = "Ok"
  /\ RadioOff

\* The power fails: the memory and the writes that are left are lost.
PowerFails ==
  /\ phase # "off"
  /\ faults < MaxFaults
  /\ faults' = faults + 1
  /\ phase' = "off"
  /\ puts' = <<>>
  /\ intact' = (intact /\ CutIsHarmless)
  /\ MemoryLost
  /\ UNCHANGED <<nvs, applied, promised, commands, regs>>

-------------------------------------------------------------------------------
(* The console.  A command returns when its writes are done; the loop takes the next line *)
(* after that.                                                                            *)

\* A command that is carried out: its writes, what the operator is told it means, and
\* whether the keys are whole after it.
Command(writes, role, profile, whole) ==
  /\ phase = "run"
  /\ puts = <<>>
  /\ commands < MaxCommands
  /\ commands' = commands + 1
  /\ puts' = writes
  /\ promised' = [role |-> role, profile |-> profile]
  /\ intact' = whole
  /\ UNCHANGED <<nvs, phase, gnss_up, boot_report, applied, faults>>
  /\ UNCHANGED radioVars

\* Mutant: the new role keeps the profile of the old one.
SetRoleOnly(id) ==
  Command(PointerPuts(id, Pointer(nvs, "prof_cur"), Pointer(nvs, "role_cur"),
                      Pointer(nvs, "prof_prev")),
          id, OotbProfile(id), TRUE)

SetRole(id) ==
  Command(PointerPuts(id, Pointer(nvs, "prof_cur"), Pointer(nvs, "role_cur"),
                      Pointer(nvs, "prof_prev"))
            \o ProfilePuts(OotbProfile(id)),
          id, OotbProfile(id), TRUE)

\* set radio: only 0 is accepted; the current role is written back as it was read.
SetRadio ==
  Command(PointerPuts(Pointer(nvs, "role_cur"), 0, Pointer(nvs, "role_prev"),
                      Pointer(nvs, "prof_cur")),
          promised.role, promised.profile, intact)

\* profile interval|silence|distance <value>: one field of the loaded record is changed.
\* The change is refused if the silence is then shorter than three intervals.  A distance is a
\* number here: the shell takes "nan" too, which neither of its two comparisons refuses, and
\* the next boot finds the record invalid.
SetField(k, v) ==
  LET p == [LoadedProfile(nvs) EXCEPT ![k] = v]
  IN  /\ k = "dist" \/ p.silence * 10 >= 3 * p.interval
      /\ Command(ProfilePuts(p), promised.role, [promised.profile EXCEPT ![k] = v], intact)

Reset == Command(ResetPuts, 0, OotbProfile(0), TRUE)

\* reboot: esp_restart, from the console only and so with no write left to do.
Reboot ==
  /\ phase = "run"
  /\ puts = <<>>
  /\ phase' = "off"
  /\ MemoryLost
  /\ SettingsStill
  /\ UNCHANGED regs

\* The loop polls the radio.
PollRadio ==
  /\ phase = "run"
  /\ Recv
  /\ UNCHANGED settings

Console ==
  \/ \E id \in 0 .. 2 : SetRole(id)
  \/ SetRadio
  \/ \E v \in Intervals : SetField("interval", v)
  \/ \E v \in Silences : SetField("silence", v)
  \/ \E v \in Distances : SetField("dist", v)
  \/ Reset
  \/ Reboot

ProvNext ==
  \/ PowerOn \/ VerifyGnss \/ BootRadio \/ Provision \/ StartLoop
  \/ Put \/ PutFails \/ PowerFails
  \/ Console
  \/ PollRadio

ProvSpec == ProvInit /\ [][ProvNext]_provVars

-------------------------------------------------------------------------------
(* Properties *)

Settings == [role : 0 .. 2, profile : [ProfileKeys -> Nat]]

\* Every variable has its type; the settings in use are those of a known role.
ProvTypeOK ==
  /\ RadioTypeOK
  /\ nvs \in Stores
  /\ puts \in Seq(Keys \X Values)
  /\ phase \in {"off", "gnss", "radio", "save", "run"}
  /\ gnss_up \in BOOLEAN
  /\ boot_report \in Results
  /\ applied \in Settings
  /\ promised \in Settings
  /\ intact \in BOOLEAN
  /\ commands \in 0 .. MaxCommands
  /\ faults \in 0 .. MaxFaults

\* A boot that reports no failed repair leaves a receiver that answers and, if the radio
\* works at all, a radio on the factory's channel and rate, whatever the module did.
ReportedIsTuned ==
  phase = "run" /\ boot_report # "RepairFailed" =>
    /\ gnss_up
    /\ ready => regs.rate = NormalRate /\ regs.chan = PresetChannel

\* Whatever writes were lost or cut short, in any order: the profile a boot applies is one
\* the self update policy can work with.
WhatBootsIsLegal ==
  LET p == applied.profile
  IN  /\ p.interval > 0
      /\ p.silence \in 1 .. 255
      /\ p.silence * 10 >= 3 * p.interval

\* What the console shows: status, get role and get profile.
Shown == [role |-> Pointer(nvs, "role_cur"), profile |-> LoadedProfile(nvs)]

\* As long as no write of a setting was lost or cut short, the next boot applies what the
\* console's answers promised, through any number of boots, and the console shows that.  It
\* does not hold of the command "profile distance nan", which Distances leaves out: its answer
\* is OK, and the next boot applies the role's built-in profile instead.
StoredIsPromised ==
  intact /\ puts = <<>> =>
    /\ Effective(nvs) = promised
    /\ phase = "run" => Shown = promised

\* What provisioning_baseline_v0 asks: a boot that reports Ok has found the radio configured
\* as expected.
NoFaultIsSilent ==
  phase = "run" /\ boot_report = "Ok" => ready /\ CriticalMatch(regs)

================================================================================
