------------------------------ MODULE DeviceProofs -----------------------------
(***************************************************************************)
(* What a boot reports is what it did, for any radio module, any contents  *)
(* of the flash and any number of faults and commands.                     *)
(*                                                                         *)
(* The radio's registers are read, written and read again in steps of      *)
(* which each may fail, and the report is put together from two results in *)
(* another phase than they come from.  The invariant says what each phase  *)
(* of the boot may rely on; what a boot applies is legal whatever store it *)
(* finds, and needs no invariant about the store.                          *)
(*                                                                         *)
(* What the console promises is stored.  The invariant speaks of the store *)
(* that the writes still to be done will make: each write, done or lost    *)
(* where its value was there already, leads on to the same one.  A power   *)
(* failure leaves a store on the way there; while a boot saves, the order  *)
(* of the writes makes that one stand for the same settings.               *)
(*                                                                         *)
(* The receiver's bytes are taken up one by one, wherever in a frame the   *)
(* parser begins and whatever was lost before.  The loop over the bytes of *)
(* a tick and the checksum are functions defined by recursion; that they   *)
(* exist, and that what each step keeps holds of the last value, is shown  *)
(* by looking at the smallest number for which it would fail.              *)
(* Likewise that a frame taken up from its start is taken up whole, with   *)
(* the checksum that the protocol defines.                                 *)
(***************************************************************************)
EXTENDS Provisioning, GnssReceiver, FiniteSetTheorems, SequenceTheorems, NaturalsInduction,
        WellFoundedInduction, TLAPS

\* What a radio that has come up without a failed repair is known to be.
RadioKnown ==
  radio_step = "up" /\ ready /\ result # "RepairFailed" =>
    /\ rssi_enabled = regs.rssi
    /\ regs.rate = NormalRate
    /\ regs.chan = PresetChannel

\* Packets are received only when the radio is up, and judged by what is known of it.
PacketsJudged ==
  /\ radio_step # "up" => handed = Nothing
  /\ LoneFrameDecodes

\* The phases of the boot and the steps of the radio's begin.
PhasesInOrder ==
  /\ phase \in {"off", "gnss"} => radio_step = "off"
  /\ phase \in {"save", "run"} => radio_step = "up"

\* The report is at least as bad as what it has been made of so far.
ReportHonest ==
  boot_report # "RepairFailed" =>
    /\ phase \in {"radio", "save", "run"} => gnss_up
    /\ phase \in {"save", "run"} => result # "RepairFailed"

BootInv == RadioKnown /\ PacketsJudged /\ PhasesInOrder /\ ReportHonest

-------------------------------------------------------------------------------

\* A device without power satisfies the invariant.
LEMMA InitBoot == ProvInit => BootInv
BY DEF ProvInit, RadioInit, BootInv, RadioKnown, PacketsJudged, LoneFrameDecodes, Nothing,
       PhasesInOrder, ReportHonest

\* The steps of begin: only a write changes registers, and it is read back or reported.
LEMMA RadioBootStep ==
  ASSUME RadioKnown, PacketsJudged, RadioBoot
  PROVE  RadioKnown' /\ PacketsJudged' /\ radio_step # "up"
<1>1. ASSUME RepairFails, radio_step # "up" PROVE RadioKnown' /\ PacketsJudged'
  BY <1>1 DEF RepairFails, RadioKnown, PacketsJudged, LoneFrameDecodes, Nothing
<1>2. CASE BeginLibrary
  BY <1>2 DEF BeginLibrary, RadioKnown, PacketsJudged, LoneFrameDecodes, Nothing
<1>3. CASE ReadConfiguration
  <2>1. CASE CriticalMatch(regs) /\ rssi_enabled' = regs.rssi /\ radio_step' = "up"
             /\ UNCHANGED <<regs, ready, result, handed>>
    BY <1>3, <2>1 DEF ReadConfiguration, CriticalMatch, Target, RadioKnown, PacketsJudged,
                      LoneFrameDecodes, Nothing
  <2>2. CASE radio_step' = "write" /\ UNCHANGED <<regs, ready, result, rssi_enabled, handed>>
    BY <1>3, <2>2 DEF ReadConfiguration, RadioKnown, PacketsJudged, LoneFrameDecodes, Nothing
  <2> QED
    BY <1>1, <1>3, <2>1, <2>2 DEF ReadConfiguration
<1>4. CASE WriteConfiguration
  <2>1. CASE radio_step' = "reread" /\ UNCHANGED <<ready, result, rssi_enabled, handed>>
    BY <1>4, <2>1 DEF WriteConfiguration, RadioKnown, PacketsJudged, LoneFrameDecodes, Nothing
  <2> QED
    BY <1>1, <1>4, <2>1 DEF WriteConfiguration
<1>5. CASE VerifyConfiguration
  <2>1. CASE /\ result' = IF Verified(regs) THEN "Repaired" ELSE "RepairFailed"
             /\ rssi_enabled' = regs.rssi
             /\ radio_step' = "up"
             /\ UNCHANGED <<ready, handed>>
    BY <1>5, <2>1 DEF VerifyConfiguration, Verified, Target, RadioKnown, PacketsJudged,
                      LoneFrameDecodes, Nothing
  <2> QED
    BY <1>1, <1>5, <2>1 DEF VerifyConfiguration
<1> QED
  BY <1>2, <1>3, <1>4, <1>5 DEF RadioBoot, BeginLibrary, ReadConfiguration,
                                WriteConfiguration, VerifyConfiguration

\* Every step keeps what the boot relies on.
LEMMA BootStep == BootInv /\ [ProvNext]_provVars => BootInv'
<1> SUFFICES ASSUME BootInv, [ProvNext]_provVars PROVE BootInv'
  OBVIOUS
<1> USE DEF BootInv
<1>1. ASSUME UNCHANGED radioVars, UNCHANGED <<phase, gnss_up, boot_report>> PROVE BootInv'
  BY <1>1 DEF radioVars, RadioKnown, PacketsJudged, LoneFrameDecodes, Nothing, PhasesInOrder, ReportHonest
<1>2. ASSUME RadioOff, boot_report' = "Ok", phase' = "off" PROVE BootInv'
  BY <1>2 DEF RadioOff, RadioKnown, PacketsJudged, LoneFrameDecodes, Nothing, PhasesInOrder, ReportHonest
<1>3. CASE PowerOn
  BY <1>3 DEF PowerOn, radioVars, RadioKnown, PacketsJudged, LoneFrameDecodes, Nothing, PhasesInOrder,
              ReportHonest
<1>4. CASE VerifyGnss
  BY <1>4 DEF VerifyGnss, RadioOn, RadioKnown, PacketsJudged, LoneFrameDecodes, Nothing, PhasesInOrder,
              ReportHonest
<1>5. CASE BootRadio
  <2>1. RadioKnown' /\ PacketsJudged' /\ radio_step # "up"
    BY <1>5, RadioBootStep DEF BootRadio
  <2>2. PhasesInOrder' /\ ReportHonest'
    BY <1>5, <2>1 DEF BootRadio, settings, PhasesInOrder, ReportHonest
  <2> QED
    BY <2>1, <2>2
<1>6. CASE Provision
  <2>1. RadioKnown' /\ PacketsJudged' /\ PhasesInOrder'
    BY <1>6 DEF Provision, radioVars, RadioKnown, PacketsJudged, LoneFrameDecodes, Nothing, PhasesInOrder
  <2>2. ReportHonest'
    BY <1>6 DEF Provision, radioVars, ReportHonest, Worse
  <2> QED
    BY <2>1, <2>2
<1>7. CASE StartLoop
  BY <1>7 DEF StartLoop, radioVars, RadioKnown, PacketsJudged, LoneFrameDecodes, Nothing, PhasesInOrder,
              ReportHonest
<1>8. CASE Put \/ PutFails
  BY <1>1, <1>8 DEF Put, PutFails
<1>9. CASE PowerFails \/ Reboot
  BY <1>2, <1>9 DEF PowerFails, Reboot, MemoryLost
<1>10. CASE Console /\ ~Reboot
  BY <1>1, <1>10 DEF Console, SetRole, SetRadio, SetField, Reset, Command
<1>11. CASE PollRadio
  <2>1. UNCHANGED <<phase, gnss_up, boot_report, regs, ready, result, rssi_enabled, radio_step>>
    BY <1>11 DEF PollRadio, Recv, settings
  <2>2. PacketsJudged'
    <3>1. PICK n \in 1 .. MaxWaiting : handed' \in {Received(n), Nothing}
      BY <1>11 DEF PollRadio, Recv
    <3>2. ASSUME n = 1, result # "RepairFailed" PROVE Received(n).stray = 0
      BY <1>11, <3>2 DEF Received, PollRadio, Recv, RadioKnown
    <3>3. Received(n).frames = n /\ Nothing.frames = 0
      BY DEF Received, Nothing
    <3>4. LoneFrameDecodes'
      BY <2>1, <3>1, <3>2, <3>3 DEF LoneFrameDecodes, Decodable
    <3>5. radio_step' = "up"
      BY <1>11 DEF PollRadio, Recv
    <3> QED
      BY <3>4, <3>5 DEF PacketsJudged
  <2> QED
    BY <2>1, <2>2 DEF RadioKnown, PhasesInOrder, ReportHonest
<1>12. CASE UNCHANGED provVars
  BY <1>1, <1>12 DEF provVars, settings
<1> QED
  BY <1>3, <1>4, <1>5, <1>6, <1>7, <1>8, <1>9, <1>10, <1>11, <1>12 DEF ProvNext, Console

\* What each phase of the boot relies on holds throughout.
THEOREM BootInvariant == ProvSpec => []BootInv
BY InitBoot, BootStep, PTL DEF ProvSpec

\* A boot that reports no failed repair has a receiver that answers and a tuned radio.
THEOREM ReportTrue == ProvSpec => []ReportedIsTuned
<1>1. BootInv => ReportedIsTuned
  BY DEF BootInv, RadioKnown, PhasesInOrder, ReportHonest, ReportedIsTuned
<1> QED
  BY BootInvariant, <1>1, PTL

\* Only after a failed repair may a frame that waited alone be handed up with a byte too many
\* or too few.
THEOREM LoneFrameReceived == ProvSpec => []LoneFrameDecodes
<1>1. BootInv => LoneFrameDecodes
  BY DEF BootInv, PacketsJudged
<1> QED
  BY BootInvariant, <1>1, PTL

-------------------------------------------------------------------------------
(* What is applied *)

\* A profile the self update policy can work with.
Legal(p) ==
  /\ p.interval > 0
  /\ p.silence \in 1 .. 255
  /\ p.silence * 10 >= 3 * p.interval

\* What the validation of a loaded profile accepts, the policy can work with.
LEMMA ValidIsLegal ==
  ASSUME NEW p, Valid(p)
  PROVE  Legal(p)
<1> DEFINE i == p.interval
<1>1. i \in 1 .. 3600
  BY DEF Valid
<1> HIDE DEF i
<1>2. i > 0
  BY <1>1
<1>3. p.interval > 0
  BY <1>2 DEF i
<1>4. p.silence \in 1 .. 255 /\ p.silence * 10 >= 3 * p.interval
  BY DEF Valid
<1> QED
  BY <1>3, <1>4 DEF Legal

\* So can it with the profile a device comes with, whatever its role.
LEMMA OotbIsLegal == \A role : Legal(OotbProfile(role))
BY DEF Legal, OotbProfile, Profile

\* Whatever the flash holds, a boot applies a legal profile.
LEMMA EffectiveIsLegal == \A store : Legal(Effective(store).profile)
<1> SUFFICES ASSUME NEW store PROVE Legal(EffectiveProfile(store))
  BY DEF Effective
<1>1. CASE NeedsProfile(store)
  BY <1>1, OotbIsLegal DEF EffectiveProfile
<1>2. CASE ~NeedsProfile(store)
  <2>1. ProfileValid(store)
    BY <1>2 DEF NeedsProfile
  <2>2. Valid(EffectiveProfile(store))
    BY <1>2, <2>1 DEF EffectiveProfile, LoadedProfile, ProfileValid
  <2> QED
    BY <2>2, ValidIsLegal
<1> QED
  BY <1>1, <1>2

\* Whatever writes were cut off or failed before, the profile that a boot applies is legal.
THEOREM AppliedIsLegal == ProvSpec => []WhatBootsIsLegal
<1>1. ProvInit => WhatBootsIsLegal
  BY EffectiveIsLegal DEF ProvInit, WhatBootsIsLegal, Legal
<1>2. WhatBootsIsLegal /\ [ProvNext]_provVars => WhatBootsIsLegal'
  <2> SUFFICES ASSUME WhatBootsIsLegal, [ProvNext]_provVars PROVE WhatBootsIsLegal'
    OBVIOUS
  <2>1. CASE Provision
    BY <2>1, EffectiveIsLegal DEF Provision, WhatBootsIsLegal, Legal
  <2>2. CASE ~Provision
    <3>1. UNCHANGED applied
      BY <2>2 DEF ProvNext, provVars, settings, PowerOn, VerifyGnss, BootRadio, StartLoop, Put,
                  PutFails, PowerFails, Console, SetRole, SetRadio, SetField, Reset, Command,
                  Reboot, PollRadio, SettingsStill
    <3> QED
      BY <3>1 DEF WhatBootsIsLegal
  <2> QED
    BY <2>1, <2>2
<1> QED
  BY <1>1, <1>2, PTL DEF ProvSpec

-------------------------------------------------------------------------------
(* What is promised *)

\* The store that a list of writes makes of a store: a key holds what is written to it last.
Becomes(writes, store, final) ==
  \A k \in Keys :
    \/ /\ \A i \in 1 .. Len(writes) : writes[i][1] # k
       /\ final[k] = store[k]
    \/ \E i \in 1 .. Len(writes) :
         /\ writes[i] = <<k, final[k]>>
         /\ \A j \in 1 .. Len(writes) : j > i => writes[j][1] # k

\* A store that holds these settings, whole and legal.
Holds(store, told) ==
  /\ told = [role    |-> store["role_cur"],
             profile |-> Profile(store["interval"], store["silence"], store["dist"])]
  /\ store["role_cur"] \in 0 .. 2
  /\ \A k \in ProfileKeys : store[k] \in Nat
  /\ Valid(told.profile)

\* With the writes left, the store becomes one that a boot applies as promised, and from the
\* end of a boot on it holds just what is promised.
PromiseKept ==
  intact =>
    \E final \in Stores :
      /\ Becomes(puts, nvs, final)
      /\ Effective(final) = promised
      /\ phase \in {"save", "run"} => Holds(final, promised)

\* While a boot saves: the profile is written before the pointers, the role in flash stands
\* for the one promised, and one that does not name itself comes with its own profile.
SavedInOrder ==
  phase = "save" /\ intact =>
    /\ \A i \in 1 .. Len(puts) :
         /\ puts[i][1] \in ProfileKeys => i + 4 <= Len(puts)
         /\ puts[i][1] = "role_cur" => puts[i][2] = promised.role
    /\ EffectiveRole(nvs) = promised.role
    /\ RoleNormalized(nvs) => promised.profile = OotbProfile(promised.role)

\* The inductive invariant of the settings.
SettingsInv ==
  /\ nvs \in Stores
  /\ puts \in Seq(Keys \X Values)
  /\ puts # <<>> => phase \in {"save", "run"}
  /\ PromiseKept
  /\ SavedInOrder

\* Nothing to write leaves a store as it is.
LEMMA NoWrites ==
  ASSUME NEW store \in Stores
  PROVE  /\ Becomes(<<>>, store, store)
         /\ \A final \in Stores : Becomes(<<>>, store, final) => final = store
<1>1. Len(<<>>) = 0
  OBVIOUS
<1>2. \A final \in Stores : Becomes(<<>>, store, final) <=> \A k \in Keys : final[k] = store[k]
  BY <1>1 DEF Becomes
<1> QED
  BY <1>2 DEF Stores

\* The first write, when it is done, is one of those that led to the same store.
LEMMA FirstWrite ==
  ASSUME NEW writes \in Seq(Keys \X Values), writes # <<>>,
         NEW store \in Stores, NEW final \in Stores, Becomes(writes, store, final)
  PROVE  LET then == [store EXCEPT ![Head(writes)[1]] = Head(writes)[2]]
         IN  then \in Stores /\ Becomes(Tail(writes), then, final)
<1> DEFINE h == Head(writes)
           rest == Tail(writes)
           then == [store EXCEPT ![h[1]] = h[2]]
           L == Len(writes)
<1>1. /\ h \in Keys \X Values /\ rest \in Seq(Keys \X Values)
      /\ Len(rest) = L - 1 /\ \A i \in 1 .. Len(rest) : rest[i] = writes[i + 1]
      /\ L \in Nat \ {0} /\ h = writes[1]
  BY HeadTailProperties, LenProperties, EmptySeq
<1>2. then \in Stores
  BY <1>1 DEF Stores
<1>3. \A i \in 1 .. L - 1 : rest[i] = writes[i + 1] /\ i + 1 \in 1 .. L
  BY <1>1
<1>4. \A k \in Keys : then[k] = IF k = h[1] THEN h[2] ELSE store[k]
  BY DEF Stores
<1> HIDE DEF h, rest, then, L
<1>5. ASSUME NEW k \in Keys
      PROVE  \/ /\ \A i \in 1 .. L - 1 : rest[i][1] # k
                /\ final[k] = then[k]
             \/ \E i \in 1 .. L - 1 :
                  /\ rest[i] = <<k, final[k]>>
                  /\ \A j \in 1 .. L - 1 : j > i => rest[j][1] # k
  <2>1. CASE /\ \A i \in 1 .. L : writes[i][1] # k
             /\ final[k] = store[k]
    <3>1. k # h[1]
      <4>1. 1 \in 1 .. L /\ h = writes[1]
        BY <1>1
      <4> QED
        BY <2>1, <4>1, Zenon
    <3> QED
      BY <1>3, <1>4, <2>1, <3>1
  <2>2. ASSUME NEW i \in 1 .. L, writes[i] = <<k, final[k]>>,
               \A j \in 1 .. L : j > i => writes[j][1] # k
        PROVE  \/ /\ \A j \in 1 .. L - 1 : rest[j][1] # k
                  /\ final[k] = then[k]
               \/ \E m \in 1 .. L - 1 :
                    /\ rest[m] = <<k, final[k]>>
                    /\ \A j \in 1 .. L - 1 : j > m => rest[j][1] # k
    <3>1. CASE i = 1
      <4>1. h = <<k, final[k]>>
        BY <1>1, <2>2, <3>1
      <4>2. then[k] = final[k]
        BY <1>4, <4>1
      <4>3. \A j \in 1 .. L - 1 : j + 1 > i
        BY <3>1
      <4> QED
        BY <1>3, <2>2, <4>2, <4>3
    <3>2. CASE i # 1
      <4>1. i - 1 \in 1 .. L - 1 /\ (i - 1) + 1 = i
        BY <1>1, <2>2, <3>2
      <4>2. \A j \in 1 .. L - 1 : j > i - 1 => j + 1 > i
        BY <1>1, <2>2
      <4> QED
        BY <1>3, <2>2, <4>1, <4>2
    <3> QED
      BY <3>1, <3>2
  <2> QED
    BY <2>1, <2>2 DEF Becomes, L
<1>6. Becomes(rest, then, final)
  BY <1>1, <1>5 DEF Becomes
<1> QED
  BY <1>2, <1>6 DEF h, rest, then

\* Writes one after the other.
LEMMA MoreWrites ==
  ASSUME NEW q \in Seq(Keys \X Values), NEW r \in Seq(Keys \X Values),
         NEW store, NEW middle, NEW final,
         Becomes(q, store, middle), Becomes(r, middle, final)
  PROVE  q \o r \in Seq(Keys \X Values) /\ Becomes(q \o r, store, final)
<1> DEFINE w == q \o r
           a == Len(q)
           b == Len(r)
<1>1. /\ w \in Seq(Keys \X Values) /\ Len(w) = a + b
      /\ \A i \in 1 .. a + b : w[i] = IF i <= a THEN q[i] ELSE r[i - a]
      /\ a \in Nat /\ b \in Nat
  BY ConcatProperties, LenProperties
<1> HIDE DEF w
<1>2. /\ \A i \in 1 .. a : i \in 1 .. a + b /\ w[i] = q[i]
      /\ \A i \in 1 .. b : i + a \in 1 .. a + b /\ w[i + a] = r[i]
      /\ \A i \in 1 .. a + b : \/ i \in 1 .. a
                               \/ i - a \in 1 .. b /\ (i - a) + a = i
  <2> HIDE DEF a, b
  <2>1. \A i \in 1 .. a : i \in 1 .. a + b /\ w[i] = q[i]
    BY <1>1
  <2>2. ASSUME NEW i \in 1 .. b PROVE i + a \in 1 .. a + b /\ w[i + a] = r[i]
    <3>1. i + a \in 1 .. a + b /\ ~(i + a <= a) /\ (i + a) - a = i
      BY <1>1
    <3> QED
      BY <1>1, <3>1
  <2> QED
    BY <1>1, <2>1, <2>2
<1>3. ASSUME NEW k \in Keys
      PROVE  \/ /\ \A i \in 1 .. a + b : w[i][1] # k
                /\ final[k] = store[k]
             \/ \E i \in 1 .. a + b :
                  /\ w[i] = <<k, final[k]>>
                  /\ \A j \in 1 .. a + b : j > i => w[j][1] # k
  <2>1. CASE \E i \in 1 .. b :
               /\ r[i] = <<k, final[k]>>
               /\ \A j \in 1 .. b : j > i => r[j][1] # k
    <3>1. PICK i \in 1 .. b :
               /\ r[i] = <<k, final[k]>>
               /\ \A j \in 1 .. b : j > i => r[j][1] # k
      BY <2>1
    <3>2. ASSUME NEW j \in 1 .. a + b, j > i + a PROVE w[j][1] # k
      <4> HIDE DEF a, b
      <4>1. j - a \in 1 .. b /\ j - a > i /\ (j - a) + a = j
        BY <1>1, <3>2
      <4> QED
        BY <1>2, <3>1, <4>1
    <3> QED
      BY <1>2, <3>1, <3>2
  <2>2. CASE /\ \A i \in 1 .. b : r[i][1] # k
             /\ final[k] = middle[k]
    <3> HIDE DEF a, b
    <3>0. ASSUME NEW j \in 1 .. a + b, j \notin 1 .. a PROVE w[j][1] # k
      <4>1. j - a \in 1 .. b /\ (j - a) + a = j
        BY <1>2, <3>0
      <4>2. w[(j - a) + a] = r[j - a]
        BY <1>2, <4>1
      <4>3. w[j] = r[j - a]
        BY <4>1, <4>2
      <4> QED
        BY <2>2, <4>1, <4>3
    <3>1. CASE /\ \A i \in 1 .. a : q[i][1] # k
               /\ middle[k] = store[k]
      <4>1. \A i \in 1 .. a + b : w[i][1] # k
        BY <1>2, <3>0, <3>1
      <4> QED
        BY <2>2, <3>1, <4>1
    <3>2. CASE \E i \in 1 .. a :
                 /\ q[i] = <<k, middle[k]>>
                 /\ \A j \in 1 .. a : j > i => q[j][1] # k
      <4>1. PICK i \in 1 .. a :
                 /\ q[i] = <<k, middle[k]>>
                 /\ \A j \in 1 .. a : j > i => q[j][1] # k
        BY <3>2
      <4>2. \A j \in 1 .. a + b : j > i => w[j][1] # k
        BY <1>2, <3>0, <4>1
      <4> QED
        BY <1>2, <2>2, <4>1, <4>2
    <3> QED
      BY <3>1, <3>2 DEF Becomes, a
  <2> QED
    BY <2>1, <2>2 DEF Becomes
<1> QED
  BY <1>1, <1>3 DEF Becomes, w

\* A store with other pointers, and one with another profile.
Pointed(store, role, radio, prev_role, prev_radio) ==
  [k \in Keys |-> IF k = "role_cur" THEN role ELSE IF k = "prof_cur" THEN radio
                  ELSE IF k = "role_prev" THEN prev_role
                  ELSE IF k = "prof_prev" THEN prev_radio ELSE store[k]]
Profiled(store, p) ==
  [k \in Keys |-> IF k = "interval" THEN p.interval ELSE IF k = "silence" THEN p.silence
                  ELSE IF k = "dist" THEN p.dist ELSE store[k]]

\* What save_pointers makes of a store.
LEMMA PointersWritten ==
  ASSUME NEW store \in Stores, NEW a \in Values, NEW b \in Values, NEW c \in Values, NEW d \in Values
  PROVE  /\ PointerPuts(a, b, c, d) \in Seq(Keys \X Values)
         /\ Pointed(store, a, b, c, d) \in Stores
         /\ Becomes(PointerPuts(a, b, c, d), store, Pointed(store, a, b, c, d))
<1> DEFINE w == PointerPuts(a, b, c, d)
           f == Pointed(store, a, b, c, d)
<1>1. /\ Len(w) = 4 /\ w[1] = <<"role_cur", a>> /\ w[2] = <<"prof_cur", b>>
      /\ w[3] = <<"role_prev", c>> /\ w[4] = <<"prof_prev", d>>
  BY DEF PointerPuts
<1>2. w \in Seq(Keys \X Values)
  BY DEF PointerPuts, Keys, PointerKeys
<1>3. f \in Stores
  BY DEF Pointed, Stores
<1>4. /\ f["role_cur"] = a /\ f["prof_cur"] = b /\ f["role_prev"] = c /\ f["prof_prev"] = d
      /\ \A k \in ProfileKeys : f[k] = store[k]
  BY DEF Pointed, Keys, PointerKeys, ProfileKeys
<1> HIDE DEF w, f
<1>5. ASSUME NEW k \in Keys
      PROVE  \/ /\ \A i \in 1 .. 4 : w[i][1] # k
                /\ f[k] = store[k]
             \/ \E i \in 1 .. 4 :
                  /\ w[i] = <<k, f[k]>>
                  /\ \A j \in 1 .. 4 : j > i => w[j][1] # k
  <2>1. \A i \in 1 .. 4 : i = 1 \/ i = 2 \/ i = 3 \/ i = 4
    OBVIOUS
  <2>2. CASE k \in ProfileKeys
    BY <1>1, <1>4, <2>1, <2>2 DEF ProfileKeys
  <2>3. CASE k = "role_cur"
    BY <1>1, <1>4, <2>1, <2>3
  <2>4. CASE k = "prof_cur"
    BY <1>1, <1>4, <2>1, <2>4
  <2>5. CASE k = "role_prev"
    BY <1>1, <1>4, <2>1, <2>5
  <2>6. CASE k = "prof_prev"
    BY <1>1, <1>4, <2>1, <2>6
  <2> QED
    BY <2>2, <2>3, <2>4, <2>5, <2>6 DEF Keys, PointerKeys
<1> QED
  BY <1>1, <1>2, <1>3, <1>5 DEF Becomes, w, f

\* What save_current_role_profile_record makes of a store.
LEMMA ProfileWritten ==
  ASSUME NEW store \in Stores, NEW p,
         p.interval \in Values, p.silence \in Values, p.dist \in Values
  PROVE  /\ ProfilePuts(p) \in Seq(Keys \X Values)
         /\ Profiled(store, p) \in Stores
         /\ Becomes(ProfilePuts(p), store, Profiled(store, p))
<1> DEFINE w == ProfilePuts(p)
           f == Profiled(store, p)
<1>1. /\ Len(w) = 3 /\ w[1] = <<"interval", p.interval>> /\ w[2] = <<"silence", p.silence>>
      /\ w[3] = <<"dist", p.dist>>
  BY DEF ProfilePuts
<1>2. w \in Seq(Keys \X Values)
  BY DEF ProfilePuts, Keys, ProfileKeys
<1>3. f \in Stores
  BY DEF Profiled, Stores
<1>4. /\ f["interval"] = p.interval /\ f["silence"] = p.silence /\ f["dist"] = p.dist
      /\ \A k \in PointerKeys : f[k] = store[k]
  BY DEF Profiled, Keys, PointerKeys, ProfileKeys
<1> HIDE DEF w, f
<1>5. ASSUME NEW k \in Keys
      PROVE  \/ /\ \A i \in 1 .. 3 : w[i][1] # k
                /\ f[k] = store[k]
             \/ \E i \in 1 .. 3 :
                  /\ w[i] = <<k, f[k]>>
                  /\ \A j \in 1 .. 3 : j > i => w[j][1] # k
  <2>1. \A i \in 1 .. 3 : i = 1 \/ i = 2 \/ i = 3
    OBVIOUS
  <2>2. CASE k \in PointerKeys
    BY <1>1, <1>4, <2>1, <2>2 DEF PointerKeys
  <2>3. CASE k = "interval"
    BY <1>1, <1>4, <2>1, <2>3
  <2>4. CASE k = "silence"
    BY <1>1, <1>4, <2>1, <2>4
  <2>5. CASE k = "dist"
    BY <1>1, <1>4, <2>1, <2>5
  <2> QED
    BY <2>2, <2>3, <2>4, <2>5 DEF Keys, ProfileKeys
<1> QED
  BY <1>1, <1>2, <1>3, <1>5 DEF Becomes, w, f

\* The fields of a profile.
LEMMA ProfileFields ==
  ASSUME NEW i, NEW s, NEW d
  PROVE  Profile(i, s, d).interval = i /\ Profile(i, s, d).silence = s /\ Profile(i, s, d).dist = d
BY DEF Profile

\* The profiles the device comes with are valid.
LEMMA OotbIsValid ==
  ASSUME NEW role
  PROVE  /\ Valid(OotbProfile(role))
         /\ \E i, s, d \in Nat : OotbProfile(role) = Profile(i, s, d)
<1>1. \/ OotbProfile(role) = Profile(11, 5, 15)
      \/ OotbProfile(role) = Profile(360, 255, 100)
      \/ OotbProfile(role) = Profile(22, 11, 30)
  BY DEF OotbProfile
<1>2. /\ Valid(Profile(11, 5, 15)) /\ Valid(Profile(360, 255, 100)) /\ Valid(Profile(22, 11, 30))
  BY DEF Valid, Profile
<1> QED
  BY <1>1, <1>2

\* A store that holds settings is one of which a boot applies them and the console shows them.
LEMMA HeldIsApplied ==
  ASSUME NEW store \in Stores, NEW told, Holds(store, told)
  PROVE  /\ Effective(store) = told
         /\ Pointer(store, "role_cur") = told.role /\ ~RoleNormalized(store)
         /\ EffectiveRole(store) = told.role
         /\ LoadedProfile(store) = told.profile
<1>1. /\ Absent \notin Nat /\ told.role \in 0 .. 2 /\ store["role_cur"] = told.role
      /\ \A k \in ProfileKeys : store[k] \in Nat
  BY ProvisioningAssumption DEF Holds
<1>2. ProfileValid(store) /\ LoadedProfile(store) = told.profile
  BY <1>1 DEF Holds, ProfileValid, LoadedProfile
<1>3. store["role_cur"] # Absent /\ store["role_cur"] <= 2
  BY <1>1
<1>4. EffectiveRole(store) = told.role /\ Pointer(store, "role_cur") = told.role
  BY <1>1, <1>3 DEF EffectiveRole, Pointer
<1>5. ~RoleNormalized(store)
  BY <1>1, <1>4 DEF RoleNormalized
<1>6. EffectiveProfile(store) = told.profile
  BY <1>2, <1>5 DEF EffectiveProfile, NeedsProfile
<1>7. told = [role |-> told.role, profile |-> told.profile]
  BY DEF Holds
<1> QED
  BY <1>2, <1>4, <1>5, <1>6, <1>7 DEF Effective

\* What a boot applies is a role it knows and a valid profile.
LEMMA EffectiveIsWhole ==
  ASSUME NEW store \in Stores
  PROVE  /\ EffectiveRole(store) \in 0 .. 2
         /\ Valid(EffectiveProfile(store))
         /\ \E i, s, d \in Nat : EffectiveProfile(store) = Profile(i, s, d)
         /\ ~NeedsProfile(store) =>
              /\ EffectiveProfile(store) = Profile(store["interval"], store["silence"], store["dist"])
              /\ \A k \in ProfileKeys : store[k] \in Nat
         /\ RoleNormalized(store) => EffectiveProfile(store) = OotbProfile(EffectiveRole(store))
<1>1. EffectiveRole(store) \in 0 .. 2
  <2>1. store["role_cur"] \in Values
    BY DEF Stores, Keys, PointerKeys
  <2> QED
    BY <2>1 DEF EffectiveRole, Values
<1>2. CASE NeedsProfile(store)
  BY <1>1, <1>2, OotbIsValid DEF EffectiveProfile
<1>3. CASE ~NeedsProfile(store)
  <2>1. /\ \A k \in ProfileKeys : store[k] # Absent
        /\ Valid(Profile(store["interval"], store["silence"], store["dist"]))
    BY <1>3 DEF NeedsProfile, ProfileValid
  <2>2. \A k \in ProfileKeys : store[k] \in Nat
    BY <2>1 DEF Stores, Values, Keys
  <2>3. EffectiveProfile(store) = Profile(store["interval"], store["silence"], store["dist"])
    BY <1>3 DEF EffectiveProfile, LoadedProfile, NeedsProfile
  <2>4. store["interval"] \in Nat /\ store["silence"] \in Nat /\ store["dist"] \in Nat
    BY <2>2 DEF ProfileKeys
  <2>5. ~RoleNormalized(store)
    BY <1>3 DEF NeedsProfile
  <2> QED
    BY <1>1, <2>1, <2>2, <2>3, <2>4, <2>5
<1> QED
  BY <1>2, <1>3

\* A store with a role and a profile written to it holds them.
LEMMA WrittenIsHeld ==
  ASSUME NEW store \in Stores, NEW role \in 0 .. 2, NEW i \in Nat, NEW s \in Nat, NEW d \in Nat,
         Valid(Profile(i, s, d)),
         store["role_cur"] = role, store["interval"] = i, store["silence"] = s, store["dist"] = d
  PROVE  Holds(store, [role |-> role, profile |-> Profile(i, s, d)])
BY DEF Holds, ProfileKeys

\* The writes of a boot keep what it applies, in the order that SavedInOrder says.
LEMMA BootWrites ==
  ASSUME NEW store \in Stores
  PROVE  /\ BootPuts(store) \in Seq(Keys \X Values)
         /\ \E final \in Stores :
              Becomes(BootPuts(store), store, final) /\ Holds(final, Effective(store))
         /\ \A i \in 1 .. Len(BootPuts(store)) :
              /\ BootPuts(store)[i][1] \in ProfileKeys => i + 4 <= Len(BootPuts(store))
              /\ BootPuts(store)[i][1] = "role_cur" =>
                   BootPuts(store)[i][2] = EffectiveRole(store)
<1> DEFINE r == EffectiveRole(store)
           p == EffectiveProfile(store)
           c == IF RoleNormalized(store) THEN store["role_cur"] ELSE Pointer(store, "role_prev")
           d == IF RadioChanged(store) THEN store["prof_cur"] ELSE Pointer(store, "prof_prev")
           first == IF NeedsProfile(store) THEN ProfilePuts(p) ELSE <<>>
           middle == IF NeedsProfile(store) THEN Profiled(store, p) ELSE store
           second == PointerPuts(r, 0, c, d)
           final == Pointed(middle, r, 0, c, d)
<1>1. /\ r \in 0 .. 2 /\ Valid(p)
      /\ ~NeedsProfile(store) =>
           /\ p = Profile(store["interval"], store["silence"], store["dist"])
           /\ \A k \in ProfileKeys : store[k] \in Nat
  BY EffectiveIsWhole
<1>2. PICK i, s, e \in Nat : p = Profile(i, s, e)
  BY EffectiveIsWhole
<1>3. p.interval = i /\ p.silence = s /\ p.dist = e
  BY <1>2, ProfileFields
<1>4. r \in Values /\ 0 \in Values /\ c \in Values /\ d \in Values
  BY <1>1 DEF Values, Stores, Keys, PointerKeys, Pointer
<1>5. BootPuts(store) = first \o second
  BY DEF BootPuts
<1>6. Effective(store) = [role |-> r, profile |-> p]
  BY DEF Effective
<1> HIDE DEF r, p, c, d
<1>7. first \in Seq(Keys \X Values) /\ middle \in Stores /\ Becomes(first, store, middle)
  <2>1. p.interval \in Values /\ p.silence \in Values /\ p.dist \in Values
    BY <1>3 DEF Values
  <2>2. /\ ProfilePuts(p) \in Seq(Keys \X Values) /\ Profiled(store, p) \in Stores
        /\ Becomes(ProfilePuts(p), store, Profiled(store, p))
    BY <2>1, ProfileWritten
  <2>3. Becomes(<<>>, store, store) /\ <<>> \in Seq(Keys \X Values)
    BY NoWrites
  <2> QED
    BY <2>2, <2>3
<1>8. middle["interval"] = i /\ middle["silence"] = s /\ middle["dist"] = e
  <2>1. CASE NeedsProfile(store)
    BY <1>3, <2>1 DEF Profiled, Keys, ProfileKeys
  <2>2. CASE ~NeedsProfile(store)
    <3>1. p = Profile(store["interval"], store["silence"], store["dist"])
      BY <1>1, <2>2
    <3> QED
      BY <1>3, <2>2, <3>1, ProfileFields
  <2> QED
    BY <2>1, <2>2
<1>9. /\ second \in Seq(Keys \X Values) /\ final \in Stores /\ Becomes(second, middle, final)
  <2> HIDE DEF middle
  <2> QED
    BY <1>4, <1>7, PointersWritten
<1>10. /\ final["role_cur"] = r /\ final["interval"] = i /\ final["silence"] = s
       /\ final["dist"] = e
  <2> HIDE DEF middle
  <2> QED
    BY <1>8 DEF Pointed, Keys, PointerKeys, ProfileKeys
<1>11. Holds(final, Effective(store))
  <2> HIDE DEF final
  <2> QED
    BY <1>1, <1>2, <1>6, <1>9, <1>10, WrittenIsHeld
<1>12. first \o second \in Seq(Keys \X Values) /\ Becomes(first \o second, store, final)
  <2> HIDE DEF first, second, middle, final
  <2> QED
    BY <1>7, <1>9, MoreWrites
<1>13. \A n \in 1 .. Len(first \o second) :
         /\ (first \o second)[n][1] \in ProfileKeys => n + 4 <= Len(first \o second)
         /\ (first \o second)[n][1] = "role_cur" => (first \o second)[n][2] = r
  <2>1. /\ Len(second) = 4 /\ second[1] = <<"role_cur", r>> /\ second[2] = <<"prof_cur", 0>>
        /\ second[3] = <<"role_prev", c>> /\ second[4] = <<"prof_prev", d>>
    BY DEF PointerPuts
  <2>2. /\ Len(first) \in Nat
        /\ \A n \in 1 .. Len(first) : first[n][1] # "role_cur"
    <3>1. CASE NeedsProfile(store)
      <4>1. first = << <<"interval", p.interval>>, <<"silence", p.silence>>, <<"dist", p.dist>> >>
        BY <3>1 DEF ProfilePuts
      <4> QED
        BY <4>1
    <3>2. CASE ~NeedsProfile(store)
      BY <3>2
    <3> QED
      BY <3>1, <3>2
  <2> HIDE DEF first, second
  <2> DEFINE m == Len(first)
             w == first \o second
  <2>3. /\ Len(w) = m + 4
        /\ \A n \in 1 .. m + 4 : w[n] = IF n <= m THEN first[n] ELSE second[n - m]
    <3>1. first \in Seq(Keys \X Values) /\ second \in Seq(Keys \X Values)
      BY <1>7, <1>9
    <3>2. /\ Len(first \o second) = Len(first) + Len(second)
          /\ \A n \in 1 .. Len(first) + Len(second) :
               (first \o second)[n] = IF n <= Len(first) THEN first[n] ELSE second[n - Len(first)]
      BY <3>1, ConcatProperties
    <3> QED
      BY <2>1, <3>2
  <2> HIDE DEF w
  <2> SUFFICES ASSUME NEW n \in 1 .. m + 4
               PROVE  /\ w[n][1] \in ProfileKeys => n + 4 <= m + 4
                      /\ w[n][1] = "role_cur" => w[n][2] = r
    BY <2>3 DEF w
  <2>4. CASE n <= m
    <3>1. n \in 1 .. m /\ w[n] = first[n]
      BY <2>3, <2>4
    <3> QED
      BY <2>2, <2>4, <3>1
  <2>5. CASE ~(n <= m)
    <3>1. n - m \in 1 .. 4 /\ w[n] = second[n - m]
      BY <2>2, <2>3, <2>5
    <3>2. \A j \in 1 .. 4 : j = 1 \/ j = 2 \/ j = 3 \/ j = 4
      OBVIOUS
    <3>3. second[n - m][1] \notin ProfileKeys
      BY <2>1, <3>1, <3>2 DEF ProfileKeys
    <3>4. second[n - m][1] = "role_cur" => second[n - m][2] = r
      BY <2>1, <3>1, <3>2
    <3> QED
      BY <3>1, <3>3, <3>4
  <2> QED
    BY <2>4, <2>5
<1> QED
  BY <1>5, <1>9, <1>11, <1>12, <1>13 DEF r

-------------------------------------------------------------------------------
(* The steps of the settings *)

\* A device that was never switched on promises what its first boot will apply.
LEMMA InitSettings == ProvInit => SettingsInv
<1> SUFFICES ASSUME ProvInit PROVE SettingsInv
  OBVIOUS
<1>1. nvs \in Stores /\ puts = <<>> /\ phase = "off" /\ promised = Effective(nvs)
  BY StoreAssumption DEF ProvInit
<1>2. Becomes(<<>>, nvs, nvs)
  BY <1>1, NoWrites
<1> QED
  BY <1>1, <1>2 DEF SettingsInv, PromiseKept, SavedInOrder

\* A write, and a write lost whose value was there already.
LEMMA WriteKeeps ==
  ASSUME SettingsInv, puts # <<>>,
         nvs' = [nvs EXCEPT ![Head(puts)[1]] = Head(puts)[2]],
         puts' = Tail(puts), UNCHANGED <<phase, promised>>, intact' => intact
  PROVE  SettingsInv'
<1> DEFINE h == Head(puts)
<1>1. /\ nvs \in Stores /\ puts \in Seq(Keys \X Values)
      /\ phase \in {"save", "run"}
  BY DEF SettingsInv
<1>2. /\ h \in Keys \X Values /\ puts' \in Seq(Keys \X Values)
      /\ Len(puts) \in Nat \ {0} /\ Len(puts') = Len(puts) - 1 /\ h = puts[1]
      /\ \A i \in 1 .. Len(puts') : puts'[i] = puts[i + 1]
  BY <1>1, HeadTailProperties, LenProperties, EmptySeq
<1>3. nvs' \in Stores
  BY <1>1, <1>2 DEF Stores
<1>4. ASSUME intact PROVE PromiseKept'
  <2>1. PICK final \in Stores : Becomes(puts, nvs, final) /\ Effective(final) = promised
                                  /\ Holds(final, promised)
    BY <1>1, <1>4 DEF SettingsInv, PromiseKept
  <2>2. Becomes(puts', nvs', final)
    BY <1>1, <2>1, FirstWrite
  <2> QED
    BY <2>1, <2>2 DEF PromiseKept
<1>5. ASSUME intact, phase = "save" PROVE SavedInOrder'
  <2>1. PICK final \in Stores : Holds(final, promised)
    BY <1>4, <1>5 DEF SettingsInv, PromiseKept
  <2>2. promised.role \in 0 .. 2
    BY <2>1 DEF Holds
  <2>3. /\ \A i \in 1 .. Len(puts) :
             /\ puts[i][1] \in ProfileKeys => i + 4 <= Len(puts)
             /\ puts[i][1] = "role_cur" => puts[i][2] = promised.role
        /\ EffectiveRole(nvs) = promised.role
        /\ RoleNormalized(nvs) => promised.profile = OotbProfile(promised.role)
    BY <1>5 DEF SettingsInv, SavedInOrder
  <2>4. ASSUME NEW i \in 1 .. Len(puts')
        PROVE  /\ puts'[i][1] \in ProfileKeys => i + 4 <= Len(puts')
               /\ puts'[i][1] = "role_cur" => puts'[i][2] = promised.role
    <3>1. i + 1 \in 1 .. Len(puts) /\ puts'[i] = puts[i + 1]
      BY <1>2
    <3>2. (i + 1) + 4 <= Len(puts) => i + 4 <= Len(puts')
      BY <1>2
    <3> QED
      BY <2>3, <3>1, <3>2
  <2>5. EffectiveRole(nvs') = promised.role
        /\ (RoleNormalized(nvs') => promised.profile = OotbProfile(promised.role))
    <3>1. CASE h[1] = "role_cur"
      <4>1. nvs'["role_cur"] = promised.role
        BY <1>1, <1>2, <2>3, <3>1 DEF Stores, Keys, PointerKeys
      <4>2. promised.role # Absent /\ promised.role <= 2
        BY <2>2, ProvisioningAssumption
      <4> QED
        BY <4>1, <4>2 DEF EffectiveRole, RoleNormalized
    <3>2. CASE h[1] # "role_cur"
      <4>1. nvs'["role_cur"] = nvs["role_cur"]
        BY <1>1, <1>2, <3>2 DEF Stores, Keys, PointerKeys
      <4> QED
        BY <2>3, <4>1 DEF EffectiveRole, RoleNormalized
    <3> QED
      BY <3>1, <3>2
  <2> QED
    BY <2>3, <2>4, <2>5 DEF SavedInOrder, EffectiveRole, RoleNormalized, OotbProfile, Profile
<1> QED
  BY <1>1, <1>2, <1>3, <1>4, <1>5 DEF SettingsInv, PromiseKept, SavedInOrder

\* A boot that is cut short where that is said to be harmless is done again by the next one.
LEMMA CutPromise ==
  ASSUME SettingsInv, intact, CutIsHarmless
  PROVE  Effective(nvs) = promised
<1>1. nvs \in Stores /\ puts \in Seq(Keys \X Values)
  BY DEF SettingsInv
<1>2. PICK final \in Stores : /\ Becomes(puts, nvs, final)
                              /\ Effective(final) = promised
                              /\ phase \in {"save", "run"} => Holds(final, promised)
  BY DEF SettingsInv, PromiseKept
<1>3. CASE puts = <<>>
  BY <1>1, <1>2, <1>3, NoWrites
<1>4. CASE puts # <<>>
  <2>1. phase = "save" /\ (RoleNormalized(nvs) \/ Len(puts) <= Cardinality(PointerKeys))
    BY <1>4 DEF CutIsHarmless
  <2>2. Cardinality(PointerKeys) = 4
    <3> DEFINE A == {"role_cur"}
               B == A \cup {"prof_cur"}
               C == B \cup {"role_prev"}
    <3>1. IsFiniteSet(A) /\ Cardinality(A) = 1
      BY FS_Singleton
    <3>2. IsFiniteSet(B) /\ Cardinality(B) = 2
      <4> HIDE DEF A
      <4>1. "prof_cur" \notin A
        BY DEF A
      <4> QED
        BY <3>1, <4>1, FS_AddElement
    <3>3. IsFiniteSet(C) /\ Cardinality(C) = 3
      <4> HIDE DEF B
      <4>1. "role_prev" \notin B
        BY DEF B
      <4> QED
        BY <3>2, <4>1, FS_AddElement
    <3>4. PointerKeys = C \cup {"prof_prev"} /\ "prof_prev" \notin C
      BY DEF PointerKeys
    <3> HIDE DEF C
    <3> QED
      BY <3>3, <3>4, FS_AddElement
  <2>3. /\ Holds(final, promised)
        /\ \A i \in 1 .. Len(puts) : puts[i][1] \in ProfileKeys => i + 4 <= Len(puts)
        /\ EffectiveRole(nvs) = promised.role
        /\ RoleNormalized(nvs) => promised.profile = OotbProfile(promised.role)
    BY <1>2, <2>1 DEF SettingsInv, SavedInOrder
  <2>4. promised = [role |-> promised.role, profile |-> promised.profile]
    BY <2>3 DEF Holds
  <2>5. CASE RoleNormalized(nvs)
    <3>1. EffectiveProfile(nvs) = OotbProfile(EffectiveRole(nvs))
      BY <2>5 DEF EffectiveProfile, NeedsProfile
    <3> QED
      BY <2>3, <2>4, <2>5, <3>1 DEF Effective
  <2>6. CASE ~RoleNormalized(nvs)
    <3>1. Len(puts) <= 4 /\ Len(puts) \in Nat
      BY <1>1, <2>1, <2>2, <2>6, LenProperties
    <3>2. \A i \in 1 .. Len(puts) : puts[i][1] \notin ProfileKeys
      <4>1. \A i \in 1 .. Len(puts) : ~(i + 4 <= Len(puts))
        BY <3>1
      <4> QED
        BY <2>3, <4>1
    <3>3. \A k \in ProfileKeys : nvs[k] = final[k]
      <4> SUFFICES ASSUME NEW k \in ProfileKeys PROVE nvs[k] = final[k]
        OBVIOUS
      <4>1. k \in Keys
        BY DEF Keys
      <4>2. \/ final[k] = nvs[k]
            \/ \E i \in 1 .. Len(puts) : puts[i] = <<k, final[k]>>
        BY <1>2, <4>1 DEF Becomes
      <4>3. ASSUME NEW i \in 1 .. Len(puts) PROVE puts[i] # <<k, final[k]>>
        BY <3>2
      <4> QED
        BY <4>2, <4>3
    <3>4. /\ \A k \in ProfileKeys : nvs[k] \in Nat
          /\ promised.profile = Profile(nvs["interval"], nvs["silence"], nvs["dist"])
          /\ Valid(promised.profile)
      BY <2>3, <3>3 DEF Holds, ProfileKeys
    <3>5. ProfileValid(nvs) /\ LoadedProfile(nvs) = promised.profile
      BY <3>4, ProvisioningAssumption DEF ProfileValid, LoadedProfile
    <3>6. EffectiveProfile(nvs) = promised.profile
      BY <2>6, <3>5 DEF EffectiveProfile, NeedsProfile
    <3> QED
      BY <2>3, <2>4, <3>6 DEF Effective
  <2> QED
    BY <2>5, <2>6
<1> QED
  BY <1>3, <1>4

\* A command that is carried out keeps the invariant if its writes lead to what it promises.
LEMMA CommandKeeps ==
  ASSUME SettingsInv, NEW writes \in Seq(Keys \X Values), NEW role, NEW profile, NEW whole,
         Command(writes, role, profile, whole),
         whole => \E final \in Stores : /\ Becomes(writes, nvs, final)
                                        /\ Holds(final, [role |-> role, profile |-> profile])
  PROVE  SettingsInv'
<1>1. /\ nvs' = nvs /\ nvs \in Stores /\ phase = "run" /\ phase' = "run"
      /\ puts' = writes /\ promised' = [role |-> role, profile |-> profile] /\ intact' = whole
  BY DEF Command, SettingsInv
<1>2. ASSUME whole PROVE PromiseKept'
  <2>1. PICK final \in Stores : Becomes(writes, nvs, final)
                                  /\ Holds(final, [role |-> role, profile |-> profile])
    BY <1>2
  <2>2. Effective(final) = [role |-> role, profile |-> profile]
    BY <2>1, HeldIsApplied
  <2> QED
    BY <1>1, <2>1, <2>2 DEF PromiseKept
<1>3. SavedInOrder'
  BY <1>1 DEF SavedInOrder
<1> QED
  BY <1>1, <1>2, <1>3 DEF SettingsInv, PromiseKept

\* Between the commands of an operator the flash holds what is promised.
LEMMA HeldBetweenCommands ==
  ASSUME SettingsInv, intact, phase = "run", puts = <<>>
  PROVE  Holds(nvs, promised)
<1>1. PICK final \in Stores : Becomes(puts, nvs, final) /\ Holds(final, promised)
  BY DEF SettingsInv, PromiseKept
<1> QED
  BY <1>1, NoWrites DEF SettingsInv

\* A role and its profile, written after whatever else.
LEMMA RoleWritten ==
  ASSUME NEW store \in Stores, NEW role \in 0 .. 2,
         NEW b \in Values, NEW c \in Values, NEW d \in Values
  PROVE  LET w == PointerPuts(role, b, c, d) \o ProfilePuts(OotbProfile(role))
         IN  /\ w \in Seq(Keys \X Values)
             /\ \E final \in Stores :
                  /\ Becomes(w, store, final)
                  /\ Holds(final, [role |-> role, profile |-> OotbProfile(role)])
<1> DEFINE p == OotbProfile(role)
           middle == Pointed(store, role, b, c, d)
           final == Profiled(middle, p)
<1>1. PICK i, s, e \in Nat : p = Profile(i, s, e)
  BY OotbIsValid
<1>2. p.interval = i /\ p.silence = s /\ p.dist = e /\ Valid(p)
  BY <1>1, ProfileFields, OotbIsValid
<1>3. role \in Values /\ i \in Values /\ s \in Values /\ e \in Values
  BY DEF Values
<1>4. middle["role_cur"] = role
  BY DEF Pointed, Keys, PointerKeys
<1> HIDE DEF p
<1>5. /\ PointerPuts(role, b, c, d) \in Seq(Keys \X Values) /\ middle \in Stores
      /\ Becomes(PointerPuts(role, b, c, d), store, middle)
  BY <1>3, PointersWritten
<1> HIDE DEF middle
<1>6. /\ ProfilePuts(p) \in Seq(Keys \X Values) /\ final \in Stores
      /\ Becomes(ProfilePuts(p), middle, final)
  BY <1>2, <1>3, <1>5, ProfileWritten
<1>7. /\ final["role_cur"] = role /\ final["interval"] = i /\ final["silence"] = s
      /\ final["dist"] = e
  BY <1>2, <1>4 DEF Profiled, Keys, PointerKeys, ProfileKeys
<1> HIDE DEF final
<1>8. Holds(final, [role |-> role, profile |-> p])
  BY <1>1, <1>2, <1>6, <1>7, WrittenIsHeld
<1>9. /\ PointerPuts(role, b, c, d) \o ProfilePuts(p) \in Seq(Keys \X Values)
      /\ Becomes(PointerPuts(role, b, c, d) \o ProfilePuts(p), store, final)
  BY <1>5, <1>6, MoreWrites
<1> QED
  BY <1>6, <1>8, <1>9 DEF p

\* set role writes the pointers and the profile of the role.
LEMMA SetRoleKeeps ==
  ASSUME SettingsInv, NEW id \in 0 .. 2, SetRole(id)
  PROVE  SettingsInv'
<1>1. nvs \in Stores
  BY DEF SettingsInv
<1>2. \A k \in PointerKeys : Pointer(nvs, k) \in Values
  BY <1>1 DEF Pointer, Stores, Values, Keys
<1> DEFINE w == PointerPuts(id, Pointer(nvs, "prof_cur"), Pointer(nvs, "role_cur"),
                            Pointer(nvs, "prof_prev")) \o ProfilePuts(OotbProfile(id))
<1>3. /\ w \in Seq(Keys \X Values)
      /\ \E final \in Stores :
           /\ Becomes(w, nvs, final)
           /\ Holds(final, [role |-> id, profile |-> OotbProfile(id)])
  <2>1. /\ Pointer(nvs, "prof_cur") \in Values /\ Pointer(nvs, "role_cur") \in Values
        /\ Pointer(nvs, "prof_prev") \in Values
    BY <1>2 DEF PointerKeys
  <2> QED
    BY <1>1, <2>1, RoleWritten
<1>4. Command(w, id, OotbProfile(id), TRUE)
  BY DEF SetRole
<1> HIDE DEF w
<1> QED
  BY <1>3, <1>4, CommandKeeps

\* factory_reset_pointers removes the pointers and writes those and the profile of role 0.
LEMMA ResetKeeps ==
  ASSUME SettingsInv, Reset
  PROVE  SettingsInv'
<1> DEFINE first == PointerPuts(Absent, Absent, Absent, Absent)
           second == PointerPuts(0, 0, 0, 0)
           third == ProfilePuts(OotbProfile(0))
           middle == Pointed(nvs, Absent, Absent, Absent, Absent)
<1>1. nvs \in Stores /\ Absent \in Values /\ 0 \in Values /\ 0 \in 0 .. 2
  BY DEF SettingsInv, Values
<1>2. first \in Seq(Keys \X Values) /\ middle \in Stores /\ Becomes(first, nvs, middle)
  BY <1>1, PointersWritten
<1> HIDE DEF middle
<1>3. /\ second \o third \in Seq(Keys \X Values)
      /\ \E final \in Stores :
           /\ Becomes(second \o third, middle, final)
           /\ Holds(final, [role |-> 0, profile |-> OotbProfile(0)])
  BY <1>1, <1>2, RoleWritten
<1>4. PICK final \in Stores : /\ Becomes(second \o third, middle, final)
                              /\ Holds(final, [role |-> 0, profile |-> OotbProfile(0)])
  BY <1>3
<1>5. second \in Seq(Keys \X Values) /\ third \in Seq(Keys \X Values)
  <2>1. second \in Seq(Keys \X Values)
    BY <1>1, PointersWritten
  <2>2. PICK i, s, e \in Nat : OotbProfile(0) = Profile(i, s, e)
    BY OotbIsValid
  <2>3. /\ OotbProfile(0).interval \in Values /\ OotbProfile(0).silence \in Values
        /\ OotbProfile(0).dist \in Values
    BY <2>2, ProfileFields DEF Values
  <2>4. third \in Seq(Keys \X Values)
    BY <1>1, <2>3, ProfileWritten
  <2> QED
    BY <2>1, <2>4
<1>6. Command((first \o second) \o third, 0, OotbProfile(0), TRUE)
  BY DEF Reset, ResetPuts, PointerPuts
<1> HIDE DEF first, second, third
<1>7. (first \o second) \o third = first \o (second \o third)
  BY <1>2, <1>5, ConcatAssociative
<1>8. /\ first \o (second \o third) \in Seq(Keys \X Values)
      /\ Becomes(first \o (second \o third), nvs, final)
  BY <1>2, <1>3, <1>4, MoreWrites
<1> QED
  BY <1>4, <1>6, <1>7, <1>8, CommandKeeps

\* set radio writes the role back as it was read.
LEMMA SetRadioKeeps ==
  ASSUME SettingsInv, SetRadio
  PROVE  SettingsInv'
<1> DEFINE a == Pointer(nvs, "role_cur")
           c == Pointer(nvs, "role_prev")
           d == Pointer(nvs, "prof_cur")
           w == PointerPuts(a, 0, c, d)
           final == Pointed(nvs, a, 0, c, d)
<1>1. nvs \in Stores
  BY DEF SettingsInv
<1>2. a \in Values /\ 0 \in Values /\ c \in Values /\ d \in Values
  BY <1>1 DEF Pointer, Stores, Values, Keys, PointerKeys
<1>3. Command(w, promised.role, promised.profile, intact)
  BY DEF SetRadio
<1> HIDE DEF a, c, d
<1>4. w \in Seq(Keys \X Values) /\ final \in Stores /\ Becomes(w, nvs, final)
  BY <1>1, <1>2, PointersWritten
<1>5. /\ final["role_cur"] = a
      /\ \A k \in ProfileKeys : final[k] = nvs[k]
  BY DEF Pointed, Keys, PointerKeys, ProfileKeys
<1> HIDE DEF w, final
<1>6. ASSUME intact
      PROVE  Holds(final, [role |-> promised.role, profile |-> promised.profile])
  <2>1. Holds(nvs, promised)
    BY <1>3, <1>6, HeldBetweenCommands DEF Command
  <2>2. a = promised.role /\ promised.role = nvs["role_cur"]
    BY <1>1, <2>1, HeldIsApplied DEF a, Holds
  <2>3. /\ final["interval"] = nvs["interval"] /\ final["silence"] = nvs["silence"]
        /\ final["dist"] = nvs["dist"]
    BY <1>5 DEF ProfileKeys
  <2> QED
    BY <1>5, <2>1, <2>2, <2>3 DEF Holds
<1>7. intact => \E f \in Stores :
                  /\ Becomes(w, nvs, f)
                  /\ Holds(f, [role |-> promised.role, profile |-> promised.profile])
  BY <1>4, <1>6
<1> QED
  BY <1>3, <1>4, <1>7, CommandKeeps, Zenon

\* profile interval, silence or distance writes the loaded profile back with one field changed.
LEMMA SetFieldKeeps ==
  ASSUME SettingsInv, NEW k, NEW v, SetField(k, v),
         \/ k = "interval" /\ v \in Intervals
         \/ k = "silence" /\ v \in Silences
         \/ k = "dist" /\ v \in Distances
  PROVE  SettingsInv'
<1> DEFINE old == LoadedProfile(nvs)
           p == [old EXCEPT ![k] = v]
           w == ProfilePuts(p)
           told == [promised.profile EXCEPT ![k] = v]
           final == Profiled(nvs, p)
<1>1. nvs \in Stores
  BY DEF SettingsInv
<1>2. /\ Command(w, promised.role, told, intact)
      /\ k = "dist" \/ p.silence * 10 >= 3 * p.interval
  BY DEF SetField
<1>3. /\ k = "interval" => v \in 1 .. 3600
      /\ k = "silence" => v \in 1 .. 255
      /\ k = "dist" => v \in 0 .. 1000
      /\ k \in {"interval", "silence", "dist"}
  <2>1. CASE k = "interval" /\ v \in Intervals
    BY <2>1, ProvisioningAssumption
  <2>2. CASE k = "silence" /\ v \in Silences
    BY <2>2, ProvisioningAssumption
  <2>3. CASE k = "dist" /\ v \in Distances
    BY <2>3, ProvisioningAssumption
  <2> QED
    BY <2>1, <2>2, <2>3
<1>4. PICK i, s, e \in Nat : old = Profile(i, s, e) /\ Valid(old)
  <2>1. CASE ProfileValid(nvs)
    <3>1. nvs["interval"] \in Nat /\ nvs["silence"] \in Nat /\ nvs["dist"] \in Nat
      BY <1>1, <2>1 DEF ProfileValid, Stores, Values, Keys, ProfileKeys
    <3> QED
      BY <2>1, <3>1 DEF ProfileValid, LoadedProfile
  <2>2. CASE ~ProfileValid(nvs)
    BY <2>2, OotbIsValid DEF LoadedProfile
  <2> QED
    BY <2>1, <2>2
<1> HIDE DEF old
<1>5. PICK i2, s2, e2 \in Nat :
        /\ p = Profile(i2, s2, e2) /\ Valid(p)
        /\ p.interval = i2 /\ p.silence = s2 /\ p.dist = e2
  <2>1. /\ i \in 1 .. 3600 /\ s \in 1 .. 255 /\ e \in 0 .. 1000 /\ s * 10 >= 3 * i
    <3>1. old.interval = i /\ old.silence = s /\ old.dist = e
      BY <1>4, ProfileFields
    <3> QED
      BY <1>4, <3>1 DEF Valid
  <2>2. CASE k = "interval"
    <3>1. p = Profile(v, s, e)
      BY <1>4, <2>2 DEF Profile
    <3> HIDE DEF p
    <3>2. p.interval = v /\ p.silence = s /\ p.dist = e
      BY <3>1, ProfileFields
    <3>3. v \in 1 .. 3600 /\ v \in Nat /\ s * 10 >= 3 * v
      BY <1>2, <1>3, <2>2, <3>2
    <3>4. Valid(p)
      BY <2>1, <3>2, <3>3 DEF Valid
    <3> QED
      BY <3>1, <3>2, <3>3, <3>4
  <2>3. CASE k = "silence"
    <3>1. p = Profile(i, v, e)
      BY <1>4, <2>3 DEF Profile
    <3> HIDE DEF p
    <3>2. p.interval = i /\ p.silence = v /\ p.dist = e
      BY <3>1, ProfileFields
    <3>3. v \in 1 .. 255 /\ v \in Nat /\ v * 10 >= 3 * i
      BY <1>2, <1>3, <2>3, <3>2
    <3>4. Valid(p)
      BY <2>1, <3>2, <3>3 DEF Valid
    <3> QED
      BY <3>1, <3>2, <3>3, <3>4
  <2>4. CASE k = "dist"
    <3>1. p = Profile(i, s, v)
      BY <1>4, <2>4 DEF Profile
    <3> HIDE DEF p
    <3>2. p.interval = i /\ p.silence = s /\ p.dist = v
      BY <3>1, ProfileFields
    <3>3. v \in 0 .. 1000 /\ v \in Nat
      BY <1>3, <2>4
    <3>4. Valid(p)
      BY <2>1, <3>2, <3>3 DEF Valid
    <3> QED
      BY <3>1, <3>2, <3>3, <3>4
  <2> HIDE DEF p
  <2> QED
    BY <1>3, <2>2, <2>3, <2>4
<1> HIDE DEF p
<1>6. w \in Seq(Keys \X Values) /\ final \in Stores /\ Becomes(w, nvs, final)
  <2>1. p.interval \in Values /\ p.silence \in Values /\ p.dist \in Values
    BY <1>5 DEF Values
  <2> QED
    BY <1>1, <2>1, ProfileWritten
<1>7. /\ final["role_cur"] = nvs["role_cur"]
      /\ final["interval"] = i2 /\ final["silence"] = s2 /\ final["dist"] = e2
  BY <1>5 DEF Profiled, Keys, PointerKeys, ProfileKeys
<1> HIDE DEF w, final
<1>8. intact => \E f \in Stores :
                  /\ Becomes(w, nvs, f)
                  /\ Holds(f, [role |-> promised.role, profile |-> told])
  <2> SUFFICES ASSUME intact
               PROVE  Holds(final, [role |-> promised.role, profile |-> told])
    BY <1>6
  <2>1. Holds(nvs, promised)
    BY <1>2, HeldBetweenCommands DEF Command
  <2>2. old = promised.profile
    BY <1>1, <2>1, HeldIsApplied DEF old
  <2>3. told = p
    BY <2>2 DEF p
  <2>4. promised.role = nvs["role_cur"] /\ promised.role \in 0 .. 2
    BY <2>1 DEF Holds
  <2> HIDE DEF told
  <2> QED
    BY <1>5, <1>6, <1>7, <2>3, <2>4, WrittenIsHeld
<1> HIDE DEF told
<1> QED
  BY <1>2, <1>6, <1>8, CommandKeeps, Zenon

\* Every step keeps the promise.
LEMMA SettingsStep == SettingsInv /\ [ProvNext]_provVars => SettingsInv'
<1> SUFFICES ASSUME SettingsInv, [ProvNext]_provVars PROVE SettingsInv'
  OBVIOUS
<1> USE DEF SettingsInv
<1>1. ASSUME UNCHANGED <<nvs, puts, promised, intact>>,
             phase' \in {"save", "run"} => phase \in {"save", "run"},
             puts # <<>> => phase' = phase,
             phase' = "save" => phase = "save"
      PROVE  SettingsInv'
  <2>1. PromiseKept'
    BY <1>1 DEF PromiseKept
  <2>2. SavedInOrder'
    BY <1>1 DEF SavedInOrder
  <2> QED
    BY <1>1, <2>1, <2>2
<1>2. CASE PowerOn \/ VerifyGnss \/ Reboot
  BY <1>1, <1>2 DEF PowerOn, VerifyGnss, Reboot, SettingsStill
<1>3. CASE BootRadio \/ PollRadio \/ UNCHANGED provVars
  BY <1>1, <1>3 DEF BootRadio, PollRadio, settings, provVars
<1>4. CASE StartLoop
  BY <1>1, <1>4 DEF StartLoop
<1>5. CASE Provision
  <2>1. /\ nvs \in Stores /\ nvs' = nvs /\ puts = <<>> /\ puts' = BootPuts(nvs)
        /\ phase = "radio" /\ phase' = "save" /\ promised' = promised /\ intact' = intact
    BY <1>5 DEF Provision
  <2>2. intact => Effective(nvs) = promised
    BY <2>1, NoWrites DEF PromiseKept
  <2>3. /\ BootPuts(nvs) \in Seq(Keys \X Values)
        /\ \E final \in Stores :
             Becomes(BootPuts(nvs), nvs, final) /\ Holds(final, Effective(nvs))
        /\ \A i \in 1 .. Len(BootPuts(nvs)) :
             /\ BootPuts(nvs)[i][1] \in ProfileKeys => i + 4 <= Len(BootPuts(nvs))
             /\ BootPuts(nvs)[i][1] = "role_cur" => BootPuts(nvs)[i][2] = EffectiveRole(nvs)
    BY <2>1, BootWrites
  <2>4. ASSUME intact PROVE PromiseKept'
    <3>1. PICK final \in Stores : Becomes(BootPuts(nvs), nvs, final) /\ Holds(final, promised)
      BY <2>2, <2>3, <2>4
    <3>2. Effective(final) = promised
      BY <3>1, HeldIsApplied
    <3> QED
      BY <2>1, <3>1, <3>2 DEF PromiseKept
  <2>5. ASSUME intact PROVE SavedInOrder'
    <3>1. promised.role = EffectiveRole(nvs) /\ promised.profile = EffectiveProfile(nvs)
      BY <2>2, <2>5 DEF Effective
    <3>2. RoleNormalized(nvs) => promised.profile = OotbProfile(promised.role)
      BY <2>1, <3>1, EffectiveIsWhole
    <3> QED
      BY <2>1, <2>3, <3>1, <3>2 DEF SavedInOrder
  <2> QED
    BY <2>1, <2>3, <2>4, <2>5 DEF PromiseKept, SavedInOrder
<1>6. CASE Put
  BY <1>6, WriteKeeps DEF Put
<1>7. CASE PutFails
  <2>1. ASSUME intact' PROVE SettingsInv'
    <3>1. nvs[Head(puts)[1]] = Head(puts)[2] /\ intact
      BY <1>7, <2>1 DEF PutFails
    <3>2. nvs' = [nvs EXCEPT ![Head(puts)[1]] = Head(puts)[2]]
      BY <1>7, <3>1 DEF PutFails, Stores
    <3> QED
      BY <1>7, <3>1, <3>2, WriteKeeps DEF PutFails
  <2>2. ASSUME ~intact' PROVE SettingsInv'
    <3>1. puts' \in Seq(Keys \X Values)
      BY <1>7, HeadTailProperties DEF PutFails
    <3>2. PromiseKept' /\ SavedInOrder'
      BY <2>2 DEF PromiseKept, SavedInOrder
    <3> QED
      BY <1>7, <3>1, <3>2 DEF PutFails
  <2> QED
    BY <2>1, <2>2
<1>8. CASE PowerFails
  <2>1. /\ nvs \in Stores /\ nvs' = nvs /\ puts' = <<>> /\ phase' = "off"
        /\ promised' = promised /\ intact' = (intact /\ CutIsHarmless)
    BY <1>8 DEF PowerFails
  <2>2. intact' => Effective(nvs) = promised
    BY <2>1, CutPromise
  <2>3. Becomes(<<>>, nvs, nvs)
    BY <2>1, NoWrites
  <2>4. PromiseKept' /\ SavedInOrder'
    BY <2>1, <2>2, <2>3 DEF PromiseKept, SavedInOrder
  <2> QED
    BY <2>1, <2>4
<1>9. CASE Console /\ ~Reboot
  <2>1. ASSUME NEW id \in 0 .. 2, SetRole(id) PROVE SettingsInv'
    BY <2>1, SetRoleKeeps
  <2>2. ASSUME NEW v \in Intervals, SetField("interval", v) PROVE SettingsInv'
    BY <2>2, SetFieldKeeps DEF ProfileKeys
  <2>3. ASSUME NEW v \in Silences, SetField("silence", v) PROVE SettingsInv'
    BY <2>3, SetFieldKeeps DEF ProfileKeys
  <2>4. ASSUME NEW v \in Distances, SetField("dist", v) PROVE SettingsInv'
    BY <2>4, SetFieldKeeps DEF ProfileKeys
  <2> HIDE DEF SettingsInv
  <2> QED
    BY <1>9, <2>1, <2>2, <2>3, <2>4, SetRadioKeeps, ResetKeeps DEF Console
<1> HIDE DEF SettingsInv
<1> QED
  BY <1>2, <1>3, <1>4, <1>5, <1>6, <1>7, <1>8, <1>9 DEF ProvNext, Console

\* The flash holds, or will hold when the writes are done, what the next boot was said to
\* apply; a boot saves in an order in which it may be cut short.
THEOREM SettingsInvariant == ProvSpec => []SettingsInv
BY InitSettings, SettingsStep, PTL DEF ProvSpec

\* As long as no write of a setting was lost or cut short, the next boot applies what the
\* console promised, and the console shows it: for any flash to begin with, any commands and
\* any number of power failures.
THEOREM PromiseIsStored == ProvSpec => []StoredIsPromised
<1>1. SettingsInv => StoredIsPromised
  <2> SUFFICES ASSUME SettingsInv, intact, puts = <<>>
               PROVE  Effective(nvs) = promised /\ (phase = "run" => Shown = promised)
    BY DEF StoredIsPromised
  <2>1. nvs \in Stores /\ Effective(nvs) = promised
    BY NoWrites DEF SettingsInv, PromiseKept
  <2>2. ASSUME phase = "run" PROVE Shown = promised
    <3>1. Holds(nvs, promised)
      BY <2>2, HeldBetweenCommands
    <3>2. Pointer(nvs, "role_cur") = promised.role /\ LoadedProfile(nvs) = promised.profile
      BY <2>1, <3>1, HeldIsApplied
    <3>3. promised = [role |-> promised.role, profile |-> promised.profile]
      BY <3>1 DEF Holds
    <3> QED
      BY <3>2, <3>3 DEF Shown
  <2> QED
    BY <2>1, <2>2
<1> QED
  BY <1>1, SettingsInvariant, PTL

-------------------------------------------------------------------------------
(* The receiver: bytes, checksums and the parser.                          *)

\* A byte is a number, and so is what is left of any number modulo ByteMod.
LEMMA ByteModIs ==
  /\ ByteMod \in Nat \ {0} /\ 0 \in Byte /\ Byte \subseteq Nat
  /\ \A x \in Nat : x % ByteMod \in Byte
<1>1. ByteMod \in Nat /\ Sync1 \in 0 .. ByteMod - 1
  BY GnssAssumption DEF Byte
<1>2. ByteMod \in Nat \ {0}
  BY <1>1
<1>3. \A x \in Nat, m \in Nat \ {0} : x % m \in 0 .. m - 1
  BY SMT
<1> QED
  BY <1>2, <1>3 DEF Byte

\* Every non-empty set of numbers has a smallest one.
LEMMA SmallestOf ==
  ASSUME NEW T \in SUBSET Nat, T # {}
  PROVE  \E m \in T : \A k \in T : m <= k
<1>1. \E x \in T : \A y \in T : ~ (<<y, x>> \in OpToRel(<, Nat))
  BY NatLessThanWellFounded, WFMin, Zenon
<1>2. \A x \in Nat, y \in Nat : <<y, x>> \in OpToRel(<, Nat) <=> y < x
  BY DEF OpToRel
<1>3. PICK x \in T : \A y \in T : ~ (y < x)
  BY <1>1, <1>2, Zenon
<1> QED
  BY <1>3

\* What is so at first, and stays so from each value of a function to the next, is so of all.
LEMMA StepByStep ==
  ASSUME NEW n \in Nat, NEW R, NEW f, f[0] \in R,
         \A i \in 1 .. n : f[i - 1] \in R => f[i] \in R
  PROVE  \A i \in 0 .. n : f[i] \in R
<1> DEFINE T == {i \in 0 .. n : f[i] \notin R}
<1> SUFFICES ASSUME T # {} PROVE FALSE
  OBVIOUS
<1>1. T \in SUBSET Nat
  OBVIOUS
<1>2. PICK m \in T : \A k \in T : m <= k
  BY <1>1, SmallestOf
<1>3. m \in 0 .. n /\ f[m] \notin R /\ m # 0
  OBVIOUS
<1>4. m - 1 \in 0 .. n /\ m \in 1 .. n /\ ~ (m <= m - 1)
  BY <1>3
<1>5. f[m - 1] \in R
  BY <1>2, <1>4
<1> QED
  BY <1>3, <1>4, <1>5

\* The functions that a recursion over the numbers up to n describes: there is one.
Solutions(n, R, start, step) ==
  {g \in [0 .. n -> R] : g[0] = start /\ \A i \in 1 .. n : g[i] = step[<<g[i - 1], i>>]}

\* Whatever each value is made of the one before.
LEMMA RecursionExists ==
  ASSUME NEW n \in Nat, NEW R, NEW start \in R, NEW step \in [R \X (1 .. n) -> R]
  PROVE  Solutions(n, R, start, step) # {}
<1> DEFINE Solves(g, m) ==
             g \in [0 .. m -> R] /\ g[0] = start /\ \A i \in 1 .. m : g[i] = step[<<g[i - 1], i>>]
           T == {m \in 0 .. n : \A g : ~Solves(g, m)}
<1> SUFFICES ASSUME T # {} PROVE FALSE
  <2>1. n \in 0 .. n
    OBVIOUS
  <2>2. PICK g : Solves(g, n)
    BY <2>1
  <2> QED
    BY <2>2 DEF Solutions
<1>1. T \in SUBSET Nat
  OBVIOUS
<1>2. PICK m \in T : \A k \in T : m <= k
  BY <1>1, SmallestOf
<1>3. m \in 0 .. n /\ \A g : ~Solves(g, m)
  OBVIOUS
<1>4. m # 0
  <2> SUFFICES ASSUME m = 0 PROVE FALSE
    OBVIOUS
  <2> DEFINE g == [i \in 0 .. 0 |-> start]
  <2>1. Solves(g, 0)
    OBVIOUS
  <2> QED
    BY <1>3, <2>1
<1>5. m - 1 \in 0 .. n /\ m \in 1 .. n /\ ~ (m <= m - 1)
  BY <1>3, <1>4
<1>6. PICK g : Solves(g, m - 1)
  BY <1>2, <1>5
<1> DEFINE h == [i \in 0 .. m |-> IF i = m THEN step[<<g[m - 1], m>>] ELSE g[i]]
<1>7. g[m - 1] \in R /\ step[<<g[m - 1], m>>] \in R
  <2>1. m - 1 \in 0 .. m - 1
    BY <1>5
  <2>2. g[m - 1] \in R
    BY <1>6, <2>1
  <2> QED
    BY <1>5, <2>2
<1>8. \A i \in 0 .. m : i # m => i \in 0 .. m - 1
  BY <1>5
<1>9. h \in [0 .. m -> R]
  BY <1>6, <1>7, <1>8
<1>10. h[0] = start
  BY <1>4, <1>5, <1>6
<1>11. \A i \in 1 .. m : h[i] = step[<<h[i - 1], i>>]
  <2> SUFFICES ASSUME NEW i \in 1 .. m PROVE h[i] = step[<<h[i - 1], i>>]
    OBVIOUS
  <2>1. i \in 0 .. m /\ i - 1 \in 0 .. m /\ i - 1 # m /\ m \in Int
    BY <1>5
  <2>2. h[i - 1] = g[i - 1]
    BY <2>1
  <2>3. CASE i = m
    BY <2>1, <2>2, <2>3
  <2>4. CASE i # m
    <3>1. i \in 1 .. m - 1
      BY <2>1, <2>4
    <3> QED
      BY <1>6, <2>1, <2>2, <2>4, <3>1
  <2> QED
    BY <2>3, <2>4
<1> QED
  BY <1>3, <1>9, <1>10, <1>11

\* The sums of a checksum, byte by byte.
IsSums(sums, body) ==
  /\ sums \in [0 .. Len(body) -> Byte \X Byte]
  /\ sums[0] = <<0, 0>>
  /\ \A k \in 1 .. Len(body) :
       sums[k] = <<(sums[k - 1][1] + body[k]) % ByteMod,
                   (sums[k - 1][2] + sums[k - 1][1] + body[k]) % ByteMod>>
  /\ Checksum(body) = sums[Len(body)]

\* A checksum is the last of them.
LEMMA ChecksumSums ==
  ASSUME NEW body \in Seq(Byte)
  PROVE  \E sums : IsSums(sums, body)
<1> DEFINE n == Len(body)
           R == Byte \X Byte
           next(r, i) == <<(r[1] + body[i]) % ByteMod, (r[2] + r[1] + body[i]) % ByteMod>>
           step == [x \in R \X (1 .. n) |-> next(x[1], x[2])]
           sums == CHOOSE sums : sums = [k \in 0 .. n |-> IF k = 0 THEN <<0, 0>> ELSE next(sums[k - 1], k)]
<1>0. n \in Nat
  OBVIOUS
<1>1. \A r \in R, i \in 1 .. n : next(r, i) \in R
  <2> SUFFICES ASSUME NEW r \in R, NEW i \in 1 .. n PROVE next(r, i) \in R
    OBVIOUS
  <2>1. r[1] \in Nat /\ r[2] \in Nat /\ body[i] \in Nat
    <3>1. r[1] \in Byte /\ r[2] \in Byte /\ body[i] \in Byte
      OBVIOUS
    <3> QED
      BY <3>1, ByteModIs
  <2>2. r[1] + body[i] \in Nat /\ r[2] + r[1] + body[i] \in Nat
    BY <2>1
  <2> QED
    BY <2>2, ByteModIs
<1>2. step \in [R \X (1 .. n) -> R] /\ \A r \in R, i \in 1 .. n : step[<<r, i>>] = next(r, i)
  BY <1>1
<1>3. <<0, 0>> \in R
  BY ByteModIs
<1> HIDE DEF step, next, R, n
<1>4. PICK g \in [0 .. n -> R] : g[0] = <<0, 0>> /\ \A i \in 1 .. n : g[i] = step[<<g[i - 1], i>>]
  <2>1. Solutions(n, R, <<0, 0>>, step) # {}
    BY <1>0, <1>2, <1>3, RecursionExists
  <2> QED
    BY <2>1 DEF Solutions
<1>5. \A k \in 0 .. n : k # 0 => k \in 1 .. n /\ k - 1 \in 0 .. n
  BY <1>0
<1>6. g = [k \in 0 .. n |-> IF k = 0 THEN <<0, 0>> ELSE next(g[k - 1], k)]
  BY <1>2, <1>4, <1>5
<1>7. sums = [k \in 0 .. n |-> IF k = 0 THEN <<0, 0>> ELSE next(sums[k - 1], k)]
  BY <1>6
<1> HIDE DEF sums
<1>8. sums[0] = <<0, 0>>
  BY <1>0, <1>7
<1>9. \A k \in 1 .. n : sums[k] = next(sums[k - 1], k)
  <2>1. \A k \in 1 .. n : k \in 0 .. n /\ k # 0
    BY <1>0
  <2> QED
    BY <1>7, <2>1
<1>10. sums \in [0 .. n -> R]
  <2>1. \A k \in 1 .. n : sums[k - 1] \in R => sums[k] \in R
    BY <1>1, <1>9
  <2>2. \A k \in 0 .. n : sums[k] \in R
    BY <1>0, <1>3, <1>8, <2>1, StepByStep
  <2>3. sums = [k \in 0 .. n |-> sums[k]]
    BY <1>7
  <2> QED
    BY <2>2, <2>3
<1>11. Checksum(body) = sums[n]
  BY DEF Checksum, sums, next, n
<1>12. IsSums(sums, body)
  BY <1>8, <1>9, <1>10, <1>11 DEF IsSums, n, R, next
<1> QED
  BY <1>12

\* A checksum is two bytes.
LEMMA ChecksumIs ==
  ASSUME NEW body \in Seq(Byte)
  PROVE  Checksum(body) \in Seq(Byte) /\ Len(Checksum(body)) = 2
<1>1. PICK sums : IsSums(sums, body)
  BY ChecksumSums
<1>2. Checksum(body) \in Byte \X Byte
  BY <1>1 DEF IsSums
<1>3. PICK a \in Byte, b \in Byte : Checksum(body) = <<a, b>>
  BY <1>2
<1> QED
  BY <1>3

\* The parser between two bytes: at rest it holds nothing, and no payload that it takes up, or
\* has taken, is longer than the buffer.
ParserSound(p) ==
  /\ p.state \in {"sync1", "sync2"} => p.body = <<>>
  /\ p.state = "body" =>
       Len(p.body) < 4 \/ (PayloadLen(p.body) <= MaxPayload /\ ~Complete(p.body))
  /\ Len(p.body) <= 4 + MaxPayload

\* A byte of a frame keeps the sums bytes.
LEMMA AccumulatedIs ==
  ASSUME NEW p \in Parsers, NEW b \in Byte
  PROVE  LET q == Accumulated(p, b)
         IN  /\ q.state = p.state /\ q.body = Append(p.body, b) /\ q.rx = p.rx
             /\ q.ck_a \in Byte /\ q.ck_b \in Byte /\ q \in Parsers
<1> DEFINE a == (p.ck_a + b) % ByteMod
           c == (p.ck_b + p.ck_a + b) % ByteMod
<1>1. a \in Byte /\ c \in Byte
  <2>1. p.ck_a \in Byte /\ p.ck_b \in Byte
    BY DEF Parsers
  <2>2. p.ck_a \in Nat /\ p.ck_b \in Nat /\ b \in Nat
    BY <2>1, ByteModIs
  <2>3. p.ck_a + b \in Nat /\ p.ck_b + p.ck_a + b \in Nat
    BY <2>2
  <2> QED
    BY <2>3, ByteModIs
<1>2. Append(p.body, b) \in Seq(Byte)
  BY DEF Parsers
<1> HIDE DEF a, c
<1>3. Accumulated(p, b) = [p EXCEPT !.body = Append(p.body, b), !.ck_a = a, !.ck_b = c]
  BY DEF Accumulated, a, c
<1> QED
  BY <1>1, <1>2, <1>3 DEF Parsers

\* Whatever byte comes, the parser stays sound.
LEMMA PushByteSound ==
  ASSUME NEW p \in Parsers, ParserSound(p), NEW b \in Byte
  PROVE  PushByte(p, b) \in Parsers /\ ParserSound(PushByte(p, b))
<1>0. MaxPayload \in Nat /\ 0 \in Byte
  <2>1. MaxPayload \in 3 .. ByteMod - 2 /\ ByteMod \in Nat
    BY GnssAssumption DEF PvtLen
  <2> QED
    BY <2>1, ByteModIs
<1>1. Rest \in Parsers /\ ParserSound(Rest)
  <2>1. <<>> \in Seq(Byte) /\ Len(<<>>) = 0
    OBVIOUS
  <2>2. Rest \in Parsers
    BY <1>0, <2>1 DEF Rest, Parsers
  <2>3. Rest.state = "sync1" /\ Rest.body = <<>> /\ Len(Rest.body) <= 4 + MaxPayload
    BY <1>0 DEF Rest
  <2> QED
    BY <2>2, <2>3 DEF ParserSound
<1>2. CASE p.state = "sync1" \/ p.state = "sync2"
  <2>1. p.body = <<>>
    BY <1>2 DEF ParserSound
  <2>2. PICK s \in {"sync1", "sync2", "body"} : PushByte(p, b) = [p EXCEPT !.state = s]
    BY <1>2 DEF PushByte
  <2>3. PushByte(p, b) \in Parsers /\ PushByte(p, b).state = s /\ PushByte(p, b).body = <<>>
    BY <2>1, <2>2 DEF Parsers
  <2> QED
    BY <1>0, <2>3 DEF ParserSound
<1>3. CASE p.state = "body"
  <2> DEFINE q == Accumulated(p, b)
             r == AfterHeaderOrPayload(q)
  <2>1. PushByte(p, b) = r
    BY <1>3 DEF PushByte
  <2>2. q \in Parsers /\ q.state = "body" /\ q.body = Append(p.body, b)
    BY <1>3, AccumulatedIs
  <2>3. /\ p.body \in Seq(Byte) /\ q.body \in Seq(Byte) /\ Len(q.body) = Len(p.body) + 1
        /\ \A i \in 1 .. Len(p.body) : q.body[i] = p.body[i]
    BY <2>2 DEF Parsers
  <2> HIDE DEF q
  <2>4. CASE TooLong(q.body)
    BY <1>1, <2>1, <2>4 DEF AfterHeaderOrPayload
  <2>5. CASE ~TooLong(q.body)
    <3> DEFINE n == Len(q.body)
    <3>1. n \in Nat /\ Len(p.body) = n - 1
      BY <2>3
    <3>2. n >= 4 => PayloadLen(q.body) \in Nat
      <4> SUFFICES ASSUME n >= 4 PROVE PayloadLen(q.body) \in Nat
        OBVIOUS
      <4>1. q.body[3] \in Byte /\ q.body[4] \in Byte
        BY <2>3, <3>1
      <4>2. q.body[3] \in Nat /\ q.body[4] \in Nat /\ ByteMod \in Nat
        BY <4>1, ByteModIs
      <4> QED
        BY <4>2 DEF PayloadLen
    <3>3. n >= 4 => PayloadLen(q.body) <= MaxPayload /\ n <= 4 + PayloadLen(q.body)
      <4>1. CASE n = 4
        BY <1>0, <2>5, <3>1, <3>2, <4>1 DEF TooLong
      <4>2. CASE n > 4
        <5>1. ~ (Len(p.body) < 4) /\ Len(p.body) >= 4
          BY <3>1, <4>2
        <5>2. PayloadLen(p.body) = PayloadLen(q.body)
          BY <2>3, <5>1 DEF PayloadLen
        <5>3. PayloadLen(p.body) <= MaxPayload /\ ~ (Len(p.body) >= 4 + PayloadLen(p.body))
          BY <1>3, <5>1 DEF ParserSound, Complete
        <5> HIDE DEF n
        <5>4. n - 1 < 4 + PayloadLen(q.body)
          BY <3>1, <3>2, <4>2, <5>2, <5>3
        <5> QED
          BY <3>1, <3>2, <4>2, <5>2, <5>3, <5>4
      <4> HIDE DEF n
      <4> QED
        BY <3>1, <4>1, <4>2
    <3>4. n <= 4 + MaxPayload
      <4>1. CASE n >= 4
        <5> HIDE DEF n
        <5> QED
          BY <1>0, <3>1, <3>2, <3>3, <4>1
      <4>2. CASE ~ (n >= 4)
        <5> HIDE DEF n
        <5> QED
          BY <1>0, <3>1, <4>2
      <4> QED
        BY <4>1, <4>2
    <3>5. r = [q EXCEPT !.state = IF Complete(q.body) THEN "ck_a" ELSE "body"]
      BY <2>5 DEF AfterHeaderOrPayload
    <3> HIDE DEF n, r
    <3>6. /\ r \in Parsers /\ r.body = q.body
          /\ r.state = IF Complete(q.body) THEN "ck_a" ELSE "body"
      BY <2>2, <3>5 DEF Parsers
    <3>7. r.state = "body" => Len(r.body) < 4 \/ (PayloadLen(r.body) <= MaxPayload /\ ~Complete(r.body))
      BY <3>1, <3>3, <3>6 DEF n
    <3>8. ParserSound(r)
      BY <3>4, <3>6, <3>7 DEF ParserSound, n
    <3> QED
      BY <2>1, <3>6, <3>8 DEF r
  <2> QED
    BY <2>4, <2>5
<1>4. CASE p.state = "ck_a"
  <2>1. PushByte(p, b) = [p EXCEPT !.rx = b, !.state = "ck_b"]
    BY <1>4 DEF PushByte
  <2>2. PushByte(p, b) \in Parsers /\ PushByte(p, b).state = "ck_b" /\ PushByte(p, b).body = p.body
    BY <2>1 DEF Parsers
  <2> QED
    BY <2>2 DEF ParserSound
<1>5. CASE p.state = "ck_b"
  BY <1>1, <1>5 DEF PushByte
<1> QED
  BY <1>2, <1>3, <1>4, <1>5 DEF Parsers

\* The parser and the snapshot between two bytes of a tick.
SoundReadings == {r \in Readings : ParserSound(r.parser)}

\* One byte more leaves them sound.
LEMMA ReceivedSound ==
  ASSUME NEW r \in SoundReadings, NEW b \in Byte
  PROVE  ByteReceived[<<r, b>>] \in SoundReadings
<1> DEFINE new == FrameOk(r.parser, b) /\ IsPvt(r.parser.body)
           q == PushByte(r.parser, b)
           s == IF new THEN Applied(r.snapshot, r.parser.body) ELSE r.snapshot
           u == (r.updated \/ new)
<1>1. /\ r \in Readings /\ r.parser \in Parsers /\ r.snapshot \in Snapshots /\ r.updated \in BOOLEAN
      /\ ParserSound(r.parser)
  BY DEF SoundReadings, Readings
<1>2. q \in Parsers /\ ParserSound(q)
  BY <1>1, PushByteSound
<1>3. s \in Snapshots
  <2>1. CASE new
    <3> DEFINE body == r.parser.body
    <3>1. body \in Seq(Byte) /\ Len(body) = 7
      BY <1>1, <2>1 DEF Parsers, IsPvt, PvtLen
    <3>2. body[7] \in Byte
      BY <3>1
    <3>3. Fix(body[6]) \in {"NO_FIX", "FIX_2D", "FIX_3D"}
      BY DEF Fix
    <3>4. r.snapshot.pos \in Byte
      BY <1>1 DEF Snapshots
    <3> HIDE DEF body
    <3>5. Applied(r.snapshot, body) \in Snapshots
      BY <3>2, <3>3, <3>4 DEF Applied, Snapshots
    <3> QED
      BY <2>1, <3>5 DEF body
  <2>2. CASE ~new
    BY <1>1, <2>2
  <2> QED
    BY <2>1, <2>2
<1>4. u \in BOOLEAN
  OBVIOUS
<1>5. ByteReceived[<<r, b>>] = [parser |-> q, snapshot |-> s, updated |-> u]
  BY <1>1 DEF ByteReceived
<1> HIDE DEF q, s, u
<1> QED
  BY <1>2, <1>3, <1>4, <1>5 DEF SoundReadings, Readings

\* What a tick has made of the bytes so far, byte by byte.
IsRun(after, start, bytes) ==
  /\ after \in [0 .. Len(bytes) -> SoundReadings]
  /\ after[0] = start
  /\ \A i \in 1 .. Len(bytes) : after[i] = ByteReceived[<<after[i - 1], bytes[i]>>]
  /\ AllReceived(start, bytes) = after[Len(bytes)]

\* Any number of bytes leaves the parser sound and the snapshot a snapshot, after each.
LEMMA ReceivedByteByByte ==
  ASSUME NEW start \in SoundReadings, NEW bytes \in Seq(Byte)
  PROVE  \E after : IsRun(after, start, bytes)
<1> DEFINE n == Len(bytes)
           R == SoundReadings
           step == [x \in R \X (1 .. n) |-> ByteReceived[<<x[1], bytes[x[2]]>>]]
           after == CHOOSE after : after = [i \in 0 .. n |-> IF i = 0 THEN start
                                                             ELSE ByteReceived[<<after[i - 1], bytes[i]>>]]
<1>0. n \in Nat /\ start \in R /\ \A i \in 1 .. n : bytes[i] \in Byte
  OBVIOUS
<1>1. \A r \in R, i \in 1 .. n : ByteReceived[<<r, bytes[i]>>] \in R
  BY ReceivedSound
<1>2. step \in [R \X (1 .. n) -> R] /\ \A r \in R, i \in 1 .. n : step[<<r, i>>] = ByteReceived[<<r, bytes[i]>>]
  BY <1>1
<1> HIDE DEF step, R, n
<1>3. PICK g \in [0 .. n -> R] : g[0] = start /\ \A i \in 1 .. n : g[i] = step[<<g[i - 1], i>>]
  <2>1. Solutions(n, R, start, step) # {}
    BY <1>0, <1>2, RecursionExists
  <2> QED
    BY <2>1 DEF Solutions
<1>4. \A k \in 0 .. n : k # 0 => k \in 1 .. n /\ k - 1 \in 0 .. n
  BY <1>0
<1>5. g = [i \in 0 .. n |-> IF i = 0 THEN start ELSE ByteReceived[<<g[i - 1], bytes[i]>>]]
  BY <1>2, <1>3, <1>4
<1>6. after = [i \in 0 .. n |-> IF i = 0 THEN start ELSE ByteReceived[<<after[i - 1], bytes[i]>>]]
  BY <1>5
<1> HIDE DEF after
<1>7. after[0] = start
  BY <1>0, <1>6
<1>8. \A i \in 1 .. n : after[i] = ByteReceived[<<after[i - 1], bytes[i]>>]
  <2>1. \A i \in 1 .. n : i \in 0 .. n /\ i # 0
    BY <1>0
  <2> QED
    BY <1>6, <2>1
<1>9. after \in [0 .. n -> R]
  <2>1. \A i \in 1 .. n : after[i - 1] \in R => after[i] \in R
    BY <1>0, <1>1, <1>8
  <2>2. \A i \in 0 .. n : after[i] \in R
    BY <1>0, <1>7, <2>1, StepByStep
  <2>3. after = [i \in 0 .. n |-> after[i]]
    BY <1>6
  <2> QED
    BY <2>2, <2>3
<1>10. AllReceived(start, bytes) = after[n]
  BY DEF AllReceived, after, n
<1>11. IsRun(after, start, bytes)
  BY <1>7, <1>8, <1>9, <1>10 DEF IsRun, n, R
<1> QED
  BY <1>11

\* So does a whole tick.
LEMMA AllReceivedSound ==
  ASSUME NEW start \in SoundReadings, NEW bytes \in Seq(Byte)
  PROVE  AllReceived(start, bytes) \in SoundReadings
<1>1. PICK after : IsRun(after, start, bytes)
  BY ReceivedByteByByte
<1>2. Len(bytes) \in 0 .. Len(bytes)
  OBVIOUS
<1> QED
  BY <1>1, <1>2 DEF IsRun

-------------------------------------------------------------------------------
(* The receiver: the invariant and its steps.                              *)

Overrides == [enabled : BOOLEAN, fix : FixStates, pos : OverridePositions \cup {0}]

GnssInv ==
  /\ GnssTypeOK
  /\ PositionNeedsFix
  /\ parser \in Parsers /\ ParserSound(parser)
  /\ snapshot \in Snapshots
  /\ override \in Overrides

\* What the constants are, for the arithmetic below.
LEMMA GnssConstants ==
  /\ MaxPayload \in Nat /\ MaxPayload >= 3 /\ MaxPayload + 1 \in Byte
  /\ UartBuffer \in Nat /\ MaxPayload + 9 <= UartBuffer
  /\ MaxReadPerTick \in Nat /\ MaxSilence \in Nat
  /\ {Sync1, Sync2, ClassNav, IdPvt, PvtLen} \cup FixTypes \cup Positions \subseteq Byte
  /\ TimeMod \in Nat \ {0} /\ \A t \in 0 .. TimeMod - 1 : t \in Byte
<1>1. MaxPayload \in 3 .. ByteMod - 2 /\ ByteMod \in Nat /\ TimeMod \in 2 .. ByteMod
      /\ MaxPayload + 9 <= UartBuffer
      /\ {MaxReadPerTick, UartBuffer, MinTime, MaxSilence} \subseteq Nat \ {0}
  BY GnssAssumption DEF PvtLen
<1>2. {Sync1, Sync2, ClassNav, IdPvt, PvtLen} \cup FixTypes \cup Positions \subseteq Byte
  BY GnssAssumption
<1> QED
  BY <1>1, <1>2 DEF Byte

\* A frame has four bytes more than its body.
LEMMA FramedIs ==
  ASSUME NEW body \in Seq(Byte)
  PROVE  Framed(body) \in Seq(Byte) /\ Len(Framed(body)) = Len(body) + 4
<1>1. Checksum(body) \in Seq(Byte) /\ Len(Checksum(body)) = 2
  BY ChecksumIs
<1>2. <<Sync1, Sync2>> \in Seq(Byte) /\ Len(<<Sync1, Sync2>>) = 2
  <2>1. Sync1 \in Byte /\ Sync2 \in Byte
    BY GnssConstants
  <2> QED
    BY <2>1
<1> DEFINE a == <<Sync1, Sync2>>
           c == Checksum(body)
<1> HIDE DEF a, c
<1>3. a \o body \in Seq(Byte) /\ Len(a \o body) = 2 + Len(body)
  BY <1>2, ConcatProperties DEF a
<1>4. (a \o body) \o c \in Seq(Byte) /\ Len((a \o body) \o c) = 2 + Len(body) + 2
  BY <1>1, <1>3, ConcatProperties DEF c
<1>5. Framed(body) = (a \o body) \o c
  BY DEF Framed, a, c
<1>6. Len(body) \in Nat
  OBVIOUS
<1> QED
  BY <1>4, <1>5, <1>6

\* A body of at most one byte more than the buffer of the parser makes a frame that the serial
\* driver holds.
LEMMA FramedFits ==
  ASSUME NEW body \in Seq(Byte), Len(body) <= MaxPayload + 5
  PROVE  Framed(body) \in Seq(Byte) /\ Len(Framed(body)) <= UartBuffer
<1>1. MaxPayload \in Nat /\ UartBuffer \in Nat /\ MaxPayload + 9 <= UartBuffer /\ Len(body) \in Nat
  BY GnssConstants
<1>2. PICK n \in Nat : n = Len(body) /\ Len(Framed(body)) = n + 4
  BY <1>1, FramedIs
<1>3. n + 4 <= UartBuffer
  BY <1>1, <1>2
<1> QED
  BY <1>2, <1>3, FramedIs

\* Every frame fits in the serial driver.
LEMMA FramesFit ==
  /\ \A f \in OtherFrames : f \in Seq(Byte) /\ Len(f) <= UartBuffer
  /\ \A f \in PvtFrames : f.bytes \in Seq(Byte) /\ Len(f.bytes) <= UartBuffer
<1>0. MaxPayload \in Nat /\ MaxPayload >= 3 /\ MaxPayload + 1 \in Byte /\ 0 \in Byte
  BY GnssConstants, ByteModIs
<1>1. ASSUME NEW f \in OtherFrames PROVE f \in Seq(Byte) /\ Len(f) <= UartBuffer
  <2> DEFINE empty == <<0, 0, 0, 0>>
             head == <<0, 0, MaxPayload + 1, 0>>
             zeros == [i \in 1 .. MaxPayload + 1 |-> 0]
  <2>1. f = Framed(empty) \/ f = Framed(head \o zeros)
    BY DEF OtherFrames
  <2>2. empty \in Seq(Byte) /\ Len(empty) = 4
    BY <1>0
  <2>3. head \in Seq(Byte) /\ Len(head) = 4
    BY <1>0
  <2>4. zeros \in Seq(Byte) /\ Len(zeros) = MaxPayload + 1
    BY <1>0
  <2> HIDE DEF empty, head, zeros
  <2>5. Len(empty) <= MaxPayload + 5
    BY <1>0, <2>2
  <2>6. head \o zeros \in Seq(Byte)
    BY <2>3, <2>4
  <2>7. Len(head \o zeros) = Len(head) + Len(zeros)
    <3>1. \A a \in Seq(Byte), b \in Seq(Byte) : Len(a \o b) = Len(a) + Len(b)
      BY ConcatProperties
    <3> QED
      BY <2>3, <2>4, <3>1, Zenon
  <2>8. Len(head \o zeros) <= MaxPayload + 5
    BY <1>0, <2>3, <2>4, <2>7
  <2> QED
    BY <2>1, <2>2, <2>5, <2>6, <2>8, FramedFits, Zenon
<1>2. ASSUME NEW f \in PvtFrames PROVE f.bytes \in Seq(Byte) /\ Len(f.bytes) <= UartBuffer
  <2>1. PICK t \in 0 .. TimeMod - 1, s \in Sky :
          f.bytes = Framed(<<ClassNav, IdPvt, PvtLen, 0, t, s.type, s.pos>>)
    BY DEF PvtFrames
  <2>2. t \in Byte /\ s.type \in Byte /\ s.pos \in Byte
    BY GnssConstants DEF Sky
  <2>3. ClassNav \in Byte /\ IdPvt \in Byte /\ PvtLen \in Byte
    BY GnssConstants
  <2> DEFINE body == <<ClassNav, IdPvt, PvtLen, 0, t, s.type, s.pos>>
  <2>4. body \in Seq(Byte) /\ Len(body) = 7
    BY <1>0, <2>2, <2>3
  <2>5. f.bytes = Framed(body)
    BY <2>1
  <2> HIDE DEF body
  <2>6. Len(body) <= MaxPayload + 5
    BY <1>0, <2>4
  <2> QED
    BY <2>4, <2>5, <2>6, FramedFits, Zenon
<1> QED
  BY <1>1, <1>2

\* A part of what is on the line is no longer than it.
LEMMA PartOfLine ==
  ASSUME NEW s \in Seq(Byte), Len(s) <= UartBuffer, NEW m \in Nat \ {0}, NEW n \in Nat, n <= Len(s)
  PROVE  SubSeq(s, m, n) \in Seq(Byte) /\ Len(SubSeq(s, m, n)) <= UartBuffer
<1>1. UartBuffer \in Nat /\ Len(s) \in Nat
  BY GnssConstants
<1>2. \A i \in m .. n : s[i] \in Byte
  <2>1. \A i \in m .. n : i \in 1 .. Len(s)
    BY <1>1
  <2> QED
    BY <2>1
<1>3. /\ SubSeq(s, m, n) \in Seq(Byte)
      /\ Len(SubSeq(s, m, n)) = IF m <= n THEN n - m + 1 ELSE 0
  BY <1>2, SubSeqProperties
<1> QED
  BY <1>1, <1>3

\* The service starts at rest, on a line that may begin in the middle of a frame.
LEMMA InitGnss == GnssInit => GnssInv
<1> SUFFICES ASSUME GnssInit PROVE GnssInv
  OBVIOUS
<1>1. line \in Seq(Byte) /\ Len(line) <= UartBuffer
  <2>1. CASE line = <<>>
    BY <2>1, GnssConstants
  <2>2. CASE line \in OtherFrames
    BY <2>2, FramesFit
  <2>3. CASE \E f \in PvtFrames : line \in Suffixes(f.bytes)
    <3>1. PICK f \in PvtFrames : line \in Suffixes(f.bytes)
      BY <2>3
    <3>2. f.bytes \in Seq(Byte) /\ Len(f.bytes) <= UartBuffer
      BY FramesFit
    <3>3. line = <<>> \/ \E l \in 1 .. Len(f.bytes) : line = SubSeq(f.bytes, l, Len(f.bytes))
      BY <3>1 DEF Suffixes
    <3>4. ASSUME NEW l \in 1 .. Len(f.bytes), line = SubSeq(f.bytes, l, Len(f.bytes))
          PROVE  line \in Seq(Byte) /\ Len(line) <= UartBuffer
      <4>1. l \in Nat \ {0} /\ Len(f.bytes) \in Nat /\ Len(f.bytes) <= Len(f.bytes)
        BY <3>2
      <4> QED
        BY <3>2, <3>4, <4>1, PartOfLine
    <3> QED
      BY <2>1, <3>3, <3>4
  <2> QED
    BY <2>1, <2>2, <2>3 DEF GnssInit
<1>2. parser \in Parsers /\ ParserSound(parser) /\ Len(parser.body) <= 4 + MaxPayload
  <2>1. parser = [state |-> "sync1", body |-> <<>>, ck_a |-> 0, ck_b |-> 0, rx |-> 0]
    BY DEF GnssInit, Rest
  <2>2. 0 \in Byte /\ <<>> \in Seq(Byte) /\ Len(<<>>) = 0 /\ 0 <= 4 + MaxPayload
    BY ByteModIs, GnssConstants
  <2>3. parser \in Parsers
    BY <2>1, <2>2 DEF Parsers
  <2> QED
    BY <2>1, <2>2, <2>3 DEF ParserSound
<1>3. snapshot \in Snapshots /\ override \in Overrides
  BY ByteModIs DEF GnssInit, NoPosition, Snapshots, NoOverride, Overrides, FixStates
<1>4. MaxSilence \in 0 .. MaxSilence /\ 0 \in Byte
  BY GnssConstants, ByteModIs
<1>5. GnssTypeOK
  <2>1. /\ parser.state \in {"sync1", "sync2", "body", "ck_a", "ck_b"} /\ parser.body \in Seq(Byte)
        /\ {parser.ck_a, parser.ck_b, parser.rx} \subseteq Byte
    BY <1>2 DEF Parsers
  <2>2. snapshot.fix \in FixStates
    BY <1>3 DEF Snapshots, FixStates
  <2>3. override.enabled \in BOOLEAN /\ override.fix \in FixStates
        /\ override.pos \in OverridePositions \cup {0}
    BY <1>3 DEF Overrides
  <2>4. /\ sky \in Sky /\ itow \in Byte /\ configured \in BOOLEAN /\ uart_ready \in BOOLEAN
        /\ boot = "verify" /\ committed.has \in BOOLEAN /\ since \in 0 .. MaxSilence
        /\ fix_state \in FixStates /\ self_pos.valid \in BOOLEAN
    BY <1>4 DEF GnssInit, FixStates
  <2> QED
    BY <1>1, <1>2, <2>1, <2>2, <2>3, <2>4 DEF GnssTypeOK
<1>6. PositionNeedsFix
  BY DEF GnssInit, PositionNeedsFix
<1> QED
  BY <1>2, <1>3, <1>5, <1>6 DEF GnssInv

\* What a tick makes of the line is sound, and what it leaves of the line fits.
LEMMA TickSound ==
  ASSUME GnssInv
  PROVE  /\ TickResult \in SoundReadings
         /\ SubSeq(line, Readable + 1, Len(line)) \in Seq(Byte)
         /\ Len(SubSeq(line, Readable + 1, Len(line))) <= UartBuffer
<1>1. /\ parser \in Parsers /\ ParserSound(parser) /\ snapshot \in Snapshots
      /\ line \in Seq(Byte) /\ Len(line) <= UartBuffer
  BY DEF GnssInv, GnssTypeOK
<1>2. Readable \in Nat /\ Readable <= Len(line) /\ Len(line) \in Nat
  BY <1>1, GnssConstants DEF Readable, Smaller
<1>3. TickResult \in SoundReadings
  <2> DEFINE start == [parser |-> parser, snapshot |-> snapshot, updated |-> FALSE]
             bytes == SubSeq(line, 1, Readable)
  <2>1. start \in SoundReadings
    BY <1>1 DEF SoundReadings, Readings
  <2>2. bytes \in Seq(Byte)
    <3>1. 1 \in Nat \ {0}
      OBVIOUS
    <3> QED
      BY <1>1, <1>2, <3>1, PartOfLine
  <2> HIDE DEF start, bytes
  <2>3. AllReceived(start, bytes) \in SoundReadings
    BY <2>1, <2>2, AllReceivedSound
  <2>4. CASE uart_ready
    BY <2>3, <2>4 DEF TickResult, start, bytes
  <2>5. CASE ~uart_ready
    <3>1. [snapshot EXCEPT !.fix = "NO_FIX"] \in Snapshots
      BY <1>1 DEF Snapshots
    <3>2. TickResult = [parser |-> parser, snapshot |-> [snapshot EXCEPT !.fix = "NO_FIX"],
                        updated |-> TRUE]
      BY <2>5 DEF TickResult
    <3>3. PICK s \in Snapshots : s = [snapshot EXCEPT !.fix = "NO_FIX"]
      BY <3>1
    <3>4. TickResult = [parser |-> parser, snapshot |-> s, updated |-> TRUE]
      BY <3>2, <3>3
    <3> QED
      BY <1>1, <3>4 DEF SoundReadings, Readings
  <2> QED
    BY <2>4, <2>5
<1>4. /\ SubSeq(line, Readable + 1, Len(line)) \in Seq(Byte)
      /\ Len(SubSeq(line, Readable + 1, Len(line))) <= UartBuffer
  <2>1. Readable + 1 \in Nat \ {0} /\ Len(line) <= Len(line)
    BY <1>2
  <2> QED
    BY <1>1, <1>2, <2>1, PartOfLine
<1> QED
  BY <1>3, <1>4

\* The types of the line and of the service, and of what it publishes.
LineTypes == line \in Seq(Byte) /\ Len(line) <= UartBuffer

ServiceTypes ==
  /\ parser \in Parsers /\ ParserSound(parser) /\ snapshot \in Snapshots /\ uart_ready \in BOOLEAN

PublishTypes ==
  /\ committed.has \in BOOLEAN /\ since \in 0 .. MaxSilence
  /\ fix_state \in FixStates /\ self_pos.valid \in BOOLEAN
  /\ PositionNeedsFix

ReceiverTypes == sky \in Sky /\ itow \in Byte /\ configured \in BOOLEAN

DeviceTypes == boot \in {"verify", "again", "run"} /\ override \in Overrides

\* The invariant says what the groups say.
LEMMA GnssByGroup ==
  GnssInv <=> LineTypes /\ ServiceTypes /\ PublishTypes /\ ReceiverTypes /\ DeviceTypes
BY DEF GnssInv, GnssTypeOK, LineTypes, ServiceTypes, PublishTypes, ReceiverTypes, DeviceTypes,
       Parsers, ParserSound, Snapshots, Overrides, FixStates

\* So it does of the next state.
LEMMA GnssByGroupNext ==
  GnssInv' <=> LineTypes' /\ ServiceTypes' /\ PublishTypes' /\ ReceiverTypes' /\ DeviceTypes'
BY DEF GnssInv, GnssTypeOK, LineTypes, ServiceTypes, PublishTypes, ReceiverTypes, DeviceTypes,
       Parsers, ParserSound, Snapshots, Overrides, FixStates

\* What is left alone keeps its type.
LEMMA GroupsKept ==
  ASSUME GnssInv
  PROVE  /\ UNCHANGED line => LineTypes'
         /\ UNCHANGED service => ServiceTypes'
         /\ UNCHANGED <<publishing, since>> => PublishTypes'
         /\ UNCHANGED receiver => ReceiverTypes'
         /\ UNCHANGED <<boot, override>> => DeviceTypes'
<1>1. LineTypes /\ ServiceTypes /\ PublishTypes /\ ReceiverTypes /\ DeviceTypes
  BY GnssByGroup
<1> QED
  BY <1>1 DEF LineTypes, ServiceTypes, PublishTypes, ReceiverTypes, DeviceTypes, ParserSound,
              PositionNeedsFix, service, publishing, receiver

\* The runtime is given a position only with a fix, and loses it with the fix.
LEMMA PublishStep ==
  ASSUME GnssInv, NEW s, s.fix \in FixStates, Publish(s)
  PROVE  PublishTypes'
<1>0. PublishTypes
  BY GnssByGroup
<1>1. fix_state' = s.fix
  BY DEF Publish
<1>2. CASE Due(s) /\ Commit(s)
  <2>1. s.fix # "NO_FIX" /\ committed'.has = TRUE /\ since' = 0 /\ self_pos'.valid = TRUE
    BY <1>2 DEF Due, Commit
  <2>2. 0 \in 0 .. MaxSilence
    BY GnssConstants
  <2> QED
    BY <1>1, <2>1, <2>2 DEF PublishTypes, PositionNeedsFix
<1>3. CASE s.fix = "NO_FIX" /\ self_pos' = [valid |-> FALSE, pos |-> 0] /\ UNCHANGED <<committed, since>>
  BY <1>0, <1>1, <1>3 DEF PublishTypes, PositionNeedsFix
<1>4. CASE ~Due(s) /\ s.fix # "NO_FIX" /\ UNCHANGED <<committed, since, self_pos>>
  BY <1>0, <1>1, <1>4 DEF PublishTypes, PositionNeedsFix
<1> QED
  BY <1>2, <1>3, <1>4 DEF Publish

\* A tick of the service keeps the types of the line and of the service.
LEMMA ServiceTickStep ==
  ASSUME GnssInv, ServiceTick(TickResult)
  PROVE  LineTypes' /\ ServiceTypes' /\ TickResult.snapshot.fix \in FixStates
<1>1. TickResult \in SoundReadings
  BY TickSound
<1>2. uart_ready \in BOOLEAN
  BY GnssByGroup DEF ServiceTypes
<1>3. /\ TickResult.parser \in Parsers /\ ParserSound(TickResult.parser)
      /\ TickResult.snapshot \in Snapshots
  BY <1>1 DEF SoundReadings, Readings
<1>4. PICK q, s : q = TickResult.parser /\ s = TickResult.snapshot
  OBVIOUS
<1>5. parser' = q /\ snapshot' = s /\ uart_ready' = uart_ready
      /\ line' = SubSeq(line, Readable + 1, Len(line))
  BY <1>4 DEF ServiceTick
<1>6. ServiceTypes'
  BY <1>2, <1>3, <1>4, <1>5 DEF ServiceTypes, ParserSound
<1>7. LineTypes'
  BY <1>5, TickSound DEF LineTypes
<1>8. s.fix \in FixStates
  BY <1>3, <1>4 DEF Snapshots, FixStates
<1> QED
  BY <1>4, <1>6, <1>7, <1>8

\* Every step keeps the invariant.
LEMMA GnssStep == GnssInv /\ [GnssNext]_gnssVars => GnssInv'
<1> SUFFICES ASSUME GnssInv, [GnssNext]_gnssVars PROVE GnssInv'
  OBVIOUS
<1>0. LineTypes /\ ServiceTypes /\ PublishTypes /\ ReceiverTypes /\ DeviceTypes
  BY GnssByGroup
<1>1. CASE SkyChanges
  <2>1. ReceiverTypes'
    BY <1>0, <1>1 DEF SkyChanges, ReceiverTypes
  <2>2. UNCHANGED <<line, service, publishing, since, boot, override>>
    BY <1>1 DEF SkyChanges
  <2> QED
    BY <2>1, <2>2, GroupsKept, GnssByGroupNext
<1>2. CASE SendPeriod
  <2>1. UNCHANGED <<service, publishing, since, boot, override>>
    BY <1>2 DEF SendPeriod
  <2>2. ReceiverTypes'
    <3>1. (itow + 1) % TimeMod \in 0 .. TimeMod - 1
      <4>1. itow \in Nat
        BY <1>0, ByteModIs DEF ReceiverTypes
      <4>2. itow + 1 \in Nat /\ TimeMod \in Nat \ {0}
        BY <4>1, GnssConstants
      <4>3. \A x \in Nat, m \in Nat \ {0} : x % m \in 0 .. m - 1
        BY SMT
      <4> QED
        BY <4>2, <4>3
    <3>2. (itow + 1) % TimeMod \in Byte
      BY <3>1, GnssConstants
    <3> QED
      BY <1>0, <1>2, <3>2 DEF SendPeriod, ReceiverTypes
  <2>3. LineTypes'
    <3>1. PICK f \in PvtFrames :
            line' = IF uart_ready
                    THEN SubSeq(line \o f.bytes, 1, Smaller(UartBuffer, Len(line) + Len(f.bytes)))
                    ELSE line
      BY <1>2 DEF SendPeriod
    <3>2. CASE ~uart_ready
      BY <1>0, <3>1, <3>2 DEF LineTypes
    <3>3. CASE uart_ready
      <4>1. line \in Seq(Byte) /\ f.bytes \in Seq(Byte)
        BY <1>0, FramesFit DEF LineTypes
      <4> DEFINE s == line \o f.bytes
                 n == Smaller(UartBuffer, Len(line) + Len(f.bytes))
      <4>2. s \in Seq(Byte) /\ Len(s) = Len(line) + Len(f.bytes)
        BY <4>1, ConcatProperties
      <4>3. Len(line) \in Nat /\ Len(f.bytes) \in Nat
        BY <4>1
      <4>4. n \in Nat /\ n <= Len(s) /\ n <= UartBuffer /\ UartBuffer \in Nat
        BY <4>2, <4>3, GnssConstants DEF Smaller
      <4>5. line' = SubSeq(s, 1, n)
        BY <3>1, <3>3
      <4> HIDE DEF s, n
      <4>6. \A i \in 1 .. n : s[i] \in Byte
        BY <4>2, <4>4
      <4>7. SubSeq(s, 1, n) \in Seq(Byte) /\ Len(SubSeq(s, 1, n)) = IF 1 <= n THEN n - 1 + 1 ELSE 0
        BY <4>4, <4>6, SubSeqProperties
      <4>8. Len(SubSeq(s, 1, n)) <= UartBuffer
        BY <4>4, <4>7
      <4> QED
        BY <4>5, <4>7, <4>8 DEF LineTypes
    <3> QED
      BY <3>2, <3>3
  <2> QED
    BY <2>1, <2>2, <2>3, GroupsKept, GnssByGroupNext
<1>3. CASE VerifyTick
  <2>1. ServiceTick(TickResult) /\ UNCHANGED <<receiver, override, since, publishing>>
        /\ boot' \in {"run", boot}
    BY <1>3 DEF VerifyTick
  <2>2. DeviceTypes'
    BY <1>0, <2>1 DEF DeviceTypes
  <2> QED
    BY <2>1, <2>2, ServiceTickStep, GroupsKept, GnssByGroupNext
<1>4. CASE VerifyTimeout
  <2>1. UNCHANGED <<sky, itow, line, override, since, publishing>>
    BY <1>4 DEF VerifyTimeout
  <2>2. ServiceTypes'
    <3>1. NoPosition \in Snapshots
      BY ByteModIs DEF NoPosition, Snapshots
    <3>2. PICK s \in Snapshots : s = NoPosition
      BY <3>1
    <3>3. UNCHANGED parser /\ uart_ready' \in BOOLEAN /\ snapshot' \in {snapshot, s}
      BY <1>0, <1>4, <3>2 DEF VerifyTimeout, ServiceTypes, service
    <3> QED
      BY <1>0, <3>3 DEF ServiceTypes, ParserSound
  <2>3. ReceiverTypes' /\ DeviceTypes'
    BY <1>0, <1>4, <2>1 DEF VerifyTimeout, ReceiverTypes, DeviceTypes
  <2> QED
    BY <2>1, <2>2, <2>3, GroupsKept, GnssByGroupNext
<1>5. CASE AppTick
  <2>1. UNCHANGED <<receiver, boot, override>>
    BY <1>5 DEF AppTick
  <2>2. CASE override.enabled
    <3>1. /\ Publish([fix |-> override.fix, pos |-> override.pos])
          /\ UNCHANGED <<service, line>>
      BY <1>5, <2>2 DEF AppTick
    <3>2. [fix |-> override.fix, pos |-> override.pos].fix \in FixStates
      BY <1>0 DEF DeviceTypes, Overrides
    <3>3. PublishTypes'
      BY <3>1, <3>2, PublishStep
    <3> QED
      BY <2>1, <3>1, <3>3, GroupsKept, GnssByGroupNext
  <2>3. CASE ~override.enabled
    <3>1. /\ ServiceTick(TickResult)
          /\ IF TickResult.updated THEN Publish(TickResult.snapshot) ELSE UNCHANGED <<publishing, since>>
      BY <1>5, <2>3 DEF AppTick
    <3>2. LineTypes' /\ ServiceTypes' /\ TickResult.snapshot.fix \in FixStates
      BY <3>1, ServiceTickStep
    <3>3. PublishTypes'
      <4>1. CASE TickResult.updated
        BY <3>1, <3>2, <4>1, PublishStep
      <4>2. CASE ~TickResult.updated
        BY <3>1, <4>2, GroupsKept
      <4> QED
        BY <4>1, <4>2
    <3> QED
      BY <2>1, <3>2, <3>3, GroupsKept, GnssByGroupNext
  <2> QED
    BY <2>2, <2>3
<1>6. CASE GnssCommand
  <2>1. UNCHANGED <<receiver, line, service, boot, since, publishing>>
    BY <1>6 DEF GnssCommand
  <2>2. override' \in Overrides
    <3>1. override \in Overrides
      BY <1>0 DEF DeviceTypes
    <3>2. NoOverride \in Overrides
      BY DEF NoOverride, Overrides, FixStates
    <3>3. [enabled |-> TRUE, fix |-> "NO_FIX", pos |-> 0] \in Overrides
      BY DEF Overrides, FixStates
    <3>4. \A p \in OverridePositions : [enabled |-> TRUE, fix |-> "FIX_3D", pos |-> p] \in Overrides
      BY DEF Overrides, FixStates
    <3>5. \A p \in OverridePositions : [override EXCEPT !.pos = p] \in Overrides
      BY <3>1 DEF Overrides
    <3> QED
      BY <1>6, <3>2, <3>3, <3>4, <3>5 DEF GnssCommand
  <2>3. DeviceTypes'
    BY <1>0, <2>1, <2>2 DEF DeviceTypes
  <2> QED
    BY <2>1, <2>3, GroupsKept, GnssByGroupNext
<1>7. CASE Clock
  <2>1. UNCHANGED <<receiver, line, service, boot, override, publishing>>
        /\ since < MaxSilence /\ since' = since + 1
    BY <1>7 DEF Clock
  <2>2. since' \in 0 .. MaxSilence
    <3>1. since \in 0 .. MaxSilence
      BY <1>0 DEF PublishTypes
    <3> QED
      BY <2>1, <3>1, GnssConstants
  <2>3. PublishTypes'
    BY <1>0, <2>1, <2>2 DEF PublishTypes, PositionNeedsFix, publishing
  <2> QED
    BY <2>1, <2>3, GroupsKept, GnssByGroupNext
<1>8. CASE UNCHANGED gnssVars
  <2>1. UNCHANGED <<line, service, publishing, since, receiver, boot, override>>
    BY <1>8 DEF gnssVars
  <2> QED
    BY <2>1, GroupsKept, GnssByGroupNext
<1> QED
  BY <1>1, <1>2, <1>3, <1>4, <1>5, <1>6, <1>7, <1>8 DEF GnssNext

\* The invariant holds throughout, for any bytes, frames, reads and commands.
THEOREM GnssInvariant == GnssSpec => []GnssInv
BY InitGnss, GnssStep, PTL DEF GnssSpec

\* No payload runs over the buffer of the parser, wherever in a frame it takes up the line and
\* whatever was lost before.
THEOREM PayloadsFit == GnssSpec => []GnssTypeOK
<1>1. GnssInv => GnssTypeOK
  BY DEF GnssInv
<1> QED
  BY GnssInvariant, <1>1, PTL

\* The runtime has a position only while the display shows a fix, whoever reports it.
THEOREM PositionIsFixed == GnssSpec => []PositionNeedsFix
<1>1. GnssInv => PositionNeedsFix
  BY DEF GnssInv
<1> QED
  BY GnssInvariant, <1>1, PTL

-------------------------------------------------------------------------------
(* The receiver: what the parser computes.                                 *)

\* A body as the protocol has it: class, id, length, and a payload of that length that the
\* buffer of the parser holds.
WellFormed(body) ==
  /\ body \in Seq(Byte) /\ Len(body) >= 4
  /\ PayloadLen(body) \in 0 .. MaxPayload
  /\ Len(body) = 4 + PayloadLen(body)

\* The bytes of a frame, by their places.
LEMMA FrameBytes ==
  ASSUME NEW body, WellFormed(body), NEW a \in Byte, NEW b \in Byte, Checksum(body) = <<a, b>>
  PROVE  LET f == Framed(body)
             n == Len(body)
         IN  /\ f \in Seq(Byte) /\ Len(f) = n + 4
             /\ f[1] = Sync1 /\ f[2] = Sync2
             /\ \A i \in 1 .. n : f[i + 2] = body[i]
             /\ f[n + 3] = a /\ f[n + 4] = b
<1> DEFINE n == Len(body)
           head == <<Sync1, Sync2>>
           ck == <<a, b>>
           g == head \o body
           f == g \o ck
<1>0. body \in Seq(Byte) /\ n \in Nat
  BY DEF WellFormed
<1>1. head \in Seq(Byte) /\ Len(head) = 2 /\ head[1] = Sync1 /\ head[2] = Sync2
  <2>1. Sync1 \in Byte /\ Sync2 \in Byte
    BY GnssConstants
  <2> QED
    BY <2>1
<1>2. ck \in Seq(Byte) /\ Len(ck) = 2 /\ ck[1] = a /\ ck[2] = b
  OBVIOUS
<1>3. Framed(body) = f
  BY DEF Framed
<1> HIDE DEF head, ck
<1>4. /\ g \in Seq(Byte) /\ Len(g) = Len(head) + Len(body)
      /\ \A i \in 1 .. Len(head) + Len(body) :
           g[i] = IF i <= Len(head) THEN head[i] ELSE body[i - Len(head)]
  BY <1>0, <1>1, ConcatProperties
<1> HIDE DEF g
<1>5. /\ f \in Seq(Byte) /\ Len(f) = Len(g) + Len(ck)
      /\ \A i \in 1 .. Len(g) + Len(ck) :
           f[i] = IF i <= Len(g) THEN g[i] ELSE ck[i - Len(g)]
  <2>1. g \in Seq(Byte)
    BY <1>4
  <2> QED
    BY <1>2, <2>1, ConcatProperties
<1> HIDE DEF f, n
<1>6. Len(g) = n + 2 /\ Len(f) = n + 4 /\ Len(body) = n
  BY <1>0, <1>1, <1>2, <1>4, <1>5 DEF n
<1>7. f[1] = Sync1 /\ f[2] = Sync2
  <2>1. 1 \in 1 .. n + 4 /\ 2 \in 1 .. n + 4 /\ 1 \in 1 .. n + 2 /\ 2 \in 1 .. n + 2
    BY <1>0 DEF n
  <2> QED
    BY <1>0, <1>1, <1>2, <1>4, <1>5, <1>6, <2>1
<1>8. ASSUME NEW i \in 1 .. n PROVE f[i + 2] = body[i]
  <2>1. i + 2 \in 1 .. n + 4 /\ i + 2 \in 1 .. n + 2 /\ i + 2 <= n + 2 /\ ~(i + 2 <= 2)
        /\ (i + 2) - 2 = i
    BY <1>0 DEF n
  <2>2. f[i + 2] = g[i + 2]
    BY <1>0, <1>2, <1>5, <1>6, <2>1
  <2>3. g[i + 2] = body[i]
    BY <1>0, <1>1, <1>4, <1>6, <2>1
  <2> QED
    BY <2>2, <2>3
<1>9. f[n + 3] = a /\ f[n + 4] = b
  <2>1. /\ n + 3 \in 1 .. n + 4 /\ n + 4 \in 1 .. n + 4
        /\ ~(n + 3 <= n + 2) /\ ~(n + 4 <= n + 2)
        /\ (n + 3) - (n + 2) = 1 /\ (n + 4) - (n + 2) = 2
    BY <1>0 DEF n
  <2> QED
    BY <1>0, <1>2, <1>5, <1>6, <2>1
<1> QED
  BY <1>3, <1>5, <1>6, <1>7, <1>8, <1>9 DEF n

\* The parser has taken up the first k bytes of a body.
Follows(p, body, sums, k) ==
  /\ p \in Parsers
  /\ p.state = IF k = Len(body) THEN "ck_a" ELSE "body"
  /\ Len(p.body) = k /\ \A j \in 1 .. k : p.body[j] = body[j]
  /\ p.ck_a = sums[k][1] /\ p.ck_b = sums[k][2]

\* One byte more.
LEMMA FollowsOn ==
  ASSUME NEW body, WellFormed(body), NEW sums, IsSums(sums, body), NEW k \in 1 .. Len(body),
         NEW p, Follows(p, body, sums, k - 1)
  PROVE  Follows(PushByte(p, body[k]), body, sums, k) /\ ~FrameOk(p, body[k])
<1> DEFINE n == Len(body)
           b == body[k]
           q == Accumulated(p, b)
<1>0. /\ body \in Seq(Byte) /\ n \in Nat /\ n >= 4 /\ k \in Nat /\ k >= 1 /\ k <= n /\ k - 1 # n
      /\ PayloadLen(body) \in Nat /\ PayloadLen(body) <= MaxPayload /\ n = 4 + PayloadLen(body)
      /\ MaxPayload \in Nat /\ b \in Byte
  BY GnssConstants DEF WellFormed
<1>1. p \in Parsers /\ p.state = "body" /\ p.body \in Seq(Byte) /\ Len(p.body) = k - 1
  BY <1>0 DEF Follows, Parsers
<1>2. ~FrameOk(p, b) /\ PushByte(p, b) = AfterHeaderOrPayload(q)
  BY <1>1 DEF FrameOk, PushByte
<1>3. /\ q \in Parsers /\ q.state = "body" /\ q.body = Append(p.body, b)
      /\ q.ck_a = (p.ck_a + b) % ByteMod /\ q.ck_b = (p.ck_b + p.ck_a + b) % ByteMod
  <2>1. q \in Parsers /\ q.state = "body" /\ q.body = Append(p.body, b)
    BY <1>0, <1>1, AccumulatedIs
  <2>2. PICK x, y, z : /\ x = Append(p.body, b) /\ y = (p.ck_a + b) % ByteMod
                       /\ z = (p.ck_b + p.ck_a + b) % ByteMod
    OBVIOUS
  <2>3. q = [p EXCEPT !.body = x, !.ck_a = y, !.ck_b = z]
    BY <2>2 DEF Accumulated
  <2>4. q.ck_a = y /\ q.ck_b = z
    BY <1>1, <2>3 DEF Parsers
  <2> QED
    BY <2>1, <2>2, <2>4
<1>4. q.ck_a = sums[k][1] /\ q.ck_b = sums[k][2]
  <2>1. p.ck_a = sums[k - 1][1] /\ p.ck_b = sums[k - 1][2]
    BY DEF Follows
  <2>2. sums[k] = <<(sums[k - 1][1] + b) % ByteMod, (sums[k - 1][2] + sums[k - 1][1] + b) % ByteMod>>
    BY DEF IsSums
  <2>3. sums[k] = <<q.ck_a, q.ck_b>>
    BY <1>3, <2>1, <2>2, Zenon
  <2> QED
    BY <2>3
<1>5. Len(q.body) = k /\ \A j \in 1 .. k : q.body[j] = body[j]
  <2>1. Len(q.body) = k
    BY <1>0, <1>1, <1>3
  <2>2. \A j \in 1 .. k : q.body[j] = IF j = k THEN b ELSE p.body[j]
    BY <1>0, <1>1, <1>3
  <2>3. \A j \in 1 .. k : j # k => j \in 1 .. k - 1
    BY <1>0
  <2>4. \A j \in 1 .. k - 1 : p.body[j] = body[j]
    BY DEF Follows
  <2> QED
    BY <2>1, <2>2, <2>3, <2>4
<1> HIDE DEF q, b, n
<1>6. k >= 4 => PayloadLen(q.body) = PayloadLen(body)
  <2>1. k >= 4 => 3 \in 1 .. k /\ 4 \in 1 .. k
    BY <1>0
  <2> QED
    BY <1>5, <2>1 DEF PayloadLen
<1>7. ~TooLong(q.body) /\ (Complete(q.body) <=> k = n)
  <2>1. CASE k >= 4
    <3>1. PayloadLen(q.body) = PayloadLen(body)
      BY <1>6, <2>1
    <3> QED
      BY <1>0, <1>5, <2>1, <3>1 DEF TooLong, Complete
  <2>2. CASE ~(k >= 4)
    <3>1. Len(q.body) # 4 /\ ~(Len(q.body) >= 4) /\ k # n
      BY <1>0, <1>5, <2>2
    <3> QED
      BY <3>1 DEF TooLong, Complete
  <2> QED
    BY <2>1, <2>2
<1>8. PICK st \in {"ck_a", "body"} : st = IF k = n THEN "ck_a" ELSE "body"
  OBVIOUS
<1>9. AfterHeaderOrPayload(q) = [q EXCEPT !.state = st]
  BY <1>7, <1>8 DEF AfterHeaderOrPayload
<1>10. LET r == [q EXCEPT !.state = st]
       IN  /\ r \in Parsers /\ r.state = st /\ r.body = q.body
           /\ r.ck_a = q.ck_a /\ r.ck_b = q.ck_b
  BY <1>3, <1>8 DEF Parsers
<1> QED
  BY <1>2, <1>4, <1>5, <1>8, <1>9, <1>10 DEF Follows, n, b

\* From rest the parser takes a frame up whole and is at rest again: the checksum it keeps byte
\* by byte is the one of the protocol, it stops at the end of the payload, and the service
\* gets just this body, if it is that of a NAV-PVT.
THEOREM FrameIsTakenUp ==
  ASSUME NEW body, WellFormed(body), NEW s \in Snapshots
  PROVE  AllReceived([parser |-> Rest, snapshot |-> s, updated |-> FALSE], Framed(body)) =
           [parser   |-> Rest,
            snapshot |-> IF IsPvt(body) THEN Applied(s, body) ELSE s,
            updated  |-> IsPvt(body)]
<1> DEFINE n == Len(body)
           f == Framed(body)
           start == [parser |-> Rest, snapshot |-> s, updated |-> FALSE]
<1>0. body \in Seq(Byte) /\ n \in Nat /\ n >= 4
  BY DEF WellFormed
<1>1. PICK sums : IsSums(sums, body)
  BY <1>0, ChecksumSums
<1>2. PICK a \in Byte, b \in Byte : Checksum(body) = <<a, b>> /\ sums[n] = <<a, b>>
  <2>1. n \in 0 .. n
    BY <1>0
  <2>2. sums[n] \in Byte \X Byte /\ Checksum(body) = sums[n]
    BY <1>1, <2>1 DEF IsSums
  <2> QED
    BY <2>2
<1>3. /\ f \in Seq(Byte) /\ Len(f) = n + 4 /\ f[1] = Sync1 /\ f[2] = Sync2
      /\ \A i \in 1 .. n : f[i + 2] = body[i]
      /\ f[n + 3] = a /\ f[n + 4] = b
  BY <1>2, FrameBytes
<1>4. Rest \in Parsers /\ ParserSound(Rest) /\ Rest.state = "sync1" /\ Rest.body = <<>>
      /\ Rest.ck_a = 0 /\ Rest.ck_b = 0
  <2>1. MaxPayload \in Nat /\ 0 \in Byte /\ <<>> \in Seq(Byte) /\ Len(<<>>) = 0
    BY GnssConstants, ByteModIs
  <2>2. Rest \in Parsers
    BY <2>1 DEF Rest, Parsers
  <2>3. Rest.state = "sync1" /\ Rest.body = <<>> /\ Rest.ck_a = 0 /\ Rest.ck_b = 0
    BY DEF Rest
  <2> QED
    BY <2>1, <2>2, <2>3 DEF ParserSound
<1>5. start \in SoundReadings
  BY <1>4 DEF SoundReadings, Readings
<1> HIDE DEF f, start
<1>6. PICK after : IsRun(after, start, f)
  BY <1>3, <1>5, ReceivedByteByByte
<1>7. /\ after[0] = start
      /\ \A i \in 1 .. n + 4 : after[i] = ByteReceived[<<after[i - 1], f[i]>>]
      /\ \A i \in 0 .. n + 4 : after[i] \in Readings
      /\ \A i \in 1 .. n + 4 : f[i] \in Byte
      /\ AllReceived(start, f) = after[n + 4]
  <2>1. SoundReadings \subseteq Readings
    BY DEF SoundReadings
  <2>2. after \in [0 .. n + 4 -> SoundReadings]
    BY <1>3, <1>6 DEF IsRun
  <2>3. \A i \in 0 .. n + 4 : after[i] \in Readings
    BY <2>1, <2>2
  <2> QED
    BY <1>3, <1>6, <2>3 DEF IsRun
\* A byte that does not end a frame.
<1>8. ASSUME NEW i \in 1 .. n + 4, after[i - 1].snapshot = s, after[i - 1].updated = FALSE,
             ~FrameOk(after[i - 1].parser, f[i])
      PROVE  /\ after[i].parser = PushByte(after[i - 1].parser, f[i])
             /\ after[i].snapshot = s /\ after[i].updated = FALSE
  <2>1. i - 1 \in 0 .. n + 4
    BY <1>0
  <2>2. PICK r \in Readings, c \in Byte : r = after[i - 1] /\ c = f[i]
    BY <1>7, <2>1
  <2>3. after[i] = ByteReceived[<<r, c>>]
    BY <1>7, <2>2
  <2>4. r.snapshot = s /\ r.updated = FALSE /\ ~FrameOk(r.parser, c)
    BY <1>8, <2>2
  <2>5. ByteReceived[<<r, c>>] = [parser |-> PushByte(r.parser, c), snapshot |-> s, updated |-> FALSE]
    BY <2>4 DEF ByteReceived
  <2> QED
    BY <2>2, <2>3, <2>5
<1> DEFINE Unmoved(i) == after[i].snapshot = s /\ after[i].updated = FALSE
<1>9. after[1].parser = [Rest EXCEPT !.state = "sync2"] /\ Unmoved(1)
  <2>1. 1 \in 1 .. n + 4 /\ 1 - 1 = 0
    BY <1>0
  <2>2. after[0].parser = Rest /\ Unmoved(0)
    BY <1>7 DEF start
  <2>3. ~FrameOk(Rest, Sync1) /\ PushByte(Rest, Sync1) = [Rest EXCEPT !.state = "sync2"]
    BY <1>4 DEF FrameOk, PushByte
  <2>4. /\ after[1].parser = PushByte(after[0].parser, f[1])
        /\ after[1].snapshot = s /\ after[1].updated = FALSE
    BY <1>3, <1>8, <2>1, <2>2, <2>3
  <2> QED
    BY <1>3, <2>2, <2>3, <2>4
<1>10. Follows(after[2].parser, body, sums, 0) /\ Unmoved(2)
  <2>1. 2 \in 1 .. n + 4 /\ 2 - 1 = 1
    BY <1>0
  <2>2. PICK p \in Parsers : p = after[1].parser /\ p.state = "sync2" /\ p.body = <<>>
                             /\ p.ck_a = 0 /\ p.ck_b = 0
    BY <1>4, <1>9 DEF Parsers
  <2>3. ~FrameOk(p, Sync2) /\ PushByte(p, Sync2) = [p EXCEPT !.state = "body"]
    BY <2>2 DEF FrameOk, PushByte
  <2>4. /\ after[2].parser = PushByte(after[1].parser, f[2])
        /\ after[2].snapshot = s /\ after[2].updated = FALSE
    BY <1>3, <1>8, <1>9, <2>1, <2>2, <2>3
  <2>5. PICK q \in Parsers : q = after[2].parser /\ q.state = "body" /\ q.body = <<>>
                             /\ q.ck_a = 0 /\ q.ck_b = 0
    BY <1>3, <2>2, <2>3, <2>4 DEF Parsers
  <2>6. sums[0] = <<0, 0>> /\ 0 # n /\ Len(<<>>) = 0
    BY <1>0, <1>1 DEF IsSums
  <2>7. Follows(q, body, sums, 0)
    BY <2>5, <2>6 DEF Follows
  <2> QED
    BY <2>4, <2>5, <2>7
<1> DEFINE P(k) == Follows(after[k + 2].parser, body, sums, k) /\ Unmoved(k + 2)
<1>11. ASSUME NEW k \in 1 .. n, P(k - 1) PROVE P(k)
  <2>1. k + 2 \in 1 .. n + 4 /\ (k + 2) - 1 = (k - 1) + 2 /\ f[k + 2] = body[k]
    BY <1>0, <1>3
  <2>2. PICK p : p = after[(k - 1) + 2].parser /\ Follows(p, body, sums, k - 1)
    BY <1>11
  <2>3. Follows(PushByte(p, body[k]), body, sums, k) /\ ~FrameOk(p, body[k])
    BY <1>1, <2>2, FollowsOn
  <2>4. /\ after[k + 2].parser = PushByte(p, body[k])
        /\ after[k + 2].snapshot = s /\ after[k + 2].updated = FALSE
    BY <1>8, <1>11, <2>1, <2>2, <2>3
  <2> QED
    BY <2>3, <2>4
<1>12. P(n)
  <2> DEFINE T == {k \in 0 .. n : ~P(k)}
  <2> HIDE DEF P
  <2> SUFFICES ASSUME T # {} PROVE FALSE
    <3>1. n \in 0 .. n
      BY <1>0
    <3> QED
      BY <3>1
  <2>1. T \in SUBSET Nat
    OBVIOUS
  <2>2. PICK m \in T : \A k \in T : m <= k
    BY <2>1, SmallestOf
  <2>3. P(0)
    BY <1>10 DEF P
  <2>4. m \in 1 .. n /\ m - 1 \in 0 .. n /\ ~(m <= m - 1)
    BY <2>2, <2>3
  <2>5. P(m - 1)
    BY <2>2, <2>4
  <2> QED
    BY <1>11, <2>2, <2>4, <2>5
<1>13. PICK p \in Parsers : /\ p = after[n + 2].parser /\ p.state = "ck_a" /\ p.body = body
                            /\ p.ck_a = a /\ p.ck_b = b
  <2>1. PICK p \in Parsers : p = after[n + 2].parser /\ Follows(p, body, sums, n)
    BY <1>12 DEF Follows
  <2>2. p.body \in Seq(Byte) /\ Len(p.body) = n /\ \A j \in 1 .. n : p.body[j] = body[j]
    BY <2>1 DEF Follows, Parsers
  <2>3. p.body = body
    BY <1>0, <2>2, SeqEqual
  <2>4. p.ck_a = a /\ p.ck_b = b
    BY <1>2, <2>1 DEF Follows
  <2>5. p.state = "ck_a"
    BY <2>1 DEF Follows
  <2> QED
    BY <2>1, <2>3, <2>4, <2>5
<1>14. PICK q \in Parsers : /\ q = after[n + 3].parser /\ q.state = "ck_b" /\ q.body = body
                            /\ q.rx = a /\ q.ck_a = a /\ q.ck_b = b
  <2>1. n + 3 \in 1 .. n + 4 /\ (n + 3) - 1 = n + 2
    BY <1>0
  <2>2. ~FrameOk(p, a) /\ PushByte(p, a) = [p EXCEPT !.rx = a, !.state = "ck_b"]
    BY <1>13 DEF FrameOk, PushByte
  <2>3. after[n + 3].parser = [p EXCEPT !.rx = a, !.state = "ck_b"]
    BY <1>3, <1>8, <1>12, <1>13, <2>1, <2>2
  <2> QED
    BY <1>13, <2>3 DEF Parsers
<1>15. after[n + 3] \in Readings /\ Unmoved(n + 3)
  <2>1. n + 3 \in 1 .. n + 4 /\ (n + 3) - 1 = n + 2 /\ n + 4 \in 1 .. n + 4 /\ (n + 4) - 1 = n + 3
    BY <1>0
  <2>2. ~FrameOk(p, a)
    BY <1>13 DEF FrameOk
  <2>3. after[n + 3] \in Readings
    BY <1>7, <2>1
  <2> QED
    BY <1>3, <1>8, <1>12, <1>13, <2>1, <2>2, <2>3
<1>16. FrameOk(q, b) /\ PushByte(q, b) = Rest
  BY <1>14 DEF FrameOk, PushByte
<1>17. after[n + 4] = [parser   |-> Rest,
                       snapshot |-> IF IsPvt(body) THEN Applied(s, body) ELSE s,
                       updated  |-> IsPvt(body)]
  <2>1. n + 4 \in 1 .. n + 4 /\ (n + 4) - 1 = n + 3
    BY <1>0
  <2>2. PICK r \in Readings : r = after[n + 3] /\ r.parser = q /\ r.snapshot = s /\ r.updated = FALSE
    BY <1>14, <1>15
  <2>3. after[n + 4] = ByteReceived[<<r, b>>]
    BY <1>3, <1>7, <2>1, <2>2
  <2>4. IsPvt(body) \in BOOLEAN
    BY DEF IsPvt
  <2> QED
    BY <1>14, <1>16, <2>2, <2>3, <2>4 DEF ByteReceived
<1> QED
  BY <1>7, <1>17 DEF f, start

================================================================================
