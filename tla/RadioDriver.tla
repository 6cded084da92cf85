------------------------------ MODULE RadioDriver ------------------------------
(***************************************************************************)
(* The UART radio modules (E220Radio and E22Radio, which differ in their   *)
(* pins and libraries only) as the driver sees them: begin reads the       *)
(* registers of the module at every boot, repairs what differs from the    *)
(* factory preset once and verifies the repair; recv then drains the       *)
(* serial line and hands up all that was on it as one packet.              *)
(*                                                                         *)
(* The registers keep their values when the power fails.  The module is    *)
(* not trusted: a call may fail at any point, and a write may leave any    *)
(* register as it was (the modules clamp rates they do not like).          *)
(***************************************************************************)
EXTENDS Integers

CONSTANTS
  AirRates,       \* values of the air rate register
  Channels,       \* values of the channel register
  PresetRate,     \* rate_tier of the factory profile
  PresetChannel,  \* channel_slot of the factory profile
  MinAirRate,     \* kMinAirRate
  MaxWaiting      \* bound: frames that wait on the serial line at once

ASSUME RadioAssumption ==
  /\ AirRates \subseteq Nat
  /\ {PresetRate, MinAirRate} \subseteq AirRates
  /\ PresetChannel \in Channels
  /\ MaxWaiting \in Nat \ {0}

VARIABLES
  regs,           \* the registers of the module
  ready,          \* ready_
  result,         \* last_boot_result_
  rssi_enabled,   \* rssi_enabled_
  radio_step,     \* how far begin has come
  handed          \* what recv handed up last, or Nothing

radioVars == <<regs, ready, result, rssi_enabled, radio_step, handed>>

\* "other" stands for the remaining critical registers: TRUE if they are as expected.
Registers == [rate : AirRates, chan : Channels, rssi : BOOLEAN, other : BOOLEAN]
Results == {"Ok", "Repaired", "RepairFailed"}

\* A packet: the frames it is made of, and the bytes it has too many, signal strengths that
\* were left in it, or one too few.
Packets == [frames : 0 .. MaxWaiting, stray : -1 .. MaxWaiting]
Nothing == [frames |-> 0, stray |-> 0]

RadioTypeOK ==
  /\ regs \in Registers
  /\ ready \in BOOLEAN
  /\ result \in Results
  /\ rssi_enabled \in BOOLEAN
  /\ radio_step \in {"off", "begin", "read", "write", "reread", "up"}
  /\ handed \in Packets

\* normalize_air_rate
Clamped == PresetRate < MinAirRate
NormalRate == IF Clamped THEN MinAirRate ELSE PresetRate

\* apply_critical: the registers begin wants, channel and rate from the preset.
Target == [rate |-> NormalRate, chan |-> PresetChannel, rssi |-> TRUE, other |-> TRUE]

\* critical_params_match
CriticalMatch(r) == r = Target

\* Mutant: the channel that is read back is not compared.
VerifiesRateOnly(r) == r.rate = Target.rate

\* verify_preset_readback looks at the rate and the channel only.
Verified(r) == r.rate = Target.rate /\ r.chan = Target.chan

\* What a write may make of the registers.
AfterWrite(r) ==
  [rate : {r.rate, Target.rate}, chan : {r.chan, Target.chan},
   rssi : {r.rssi, Target.rssi}, other : {r.other, Target.other}]

-------------------------------------------------------------------------------

RadioInit ==
  /\ regs \in Registers
  /\ ready = FALSE
  /\ result = "Ok"
  /\ rssi_enabled = FALSE
  /\ radio_step = "off"
  /\ handed = Nothing

\* create_radio makes the driver anew; only the registers are older than the boot.
RadioOn ==
  /\ radio_step = "off"
  /\ radio_step' = "begin"
  /\ UNCHANGED <<regs, ready, result, rssi_enabled, handed>>

\* The library reaches the module or not; if not, begin returns with the result as it is.
BeginLibrary ==
  /\ radio_step = "begin"
  /\ result' = IF Clamped THEN "Repaired" ELSE "Ok"
  /\ ready' \in BOOLEAN
  /\ radio_step' = IF ready' THEN "read" ELSE "up"
  /\ UNCHANGED <<regs, rssi_enabled, handed>>

\* A call to the module fails: the driver goes on with the mode it would have set.
RepairFails ==
  /\ result' = "RepairFailed"
  /\ rssi_enabled' = Target.rssi
  /\ radio_step' = "up"
  /\ UNCHANGED <<ready, handed>>

\* The first getConfiguration, and what is decided from it.
ReadConfiguration ==
  /\ radio_step = "read"
  /\ \/ RepairFails /\ UNCHANGED regs
     \/ /\ CriticalMatch(regs)
        /\ rssi_enabled' = regs.rssi
        /\ radio_step' = "up"
        /\ UNCHANGED <<regs, ready, result, handed>>
     \/ /\ ~CriticalMatch(regs)
        /\ radio_step' = "write"
        /\ UNCHANGED <<regs, ready, result, rssi_enabled, handed>>

\* setConfiguration; a failed call may have changed registers all the same.
WriteConfiguration ==
  /\ radio_step = "write"
  /\ regs' \in AfterWrite(regs)
  /\ \/ RepairFails
     \/ /\ radio_step' = "reread"
        /\ UNCHANGED <<ready, result, rssi_enabled, handed>>

\* Mutant: the driver takes for granted that the module reports the signal strength.
VerifyAssumingRssi ==
  /\ radio_step = "reread"
  /\ \/ RepairFails
     \/ /\ result' = IF Verified(regs) THEN "Repaired" ELSE "RepairFailed"
        /\ rssi_enabled' = Target.rssi
        /\ radio_step' = "up"
        /\ UNCHANGED <<ready, handed>>
  /\ UNCHANGED regs

\* The second getConfiguration and the verification.
VerifyConfiguration ==
  /\ radio_step = "reread"
  /\ \/ RepairFails
     \/ /\ result' = IF Verified(regs) THEN "Repaired" ELSE "RepairFailed"
        /\ rssi_enabled' = regs.rssi
        /\ radio_step' = "up"
        /\ UNCHANGED <<ready, handed>>
  /\ UNCHANGED regs

\* The packet made of n waiting frames.  The module appends a signal strength to each if its
\* register says so; the driver takes one byte off the end if it believes that.
Received(n) ==
  [frames |-> n,
   stray |-> (IF regs.rssi THEN n ELSE 0) - (IF rssi_enabled THEN 1 ELSE 0)]

\* validate_header: on_rx drops a packet unless its length is that of the one frame whose
\* header it starts with.
Decodable(p) == p.frames = 1 /\ p.stray = 0

\* recv with frames on the line.  The library may fail, and a packet longer than max_len is
\* dropped; the line is empty afterwards all the same.
Recv ==
  /\ radio_step = "up"
  /\ ready
  /\ \E n \in 1 .. MaxWaiting : handed' \in {Received(n), Nothing}
  /\ UNCHANGED <<regs, ready, result, rssi_enabled, radio_step>>

\* The driver's memory is lost, the registers are not.
RadioOff ==
  /\ ready' = FALSE
  /\ result' = "Ok"
  /\ rssi_enabled' = FALSE
  /\ radio_step' = "off"
  /\ handed' = Nothing

RadioBoot == BeginLibrary \/ ReadConfiguration \/ WriteConfiguration \/ VerifyConfiguration

-------------------------------------------------------------------------------
(* Properties *)

\* Unless the boot says that the repair failed, a frame that has waited alone is handed up as
\* the module received it, or not at all: the driver and the module agree about the signal
\* strength byte.
LoneFrameDecodes ==
  handed.frames = 1 => Decodable(handed) \/ result = "RepairFailed"

\* What the loop counts on, which asks for up to kMaxRxPerTick packets a pass
\* (m1_runtime.cpp:358): a packet is a frame.  It does not hold: frames that have waited
\* together come up as one packet, a signal strength after each but the last, and on_rx
\* drops them all.
PacketsDecode ==
  handed # Nothing => Decodable(handed) \/ result = "RepairFailed"

================================================================================
