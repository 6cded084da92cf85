-------------------------------- MODULE BeaconTx --------------------------------
(***************************************************************************)
(* The sending side of a device: when a packet is formed, what number it   *)
(* gets, when it is handed to the radio, and what a reboot forgets.        *)
(*                                                                         *)
(* The firmware loop calls AppServices::tick over and over.  One pass is   *)
(* four steps here, between which power may fail: the GNSS input and the   *)
(* self update policy, the formation half of M1Runtime::handle_tx, its     *)
(* sending half, and the write of the sent number to flash.  All of a pass *)
(* sees the one clock reading it was called with; up to MaxStall ticks go  *)
(* by until the next pass.                                                 *)
(*                                                                         *)
(* The radio is ready, the carrier is not sensed (enable_sense(false), no  *)
(* channel sense is given), encoding a frame succeeds (the buffers have    *)
(* the size of the frame), some telemetry is always there for a status     *)
(* packet, and a put to flash succeeds.  The radio may refuse any packet.  *)
(*                                                                         *)
(* A time stamp that is only subtracted from the clock is kept as its age, *)
(* which stops at the largest value it is compared with; left out with it  *)
(* is that a stamp taken at reading 0 passes for one never taken.          *)
(***************************************************************************)
EXTENDS Integers, FiniteSets

CONSTANTS
  MinInterval,        \* min_interval_ms_, in ticks, as all times here
  MaxSilence,         \* max_silence_ms_, not 0: every profile has one
  MinStatusInterval,  \* min_status_interval_ms_
  StatusMax,          \* T_status_max_ms_
  MaxJitter,          \* jitter_ms_
  BaseBackoff,        \* base_backoff_ms_
  MaxBackoff,         \* max_backoff_ms_
  SeqModulus,         \* 2^16
  TimeMod,            \* the clock wraps after TimeMod ticks
  MaxStall,           \* the longest time from one pass of the loop to the next
  MaxCrashes,         \* bound: how often power fails
  NoFrame, NoSeq, Never   \* no frame; a number not there yet; not since boot

ASSUME TxAssumption ==
  /\ {MinInterval, MaxSilence, MinStatusInterval, StatusMax, BaseBackoff,
      MaxStall, SeqModulus} \subseteq Nat \ {0}
  /\ {MaxJitter, MaxCrashes} \subseteq Nat
  /\ MaxBackoff \in Nat /\ BaseBackoff <= MaxBackoff
  /\ 3 * MinInterval <= MaxSilence   \* the invariant of a role profile record
  /\ MaxBackoff < MaxSilence         \* 2 seconds, where no profile has less than 10
  /\ TimeMod \in Nat
  /\ TimeMod > MaxJitter + MaxBackoff + MaxStall

Kinds == {"pos", "alive", "status"}
Seq16 == 0 .. SeqModulus - 1
Time  == 0 .. TimeMod - 1

\* A packet that counts as a sign of life: Node_Pos_Full or Alive.
SignOfLife == {"pos", "alive"}

Frames == [kind : Kinds, seq : Seq16]

ASSUME TxSentinels ==
  /\ NoFrame \notin Seq16 \cup Frames
  /\ NoSeq \notin Seq16
  /\ Never \notin Nat

VARIABLES
  pc,           \* the step of the pass that comes next
  now,          \* the clock reading of the pass, modulo TimeMod
  pos_valid,    \* self_fields_.pos_valid
  allow_core,   \* allow_core_send_
  commit_age,   \* age of last_committed_ms_, Never while has_commit_ is false
  slots,        \* slots_: kind -> number of the frame waiting, or NoFrame
  seq,          \* seq_
  tx_age,       \* age of last_tx_ms_, or the time since boot while that is 0
  status_age,   \* age of last_status_tx_ms_, Never while that is 0
  enqueue_age,  \* age of last_status_enqueue_ms_, Never while that is 0
  bootstrap,    \* status_bootstrap_count_
  pending,      \* pending_payload_ as [kind, seq]; NoFrame while pending_ is false
  next_attempt, \* next_attempt_ms_, 0 while nothing is pending and nothing reads it
  backoff,      \* backoff_ms_
  last_sent,    \* last_sent_seq16_, NoSeq while has_last_sent_seq16_ is false
  nvs_seq,      \* key "seq16" of the flash store, NoSeq when it was never written
  crashes,      \* power failures so far
  heard,        \* history: the last number that went on the air
  torn,         \* history: the last power failure came between a send and the write
                \* of its number, and nothing was sent since
  quiet,        \* history: ticks since the last sign of life went on the air or the
                \* radio refused a packet, up to QuietBound + 1; 0 while held
  held          \* history: since then the clock wrapped past the reading a frame waited for

selfVars   == <<pos_valid, allow_core, commit_age>>
beaconVars == <<slots, seq, tx_age, status_age, enqueue_age, bootstrap>>
policyVars == <<pending, next_attempt, backoff>>
storeVars  == <<last_sent, nvs_seq, crashes>>
airVars    == <<heard, torn, quiet, held>>
txVars     == <<pc, now, selfVars, beaconVars, policyVars, storeVars, airVars>>

\* As long as the radio takes every packet, signs of life are at most this far apart: the
\* time allowed, the jitter of a status packet formed just before it is over and of the
\* sign itself, and what a slow loop adds to each of these waits.
QuietBound == MaxSilence + 2 * MaxJitter + 3 * (MaxStall - 1)

TxTypeOK ==
  /\ pc \in {"gnss", "form", "attempt", "save"}
  /\ {now, next_attempt} \subseteq Time
  /\ tx_age \in 0 .. MaxSilence
  /\ commit_age \in {Never} \cup 0 .. MaxSilence
  /\ status_age \in {Never} \cup 0 .. MinStatusInterval
  /\ enqueue_age \in {Never} \cup 0 .. StatusMax
  /\ {pos_valid, allow_core, torn, held} \subseteq BOOLEAN
  /\ slots \in [Kinds -> Seq16 \cup {NoFrame}]
  /\ seq \in Seq16
  /\ bootstrap \in 0 .. 2
  /\ pending \in Frames \cup {NoFrame}
  /\ backoff \in 0 .. MaxBackoff
  /\ {last_sent, nvs_seq, heard} \subseteq Seq16 \cup {NoSeq}
  /\ crashes \in 0 .. MaxCrashes
  /\ quiet \in 0 .. QuietBound + 1

-------------------------------------------------------------------------------
(* Timers.                                                                 *)

\* An age d ticks later.
Aged(age, d, limit) ==
  IF age = Never THEN Never ELSE IF age + d > limit THEN limit ELSE age + d

TimeForMin     == tx_age >= MinInterval
TimeForSilence == tx_age >= MaxSilence

\* At most two packets are sent right after boot, whatever their distance.
StatusThrottleOk ==
  \/ bootstrap < 2
  \/ status_age = Never
  \/ status_age >= MinStatusInterval
  \/ (enqueue_age # Never /\ enqueue_age >= StatusMax)

\* Mutant: a position is sent only after a new commit.
PosDueOnCommit == pos_valid /\ TimeForMin /\ allow_core

PosDue == pos_valid /\ ((TimeForMin /\ allow_core) \/ TimeForSilence)

AliveDue == ~pos_valid /\ TimeForSilence

\* Mutant: a status packet is formed in the same pass as a sign of life.
StatusDueAnyway == (TimeForMin \/ TimeForSilence) /\ StatusThrottleOk

StatusDue ==
  /\ ~PosDue /\ ~AliveDue
  /\ TimeForMin \/ TimeForSilence
  /\ StatusThrottleOk

\* Mutant: a status packet restarts the silence timer.
TxAgeAfterAny == IF PosDue \/ AliveDue \/ StatusDue THEN 0 ELSE tx_age

\* A formation pass restarts the silence timer when it forms a sign of life.
TxAgeAfterForming == IF PosDue \/ AliveDue THEN 0 ELSE tx_age

\* ready_to_attempt compares clock readings, not their difference.
Ready == pending # NoFrame /\ now >= next_attempt

\* Mutant: the backoff goes on doubling.
IncreasedBackoffUncapped == IF backoff = 0 THEN BaseBackoff ELSE backoff * 2

\* increase_backoff.
IncreasedBackoff ==
  IF backoff = 0 THEN BaseBackoff
  ELSE IF backoff * 2 > MaxBackoff THEN MaxBackoff ELSE backoff * 2

-------------------------------------------------------------------------------
(* The queue.                                                              *)

Successor(n) == (n + 1) % SeqModulus

\* What update_tx_queue leaves in the slots and in seq_: each frame it forms takes the
\* next number, the status frame last, and replaces the one waiting in its slot.
FormedKinds ==
  {k \in Kinds : \/ k = "pos" /\ PosDue
                 \/ k = "alive" /\ AliveDue
                 \/ k = "status" /\ StatusDue}

SeqAfterForming == (seq + Cardinality(FormedKinds)) % SeqModulus

SlotsAfterForming ==
  [k \in Kinds |->
     IF k \notin FormedKinds THEN slots[k]
     ELSE IF k = "status" THEN SeqAfterForming
     ELSE Successor(seq)]

\* The order of dequeue_tx: P0_MUST_PERIODIC before P3_THROTTLED.  The tie of the two P0
\* kinds, which the code breaks by age, cannot arise (QueueDrained).
FirstOf(kinds) ==
  IF kinds \cap SignOfLife # {} THEN kinds \cap SignOfLife ELSE kinds

-------------------------------------------------------------------------------
(* The steps of a pass.                                                    *)

TxInit ==
  /\ pc = "gnss"
  /\ now = 0
  /\ pos_valid = FALSE /\ allow_core = FALSE /\ commit_age = Never
  /\ slots = [k \in Kinds |-> NoFrame]
  /\ seq = 0
  /\ tx_age = 0 /\ status_age = Never /\ enqueue_age = Never /\ bootstrap = 0
  /\ pending = NoFrame /\ next_attempt = 0 /\ backoff = 0
  /\ last_sent = NoSeq /\ nvs_seq = NoSeq /\ crashes = 0
  /\ heard = NoSeq /\ torn = FALSE /\ quiet = 0 /\ held = FALSE

\* A GNSS snapshot with a fix: SelfUpdatePolicy::evaluate decides whether it is
\* committed.  A fix that is not committed leaves pos_valid as it was.
Fix(moved) ==
  IF \/ commit_age = Never
     \/ commit_age >= MaxSilence
     \/ (commit_age >= MinInterval /\ moved)
  THEN pos_valid' = TRUE /\ allow_core' = TRUE /\ commit_age' = 0
  ELSE UNCHANGED selfVars

\* The GNSS part of AppServices::tick: no new snapshot, one without a fix, or a fix.
Gnss ==
  /\ pc = "gnss"
  /\ pc' = "form"
  /\ \/ UNCHANGED selfVars
     \/ pos_valid' = FALSE /\ UNCHANGED <<allow_core, commit_age>>
     \/ \E moved \in BOOLEAN : Fix(moved)
  /\ UNCHANGED <<now, beaconVars, policyVars, storeVars, airVars>>

\* handle_tx up to on_payload_built.  Nothing is formed while a frame is pending;
\* otherwise the permission to send a position is used up, needed or not.
Form ==
  /\ pc = "form"
  /\ pc' = "attempt"
  /\ \/ /\ pending # NoFrame
        /\ UNCHANGED <<allow_core, beaconVars, policyVars>>
     \/ /\ pending = NoFrame
        /\ allow_core' = FALSE
        /\ seq' = SeqAfterForming
        /\ tx_age' = TxAgeAfterForming
        /\ enqueue_age' = IF StatusDue THEN 0 ELSE enqueue_age
        /\ LET waiting == {k \in Kinds : SlotsAfterForming[k] # NoFrame}
           IN  \/ waiting = {} /\ UNCHANGED <<slots, policyVars>>
               \/ \E k \in FirstOf(waiting), jitter \in 0 .. MaxJitter :
                    /\ pending' = [kind |-> k, seq |-> SlotsAfterForming[k]]
                    /\ slots' = [SlotsAfterForming EXCEPT ![k] = NoFrame]
                    /\ next_attempt' = (now + jitter) % TimeMod
                    /\ UNCHANGED backoff
        /\ UNCHANGED <<status_age, bootstrap>>
  /\ UNCHANGED <<now, pos_valid, commit_age, storeVars, airVars>>

\* on_status_sent.
StatusSent ==
  /\ status_age' = 0
  /\ bootstrap' = IF bootstrap < 2 THEN bootstrap + 1 ELSE bootstrap

\* The radio takes the packet.
SendOk ==
  /\ pc = "attempt"
  /\ Ready
  /\ pc' = "save"
  /\ pending' = NoFrame
  /\ next_attempt' = 0 /\ backoff' = 0
  /\ last_sent' = pending.seq
  /\ IF pending.kind = "status" THEN StatusSent ELSE UNCHANGED <<status_age, bootstrap>>
  /\ heard' = pending.seq
  /\ torn' = FALSE
  /\ IF pending.kind \in SignOfLife THEN quiet' = 0 /\ held' = FALSE
     ELSE UNCHANGED <<quiet, held>>
  /\ UNCHANGED <<now, selfVars, slots, seq, tx_age, enqueue_age, nvs_seq, crashes>>

\* The radio refuses it; the same bytes are tried again after the backoff.
SendFail ==
  /\ pc = "attempt"
  /\ Ready
  /\ pc' = "save"
  /\ backoff' = IncreasedBackoff
  /\ next_attempt' = (now + IncreasedBackoff) % TimeMod
  /\ quiet' = 0 /\ held' = FALSE
  /\ UNCHANGED <<now, selfVars, beaconVars, pending, storeVars, heard, torn>>

NoAttempt ==
  /\ pc = "attempt"
  /\ ~Ready
  /\ pc' = "save"
  /\ UNCHANGED <<now, selfVars, beaconVars, policyVars, storeVars, airVars>>

\* get_last_sent_seq16 has something to tell.
HasLastSent == last_sent # NoSeq

\* What save_seq16 leaves in flash.  It is called in every pass once a packet was sent.
SavedSeq == IF HasLastSent THEN last_sent ELSE nvs_seq

\* The sent number is written; d ticks later the next pass begins.
FinishPass(d) ==
  /\ pc = "save"
  /\ pc' = "gnss"
  /\ nvs_seq' = SavedSeq
  /\ now' = (now + d) % TimeMod
  /\ held' = (held \/ (pending # NoFrame /\ now < next_attempt /\ now + d >= TimeMod))
  /\ quiet' = IF held' THEN 0
              ELSE IF quiet + d > QuietBound THEN QuietBound + 1 ELSE quiet + d
  /\ tx_age' = Aged(tx_age, d, MaxSilence)
  /\ commit_age' = Aged(commit_age, d, MaxSilence)
  /\ status_age' = Aged(status_age, d, MinStatusInterval)
  /\ enqueue_age' = Aged(enqueue_age, d, StatusMax)
  /\ UNCHANGED <<pos_valid, allow_core, slots, seq, bootstrap, policyVars, last_sent,
                 crashes, heard, torn>>

\* load_seq16 finds the key.
HasStoredSeq == nvs_seq # NoSeq

\* Mutant: the stored number is not read back.
RestoredSeqZero == 0

\* The number set_initial_seq16 restores; the next packet takes its successor.
RestoredSeq == IF HasStoredSeq THEN nvs_seq ELSE 0

\* Power fails and the device boots; clock readings start from 0 again.
PowerCycle ==
  /\ crashes < MaxCrashes
  /\ crashes' = crashes + 1
  /\ pc' = "gnss"
  /\ now' = 0
  /\ pos_valid' = FALSE /\ allow_core' = FALSE /\ commit_age' = Never
  /\ slots' = [k \in Kinds |-> NoFrame]
  /\ seq' = RestoredSeq
  /\ tx_age' = 0 /\ status_age' = Never /\ enqueue_age' = Never /\ bootstrap' = 0
  /\ pending' = NoFrame /\ next_attempt' = 0 /\ backoff' = 0
  /\ last_sent' = NoSeq
  /\ torn' = (heard # nvs_seq)
  /\ quiet' = 0 /\ held' = FALSE
  /\ UNCHANGED <<nvs_seq, heard>>

Attempt == SendOk \/ SendFail \/ NoAttempt

Pass == Gnss \/ Form \/ Attempt \/ \E d \in 0 .. MaxStall : FinishPass(d)

TxNext == Pass \/ PowerCycle

\* The pass after which the clock stands at its last reading before it wraps.
LastReading == \E d \in 1 .. MaxStall : now + d = TimeMod - 1 /\ FinishPass(d)

\* The loop never stops, time goes by between its passes, the last reading of the clock is
\* not passed over in every turn of it, and the radio does not refuse every packet for ever.
TxSpec ==
  /\ TxInit
  /\ [][TxNext]_txVars
  /\ WF_txVars(Pass)
  /\ SF_txVars(\E d \in 1 .. MaxStall : FinishPass(d))
  /\ SF_txVars(LastReading)
  /\ SF_txVars(SendOk)

-------------------------------------------------------------------------------
(* Properties.                                                             *)

\* No frame ever waits behind another: each formation pass forms at most one frame
\* ("no hitchhiking", packet_context_tx_rules_v0 section 2a), and its call sends it on
\* its way, so that a status packet formed earlier never delays a sign of life in the
\* queue and no number is skipped by a replaced frame.
QueueDrained == \A k \in Kinds : slots[k] = NoFrame

\* The numbers on the air go up by one from packet to packet, through refused packets,
\* wraps and reboots; only after power failed between a send and the write of its
\* number is that one number used a second time (naviga_storage.h:107).
NumbersAdvance ==
  [][SendOk => \/ heard' = Successor(IF heard = NoSeq THEN 0 ELSE heard)
               \/ torn /\ heard' = heard]_txVars

\* Within the silence allowed a node gives a sign of life (rx_semantics_v0 section 3.3:
\* "sender will transmit at least one alive-bearing packet within the maxSilence
\* window"), give or take the delays of sending, unless the radio refuses packets or the
\* clock wraps past the reading a frame waits for, which is compared and not subtracted.
SilenceBounded == quiet <= QuietBound

\* However often the radio refuses a packet and power fails, signs of life go on.
SignsOfLifeGoOn == []<><<SendOk /\ pending.kind \in SignOfLife>>_txVars

\* The first position after boot goes out at the next opportunity "limited only by the
\* applicable rate limit (e.g. minInterval)" (field_cadence_v0 section 2.1), at least
\* while nothing else was sent.
FirstFixPublished ==
  [][(Form /\ pending = NoFrame /\ pos_valid /\ ~HasLastSent /\ TimeForMin) =>
       (pending' # NoFrame /\ pending'.kind = "pos")]_txVars

================================================================================
