----------------------------- MODULE BeaconTxProofs -----------------------------
(***************************************************************************)
(* The queue holds no frame over from one pass to the next, and the        *)
(* numbers on the air go up by one, for any intervals, jitter and backoff, *)
(* any modulus of the numbers and any number of power failures.            *)
(*                                                                         *)
(* seq_, the frame that is pending, the last number sent, the one in flash *)
(* and the one that was heard are five places for one number.  The         *)
(* invariant says how far they may be apart, with and without a power      *)
(* failure between a send and the write of its number.                     *)
(***************************************************************************)
EXTENDS BeaconTx, FiniteSetTheorems, TLAPS

\* The number of the last packet on the air, as seq_ counts it: 0 before the first.
Base == IF heard = NoSeq THEN 0 ELSE heard

NumberTypes ==
  /\ pc \in {"gnss", "form", "attempt", "save"}
  /\ seq \in Seq16
  /\ pending \in Frames \cup {NoFrame}
  /\ last_sent \in Seq16 \cup {NoSeq}
  /\ nvs_seq \in Seq16 \cup {NoSeq}
  /\ heard \in Seq16 \cup {NoSeq}

\* A frame that is pending has the number formed last.
PendingIsLast == pending # NoFrame => pending.seq = seq

\* The number formed last follows the one on the air, or is that one; after a power failure
\* before its write the number on the air is used again.
NextNumber ==
  /\ ~torn /\ pending = NoFrame => seq = Base
  /\ ~torn /\ pending # NoFrame => seq = Successor(Base)
  /\ torn /\ pending = NoFrame => heard = Successor(seq)
  /\ torn /\ pending # NoFrame => heard = seq

\* The number in flash is the one on the air or the one before it, and the former between
\* passes, unless power failed before the write.
FlashFollows ==
  /\ heard = nvs_seq \/ heard = Successor(RestoredSeq)
  /\ ~torn /\ heard # nvs_seq => pc = "save" /\ last_sent = heard
  /\ torn => last_sent = NoSeq
  /\ last_sent # NoSeq => last_sent = heard

\* The inductive invariant.
TxInv == NumberTypes /\ QueueDrained /\ PendingIsLast /\ NextNumber /\ FlashFollows

-------------------------------------------------------------------------------
(* Forming *)

\* Numbers modulo SeqModulus.
LEMMA NumbersWrap ==
  /\ 0 \in Seq16
  /\ \A n \in Seq16 : Successor(n) \in Seq16 /\ (n + 0) % SeqModulus = n
BY TxAssumption DEF Seq16, Successor

\* A pass forms one frame at most, and its number is the successor of the last.
LEMMA FormsOne ==
  ASSUME NEW k \in FormedKinds
  PROVE  /\ FormedKinds = {k}
         /\ SeqAfterForming = Successor(seq)
         /\ SlotsAfterForming[k] = Successor(seq)
<1>1. k \in Kinds
  BY DEF FormedKinds
<1>2. ASSUME NEW j \in FormedKinds PROVE j = k
  <2>1. ~(PosDue /\ AliveDue) /\ ~(StatusDue /\ (PosDue \/ AliveDue))
    BY DEF PosDue, AliveDue, StatusDue
  <2> QED
    BY <2>1 DEF FormedKinds
<1>3. FormedKinds = {k}
  BY <1>2
<1>4. Cardinality(FormedKinds) = 1
  BY <1>3, FS_Singleton
<1>5. SeqAfterForming = Successor(seq)
  BY <1>4 DEF SeqAfterForming, Successor
<1> QED
  BY <1>1, <1>3, <1>5 DEF SlotsAfterForming

\* A pass that finds the queue drained leaves it drained: it forms nothing, or makes the one
\* frame it forms pending, for no longer than the jitter.
LEMMA FormEffect ==
  ASSUME TxInv, Form, pending = NoFrame
  PROVE  \/ FormedKinds = {} /\ UNCHANGED <<seq, slots, pending, next_attempt>>
         \/ /\ seq' = Successor(seq)
            /\ slots' \in [Kinds -> {NoFrame}]
            /\ pending' \in Frames
            /\ pending'.kind \in FormedKinds
            /\ pending'.seq = seq'
            /\ \E jitter \in 0 .. MaxJitter : next_attempt' = (now + jitter) % TimeMod
<1>1. seq \in Seq16 /\ \A k \in Kinds : slots[k] = NoFrame
  BY DEF TxInv, NumberTypes, QueueDrained
<1>2. /\ seq' = SeqAfterForming
      /\ LET waiting == {k \in Kinds : SlotsAfterForming[k] # NoFrame}
         IN  \/ waiting = {} /\ UNCHANGED <<slots, pending, next_attempt>>
             \/ \E k \in FirstOf(waiting), jitter \in 0 .. MaxJitter :
                  /\ pending' = [kind |-> k, seq |-> SlotsAfterForming[k]]
                  /\ slots' = [SlotsAfterForming EXCEPT ![k] = NoFrame]
                  /\ next_attempt' = (now + jitter) % TimeMod
  BY DEF Form, policyVars
<1>3. CASE FormedKinds = {}
  <2>1. \A k \in Kinds : SlotsAfterForming[k] = NoFrame
    BY <1>1, <1>3 DEF SlotsAfterForming
  <2>2. UNCHANGED <<slots, pending, next_attempt>>
    BY <1>2, <2>1 DEF FirstOf
  <2>3. Cardinality(FormedKinds) = 0
    BY <1>3, FS_EmptySet
  <2>4. seq' = seq
    BY <1>1, <1>2, <2>3, NumbersWrap DEF SeqAfterForming
  <2> QED
    BY <1>3, <2>2, <2>4
<1>4. ASSUME NEW f \in FormedKinds
      PROVE  /\ seq' = Successor(seq) /\ slots' \in [Kinds -> {NoFrame}]
             /\ pending' \in Frames /\ pending'.seq = seq' /\ pending'.kind = f
             /\ \E jitter \in 0 .. MaxJitter : next_attempt' = (now + jitter) % TimeMod
  <2>1. /\ FormedKinds = {f} /\ f \in Kinds
        /\ SeqAfterForming = Successor(seq)
        /\ SlotsAfterForming[f] = Successor(seq)
    BY FormsOne DEF FormedKinds
  <2>2. \A k \in Kinds \ {f} : SlotsAfterForming[k] = NoFrame
    BY <1>1, <2>1 DEF SlotsAfterForming
  <2>3. Successor(seq) \in Seq16 /\ Successor(seq) # NoFrame
    BY <1>1, NumbersWrap, TxSentinels
  <2>4. {k \in Kinds : SlotsAfterForming[k] # NoFrame} = {f}
    BY <2>1, <2>2, <2>3
  <2>5. /\ pending' = [kind |-> f, seq |-> Successor(seq)]
        /\ slots' = [SlotsAfterForming EXCEPT ![f] = NoFrame]
        /\ \E jitter \in 0 .. MaxJitter : next_attempt' = (now + jitter) % TimeMod
    BY <1>2, <2>1, <2>4 DEF FirstOf
  <2>6. slots' \in [Kinds -> {NoFrame}]
    BY <2>1, <2>2, <2>5 DEF SlotsAfterForming
  <2> QED
    BY <1>2, <2>1, <2>3, <2>5, <2>6 DEF Frames
<1> QED
  BY <1>3, <1>4

-------------------------------------------------------------------------------
(* The steps *)

\* The first boot.
LEMMA InitTx == TxInit => TxInv
BY NumbersWrap DEF TxInit, TxInv, NumberTypes, QueueDrained, PendingIsLast, NextNumber, FlashFollows, Base

\* A packet that is taken by the radio is the one that follows the last on the air, or is
\* that one again.
LEMMA SendKeeps ==
  ASSUME TxInv, SendOk
  PROVE  TxInv'
<1>1. /\ pc = "attempt" /\ pc' = "save" /\ pending # NoFrame /\ pending' = NoFrame
      /\ last_sent' = pending.seq /\ heard' = pending.seq /\ torn' = FALSE
      /\ UNCHANGED <<seq, slots, nvs_seq>>
  BY DEF SendOk, Ready
<1>2. pending.seq = seq /\ seq \in Seq16 /\ seq # NoSeq
  BY <1>1, TxSentinels DEF TxInv, PendingIsLast, NumberTypes
<1>3. heard' = nvs_seq \/ heard' = Successor(RestoredSeq)
  <2>1. CASE torn
    BY <1>1, <1>2, <2>1 DEF TxInv, NextNumber, FlashFollows
  <2>2. CASE ~torn
    BY <1>1, <1>2, <2>2 DEF TxInv, NextNumber, FlashFollows, Base, RestoredSeq, HasStoredSeq
  <2> QED
    BY <2>1, <2>2
<1> QED
  BY <1>1, <1>2, <1>3 DEF TxInv, NumberTypes, QueueDrained, PendingIsLast, NextNumber, FlashFollows, Base,
                          RestoredSeq, HasStoredSeq

\* A boot goes on from the number in flash, which is the one on the air or the one before it.
LEMMA PowerKeeps ==
  ASSUME TxInv, PowerCycle
  PROVE  TxInv'
<1>1. /\ pc' = "gnss" /\ slots' = [k \in Kinds |-> NoFrame] /\ seq' = RestoredSeq
      /\ pending' = NoFrame /\ last_sent' = NoSeq /\ UNCHANGED <<nvs_seq, heard>>
  BY DEF PowerCycle
<1>2. torn' <=> heard # nvs_seq
  BY Zenon DEF PowerCycle
<1>3. RestoredSeq \in Seq16
  BY NumbersWrap DEF RestoredSeq, HasStoredSeq, TxInv, NumberTypes
<1>4. NumberTypes' /\ QueueDrained' /\ PendingIsLast'
  BY <1>1, <1>3 DEF TxInv, NumberTypes, QueueDrained, PendingIsLast
<1>5. NextNumber'
  BY <1>1, <1>2 DEF TxInv, NextNumber, FlashFollows, Base, RestoredSeq, HasStoredSeq
<1>6. FlashFollows'
  BY <1>1, <1>2 DEF TxInv, FlashFollows, RestoredSeq, HasStoredSeq
<1> QED
  BY <1>4, <1>5, <1>6 DEF TxInv

\* Every step keeps the invariant.
LEMMA TxStep == TxInv /\ [TxNext]_txVars => TxInv'
<1> SUFFICES ASSUME TxInv, [TxNext]_txVars PROVE TxInv'
  OBVIOUS
<1>1. ASSUME UNCHANGED <<seq, slots, pending, last_sent, nvs_seq, heard, torn>>,
             pc' \in {"gnss", "form", "attempt", "save"},
             pc' = pc \/ pc # "save"
      PROVE  TxInv'
  BY <1>1 DEF TxInv, NumberTypes, QueueDrained, PendingIsLast, NextNumber, FlashFollows, Base, RestoredSeq, HasStoredSeq
<1>2. CASE Gnss
  BY <1>1, <1>2 DEF Gnss, beaconVars, policyVars, storeVars, airVars
<1>3. CASE Form
  <2>1. UNCHANGED <<last_sent, nvs_seq, heard, torn>> /\ pc = "form" /\ pc' = "attempt"
    BY <1>3 DEF Form, storeVars, airVars
  <2>2. CASE UNCHANGED <<seq, slots, pending>>
    BY <1>1, <2>1, <2>2
  <2>3. CASE /\ pending = NoFrame /\ seq' = Successor(seq) /\ slots' \in [Kinds -> {NoFrame}]
             /\ pending' \in Frames /\ pending'.seq = seq'
    <3>1. pending' # NoFrame /\ seq' \in Seq16
      BY <2>3, TxSentinels, NumbersWrap DEF TxInv, NumberTypes
    <3>2. NumberTypes' /\ PendingIsLast'
      BY <2>1, <2>3, <3>1 DEF TxInv, NumberTypes, PendingIsLast
    <3>3. NextNumber'
      BY <2>1, <2>3, <3>1 DEF TxInv, NextNumber, Base
    <3>4. FlashFollows'
      BY <2>1 DEF TxInv, FlashFollows, RestoredSeq, HasStoredSeq
    <3> QED
      BY <2>3, <3>2, <3>3, <3>4 DEF TxInv, QueueDrained
  <2>4. pending # NoFrame => UNCHANGED <<seq, slots, pending>>
    BY <1>3 DEF Form, beaconVars, policyVars
  <2> QED
    BY <1>3, <2>2, <2>3, <2>4, FormEffect
<1>4. CASE SendOk
  BY <1>4, SendKeeps
<1>5. CASE SendFail
  BY <1>1, <1>5 DEF SendFail, beaconVars, storeVars
<1>6. CASE NoAttempt
  BY <1>1, <1>6 DEF NoAttempt, beaconVars, policyVars, storeVars, airVars
<1>7. ASSUME NEW d \in 0 .. MaxStall, FinishPass(d) PROVE TxInv'
  <2>1. /\ pc' = "gnss" /\ UNCHANGED <<slots, seq, pending, last_sent, heard, torn>>
        /\ nvs_seq' = IF last_sent = NoSeq THEN nvs_seq ELSE last_sent
    BY <1>7 DEF FinishPass, SavedSeq, HasLastSent, policyVars
  <2>2. NumberTypes' /\ QueueDrained' /\ PendingIsLast' /\ NextNumber'
    BY <2>1 DEF TxInv, NumberTypes, QueueDrained, PendingIsLast, NextNumber, Base
  <2>3. FlashFollows'
    <3>1. CASE last_sent = NoSeq
      <4>1. nvs_seq' = nvs_seq
        BY <2>1, <3>1
      <4>2. ~torn => heard = nvs_seq
        BY <3>1, NumbersWrap, TxSentinels DEF TxInv, FlashFollows, NumberTypes, RestoredSeq, HasStoredSeq
      <4> QED
        BY <2>1, <3>1, <4>1, <4>2 DEF TxInv, FlashFollows, RestoredSeq, HasStoredSeq
    <3>2. CASE last_sent # NoSeq
      BY <2>1, <3>2 DEF TxInv, FlashFollows
    <3> QED
      BY <3>1, <3>2
  <2> QED
    BY <2>2, <2>3 DEF TxInv
<1>8. CASE PowerCycle
  BY <1>8, PowerKeeps
<1>9. CASE UNCHANGED txVars
  BY <1>1, <1>9 DEF TxInv, NumberTypes, txVars, beaconVars, policyVars, storeVars, airVars
<1> QED
  BY <1>2, <1>3, <1>4, <1>5, <1>6, <1>7, <1>8, <1>9 DEF TxNext, Pass, Attempt

\* The five places of the number stay together as the invariant says.
THEOREM TxInvariant == TxSpec => []TxInv
BY InitTx, TxStep, PTL DEF TxSpec

\* No frame ever waits behind another, whatever becomes due together.
THEOREM NothingWaits == TxSpec => []QueueDrained
<1>1. TxInv => QueueDrained
  BY DEF TxInv
<1> QED
  BY TxInvariant, <1>1, PTL

\* The numbers on the air go up by one; after power failed between a send and the write of
\* its number, and only then, that number is used a second time.
THEOREM NumbersGoUp == TxSpec => NumbersAdvance
<1> DEFINE Advance == SendOk => \/ heard' = Successor(IF heard = NoSeq THEN 0 ELSE heard)
                                \/ torn /\ heard' = heard
<1>1. TxInv /\ [TxNext]_txVars => [Advance]_txVars
  <2> SUFFICES ASSUME TxInv, SendOk PROVE Advance
    OBVIOUS
  <2>1. heard' = seq /\ pending # NoFrame
    BY DEF SendOk, Ready, TxInv, PendingIsLast
  <2> QED
    BY <2>1 DEF TxInv, NextNumber, Base
<1> QED
  BY TxInvariant, <1>1, PTL DEF TxSpec, NumbersAdvance

-------------------------------------------------------------------------------
(* Types *)

\* What the type invariant says of the clock and of what is counted by it.
TimersTyped ==
  /\ now \in Time /\ next_attempt \in Time
  /\ tx_age \in 0 .. MaxSilence
  /\ commit_age \in {Never} \cup 0 .. MaxSilence
  /\ status_age \in {Never} \cup 0 .. MinStatusInterval
  /\ enqueue_age \in {Never} \cup 0 .. StatusMax
  /\ backoff \in 0 .. MaxBackoff
  /\ quiet \in 0 .. QuietBound + 1
  /\ crashes \in 0 .. MaxCrashes

\* The rest of it.
OthersTyped ==
  /\ pos_valid \in BOOLEAN /\ allow_core \in BOOLEAN /\ torn \in BOOLEAN /\ held \in BOOLEAN
  /\ slots \in [Kinds -> Seq16 \cup {NoFrame}]
  /\ bootstrap \in 0 .. 2

\* The parts together are the type invariant.
LEMMA TypesInParts == TxTypeOK <=> TimersTyped /\ OthersTyped /\ NumberTypes
BY DEF TxTypeOK, TimersTyped, OthersTyped, NumberTypes

\* Sums of readings are readings, and ages stop at their limit.
LEMMA Timers ==
  /\ 0 \in Time
  /\ \A t \in Time, d \in Nat : (t + d) % TimeMod \in Time
  /\ \A limit \in Nat, d \in Nat : \A age \in {Never} \cup 0 .. limit :
       Aged(age, d, limit) \in {Never} \cup 0 .. limit
  /\ \A limit \in Nat, d \in Nat : \A age \in 0 .. limit :
       Aged(age, d, limit) = IF age + d > limit THEN limit ELSE age + d
BY TxAssumption, TxSentinels DEF Time, Aged

\* A backoff is at least a tick and never more than the longest one.
LEMMA BackoffBounded ==
  ASSUME backoff \in 0 .. MaxBackoff
  PROVE  IncreasedBackoff \in 1 .. MaxBackoff
BY TxAssumption DEF IncreasedBackoff

\* The silence there may be is a number.
LEMMA BoundIsNat == QuietBound \in Nat
BY TxAssumption DEF QuietBound

\* The first boot.
LEMMA InitTypes == TxInit => TxTypeOK
<1> SUFFICES ASSUME TxInit PROVE TimersTyped /\ OthersTyped /\ NumberTypes
  BY TypesInParts
<1>1. TimersTyped
  BY TxAssumption, Timers, BoundIsNat DEF TxInit, TimersTyped
<1>2. NumberTypes
  BY InitTx DEF TxInv
<1>3. slots \in [Kinds -> Seq16 \cup {NoFrame}] /\ bootstrap \in 0 .. 2
  BY DEF TxInit
<1>4. pos_valid = FALSE /\ allow_core = FALSE /\ torn = FALSE /\ held = FALSE
  BY DEF TxInit
<1> QED
  BY <1>1, <1>2, <1>3, <1>4 DEF OthersTyped

\* Forming keeps the types.
LEMMA FormTypes ==
  ASSUME TxTypeOK, TxInv, Form
  PROVE  TimersTyped' /\ OthersTyped'
<1>1. TimersTyped /\ OthersTyped
  BY TypesInParts
<1>2. CASE pending # NoFrame
  <2>1. UNCHANGED <<now, next_attempt, tx_age, commit_age, status_age, enqueue_age, backoff, quiet,
                    crashes, pos_valid, allow_core, torn, held, slots, bootstrap>>
    BY <1>2 DEF Form, beaconVars, policyVars, storeVars, airVars
  <2> QED
    BY <1>1, <2>1 DEF TimersTyped, OthersTyped
<1>3. CASE pending = NoFrame
  <2>1. /\ UNCHANGED <<now, commit_age, status_age, backoff, quiet, crashes, bootstrap>>
        /\ UNCHANGED <<pos_valid, torn, held>> /\ allow_core' = FALSE
        /\ tx_age' = TxAgeAfterForming
        /\ enqueue_age' = IF StatusDue THEN 0 ELSE enqueue_age
    BY <1>3 DEF Form, policyVars, storeVars, airVars
  <2>2. next_attempt' \in Time /\ slots' \in [Kinds -> Seq16 \cup {NoFrame}]
    <3>1. CASE UNCHANGED <<slots, next_attempt>>
      BY <1>1, <3>1 DEF TimersTyped, OthersTyped
    <3>2. ASSUME slots' \in [Kinds -> {NoFrame}],
                 NEW jitter \in 0 .. MaxJitter, next_attempt' = (now + jitter) % TimeMod
          PROVE  next_attempt' \in Time /\ slots' \in [Kinds -> Seq16 \cup {NoFrame}]
      BY <1>1, <3>2, Timers, TxAssumption DEF TimersTyped
    <3> QED
      BY <1>3, <3>1, <3>2, FormEffect
  <2>3. TimersTyped'
    BY <1>1, <2>1, <2>2, TxAssumption DEF TimersTyped, TxAgeAfterForming
  <2>4. OthersTyped'
    BY <1>1, <2>1, <2>2 DEF OthersTyped
  <2> QED
    BY <2>3, <2>4
<1> QED
  BY <1>2, <1>3

\* So does the end of a pass.
LEMMA FinishTypes ==
  ASSUME TxTypeOK, NEW d \in 0 .. MaxStall, FinishPass(d)
  PROVE  TimersTyped' /\ OthersTyped'
<1>1. TimersTyped /\ OthersTyped /\ d \in Nat
  BY TypesInParts, TxAssumption
<1>2. /\ now' = (now + d) % TimeMod
      /\ quiet' = IF held' THEN 0
                  ELSE IF quiet + d > QuietBound THEN QuietBound + 1 ELSE quiet + d
      /\ tx_age' = Aged(tx_age, d, MaxSilence)
      /\ commit_age' = Aged(commit_age, d, MaxSilence)
      /\ status_age' = Aged(status_age, d, MinStatusInterval)
      /\ enqueue_age' = Aged(enqueue_age, d, StatusMax)
      /\ UNCHANGED <<next_attempt, backoff, crashes>>
  BY DEF FinishPass, policyVars
<1>3. now' \in Time /\ next_attempt' \in Time
  BY <1>1, <1>2, Timers DEF TimersTyped
<1>4. tx_age' \in 0 .. MaxSilence
  BY <1>1, <1>2, TxSentinels, TxAssumption DEF TimersTyped, Aged
<1>5. /\ commit_age' \in {Never} \cup 0 .. MaxSilence
      /\ status_age' \in {Never} \cup 0 .. MinStatusInterval
      /\ enqueue_age' \in {Never} \cup 0 .. StatusMax
  BY <1>1, <1>2, Timers, TxAssumption DEF TimersTyped
<1>6. quiet' \in 0 .. QuietBound + 1
  BY <1>1, <1>2, BoundIsNat DEF TimersTyped
<1>7. TimersTyped'
  BY <1>1, <1>2, <1>3, <1>4, <1>5, <1>6 DEF TimersTyped
<1>8. /\ UNCHANGED <<slots, bootstrap>> /\ UNCHANGED <<pos_valid, allow_core, torn>>
      /\ held' \in BOOLEAN
  BY DEF FinishPass
<1>9. OthersTyped'
  BY <1>1, <1>8 DEF OthersTyped
<1> QED
  BY <1>7, <1>9

\* Every step keeps the types.
LEMMA TypesKept == TxTypeOK /\ TxInv /\ TxInv' /\ [TxNext]_txVars => TxTypeOK'
<1> SUFFICES ASSUME TxTypeOK, TxInv, TxInv', [TxNext]_txVars PROVE TimersTyped' /\ OthersTyped'
  BY DEF TxInv, TxTypeOK, TimersTyped, OthersTyped, NumberTypes
<1>1. TimersTyped /\ OthersTyped /\ NumberTypes
  BY TypesInParts
<1>2. ASSUME UNCHANGED <<now, next_attempt, tx_age, status_age, enqueue_age, backoff, quiet, crashes>>,
             UNCHANGED <<torn, held, slots, bootstrap>>,
             commit_age' \in {commit_age, 0},
             pos_valid' \in BOOLEAN, allow_core' \in BOOLEAN
      PROVE  TimersTyped' /\ OthersTyped'
  BY <1>1, <1>2, TxAssumption DEF TimersTyped, OthersTyped
<1>3. CASE Gnss
  BY <1>1, <1>2, <1>3 DEF Gnss, Fix, selfVars, beaconVars, policyVars, storeVars, airVars, OthersTyped
<1>4. CASE Form
  BY <1>4, FormTypes
<1>5. CASE SendOk
  <2>1. /\ UNCHANGED <<now, tx_age, enqueue_age, commit_age, crashes>>
        /\ next_attempt' = 0 /\ backoff' = 0
        /\ status_age' \in {status_age, 0} /\ quiet' \in {quiet, 0}
    BY <1>5 DEF SendOk, StatusSent, selfVars
  <2>2. TimersTyped'
    <3>1. status_age' \in {Never} \cup 0 .. MinStatusInterval /\ quiet' \in 0 .. QuietBound + 1
      BY <1>1, <2>1, BoundIsNat, TxAssumption DEF TimersTyped
    <3>2. next_attempt' \in Time /\ backoff' \in 0 .. MaxBackoff
      BY <2>1, Timers, TxAssumption
    <3> QED
      BY <1>1, <2>1, <3>1, <3>2 DEF TimersTyped
  <2>3. UNCHANGED <<slots, pos_valid, allow_core>> /\ torn' \in BOOLEAN /\ held' \in BOOLEAN
    BY <1>1, <1>5 DEF SendOk, selfVars, OthersTyped
  <2>4. bootstrap' \in 0 .. 2
    BY <1>1, <1>5 DEF SendOk, StatusSent, OthersTyped
  <2>5. OthersTyped'
    BY <1>1, <2>3, <2>4 DEF OthersTyped
  <2> QED
    BY <2>2, <2>5
<1>6. CASE SendFail
  <2>1. TimersTyped'
    <3>1. /\ backoff' = IncreasedBackoff /\ quiet' = 0
          /\ next_attempt' = (now + IncreasedBackoff) % TimeMod
          /\ UNCHANGED <<now, tx_age, commit_age, status_age, enqueue_age, crashes>>
      BY <1>6 DEF SendFail, selfVars, beaconVars, storeVars
    <3>2. IncreasedBackoff \in Nat /\ IncreasedBackoff <= MaxBackoff
      BY <1>1, BackoffBounded, TxAssumption DEF TimersTyped
    <3> QED
      BY <1>1, <3>1, <3>2, Timers, BoundIsNat DEF TimersTyped
  <2>2. OthersTyped'
    BY <1>1, <1>6 DEF SendFail, selfVars, beaconVars, storeVars, OthersTyped
  <2> QED
    BY <2>1, <2>2
<1>7. CASE NoAttempt
  BY <1>1, <1>2, <1>7 DEF NoAttempt, selfVars, beaconVars, policyVars, storeVars, airVars, OthersTyped
<1>8. ASSUME NEW d \in 0 .. MaxStall, FinishPass(d) PROVE TimersTyped' /\ OthersTyped'
  BY <1>8, FinishTypes
<1>9. CASE PowerCycle
  <2>1. TimersTyped'
    BY <1>1, <1>9, Timers, BoundIsNat, TxAssumption DEF PowerCycle, TimersTyped
  <2>2. /\ slots' \in [Kinds -> Seq16 \cup {NoFrame}] /\ bootstrap' = 0
        /\ pos_valid' \in BOOLEAN /\ allow_core' \in BOOLEAN /\ held' \in BOOLEAN
    BY <1>9 DEF PowerCycle
  <2>3. torn' \in BOOLEAN
    BY <1>9, Zenon DEF PowerCycle
  <2>4. OthersTyped'
    BY <2>2, <2>3 DEF OthersTyped
  <2> QED
    BY <2>1, <2>4
<1>10. CASE UNCHANGED txVars
  BY <1>1, <1>2, <1>10
     DEF txVars, selfVars, beaconVars, policyVars, storeVars, airVars, OthersTyped
<1> QED
  BY <1>3, <1>4, <1>5, <1>6, <1>7, <1>8, <1>9, <1>10 DEF TxNext, Pass, Attempt

\* Every value stays in its range, for all intervals and bounds.
THEOREM TxTypeCorrect == TxSpec => []TxTypeOK
<1>1. TxInit => TxTypeOK
  BY InitTypes
<1>2. TxTypeOK /\ TxInv /\ TxInv' /\ [TxNext]_txVars => TxTypeOK'
  BY TypesKept
<1> QED
  BY <1>1, <1>2, TxInvariant, PTL DEF TxSpec

-------------------------------------------------------------------------------
(* Silence.                                                                *)
(*                                                                         *)
(* The next sign of life is counted down in stages.  While nothing is      *)
(* pending and the silence allowed is not over, quiet runs with the        *)
(* silence timer.  A status packet is formed before it is over and waits   *)
(* for its jitter; the pass after it forms the sign of life, which waits   *)
(* for its own; and each wait ends up to MaxStall - 1 ticks late.          *)

\* How quiet it may be when the frame that is pending becomes due.
StatusDueBy == MaxSilence - 1 + MaxJitter
SignDueBy   == StatusDueBy + 2 * MaxStall - 1 + MaxJitter
DueBy == IF pending.kind = "status" THEN StatusDueBy ELSE SignDueBy

\* A pending frame is due in time, also if the time of its next attempt has wrapped, and is
\* tried by the first pass from then on.
FrameInTime ==
  pending # NoFrame =>
    /\ quiet <= DueBy + MaxStall - 1
    /\ ~held /\ now < next_attempt => quiet + (next_attempt - now) <= DueBy
    /\ pc = "save" /\ now >= next_attempt =>
         quiet = 0 /\ next_attempt + TimeMod - now <= MaxBackoff

\* Otherwise a sign of life becomes due in time.
SignInTime ==
  /\ pending = NoFrame =>
       quiet <= StatusDueBy + MaxStall - 1 + (IF pc \in {"gnss", "form"} THEN MaxStall ELSE 0)
  /\ pending = NoFrame \/ pending.kind = "status" =>
       (tx_age < MaxSilence => quiet <= tx_age)

\* What is not counted while the clock has it held back.
HeldUncounted == held => quiet = 0

\* The inductive invariant.
SilenceInv == TxTypeOK /\ FrameInTime /\ SignInTime /\ HeldUncounted

\* What the proof uses of the constants.
LEMMA Bounds ==
  /\ MaxStall \in Nat \ {0} /\ MaxSilence \in Nat /\ MaxJitter \in Nat /\ MaxBackoff \in Nat
  /\ MaxBackoff < MaxSilence /\ MaxSilence >= 3
  /\ StatusDueBy \in Nat /\ SignDueBy \in Nat /\ DueBy \in {StatusDueBy, SignDueBy}
  /\ StatusDueBy >= MaxBackoff /\ SignDueBy >= MaxBackoff
  /\ MaxJitter < TimeMod /\ MaxBackoff < TimeMod /\ MaxStall < TimeMod /\ TimeMod \in Nat
BY TxAssumption DEF StatusDueBy, SignDueBy, DueBy

\* The clock turns over once at most in a step.
LEMMA ClockSum ==
  ASSUME NEW t \in Time, NEW d \in Nat, d < TimeMod
  PROVE  (t + d) % TimeMod = IF t + d < TimeMod THEN t + d ELSE t + d - TimeMod
BY TxAssumption DEF Time

\* A wait of at most w adds at most w.
LEMMA WaitAdds ==
  \A q, n, t, w, b \in Int : n - t <= w /\ q + w <= b => q + (n - t) <= b
OBVIOUS

\* While the clock runs towards a reading, what was waited and what is left add up.
LEMMA WaitGoesOn ==
  \A q, r, d, n, t, b \in Int : q + (n - t) <= b /\ r <= q + d => r + (n - (t + d)) <= b
OBVIOUS

\* Otherwise it has turned over.
LEMMA TurnedOver ==
  \A r, d, n, t, m, w, b \in Int :
     n + m - t <= w /\ r <= d /\ w <= b => r + (n - (t + d - m)) <= b
OBVIOUS

\* A formation pass forms a sign of life as soon as the silence allowed is over, and a status
\* packet only before.
LEMMA FormedInTime ==
  /\ FormedKinds = {} => ~TimeForSilence /\ ~PosDue /\ ~AliveDue
  /\ "status" \in FormedKinds => ~TimeForSilence /\ ~PosDue /\ ~AliveDue
<1>1. TimeForSilence => PosDue \/ AliveDue
  BY DEF PosDue, AliveDue
<1>2. FormedKinds = {} => ~PosDue /\ ~AliveDue
  <2>1. (PosDue => "pos" \in FormedKinds) /\ (AliveDue => "alive" \in FormedKinds)
    BY DEF FormedKinds, Kinds
  <2> QED
    BY <2>1
<1>3. "status" \in FormedKinds => ~PosDue /\ ~AliveDue
  BY DEF FormedKinds, StatusDue
<1> QED
  BY <1>1, <1>2, <1>3

\* A frame that is formed is due in time.
LEMMA FormInTime ==
  ASSUME SilenceInv, TxInv, Form, pending = NoFrame
  PROVE  FrameInTime' /\ SignInTime'
<1>1. /\ now \in Time /\ quiet \in Nat /\ tx_age \in 0 .. MaxSilence
      /\ quiet <= StatusDueBy + MaxStall - 1 + MaxStall
      /\ tx_age < MaxSilence => quiet <= tx_age
  BY BoundIsNat DEF SilenceInv, TxTypeOK, SignInTime, Form
<1>2. UNCHANGED <<now, quiet, held>> /\ pc' = "attempt" /\ tx_age' = TxAgeAfterForming
  BY DEF Form, airVars
<1>3. CASE FormedKinds = {} /\ pending' = NoFrame
  <2>1. tx_age < MaxSilence /\ tx_age' = tx_age
    BY <1>1, <1>2, <1>3, FormedInTime, Bounds DEF TimeForSilence, TxAgeAfterForming
  <2> QED
    BY <1>1, <1>2, <1>3, <2>1, Bounds DEF FrameInTime, SignInTime, StatusDueBy
<1>4. ASSUME pending' \in Frames, pending'.kind \in FormedKinds, NEW jitter \in 0 .. MaxJitter,
             next_attempt' = (now + jitter) % TimeMod
      PROVE  FrameInTime' /\ SignInTime'
  <2>1. pending' # NoFrame /\ jitter \in Nat /\ jitter <= MaxJitter
    BY <1>4, TxSentinels, Bounds
  <2>2. next_attempt' = IF now + jitter < TimeMod THEN now + jitter ELSE now + jitter - TimeMod
    BY <1>1, <1>4, <2>1, ClockSum, Bounds
  <2>5. now < next_attempt' => next_attempt' - now <= MaxJitter
    BY <1>1, <2>1, <2>2, Bounds DEF Time
  <2>3. CASE pending'.kind = "status"
    <3>1. tx_age < MaxSilence /\ tx_age' = tx_age
      BY <1>1, <1>2, <1>4, <2>3, FormedInTime, Bounds DEF TimeForSilence, TxAgeAfterForming
    <3>2. DueBy' = StatusDueBy
      BY <2>3 DEF DueBy, StatusDueBy
    <3>3. FrameInTime'
      <4>1. next_attempt' \in Int /\ now \in Int /\ quiet <= MaxSilence - 1
        BY <1>1, <2>1, <2>2, <3>1, Bounds DEF Time
      <4>2. quiet + MaxJitter <= StatusDueBy
        BY <1>1, <4>1, Bounds DEF StatusDueBy
      <4>3. quiet <= StatusDueBy + MaxStall - 1
        BY <1>1, <4>2, Bounds
      <4>4. now < next_attempt' => quiet + (next_attempt' - now) <= StatusDueBy
        <5>1. quiet \in Int /\ MaxJitter \in Int /\ StatusDueBy \in Int
          BY <1>1, Bounds
        <5> QED
          BY <2>5, <4>1, <4>2, <5>1, WaitAdds
      <4> QED
        BY <1>2, <3>2, <4>3, <4>4 DEF FrameInTime
    <3> QED
      BY <1>1, <1>2, <2>1, <3>1, <3>3 DEF SignInTime
  <2>4. CASE pending'.kind # "status"
    <3>1. DueBy' = SignDueBy
      BY <2>4 DEF DueBy, SignDueBy, StatusDueBy
    <3>2. FrameInTime'
      <4>1. next_attempt' \in Int /\ now \in Int
        BY <1>1, <2>1, <2>2, Bounds DEF Time
      <4>2. quiet + MaxJitter <= SignDueBy
        BY <1>1, Bounds DEF SignDueBy
      <4>3. quiet <= SignDueBy + MaxStall - 1
        BY <1>1, <4>2, Bounds
      <4>4. now < next_attempt' => quiet + (next_attempt' - now) <= SignDueBy
        <5>1. quiet \in Int /\ MaxJitter \in Int /\ SignDueBy \in Int
          BY <1>1, Bounds
        <5> QED
          BY <2>5, <4>1, <4>2, <5>1, WaitAdds
      <4> QED
        BY <1>2, <3>1, <4>3, <4>4 DEF FrameInTime
    <3> QED
      BY <2>1, <2>4, <3>2 DEF SignInTime
  <2> QED
    BY <2>3, <2>4
<1> QED
  BY <1>3, <1>4, FormEffect

\* When the next pass begins, what is due is still due in time.
LEMMA FinishInTime ==
  ASSUME SilenceInv, NEW d \in 0 .. MaxStall, FinishPass(d)
  PROVE  FrameInTime' /\ SignInTime' /\ HeldUncounted'
<1>1. /\ now \in Time /\ next_attempt \in Time /\ quiet \in Nat /\ tx_age \in 0 .. MaxSilence
      /\ d \in Nat /\ d <= MaxStall /\ d < TimeMod
  BY BoundIsNat, Bounds DEF SilenceInv, TxTypeOK
<1>2. /\ pc = "save" /\ pc' = "gnss" /\ UNCHANGED <<pending, next_attempt>>
      /\ now' = (now + d) % TimeMod
      /\ quiet' = IF held' THEN 0
                  ELSE IF quiet + d > QuietBound THEN QuietBound + 1 ELSE quiet + d
      /\ tx_age' = Aged(tx_age, d, MaxSilence)
      /\ held' = (held \/ (pending # NoFrame /\ now < next_attempt /\ now + d >= TimeMod))
  BY DEF FinishPass, policyVars
<1>3. quiet' <= quiet + d /\ quiet' \in Nat /\ HeldUncounted'
  BY <1>1, <1>2, BoundIsNat DEF HeldUncounted
<1>4. DueBy' = DueBy
  BY <1>2 DEF DueBy, StatusDueBy, SignDueBy
<1>5. SignInTime'
  <2>1. tx_age' < MaxSilence => tx_age < MaxSilence /\ tx_age' = tx_age + d
    BY <1>1, <1>2, TxSentinels, Bounds DEF Aged
  <2>2. (pending = NoFrame \/ pending.kind = "status") => (tx_age' < MaxSilence => quiet' <= tx_age')
    BY <1>1, <1>3, <2>1 DEF SilenceInv, SignInTime
  <2>3. pending = NoFrame => quiet' <= StatusDueBy + MaxStall - 1 + MaxStall
    BY <1>1, <1>2, <1>3, Bounds DEF SilenceInv, SignInTime
  <2> QED
    BY <1>2, <2>2, <2>3 DEF SignInTime, StatusDueBy
<1>6. ASSUME pending # NoFrame
      PROVE  /\ quiet' <= DueBy + MaxStall - 1
             /\ ~held' /\ now' < next_attempt => quiet' + (next_attempt - now') <= DueBy
  <2>1. CASE held'
    BY <1>2, <2>1, Bounds
  <2>2. CASE ~held' /\ now < next_attempt
    <3>1. ~held /\ now + d < TimeMod
      <4>1. ~held /\ ~(now + d >= TimeMod)
        BY <1>2, <1>6, <2>2, Zenon
      <4> QED
        BY <1>1, <4>1, Bounds DEF Time
    <3>2. now' = now + d
      BY <1>1, <1>2, <3>1, ClockSum
    <3>3. quiet + (next_attempt - now) <= DueBy
      BY <1>6, <2>2, <3>1 DEF SilenceInv, FrameInTime
    <3>4. quiet' \in Int /\ DueBy \in Int /\ next_attempt \in Int /\ now \in Int /\ now < next_attempt
      BY <1>1, <1>3, <2>2, Bounds DEF Time
    <3>5. quiet' + (next_attempt - now') <= DueBy
      <4>1. quiet \in Int /\ d \in Int /\ quiet' <= quiet + d
        BY <1>1, <1>3
      <4> QED
        BY <3>2, <3>3, <3>4, <4>1, WaitGoesOn
    <3>6. quiet' <= DueBy + MaxStall - 1
      BY <1>1, <1>3, <3>3, <3>4, Bounds
    <3> QED
      BY <3>5, <3>6
  <2>3. CASE ~held' /\ now >= next_attempt
    <3>1. quiet = 0 /\ next_attempt + TimeMod - now <= MaxBackoff
      BY <1>2, <1>6, <2>3 DEF SilenceInv, FrameInTime
    <3>2. now' = IF now + d < TimeMod THEN now + d ELSE now + d - TimeMod
      BY <1>1, <1>2, ClockSum
    <3>3. quiet' \in Int /\ DueBy \in Int /\ next_attempt \in Int /\ now \in Int
          /\ now >= next_attempt /\ DueBy >= MaxBackoff /\ DueBy >= 1
      <4>1. StatusDueBy >= 1 /\ SignDueBy >= 1
        BY Bounds DEF StatusDueBy, SignDueBy
      <4>2. now \in Int /\ next_attempt \in Int
        BY <1>1, Bounds DEF Time
      <4> QED
        BY <1>3, <2>3, <4>1, <4>2, Bounds
    <3>4. now' < next_attempt => quiet' + (next_attempt - now') <= DueBy
      <4>1. d \in Int /\ quiet' <= d
        BY <1>1, <1>3, <3>1, <3>3
      <4>2. TimeMod \in Int /\ MaxBackoff \in Int
        BY Bounds
      <4>3. now + d < TimeMod => now' >= next_attempt
        BY <1>1, <3>2, <3>3
      <4>4. ~(now + d < TimeMod) => quiet' + (next_attempt - now') <= DueBy
        <5>1. quiet' + (next_attempt - (now + d - TimeMod)) <= DueBy
          BY <3>1, <3>3, <4>1, <4>2, TurnedOver
        <5> QED
          BY <3>2, <5>1
      <4>5. now' \in Int
        BY <3>2, <3>3, <4>1, <4>2
      <4>6. now + d < TimeMod => ~(now' < next_attempt)
        BY <3>3, <4>3, <4>5
      <4> QED
        BY <4>4, <4>6
    <3>5. quiet' <= DueBy + MaxStall - 1
      BY <1>1, <1>3, <3>1, <3>3, Bounds
    <3> QED
      BY <3>4, <3>5
  <2> QED
    BY <1>1, <2>1, <2>2, <2>3 DEF Time
<1>7. FrameInTime'
  BY <1>2, <1>4, <1>6 DEF FrameInTime
<1> QED
  BY <1>3, <1>5, <1>7

\* Every step keeps the invariant.
LEMMA SilenceStep == SilenceInv /\ TxInv /\ TxTypeOK' /\ [TxNext]_txVars => SilenceInv'
<1> SUFFICES ASSUME SilenceInv, TxInv, TxTypeOK', [TxNext]_txVars
             PROVE  FrameInTime' /\ SignInTime' /\ HeldUncounted'
  BY DEF SilenceInv
<1>1. /\ now \in Time /\ next_attempt \in Time /\ quiet \in Nat /\ tx_age \in 0 .. MaxSilence
      /\ backoff \in 0 .. MaxBackoff
  BY BoundIsNat DEF SilenceInv, TxTypeOK
<1>2. ASSUME UNCHANGED <<pending, now, next_attempt, quiet, held, tx_age>>,
             pc' = pc \/ (pc = "gnss" /\ pc' = "form")
                \/ (pc = "form" /\ pc' = "attempt" /\ pending # NoFrame)
                \/ (pc = "attempt" /\ pc' = "save" /\ ~Ready)
      PROVE  FrameInTime' /\ SignInTime' /\ HeldUncounted'
  <2>1. DueBy' = DueBy /\ StatusDueBy' = StatusDueBy
    BY <1>2 DEF DueBy, StatusDueBy, SignDueBy
  <2> QED
    BY <1>1, <1>2, <2>1, Bounds
       DEF SilenceInv, FrameInTime, SignInTime, HeldUncounted, Ready, Time
<1>3. CASE Gnss
  BY <1>2, <1>3 DEF Gnss, beaconVars, policyVars, storeVars, airVars
<1>4. CASE Form
  <2>1. CASE pending # NoFrame
    BY <1>2, <1>4, <2>1 DEF Form, beaconVars, policyVars, storeVars, airVars
  <2>2. CASE pending = NoFrame
    BY <1>4, <2>2, FormInTime DEF Form, airVars, SilenceInv, HeldUncounted
  <2> QED
    BY <2>1, <2>2
<1>5. CASE SendOk
  <2>1. /\ pending # NoFrame /\ pending' = NoFrame /\ pc' = "save" /\ UNCHANGED tx_age
        /\ IF pending.kind \in SignOfLife THEN quiet' = 0 /\ held' = FALSE
           ELSE UNCHANGED <<quiet, held>>
    BY <1>5 DEF SendOk, Ready
  <2>2. CASE pending.kind \in SignOfLife
    BY <1>1, <2>1, <2>2, Bounds DEF FrameInTime, SignInTime, HeldUncounted, StatusDueBy
  <2>3. CASE pending.kind \notin SignOfLife
    <3>1. pending.kind = "status"
      BY <2>1, <2>3 DEF SilenceInv, TxTypeOK, Frames, Kinds, SignOfLife
    <3> QED
      BY <1>1, <2>1, <2>3, <3>1, Bounds
         DEF SilenceInv, FrameInTime, SignInTime, HeldUncounted, DueBy, StatusDueBy
  <2> QED
    BY <2>2, <2>3
<1>6. CASE SendFail
  <2>1. /\ pending # NoFrame /\ pending' = pending /\ UNCHANGED <<now, tx_age>>
        /\ quiet' = 0 /\ held' = FALSE
        /\ next_attempt' = (now + IncreasedBackoff) % TimeMod
    BY <1>6 DEF SendFail, Ready, beaconVars
  <2>2. IncreasedBackoff \in Nat /\ IncreasedBackoff > 0 /\ IncreasedBackoff <= MaxBackoff
    BY <1>1, BackoffBounded, Bounds
  <2>3. next_attempt' = IF now + IncreasedBackoff < TimeMod THEN now + IncreasedBackoff
                        ELSE now + IncreasedBackoff - TimeMod
    BY <1>1, <2>1, <2>2, ClockSum, Bounds
  <2>4. DueBy' \in {StatusDueBy, SignDueBy}
    BY DEF DueBy, StatusDueBy, SignDueBy
  <2>5. FrameInTime'
    <3>1. DueBy' \in Int /\ DueBy' >= MaxBackoff /\ next_attempt' \in Int /\ now \in Int
      BY <1>1, <2>2, <2>3, <2>4, Bounds DEF Time
    <3>2. IF now + IncreasedBackoff < TimeMod
          THEN now < next_attempt' /\ next_attempt' - now <= MaxBackoff
          ELSE now >= next_attempt' /\ next_attempt' + TimeMod - now <= MaxBackoff
      BY <1>1, <2>2, <2>3, <3>1, Bounds DEF Time
    <3>6. MaxStall \in Int /\ MaxStall >= 1 /\ MaxBackoff \in Int /\ MaxBackoff >= 0
      BY Bounds
    <3>3. DueBy' + MaxStall - 1 >= 0
      <4>1. \A b, m, s \in Int : b >= m /\ m >= 0 /\ s >= 1 => b + s - 1 >= 0
        OBVIOUS
      <4> QED
        BY <3>1, <3>6, <4>1
    <3>4. now < next_attempt' => 0 + (next_attempt' - now) <= DueBy'
      <4>1. now < next_attempt' => next_attempt' - now <= MaxBackoff
        BY <2>3, <3>1, <3>2, <2>2, <3>6, Bounds
      <4>2. 0 + MaxBackoff <= DueBy' /\ 0 \in Int
        BY <3>1, <3>6
      <4> QED
        BY <3>1, <3>6, <4>1, <4>2, WaitAdds
    <3>5. now >= next_attempt' => next_attempt' + TimeMod - now <= MaxBackoff
      BY <3>1, <3>2
    <3> QED
      BY <2>1, <3>3, <3>4, <3>5 DEF FrameInTime
  <2> QED
    BY <1>1, <2>1, <2>5, Bounds DEF SignInTime, HeldUncounted
<1>7. CASE NoAttempt
  BY <1>2, <1>7 DEF NoAttempt, beaconVars, policyVars, storeVars, airVars
<1>8. ASSUME NEW d \in 0 .. MaxStall, FinishPass(d)
      PROVE  FrameInTime' /\ SignInTime' /\ HeldUncounted'
  BY <1>8, FinishInTime
<1>9. CASE PowerCycle
  <2>1. pending' = NoFrame /\ quiet' = 0 /\ tx_age' = 0
    BY <1>9 DEF PowerCycle
  <2> QED
    BY <2>1, Bounds DEF FrameInTime, SignInTime, HeldUncounted, StatusDueBy
<1>10. CASE UNCHANGED txVars
  BY <1>2, <1>10 DEF txVars, beaconVars, policyVars, storeVars, airVars
<1> QED
  BY <1>3, <1>4, <1>5, <1>6, <1>7, <1>8, <1>9, <1>10 DEF TxNext, Pass, Attempt

\* The first boot.
LEMMA InitSilence == TxInit => SilenceInv
<1> SUFFICES ASSUME TxInit PROVE SilenceInv
  OBVIOUS
<1>1. pending = NoFrame /\ quiet = 0 /\ tx_age = 0
  BY DEF TxInit
<1> QED
  BY <1>1, InitTypes, Bounds DEF SilenceInv, FrameInTime, SignInTime, HeldUncounted, StatusDueBy

\* Whatever the intervals, the jitter and the lateness of the loop: signs of life are never
\* further apart than QuietBound, unless the radio refuses or the clock holds a frame back.
THEOREM SilenceIsBounded == TxSpec => []SilenceBounded
<1>1. TxInit => SilenceInv
  BY InitSilence
<1>2. SilenceInv /\ TxInv /\ TxTypeOK' /\ [TxNext]_txVars => SilenceInv'
  BY SilenceStep
<1>3. SilenceInv => SilenceBounded
  <2> SUFFICES ASSUME SilenceInv PROVE SilenceBounded
    OBVIOUS
  <2>1. quiet \in Nat
    BY BoundIsNat DEF SilenceInv, TxTypeOK
  <2> QED
    BY <2>1, Bounds DEF SilenceInv, FrameInTime, SignInTime, SilenceBounded, QuietBound, DueBy,
                        StatusDueBy, SignDueBy
<1> QED
  BY <1>1, <1>2, <1>3, TxInvariant, TxTypeCorrect, PTL DEF TxSpec

================================================================================
