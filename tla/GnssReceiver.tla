------------------------------ MODULE GnssReceiver -----------------------------
(***************************************************************************)
(* How a fix of the receiver becomes the position of the node: bytes on    *)
(* the serial line, UbxStreamParser, GnssUbloxService, the override of the *)
(* test console, and the part of AppServices::tick that decides whether    *)
(* the runtime is told.                                                    *)
(*                                                                         *)
(* Frames have the layout of the receiver's protocol with smaller numbers: *)
(* two sync bytes, class, id, a length of two bytes, the payload and two   *)
(* checksum bytes, all modulo ByteMod.  The payload of a NAV-PVT frame is  *)
(* a time, a fix type and a position; positions that differ are more than  *)
(* the minimum distance apart.  The permission to send the position, which *)
(* the same code gives, is part of BeaconTx.                               *)
(***************************************************************************)
EXTENDS Naturals, Sequences, SequencesExt

CONSTANTS
  ByteMod,          \* number of values of a byte
  Sync1, Sync2,     \* kSync1, kSync2
  ClassNav,         \* kClassNav
  IdPvt,            \* kIdNavPvt
  MaxPayload,       \* kMaxPayloadLen
  MaxReadPerTick,   \* kMaxReadPerTick
  UartBuffer,       \* bytes on the way and in the serial driver, at most
  TimeMod,          \* number of times that follow each other in the frames
  FixTypes,         \* fix types that the receiver reports
  Positions,        \* positions, the reset position 0 among them
  OverridePositions,\* positions that the operator enters
  MinTime,          \* min_time_ms_, in steps of the clock
  MaxSilence        \* max_silence_ms_, in steps of the clock

Byte == 0 .. ByteMod - 1
PvtLen == 3

ASSUME GnssAssumption ==
  /\ ByteMod \in Nat
  /\ {Sync1, Sync2, ClassNav, IdPvt, PvtLen} \cup FixTypes \cup Positions \subseteq Byte
  /\ 0 \in Positions
  /\ MaxPayload \in PvtLen .. ByteMod - 2
  /\ {MaxReadPerTick, UartBuffer, MinTime, MaxSilence} \subseteq Nat \ {0}
  /\ MaxPayload + 9 <= UartBuffer  \* the longest of the frames below fits
  /\ TimeMod \in 2 .. ByteMod

VARIABLES
  sky,          \* fix type and position that the receiver knows
  itow,         \* the time in its frames
  configured,   \* whether the request for NAV-PVT frames has reached it
  line,         \* bytes sent and not read
  uart_ready,   \* uart_ready_
  parser,       \* parser_
  snapshot,     \* snapshot_ of the service; its pos_valid says that fix is not NO_FIX
  boot,         \* "verify" and "again" while booting, then "run"
  override,     \* gnss_override_
  committed,    \* has_commit_ and the position of the last commit
  since,        \* time since the last commit, at most MaxSilence
  fix_state,    \* last_fix_state_, which the display shows
  self_pos      \* pos_valid and position of the runtime

receiver == <<sky, itow, configured>>
service == <<uart_ready, parser, snapshot>>
publishing == <<committed, fix_state, self_pos>>
gnssVars == <<receiver, line, service, boot, override, since, publishing>>

-------------------------------------------------------------------------------
(* The parser *)

Rest == [state |-> "sync1", body |-> <<>>, ck_a |-> 0, ck_b |-> 0, rx |-> 0]

PayloadLen(body) == body[3] + ByteMod * body[4]

\* Mutant: a payload may be one byte longer than the buffer.
TooLongByOne(body) == Len(body) = 4 /\ PayloadLen(body) > MaxPayload + 1

TooLong(body) == Len(body) = 4 /\ PayloadLen(body) > MaxPayload

Complete(body) == Len(body) >= 4 /\ Len(body) >= 4 + PayloadLen(body)


\* A byte between the sync bytes and the checksum, with checksum_accumulate.
Accumulated(p, b) ==
  [p EXCEPT !.body = Append(@, b),
            !.ck_a = (p.ck_a + b) % ByteMod,
            !.ck_b = (p.ck_b + p.ck_a + b) % ByteMod]

AfterHeaderOrPayload(p) ==
  IF TooLong(p.body) THEN Rest
  ELSE [p EXCEPT !.state = IF Complete(p.body) THEN "ck_a" ELSE "body"]

PushByte(p, b) ==
  CASE p.state = "sync1" -> [p EXCEPT !.state = IF b = Sync1 THEN "sync2" ELSE "sync1"]
    [] p.state = "sync2" ->
         [p EXCEPT !.state = IF b = Sync2 THEN "body"
                             ELSE IF b = Sync1 THEN "sync2" ELSE "sync1"]
    [] p.state = "body"  -> AfterHeaderOrPayload(Accumulated(p, b))
    [] p.state = "ck_a"  -> [p EXCEPT !.rx = b, !.state = "ck_b"]
    [] p.state = "ck_b"  -> Rest

FrameOk(p, b) == p.state = "ck_b" /\ p.rx = p.ck_a /\ b = p.ck_b

-------------------------------------------------------------------------------
(* The service *)

Fix(type) == IF type >= 3 THEN "FIX_3D" ELSE IF type = 2 THEN "FIX_2D" ELSE "NO_FIX"

NoPosition == [fix |-> "NO_FIX", pos |-> 0]

IsPvt(body) == body[1] = ClassNav /\ body[2] = IdPvt /\ Len(body) = 4 + PvtLen

\* apply_fix_from_nav_pvt: without a fix the last position stays.
Applied(s, body) ==
  [fix |-> Fix(body[6]), pos |-> IF Fix(body[6]) = "NO_FIX" THEN s.pos ELSE body[7]]

Parsers == [state : {"sync1", "sync2", "body", "ck_a", "ck_b"}, body : Seq(Byte),
            ck_a : Byte, ck_b : Byte, rx : Byte]
Snapshots == [fix : {"NO_FIX", "FIX_2D", "FIX_3D"}, pos : Byte]

\* What the loop of tick works on: the parser, the snapshot and whether it is new.
Readings == [parser : Parsers, snapshot : Snapshots, updated : BOOLEAN]

\* One byte in that loop, after what was read before.
ByteReceived[x \in Readings \X Byte] ==
  LET r   == x[1]
      b   == x[2]
      new == FrameOk(r.parser, b) /\ IsPvt(r.parser.body)
  IN  [parser   |-> PushByte(r.parser, b),
       snapshot |-> IF new THEN Applied(r.snapshot, r.parser.body) ELSE r.snapshot,
       updated  |-> r.updated \/ new]

\* All the bytes in that loop.
AllReceived(start, bytes) ==
  LET after[i \in 0 .. Len(bytes)] ==
        IF i = 0 THEN start ELSE ByteReceived[<<after[i - 1], bytes[i]>>]
  IN  after[Len(bytes)]

Smaller(m, n) == IF m <= n THEN m ELSE n

\* How many bytes a tick reads.
Readable == IF uart_ready THEN Smaller(Len(line), MaxReadPerTick) ELSE 0

\* What GnssUbloxService::tick makes of the bytes it reads.
TickResult ==
  IF uart_ready
  THEN AllReceived([parser |-> parser, snapshot |-> snapshot, updated |-> FALSE],
                   SubSeq(line, 1, Readable))
  ELSE [parser |-> parser, snapshot |-> [snapshot EXCEPT !.fix = "NO_FIX"], updated |-> TRUE]

\* tick leaves r behind and takes the bytes it read from the line.
ServiceTick(r) ==
  /\ parser' = r.parser
  /\ snapshot' = r.snapshot
  /\ line' = SubSeq(line, Readable + 1, Len(line))
  /\ UNCHANGED uart_ready

-------------------------------------------------------------------------------
(* The receiver and the line *)

\* The checksum as the protocol defines it: the sum of the bytes, and the sum of those sums.
Checksum(body) ==
  LET sums[k \in 0 .. Len(body)] ==
        IF k = 0 THEN <<0, 0>>
        ELSE <<(sums[k - 1][1] + body[k]) % ByteMod,
               (sums[k - 1][2] + sums[k - 1][1] + body[k]) % ByteMod>>
  IN  sums[Len(body)]

Framed(body) == <<Sync1, Sync2>> \o body \o Checksum(body)

\* Other frames of the receiver: an answer without payload, and one too long for the parser.
OtherFrames ==
  {Framed(<<0, 0, 0, 0>>), Framed(<<0, 0, MaxPayload + 1, 0>> \o [i \in 1 .. MaxPayload + 1 |-> 0])}

Sky == {s \in [type : FixTypes, pos : Positions] : Fix(s.type) = "NO_FIX" => s.pos = 0}

\* The NAV-PVT frames, by time and by what the receiver sees.
PvtFrames ==
  {[time |-> t, sky |-> s, bytes |-> Framed(<<ClassNav, IdPvt, PvtLen, 0, t, s.type, s.pos>>)] :
     t \in 0 .. TimeMod - 1, s \in Sky}

\* The receiver finds or loses its fix, or moves.
SkyChanges ==
  /\ sky' \in Sky
  /\ UNCHANGED <<itow, configured, line, service, boot, override, since, publishing>>

\* A receiver that was asked to sends a frame each period.  The loop is fast enough for the
\* serial driver unless the override keeps it from reading; then the bytes that find the
\* driver full are lost.
SendPeriod ==
  /\ configured
  /\ \E f \in PvtFrames :
       /\ f.time = itow /\ f.sky = sky
       /\ Len(line) + Len(f.bytes) <= UartBuffer \/ override.enabled \/ ~uart_ready
       /\ line' = IF uart_ready
                  THEN SubSeq(line \o f.bytes, 1, Smaller(UartBuffer, Len(line) + Len(f.bytes)))
                  ELSE line
  /\ itow' = (itow + 1) % TimeMod
  /\ UNCHANGED <<sky, configured, service, boot, override, since, publishing>>

-------------------------------------------------------------------------------
(* The device *)

NoOverride == [enabled |-> FALSE, fix |-> "NO_FIX", pos |-> 0]

\* GnssUbloxService::init has opened the line or not and asked once for NAV-PVT frames.  A
\* receiver that was on already may be in the middle of a frame.
GnssInit ==
  /\ sky \in Sky
  /\ itow = 0
  /\ configured \in BOOLEAN
  /\ uart_ready \in BOOLEAN
  /\ line \in IF configured /\ uart_ready
              THEN {<<>>} \cup OtherFrames
                   \cup UNION {Suffixes(f.bytes) : f \in {g \in PvtFrames : g.sky = sky}}
              ELSE {<<>>}
  /\ parser = Rest
  /\ snapshot = NoPosition
  /\ boot = "verify"
  /\ override = NoOverride
  /\ committed = [has |-> FALSE, pos |-> 0]
  /\ since = MaxSilence
  /\ fix_state = "NO_FIX"
  /\ self_pos = [valid |-> FALSE, pos |-> 0]

\* A tick of verify_on_boot, which nobody listens to.  A byte ends it, and so does the time;
\* then init asks a second time, but only once.
VerifyTick ==
  /\ boot \in {"verify", "again"}
  /\ uart_ready
  /\ \E r \in {TickResult} : ServiceTick(r)
  /\ boot' = IF Readable > 0 THEN "run" ELSE boot
  /\ UNCHANGED <<receiver, override, since, publishing>>

VerifyTimeout ==
  /\ \/ /\ boot = "verify"
        /\ boot' = "again"
        /\ uart_ready' \in BOOLEAN
        /\ snapshot' = NoPosition
        /\ configured' \in {configured, TRUE}
        /\ UNCHANGED parser
     \/ /\ boot = "again"
        /\ boot' = "run"
        /\ UNCHANGED <<service, configured>>
  /\ UNCHANGED <<sky, itow, line, override, since, publishing>>

\* evaluate gives a reason.
Due(s) ==
  /\ s.fix # "NO_FIX"
  /\ \/ ~committed.has
     \/ since >= MaxSilence
     \/ since >= MinTime /\ s.pos # committed.pos

Commit(s) ==
  /\ committed' = [has |-> TRUE, pos |-> s.pos]
  /\ since' = 0
  /\ self_pos' = [valid |-> TRUE, pos |-> s.pos]

\* Mutant: a lost fix is shown on the display only.
PublishKeeping(s) ==
  /\ fix_state' = s.fix
  /\ \/ Due(s) /\ Commit(s)
     \/ ~Due(s) /\ UNCHANGED <<committed, since, self_pos>>

\* A report of the receiver or the override: it is committed and given to the runtime, or
\* takes the position back, or is passed over.
Publish(s) ==
  /\ fix_state' = s.fix
  /\ \/ Due(s) /\ Commit(s)
     \/ /\ s.fix = "NO_FIX"
        /\ self_pos' = [valid |-> FALSE, pos |-> 0]
        /\ UNCHANGED <<committed, since>>
     \/ ~Due(s) /\ s.fix # "NO_FIX" /\ UNCHANGED <<committed, since, self_pos>>

\* AppServices::tick.  While the override is on, nobody reads the line.
AppTick ==
  /\ boot = "run"
  /\ \/ /\ override.enabled
        /\ Publish([fix |-> override.fix, pos |-> override.pos])
        /\ UNCHANGED <<service, line>>
     \/ /\ ~override.enabled
        /\ \E r \in {TickResult} :
             /\ ServiceTick(r)
             /\ IF r.updated THEN Publish(r.snapshot) ELSE UNCHANGED <<publishing, since>>
  /\ UNCHANGED <<receiver, boot, override>>

\* The console commands gnss off, nofix, fix and move; nothing sees where an override without
\* fix, or one that is off, would be.
GnssCommand ==
  /\ boot = "run"
  /\ override' \in
       {NoOverride, [enabled |-> TRUE, fix |-> "NO_FIX", pos |-> 0]}
       \cup {[enabled |-> TRUE, fix |-> "FIX_3D", pos |-> p] : p \in OverridePositions}
       \cup {[override EXCEPT !.pos = p] :
               p \in IF override.fix = "NO_FIX" THEN {} ELSE OverridePositions}
  /\ UNCHANGED <<receiver, line, service, boot, since, publishing>>

Clock ==
  /\ since < MaxSilence
  /\ since' = since + 1
  /\ UNCHANGED <<receiver, line, service, boot, override, publishing>>

GnssNext ==
  \/ SkyChanges \/ SendPeriod
  \/ VerifyTick \/ VerifyTimeout
  \/ AppTick
  \/ GnssCommand
  \/ Clock

\* The receiver goes on sending, what it sent arrives, the boot and the loop go on, and so
\* does the time.
GnssFairness ==
  /\ WF_gnssVars(SendPeriod)
  /\ WF_gnssVars(VerifyTimeout)
  /\ WF_gnssVars(AppTick)
  /\ WF_gnssVars(Clock)

GnssSpec == GnssInit /\ [][GnssNext]_gnssVars /\ GnssFairness

-------------------------------------------------------------------------------
(* Properties *)

FixStates == {"NO_FIX", "FIX_2D", "FIX_3D"}

\* Every variable has its type: no payload runs over the buffer of the parser.
GnssTypeOK ==
  /\ sky \in Sky
  /\ itow \in Byte
  /\ configured \in BOOLEAN
  /\ line \in Seq(Byte) /\ Len(line) <= UartBuffer
  /\ uart_ready \in BOOLEAN
  /\ parser.state \in {"sync1", "sync2", "body", "ck_a", "ck_b"}
  /\ parser.body \in Seq(Byte) /\ Len(parser.body) <= 4 + MaxPayload
  /\ {parser.ck_a, parser.ck_b, parser.rx} \subseteq Byte
  /\ snapshot.fix \in FixStates
  /\ boot \in {"verify", "again", "run"}
  /\ override.enabled \in BOOLEAN /\ override.fix \in FixStates
  /\ override.pos \in OverridePositions \cup {0}
  /\ committed.has \in BOOLEAN
  /\ since \in 0 .. MaxSilence
  /\ fix_state \in FixStates
  /\ self_pos.valid \in BOOLEAN

\* The runtime has a position to send only while the display shows a fix.
PositionNeedsFix == self_pos.valid => fix_state # "NO_FIX"


================================================================================
