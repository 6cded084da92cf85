---------------------------- MODULE RadioLinkProofs ----------------------------
(***************************************************************************)
(* The number an entry keeps is that of a packet heard, or its blank 0,    *)
(* and samples never regress, for every modulus, any number of senders and *)
(* packets in the air, and a table of any capacity.                        *)
(*                                                                         *)
(* Whatever a packet does to the table, it does to the entry of its        *)
(* sender: it leaves what the entry tells, or it is newer by number and    *)
(* the entry tells what it brought.  What remains is arithmetic: within    *)
(* the window that Send keeps to, newer by number is newer by index, and a *)
(* packet that is dropped leaves the entry's number less than a turn of    *)
(* the counter behind.                                                     *)
(***************************************************************************)
EXTENDS RadioLink, NodeTableProofs

\* Index i is less than half a turn behind index s.
Close(s, i) == i <= s /\ (s - i < Half \/ s = i)

\* Of the indices H, of which nw is the newest, none is a turn behind.
Recent(H, nw) == \A i \in H : i \in 1 .. nw /\ nw - i < SeqModulus

\* What is remembered of the indices H and of r, when the newest is top.
Kept(H, r, top) == {i \in H \cup {r} : top - i < SeqModulus}

\* Entry e of a node of which the indices H are remembered: its number stands for one of
\* them, and what it tells is no newer; or none was newer than the 0 it still has.
StandsFor(e, H) ==
  \/ /\ <<e.last_seq, e.pos, e.status>> = <<0, NoPos, NoStatus>>
     /\ \A idx \in H : ~Seq16Newer(Wire(idx), 0)
  \/ \E idx \in H :
       /\ e.last_seq = Wire(idx)
       /\ e.pos \in {NoPos} \cup 1 .. idx
       /\ e.status \in {NoStatus} \cup 1 .. idx

\* What is in the air is recent.
AirInv ==
  /\ air \subseteq Packet
  /\ \A p \in air : p.idx \in 1 .. LastIdx[p.node] /\ Close(sent[p.node], p.idx)

HeardInv ==
  \A n \in Senders :
    /\ ~Known(n) => newest[n] = 0 /\ heard[n] = {}
    /\ Known(n) =>
         /\ Close(sent[n], newest[n])
         /\ Recent(heard[n], newest[n])
         /\ \A i \in InUse(entries) :
              entries[i].node_id = n => StandsFor(entries[i], heard[n])

\* The inductive invariant.
LinkInv ==
  /\ IInv
  /\ sent \in [Senders -> Nat]
  /\ newest \in [Senders -> Nat]
  /\ heard \in [Senders -> SUBSET Nat]
  /\ AirInv
  /\ HeardInv

-------------------------------------------------------------------------------
(* Numbers and indices.                                                    *)

\* Division with a remainder.
LEMMA Division ==
  ASSUME NEW m \in Nat \ {0}, NEW a \in Int
  PROVE  /\ a = m * (a \div m) + (a % m)
         /\ a % m \in 0 .. m - 1
         /\ a \div m \in Int
<1>1. a = m * (a \div m) + (a % m)
  BY Z3
<1>2. a % m \in 0 .. m - 1 /\ a \div m \in Int
  OBVIOUS
<1> QED
  BY <1>1, <1>2

\* A number is what is left of an index when whole turns are taken away.
LEMMA Turns ==
  ASSUME NEW a \in Int
  PROVE  \E q \in Int : a = SeqModulus * q + (a % SeqModulus) /\ a % SeqModulus \in Seq16
BY SizesAssumption, Division DEF Seq16

\* Every index has a number.
LEMMA WireType ==
  ASSUME NEW i \in Nat
  PROVE  Wire(i) \in Seq16
BY Turns DEF Wire

\* A turn or more is a turn or more.
LEMMA Multiples ==
  \A m \in Nat \ {0}, k \in Int : /\ k >= 2 => m * k >= 2 * m
                                  /\ k <= -2 => m * k <= -2 * m
OBVIOUS

\* The distance of two numbers is that of their indices up to whole turns.
LEMMA WireDistance ==
  ASSUME NEW r \in Nat, NEW i \in Nat
  PROVE  \E k \in Int : (Wire(r) - Wire(i)) % SeqModulus = (r - i) + SeqModulus * k
<1>1. PICK q1 \in Int : r = SeqModulus * q1 + Wire(r)
  BY Turns DEF Wire
<1>2. PICK q2 \in Int : i = SeqModulus * q2 + Wire(i)
  BY Turns DEF Wire
<1>3. Wire(r) \in Int /\ Wire(i) \in Int /\ SeqModulus \in Int
  BY WireType, SizesAssumption DEF Seq16
<1>4. PICK q3 \in Int : Wire(r) - Wire(i) = SeqModulus * q3 + ((Wire(r) - Wire(i)) % SeqModulus)
  <2>1. Wire(r) - Wire(i) \in Int
    BY <1>3
  <2> QED
    BY <2>1, Turns, Zenon
<1>5. (Wire(r) - Wire(i)) % SeqModulus \in Int
  BY <1>3, Turns DEF Seq16
<1>6. \A m, a, b, c, p, q, s \in Int :
        r = m * p + a /\ i = m * q + b /\ a - b = m * s + c => c = (r - i) + m * (q - p - s)
  OBVIOUS
<1>7. (Wire(r) - Wire(i)) % SeqModulus = (r - i) + SeqModulus * (q2 - q1 - q3)
  BY <1>1, <1>2, <1>3, <1>4, <1>5, <1>6
<1> QED
  BY <1>7

\* Half a turn.
LEMMA HalfIsHalf == Half \in Nat /\ Half < SeqModulus /\ 2 * Half <= SeqModulus
BY SizesAssumption DEF Half

\* What lies within the window is newer by number only if it is newer by index; if it is not,
\* it is less than a turn ahead, or has the very number.
LEMMA NewerByNumber ==
  ASSUME NEW idx \in Nat, NEW nw \in Nat, NEW r \in Nat,
         idx <= nw, nw - idx < SeqModulus,
         r - nw < Half \/ r <= nw,
         nw - r < Half \/ nw <= r
  PROVE  /\ Seq16Newer(Wire(r), Wire(idx)) => r > idx
         /\ ~Seq16Newer(Wire(r), Wire(idx)) =>
              r - idx < SeqModulus \/ (Wire(r) = Wire(idx) /\ r >= idx)
<1>1. PICK k \in Int : (Wire(r) - Wire(idx)) % SeqModulus = (r - idx) + SeqModulus * k
  BY WireDistance
<1>2. /\ Wire(r) \in 0 .. SeqModulus - 1 /\ Wire(idx) \in 0 .. SeqModulus - 1
      /\ (Wire(r) - Wire(idx)) % SeqModulus \in 0 .. SeqModulus - 1
  <2>1. Wire(r) \in 0 .. SeqModulus - 1 /\ Wire(idx) \in 0 .. SeqModulus - 1
    BY WireType DEF Seq16
  <2>2. Wire(r) - Wire(idx) \in Int
    BY <2>1, SizesAssumption
  <2> QED
    BY <2>1, <2>2, Turns, Zenon DEF Seq16
<1>3. SeqModulus \in Nat \ {0}
  BY SizesAssumption
<1>4. k \in {-1, 0, 1}
  <2>1. r - idx < 2 * SeqModulus /\ idx - r < SeqModulus
    BY <1>3, HalfIsHalf
  <2>2. SeqModulus * k > -2 * SeqModulus /\ SeqModulus * k < 2 * SeqModulus
    BY <1>1, <1>2, <1>3, <2>1
  <2> QED
    BY <1>3, <2>2, Multiples
<1>5. SeqModulus * k = IF k = 0 THEN 0 ELSE IF k = 1 THEN SeqModulus ELSE -SeqModulus
  BY <1>3, <1>4
<1> DEFINE d == (Wire(r) - Wire(idx)) % SeqModulus
<1>6. Seq16Newer(Wire(r), Wire(idx)) <=> d \in 1 .. Half - 1
  BY DEF Seq16Newer, Half
<1>7. d = 0 => Wire(r) = Wire(idx)
  <2>1. \A m \in Nat \ {0} : \A a, b \in 0 .. m - 1 : (a - b) % m = 0 => a = b
    OBVIOUS
  <2> QED
    BY <1>2, <1>3, <2>1
<1> HIDE DEF d
<1>8. d = (r - idx) + SeqModulus * k /\ d \in 0 .. SeqModulus - 1
  BY <1>1, <1>2 DEF d
<1>9. Seq16Newer(Wire(r), Wire(idx)) => r > idx
  BY <1>3, <1>4, <1>5, <1>6, <1>8, HalfIsHalf
<1>10. ~(d \in 1 .. Half - 1) => r - idx < SeqModulus \/ (d = 0 /\ r >= idx)
  BY <1>3, <1>4, <1>5, <1>8, HalfIsHalf
<1> QED
  BY <1>6, <1>7, <1>9, <1>10

\* The greater of two indices.
LEMMA MaxOfTwo ==
  ASSUME NEW a \in Nat, NEW b \in Nat
  PROVE  Max({a, b}) = IF a >= b THEN a ELSE b
<1> DEFINE m == IF a >= b THEN a ELSE b
<1>1. m \in {a, b} /\ (\A y \in {a, b} : m >= y)
  OBVIOUS
<1>2. \A x \in {a, b} : (\A y \in {a, b} : x >= y) => x = m
  OBVIOUS
<1> HIDE DEF m
<1>3. Max({a, b}) = m
  BY <1>1, <1>2 DEF Max
<1> QED
  BY <1>3 DEF m

-------------------------------------------------------------------------------
(* What a packet does to the table.                                        *)

\* What packet idx may make of entry e.
Learned(f, e, idx) ==
  \/ /\ Seq16Newer(Wire(idx), e.last_seq)
     /\ f.last_seq = Wire(idx)
     /\ f.pos \in {e.pos, idx}
     /\ f.status \in {e.status, idx}
  \/ /\ ~Seq16Newer(Wire(idx), e.last_seq)
     /\ <<f.pos, f.status, f.last_seq>> = <<e.pos, e.status, e.last_seq>>

\* What it makes of a blank one, and what an Alive packet puts into a new one.
FirstLearned(f, idx) ==
  \/ \E b \in NodeEntry : /\ <<b.pos, b.status, b.last_seq>> = <<NoPos, NoStatus, 0>>
                          /\ Learned(f, b, idx)
  \/ <<f.pos, f.status, f.last_seq>> = <<NoPos, NoStatus, Wire(idx)>>

\* Packet p touches slot x, and makes it an entry of its sender.
LinkEffect(p, x) ==
  /\ InUse(entries') = InUse(entries) \cup {x}
  /\ entries'[x].node_id = p.node
  /\ \A j \in InUse(entries) \ {x} :
       /\ entries'[j].node_id = entries[j].node_id
       /\ SameFacts(entries'[j], entries[j])
  /\ \/ /\ x \in InUse(entries)
        /\ entries[x].node_id = p.node
        /\ Learned(entries'[x], entries[x], p.idx)
     \/ ~Known(p.node) /\ FirstLearned(entries'[x], p.idx)

\* A packet of a node that is known.
LEMMA RewriteLink ==
  ASSUME IInv, NEW p \in Packet, NEW x \in InUse(entries), NEW e \in NodeEntry,
         entries[x].node_id = p.node, e.node_id = p.node,
         entries' = [entries EXCEPT ![x] = e],
         Learned(e, entries[x], p.idx)
  PROVE  LinkEffect(p, x)
<1>1. entries \in Table
  BY DEF IInv, TypeOK
<1>2. InUse(entries') = InUse(entries) \cup {x}
  BY <1>1, EmptyAssumption DEF Table, InUse
<1>3. /\ entries'[x] = e
      /\ \A j \in InUse(entries) \ {x} : entries'[j] = entries[j]
  BY <1>1 DEF Table, InUse
<1> QED
  BY <1>2, <1>3 DEF LinkEffect, SameFacts

\* A packet of a node that is new, whose entry e it may go on to fill.
LEMMA InsertLink ==
  ASSUME IInv, HasRoom, NEW p \in Packet, ~Known(p.node), p.node \in Nodes,
         NEW e \in NodeEntry, e.node_id = p.node, ~e.is_self,
         NEW f \in NodeEntry, f.node_id = p.node,
         FirstLearned(f, p.idx),
         \/ entries' = TableWith(e) /\ f = TableWith(e)[SlotForNew]
         \/ entries' = [TableWith(e) EXCEPT ![SlotForNew] = f]
  PROVE  LinkEffect(p, SlotForNew)
<1> DEFINE x == SlotForNew
           t == TableWith(e)
<1>1. Effect(x)
  BY InsertEffect
<1>2. t \in Table /\ x \in InUse(t) /\ t[x].node_id = p.node
      /\ \A i \in InUse(t) \ {x} :
           /\ i \in InUse(entries)
           /\ t[i].node_id = entries[i].node_id
           /\ SameFacts(t[i], entries[i])
  BY InsertKeepsStruct
<1> HIDE DEF x, t
<1>3. entries'[x] = f
  BY <1>2 DEF Table, InUse, t, x
<1>4. LinkEffect(p, x)
  BY <1>1, <1>3 DEF Effect, LinkEffect
<1> QED
  BY <1>4 DEF x

\* A sender is a node other than this device.
LEMMA SenderFacts ==
  ASSUME NEW p \in Packet
  PROVE  /\ p.node \in Nodes /\ p.node \in Senders /\ p.node # Self
         /\ p.idx \in Nat /\ Wire(p.idx) \in Seq16
BY NodesAssumption, LinkAssumption, WireType DEF Packet

\* An Alive packet.
LEMMA AliveLink ==
  ASSUME IInv, NEW p \in Packet, UpsertRemote(p.node, NoPos, Wire(p.idx))
  PROVE  \E x \in Slots : LinkEffect(p, x)
<1>1. CASE Known(p.node)
  <2> DEFINE x == FindEntryIndex(p.node)
             touched == [entries[x] EXCEPT !.last_seen = now]
             accepted == [touched EXCEPT !.last_seq = Wire(p.idx),
                                       !.pos = IF NoPos = NoPos THEN @ ELSE NoPos]
             e == IF Seq16Newer(Wire(p.idx), entries[x].last_seq) THEN accepted ELSE touched
  <2>1. x \in InUse(entries) /\ entries[x].node_id = p.node
    BY <1>1, FindKnown, SenderFacts
  <2>2. entries[x] \in NodeEntry /\ now \in Time /\ ~entries[x].is_self
    BY <2>1, SenderFacts DEF IInv, TypeOK, Table, InUse, Struct
  <2>3. entries' = [entries EXCEPT ![x] = e]
    BY <1>1, <2>2 DEF UpsertRemote
  <2> HIDE DEF x
  <2>4. /\ touched \in NodeEntry /\ accepted \in NodeEntry
        /\ touched.node_id = p.node /\ accepted.node_id = p.node
        /\ Seq16Newer(Wire(p.idx), entries[x].last_seq) => Learned(accepted, entries[x], p.idx)
        /\ ~Seq16Newer(Wire(p.idx), entries[x].last_seq) => Learned(touched, entries[x], p.idx)
    BY <2>1, <2>2, SenderFacts DEF NodeEntry, Learned
  <2>5. e \in NodeEntry /\ e.node_id = p.node /\ Learned(e, entries[x], p.idx)
    BY <2>4
  <2> HIDE DEF e
  <2> QED
    BY <2>1, <2>3, <2>5, RewriteLink DEF InUse
<1>2. CASE ~Known(p.node)
  <2> DEFINE e == [NewEntry(p.node, FALSE) EXCEPT !.pos = NoPos, !.last_seq = Wire(p.idx)]
             f == TableWith(e)[SlotForNew]
  <2>1. HasRoom /\ entries' = TableWith(e)
    BY <1>2 DEF UpsertRemote
  <2>2. NewEntry(p.node, FALSE) \in NodeEntry
    BY NewEntryType, SenderFacts DEF IInv
  <2>3. /\ e \in NodeEntry /\ e.node_id = p.node /\ ~e.is_self
        /\ <<e.pos, e.status, e.last_seq>> = <<NoPos, NoStatus, Wire(p.idx)>>
    BY <2>2, SenderFacts DEF NodeEntry, NewEntry
  <2> HIDE DEF e
  <2>4. f \in NodeEntry /\ f.node_id = p.node /\ SameFacts(f, e)
    BY <1>2, <2>1, <2>3, InsertKeepsStruct, SenderFacts
  <2>5. FirstLearned(f, p.idx)
    BY <2>3, <2>4 DEF FirstLearned, SameFacts
  <2>6. LinkEffect(p, SlotForNew)
    BY <1>2, <2>1, <2>3, <2>4, <2>5, InsertLink, SenderFacts
  <2> QED
    BY <2>1, <2>6, SlotForNewChoice DEF IInv
<1> QED
  BY <1>1, <1>2

\* apply_pos_full and apply_status, with what they make of the entry as parameter.
LEMMA FrameLink ==
  ASSUME IInv, NEW p \in Packet, Known(p.node) \/ HasRoom,
         NEW e \in NodeEntry, NEW i, NEW t,
         i = IF Known(p.node) THEN FindEntryIndex(p.node) ELSE SlotForNew,
         t = IF Known(p.node) THEN entries ELSE TableWith(NewEntry(p.node, FALSE)),
         e.node_id = p.node,
         Learned(e, t[i], p.idx),
         entries' = [t EXCEPT ![i] = e]
  PROVE  \E x \in Slots : LinkEffect(p, x)
<1>1. CASE Known(p.node)
  <2>1. i \in InUse(entries) /\ entries[i].node_id = p.node /\ t = entries
    BY <1>1, FindKnown, SenderFacts
  <2> QED
    BY <2>1, RewriteLink DEF InUse
<1>2. CASE ~Known(p.node)
  <2> DEFINE b == NewEntry(p.node, FALSE)
  <2>1. /\ b \in NodeEntry /\ b.node_id = p.node /\ ~b.is_self
        /\ b.pos = NoPos /\ b.status = NoStatus /\ b.last_seq = 0
    BY NewEntryType, SenderFacts DEF IInv, NewEntry
  <2>2. t = TableWith(b) /\ i = SlotForNew /\ HasRoom
    BY <1>2
  <2> HIDE DEF b
  <2>3. t[i] \in NodeEntry /\ SameFacts(t[i], b)
    BY <1>2, <2>1, <2>2, InsertKeepsStruct, SenderFacts
  <2>4. FirstLearned(e, p.idx)
    BY <2>1, <2>3 DEF FirstLearned, SameFacts
  <2>5. LinkEffect(p, SlotForNew)
    BY <1>2, <2>1, <2>2, <2>4, InsertLink, SenderFacts
  <2> QED
    BY <2>2, <2>5, SlotForNewChoice DEF IInv
<1> QED
  BY <1>1, <1>2

\* A position packet.
LEMMA PosLink ==
  ASSUME IInv, NEW p \in Packet, p.idx \in Positions,
         ApplyPosFull(p.node, p.idx, Wire(p.idx))
  PROVE  \E x \in Slots : LinkEffect(p, x)
<1> DEFINE i == IF Known(p.node) THEN FindEntryIndex(p.node) ELSE SlotForNew
           t == IF Known(p.node) THEN entries ELSE TableWith(NewEntry(p.node, FALSE))
           touched == [t[i] EXCEPT !.last_seen = now]
           accepted == [[touched EXCEPT !.pos = p.idx] EXCEPT !.last_seq = Wire(p.idx)]
           e == IF Seq16Newer(Wire(p.idx), t[i].last_seq) THEN accepted ELSE touched
<1>1. Known(p.node) \/ HasRoom
  BY DEF ApplyPosFull, ApplyFrame
<1>2. entries' = [t EXCEPT ![i] = e]
  BY DEF ApplyPosFull, ApplyFrame
<1>3. t[i] \in NodeEntry /\ t[i].node_id = p.node /\ now \in Time
  BY <1>1, FindOrCreate, SenderFacts DEF IInv, TypeOK
<1> HIDE DEF i, t
<1>4. /\ touched \in NodeEntry /\ accepted \in NodeEntry
      /\ touched.node_id = p.node /\ accepted.node_id = p.node
      /\ Seq16Newer(Wire(p.idx), t[i].last_seq) => Learned(accepted, t[i], p.idx)
      /\ ~Seq16Newer(Wire(p.idx), t[i].last_seq) => Learned(touched, t[i], p.idx)
  BY <1>3, SenderFacts DEF NodeEntry, Learned
<1>5. e \in NodeEntry /\ e.node_id = p.node /\ Learned(e, t[i], p.idx)
  BY <1>4
<1> HIDE DEF e
<1> QED
  BY <1>1, <1>2, <1>5, FrameLink DEF i, t

\* A status packet.
LEMMA StatusLink ==
  ASSUME IInv, NEW p \in Packet, p.idx \in Statuses,
         ApplyStatus(p.node, p.idx, Wire(p.idx))
  PROVE  \E x \in Slots : LinkEffect(p, x)
<1> DEFINE i == IF Known(p.node) THEN FindEntryIndex(p.node) ELSE SlotForNew
           t == IF Known(p.node) THEN entries ELSE TableWith(NewEntry(p.node, FALSE))
           touched == [t[i] EXCEPT !.last_seen = now]
           accepted == [[touched EXCEPT !.status = p.idx] EXCEPT !.last_seq = Wire(p.idx)]
           e == IF Seq16Newer(Wire(p.idx), t[i].last_seq) THEN accepted ELSE touched
<1>1. Known(p.node) \/ HasRoom
  BY DEF ApplyStatus, ApplyFrame
<1>2. entries' = [t EXCEPT ![i] = e]
  BY DEF ApplyStatus, ApplyFrame
<1>3. t[i] \in NodeEntry /\ t[i].node_id = p.node /\ now \in Time
  BY <1>1, FindOrCreate, SenderFacts DEF IInv, TypeOK
<1> HIDE DEF i, t
<1>4. /\ touched \in NodeEntry /\ accepted \in NodeEntry
      /\ touched.node_id = p.node /\ accepted.node_id = p.node
      /\ Seq16Newer(Wire(p.idx), t[i].last_seq) => Learned(accepted, t[i], p.idx)
      /\ ~Seq16Newer(Wire(p.idx), t[i].last_seq) => Learned(touched, t[i], p.idx)
  BY <1>3, SenderFacts DEF NodeEntry, Learned
<1>5. e \in NodeEntry /\ e.node_id = p.node /\ Learned(e, t[i], p.idx)
  BY <1>4
<1> HIDE DEF e
<1> QED
  BY <1>1, <1>2, <1>5, FrameLink DEF i, t

\* Every packet received has such an effect or none, and leaves a sound table.
LEMMA ReceiveLink ==
  ASSUME LinkInv, NEW p \in air, Apply(p)
  PROVE  /\ IInv'
         /\ (~Known(p.node) /\ UNCHANGED vars) \/ \E x \in Slots : LinkEffect(p, x)
<1>1. /\ IInv /\ p \in Packet /\ p.idx \in Positions /\ p.idx \in Statuses
  BY LinkAssumption DEF LinkInv, AirInv, Packet
<1>2. CASE UpsertRemote(p.node, NoPos, Wire(p.idx))
  BY <1>1, <1>2, UpsertRemoteIInv, AliveLink, SenderFacts
<1>3. CASE ApplyPosFull(p.node, p.idx, Wire(p.idx))
  BY <1>1, <1>3, ApplyPosFullIInv, PosLink, SenderFacts
<1>4. CASE ApplyStatus(p.node, p.idx, Wire(p.idx))
  BY <1>1, <1>4, ApplyStatusIInv, StatusLink, SenderFacts
<1>5. CASE ~Known(p.node) /\ UNCHANGED vars
  BY <1>1, <1>5, NextIInv
<1> QED
  BY <1>2, <1>3, <1>4, <1>5 DEF Apply

\* The entry of a node that stays tells what it told, or what the packet makes of it.
LEMMA NodeStays ==
  ASSUME IInv, NEW p \in Packet, NEW x \in Slots, LinkEffect(p, x),
         NEW n \in Senders, NEW i \in InUse(entries), NEW j \in InUse(entries'),
         entries[i].node_id = n, entries'[j].node_id = n
  PROVE  IF n = p.node THEN Learned(entries'[j], entries[i], p.idx)
         ELSE SameFacts(entries'[j], entries[i])
<1>1. \A k \in InUse(entries) : entries[k].node_id = n => k = i
  BY DEF IInv, Struct
<1>2. CASE j # x
  <2>1. j \in InUse(entries) /\ entries'[j].node_id = entries[j].node_id
        /\ SameFacts(entries'[j], entries[j])
    BY <1>2 DEF LinkEffect
  <2>2. j = i
    BY <1>1, <2>1
  <2>3. n # p.node
    <3> SUFFICES ASSUME n = p.node PROVE FALSE
      OBVIOUS
    <3>1. x \in InUse(entries) /\ entries[x].node_id = p.node
      BY DEF LinkEffect, Known
    <3> QED
      BY <1>1, <1>2, <2>2, <3>1
  <2> QED
    BY <2>1, <2>2, <2>3
<1>3. CASE j = x
  <2>1. n = p.node /\ Known(p.node)
    BY <1>3 DEF LinkEffect, Known
  <2>2. x \in InUse(entries) /\ entries[x].node_id = p.node /\ Learned(entries'[x], entries[x], p.idx)
    BY <2>1 DEF LinkEffect
  <2> QED
    BY <1>1, <1>3, <2>1, <2>2
<1> QED
  BY <1>2, <1>3

\* A node that is new is the sender of the packet.
LEMMA NodeComes ==
  ASSUME NEW p \in Packet, NEW x \in Slots, LinkEffect(p, x),
         NEW n \in Senders, ~Known(n), NEW j \in InUse(entries'), entries'[j].node_id = n
  PROVE  n = p.node /\ FirstLearned(entries'[j], p.idx)
<1>1. j = x
  BY DEF LinkEffect, Known
<1>2. n = p.node
  BY <1>1 DEF LinkEffect
<1> QED
  BY <1>1, <1>2 DEF LinkEffect, Known

-------------------------------------------------------------------------------
(* What the numbers stand for.                                             *)

\* A packet within the window of an entry leaves its number standing for a packet heard, and
\* its samples no older.
LEMMA LearnedStands ==
  ASSUME NEW e, NEW f, NEW H, NEW nw \in Nat, NEW r \in Nat \ {0}, NEW top,
         top = IF nw >= r THEN nw ELSE r,
         Recent(H, nw), StandsFor(e, H), Learned(f, e, r),
         r - nw < Half \/ r <= nw,
         nw - r < Half \/ nw <= r
  PROVE  /\ Recent(Kept(H, r, top), top)
         /\ StandsFor(f, Kept(H, r, top))
         /\ e.pos # NoPos => f.pos >= e.pos
         /\ e.status # NoStatus => f.status >= e.status
<1>1. top \in Nat /\ nw <= top /\ r <= top /\ top \in {nw, r}
  OBVIOUS
<1>2. top - r < SeqModulus
  BY <1>1, HalfIsHalf, SizesAssumption
<1> DEFINE G == Kept(H, r, top)
<1>3. Recent(G, top) /\ r \in G
  BY <1>1, <1>2 DEF Recent, Kept
<1>4. \A i \in G : i \in H \/ i = r
  BY DEF Kept
<1>5. \A i \in H : top - i < SeqModulus => i \in G
  BY DEF Kept
<1> HIDE DEF G
<1>6. CASE \E idx \in H : /\ e.last_seq = Wire(idx)
                          /\ e.pos \in {NoPos} \cup 1 .. idx
                          /\ e.status \in {NoStatus} \cup 1 .. idx
  <2>1. PICK idx \in H : /\ e.last_seq = Wire(idx)
                         /\ e.pos \in {NoPos} \cup 1 .. idx
                         /\ e.status \in {NoStatus} \cup 1 .. idx
    BY <1>6
  <2>2. idx \in Nat /\ idx <= nw /\ nw - idx < SeqModulus
    BY <2>1 DEF Recent
  <2>3. /\ Seq16Newer(Wire(r), Wire(idx)) => r > idx
        /\ ~Seq16Newer(Wire(r), Wire(idx)) =>
             r - idx < SeqModulus \/ (Wire(r) = Wire(idx) /\ r >= idx)
    BY <2>2, NewerByNumber
  <2>4. CASE Seq16Newer(Wire(r), Wire(idx))
    <3>1. f.last_seq = Wire(r) /\ f.pos \in {e.pos, r} /\ f.status \in {e.status, r} /\ r > idx
      BY <2>1, <2>3, <2>4 DEF Learned
    <3>2. f.pos \in {NoPos} \cup 1 .. r /\ f.status \in {NoStatus} \cup 1 .. r
      BY <2>1, <2>2, <3>1
    <3>3. StandsFor(f, G)
      BY <1>3, <3>1, <3>2 DEF StandsFor
    <3>4. e.pos # NoPos => f.pos >= e.pos
      BY <2>1, <2>2, <3>1
    <3>5. e.status # NoStatus => f.status >= e.status
      BY <2>1, <2>2, <3>1
    <3> QED
      BY <1>3, <3>3, <3>4, <3>5 DEF G
  <2>5. CASE ~Seq16Newer(Wire(r), Wire(idx))
    <3>1. f.pos = e.pos /\ f.status = e.status /\ f.last_seq = e.last_seq
      BY <2>1, <2>5 DEF Learned
    <3>2. /\ e.pos # NoPos => f.pos >= e.pos
          /\ e.status # NoStatus => f.status >= e.status
      BY <2>1, <2>2, <3>1
    <3>3. CASE r - idx < SeqModulus
      <4>1. idx \in G
        BY <1>1, <1>5, <2>1, <2>2, <3>3
      <4> QED
        BY <1>3, <2>1, <3>1, <3>2, <4>1 DEF StandsFor, G
    <3>4. CASE Wire(r) = Wire(idx) /\ r >= idx
      <4>1. f.pos \in {NoPos} \cup 1 .. r /\ f.status \in {NoStatus} \cup 1 .. r
        BY <2>1, <2>2, <3>1, <3>4
      <4>2. StandsFor(f, G)
        BY <1>3, <2>1, <3>1, <3>4, <4>1 DEF StandsFor
      <4> QED
        BY <1>3, <3>2, <4>2 DEF G
    <3> QED
      BY <2>3, <2>5, <3>3, <3>4
  <2> QED
    BY <2>4, <2>5
<1>7. CASE /\ <<e.last_seq, e.pos, e.status>> = <<0, NoPos, NoStatus>>
           /\ \A idx \in H : ~Seq16Newer(Wire(idx), 0)
  <2>1. e.last_seq = 0 /\ e.pos = NoPos /\ e.status = NoStatus
    BY <1>7
  <2>2. CASE Seq16Newer(Wire(r), 0)
    <3>1. f.last_seq = Wire(r) /\ f.pos \in {NoPos, r} /\ f.status \in {NoStatus, r}
      BY <2>1, <2>2 DEF Learned
    <3>2. StandsFor(f, G)
      BY <1>3, <3>1 DEF StandsFor
    <3> QED
      BY <1>3, <2>1, <3>2 DEF G
  <2>3. CASE ~Seq16Newer(Wire(r), 0)
    <3>1. <<f.last_seq, f.pos, f.status>> = <<0, NoPos, NoStatus>>
      BY <2>1, <2>3 DEF Learned
    <3>2. StandsFor(f, G)
      BY <1>4, <1>7, <2>3, <3>1 DEF StandsFor
    <3> QED
      BY <1>3, <2>1, <3>2 DEF G
  <2> QED
    BY <2>2, <2>3
<1> QED
  BY <1>6, <1>7 DEF StandsFor

\* So does the first packet of a node, unless it is dropped: then the entry stays blank.
LEMMA FirstStands ==
  ASSUME NEW f, NEW r \in Nat \ {0}, FirstLearned(f, r)
  PROVE  Recent({r}, r) /\ StandsFor(f, {r})
<1>1. Recent({r}, r)
  BY SizesAssumption DEF Recent
<1>2. CASE f.last_seq = Wire(r) /\ f.pos \in {NoPos, r} /\ f.status \in {NoStatus, r}
  <2>1. f.pos \in {NoPos} \cup 1 .. r /\ f.status \in {NoStatus} \cup 1 .. r
    BY <1>2
  <2>2. \E idx \in {r} : /\ f.last_seq = Wire(idx)
                         /\ f.pos \in {NoPos} \cup 1 .. idx
                         /\ f.status \in {NoStatus} \cup 1 .. idx
    BY <1>2, <2>1, Zenon
  <2> QED
    BY <1>1, <2>2, Zenon DEF StandsFor
<1>3. CASE /\ f.last_seq = 0 /\ f.pos = NoPos /\ f.status = NoStatus
           /\ ~Seq16Newer(Wire(r), 0)
  <2>1. <<f.last_seq, f.pos, f.status>> = <<0, NoPos, NoStatus>>
    BY <1>3
  <2>2. \A idx \in {r} : ~Seq16Newer(Wire(idx), 0)
    BY <1>3
  <2> QED
    BY <1>1, <2>1, <2>2, Zenon DEF StandsFor
<1> QED
  BY <1>1, <1>2, <1>3 DEF FirstLearned, Learned

-------------------------------------------------------------------------------
(* The invariant.                                                          *)

\* A node is in one slot.
LEMMA OneSlot ==
  ASSUME LinkInv, NEW i \in InUse(entries), NEW k \in InUse(entries),
         entries[i].node_id = entries[k].node_id
  PROVE  i = k
<1>1. Struct(entries, size, self_index)
  BY DEF LinkInv, IInv
<1> QED
  BY <1>1 DEF Struct

\* Packet p is within the window of what was heard of its sender.
LEMMA WithinReach ==
  ASSUME LinkInv, NEW p \in air
  PROVE  /\ p.node \in Senders /\ p.idx \in Nat \ {0} /\ newest[p.node] \in Nat
         /\ sent[p.node] \in Nat /\ Close(sent[p.node], p.idx)
         /\ Known(p.node) => /\ p.idx - newest[p.node] < Half \/ p.idx <= newest[p.node]
                             /\ newest[p.node] - p.idx < Half \/ newest[p.node] <= p.idx
<1>1. /\ p.node \in Senders /\ p.idx \in Nat \ {0} /\ newest[p.node] \in Nat
      /\ sent[p.node] \in Nat /\ Close(sent[p.node], p.idx)
  BY LinkAssumption DEF LinkInv, AirInv, Packet
<1>2. Known(p.node) => Close(sent[p.node], newest[p.node])
  BY <1>1 DEF LinkInv, HeardInv
<1> QED
  BY <1>1, <1>2, HalfIsHalf DEF Close

\* Receiving a packet keeps the invariant.
LEMMA ReceiveInv ==
  ASSUME LinkInv, NEW p \in air, Receive(p)
  PROVE  LinkInv'
<1>1. IInv' /\ ((~Known(p.node) /\ UNCHANGED vars) \/ \E x \in Slots : LinkEffect(p, x))
  BY ReceiveLink DEF Receive
<1>2. /\ p.node \in Senders /\ p.idx \in Nat \ {0} /\ newest \in [Senders -> Nat]
      /\ sent \in [Senders -> Nat] /\ Close(sent[p.node], p.idx)
      /\ sent' = sent /\ air' = air /\ heard \in [Senders -> SUBSET Nat]
  BY WithinReach DEF Receive, LinkInv
<1>3. newest' = [n \in Senders |-> IF ~Known(n)' THEN 0
                                   ELSE IF n = p.node THEN Max({newest[n], p.idx})
                                   ELSE newest[n]]
  BY DEF Receive
<1> DEFINE top == IF newest[p.node] >= p.idx THEN newest[p.node] ELSE p.idx
<1>4. top \in Nat /\ Max({newest[p.node], p.idx}) = top
  BY <1>2, MaxOfTwo
<1>5. newest' \in [Senders -> Nat]
  BY <1>2, <1>3, <1>4
<1>6. \A n \in Senders : newest'[n] = IF ~Known(n)' THEN 0
                                      ELSE IF n = p.node THEN top
                                      ELSE newest[n]
  BY <1>3, <1>4
<1>10. \A n \in Senders : heard'[n] = IF ~Known(n)' THEN {}
                                      ELSE IF n = p.node THEN Kept(heard[n], p.idx, top)
                                      ELSE heard[n]
  <2>1. heard' = [n \in Senders |->
                    IF ~Known(n)' THEN {}
                    ELSE IF n = p.node
                         THEN {i \in heard[n] \cup {p.idx} : newest'[n] - i < SeqModulus}
                    ELSE heard[n]]
    BY DEF Receive
  <2> QED
    BY <1>6, <2>1 DEF Kept
<1>11. heard' \in [Senders -> SUBSET Nat]
  <2>1. \A n \in Senders : heard'[n] \in SUBSET Nat
    BY <1>2, <1>10 DEF Kept
  <2>2. heard' = [n \in Senders |-> heard'[n]]
    BY DEF Receive
  <2> QED
    BY <2>1, <2>2
<1> HIDE DEF top
<1>7. ASSUME NEW n \in Senders, Known(n)',
             NEW j \in InUse(entries'), entries'[j].node_id = n
      PROVE  /\ Close(sent[n], newest'[n])
             /\ Recent(heard'[n], newest'[n])
             /\ StandsFor(entries'[j], heard'[n])
  <2>1. CASE Known(n)
    <3>1. PICK i \in InUse(entries) : entries[i].node_id = n
      BY <2>1 DEF Known
    <3>2. /\ StandsFor(entries[i], heard[n]) /\ Recent(heard[n], newest[n])
          /\ Close(sent[n], newest[n])
      BY <2>1, <3>1 DEF LinkInv, HeardInv
    <3>3. IF n = p.node THEN Learned(entries'[j], entries[i], p.idx)
          ELSE SameFacts(entries'[j], entries[i])
      <4>1. CASE ~Known(p.node) /\ UNCHANGED vars
        <5>1. entries' = entries /\ j \in InUse(entries)
          BY <4>1 DEF vars
        <5>2. j = i
          BY <1>7, <3>1, <5>1, OneSlot
        <5> QED
          BY <2>1, <4>1, <5>1, <5>2 DEF SameFacts
      <4>2. CASE \E x \in Slots : LinkEffect(p, x)
        BY <1>2, <1>7, <3>1, <4>2, NodeStays DEF LinkInv, AirInv
      <4> QED
        BY <1>1, <4>1, <4>2
    <3>4. CASE n # p.node
      BY <1>6, <1>7, <1>10, <3>2, <3>3, <3>4 DEF SameFacts, StandsFor
    <3>5. CASE n = p.node
      <4>1. newest'[n] = top /\ heard'[n] = Kept(heard[n], p.idx, top)
        BY <1>6, <1>7, <1>10, <3>5
      <4>2. Close(sent[n], top)
        BY <1>2, <3>2, <3>5 DEF top
      <4>3. /\ Recent(Kept(heard[n], p.idx, top), top)
            /\ StandsFor(entries'[j], Kept(heard[n], p.idx, top))
        <5>1. /\ p.idx - newest[n] < Half \/ p.idx <= newest[n]
              /\ newest[n] - p.idx < Half \/ newest[n] <= p.idx
              /\ newest[n] \in Nat /\ p.idx \in Nat \ {0}
          BY <2>1, <3>5, WithinReach
        <5>2. Learned(entries'[j], entries[i], p.idx)
          BY <3>3, <3>5
        <5>3. top = IF newest[n] >= p.idx THEN newest[n] ELSE p.idx
          BY <3>5 DEF top
        <5> QED
          BY <3>2, <5>1, <5>2, <5>3, LearnedStands
      <4> QED
        BY <4>1, <4>2, <4>3
    <3> QED
      BY <3>4, <3>5
  <2>2. CASE ~Known(n)
    <3>1. ~UNCHANGED vars
      BY <1>7, <2>2 DEF vars, Known
    <3>2. n = p.node /\ FirstLearned(entries'[j], p.idx)
      BY <1>1, <1>2, <1>7, <2>2, <3>1, NodeComes DEF LinkInv, AirInv
    <3>3. newest[n] = 0 /\ heard[n] = {} /\ top = p.idx
      BY <1>2, <2>2, <3>2 DEF LinkInv, HeardInv, top
    <3>4. newest'[n] = p.idx /\ heard'[n] = {p.idx}
      <4>1. newest'[n] = p.idx /\ heard'[n] = Kept({}, p.idx, p.idx)
        BY <1>6, <1>7, <1>10, <3>2, <3>3
      <4>2. Kept({}, p.idx, p.idx) = {k \in {p.idx} : p.idx - k < SeqModulus}
        BY DEF Kept
      <4>3. p.idx - p.idx < SeqModulus
        BY <1>2, SizesAssumption
      <4> QED
        BY <4>1, <4>2, <4>3
    <3> QED
      BY <1>2, <3>2, <3>4, FirstStands
  <2> QED
    BY <2>1, <2>2
<1>8. AirInv'
  BY <1>2 DEF LinkInv, AirInv, Close
<1>9. HeardInv'
  <2>1. \A n \in Senders : ~Known(n)' => newest'[n] = 0 /\ heard'[n] = {}
    BY <1>6, <1>10
  <2>2. \A n \in Senders :
          Known(n)' => Close(sent[n], newest'[n]) /\ Recent(heard'[n], newest'[n])
    BY <1>7 DEF Known
  <2>3. \A n \in Senders : Known(n)' =>
          \A j \in InUse(entries') : entries'[j].node_id = n => StandsFor(entries'[j], heard'[n])
    BY <1>7
  <2> QED
    BY <1>2, <2>1, <2>2, <2>3 DEF HeardInv, Close, Recent, StandsFor, InUse
<1> QED
  BY <1>1, <1>2, <1>5, <1>8, <1>9, <1>11 DEF LinkInv

\* Sending a packet keeps to the window.
LEMMA SendInv ==
  ASSUME LinkInv, NEW n \in Senders, Send(n)
  PROVE  LinkInv'
<1>1. /\ UNCHANGED vars /\ newest' = newest /\ heard' = heard
      /\ sent' = [sent EXCEPT ![n] = sent[n] + 1]
      /\ sent[n] + 1 <= LastIdx[n]
      /\ WithinWindow(n, sent[n] + 1)
  BY DEF Send, history
<1>2. PICK kind \in {"alive", "pos", "status"} :
        air' = air \cup {[node |-> n, idx |-> sent[n] + 1, kind |-> kind]}
  BY DEF Send
<1>3. IInv'
  BY <1>1, NextIInv DEF LinkInv
<1>4. /\ sent' \in [Senders -> Nat] /\ newest' \in [Senders -> Nat] /\ sent[n] \in Nat
      /\ heard' \in [Senders -> SUBSET Nat]
  BY <1>1 DEF LinkInv
<1>5. \A m \in Senders : sent'[m] = IF m = n THEN sent[n] + 1 ELSE sent[m]
  BY <1>1 DEF LinkInv
<1>6. AirInv'
  <2> DEFINE q == [node |-> n, idx |-> sent[n] + 1, kind |-> kind]
  <2>1. /\ q \in Packet /\ q.node = n /\ q.idx = sent[n] + 1
        /\ q.idx \in 1 .. LastIdx[q.node] /\ Close(sent'[q.node], q.idx)
    BY <1>1, <1>4, <1>5, LinkAssumption DEF Packet, Close
  <2> HIDE DEF q
  <2>2. ASSUME NEW p \in air
        PROVE  p \in Packet /\ p.idx \in 1 .. LastIdx[p.node] /\ Close(sent'[p.node], p.idx)
    <3>1. /\ p \in Packet /\ p.node \in Senders /\ p.idx \in Nat
          /\ p.idx \in 1 .. LastIdx[p.node] /\ Close(sent[p.node], p.idx)
      BY DEF LinkInv, AirInv, Packet
    <3>2. p.node = n => (sent[n] + 1) - p.idx < Half
      BY <1>1 DEF WithinWindow
    <3> QED
      BY <1>4, <1>5, <3>1, <3>2 DEF Close
  <2>3. air' = air \cup {q}
    BY <1>2 DEF q
  <2> QED
    BY <2>1, <2>2, <2>3 DEF AirInv, Close
<1>7. HeardInv'
  <2>1. \A m \in Senders : Known(m) => Close(sent'[m], newest[m])
    <3>1. Known(n) => (sent[n] + 1) - newest[n] < Half
      BY <1>1 DEF WithinWindow
    <3> QED
      BY <1>4, <1>5, <3>1 DEF LinkInv, HeardInv, Close
  <2>2. entries' = entries /\ newest' = newest /\ heard' = heard
    BY <1>1 DEF vars
  <2> QED
    BY <2>1, <2>2 DEF LinkInv, HeardInv, Close, Recent, StandsFor, Known, InUse
<1> QED
  BY <1>3, <1>4, <1>6, <1>7 DEF LinkInv

\* Every step keeps the invariant.
LEMMA LinkStep == LinkInv /\ [LinkNext]_linkVars => LinkInv'
<1> SUFFICES ASSUME LinkInv, [LinkNext]_linkVars PROVE LinkInv'
  OBVIOUS
<1>1. ASSUME [Next]_vars, UNCHANGED entries, UNCHANGED <<sent, history>>, air' \subseteq air
      PROVE  LinkInv'
  <2>1. IInv'
    BY <1>1, NextIInv DEF LinkInv
  <2> QED
    BY <1>1, <2>1 DEF LinkInv, AirInv, HeardInv, Close, Recent, StandsFor, Known, InUse, history
<1>2. ASSUME NEW p \in air, Lose(p) PROVE LinkInv'
  BY <1>1, <1>2 DEF Lose, vars
<1>3. CASE LinkTick
  BY <1>1, <1>3 DEF LinkTick, Next, Tick
<1>4. CASE UNCHANGED linkVars
  BY <1>1, <1>4 DEF linkVars, vars
<1> QED
  BY <1>2, <1>3, <1>4, SendInv, ReceiveInv DEF LinkNext

\* The first boot.
LEMMA LinkStart == LinkInit => LinkInv
<1> SUFFICES ASSUME LinkInit PROVE LinkInv
  OBVIOUS
<1>1. IInv
  BY InitIInv DEF LinkInit
<1>2. sent \in [Senders -> Nat]
  <2>1. sent \in [Senders -> UNION Range(FirstIdx)] /\ \A n \in Senders : sent[n] \in FirstIdx[n]
    BY DEF LinkInit
  <2> QED
    BY <2>1, LinkAssumption
<1>3. /\ newest \in [Senders -> Nat] /\ heard \in [Senders -> SUBSET Nat] /\ air = {}
      /\ \A n \in Senders : newest[n] = 0 /\ heard[n] = {}
  BY DEF LinkInit
<1>4. \A n \in Senders : ~Known(n)
  <2>1. entries = BootTable /\ now \in Time
    BY SizesAssumption DEF LinkInit, Init, Time
  <2>2. InUse(entries) = {0} /\ entries[0].node_id = Self
    BY <2>1, BootSound
  <2> QED
    BY <2>2, LinkAssumption DEF Known
<1> QED
  BY <1>1, <1>2, <1>3, <1>4 DEF LinkInv, AirInv, HeardInv

\* The invariant holds of the link for every modulus, however many packets are in the air.
THEOREM LinkInvariant == LinkSpec => []LinkInv
BY LinkStart, LinkStep, PTL DEF LinkSpec

\* The types of the link and of the table at its end.
THEOREM LinkTypeCorrect == LinkSpec => []LinkTypeOK
<1>1. LinkInv => LinkTypeOK
  BY DEF LinkInv, LinkTypeOK, IInv, AirInv, Close
<1> QED
  BY <1>1, LinkInvariant, PTL

\* The 16 bits an entry keeps are those of a packet that was heard, less than a turn of the
\* counter ago and no older than what the entry tells; as long as none was newer than 0, the
\* entry stays blank.
THEOREM NumberIsOfPacketHeard == LinkSpec => []NumberIsOfHeard
<1>1. LinkInv => NumberIsOfHeard
  <2> SUFFICES ASSUME LinkInv, NEW n \in Senders, Known(n)
               PROVE  StandsFor(Entry(n), heard[n])
    BY DEF NumberIsOfHeard, StandsFor
  <2>1. FindEntryIndex(n) \in InUse(entries) /\ entries[FindEntryIndex(n)].node_id = n
    BY FindKnown, NodesAssumption DEF LinkInv
  <2> QED
    BY <2>1 DEF LinkInv, HeardInv, Entry
<1> QED
  BY <1>1, LinkInvariant, PTL

\* The slot of a node in the table after a step.
LEMMA FindKnownNext ==
  ASSUME IInv', NEW n \in Nodes, Known(n)'
  PROVE  /\ FindEntryIndex(n)' \in InUse(entries')
         /\ entries'[FindEntryIndex(n)'].node_id = n
<1>1. PICK i \in InUse(entries') : entries'[i].node_id = n
  BY DEF Known
<1>2. \A j \in InUse(entries') : entries'[j].node_id = n => j = i
  BY <1>1 DEF IInv, Struct
<1>3. i \in Int
  BY <1>1, SizesAssumption DEF InUse, Slots
<1>4. /\ entries'[i].node_id = n
      /\ \A j \in InUse(entries') : entries'[j].node_id = n => i <= j
  BY <1>1, <1>2, <1>3
<1> QED
  BY <1>1, <1>4, Zenon DEF FindEntryIndex

\* No position and no status is ever replaced by an older one.
THEOREM NoOlderSample == LinkSpec => SamplesNeverRegress
<1> DEFINE A == \A n \in Senders : (Known(n) /\ Known(n)') =>
                  LET e == Entry(n)
                      f == Entry(n)'
                  IN  /\ e.pos # NoPos => f.pos >= e.pos
                      /\ e.status # NoStatus => f.status >= e.status
<1>1. LinkInv /\ LinkInv' /\ [LinkNext]_linkVars => [A]_linkVars
  <2> SUFFICES ASSUME LinkInv, LinkInv', LinkNext,
                      NEW n \in Senders, Known(n), Known(n)'
               PROVE  /\ Entry(n).pos # NoPos => Entry(n)'.pos >= Entry(n).pos
                      /\ Entry(n).status # NoStatus => Entry(n)'.status >= Entry(n).status
    OBVIOUS
  <2>1. PICK i \in InUse(entries) : entries[i].node_id = n /\ Entry(n) = entries[i]
    BY FindKnown, NodesAssumption DEF LinkInv, Entry
  <2>2. PICK j \in InUse(entries') : entries'[j].node_id = n /\ Entry(n)' = entries'[j]
    BY FindKnownNext, NodesAssumption DEF LinkInv, Entry
  <2>3. StandsFor(entries[i], heard[n]) /\ Recent(heard[n], newest[n])
    BY <2>1 DEF LinkInv, HeardInv
  <2>4. CASE SameFacts(entries'[j], entries[i])
    <3>1. /\ entries[i].pos \in {NoPos} \cup Nat
          /\ entries[i].status \in {NoStatus} \cup Nat
      BY <2>3 DEF StandsFor, Recent
    <3> QED
      BY <2>1, <2>2, <2>4, <3>1 DEF SameFacts
  <2>5. CASE entries' = entries
    <3>1. j \in InUse(entries) /\ entries[j].node_id = n
      BY <2>2, <2>5
    <3>2. j = i
      BY <2>1, <3>1, OneSlot
    <3> QED
      BY <2>4, <2>5, <3>2 DEF SameFacts
  <2>6. ASSUME NEW p \in air, Receive(p)
        PROVE  /\ Entry(n).pos # NoPos => Entry(n)'.pos >= Entry(n).pos
               /\ Entry(n).status # NoStatus => Entry(n)'.status >= Entry(n).status
    <3>1. UNCHANGED vars \/ \E x \in Slots : LinkEffect(p, x)
      BY <2>6, ReceiveLink DEF Receive
    <3>2. CASE UNCHANGED vars
      BY <2>5, <3>2 DEF vars
    <3>3. CASE \E x \in Slots : LinkEffect(p, x)
      <4>1. IF n = p.node THEN Learned(entries'[j], entries[i], p.idx)
            ELSE SameFacts(entries'[j], entries[i])
        BY <2>1, <2>2, <3>3, NodeStays DEF LinkInv, AirInv
      <4>2. CASE n = p.node
        <5>1. /\ p.idx - newest[n] < Half \/ p.idx <= newest[n]
              /\ newest[n] - p.idx < Half \/ newest[n] <= p.idx
              /\ newest[n] \in Nat /\ p.idx \in Nat \ {0}
          BY <4>2, WithinReach
        <5>2. Learned(entries'[j], entries[i], p.idx)
          BY <4>1, <4>2
        <5>3. /\ entries[i].pos # NoPos => entries'[j].pos >= entries[i].pos
              /\ entries[i].status # NoStatus => entries'[j].status >= entries[i].status
          BY <2>3, <5>1, <5>2, LearnedStands
        <5> QED
          BY <2>1, <2>2, <5>3
      <4> QED
        BY <2>4, <4>1, <4>2
    <3> QED
      BY <3>1, <3>2, <3>3
  <2> QED
    BY <2>5, <2>6 DEF LinkNext, Send, Lose, LinkTick, Tick, vars, history
<1> QED
  BY <1>1, LinkInvariant, PTL DEF LinkSpec, SamplesNeverRegress

================================================================================
