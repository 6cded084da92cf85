------------------------------- MODULE NodeTable -------------------------------
(***************************************************************************)
(* The table of known nodes that every Naviga device keeps in RAM          *)
(* (firmware/src/domain/node_table.cpp): one entry for the device itself   *)
(* and one for each remote node heard over the radio.                      *)
(*                                                                         *)
(* A step is one call of a public operation, made from the single firmware *)
(* loop, or the passing of TickS seconds.  Radio input is any decodable    *)
(* frame of any node, in any order and any number of times: the operations *)
(* do not assume a well-behaved sender.                                    *)
(*                                                                         *)
(* Left out: link metrics (rssi, snr), which follow last_seen; the fields  *)
(* last_core_seq16 and has_core_seq16, which nothing reads.  A node_id     *)
(* stands for itself, coordinates for a member of Positions, the telemetry *)
(* of a Node_Status packet for a member of Statuses.                       *)
(***************************************************************************)
EXTENDS Integers, FiniteSets

CONSTANTS
  Nodes,            \* node identities
  Self,             \* the identity of this device
  Senders,          \* the nodes whose frames reach this device, Self among them
                    \* if it can hear a frame with its own identity
  ShortId,          \* compute_short_id, as a function on Nodes
  MaxNodes,         \* kMaxNodes, 100 in the firmware
  SeqModulus,       \* 2^16: seq16 is counted modulo SeqModulus
  TimeMod,          \* the millisecond clock wraps after TimeMod ticks
  TickS,            \* seconds in one tick of the clock
  ExpectedInterval, \* expected_interval_s_, in seconds
  Positions, NoPos,       \* decoded positions; pos_valid = false
  Statuses, NoStatus,     \* decoded telemetry; every has_... flag false
  Names, NoName,          \* node names; the empty name
  Empty                   \* a slot whose in_use is false

ASSUME NodesAssumption ==
  /\ Self \in Nodes
  /\ Senders \subseteq Nodes
  /\ ShortId \in [Nodes -> Nat]

ASSUME SizesAssumption ==
  /\ MaxNodes \in Nat \ {0}
  /\ SeqModulus \in Nat \ {0}
  /\ TimeMod \in Nat \ {0}
  /\ TickS \in Nat \ {0}
  /\ ExpectedInterval \in Nat

ASSUME SentinelsAssumption ==
  /\ NoPos \notin Positions
  /\ NoStatus \notin Statuses
  /\ NoName \notin Names

VARIABLES
  entries,     \* entries_: slot -> entry, or Empty
  size,        \* size_
  self_index,  \* self_index_, -1 when there is no self entry
  dirty,       \* dirty_: changed since the last snapshot was saved
  now          \* uptime as the callers pass it, in ticks, modulo TimeMod

vars == <<entries, size, self_index, dirty, now>>

Slots == 0 .. MaxNodes - 1
Seq16 == 0 .. SeqModulus - 1
Time  == 0 .. TimeMod - 1

NodeEntry ==
  [node_id : Nodes, is_self : BOOLEAN, short_id_collision : BOOLEAN,
   node_name : Names \cup {NoName}, pos : Positions \cup {NoPos},
   status : Statuses \cup {NoStatus}, last_seq : Seq16, last_seen : Time]

ASSUME EmptyAssumption == Empty \notin NodeEntry

Table == [Slots -> NodeEntry \cup {Empty}]

TypeOK ==
  /\ entries \in Table
  /\ size \in 0 .. MaxNodes
  /\ self_index \in Slots \cup {-1}
  /\ dirty \in BOOLEAN
  /\ now \in Time

-------------------------------------------------------------------------------
(* Sequence numbers and staleness.                                         *)

\* Mutant: numbers compared without their wrap.
Seq16NewerUnwrapped(incoming, last) == incoming > last

\* Mutant: whatever is not a duplicate counts as newer.
Seq16NotDuplicate(incoming, last) == incoming # last

\* seq16_order(incoming, last) = Newer.  Same and Older are told apart by the
\* code and then handled alike.
Seq16Newer(incoming, last) ==
  (incoming - last) % SeqModulus \in 1 .. SeqModulus \div 2 - 1

\* compute_grace_s: a quarter of the interval, rounded, at least two seconds.
GraceS ==
  LET rounded == (ExpectedInterval * 25 + 50) \div 100
  IN  IF rounded < 2 THEN 2 ELSE rounded

\* Age of an entry: a clock reading below last_seen counts as age zero.
AgeS(e) == IF now >= e.last_seen THEN (now - e.last_seen) * TickS ELSE 0

IsGrey(e) == ExpectedInterval # 0 /\ AgeS(e) > ExpectedInterval + GraceS

-------------------------------------------------------------------------------
(* Slots.                                                                  *)

InUse(t) == {i \in Slots : t[i] # Empty}

\* Mutant: an entry that has gone stale is not found again.
KnownIfFresh(n) ==
  \E i \in InUse(entries) : entries[i].node_id = n /\ ~IsGrey(entries[i])

Known(n) == \E i \in InUse(entries) : entries[i].node_id = n

\* find_entry_index, for a known node: the first slot that holds it.
FindEntryIndex(n) ==
  CHOOSE i \in InUse(entries) :
    /\ entries[i].node_id = n
    /\ \A j \in InUse(entries) : entries[j].node_id = n => i <= j

FreeSlots == Slots \ InUse(entries)

\* Mutant: eviction may take this device's own entry.
EvictableWithSelf == {i \in InUse(entries) : IsGrey(entries[i])}

\* The entries evict_oldest_grey may remove.
Evictable == {i \in InUse(entries) : ~entries[i].is_self /\ IsGrey(entries[i])}

\* Whether a new node can be stored: a free slot, or one that can be emptied.
HasRoom == FreeSlots # {} \/ Evictable # {}

\* Mutants: the search for a free slot runs from the wrong end; eviction takes the
\* stale entry that was heard last.
SlotForNewFromTop ==
  LET candidates == IF FreeSlots # {} THEN FreeSlots ELSE Evictable
  IN  CHOOSE i \in candidates : \A j \in candidates : j <= i

SlotForNewEvictsNewest ==
  IF FreeSlots # {}
  THEN CHOOSE i \in FreeSlots : \A j \in FreeSlots : i <= j
  ELSE CHOOSE i \in Evictable :
         \A j \in Evictable : entries[i].last_seen >= entries[j].last_seen

\* The slot a new node goes to: find_free_index, after evict_oldest_grey when the
\* table is full (the slot just emptied is then the only free one).
SlotForNew ==
  IF FreeSlots # {}
  THEN CHOOSE i \in FreeSlots : \A j \in FreeSlots : i <= j
  ELSE CHOOSE i \in Evictable :
         \A j \in Evictable :
           \/ entries[i].last_seen < entries[j].last_seen
           \/ entries[i].last_seen = entries[j].last_seen /\ i <= j

\* Mutant: a flag once raised is never taken back.
RecomputeCollisionsSticky(t) ==
  [i \in Slots |->
     IF t[i] = Empty THEN Empty
     ELSE [t[i] EXCEPT !.short_id_collision =
             @ \/ \E j \in InUse(t) \ {i} :
                    ShortId[t[j].node_id] = ShortId[t[i].node_id]]]

\* recompute_collisions: flag every entry that shares its short id with another.
RecomputeCollisions(t) ==
  [i \in Slots |->
     IF t[i] = Empty THEN Empty
     ELSE [t[i] EXCEPT !.short_id_collision =
             \E j \in InUse(t) \ {i} :
               ShortId[t[j].node_id] = ShortId[t[i].node_id]]]

NewEntry(n, self) ==
  [node_id |-> n, is_self |-> self, short_id_collision |-> FALSE,
   node_name |-> NoName, pos |-> NoPos, status |-> NoStatus,
   last_seq |-> 0, last_seen |-> now]

\* The table with the entry of a new node added.
TableWith(e) == RecomputeCollisions([entries EXCEPT ![SlotForNew] = e])

\* Mutant: the entry an eviction removes is still counted.
SizeWithoutEviction == size + 1

SizeWith == IF FreeSlots # {} THEN size + 1 ELSE size

-------------------------------------------------------------------------------
(* Operations.                                                             *)

\* The table after init_self.  The firmware calls it once, at boot, on a table with
\* every slot free, so that none of its eviction branches is reached.
BootTable ==
  RecomputeCollisions(
    [i \in Slots |-> IF i = 0 THEN [NewEntry(Self, TRUE) EXCEPT !.last_seen = 0]
                     ELSE Empty])

Init ==
  /\ now = 0
  /\ entries = BootTable
  /\ size = 1
  /\ self_index = 0
  /\ dirty = TRUE

\* Mutants: upsert_remote takes over the position and the number of any frame; a
\* frame without position erases it; an old frame moves the number back.
UpsertRemoteAs(n, pos, seq, NextEntry(_)) ==
  /\ \/ /\ Known(n)
        /\ entries' = [entries EXCEPT ![FindEntryIndex(n)] =
                         IF @.is_self THEN @ ELSE NextEntry(@)]
        /\ UNCHANGED size
     \/ /\ ~Known(n)
        /\ HasRoom
        /\ entries' = TableWith([NewEntry(n, FALSE) EXCEPT !.pos = pos,
                                                           !.last_seq = seq])
        /\ size' = SizeWith
  /\ dirty' = TRUE
  /\ UNCHANGED <<self_index, now>>

UpsertRemoteUnordered(n, pos, seq) ==
  UpsertRemoteAs(n, pos, seq, LAMBDA e :
    [e EXCEPT !.last_seen = now, !.last_seq = seq,
              !.pos = IF pos = NoPos THEN @ ELSE pos])

UpsertRemoteErasing(n, pos, seq) ==
  UpsertRemoteAs(n, pos, seq, LAMBDA e :
    IF Seq16Newer(seq, e.last_seq)
    THEN [e EXCEPT !.last_seen = now, !.last_seq = seq, !.pos = pos]
    ELSE [e EXCEPT !.last_seen = now])

\* upsert_remote: a frame that may say where the node is (pos = NoPos: it does not).
\* A frame with this device's own identity leaves the entry alone.
UpsertRemote(n, pos, seq) ==
  /\ \/ /\ Known(n)
        /\ LET i == FindEntryIndex(n)
               e == entries[i]
               heard == [e EXCEPT !.last_seen = now]
               accepted == [heard EXCEPT !.last_seq = seq,
                                         !.pos = IF pos = NoPos THEN @ ELSE pos]
           IN  entries' = [entries EXCEPT ![i] =
                             IF e.is_self THEN e
                             ELSE IF Seq16Newer(seq, e.last_seq) THEN accepted
                             ELSE heard]
        /\ UNCHANGED size
     \/ /\ ~Known(n)
        /\ HasRoom
        /\ entries' = TableWith([NewEntry(n, FALSE) EXCEPT !.pos = pos,
                                                           !.last_seq = seq])
        /\ size' = SizeWith
  /\ dirty' = TRUE
  /\ UNCHANGED <<self_index, now>>

\* The find-or-create prologue that apply_pos_full and apply_status share, then
\* Accepted(e) on the entry if the frame is newer than its last_seq.  A new entry
\* starts with last_seq = 0 and goes through the same comparison.
ApplyFrame(n, seq, Accepted(_)) ==
  /\ Known(n) \/ HasRoom
  /\ LET i == IF Known(n) THEN FindEntryIndex(n) ELSE SlotForNew
         t == IF Known(n) THEN entries ELSE TableWith(NewEntry(n, FALSE))
         heard == [t[i] EXCEPT !.last_seen = now]
     IN  entries' = [t EXCEPT ![i] =
                       IF Seq16Newer(seq, t[i].last_seq)
                       THEN [Accepted(heard) EXCEPT !.last_seq = seq]
                       ELSE heard]
  /\ size' = IF Known(n) THEN size ELSE SizeWith
  /\ dirty' = TRUE
  /\ UNCHANGED <<self_index, now>>

ApplyPosFull(n, pos, seq) ==
  ApplyFrame(n, seq, LAMBDA e : [e EXCEPT !.pos = pos])

ApplyStatus(n, status, seq) ==
  ApplyFrame(n, seq, LAMBDA e : [e EXCEPT !.status = status])

\* BeaconLogic::on_rx: the operation each decodable frame type is handed to.  An
\* Alive frame carries no position.
OnRx ==
  \E n \in Senders, seq \in Seq16 :
    \/ UpsertRemote(n, NoPos, seq)
    \/ \E pos \in Positions : ApplyPosFull(n, pos, seq)
    \/ \E status \in Statuses : ApplyStatus(n, status, seq)

\* Mutant: a change of this device's own entry does not mark the table dirty.
UpdateSelfSilently(e) ==
  /\ self_index >= 0
  /\ entries' = [entries EXCEPT ![self_index] = e]
  /\ UNCHANGED <<size, self_index, dirty, now>>

\* What update_self_position, touch_self and set_self_node_name share.
UpdateSelf(e) ==
  /\ self_index >= 0
  /\ entries' = [entries EXCEPT ![self_index] = e]
  /\ dirty' = TRUE
  /\ UNCHANGED <<size, self_index, now>>

UpdateSelfPosition(pos) ==
  UpdateSelf([entries[self_index] EXCEPT !.pos = pos, !.last_seen = now])

TouchSelf == UpdateSelf([entries[self_index] EXCEPT !.last_seen = now])

SetSelfNodeName(name) ==
  UpdateSelf([entries[self_index] EXCEPT !.node_name = name])

\* Time passes; the 32-bit millisecond clock wraps.
Tick ==
  /\ now' = (now + 1) % TimeMod
  /\ UNCHANGED <<entries, size, self_index, dirty>>

Operation ==
  \/ OnRx
  \/ \E pos \in Positions : UpdateSelfPosition(pos)
  \/ TouchSelf
  \/ \E name \in Names \cup {NoName} : SetSelfNodeName(name)

Next == Operation \/ Tick

Spec == Init /\ [][Next]_vars

-------------------------------------------------------------------------------
(* Properties.                                                             *)

\* find_entry_index returns one slot per node: no operation ever stores a node it
\* already holds a second time (node_table.cpp:642), even when a full table makes
\* room for it in the same call.
UniqueIdentity ==
  \A i, j \in InUse(entries) : entries[i].node_id = entries[j].node_id => i = j

\* self_index_ names the one entry flagged is_self, which holds this device's
\* identity; eviction and frames that carry this identity never lose or copy it.
SelfTracked ==
  /\ self_index \in InUse(entries)
  /\ \A i \in InUse(entries) :
       /\ entries[i].is_self <=> i = self_index
       /\ entries[i].is_self <=> entries[i].node_id = Self

\* Occupied slots are the first size_ ones: an evicted slot is refilled by the call
\* that emptied it.  The slot numbers a BLE snapshot keeps (snapshot_indices_)
\* therefore never lead to an empty record.
DenseSlots == InUse(entries) = 0 .. size - 1

\* short_id_collision is raised on exactly the entries that share their short id
\* with another entry, after evictions as after insertions.
CollisionFlagsExact ==
  \A i \in InUse(entries) :
    entries[i].short_id_collision <=>
      \E j \in InUse(entries) \ {i} :
        ShortId[entries[j].node_id] = ShortId[entries[i].node_id]

\* No operation steps back in a node's sequence: what the table says of a node, its
\* own entry excepted, changes only together with a move of last_seq to a newer
\* number, whichever of the three frame types brings it (rx_semantics_v0 section 1).
NoTimeTravel ==
  [][\A i, j \in Slots :
       LET e == entries[i]
           f == entries'[j]
       IN  (e # Empty /\ f # Empty /\ i # self_index /\ e.node_id = f.node_id) =>
             \/ Seq16Newer(f.last_seq, e.last_seq)
             \/ <<f.pos, f.status, f.last_seq>> = <<e.pos, e.status, e.last_seq>>
    ]_vars

\* A frame that does not carry a field never erases it: an Alive frame leaves the
\* position, a position frame the status, and neither renames the node.
NothingErased ==
  [][\A i, j \in Slots :
       LET e == entries[i]
           f == entries'[j]
       IN  (e # Empty /\ f # Empty /\ e.node_id = f.node_id) =>
             /\ f.pos = NoPos => e.pos = NoPos
             /\ f.status = NoStatus => e.status = NoStatus
             /\ f.node_name # e.node_name => i = self_index
    ]_vars

\* A node leaves the table only to make room for another one in a full table, when
\* it is stale, and when no other node has been silent longer; never this device.
EvictsOnlyOldestStale ==
  [][\A i \in InUse(entries) :
       LET e == entries[i]
       IN  (\A j \in InUse(entries') : entries'[j].node_id # e.node_id) =>
             /\ e.node_id # Self
             /\ size = MaxNodes
             /\ AgeS(e) > ExpectedInterval + GraceS
             /\ \A k \in InUse(entries) \ {self_index} : AgeS(entries[k]) <= AgeS(e)
    ]_vars

-------------------------------------------------------------------------------
(* The table implements the directory.                                     *)

NodeIds == {entries[i].node_id : i \in InUse(entries)}

\* What the directory tells of a node, by its entry.
FactOf(e) ==
  [node_name |-> e.node_name, pos |-> e.pos, status |-> e.status,
   last_seq |-> e.last_seq, last_seen |-> e.last_seen]

Directory == INSTANCE NodeDirectory WITH
  directory <- [n \in NodeIds |-> FactOf(entries[FindEntryIndex(n)])],
  StaleTimes <- {s \in Time : ExpectedInterval # 0 /\ s * TickS > ExpectedInterval + GraceS}

\* Slots, eviction and collision flags never show: whatever is read of the table by
\* node identity is what a bounded directory of the latest facts would hold.
ImplementsDirectory == Directory!Spec

================================================================================
