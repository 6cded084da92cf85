---------------------------- MODULE NodeTableProofs ----------------------------
(***************************************************************************)
(* The node table keeps its invariants for every capacity, clock, sequence *)
(* modulus and radio input.                                                *)
(*                                                                         *)
(* Every operation either rewrites one entry and leaves its identity       *)
(* alone, or puts the entry of a new node into a slot.  Struct says what   *)
(* is invariant of a table, its size and its self index; one lemma per     *)
(* kind of change shows that it is kept, and the theorem goes through the  *)
(* operations.                                                             *)
(***************************************************************************)
EXTENDS NodeTable, WellFoundedInduction, TLAPS

\* The four structural invariants, of a table that need not be the current one.
Struct(t, s, k) ==
  /\ \A i, j \in InUse(t) : t[i].node_id = t[j].node_id => i = j
  /\ k \in InUse(t)
  /\ \A i \in InUse(t) : /\ t[i].is_self <=> i = k
                         /\ t[i].is_self <=> t[i].node_id = Self
  /\ InUse(t) = 0 .. s - 1
  /\ \A i \in InUse(t) :
       t[i].short_id_collision <=>
         \E j \in InUse(t) \ {i} : ShortId[t[j].node_id] = ShortId[t[i].node_id]

IInv == TypeOK /\ Struct(entries, size, self_index)

\* Two entries tell the same of a node, however long ago it was heard.
SameFacts(f, e) ==
  /\ f.node_name = e.node_name
  /\ f.pos = e.pos
  /\ f.status = e.status
  /\ f.last_seq = e.last_seq

-------------------------------------------------------------------------------
(* Numbers and slots.                                                      *)

\* A set of natural numbers that is not empty has a least member.
LEMMA LeastNatural ==
  ASSUME NEW S \in SUBSET Nat, S # {}
  PROVE  \E m \in S : \A x \in S : m <= x
<1>1. \E x \in S : \A y \in S : ~ (<<y, x>> \in OpToRel(<, Nat))
  BY NatLessThanWellFounded, WFMin, Zenon
<1>2. \A x \in Nat, y \in Nat : <<y, x>> \in OpToRel(<, Nat) <=> y < x
  BY DEF OpToRel
<1>3. PICK x \in S : \A y \in S : ~ (y < x)
  BY <1>1, <1>2, Zenon
<1>. QED  BY <1>3

\* A blank entry made for a node is an entry.
LEMMA NewEntryType ==
  ASSUME TypeOK, NEW n \in Nodes, NEW b \in BOOLEAN
  PROVE  NewEntry(n, b) \in NodeEntry
BY SizesAssumption DEF TypeOK, NewEntry, NodeEntry, Seq16, Time

\* The slot chosen for a new node: the first free one, which in a dense table is
\* slot number size_, and in a full table the oldest of the evictable ones.
LEMMA SlotForNewChoice ==
  ASSUME TypeOK, Struct(entries, size, self_index), HasRoom
  PROVE  /\ SlotForNew \in Slots
         /\ FreeSlots # {} => SlotForNew = size /\ size < MaxNodes
         /\ FreeSlots = {} =>
              /\ SlotForNew \in Evictable
              /\ \A j \in Evictable :
                   entries[SlotForNew].last_seen <= entries[j].last_seen
<1>1. InUse(entries) = 0 .. size - 1 /\ size \in 0 .. MaxNodes
  BY DEF Struct, TypeOK
<1>2. CASE FreeSlots # {}
  <2>1. FreeSlots = size .. MaxNodes - 1
    BY <1>1, SizesAssumption DEF FreeSlots, Slots
  <2>2. size \in FreeSlots /\ \A j \in FreeSlots : size <= j
    BY <2>1, <1>1, <1>2, SizesAssumption
  <2>3. SlotForNew \in FreeSlots /\ \A j \in FreeSlots : SlotForNew <= j
    BY <1>2, <2>2 DEF SlotForNew
  <2>. QED  BY <2>1, <2>2, <2>3, <1>1, <1>2, SizesAssumption DEF Slots
<1>3. CASE FreeSlots = {}
  <2>1. Evictable # {} /\ Evictable \in SUBSET Slots /\ Slots \in SUBSET Nat
    BY <1>3, SizesAssumption DEF HasRoom, Evictable, InUse, Slots
  <2>2. \A i \in Evictable : entries[i].last_seen \in Nat
    BY SizesAssumption DEF Evictable, InUse, TypeOK, Table, NodeEntry, Time
  <2>. DEFINE Seen == {entries[i].last_seen : i \in Evictable}
  <2>3. PICK m \in Seen : \A x \in Seen : m <= x
    <3>1. Seen \in SUBSET Nat /\ Seen # {}
      BY <2>1, <2>2
    <3>. HIDE DEF Seen
    <3>. QED  BY <3>1, LeastNatural
  <2>. DEFINE Oldest == {i \in Evictable : entries[i].last_seen = m}
  <2>4. PICK o \in Oldest : \A x \in Oldest : o <= x
    <3>1. Oldest \in SUBSET Nat /\ Oldest # {}
      BY <2>1, <2>3
    <3>. HIDE DEF Oldest
    <3>. QED  BY <3>1, LeastNatural
  <2>5. \A j \in Evictable :
          \/ entries[o].last_seen < entries[j].last_seen
          \/ entries[o].last_seen = entries[j].last_seen /\ o <= j
    <3>. SUFFICES ASSUME NEW j \in Evictable
                  PROVE  \/ m < entries[j].last_seen
                         \/ m = entries[j].last_seen /\ o <= j
      BY <2>4
    <3>1. m <= entries[j].last_seen /\ m \in Nat
      BY <2>2, <2>3
    <3>2. m = entries[j].last_seen => o <= j
      BY <2>4
    <3>. QED  BY <3>1, <3>2, <2>2
  <2>6. o \in Evictable
    BY <2>4
  <2>7. /\ SlotForNew \in Evictable
        /\ \A j \in Evictable :
             \/ entries[SlotForNew].last_seen < entries[j].last_seen
             \/ entries[SlotForNew].last_seen = entries[j].last_seen /\ SlotForNew <= j
    BY <1>3, <2>5, <2>6, Zenon DEF SlotForNew
  <2>. QED  BY <1>3, <2>1, <2>2, <2>7
<1>. QED  BY <1>2, <1>3

-------------------------------------------------------------------------------
(* The two kinds of change.                                                *)

\* recompute_collisions rewrites the collision flags and nothing else.
LEMMA RecomputeFacts ==
  ASSUME NEW t \in Table
  PROVE  LET u == RecomputeCollisions(t)
         IN  /\ u \in Table
             /\ InUse(u) = InUse(t)
             /\ \A i \in InUse(t) :
                  /\ u[i] \in NodeEntry
                  /\ u[i].node_id = t[i].node_id
                  /\ u[i].is_self = t[i].is_self
                  /\ SameFacts(u[i], t[i])
                  /\ u[i].last_seen = t[i].last_seen
                  /\ u[i].short_id_collision <=>
                       \E j \in InUse(t) \ {i} :
                         ShortId[t[j].node_id] = ShortId[t[i].node_id]
<1>. DEFINE Shares(i) == \E j \in InUse(t) \ {i} :
                           ShortId[t[j].node_id] = ShortId[t[i].node_id]
            u == RecomputeCollisions(t)
<1>1. \A i \in Slots : u[i] = IF t[i] = Empty THEN Empty
                              ELSE [t[i] EXCEPT !.short_id_collision = Shares(i)]
  BY DEF RecomputeCollisions
<1>2. \A i \in Slots : Shares(i) \in BOOLEAN
  OBVIOUS
<1>3. u = [i \in Slots |-> u[i]]
  BY DEF RecomputeCollisions
<1>. HIDE DEF Shares, u
<1>4. \A i \in InUse(t) :
        /\ u[i] \in NodeEntry
        /\ u[i].node_id = t[i].node_id
        /\ u[i].is_self = t[i].is_self
        /\ SameFacts(u[i], t[i])
        /\ u[i].last_seen = t[i].last_seen
        /\ u[i].short_id_collision = Shares(i)
  <2>. SUFFICES ASSUME NEW i \in InUse(t)
                PROVE  /\ u[i] \in NodeEntry
                       /\ u[i].node_id = t[i].node_id
                       /\ u[i].is_self = t[i].is_self
                       /\ SameFacts(u[i], t[i])
                       /\ u[i].last_seen = t[i].last_seen
                       /\ u[i].short_id_collision = Shares(i)
    OBVIOUS
  <2>1. t[i] \in NodeEntry /\ t[i] # Empty /\ i \in Slots
    BY DEF InUse, Table
  <2>2. u[i] = [t[i] EXCEPT !.short_id_collision = Shares(i)]
    BY <1>1, <2>1
  <2>3. Shares(i) \in BOOLEAN
    BY <1>2, <2>1
  <2>4. u[i] \in NodeEntry
    BY <2>1, <2>2, <2>3 DEF NodeEntry
  <2>5. /\ u[i].node_id = t[i].node_id
        /\ u[i].is_self = t[i].is_self
        /\ SameFacts(u[i], t[i])
        /\ u[i].last_seen = t[i].last_seen
    BY <2>1, <2>2 DEF NodeEntry, SameFacts
  <2>6. u[i].short_id_collision = Shares(i)
    BY <2>1, <2>2 DEF NodeEntry
  <2>. QED  BY <2>4, <2>5, <2>6
<1>5. u \in Table
  BY <1>1, <1>3, <1>4 DEF Table, InUse
<1>6. InUse(u) = InUse(t)
  BY <1>1, <1>4, EmptyAssumption DEF InUse
<1>. QED  BY <1>4, <1>5, <1>6 DEF u, Shares

\* Rewriting one entry keeps a table sound if it leaves the entry's identity alone.
LEMMA RewriteKeepsStruct ==
  ASSUME NEW t \in Table, NEW s, NEW k, Struct(t, s, k),
         NEW i \in InUse(t), NEW e \in NodeEntry,
         e.node_id = t[i].node_id,
         e.is_self = t[i].is_self,
         e.short_id_collision = t[i].short_id_collision
  PROVE  /\ [t EXCEPT ![i] = e] \in Table
         /\ Struct([t EXCEPT ![i] = e], s, k)
<1>. DEFINE u == [t EXCEPT ![i] = e]
<1>1. u \in Table /\ InUse(u) = InUse(t)
  BY EmptyAssumption DEF Table, InUse
<1>2. \A j \in InUse(t) : /\ u[j].node_id = t[j].node_id
                          /\ u[j].is_self = t[j].is_self
                          /\ u[j].short_id_collision = t[j].short_id_collision
  BY DEF Table, InUse
<1>. HIDE DEF u
<1>3. Struct(u, s, k)
  BY <1>1, <1>2 DEF Struct
<1>. QED  BY <1>1, <1>3 DEF u

\* Adding the entry of a node the table does not hold keeps the table sound, and the
\* slot it goes to holds that entry, but for the collision flag.
LEMMA InsertKeepsStruct ==
  ASSUME IInv, HasRoom, NEW n \in Nodes, ~Known(n),
         NEW e \in NodeEntry, e.node_id = n, ~e.is_self
  PROVE  LET t == TableWith(e)
         IN  /\ t \in Table
             /\ SizeWith \in 0 .. MaxNodes
             /\ Struct(t, SizeWith, self_index)
             /\ SlotForNew \in InUse(t)
             /\ t[SlotForNew] \in NodeEntry
             /\ t[SlotForNew].node_id = n
             /\ SameFacts(t[SlotForNew], e)
             /\ t[SlotForNew].last_seen = e.last_seen
             /\ \A i \in InUse(t) \ {SlotForNew} :
                  /\ i \in InUse(entries)
                  /\ t[i].node_id = entries[i].node_id
                  /\ SameFacts(t[i], entries[i])
                  /\ t[i].last_seen = entries[i].last_seen
             /\ \A i \in InUse(entries) \ {SlotForNew} : i \in InUse(t)
<1>. DEFINE x == SlotForNew
            r == [entries EXCEPT ![x] = e]
            t == TableWith(e)
<1>1. /\ x \in Slots
      /\ FreeSlots # {} => x = size /\ size < MaxNodes
      /\ FreeSlots = {} => x \in Evictable
  BY SlotForNewChoice DEF IInv
<1>2. r \in Table /\ InUse(r) = InUse(entries) \cup {x}
  BY <1>1, EmptyAssumption DEF IInv, TypeOK, Table, InUse
<1>3. /\ r[x] = e
      /\ \A i \in InUse(entries) \ {x} : r[i] = entries[i]
  BY <1>1 DEF IInv, TypeOK, Table, InUse
<1>4. /\ self_index \in InUse(entries) \ {x}
      /\ n # Self
  <2>1. self_index \in InUse(entries) /\ entries[self_index].is_self
    BY DEF IInv, Struct
  <2>2. entries[self_index].node_id = Self
    BY <2>1 DEF IInv, Struct
  <2>3. x # self_index
    <3>1. CASE FreeSlots # {}
      BY <3>1, <1>1, <2>1 DEF IInv, Struct, TypeOK
    <3>2. CASE FreeSlots = {}
      BY <3>2, <1>1, <2>1 DEF Evictable
    <3>. QED  BY <3>1, <3>2
  <2>. QED  BY <2>1, <2>2, <2>3 DEF Known
<1>5. InUse(r) = 0 .. SizeWith - 1 /\ SizeWith \in 0 .. MaxNodes
  <2>1. InUse(entries) = 0 .. size - 1 /\ size \in 0 .. MaxNodes
    BY DEF IInv, Struct, TypeOK
  <2>2. CASE FreeSlots # {}
    <3>1. InUse(r) = (0 .. size - 1) \cup {size} /\ size < MaxNodes
      BY <2>1, <2>2, <1>1, <1>2
    <3>2. (0 .. size - 1) \cup {size} = 0 .. (size + 1) - 1
      BY <2>1
    <3>3. SizeWith = size + 1
      BY <2>2 DEF SizeWith
    <3>. HIDE DEF r
    <3>. QED  BY <3>1, <3>2, <3>3, <2>1, SizesAssumption
  <2>3. CASE FreeSlots = {}
    <3>1. x \in InUse(entries)
      BY <2>3, <1>1 DEF Evictable
    <3>. QED  BY <3>1, <2>1, <2>3, <1>2, SizesAssumption DEF SizeWith
  <2>. QED  BY <2>2, <2>3
<1>6. \A i, j \in InUse(r) : r[i].node_id = r[j].node_id => i = j
  <2>1. \A i \in InUse(entries) : entries[i].node_id # n
    BY DEF Known
  <2>2. \A i, j \in InUse(entries) : entries[i].node_id = entries[j].node_id => i = j
    BY DEF IInv, Struct
  <2>. HIDE DEF r, x
  <2>. QED  BY <1>2, <1>3, <2>1, <2>2
<1>7. \A i \in InUse(r) : /\ r[i].is_self <=> i = self_index
                          /\ r[i].is_self <=> r[i].node_id = Self
  <2>1. \A i \in InUse(entries) :
          /\ entries[i].is_self <=> i = self_index
          /\ entries[i].is_self <=> entries[i].node_id = Self
    BY DEF IInv, Struct
  <2>. HIDE DEF r, x
  <2>. QED  BY <1>2, <1>3, <1>4, <2>1
<1>8. t = RecomputeCollisions(r)
  BY DEF TableWith
<1>. HIDE DEF r, t, x
<1>9. /\ t \in Table
      /\ InUse(t) = InUse(r)
      /\ \A i \in InUse(r) :
           /\ t[i] \in NodeEntry
           /\ t[i].node_id = r[i].node_id
           /\ t[i].is_self = r[i].is_self
           /\ SameFacts(t[i], r[i])
           /\ t[i].last_seen = r[i].last_seen
           /\ t[i].short_id_collision <=>
                \E j \in InUse(r) \ {i} : ShortId[r[j].node_id] = ShortId[r[i].node_id]
  BY <1>2, <1>8, RecomputeFacts
<1>10. Struct(t, SizeWith, self_index)
  BY <1>2, <1>4, <1>5, <1>6, <1>7, <1>9 DEF Struct
<1>. QED  BY <1>2, <1>3, <1>5, <1>9, <1>10 DEF t, x

-------------------------------------------------------------------------------
(* The operations.                                                         *)

\* find_entry_index finds the entry of a known node.
LEMMA FindKnown ==
  ASSUME IInv, NEW n \in Nodes, Known(n)
  PROVE  /\ FindEntryIndex(n) \in InUse(entries)
         /\ entries[FindEntryIndex(n)].node_id = n
<1>1. PICK i \in InUse(entries) : entries[i].node_id = n
  BY DEF Known
<1>2. \A j \in InUse(entries) : entries[j].node_id = n => j = i
  BY <1>1 DEF IInv, Struct
<1>3. i \in Int
  BY <1>1, SizesAssumption DEF InUse, Slots
<1>4. /\ entries[i].node_id = n
      /\ \A j \in InUse(entries) : entries[j].node_id = n => i <= j
  BY <1>1, <1>2, <1>3
<1>. QED  BY <1>1, <1>4, Zenon DEF FindEntryIndex

\* What a frame of node n finds: its entry, in a sound table that differs from the
\* current one at most in that entry (the entry evicted for it, if it is new).
LEMMA FindOrCreate ==
  ASSUME IInv, NEW n \in Nodes, Known(n) \/ HasRoom
  PROVE  LET i == IF Known(n) THEN FindEntryIndex(n) ELSE SlotForNew
             t == IF Known(n) THEN entries ELSE TableWith(NewEntry(n, FALSE))
             s == IF Known(n) THEN size ELSE SizeWith
         IN  /\ t \in Table
             /\ s \in 0 .. MaxNodes
             /\ Struct(t, s, self_index)
             /\ i \in InUse(t)
             /\ t[i] \in NodeEntry
             /\ t[i].node_id = n
<1>1. CASE Known(n)
  BY <1>1, FindKnown DEF IInv, TypeOK, InUse, Table
<1>2. CASE ~Known(n)
  <2>. DEFINE e == NewEntry(n, FALSE)
  <2>1. e \in NodeEntry /\ e.node_id = n /\ ~e.is_self
    BY NewEntryType DEF IInv, NewEntry
  <2>. HIDE DEF e
  <2>2. /\ TableWith(e) \in Table
        /\ SizeWith \in 0 .. MaxNodes
        /\ Struct(TableWith(e), SizeWith, self_index)
        /\ SlotForNew \in InUse(TableWith(e))
        /\ TableWith(e)[SlotForNew] \in NodeEntry
        /\ TableWith(e)[SlotForNew].node_id = n
    BY <1>2, <2>1, InsertKeepsStruct
  <2>. QED  BY <1>2, <2>2 DEF e
<1>. QED  BY <1>1, <1>2

\* The table after init_self is sound.
LEMMA BootSound ==
  ASSUME now \in Time
  PROVE  /\ BootTable \in Table
         /\ Struct(BootTable, 1, 0)
         /\ InUse(BootTable) = {0}
         /\ BootTable[0].node_id = Self
         /\ SameFacts(BootTable[0], NewEntry(Self, TRUE))
         /\ BootTable[0].last_seen = 0
<1>. DEFINE e == [NewEntry(Self, TRUE) EXCEPT !.last_seen = 0]
            t == [i \in Slots |-> IF i = 0 THEN e ELSE Empty]
<1>1. /\ e \in NodeEntry /\ e.node_id = Self /\ e.is_self = TRUE
      /\ SameFacts(e, NewEntry(Self, TRUE)) /\ e.last_seen = 0
  <2>1. 0 \in Time /\ 0 \in Seq16
    BY SizesAssumption DEF Time, Seq16
  <2>2. NewEntry(Self, TRUE) \in NodeEntry
    BY <2>1, NodesAssumption DEF NewEntry, NodeEntry
  <2>3. /\ e.node_id = Self /\ e.is_self = TRUE
        /\ SameFacts(e, NewEntry(Self, TRUE)) /\ e.last_seen = 0
    BY DEF NewEntry, SameFacts
  <2>. QED  BY <2>1, <2>2, <2>3 DEF NodeEntry
<1>2. BootTable = RecomputeCollisions(t)
  BY DEF BootTable
<1>. HIDE DEF e
<1>3. t \in Table /\ InUse(t) = {0} /\ t[0] = e
  BY <1>1, SizesAssumption, EmptyAssumption DEF Table, InUse, Slots
<1>. HIDE DEF t
<1>4. /\ BootTable \in Table
      /\ InUse(BootTable) = {0}
      /\ BootTable[0].node_id = Self
      /\ BootTable[0].is_self = TRUE
      /\ BootTable[0].short_id_collision <=>
           \E j \in {0} \ {0} : ShortId[t[j].node_id] = ShortId[t[0].node_id]
      /\ SameFacts(BootTable[0], t[0])
      /\ BootTable[0].last_seen = t[0].last_seen
  BY <1>1, <1>2, <1>3, RecomputeFacts
<1>5. Struct(BootTable, 1, 0)
  BY <1>4 DEF Struct
<1>6. SameFacts(BootTable[0], NewEntry(Self, TRUE)) /\ BootTable[0].last_seen = 0
  BY <1>1, <1>3, <1>4 DEF SameFacts
<1>. QED  BY <1>4, <1>5, <1>6

\* The boot establishes the invariant.
LEMMA InitIInv == Init => IInv
<1>. SUFFICES ASSUME Init PROVE IInv
  OBVIOUS
<1>1. /\ entries = BootTable /\ size = 1 /\ self_index = 0 /\ dirty = TRUE /\ now = 0
      /\ now \in Time
  BY SizesAssumption DEF Init, Time
<1>2. entries \in Table /\ Struct(entries, size, self_index)
  BY <1>1, BootSound
<1>3. TypeOK
  BY <1>1, <1>2, SizesAssumption DEF TypeOK, Slots
<1>. QED  BY <1>2, <1>3 DEF IInv

\* upsert_remote keeps the invariant.
LEMMA UpsertRemoteIInv ==
  ASSUME IInv, NEW n \in Nodes, NEW pos \in Positions \cup {NoPos}, NEW seq \in Seq16,
         UpsertRemote(n, pos, seq)
  PROVE  IInv'
<1>1. dirty' = TRUE /\ self_index' = self_index /\ now' = now
  BY DEF UpsertRemote
<1>2. /\ entries' \in Table
      /\ size' \in 0 .. MaxNodes
      /\ Struct(entries', size', self_index)
  <2>1. CASE Known(n)
    <3>. DEFINE i == FindEntryIndex(n)
                heard == [entries[i] EXCEPT !.last_seen = now]
                accepted == [heard EXCEPT !.last_seq = seq,
                                          !.pos = IF pos = NoPos THEN @ ELSE pos]
                e == IF entries[i].is_self THEN entries[i]
                     ELSE IF Seq16Newer(seq, entries[i].last_seq) THEN accepted
                     ELSE heard
    <3>1. i \in InUse(entries) /\ entries[i] \in NodeEntry
      BY <2>1, FindKnown DEF IInv, TypeOK, Table, InUse
    <3>2. entries' = [entries EXCEPT ![i] = e] /\ size' = size
      BY <2>1 DEF UpsertRemote
    <3>3. now \in Time /\ entries \in Table /\ size \in 0 .. MaxNodes
      BY DEF IInv, TypeOK
    <3>. HIDE DEF i
    <3>4. heard \in NodeEntry /\ accepted \in NodeEntry
      BY <3>1, <3>3 DEF NodeEntry
    <3>5. /\ e \in NodeEntry
          /\ e.node_id = entries[i].node_id
          /\ e.is_self = entries[i].is_self
          /\ e.short_id_collision = entries[i].short_id_collision
      BY <3>1, <3>4 DEF NodeEntry
    <3>. HIDE DEF e
    <3>. QED  BY <3>1, <3>2, <3>3, <3>5, RewriteKeepsStruct DEF IInv
  <2>2. CASE ~Known(n)
    <3>. DEFINE e == [NewEntry(n, FALSE) EXCEPT !.pos = pos, !.last_seq = seq]
    <3>1. HasRoom /\ entries' = TableWith(e) /\ size' = SizeWith
      BY <2>2 DEF UpsertRemote
    <3>2. NewEntry(n, FALSE) \in NodeEntry
      BY NewEntryType DEF IInv
    <3>3. e \in NodeEntry /\ e.node_id = n /\ ~e.is_self
      BY <3>2 DEF NodeEntry, NewEntry
    <3>. HIDE DEF e
    <3>. QED  BY <2>2, <3>1, <3>3, InsertKeepsStruct
  <2>. QED  BY <2>1, <2>2
<1>. QED  BY <1>1, <1>2 DEF IInv, TypeOK, Struct, InUse

\* apply_pos_full and apply_status keep the invariant: what they write into the
\* entry they found or created leaves its identity alone.
LEMMA ApplyFrameIInv ==
  ASSUME IInv, NEW n \in Nodes, Known(n) \/ HasRoom,
         NEW e \in NodeEntry, NEW i, NEW t,
         i = IF Known(n) THEN FindEntryIndex(n) ELSE SlotForNew,
         t = IF Known(n) THEN entries ELSE TableWith(NewEntry(n, FALSE)),
         e.node_id = t[i].node_id,
         e.is_self = t[i].is_self,
         e.short_id_collision = t[i].short_id_collision,
         entries' = [t EXCEPT ![i] = e],
         size' = IF Known(n) THEN size ELSE SizeWith,
         dirty' = TRUE, self_index' = self_index, now' = now
  PROVE  IInv'
<1>1. /\ t \in Table
      /\ size' \in 0 .. MaxNodes
      /\ Struct(t, size', self_index)
      /\ i \in InUse(t)
  BY FindOrCreate
<1>2. entries' \in Table /\ Struct(entries', size', self_index)
  BY <1>1, RewriteKeepsStruct
<1>. QED  BY <1>1, <1>2 DEF IInv, TypeOK, Struct, InUse

\* apply_pos_full keeps the invariant: it replaces the position.
LEMMA ApplyPosFullIInv ==
  ASSUME IInv, NEW n \in Nodes, NEW pos \in Positions, NEW seq \in Seq16,
         ApplyPosFull(n, pos, seq)
  PROVE  IInv'
<1>. DEFINE i == IF Known(n) THEN FindEntryIndex(n) ELSE SlotForNew
            t == IF Known(n) THEN entries ELSE TableWith(NewEntry(n, FALSE))
            heard == [t[i] EXCEPT !.last_seen = now]
            accepted == [[heard EXCEPT !.pos = pos] EXCEPT !.last_seq = seq]
            e == IF Seq16Newer(seq, t[i].last_seq) THEN accepted ELSE heard
<1>1. Known(n) \/ HasRoom
  BY DEF ApplyPosFull, ApplyFrame
<1>2. /\ entries' = [t EXCEPT ![i] = e]
      /\ size' = IF Known(n) THEN size ELSE SizeWith
      /\ dirty' = TRUE /\ self_index' = self_index /\ now' = now
  BY DEF ApplyPosFull, ApplyFrame
<1>3. t[i] \in NodeEntry /\ now \in Time
  BY <1>1, FindOrCreate DEF IInv, TypeOK
<1>. HIDE DEF i, t
<1>4. heard \in NodeEntry /\ accepted \in NodeEntry
  BY <1>3 DEF NodeEntry
<1>5. /\ e \in NodeEntry
      /\ e.node_id = t[i].node_id
      /\ e.is_self = t[i].is_self
      /\ e.short_id_collision = t[i].short_id_collision
  BY <1>3, <1>4 DEF NodeEntry
<1>. HIDE DEF e
<1>. QED  BY <1>1, <1>2, <1>5, ApplyFrameIInv DEF i, t

\* apply_status keeps the invariant: it replaces the telemetry.
LEMMA ApplyStatusIInv ==
  ASSUME IInv, NEW n \in Nodes, NEW status \in Statuses, NEW seq \in Seq16,
         ApplyStatus(n, status, seq)
  PROVE  IInv'
<1>. DEFINE i == IF Known(n) THEN FindEntryIndex(n) ELSE SlotForNew
            t == IF Known(n) THEN entries ELSE TableWith(NewEntry(n, FALSE))
            heard == [t[i] EXCEPT !.last_seen = now]
            accepted == [[heard EXCEPT !.status = status] EXCEPT !.last_seq = seq]
            e == IF Seq16Newer(seq, t[i].last_seq) THEN accepted ELSE heard
<1>1. Known(n) \/ HasRoom
  BY DEF ApplyStatus, ApplyFrame
<1>2. /\ entries' = [t EXCEPT ![i] = e]
      /\ size' = IF Known(n) THEN size ELSE SizeWith
      /\ dirty' = TRUE /\ self_index' = self_index /\ now' = now
  BY DEF ApplyStatus, ApplyFrame
<1>3. t[i] \in NodeEntry /\ now \in Time
  BY <1>1, FindOrCreate DEF IInv, TypeOK
<1>. HIDE DEF i, t
<1>4. heard \in NodeEntry /\ accepted \in NodeEntry
  BY <1>3 DEF NodeEntry
<1>5. /\ e \in NodeEntry
      /\ e.node_id = t[i].node_id
      /\ e.is_self = t[i].is_self
      /\ e.short_id_collision = t[i].short_id_collision
  BY <1>3, <1>4 DEF NodeEntry
<1>. HIDE DEF e
<1>. QED  BY <1>1, <1>2, <1>5, ApplyFrameIInv DEF i, t

\* The three operations on the self entry keep the invariant.
LEMMA UpdateSelfIInv ==
  ASSUME IInv, NEW e \in NodeEntry, UpdateSelf(e),
         e.node_id = entries[self_index].node_id,
         e.is_self = entries[self_index].is_self,
         e.short_id_collision = entries[self_index].short_id_collision
  PROVE  IInv'
<1>1. /\ entries' = [entries EXCEPT ![self_index] = e]
      /\ dirty' = TRUE
      /\ size' = size /\ self_index' = self_index /\ now' = now
  BY DEF UpdateSelf
<1>2. entries \in Table /\ self_index \in InUse(entries)
  BY DEF IInv, TypeOK, Struct
<1>3. entries' \in Table /\ Struct(entries', size, self_index)
  BY <1>1, <1>2, RewriteKeepsStruct DEF IInv
<1>. QED  BY <1>1, <1>3 DEF IInv, TypeOK, Struct, InUse

\* Every step keeps the invariant.
LEMMA NextIInv == IInv /\ [Next]_vars => IInv'
<1>. SUFFICES ASSUME IInv, [Next]_vars PROVE IInv'
  OBVIOUS
<1>1. CASE OnRx
  <2>1. PICK n \in Senders, seq \in Seq16 :
          \/ UpsertRemote(n, NoPos, seq)
          \/ \E pos \in Positions : ApplyPosFull(n, pos, seq)
          \/ \E status \in Statuses : ApplyStatus(n, status, seq)
    BY <1>1 DEF OnRx
  <2>2. n \in Nodes
    BY NodesAssumption
  <2>3. CASE UpsertRemote(n, NoPos, seq)
    BY <2>2, <2>3, UpsertRemoteIInv
  <2>4. CASE \E pos \in Positions : ApplyPosFull(n, pos, seq)
    BY <2>2, <2>4, ApplyPosFullIInv
  <2>5. CASE \E status \in Statuses : ApplyStatus(n, status, seq)
    BY <2>2, <2>5, ApplyStatusIInv
  <2>. QED  BY <2>1, <2>3, <2>4, <2>5
<1>. DEFINE self == entries[self_index]
<1>2. self \in NodeEntry /\ now \in Time
  BY DEF IInv, TypeOK, Table, Struct, InUse
<1>3. CASE \E pos \in Positions : UpdateSelfPosition(pos)
  <2>1. PICK pos \in Positions : UpdateSelfPosition(pos)
    BY <1>3
  <2>. DEFINE e == [self EXCEPT !.pos = pos, !.last_seen = now]
  <2>2. /\ e \in NodeEntry /\ e.node_id = self.node_id /\ e.is_self = self.is_self
        /\ e.short_id_collision = self.short_id_collision
    BY <1>2 DEF NodeEntry
  <2>3. UpdateSelf(e)
    BY <2>1 DEF UpdateSelfPosition
  <2>. HIDE DEF e
  <2>. QED  BY <2>2, <2>3, UpdateSelfIInv
<1>4. CASE TouchSelf
  <2>. DEFINE e == [self EXCEPT !.last_seen = now]
  <2>1. /\ e \in NodeEntry /\ e.node_id = self.node_id /\ e.is_self = self.is_self
        /\ e.short_id_collision = self.short_id_collision
    BY <1>2 DEF NodeEntry
  <2>2. UpdateSelf(e)
    BY <1>4 DEF TouchSelf
  <2>. HIDE DEF e
  <2>. QED  BY <2>1, <2>2, UpdateSelfIInv
<1>5. CASE \E name \in Names \cup {NoName} : SetSelfNodeName(name)
  <2>1. PICK name \in Names \cup {NoName} : SetSelfNodeName(name)
    BY <1>5
  <2>. DEFINE e == [self EXCEPT !.node_name = name]
  <2>2. /\ e \in NodeEntry /\ e.node_id = self.node_id /\ e.is_self = self.is_self
        /\ e.short_id_collision = self.short_id_collision
    BY <1>2 DEF NodeEntry
  <2>3. UpdateSelf(e)
    BY <2>1 DEF SetSelfNodeName
  <2>. HIDE DEF e
  <2>. QED  BY <2>2, <2>3, UpdateSelfIInv
<1>6. CASE Tick
  BY <1>6, SizesAssumption DEF Tick, IInv, TypeOK, Struct, InUse, Time
<1>7. CASE UNCHANGED vars
  BY <1>7 DEF vars, IInv, TypeOK, Struct, InUse
<1>. QED  BY <1>1, <1>3, <1>4, <1>5, <1>6, <1>7 DEF Next, Operation

-------------------------------------------------------------------------------
(* The invariants, in every reachable state.                               *)

\* The strengthened invariant holds, however many slots, nodes and sequence numbers
\* there are and whatever is heard.
THEOREM Invariant == Spec => []IInv
BY InitIInv, NextIInv, PTL DEF Spec

\* Every field of every entry keeps its type; size_ stays within the table.
THEOREM TypeCorrect == Spec => []TypeOK
<1>1. IInv => TypeOK
  BY DEF IInv
<1>. QED  BY <1>1, Invariant, PTL

\* No node is ever stored twice.
THEOREM OneEntryPerNode == Spec => []UniqueIdentity
<1>1. IInv => UniqueIdentity
  BY DEF IInv, Struct, UniqueIdentity
<1>. QED  BY <1>1, Invariant, PTL

\* The self entry is never evicted, copied or given another identity.
THEOREM SelfNeverLost == Spec => []SelfTracked
<1>1. IInv => SelfTracked
  BY DEF IInv, Struct, SelfTracked
<1>. QED  BY <1>1, Invariant, PTL

\* There is never a hole between occupied slots, and size_ counts them.
THEOREM NoHoles == Spec => []DenseSlots
<1>1. IInv => DenseSlots
  BY DEF IInv, Struct, DenseSlots
<1>. QED  BY <1>1, Invariant, PTL

\* The collision flags are exact at all times.
THEOREM CollisionsShown == Spec => []CollisionFlagsExact
<1>1. IInv => CollisionFlagsExact
  BY DEF IInv, Struct, CollisionFlagsExact
<1>. QED  BY <1>1, Invariant, PTL

-------------------------------------------------------------------------------
(* What no single operation may do: step back in a node's sequence, erase  *)
(* what a frame does not carry, or evict any node but the oldest stale     *)
(* one.  Effect(x) is what all the operations have in common: they touch   *)
(* one slot.  Each operation has an effect on some slot, and the three     *)
(* properties follow from an effect on any slot of a sound table.          *)

\* What an operation may make of entry e in slot x when the node stays.
Rewrites(f, e, x) ==
  /\ f.node_id = e.node_id
  /\ f.status = NoStatus => e.status = NoStatus
  /\ f.pos = NoPos => e.pos = NoPos
  /\ f.node_name # e.node_name => x = self_index
  /\ \/ x = self_index
     \/ Seq16Newer(f.last_seq, e.last_seq)
     \/ SameFacts(f, e)

\* Slot x may be given to a node the table did not hold.
GivesAway(x) ==
  \/ x \notin InUse(entries)
  \/ /\ FreeSlots = {}
     /\ x \in Evictable
     /\ \A j \in Evictable : entries[x].last_seen <= entries[j].last_seen

Effect(x) ==
  /\ InUse(entries') = InUse(entries) \cup {x}
  /\ \A j \in InUse(entries) \ {x} :
       /\ entries'[j].node_id = entries[j].node_id
       /\ SameFacts(entries'[j], entries[j])
  /\ \/ x \in InUse(entries) /\ Rewrites(entries'[x], entries[x], x)
     \/ ~Known(entries'[x].node_id) /\ GivesAway(x)

-------------------------------------------------------------------------------
(* The operations touch one slot.                                          *)

\* Rewriting an entry of the current table is an effect on its slot.
LEMMA RewriteEffect ==
  ASSUME IInv, NEW x \in InUse(entries), NEW e \in NodeEntry,
         entries' = [entries EXCEPT ![x] = e],
         Rewrites(e, entries[x], x)
  PROVE  Effect(x)
<1>1. entries \in Table
  BY DEF IInv, TypeOK
<1>2. InUse(entries') = InUse(entries) \cup {x}
  BY <1>1, EmptyAssumption DEF Table, InUse
<1>3. /\ entries'[x] = e
      /\ \A j \in InUse(entries) \ {x} : entries'[j] = entries[j]
  BY <1>1 DEF Table, InUse
<1>. QED  BY <1>2, <1>3 DEF Effect, SameFacts

\* So is storing a new node, whose entry the operation may go on to fill.
LEMMA InsertEffect ==
  ASSUME IInv, HasRoom, NEW n \in Nodes, ~Known(n),
         NEW e \in NodeEntry, e.node_id = n, ~e.is_self,
         NEW f \in NodeEntry, f.node_id = n,
         \/ entries' = TableWith(e)
         \/ entries' = [TableWith(e) EXCEPT ![SlotForNew] = f]
  PROVE  Effect(SlotForNew)
<1>. DEFINE x == SlotForNew
            t == TableWith(e)
<1>1. /\ x \in Slots
      /\ FreeSlots # {} => x = size
      /\ FreeSlots = {} =>
           /\ x \in Evictable
           /\ \A j \in Evictable : entries[x].last_seen <= entries[j].last_seen
  BY SlotForNewChoice DEF IInv
<1>2. /\ t \in Table
      /\ x \in InUse(t)
      /\ t[x].node_id = n
      /\ \A i \in InUse(t) \ {x} :
           /\ i \in InUse(entries)
           /\ t[i].node_id = entries[i].node_id
           /\ SameFacts(t[i], entries[i])
      /\ \A i \in InUse(entries) \ {x} : i \in InUse(t)
  BY InsertKeepsStruct
<1>. HIDE DEF t, x
<1>3. InUse(t) = InUse(entries) \cup {x}
  BY <1>2
<1>4. /\ InUse(entries') = InUse(t)
      /\ entries'[x].node_id = n
      /\ \A j \in InUse(t) \ {x} : entries'[j] = t[j]
  <2>1. CASE entries' = t
    BY <2>1, <1>2
  <2>2. CASE entries' = [t EXCEPT ![x] = f]
    <3>1. InUse(entries') = InUse(t)
      BY <2>2, <1>2, EmptyAssumption DEF InUse, Table
    <3>. QED  BY <3>1, <2>2, <1>2 DEF InUse, Table
  <2>. QED  BY <2>1, <2>2 DEF t, x
<1>5. GivesAway(x)
  <2>1. size \notin InUse(entries)
    BY DEF IInv, Struct, TypeOK
  <2>. QED  BY <1>1, <2>1 DEF GivesAway
<1>6. Effect(x)
  BY <1>2, <1>3, <1>4, <1>5 DEF Effect
<1>. QED  BY <1>6 DEF x

\* upsert_remote touches the slot of the node it is called for.
LEMMA UpsertRemoteEffect ==
  ASSUME IInv, NEW n \in Nodes, NEW pos \in Positions \cup {NoPos}, NEW seq \in Seq16,
         UpsertRemote(n, pos, seq)
  PROVE  \E x \in Slots : Effect(x)
<1>1. CASE Known(n)
  <2>. DEFINE x == FindEntryIndex(n)
              heard == [entries[x] EXCEPT !.last_seen = now]
              accepted == [heard EXCEPT !.last_seq = seq,
                                        !.pos = IF pos = NoPos THEN @ ELSE pos]
              e == IF entries[x].is_self THEN entries[x]
                   ELSE IF Seq16Newer(seq, entries[x].last_seq) THEN accepted
                   ELSE heard
  <2>1. x \in InUse(entries) /\ entries[x] \in NodeEntry /\ now \in Time
    BY <1>1, FindKnown DEF IInv, TypeOK, Table, InUse
  <2>2. entries' = [entries EXCEPT ![x] = e]
    BY <1>1 DEF UpsertRemote
  <2>. HIDE DEF x
  <2>3. /\ heard \in NodeEntry /\ Rewrites(heard, entries[x], x)
        /\ accepted \in NodeEntry
        /\ Seq16Newer(seq, entries[x].last_seq) => Rewrites(accepted, entries[x], x)
        /\ Rewrites(entries[x], entries[x], x)
    BY <2>1 DEF NodeEntry, Rewrites, SameFacts
  <2>4. e \in NodeEntry /\ Rewrites(e, entries[x], x)
    BY <2>1, <2>3
  <2>. HIDE DEF e
  <2>. QED  BY <2>1, <2>2, <2>4, RewriteEffect DEF InUse
<1>2. CASE ~Known(n)
  <2>. DEFINE e == [NewEntry(n, FALSE) EXCEPT !.pos = pos, !.last_seq = seq]
  <2>1. HasRoom /\ entries' = TableWith(e)
    BY <1>2 DEF UpsertRemote
  <2>2. NewEntry(n, FALSE) \in NodeEntry
    BY NewEntryType DEF IInv
  <2>3. e \in NodeEntry /\ e.node_id = n /\ ~e.is_self
    BY <2>2 DEF NodeEntry, NewEntry
  <2>. HIDE DEF e
  <2>. QED  BY <1>2, <2>1, <2>3, InsertEffect, SlotForNewChoice DEF IInv
<1>. QED  BY <1>1, <1>2

\* apply_pos_full and apply_status, with what they make of the entry as parameters.
LEMMA ApplyFrameEffect ==
  ASSUME IInv, NEW n \in Nodes, Known(n) \/ HasRoom,
         NEW e \in NodeEntry, NEW i, NEW t,
         i = IF Known(n) THEN FindEntryIndex(n) ELSE SlotForNew,
         t = IF Known(n) THEN entries ELSE TableWith(NewEntry(n, FALSE)),
         Rewrites(e, t[i], i),
         entries' = [t EXCEPT ![i] = e]
  PROVE  \E x \in Slots : Effect(x)
<1>1. CASE Known(n)
  BY <1>1, FindKnown, RewriteEffect DEF InUse
<1>2. CASE ~Known(n)
  <2>. DEFINE b == NewEntry(n, FALSE)
  <2>1. b \in NodeEntry /\ b.node_id = n /\ ~b.is_self
    BY NewEntryType DEF IInv, NewEntry
  <2>2. t = TableWith(b) /\ i = SlotForNew
    BY <1>2
  <2>. HIDE DEF b
  <2>3. e.node_id = n
    <3>1. TableWith(b)[SlotForNew].node_id = n
      BY <1>2, <2>1, InsertKeepsStruct
    <3>. QED  BY <2>2, <3>1 DEF Rewrites
  <2>. QED  BY <1>2, <2>1, <2>2, <2>3, InsertEffect, SlotForNewChoice DEF IInv
<1>. QED  BY <1>1, <1>2

\* apply_pos_full touches the slot of the node it is called for.
LEMMA ApplyPosFullEffect ==
  ASSUME IInv, NEW n \in Nodes, NEW pos \in Positions, NEW seq \in Seq16,
         ApplyPosFull(n, pos, seq)
  PROVE  \E x \in Slots : Effect(x)
<1>. DEFINE i == IF Known(n) THEN FindEntryIndex(n) ELSE SlotForNew
            t == IF Known(n) THEN entries ELSE TableWith(NewEntry(n, FALSE))
            heard == [t[i] EXCEPT !.last_seen = now]
            accepted == [[heard EXCEPT !.pos = pos] EXCEPT !.last_seq = seq]
            e == IF Seq16Newer(seq, t[i].last_seq) THEN accepted ELSE heard
<1>1. Known(n) \/ HasRoom
  BY DEF ApplyPosFull, ApplyFrame
<1>2. entries' = [t EXCEPT ![i] = e]
  BY DEF ApplyPosFull, ApplyFrame
<1>3. t[i] \in NodeEntry /\ now \in Time
  BY <1>1, FindOrCreate DEF IInv, TypeOK
<1>. HIDE DEF i, t
<1>4. /\ heard \in NodeEntry /\ Rewrites(heard, t[i], i)
      /\ accepted \in NodeEntry
      /\ Seq16Newer(seq, t[i].last_seq) => Rewrites(accepted, t[i], i)
  BY <1>3, SentinelsAssumption DEF NodeEntry, Rewrites, SameFacts
<1>5. e \in NodeEntry /\ Rewrites(e, t[i], i)
  BY <1>4
<1>. HIDE DEF e
<1>. QED  BY <1>1, <1>2, <1>5, ApplyFrameEffect DEF i, t

\* apply_status touches the slot of the node it is called for.
LEMMA ApplyStatusEffect ==
  ASSUME IInv, NEW n \in Nodes, NEW status \in Statuses, NEW seq \in Seq16,
         ApplyStatus(n, status, seq)
  PROVE  \E x \in Slots : Effect(x)
<1>. DEFINE i == IF Known(n) THEN FindEntryIndex(n) ELSE SlotForNew
            t == IF Known(n) THEN entries ELSE TableWith(NewEntry(n, FALSE))
            heard == [t[i] EXCEPT !.last_seen = now]
            accepted == [[heard EXCEPT !.status = status] EXCEPT !.last_seq = seq]
            e == IF Seq16Newer(seq, t[i].last_seq) THEN accepted ELSE heard
<1>1. Known(n) \/ HasRoom
  BY DEF ApplyStatus, ApplyFrame
<1>2. entries' = [t EXCEPT ![i] = e]
  BY DEF ApplyStatus, ApplyFrame
<1>3. t[i] \in NodeEntry /\ now \in Time
  BY <1>1, FindOrCreate DEF IInv, TypeOK
<1>. HIDE DEF i, t
<1>4. /\ heard \in NodeEntry /\ Rewrites(heard, t[i], i)
      /\ accepted \in NodeEntry
      /\ Seq16Newer(seq, t[i].last_seq) => Rewrites(accepted, t[i], i)
  BY <1>3, SentinelsAssumption DEF NodeEntry, Rewrites, SameFacts
<1>5. e \in NodeEntry /\ Rewrites(e, t[i], i)
  BY <1>4
<1>. HIDE DEF e
<1>. QED  BY <1>1, <1>2, <1>5, ApplyFrameEffect DEF i, t

\* The operations on the self entry.
LEMMA UpdateSelfEffect ==
  ASSUME IInv, NEW e \in NodeEntry, UpdateSelf(e),
         e.node_id = entries[self_index].node_id,
         e.status = entries[self_index].status,
         e.pos = NoPos => entries[self_index].pos = NoPos
  PROVE  \E x \in Slots : Effect(x)
<1>1. self_index \in InUse(entries)
  BY DEF IInv, Struct
<1>2. Rewrites(e, entries[self_index], self_index)
  BY DEF Rewrites
<1>. QED  BY <1>1, <1>2, RewriteEffect DEF UpdateSelf, InUse

\* Every step touches one slot or none.
LEMMA NextEffect ==
  ASSUME IInv, [Next]_vars
  PROVE  UNCHANGED <<entries, self_index>> \/ \E x \in Slots : Effect(x)
<1>1. CASE OnRx
  <2>1. PICK n \in Senders, seq \in Seq16 :
          \/ UpsertRemote(n, NoPos, seq)
          \/ \E pos \in Positions : ApplyPosFull(n, pos, seq)
          \/ \E status \in Statuses : ApplyStatus(n, status, seq)
    BY <1>1 DEF OnRx
  <2>2. n \in Nodes
    BY NodesAssumption
  <2>3. CASE UpsertRemote(n, NoPos, seq)
    BY <2>2, <2>3, UpsertRemoteEffect
  <2>4. CASE \E pos \in Positions : ApplyPosFull(n, pos, seq)
    BY <2>2, <2>4, ApplyPosFullEffect
  <2>5. CASE \E status \in Statuses : ApplyStatus(n, status, seq)
    BY <2>2, <2>5, ApplyStatusEffect
  <2>. QED  BY <2>1, <2>3, <2>4, <2>5
<1>. DEFINE self == entries[self_index]
<1>2. self \in NodeEntry /\ now \in Time
  BY DEF IInv, TypeOK, Table, Struct, InUse
<1>3. CASE \E pos \in Positions : UpdateSelfPosition(pos)
  <2>1. PICK pos \in Positions : UpdateSelfPosition(pos)
    BY <1>3
  <2>. DEFINE e == [self EXCEPT !.pos = pos, !.last_seen = now]
  <2>2. /\ e \in NodeEntry /\ e.node_id = self.node_id /\ e.status = self.status
        /\ e.pos # NoPos
    BY <1>2, SentinelsAssumption DEF NodeEntry
  <2>3. UpdateSelf(e)
    BY <2>1 DEF UpdateSelfPosition
  <2>. HIDE DEF e
  <2>. QED  BY <2>2, <2>3, UpdateSelfEffect
<1>4. CASE TouchSelf
  <2>. DEFINE e == [self EXCEPT !.last_seen = now]
  <2>1. /\ e \in NodeEntry /\ e.node_id = self.node_id /\ e.status = self.status
        /\ e.pos = self.pos
    BY <1>2 DEF NodeEntry
  <2>2. UpdateSelf(e)
    BY <1>4 DEF TouchSelf
  <2>. HIDE DEF e
  <2>. QED  BY <2>1, <2>2, UpdateSelfEffect
<1>5. CASE \E name \in Names \cup {NoName} : SetSelfNodeName(name)
  <2>1. PICK name \in Names \cup {NoName} : SetSelfNodeName(name)
    BY <1>5
  <2>. DEFINE e == [self EXCEPT !.node_name = name]
  <2>2. /\ e \in NodeEntry /\ e.node_id = self.node_id /\ e.status = self.status
        /\ e.pos = self.pos
    BY <1>2 DEF NodeEntry
  <2>3. UpdateSelf(e)
    BY <2>1 DEF SetSelfNodeName
  <2>. HIDE DEF e
  <2>. QED  BY <2>2, <2>3, UpdateSelfEffect
<1>6. CASE Tick \/ UNCHANGED vars
  BY <1>6 DEF Tick, vars
<1>. QED  BY <1>1, <1>3, <1>4, <1>5, <1>6 DEF Next, Operation

-------------------------------------------------------------------------------
(* What follows from an effect.                                            *)

\* A node is found in the slot where it was, rewritten or as it was.
LEMMA EffectOnNode ==
  ASSUME IInv, NEW x, Effect(x),
         NEW i \in Slots, NEW j \in Slots,
         entries[i] # Empty, entries'[j] # Empty,
         entries[i].node_id = entries'[j].node_id
  PROVE  /\ i = j
         /\ \/ SameFacts(entries'[j], entries[i])
            \/ Rewrites(entries'[j], entries[i], i)
<1>1. i \in InUse(entries) /\ j \in InUse(entries) \cup {x}
  BY DEF InUse, Effect
<1>2. \A k \in InUse(entries) : entries[k].node_id = entries[i].node_id => k = i
  BY <1>1 DEF IInv, Struct
<1>3. CASE j # x
  BY <1>1, <1>2, <1>3 DEF Effect
<1>4. CASE j = x
  <2>1. Known(entries'[x].node_id)
    BY <1>1, <1>4 DEF Known
  <2>2. x \in InUse(entries) /\ Rewrites(entries'[x], entries[x], x)
    BY <2>1 DEF Effect
  <2>. QED  BY <1>2, <1>4, <2>2 DEF Rewrites
<1>. QED  BY <1>3, <1>4

\* What the table tells of a node changes only with a newer sequence number.
THEOREM SequenceRespected == Spec => NoTimeTravel
<1>. DEFINE A == \A i, j \in Slots :
       LET e == entries[i]
           f == entries'[j]
       IN  (e # Empty /\ f # Empty /\ i # self_index /\ e.node_id = f.node_id) =>
             \/ Seq16Newer(f.last_seq, e.last_seq)
             \/ <<f.pos, f.status, f.last_seq>> = <<e.pos, e.status, e.last_seq>>
<1>1. IInv /\ [Next]_vars => [A]_vars
  <2>. SUFFICES ASSUME IInv, [Next]_vars, entries' # entries PROVE A
    <3>1. ASSUME IInv, entries' = entries PROVE A
      BY <3>1 DEF IInv, Struct, InUse
    <3>. QED  BY <3>1
  <2>1. PICK x \in Slots : Effect(x)
    BY NextEffect
  <2>. SUFFICES ASSUME NEW i \in Slots, NEW j \in Slots,
                       entries[i] # Empty, entries'[j] # Empty, i # self_index,
                       entries[i].node_id = entries'[j].node_id
                PROVE  \/ Seq16Newer(entries'[j].last_seq, entries[i].last_seq)
                       \/ SameFacts(entries'[j], entries[i])
    BY DEF SameFacts
  <2>. QED  BY <2>1, EffectOnNode DEF Rewrites
<1>. QED  BY <1>1, Invariant, PTL DEF Spec, NoTimeTravel

\* No frame erases what it does not carry.
THEOREM FieldsKept == Spec => NothingErased
<1>. DEFINE A == \A i, j \in Slots :
       LET e == entries[i]
           f == entries'[j]
       IN  (e # Empty /\ f # Empty /\ e.node_id = f.node_id) =>
             /\ f.pos = NoPos => e.pos = NoPos
             /\ f.status = NoStatus => e.status = NoStatus
             /\ f.node_name # e.node_name => i = self_index
<1>1. IInv /\ [Next]_vars => [A]_vars
  <2>. SUFFICES ASSUME IInv, [Next]_vars, entries' # entries PROVE A
    <3>1. ASSUME IInv, entries' = entries PROVE A
      BY <3>1 DEF IInv, Struct, InUse
    <3>. QED  BY <3>1
  <2>1. PICK x \in Slots : Effect(x)
    BY NextEffect
  <2>. SUFFICES ASSUME NEW i \in Slots, NEW j \in Slots,
                       entries[i] # Empty, entries'[j] # Empty,
                       entries[i].node_id = entries'[j].node_id
                PROVE  /\ entries'[j].pos = NoPos => entries[i].pos = NoPos
                       /\ entries'[j].status = NoStatus => entries[i].status = NoStatus
                       /\ entries'[j].node_name # entries[i].node_name => i = self_index
    OBVIOUS
  <2>. QED  BY <2>1, EffectOnNode DEF Rewrites, SameFacts
<1>. QED  BY <1>1, Invariant, PTL DEF Spec, NothingErased

\* The oldest of the stale entries has been silent at least as long as any other.
LEMMA OldestIsMostSilent ==
  ASSUME IInv, NEW x \in Evictable,
         \A j \in Evictable : entries[x].last_seen <= entries[j].last_seen
  PROVE  /\ AgeS(entries[x]) > ExpectedInterval + GraceS
         /\ \A k \in InUse(entries) \ {self_index} :
              AgeS(entries[k]) <= AgeS(entries[x])
<1>1. ExpectedInterval # 0 /\ AgeS(entries[x]) > ExpectedInterval + GraceS
  BY DEF Evictable, IsGrey
<1>2. /\ now \in Nat /\ TickS \in Nat
      /\ \A k \in InUse(entries) : entries[k].last_seen \in Nat
  BY SizesAssumption DEF IInv, TypeOK, Table, NodeEntry, InUse, Time
<1>3. x \in InUse(entries)
  BY DEF Evictable
<1>4. GraceS \in Nat /\ ExpectedInterval \in Nat
  BY SizesAssumption DEF GraceS
<1>5. \A k \in InUse(entries) : AgeS(entries[k]) \in Nat
  BY <1>2 DEF AgeS
<1>6. ASSUME NEW k \in InUse(entries), k # self_index
      PROVE  AgeS(entries[k]) <= AgeS(entries[x])
  <2>1. ~entries[k].is_self
    BY <1>6 DEF IInv, Struct
  <2>2. CASE k \in Evictable
    <3>1. entries[x].last_seen <= entries[k].last_seen
      BY <2>2
    <3>2. CASE now < entries[k].last_seen
      BY <3>2, <1>2, <1>3, <1>5 DEF AgeS
    <3>3. CASE now >= entries[k].last_seen
      <4>. DEFINE p == now - entries[k].last_seen
                  q == now - entries[x].last_seen
      <4>1. p \in Nat /\ q \in Nat /\ p <= q
        BY <3>1, <3>3, <1>2, <1>3
      <4>2. AgeS(entries[k]) = p * TickS /\ AgeS(entries[x]) = q * TickS
        BY <3>1, <3>3, <1>2, <1>3 DEF AgeS
      <4>. HIDE DEF p, q
      <4>3. \A u, v, w \in Nat : u <= v => u * w <= v * w
        OBVIOUS
      <4>. QED  BY <4>1, <4>2, <4>3, <1>2
    <3>. QED  BY <3>2, <3>3, <1>2
  <2>3. CASE k \notin Evictable
    <3>1. ~IsGrey(entries[k])
      BY <2>1, <2>3 DEF Evictable
    <3>2. ~(AgeS(entries[k]) > ExpectedInterval + GraceS)
      BY <3>1, <1>1 DEF IsGrey
    <3>. QED  BY <3>2, <1>1, <1>3, <1>4, <1>5
  <2>. QED  BY <2>2, <2>3
<1>. QED  BY <1>1, <1>6

\* Only the oldest stale node is evicted, and only from a full table.
THEOREM EvictionIsFair == Spec => EvictsOnlyOldestStale
<1>. DEFINE A == \A i \in InUse(entries) :
       LET e == entries[i]
       IN  (\A j \in InUse(entries') : entries'[j].node_id # e.node_id) =>
             /\ e.node_id # Self
             /\ size = MaxNodes
             /\ AgeS(e) > ExpectedInterval + GraceS
             /\ \A k \in InUse(entries) \ {self_index} : AgeS(entries[k]) <= AgeS(e)
<1>1. IInv /\ [Next]_vars => [A]_vars
  <2>. SUFFICES ASSUME IInv, [Next]_vars, entries' # entries PROVE A
    <3>1. ASSUME entries' = entries PROVE A
      BY <3>1 DEF InUse
    <3>. QED  BY <3>1
  <2>1. PICK x \in Slots : Effect(x)
    BY NextEffect
  <2>. SUFFICES ASSUME NEW i \in InUse(entries),
                       \A j \in InUse(entries') :
                         entries'[j].node_id # entries[i].node_id
                PROVE  /\ entries[i].node_id # Self
                       /\ size = MaxNodes
                       /\ AgeS(entries[i]) > ExpectedInterval + GraceS
                       /\ \A k \in InUse(entries) \ {self_index} :
                            AgeS(entries[k]) <= AgeS(entries[i])
    OBVIOUS
  <2>2. i \in InUse(entries')
    BY <2>1 DEF Effect
  <2>3. i = x /\ GivesAway(x)
    BY <2>1, <2>2 DEF Effect, Rewrites
  <2>4. /\ FreeSlots = {}
        /\ i \in Evictable
        /\ \A j \in Evictable : entries[i].last_seen <= entries[j].last_seen
    BY <2>3 DEF GivesAway
  <2>5. size = MaxNodes
    BY <2>4, SizesAssumption DEF FreeSlots, Slots, IInv, Struct, TypeOK
  <2>6. entries[i].node_id # Self
    BY <2>4 DEF Evictable, IInv, Struct
  <2>. QED  BY <2>4, <2>5, <2>6, OldestIsMostSilent
<1>. QED  BY <1>1, Invariant, PTL DEF Spec, EvictsOnlyOldestStale

================================================================================
