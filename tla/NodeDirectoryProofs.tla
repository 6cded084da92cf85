-------------------------- MODULE NodeDirectoryProofs --------------------------
(***************************************************************************)
(* The node table implements the directory: whatever is read of it by node *)
(* identity is what a bounded directory of the latest facts would hold.    *)
(*                                                                         *)
(* Told(t) is the directory that table t stands for.  A table in which one *)
(* entry is rewritten stands for a directory with one fact replaced, and a *)
(* table in which a new node takes a slot for one with a node more and,    *)
(* if the slot was taken, one less.  Every operation is one of the two.    *)
(***************************************************************************)
EXTENDS NodeTableProofs, FiniteSetTheorems

Ids(t) == {t[i].node_id : i \in InUse(t)}

OneSlotPerNode(t) == \A i, j \in InUse(t) : t[i].node_id = t[j].node_id => i = j

\* Table u tells what t does of every node but that in slot x.
SameElsewhere(t, u, x) ==
  \A j \in InUse(t) \ {x} :
    u[j].node_id = t[j].node_id /\ FactOf(u[j]) = FactOf(t[j])

\* The first slot that holds node n.
Holder(t, n) ==
  CHOOSE i \in InUse(t) :
    /\ t[i].node_id = n
    /\ \A j \in InUse(t) : t[j].node_id = n => i <= j

Told(t) == [n \in Ids(t) |-> FactOf(t[Holder(t, n)])]

\* The node, if any, whose slot x a table loses.
Displaced(t, x) == {t[j].node_id : j \in InUse(t) \cap {x}}

\* A directory with the fact of a new node, without those that made room for it.
WithNode(d, gone, n, f) ==
  [m \in (DOMAIN d \ gone) \cup {n} |-> IF m # n THEN d[m] ELSE f]

\* The fact of a node just made known.
Fresh(pos, status, seq) == Directory!Fact(NoName, pos, status, seq, now)

-------------------------------------------------------------------------------
(* The directory a table stands for.                                       *)

\* In a table without copies a node is found where it is.
LEMMA HolderIs ==
  ASSUME NEW t, OneSlotPerNode(t), NEW i \in InUse(t)
  PROVE  Holder(t, t[i].node_id) = i
<1>1. i \in Int
  BY SizesAssumption DEF InUse, Slots
<1>2. \A j \in InUse(t) : t[j].node_id = t[i].node_id => j = i
  BY DEF OneSlotPerNode
<1>3. /\ t[i].node_id = t[i].node_id
      /\ \A j \in InUse(t) : t[j].node_id = t[i].node_id => i <= j
  BY <1>1, <1>2
<1>4. /\ Holder(t, t[i].node_id) \in InUse(t)
      /\ t[Holder(t, t[i].node_id)].node_id = t[i].node_id
  BY <1>3, Zenon DEF Holder
<1> QED
  BY <1>2, <1>4

\* What a table tells of the node in a slot.
LEMMA ToldAt ==
  ASSUME NEW t, OneSlotPerNode(t), NEW i \in InUse(t)
  PROVE  t[i].node_id \in Ids(t) /\ Told(t)[t[i].node_id] = FactOf(t[i])
BY HolderIs DEF Told, Ids

\* Entries that tell the same, heard at the same time, have the same fact.
LEMMA SameFact ==
  ASSUME NEW e, NEW f, SameFacts(e, f), e.last_seen = f.last_seen
  PROVE  FactOf(e) = FactOf(f)
BY DEF SameFacts, FactOf

\* A table that differs in one entry, not in its identity, tells another fact of that node.
LEMMA ToldRewritten ==
  ASSUME NEW t, NEW u, OneSlotPerNode(t), OneSlotPerNode(u), NEW x \in InUse(t),
         InUse(u) = InUse(t),
         u[x].node_id = t[x].node_id, SameElsewhere(t, u, x)
  PROVE  Told(u) = [Told(t) EXCEPT ![t[x].node_id] = FactOf(u[x])]
<1> USE DEF SameElsewhere
<1>1. Ids(u) = Ids(t)
  BY DEF Ids
<1>2. ASSUME NEW n \in Ids(t)
      PROVE  Told(u)[n] = IF n = t[x].node_id THEN FactOf(u[x]) ELSE Told(t)[n]
  <2>1. PICK i \in InUse(t) : n = t[i].node_id
    BY <1>2 DEF Ids
  <2>2. Told(t)[n] = FactOf(t[i]) /\ Told(u)[n] = FactOf(u[i]) /\ u[i].node_id = n
    BY <2>1, ToldAt
  <2>3. n = t[x].node_id <=> i = x
    BY <2>1 DEF OneSlotPerNode
  <2> QED
    BY <2>1, <2>2, <2>3
<1>3. /\ Told(u) = [n \in Ids(t) |-> Told(u)[n]]
      /\ Told(t) = [n \in Ids(t) |-> Told(t)[n]]
  BY <1>1 DEF Told
<1> HIDE DEF Told
<1>4. t[x].node_id \in Ids(t)
  BY DEF Ids
<1> QED
  BY <1>2, <1>3, <1>4

\* A table in which a new node has taken a slot tells of it, and no more of the node that
\* had the slot before.
LEMMA ToldInserted ==
  ASSUME NEW t, NEW u, OneSlotPerNode(t), OneSlotPerNode(u), NEW x,
         InUse(u) = InUse(t) \cup {x},
         u[x].node_id \notin Ids(t),
         SameElsewhere(t, u, x)
  PROVE  Told(u) = WithNode(Told(t), Displaced(t, x), u[x].node_id, FactOf(u[x]))
<1> DEFINE new == u[x].node_id
           gone == Displaced(t, x)
<1> USE DEF SameElsewhere, Displaced
<1>1. Ids(u) = (Ids(t) \ gone) \cup {new}
  <2>1. \A j \in InUse(t) \ {x} : t[j].node_id \notin gone
    BY DEF OneSlotPerNode
  <2>2. Ids(u) = {u[j].node_id : j \in InUse(t) \ {x}} \cup {new}
    BY DEF Ids
  <2>3. Ids(t) \ gone = {t[j].node_id : j \in InUse(t) \ {x}}
    BY <2>1 DEF Ids
  <2>4. {u[j].node_id : j \in InUse(t) \ {x}} = {t[j].node_id : j \in InUse(t) \ {x}}
    OBVIOUS
  <2> QED
    BY <2>2, <2>3, <2>4
<1>2. Told(u)[new] = FactOf(u[x])
  BY ToldAt
<1>3. ASSUME NEW m \in Ids(t) \ gone
      PROVE  m # new /\ Told(u)[m] = Told(t)[m]
  <2>1. PICK j \in InUse(t) : m = t[j].node_id
    BY <1>3 DEF Ids
  <2>2. j # x
    BY <1>3, <2>1
  <2>3. Told(u)[m] = FactOf(u[j])
    BY <2>1, <2>2, ToldAt
  <2>4. Told(t)[m] = FactOf(t[j])
    BY <2>1, ToldAt
  <2> QED
    BY <2>1, <2>2, <2>3, <2>4, <1>3
<1>4. Told(u) = [m \in Ids(u) |-> Told(u)[m]] /\ DOMAIN Told(t) = Ids(t)
  BY DEF Told
<1> HIDE DEF Told
<1> QED
  BY <1>1, <1>2, <1>3, <1>4 DEF WithNode

-------------------------------------------------------------------------------
(* The steps of the directory, in terms of Told.                           *)

\* The directory of the refinement mapping, now and in the next state.
LEMMA Mapped ==
  /\ [n \in NodeIds |-> FactOf(entries[FindEntryIndex(n)])] = Told(entries)
  /\ [n \in NodeIds |-> FactOf(entries[FindEntryIndex(n)])]' = Told(entries')
BY DEF NodeIds, FindEntryIndex, Told, Ids, Holder, InUse, FactOf

\* A directory knows the nodes of its table.
LEMMA ToldDomain == \A t : DOMAIN Told(t) = Ids(t)
BY DEF Told

\* A fact with a new time stamp only is a refreshed one.
LEMMA IsRefresh ==
  ASSUME NEW n \in Ids(entries), now' = now,
         NEW f, f = Told(entries)[n],
         Told(entries') = [Told(entries) EXCEPT ![n] =
           Directory!Fact(f.node_name, f.pos, f.status, f.last_seq, now)]
  PROVE  Directory!Refresh(n)
BY Mapped, ToldDomain DEF Directory!Refresh, Directory!KnownNodes

\* A fact with a newer number is an accepted one.
LEMMA IsAccept ==
  ASSUME NEW n \in Ids(entries), now' = now, NEW f, f = Told(entries)[n],
         NEW seq \in Seq16, Seq16Newer(seq, f.last_seq),
         NEW pos \in Positions \cup {f.pos}, NEW status \in Statuses \cup {f.status},
         Told(entries') = [Told(entries) EXCEPT ![n] =
                             Directory!Fact(f.node_name, pos, status, seq, now)]
  PROVE  Directory!Accept(n)
<1>1. seq \in Directory!Seq16 /\ Directory!Newer(seq, Told(entries)[n].last_seq)
  BY DEF Directory!Seq16, Directory!Newer, Seq16, Seq16Newer
<1>2. n \in Directory!KnownNodes
  BY Mapped, ToldDomain DEF Directory!KnownNodes
<1> DEFINE D == [m \in NodeIds |-> FactOf(entries[FindEntryIndex(m)])]
<1>3. /\ Directory!Newer(seq, D[n].last_seq)
      /\ pos \in Positions \cup {D[n].pos}
      /\ status \in Statuses \cup {D[n].status}
      /\ D' = [D EXCEPT ![n] = Directory!Fact(D[n].node_name, pos, status, seq, now)]
  BY <1>1, Mapped, Zenon
<1> HIDE DEF D
<1>4. \E q \in Directory!Seq16 :
        /\ Directory!Newer(q, D[n].last_seq)
        /\ \E p \in Positions \cup {D[n].pos}, st \in Statuses \cup {D[n].status} :
             D' = [D EXCEPT ![n] = Directory!Fact(D[n].node_name, p, st, q, now)]
  BY <1>1, <1>3, Zenon
<1> USE DEF D
<1> QED
  BY <1>2, <1>4, Zenon DEF Directory!Accept

\* The directory counts as the table does.
LEMMA SameCardinality == \A S : Directory!Cardinality(S) = Cardinality(S)
BY DEF Directory!Cardinality, Cardinality

\* A new fact, and one replaceable node less if the directory was full, is an admission.
LEMMA IsAdmit ==
  ASSUME NEW n, n \notin Ids(entries), now' = now,
         NEW gone \in SUBSET Directory!Replaceable,
         Cardinality(gone) = IF Cardinality(Ids(entries)) < MaxNodes THEN 0 ELSE 1,
         NEW pos \in Positions \cup {NoPos}, NEW status \in Statuses \cup {NoStatus},
         NEW seq \in Seq16,
         Told(entries') = WithNode(Told(entries), gone, n, Fresh(pos, status, seq))
  PROVE  Directory!Admit(n)
<1> DEFINE D == [m \in NodeIds |-> FactOf(entries[FindEntryIndex(m)])]
<1>1. seq \in Directory!Seq16
  BY DEF Directory!Seq16, Seq16
<1>2. Directory!KnownNodes = Ids(entries)
  BY Mapped, ToldDomain DEF Directory!KnownNodes
<1>3. D' = [m \in (Directory!KnownNodes \ gone) \cup {n} |->
              IF m # n THEN D[m] ELSE Directory!Fact(NoName, pos, status, seq, now)]
  BY <1>2, Mapped, ToldDomain, Zenon DEF Fresh, WithNode
<1>4. Directory!Cardinality(gone) =
        IF Directory!Cardinality(Directory!KnownNodes) < MaxNodes THEN 0 ELSE 1
  BY <1>2, SameCardinality
<1> HIDE DEF D
<1>5. \E g \in SUBSET Directory!Replaceable :
        /\ Directory!Cardinality(g) =
             IF Directory!Cardinality(Directory!KnownNodes) < MaxNodes THEN 0 ELSE 1
        /\ \E p \in Positions \cup {NoPos}, st \in Statuses \cup {NoStatus},
              q \in Directory!Seq16 :
             D' = [m \in (Directory!KnownNodes \ g) \cup {n} |->
                     IF m # n THEN D[m] ELSE Directory!Fact(NoName, p, st, q, now)]
  BY <1>1, <1>3, <1>4, Zenon
<1> USE DEF D
<1>6. n \notin Directory!KnownNodes
  BY <1>2
<1> QED
  BY <1>5, <1>6, Zenon DEF Directory!Admit

\* A fact of this device with another position, name or time stamp is a report.
LEMMA IsReport ==
  ASSUME now' = now, NEW name \in Names \cup {NoName}, NEW pos, NEW seen,
         pos \in Positions \cup {Told(entries)[Self].pos},
         seen \in {now, Told(entries)[Self].last_seen},
         Told(entries') = [Told(entries) EXCEPT ![Self] =
           Directory!Fact(name, pos, Told(entries)[Self].status,
                          Told(entries)[Self].last_seq, seen)]
  PROVE  Directory!Report
<1> DEFINE D == [m \in NodeIds |-> FactOf(entries[FindEntryIndex(m)])]
<1>1. /\ pos \in Positions \cup {D[Self].pos}
      /\ seen \in {now, D[Self].last_seen}
      /\ D' = [D EXCEPT ![Self] =
                 Directory!Fact(name, pos, D[Self].status, D[Self].last_seq, seen)]
  BY Mapped, Zenon
<1> HIDE DEF D
<1>2. \E p \in Positions \cup {D[Self].pos}, nm \in Names \cup {NoName},
         sn \in {now, D[Self].last_seen} :
        D' = [D EXCEPT ![Self] = Directory!Fact(nm, p, D[Self].status, D[Self].last_seq, sn)]
  BY <1>1, Zenon
<1> USE DEF D
<1> QED
  BY <1>2, Zenon DEF Directory!Report

-------------------------------------------------------------------------------
(* Who makes room.                                                         *)

\* size_ counts the nodes.
LEMMA NodesCounted ==
  ASSUME IInv
  PROVE  IsFiniteSet(Ids(entries)) /\ Cardinality(Ids(entries)) = size
<1>1. InUse(entries) = 0 .. size - 1 /\ size \in Nat /\ OneSlotPerNode(entries)
  BY DEF IInv, Struct, TypeOK, OneSlotPerNode
<1>2. IsFiniteSet(InUse(entries)) /\ Cardinality(InUse(entries)) = size
  <2>1. IsFiniteSet(0 .. size - 1)
        /\ Cardinality(0 .. size - 1) = IF 0 > size - 1 THEN 0 ELSE size - 1 - 0 + 1
    BY <1>1, FS_Interval
  <2> QED
    BY <1>1, <2>1
<1> DEFINE id == [i \in InUse(entries) |-> entries[i].node_id]
<1>3. id \in Bijection(InUse(entries), Ids(entries))
  <2>1. id \in [InUse(entries) -> Ids(entries)]
    BY DEF Ids
  <2>2. \A a, b \in InUse(entries) : id[a] = id[b] => a = b
    BY <1>1 DEF OneSlotPerNode
  <2>3. \A n \in Ids(entries) : \E a \in InUse(entries) : id[a] = n
    BY DEF Ids
  <2> HIDE DEF id
  <2> QED
    BY <2>1, <2>2, <2>3, Zenon DEF Bijection, Injection, IsInjective, Surjection, id
<1>4. ExistsBijection(InUse(entries), Ids(entries))
  BY <1>3 DEF ExistsBijection
<1> QED
  BY <1>2, <1>4, FS_Bijection

\* A factor that is positive keeps an order.
LEMMA FactorCancels ==
  ASSUME NEW u \in Nat, NEW v \in Nat, NEW w \in Nat \ {0}, u * w <= v * w
  PROVE  u <= v
<1>1. SUFFICES ASSUME u > v PROVE FALSE
  OBVIOUS
<1>2. \A a, b, c \in Nat : a <= b => a * c <= b * c
  OBVIOUS
<1>3. (v + 1) * w <= u * w
  BY <1>1, <1>2
<1>4. (v + 1) * w = v * w + w
  OBVIOUS
<1> QED
  BY <1>3, <1>4

\* How long a node has been silent, by the directory and by its entry.
LEMMA SilenceIs ==
  ASSUME IInv, NEW k \in InUse(entries)
  PROVE  /\ Directory!Silence(entries[k].node_id) \in Time
         /\ AgeS(entries[k]) = Directory!Silence(entries[k].node_id) * TickS
<1> DEFINE D == [m \in NodeIds |-> FactOf(entries[FindEntryIndex(m)])]
           n == entries[k].node_id
           seen == entries[k].last_seen
           s == IF now >= seen THEN now - seen ELSE 0
<1>1. OneSlotPerNode(entries)
  BY DEF IInv, Struct, OneSlotPerNode
<1>2. D[n] = FactOf(entries[k])
  BY <1>1, ToldAt, Mapped, Zenon
<1>3. D[n].last_seen = seen
  BY <1>2 DEF FactOf
<1>4. now \in 0 .. TimeMod - 1 /\ seen \in 0 .. TimeMod - 1 /\ TimeMod \in Nat /\ TickS \in Nat
  BY SizesAssumption DEF IInv, TypeOK, Table, NodeEntry, InUse, Time
<1>5. AgeS(entries[k]) = s * TickS /\ s \in Time
  BY <1>4 DEF AgeS, Time
<1> HIDE DEF D, n, seen
<1>6. (IF now >= D[n].last_seen THEN now - D[n].last_seen ELSE 0) = s
  BY <1>3
<1> HIDE DEF s
<1> USE DEF D
<1>7. Directory!Silence(n) = s
  BY <1>6 DEF Directory!Silence
<1> QED
  BY <1>5, <1>7 DEF n

\* The entry that a full table evicts belongs to a node the directory may replace.
LEMMA EvictedReplaceable ==
  ASSUME IInv, FreeSlots = {}, NEW x \in Evictable,
         \A j \in Evictable : entries[x].last_seen <= entries[j].last_seen
  PROVE  entries[x].node_id \in Directory!Replaceable
<1> DEFINE n == entries[x].node_id
           Stale == {s \in Time : ExpectedInterval # 0 /\ s * TickS > ExpectedInterval + GraceS}
<1>1. x \in InUse(entries) /\ ~entries[x].is_self /\ ExpectedInterval # 0
  BY DEF Evictable, IsGrey
<1>2. n \in Ids(entries) \ {Self}
  BY <1>1 DEF Ids, IInv, Struct
<1>3. Directory!KnownNodes = Ids(entries)
  BY Mapped, ToldDomain DEF Directory!KnownNodes
<1>4. ~(Directory!Cardinality(Directory!KnownNodes) < MaxNodes)
  <2>1. size = MaxNodes
    BY SizesAssumption DEF FreeSlots, Slots, IInv, Struct, TypeOK
  <2>2. Directory!Cardinality(Directory!KnownNodes) = MaxNodes
    BY <1>3, <2>1, NodesCounted, SameCardinality
  <2> QED
    BY <2>2, SizesAssumption
<1>5. Directory!Silence(n) \in Stale
  BY <1>1, OldestIsMostSilent, SilenceIs
<1>6. ASSUME NEW m \in Ids(entries) \ {Self}
      PROVE  Directory!Silence(m) <= Directory!Silence(n)
  <2>1. PICK k \in InUse(entries) : m = entries[k].node_id
    BY DEF Ids
  <2>2. k # self_index
    BY <1>6, <2>1 DEF IInv, Struct
  <2>3. AgeS(entries[k]) <= AgeS(entries[x])
    BY <2>1, <2>2, OldestIsMostSilent
  <2>4. /\ Directory!Silence(m) \in Time /\ Directory!Silence(n) \in Time
        /\ AgeS(entries[k]) = Directory!Silence(m) * TickS
        /\ AgeS(entries[x]) = Directory!Silence(n) * TickS
    BY <1>1, <2>1, SilenceIs
  <2>5. Directory!Silence(m) \in Nat /\ Directory!Silence(n) \in Nat
    BY <2>4, SizesAssumption DEF Time
  <2> QED
    BY <2>3, <2>4, <2>5, FactorCancels, SizesAssumption
<1> HIDE DEF n
<1>7. n \in {m \in Directory!KnownNodes \ {Self} :
               /\ Directory!Silence(m) \in Stale
               /\ \A o \in Directory!KnownNodes \ {Self} :
                    Directory!Silence(o) <= Directory!Silence(m)}
  BY <1>2, <1>3, <1>5, <1>6
<1>8. n \in Directory!Replaceable
  BY <1>4, <1>7, Zenon DEF Directory!Replaceable
<1> QED
  BY <1>8 DEF n

-------------------------------------------------------------------------------
(* The two kinds of change, in terms of Told.                              *)

\* Rewriting an entry replaces the fact of its node.
LEMMA RewriteTells ==
  ASSUME IInv, IInv', NEW x \in InUse(entries), NEW e \in NodeEntry,
         e.node_id = entries[x].node_id,
         entries' = [entries EXCEPT ![x] = e]
  PROVE  /\ entries[x].node_id \in Ids(entries)
         /\ Told(entries)[entries[x].node_id] = FactOf(entries[x])
         /\ Told(entries') =
              [Told(entries) EXCEPT ![entries[x].node_id] = FactOf(e)]
<1>1. OneSlotPerNode(entries) /\ OneSlotPerNode(entries')
  BY DEF IInv, Struct, OneSlotPerNode, InUse
<1>2. entries \in Table
  BY DEF IInv, TypeOK
<1>3. InUse(entries') = InUse(entries)
  BY <1>2, EmptyAssumption DEF Table, InUse
<1>4. /\ entries'[x] = e
      /\ \A j \in InUse(entries) \ {x} : entries'[j] = entries[j]
  BY <1>2 DEF Table, InUse
<1>5. PICK u : u = entries'
  OBVIOUS
<1>6. /\ InUse(u) = InUse(entries) /\ OneSlotPerNode(u) /\ u[x] = e
      /\ u[x].node_id = entries[x].node_id
      /\ SameElsewhere(entries, u, x)
  BY <1>1, <1>3, <1>4, <1>5 DEF SameElsewhere
<1>7. Told(u) = [Told(entries) EXCEPT ![entries[x].node_id] = FactOf(u[x])]
  BY <1>1, <1>6, ToldRewritten
<1>8. /\ entries[x].node_id \in Ids(entries)
      /\ Told(entries)[entries[x].node_id] = FactOf(entries[x])
  BY <1>1, ToldAt, Zenon
<1> QED
  BY <1>5, <1>6, <1>7, <1>8

\* Storing a new node admits it, with what the operation has written into its entry.
LEMMA InsertAdmits ==
  ASSUME IInv, IInv', now' = now, HasRoom, NEW n \in Nodes, ~Known(n),
         NEW b \in NodeEntry, b.node_id = n, ~b.is_self,
         NEW e \in NodeEntry, e.node_id = n,
         \/ entries' = TableWith(b) /\ e = b
         \/ entries' = [TableWith(b) EXCEPT ![SlotForNew] = e],
         NEW pos \in Positions \cup {NoPos}, NEW status \in Statuses \cup {NoStatus},
         NEW seq \in Seq16,
         FactOf(e) = Fresh(pos, status, seq)
  PROVE  Directory!Admit(n)
<1> DEFINE x == SlotForNew
           t == TableWith(b)
           gone == Displaced(entries, x)
<1>1. /\ x \in Slots
      /\ FreeSlots # {} => x = size /\ size < MaxNodes
      /\ FreeSlots = {} =>
           /\ x \in Evictable
           /\ \A j \in Evictable : entries[x].last_seen <= entries[j].last_seen
  BY SlotForNewChoice DEF IInv
<1>2. /\ t \in Table
      /\ x \in InUse(t)
      /\ t[x].node_id = n
      /\ SameFacts(t[x], b)
      /\ t[x].last_seen = b.last_seen
      /\ \A i \in InUse(t) \ {x} :
           /\ i \in InUse(entries)
           /\ t[i].node_id = entries[i].node_id
           /\ SameFacts(t[i], entries[i])
           /\ t[i].last_seen = entries[i].last_seen
      /\ \A i \in InUse(entries) \ {x} : i \in InUse(t)
  BY InsertKeepsStruct
<1> HIDE DEF t, x, gone
<1>3. InUse(t) = InUse(entries) \cup {x}
  BY <1>2
<1>4. /\ InUse(entries') = InUse(t)
      /\ entries'[x].node_id = n
      /\ FactOf(entries'[x]) = Fresh(pos, status, seq)
      /\ \A j \in InUse(t) \ {x} : entries'[j] = t[j]
  <2>1. CASE entries' = t /\ e = b
    BY <2>1, <1>2, SameFact
  <2>2. CASE entries' = [t EXCEPT ![x] = e]
    <3>1. InUse(entries') = InUse(t)
      BY <2>2, <1>2, EmptyAssumption DEF InUse, Table
    <3> QED
      BY <3>1, <2>2, <1>2 DEF InUse, Table
  <2> QED
    BY <2>1, <2>2 DEF t, x
<1>5. \A j \in InUse(entries) \ {x} :
        entries'[j].node_id = entries[j].node_id /\ FactOf(entries'[j]) = FactOf(entries[j])
  BY <1>2, <1>3, <1>4, SameFact
<1>6. n \notin Ids(entries)
  BY DEF Known, Ids
<1>7. OneSlotPerNode(entries) /\ OneSlotPerNode(entries')
  BY DEF IInv, Struct, OneSlotPerNode, InUse
<1>8. Told(entries') = WithNode(Told(entries), gone, n, Fresh(pos, status, seq))
  <2>1. PICK u : u = entries'
    OBVIOUS
  <2>2. /\ InUse(u) = InUse(entries) \cup {x} /\ OneSlotPerNode(u)
        /\ u[x].node_id = n /\ u[x].node_id \notin Ids(entries)
        /\ FactOf(u[x]) = Fresh(pos, status, seq)
        /\ SameElsewhere(entries, u, x)
    BY <1>3, <1>4, <1>5, <1>6, <1>7, <2>1 DEF SameElsewhere
  <2>3. Told(u) = WithNode(Told(entries), gone, u[x].node_id, FactOf(u[x]))
    BY <1>7, <2>2, ToldInserted DEF gone
  <2> QED
    BY <2>1, <2>2, <2>3
<1>9. /\ gone \in SUBSET Directory!Replaceable
      /\ Cardinality(gone) = IF Cardinality(Ids(entries)) < MaxNodes THEN 0 ELSE 1
  <2>1. CASE FreeSlots # {}
    <3>1. gone = {}
      BY <2>1, <1>1 DEF gone, Displaced, IInv, Struct, TypeOK
    <3> QED
      BY <2>1, <1>1, <3>1, NodesCounted, FS_EmptySet
  <2>2. CASE FreeSlots = {}
    <3>1. gone = {entries[x].node_id}
      BY <2>2, <1>1 DEF gone, Displaced, Evictable
    <3>2. ~(size < MaxNodes)
      BY <2>2, SizesAssumption DEF FreeSlots, Slots, IInv, Struct, TypeOK
    <3>3. Cardinality(gone) = 1
      BY <3>1, FS_Singleton
    <3>4. entries[x].node_id \in Directory!Replaceable
      BY <2>2, <1>1, EvictedReplaceable
    <3> QED
      BY <3>1, <3>2, <3>3, <3>4, NodesCounted
  <2> QED
    BY <2>1, <2>2
<1> QED
  BY <1>6, <1>8, <1>9, IsAdmit

-------------------------------------------------------------------------------
(* The operations.                                                         *)

\* What a step of the table is to the directory.
DirectoryStep ==
  \/ Directory!Next
  \/ Told(entries') = Told(entries) /\ now' = now

\* What a frame makes of fact f: a refreshed one, or if it is newer the one it tells.
Learned(g, f, pos, status, seq) ==
  \/ g = Directory!Fact(f.node_name, f.pos, f.status, f.last_seq, now)
  \/ /\ Seq16Newer(seq, f.last_seq)
     /\ g = Directory!Fact(f.node_name, pos, status, seq, now)

\* The fields of a fact.
LEMMA FactFields ==
  \A name, pos, status, seq, seen :
    /\ Directory!Fact(name, pos, status, seq, seen).node_name = name
    /\ Directory!Fact(name, pos, status, seq, seen).pos = pos
    /\ Directory!Fact(name, pos, status, seq, seen).status = status
    /\ Directory!Fact(name, pos, status, seq, seen).last_seq = seq
    /\ Directory!Fact(name, pos, status, seq, seen).last_seen = seen
BY DEF Directory!Fact

\* A step of the directory for some node is a step of the directory.
LEMMA NodeSteps ==
  ASSUME NEW n \in Nodes, Directory!Refresh(n) \/ Directory!Accept(n) \/ Directory!Admit(n)
  PROVE  DirectoryStep
BY Zenon DEF DirectoryStep, Directory!Next

\* A frame of a known node refreshes its fact or replaces it by a newer one.
LEMMA HeardSteps ==
  ASSUME IInv, IInv', now' = now, NEW n \in Nodes, NEW x \in InUse(entries),
         entries[x].node_id = n, NEW e \in NodeEntry, e.node_id = n,
         entries' = [entries EXCEPT ![x] = e],
         NEW f, f = FactOf(entries[x]),
         NEW seq \in Seq16, NEW pos \in Positions \cup {f.pos},
         NEW status \in Statuses \cup {f.status},
         Learned(FactOf(e), f, pos, status, seq)
  PROVE  DirectoryStep
<1>1. /\ n \in Ids(entries)
      /\ Told(entries)[n] = f
      /\ Told(entries') = [Told(entries) EXCEPT ![n] = FactOf(e)]
  <2>1. /\ entries[x].node_id \in Ids(entries)
        /\ Told(entries)[entries[x].node_id] = FactOf(entries[x])
        /\ Told(entries') = [Told(entries) EXCEPT ![entries[x].node_id] = FactOf(e)]
    BY RewriteTells, Zenon
  <2> QED
    BY <2>1, Zenon
<1>2. Directory!Refresh(n) \/ Directory!Accept(n)
  <2>1. CASE FactOf(e) = Directory!Fact(f.node_name, f.pos, f.status, f.last_seq, now)
    BY <1>1, <2>1, IsRefresh
  <2>2. CASE /\ Seq16Newer(seq, f.last_seq)
             /\ FactOf(e) = Directory!Fact(f.node_name, pos, status, seq, now)
    <3>1. Told(entries') = [Told(entries) EXCEPT ![n] =
                              Directory!Fact(f.node_name, pos, status, seq, now)]
      BY <1>1, <2>2, Zenon
    <3> QED
      BY <1>1, <2>2, <3>1, IsAccept, Zenon
  <2> QED
    BY <2>1, <2>2, Zenon DEF Learned
<1> QED
  BY <1>2, NodeSteps, Zenon

\* upsert_remote: a frame of this device's own identity changes nothing, one of a known
\* node refreshes or replaces its fact, one of a new node admits it.
LEMMA UpsertRemoteSteps ==
  ASSUME IInv, IInv', NEW n \in Nodes, NEW pos \in Positions \cup {NoPos}, NEW seq \in Seq16,
         UpsertRemote(n, pos, seq)
  PROVE  DirectoryStep
<1>0. now' = now
  BY DEF UpsertRemote
<1>1. CASE Known(n)
  <2> DEFINE x == FindEntryIndex(n)
             heard == [entries[x] EXCEPT !.last_seen = now]
             accepted == [heard EXCEPT !.last_seq = seq,
                                       !.pos = IF pos = NoPos THEN @ ELSE pos]
             p == IF pos = NoPos THEN entries[x].pos ELSE pos
             e == IF entries[x].is_self THEN entries[x]
                  ELSE IF Seq16Newer(seq, entries[x].last_seq) THEN accepted
                  ELSE heard
             f == FactOf(entries[x])
  <2>1. /\ x \in InUse(entries) /\ entries[x] \in NodeEntry /\ entries[x].node_id = n
        /\ now \in Time
    BY <1>1, FindKnown DEF IInv, TypeOK, Table, InUse
  <2>2. entries' = [entries EXCEPT ![x] = e]
    BY <1>1 DEF UpsertRemote
  <2> HIDE DEF x
  <2>3. heard \in NodeEntry /\ heard.node_id = n /\ accepted \in NodeEntry /\ accepted.node_id = n
    BY <2>1 DEF NodeEntry
  <2>4. CASE entries[x].is_self
    <3>1. entries' = entries
      BY <2>1, <2>2, <2>4 DEF IInv, TypeOK, Table
    <3> QED
      BY <3>1, <1>0, Zenon DEF DirectoryStep
  <2>5. CASE ~entries[x].is_self
    <3>1. e \in NodeEntry /\ e.node_id = n
      BY <2>3, <2>5
    <3>2. /\ f.node_name = entries[x].node_name /\ f.pos = entries[x].pos
          /\ f.status = entries[x].status /\ f.last_seq = entries[x].last_seq
      BY DEF FactOf
    <3>3. FactOf(heard) = Directory!Fact(f.node_name, f.pos, f.status, f.last_seq, now)
      BY <2>1, <3>2 DEF FactOf, NodeEntry, Directory!Fact
    <3>4. FactOf(accepted) = Directory!Fact(f.node_name, p, f.status, seq, now)
      BY <2>1, <3>2 DEF FactOf, NodeEntry, Directory!Fact
    <3>5. p \in Positions \cup {f.pos} /\ f.status \in Statuses \cup {f.status}
      BY <3>2
    <3> HIDE DEF heard, accepted, f, p
    <3>6. Learned(FactOf(e), f, p, f.status, seq)
      BY <2>5, <3>2, <3>3, <3>4 DEF Learned
    <3> HIDE DEF e
    <3> QED
      BY <1>0, <2>1, <2>2, <3>1, <3>5, <3>6, HeardSteps DEF f
  <2> QED
    BY <2>4, <2>5
<1>2. CASE ~Known(n)
  <2> DEFINE b == NewEntry(n, FALSE)
             e == [b EXCEPT !.pos = pos, !.last_seq = seq]
  <2>1. HasRoom /\ entries' = TableWith(e)
    BY <1>2 DEF UpsertRemote
  <2>2. b \in NodeEntry
    BY NewEntryType DEF IInv
  <2>3. e \in NodeEntry /\ e.node_id = n /\ ~e.is_self
    BY <2>2 DEF NodeEntry, NewEntry
  <2>4. FactOf(e) = Fresh(pos, NoStatus, seq)
    BY DEF FactOf, NewEntry, Fresh, Directory!Fact
  <2> HIDE DEF e
  <2>5. Directory!Admit(n)
    BY <1>0, <1>2, <2>1, <2>3, <2>4, InsertAdmits
  <2> HIDE DEF b
  <2> QED
    BY <2>5, NodeSteps, Zenon
<1> QED
  BY <1>1, <1>2

\* A frame of a new node admits it, with what the frame tells if it is newer than zero.
LEMMA FirstHeardSteps ==
  ASSUME IInv, IInv', now' = now, NEW n \in Nodes, ~Known(n), HasRoom,
         NEW e \in NodeEntry, e.node_id = n,
         entries' = [TableWith(NewEntry(n, FALSE)) EXCEPT ![SlotForNew] = e],
         NEW seq \in Seq16, NEW pos \in Positions \cup {NoPos},
         NEW status \in Statuses \cup {NoStatus},
         Learned(FactOf(e), Directory!Fact(NoName, NoPos, NoStatus, 0, now), pos, status, seq)
  PROVE  DirectoryStep
<1> DEFINE b == NewEntry(n, FALSE)
<1>1. b \in NodeEntry /\ b.node_id = n /\ ~b.is_self
  BY NewEntryType DEF IInv, NewEntry
<1> HIDE DEF b
<1>2. entries' = [TableWith(b) EXCEPT ![SlotForNew] = e]
  BY DEF b
<1>3. FactOf(e) = Fresh(NoPos, NoStatus, 0) \/ FactOf(e) = Fresh(pos, status, seq)
  BY FactFields DEF Fresh, Learned
<1>4. 0 \in Seq16
  BY SizesAssumption DEF Seq16
<1>5. PICK p \in Positions \cup {NoPos}, s \in Statuses \cup {NoStatus}, q \in Seq16 :
        FactOf(e) = Fresh(p, s, q)
  BY <1>3, <1>4
<1>6. Directory!Admit(n)
  BY <1>1, <1>2, <1>5, InsertAdmits
<1> QED
  BY <1>6, NodeSteps, Zenon

\* apply_pos_full and apply_status, with what they make of the entry as parameters: pos and
\* status are what the entry holds after an accepted frame.
LEMMA ApplyFrameSteps ==
  ASSUME IInv, IInv', now' = now, NEW n \in Nodes, Known(n) \/ HasRoom, NEW i, NEW t,
         i = IF Known(n) THEN FindEntryIndex(n) ELSE SlotForNew,
         t = IF Known(n) THEN entries ELSE TableWith(NewEntry(n, FALSE)),
         NEW e \in NodeEntry, e.node_id = n,
         entries' = [t EXCEPT ![i] = e],
         NEW seq \in Seq16, NEW f, f = FactOf(t[i]),
         NEW pos \in Positions \cup {f.pos}, NEW status \in Statuses \cup {f.status},
         Learned(FactOf(e), f, pos, status, seq)
  PROVE  DirectoryStep
<1>1. CASE Known(n)
  <2>1. i \in InUse(entries) /\ entries[i].node_id = n /\ t = entries
    BY <1>1, FindKnown
  <2>2. f = FactOf(entries[i]) /\ entries' = [entries EXCEPT ![i] = e]
    BY <2>1, Zenon
  <2> QED
    BY <2>1, <2>2, HeardSteps, Zenon
<1>2. CASE ~Known(n)
  <2> DEFINE b == NewEntry(n, FALSE)
  <2>1. b \in NodeEntry /\ b.node_id = n /\ ~b.is_self
    BY NewEntryType DEF IInv, NewEntry
  <2>2. FactOf(b) = Directory!Fact(NoName, NoPos, NoStatus, 0, now)
    BY DEF FactOf, NewEntry, Directory!Fact
  <2> HIDE DEF b
  <2>3. /\ HasRoom /\ i = SlotForNew
        /\ entries' = [TableWith(b) EXCEPT ![SlotForNew] = e]
        /\ t[i] = TableWith(b)[SlotForNew]
    BY <1>2 DEF b
  <2>4. f = FactOf(b)
    <3>1. /\ SameFacts(TableWith(b)[SlotForNew], b)
          /\ TableWith(b)[SlotForNew].last_seen = b.last_seen
      BY <1>2, <2>1, <2>3, InsertKeepsStruct
    <3>2. FactOf(TableWith(b)[SlotForNew]) = FactOf(b)
      BY <3>1, SameFact, Zenon
    <3> QED
      BY <2>3, <3>2, Zenon
  <2>5. f = Directory!Fact(NoName, NoPos, NoStatus, 0, now)
    BY <2>2, <2>4, Zenon
  <2>6. f.pos = NoPos /\ f.status = NoStatus
    <3>1. /\ Directory!Fact(NoName, NoPos, NoStatus, 0, now).pos = NoPos
          /\ Directory!Fact(NoName, NoPos, NoStatus, 0, now).status = NoStatus
      BY DEF Directory!Fact
    <3> QED
      BY <2>5, <3>1, Zenon
  <2>7. /\ pos \in Positions \cup {NoPos} /\ status \in Statuses \cup {NoStatus}
        /\ Learned(FactOf(e), Directory!Fact(NoName, NoPos, NoStatus, 0, now), pos, status, seq)
    BY <2>5, <2>6, Zenon
  <2> QED
    BY <1>2, <2>3, <2>7, FirstHeardSteps, Zenon DEF b
<1> QED
  BY <1>1, <1>2

\* apply_pos_full refreshes a fact, replaces its position or admits the node.
LEMMA ApplyPosFullSteps ==
  ASSUME IInv, IInv', NEW n \in Nodes, NEW pos \in Positions, NEW seq \in Seq16,
         ApplyPosFull(n, pos, seq)
  PROVE  DirectoryStep
<1> DEFINE i == IF Known(n) THEN FindEntryIndex(n) ELSE SlotForNew
           t == IF Known(n) THEN entries ELSE TableWith(NewEntry(n, FALSE))
           heard == [t[i] EXCEPT !.last_seen = now]
           accepted == [[heard EXCEPT !.pos = pos] EXCEPT !.last_seq = seq]
           e == IF Seq16Newer(seq, t[i].last_seq) THEN accepted ELSE heard
           f == FactOf(t[i])
<1>1. (Known(n) \/ HasRoom) /\ now' = now
  BY DEF ApplyPosFull, ApplyFrame
<1>2. entries' = [t EXCEPT ![i] = e]
  BY DEF ApplyPosFull, ApplyFrame
<1>3. t[i] \in NodeEntry /\ t[i].node_id = n /\ now \in Time
  BY <1>1, FindOrCreate DEF IInv, TypeOK
<1> HIDE DEF i, t
<1>4. heard \in NodeEntry /\ accepted \in NodeEntry /\ heard.node_id = n /\ accepted.node_id = n
  BY <1>3 DEF NodeEntry
<1>5. e \in NodeEntry /\ e.node_id = n
  BY <1>4
<1>6. f.last_seq = t[i].last_seq
  BY DEF FactOf
<1>7. FactOf(heard) = Directory!Fact(f.node_name, f.pos, f.status, f.last_seq, now)
  BY <1>3 DEF FactOf, NodeEntry, Directory!Fact
<1>8. FactOf(accepted) = Directory!Fact(f.node_name, pos, f.status, seq, now)
  BY <1>3 DEF FactOf, NodeEntry, Directory!Fact
<1> HIDE DEF heard, accepted
<1>9. Learned(FactOf(e), f, pos, f.status, seq)
  BY <1>6, <1>7, <1>8 DEF Learned
<1> HIDE DEF e
<1> QED
  BY <1>1, <1>2, <1>5, <1>9, ApplyFrameSteps DEF i, t

\* apply_status refreshes a fact, replaces its telemetry or admits the node.
LEMMA ApplyStatusSteps ==
  ASSUME IInv, IInv', NEW n \in Nodes, NEW status \in Statuses, NEW seq \in Seq16,
         ApplyStatus(n, status, seq)
  PROVE  DirectoryStep
<1> DEFINE i == IF Known(n) THEN FindEntryIndex(n) ELSE SlotForNew
           t == IF Known(n) THEN entries ELSE TableWith(NewEntry(n, FALSE))
           heard == [t[i] EXCEPT !.last_seen = now]
           accepted == [[heard EXCEPT !.status = status] EXCEPT !.last_seq = seq]
           e == IF Seq16Newer(seq, t[i].last_seq) THEN accepted ELSE heard
           f == FactOf(t[i])
<1>1. (Known(n) \/ HasRoom) /\ now' = now
  BY DEF ApplyStatus, ApplyFrame
<1>2. entries' = [t EXCEPT ![i] = e]
  BY DEF ApplyStatus, ApplyFrame
<1>3. t[i] \in NodeEntry /\ t[i].node_id = n /\ now \in Time
  BY <1>1, FindOrCreate DEF IInv, TypeOK
<1> HIDE DEF i, t
<1>4. heard \in NodeEntry /\ accepted \in NodeEntry /\ heard.node_id = n /\ accepted.node_id = n
  BY <1>3 DEF NodeEntry
<1>5. e \in NodeEntry /\ e.node_id = n
  BY <1>4
<1>6. f.last_seq = t[i].last_seq
  BY DEF FactOf
<1>7. FactOf(heard) = Directory!Fact(f.node_name, f.pos, f.status, f.last_seq, now)
  BY <1>3 DEF FactOf, NodeEntry, Directory!Fact
<1>8. FactOf(accepted) = Directory!Fact(f.node_name, f.pos, status, seq, now)
  BY <1>3 DEF FactOf, NodeEntry, Directory!Fact
<1> HIDE DEF heard, accepted
<1>9. Learned(FactOf(e), f, f.pos, status, seq)
  BY <1>6, <1>7, <1>8 DEF Learned
<1> HIDE DEF e
<1> QED
  BY <1>1, <1>2, <1>5, <1>9, ApplyFrameSteps DEF i, t

\* The operations on the self entry report.
LEMMA UpdateSelfSteps ==
  ASSUME IInv, IInv', NEW e \in NodeEntry, UpdateSelf(e),
         NEW self, self = entries[self_index],
         NEW pos \in Positions \cup {self.pos}, NEW name \in Names \cup {NoName},
         NEW seen \in {now, self.last_seen},
         e.node_id = self.node_id,
         FactOf(e) = Directory!Fact(name, pos, self.status, self.last_seq, seen)
  PROVE  DirectoryStep
<1> DEFINE f == FactOf(self)
<1>1. self_index \in InUse(entries) /\ self.node_id = Self
  BY DEF IInv, Struct
<1>2. entries' = [entries EXCEPT ![self_index] = e] /\ now' = now
  BY DEF UpdateSelf
<1>3. /\ Told(entries)[entries[self_index].node_id] = FactOf(entries[self_index])
      /\ Told(entries') =
           [Told(entries) EXCEPT ![entries[self_index].node_id] = FactOf(e)]
  BY <1>1, <1>2, RewriteTells
<1>4. Told(entries)[Self] = f /\ Told(entries') = [Told(entries) EXCEPT ![Self] = FactOf(e)]
  BY <1>1, <1>3, Zenon
<1>5. /\ f.pos = self.pos /\ f.status = self.status
      /\ f.last_seq = self.last_seq /\ f.last_seen = self.last_seen
  BY DEF FactOf
<1> HIDE DEF f
<1>6. /\ pos \in Positions \cup {Told(entries)[Self].pos}
      /\ seen \in {now, Told(entries)[Self].last_seen}
      /\ Told(entries') = [Told(entries) EXCEPT ![Self] =
           Directory!Fact(name, pos, Told(entries)[Self].status,
                          Told(entries)[Self].last_seq, seen)]
  BY <1>4, <1>5, Zenon
<1>7. Directory!Report
  BY <1>2, <1>6, IsReport, Zenon
<1> QED
  BY <1>7, Zenon DEF DirectoryStep, Directory!Next

\* Every step of the table is a step of the directory, or leaves it as it was.
LEMMA StepMaps ==
  ASSUME IInv, IInv', [Next]_vars
  PROVE  DirectoryStep
<1>1. CASE OnRx
  <2>1. PICK n \in Senders, seq \in Seq16 :
          \/ UpsertRemote(n, NoPos, seq)
          \/ \E pos \in Positions : ApplyPosFull(n, pos, seq)
          \/ \E status \in Statuses : ApplyStatus(n, status, seq)
    BY <1>1 DEF OnRx
  <2>2. n \in Nodes
    BY NodesAssumption
  <2>3. CASE UpsertRemote(n, NoPos, seq)
    BY <2>2, <2>3, UpsertRemoteSteps
  <2>4. CASE \E pos \in Positions : ApplyPosFull(n, pos, seq)
    BY <2>2, <2>4, ApplyPosFullSteps
  <2>5. CASE \E status \in Statuses : ApplyStatus(n, status, seq)
    BY <2>2, <2>5, ApplyStatusSteps
  <2> QED
    BY <2>1, <2>3, <2>4, <2>5
<1> DEFINE self == entries[self_index]
<1>2. self \in NodeEntry /\ now \in Time
  BY DEF IInv, TypeOK, Table, Struct, InUse
<1>3. CASE \E pos \in Positions : UpdateSelfPosition(pos)
  <2>1. PICK pos \in Positions : UpdateSelfPosition(pos)
    BY <1>3
  <2> DEFINE e == [self EXCEPT !.pos = pos, !.last_seen = now]
  <2>2. UpdateSelf(e)
    BY <2>1 DEF UpdateSelfPosition
  <2> HIDE DEF self
  <2>3. /\ e \in NodeEntry /\ e.node_id = self.node_id /\ self.node_name \in Names \cup {NoName}
        /\ FactOf(e) = Directory!Fact(self.node_name, pos, self.status, self.last_seq, now)
    BY <1>2 DEF NodeEntry, FactOf, Directory!Fact
  <2> HIDE DEF e
  <2> QED
    BY <2>2, <2>3, UpdateSelfSteps DEF self
<1>4. CASE TouchSelf
  <2> DEFINE e == [self EXCEPT !.last_seen = now]
  <2>1. UpdateSelf(e)
    BY <1>4 DEF TouchSelf
  <2> HIDE DEF self
  <2>2. /\ e \in NodeEntry /\ e.node_id = self.node_id /\ self.node_name \in Names \cup {NoName}
        /\ FactOf(e) = Directory!Fact(self.node_name, self.pos, self.status, self.last_seq, now)
    BY <1>2 DEF NodeEntry, FactOf, Directory!Fact
  <2> HIDE DEF e
  <2> QED
    BY <2>1, <2>2, UpdateSelfSteps DEF self
<1>5. CASE \E name \in Names \cup {NoName} : SetSelfNodeName(name)
  <2>1. PICK name \in Names \cup {NoName} : SetSelfNodeName(name)
    BY <1>5
  <2> DEFINE e == [self EXCEPT !.node_name = name]
  <2>2. UpdateSelf(e)
    BY <2>1 DEF SetSelfNodeName
  <2> HIDE DEF self
  <2>3. /\ e \in NodeEntry /\ e.node_id = self.node_id
        /\ FactOf(e) =
             Directory!Fact(name, self.pos, self.status, self.last_seq, self.last_seen)
    BY <1>2 DEF NodeEntry, FactOf, Directory!Fact
  <2> HIDE DEF e
  <2> QED
    BY <2>2, <2>3, UpdateSelfSteps DEF self
<1>6. CASE Tick
  <2>1. now' = (now + 1) % TimeMod /\ entries' = entries
    BY <1>6 DEF Tick
  <2>2. Told(entries') = Told(entries)
    BY <2>1, Zenon
  <2>3. Directory!Tick
    BY <2>1, <2>2, Mapped, Zenon DEF Directory!Tick
  <2> QED
    BY <2>3, Zenon DEF DirectoryStep, Directory!Next
<1>7. CASE UNCHANGED vars
  <2>1. entries' = entries /\ now' = now
    BY <1>7 DEF vars
  <2> QED
    BY <2>1, Zenon DEF DirectoryStep
<1> QED
  BY <1>1, <1>3, <1>4, <1>5, <1>6, <1>7 DEF Next, Operation

\* A table just booted stands for a directory that knows this device only.
LEMMA InitMaps == Init => Directory!Init
<1> SUFFICES ASSUME Init PROVE Directory!Init
  OBVIOUS
<1>1. now = 0 /\ now \in Time /\ entries = BootTable
  BY SizesAssumption DEF Init, Time
<1>2. /\ InUse(entries) = {0}
      /\ entries[0].node_id = Self
      /\ SameFacts(entries[0], NewEntry(Self, TRUE))
      /\ entries[0].last_seen = NewEntry(Self, TRUE).last_seen
  BY <1>1, BootSound DEF NewEntry
<1>3. OneSlotPerNode(entries)
  BY <1>2 DEF OneSlotPerNode
<1>4. Ids(entries) = {Self}
  BY <1>2 DEF Ids
<1>5. FactOf(entries[0]) = Directory!Fact(NoName, NoPos, NoStatus, 0, now)
  <2>1. FactOf(NewEntry(Self, TRUE)) = Directory!Fact(NoName, NoPos, NoStatus, 0, now)
    BY DEF FactOf, NewEntry, Directory!Fact
  <2> QED
    BY <1>2, <2>1, SameFact
<1>6. Told(entries)[Self] = FactOf(entries[0])
  BY <1>2, <1>3, ToldAt
<1>7. Told(entries) = [n \in {Self} |-> Directory!Fact(NoName, NoPos, NoStatus, 0, now)]
  <2>1. Told(entries) = [n \in Ids(entries) |-> Told(entries)[n]]
    BY DEF Told
  <2> HIDE DEF Told
  <2> QED
    BY <1>4, <1>5, <1>6, <2>1
<1> QED
  BY <1>1, <1>7, Mapped, Zenon DEF Directory!Init

\* The node table implements the directory: slots, eviction and collision flags never show
\* in what is read of it by node identity.
THEOREM DirectoryImplemented == Spec => ImplementsDirectory
<1>1. ASSUME IInv, IInv', [Next]_vars
      PROVE  [Directory!Next]_(Directory!vars)
  <2>1. Directory!Next \/ (Told(entries') = Told(entries) /\ now' = now)
    BY <1>1, StepMaps DEF DirectoryStep
  <2>2. ASSUME Told(entries') = Told(entries), now' = now
        PROVE  UNCHANGED Directory!vars
    BY <2>2, Mapped, Zenon DEF Directory!vars
  <2> QED
    BY <2>1, <2>2
<1>2. IInv /\ [Next]_vars => IInv'
  BY NextIInv
<1> QED
  BY <1>1, <1>2, InitMaps, Invariant, PTL DEF Spec, ImplementsDirectory, Directory!Spec

================================================================================
