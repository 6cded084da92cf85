---------------------------- MODULE BleBridgeProofs ----------------------------
(***************************************************************************)
(* The two ways in which update_ble and a phone meet.                      *)
(*                                                                         *)
(* Changes of the table, told to a phone that subscribes: what it shows    *)
(* wrongly is queued or counted as missed, for any number of nodes, any    *)
(* batch, and windows of one or two passes.  The invariant relates the     *)
(* hashes of the last emission to the pages and the ages: until the next   *)
(* pass the pages are what was hashed, so that the scan of that pass sees  *)
(* every change, and only changes.                                         *)
(*                                                                         *)
(* Requests, left by the phone in unguarded memory: a question asked of a  *)
(* profile box at rest is never answered with another one's answer, for    *)
(* any names, types and ids and any number of requests.  The property says *)
(* nothing of the boxes while they are used; the invariant follows a       *)
(* question through them: stored field by field while the loop is away,    *)
(* taken whole, answered, and taken back.  A name written to a box at rest *)
(* becomes the node's whole, by an invariant of the same kind.             *)
(***************************************************************************)
EXTENDS BleSubscription, BleMailboxes,
        FiniteSetTheorems, SequenceTheorems, WellFoundedInduction, TLAPS

-------------------------------------------------------------------------------
(* The subscription: the invariant.                                        *)

\* Since the last emission the pages have been those that were hashed, until the next pass.
Hashed == since = 0 => page = FactsOf(prev)

\* A node not heard since then has grown older as its hash says.
AgesHashed ==
  since < Window =>
    \A n \in InTable(entries) : prev[n] # NoRecord =>
      \/ entries[n].age <= since
      \/ prev[n].age = Least(MaxAge, entries[n].age - since)

\* What is shown wrongly is queued, or known to be missed.
Accounted == phase \in {"loaded", "subscribed"} => Outdated(shown, page, pending) \subseteq missed

\* The inductive invariant of the subscription.
SubInv ==
  /\ SubTypeOK
  /\ IsFiniteSet(InTable(entries))
  /\ connected <=> phase # "off"
  /\ Hashed
  /\ AgesHashed
  /\ Accounted

-------------------------------------------------------------------------------
(* Bounds, records and sets.                                               *)

\* What the proofs use of the constants.
LEMMA SubBounds ==
  /\ MaxNodes \in Nat \ {0} /\ BatchMax \in Nat \ {0} /\ Window \in 1 .. 2
  /\ MaxLate \in Nat \ {0} /\ MaxAge \in Nat /\ StaleAge \in Nat
  /\ AgeCap \in Nat /\ AgeCap = MaxAge + Window - 1
  /\ NoRecord \notin Facts /\ NoRecord \notin Records /\ NoRecord \notin Hashes
<1>1. /\ MaxNodes \in Nat \ {0} /\ BatchMax \in Nat \ {0} /\ Window \in 1 .. 2
      /\ MaxLate \in Nat \ {0} /\ MaxAge \in Nat /\ StaleAge \in Nat
      /\ NoRecord \notin Facts /\ NoRecord \notin Records
  BY SubscriptionAssumption, RecordAssumption
<1>2. AgeCap \in Nat /\ AgeCap = MaxAge + Window - 1 /\ MaxAge <= AgeCap
  BY <1>1 DEF AgeCap
<1>3. 0 .. MaxAge \subseteq 0 .. AgeCap
  BY <1>1, <1>2
<1>4. Hashes \subseteq Records
  BY <1>3 DEF Hashes, Records
<1> QED
  BY <1>1, <1>2, <1>4

\* The smaller of two numbers.
LEMMA LeastIs ==
  ASSUME NEW a \in Int, NEW b \in Int
  PROVE  /\ Least(a, b) \in {a, b} /\ Least(a, b) <= a /\ Least(a, b) <= b
         /\ Least(a, b) \in Int
BY DEF Least

\* The hash of a record.
LEMMA HashIs ==
  ASSUME NEW e \in Records, NEW ago \in Nat
  PROVE  /\ Hash(e, ago) \in Hashes
         /\ Hash(e, ago).facts = e.facts
         /\ Hash(e, ago).age = Least(MaxAge, IF e.age <= ago THEN 0 ELSE e.age - ago)
<1> DEFINE a == IF e.age <= ago THEN 0 ELSE e.age - ago
<1>1. e.age \in Nat /\ e.facts \in Facts /\ MaxAge \in Nat
  BY SubBounds DEF Records
<1>2. a \in Nat
  BY <1>1
<1> HIDE DEF a
<1>3. Least(MaxAge, a) \in 0 .. MaxAge
  BY <1>1, <1>2 DEF Least
<1>4. Hash(e, ago) = [facts |-> e.facts, age |-> Least(MaxAge, a)]
  BY DEF Hash, a
<1> QED
  BY <1>1, <1>3, <1>4 DEF Hashes, a

\* Time passes for the entries.
LEMMA AgedTable ==
  ASSUME SubTypeOK, NEW d \in Nat
  PROVE  /\ Aged(d) \in [Nodes -> Records \cup {NoRecord}]
         /\ InTable(Aged(d)) = InTable(entries)
         /\ FactsOf(Aged(d)) = FactsOf(entries)
         /\ FactsOf(Aged(d)) \in [Nodes -> Facts \cup {NoRecord}]
         /\ \A n \in InTable(entries) :
              /\ entries[n] \in Records /\ Aged(d)[n] \in Records
              /\ Aged(d)[n].facts = entries[n].facts
              /\ Aged(d)[n].age = Least(AgeCap, entries[n].age + d)
<1>1. entries \in [Nodes -> Records \cup {NoRecord}]
  BY DEF SubTypeOK
<1>2. ASSUME NEW n \in Nodes, entries[n] # NoRecord
      PROVE  /\ entries[n] \in Records /\ Aged(d)[n] \in Records
             /\ Aged(d)[n].facts = entries[n].facts
             /\ Aged(d)[n].age = Least(AgeCap, entries[n].age + d)
  <2>1. entries[n] \in Records
    BY <1>1, <1>2
  <2>2. entries[n].age \in Nat /\ AgeCap \in Nat
    BY <2>1, SubBounds DEF Records
  <2>3. Least(AgeCap, entries[n].age + d) \in 0 .. AgeCap
    BY <2>2 DEF Least
  <2>4. Aged(d)[n] = [entries[n] EXCEPT !.age = Least(AgeCap, entries[n].age + d)]
    BY <1>2 DEF Aged
  <2> HIDE DEF Aged
  <2> QED
    BY <2>1, <2>3, <2>4 DEF Records
<1>3. \A n \in Nodes : entries[n] = NoRecord => Aged(d)[n] = NoRecord
  BY DEF Aged
<1>4. Aged(d) = [n \in Nodes |-> Aged(d)[n]]
  BY DEF Aged
<1> HIDE DEF Aged
<1>5. \A n \in Nodes : Aged(d)[n] = NoRecord <=> entries[n] = NoRecord
  BY <1>2, <1>3, SubBounds
<1>6. \A n \in Nodes : entries[n] # NoRecord => Aged(d)[n].facts \in Facts
  BY <1>2 DEF Records
<1> QED
  BY <1>1, <1>2, <1>3, <1>4, <1>5, <1>6 DEF InTable, FactsOf

\* A set of numbers from 1 on that has no gaps is an interval.
LEMMA NoGaps ==
  ASSUME NEW L \in Nat, NEW S \in SUBSET (1 .. L),
         \A i \in S, j \in 1 .. L : j <= i => j \in S
  PROVE  IsFiniteSet(S) /\ Cardinality(S) \in 0 .. L /\ S = 1 .. Cardinality(S)
<1> DEFINE Out == (1 .. L + 1) \ S
<1>1. Out \in SUBSET Nat /\ Out # {}
  <2>1. L + 1 \in Out
    OBVIOUS
  <2> QED
    BY <2>1
<1>2. PICK u \in Out : \A x \in Out : u <= x
  <2> HIDE DEF Out
  <2>1. \E x \in Out : \A y \in Out : ~ (<<y, x>> \in OpToRel(<, Nat))
    BY <1>1, NatLessThanWellFounded, WFMin, Zenon
  <2>2. \A x \in Nat, y \in Nat : <<y, x>> \in OpToRel(<, Nat) <=> y < x
    BY DEF OpToRel
  <2>3. PICK x \in Out : \A y \in Out : ~ (y < x)
    BY <1>1, <2>1, <2>2, Zenon
  <2> QED
    BY <1>1, <2>3
<1>3. S = 1 .. (u - 1)
  <2>1. u \in 1 .. (L + 1) /\ u \notin S
    BY <1>2
  <2>2. ASSUME NEW x \in 1 .. L, x < u PROVE x \in S
    BY <1>2, <2>1, <2>2
  <2>3. ASSUME NEW x \in S PROVE x < u
    <3>1. x \in 1 .. L /\ (u <= x => u \in 1 .. L)
      BY <2>1
    <3>2. u <= x => u \in S
      BY <2>3, <3>1
    <3> QED
      BY <2>1, <3>1, <3>2
  <2>4. ASSUME NEW x \in S PROVE x \in 1 .. (u - 1)
    BY <2>1, <2>3, <2>4
  <2>5. ASSUME NEW x \in 1 .. (u - 1) PROVE x \in S
    BY <2>1, <2>2
  <2> QED
    BY <2>4, <2>5
<1>4. Cardinality(1 .. (u - 1)) = u - 1 /\ IsFiniteSet(1 .. (u - 1))
  BY <1>2, FS_Interval
<1> QED
  BY <1>2, <1>3, <1>4

\* The nodes of a batch are the first ones of the list, and not fewer than fit into it unless
\* the list is at its end.
LEMMA ExaminedFirst ==
  ASSUME NEW t, pending \in Seq(Nodes)
  PROVE  LET k == Cardinality(Examined(t))
         IN  /\ k \in 0 .. Len(pending)
             /\ Examined(t) = 1 .. k
             /\ k < Len(pending) => BatchMax <= k
<1> DEFINE L == Len(pending)
           Before(i) == {j \in 1 .. (i - 1) : t[pending[j]] # NoRecord}
<1>1. L \in Nat /\ DOMAIN pending = 1 .. L
  BY LenProperties
<1>2. \A i \in 1 .. L + 1 : IsFiniteSet(Before(i)) /\ Cardinality(Before(i)) \in 0 .. (i - 1)
  <2> TAKE i \in 1 .. L + 1
  <2>1. Before(i) \in SUBSET (1 .. (i - 1)) /\ i \in Int
    BY <1>1
  <2>2. IsFiniteSet(1 .. (i - 1)) /\ Cardinality(1 .. (i - 1)) = i - 1
    <3>1. i - 1 \in Int /\ i >= 1 /\ 1 \in Int
      BY <1>1
    <3>2. /\ IsFiniteSet(1 .. (i - 1))
          /\ Cardinality(1 .. (i - 1)) = IF 1 > i - 1 THEN 0 ELSE i - 1 - 1 + 1
      BY <3>1, FS_Interval
    <3> QED
      BY <3>1, <3>2
  <2> HIDE DEF Before
  <2>3. IsFiniteSet(Before(i)) /\ Cardinality(Before(i)) <= Cardinality(1 .. (i - 1))
    BY <2>1, <2>2, FS_Subset
  <2>4. Cardinality(Before(i)) \in Nat
    BY <2>3, FS_CardinalityType
  <2> QED
    BY <1>1, <2>2, <2>3, <2>4
<1>3. \A i, j \in 1 .. L + 1 : j <= i => Cardinality(Before(j)) <= Cardinality(Before(i))
  <2> TAKE i, j \in 1 .. L + 1
  <2> HAVE j <= i
  <2>1. Before(j) \in SUBSET Before(i)
    BY <1>1
  <2> HIDE DEF Before
  <2> QED
    BY <1>2, <2>1, FS_Subset
<1>4. Examined(t) = {i \in 1 .. L : Cardinality(Before(i)) < BatchMax}
  BY <1>1 DEF Examined
<1> HIDE DEF Before
<1> DEFINE S == Examined(t)
           k == Cardinality(S)
<1>5. S \in SUBSET (1 .. L) /\ \A i \in S, j \in 1 .. L : j <= i => j \in S
  <2>1. S \in SUBSET (1 .. L)
    BY <1>4
  <2>2. ASSUME NEW i \in S, NEW j \in 1 .. L, j <= i PROVE j \in S
    <3>1. /\ i \in 1 .. L + 1 /\ j \in 1 .. L + 1
          /\ Cardinality(Before(i)) < BatchMax
      BY <1>1, <1>4, <2>2
    <3>2. Cardinality(Before(j)) <= Cardinality(Before(i))
      BY <1>3, <2>2, <3>1
    <3>3. Cardinality(Before(j)) \in Int /\ Cardinality(Before(i)) \in Int
      BY <1>2, <3>1
    <3> QED
      BY <1>4, <2>2, <3>1, <3>2, <3>3, SubBounds
  <2> QED
    BY <2>1, <2>2
<1> HIDE DEF S
<1>6. k \in 0 .. L /\ S = 1 .. k
  BY <1>1, <1>5, NoGaps
<1>7. k < L => BatchMax <= k
  <2> HAVE k < L
  <2>1. k + 1 \in 1 .. L /\ k + 1 \notin S
    BY <1>1, <1>6
  <2>2. Cardinality(Before(k + 1)) >= BatchMax
    <3>1. ~(Cardinality(Before(k + 1)) < BatchMax)
      BY <1>4, <2>1 DEF S
    <3> QED
      BY <1>1, <1>2, <1>6, <3>1, SubBounds
  <2>3. Cardinality(Before(k + 1)) <= k
    BY <1>1, <1>2, <1>6, <2>1
  <2> QED
    BY <1>1, <1>2, <1>6, <2>1, <2>2, <2>3, SubBounds
<1> QED
  BY <1>6, <1>7 DEF S

-------------------------------------------------------------------------------
(* The pending list.                                                       *)

\* The elements of a list by their places.
LEMMA RangeIs ==
  ASSUME NEW S, NEW q \in Seq(S)
  PROVE  /\ DOMAIN q = 1 .. Len(q) /\ Len(q) \in Nat
         /\ \A n : n \in Range(q) <=> \E i \in 1 .. Len(q) : q[i] = n
         /\ Range(q) \subseteq S
<1>1. DOMAIN q = 1 .. Len(q) /\ Len(q) \in Nat
  BY LenProperties
<1>2. \A n : n \in Range(q) <=> \E i \in 1 .. Len(q) : q[i] = n
  BY <1>1 DEF Range
<1>3. \A i \in 1 .. Len(q) : q[i] \in S
  BY ElementOfSeq
<1> QED
  BY <1>1, <1>2, <1>3

\* The place of a node is the one place it has in a list that names no node twice.
LEMMA PlaceIs ==
  ASSUME NEW q \in Seq(Nodes), IsInjective(q), NEW i \in 1 .. Len(q)
  PROVE  Place(q[i], q) = i
<1>1. DOMAIN q = 1 .. Len(q)
  BY RangeIs
<1>2. \A j \in DOMAIN q : q[j] = q[i] => j = i
  BY <1>1 DEF IsInjective
<1>3. \E j \in DOMAIN q : q[j] = q[i]
  BY <1>1
<1> QED
  BY <1>2, <1>3 DEF Place

\* What an emission leaves of the list: all behind the nodes examined, at the same distance.
LEMMA LeftoverIs ==
  ASSUME NEW t, pending \in Seq(Nodes), IsInjective(pending)
  PROVE  LET k == Cardinality(Examined(t))
             r == Leftover(t)
         IN  /\ k \in 0 .. Len(pending)
             /\ r \in Seq(Nodes) /\ Len(r) = Len(pending) - k /\ IsInjective(r)
             /\ \A i \in 1 .. Len(r) : i + k \in 1 .. Len(pending) /\ r[i] = pending[i + k]
<1> DEFINE k == Cardinality(Examined(t))
           L == Len(pending)
           r == Leftover(t)
<1>1. L \in Nat /\ k \in 0 .. L
  BY ExaminedFirst, LenProperties
<1>2. \A i \in 1 .. L : pending[i] \in Nodes
  BY ElementOfSeq
<1>3. r = SubSeq(pending, k + 1, L)
  BY DEF Leftover
<1> HIDE DEF k, r
<1>4. k + 1 \in Int /\ L \in Int /\ \A i \in k + 1 .. L : pending[i] \in Nodes
  BY <1>1, <1>2
<1>5. /\ r \in Seq(Nodes)
      /\ Len(r) = IF k + 1 <= L THEN L - (k + 1) + 1 ELSE 0
      /\ \A i \in 1 .. L - (k + 1) + 1 : r[i] = pending[(k + 1) + i - 1]
  BY <1>3, <1>4, SubSeqProperties
<1>6. Len(r) = L - k
  BY <1>1, <1>5
<1>7. ASSUME NEW i \in 1 .. Len(r)
      PROVE  i + k \in 1 .. L /\ r[i] = pending[i + k]
  <2>1. i \in 1 .. L - (k + 1) + 1 /\ (k + 1) + i - 1 = i + k
    BY <1>1, <1>6
  <2> QED
    BY <1>1, <1>5, <1>6, <2>1
<1>8. IsInjective(r)
  <2>1. DOMAIN r = 1 .. Len(r)
    BY <1>5, LenProperties
  <2>2. DOMAIN pending = 1 .. L
    BY LenProperties
  <2>3. SUFFICES ASSUME NEW a \in 1 .. Len(r), NEW b \in 1 .. Len(r), r[a] = r[b]
                 PROVE  a = b
    BY <2>1 DEF IsInjective
  <2>4. a + k = b + k
    BY <1>7, <2>2, <2>3 DEF IsInjective
  <2> QED
    BY <1>1, <1>6, <2>4
<1> QED
  BY <1>1, <1>5, <1>6, <1>7, <1>8 DEF k, r

\* A pending node that is still in the table is in the batch or stays in the list.
LEMMA SentOrLeft ==
  ASSUME NEW t, pending \in Seq(Nodes), IsInjective(pending),
         NEW n \in Range(pending), n \in InTable(t)
  PROVE  n \in Batch(t) \/ n \in Range(Leftover(t))
<1> DEFINE k == Cardinality(Examined(t))
           r == Leftover(t)
<1>1. PICK i \in 1 .. Len(pending) : pending[i] = n
  BY RangeIs
<1>2. Examined(t) = 1 .. k
  BY ExaminedFirst
<1>3. /\ k \in 0 .. Len(pending) /\ r \in Seq(Nodes) /\ Len(r) = Len(pending) - k
      /\ \A j \in 1 .. Len(r) : r[j] = pending[j + k]
  BY LeftoverIs
<1>4. Len(pending) \in Nat
  BY LenProperties
<1> HIDE DEF k, r
<1>5. CASE i <= k
  <2>1. i \in Examined(t)
    BY <1>2, <1>3, <1>4, <1>5
  <2> QED
    BY <1>1, <2>1 DEF Batch
<1>6. CASE ~(i <= k)
  <2>1. i - k \in 1 .. Len(r) /\ (i - k) + k = i
    BY <1>3, <1>4, <1>6
  <2>2. r[i - k] = n
    BY <1>1, <1>3, <2>1
  <2>3. n \in Range(r)
    BY <1>3, <2>1, <2>2, RangeIs
  <2> QED
    BY <2>3 DEF r
<1> QED
  BY <1>5, <1>6

\* The batch names nodes of the pending list that are in the table.
LEMMA BatchIs ==
  ASSUME NEW t, pending \in Seq(Nodes)
  PROVE  Batch(t) \subseteq Range(pending) \cap InTable(t)
<1>1. DOMAIN pending = 1 .. Len(pending)
  BY LenProperties
<1>2. Examined(t) \subseteq DOMAIN pending
  BY DEF Examined
<1> QED
  BY <1>1, <1>2 DEF Batch, Range

\* Every order of a finite set of nodes is a list of them all, each once.
LEMMA OrderIs ==
  ASSUME NEW S \in SUBSET Nodes, IsFiniteSet(S), NEW s \in Orders(S)
  PROVE  s \in Seq(Nodes) /\ IsInjective(s) /\ Range(s) = S
<1> DEFINE c == Cardinality(S)
<1>1. c \in Nat
  BY FS_CardinalityType
<1> HIDE DEF c
<1>2. s \in [1 .. c -> S] /\ IsInjective(s) /\ \A x \in S : \E i \in 1 .. c : s[i] = x
  BY DEF Orders, Bijection, Injection, Surjection, c
<1>3. s \in Seq(Nodes)
  BY <1>1, <1>2
<1>4. Range(s) = S
  BY <1>2 DEF Range
<1> QED
  BY <1>2, <1>3, <1>4

\* What queueing makes of the list: those that wait keep their places, and new ones follow.
LEMMA QueueIs ==
  ASSUME NEW q \in Seq(Nodes), Len(q) <= MaxNodes, IsInjective(q),
         NEW s \in Seq(Nodes), IsInjective(s), Range(s) \cap Range(q) = {}
  PROVE  LET r == Queue(q, s)
         IN  /\ r \in Seq(Nodes) /\ Len(r) <= MaxNodes /\ IsInjective(r)
             /\ Len(q) <= Len(r)
             /\ \A i \in 1 .. Len(q) : r[i] = q[i]
             /\ Range(q) \subseteq Range(r)
             /\ Range(r) \subseteq Range(q) \cup Range(s)
<1> DEFINE r == Queue(q, s)
           a == Len(q)
           b == Len(s)
           m == Least(MaxNodes, a + b)
           w == q \o s
<1>1. a \in Nat /\ b \in Nat /\ MaxNodes \in Nat /\ a <= MaxNodes
  BY SubBounds, LenProperties
<1>2. m \in Nat /\ m <= a + b /\ m <= MaxNodes /\ a <= m
  BY <1>1 DEF Least
<1>3. \A i \in 1 .. a + b : w[i] = IF i <= a THEN q[i] ELSE s[i - a]
  BY ConcatProperties
<1>4. r = SubSeq(w, 1, m)
  BY DEF Queue
<1>5. /\ \A i \in 1 .. a : q[i] \in Nodes /\ q[i] \in Range(q)
      /\ \A i \in 1 .. b : s[i] \in Nodes /\ s[i] \in Range(s)
      /\ DOMAIN q = 1 .. a /\ DOMAIN s = 1 .. b
  BY RangeIs
<1> HIDE DEF w, m, r, a, b
<1>6. ASSUME NEW i \in 1 .. m
      PROVE  /\ i \in 1 .. a + b
             /\ i <= a => i \in 1 .. a /\ w[i] = q[i]
             /\ ~(i <= a) => i - a \in 1 .. b /\ w[i] = s[i - a]
  BY <1>1, <1>2, <1>3
<1>7. \A i \in 1 .. m : w[i] \in Nodes /\ w[i] \in Range(q) \cup Range(s)
  BY <1>5, <1>6
<1>8. /\ r \in Seq(Nodes)
      /\ Len(r) = IF 1 <= m THEN m - 1 + 1 ELSE 0
      /\ \A i \in 1 .. m - 1 + 1 : r[i] = w[1 + i - 1]
  BY <1>2, <1>4, <1>7, SubSeqProperties
<1>9. Len(r) = m /\ \A i \in 1 .. m : r[i] = w[i]
  BY <1>2, <1>8
<1>10. DOMAIN r = 1 .. m
  BY <1>8, <1>9, LenProperties
<1>11. IsInjective(r)
  <2>1. SUFFICES ASSUME NEW i \in 1 .. m, NEW j \in 1 .. m, w[i] = w[j]
                 PROVE  i = j
    BY <1>9, <1>10 DEF IsInjective
  <2>2. (i <= a) <=> (j <= a)
    BY <1>5, <1>6, <2>1
  <2>3. CASE i <= a
    BY <1>5, <1>6, <2>1, <2>2, <2>3 DEF IsInjective
  <2>4. CASE ~(i <= a)
    <3>1. i - a = j - a
      BY <1>5, <1>6, <2>1, <2>2, <2>4 DEF IsInjective
    <3> QED
      BY <1>1, <1>2, <3>1
  <2> QED
    BY <2>3, <2>4
<1>12. \A i \in 1 .. a : i \in 1 .. m /\ r[i] = q[i]
  BY <1>1, <1>2, <1>6, <1>9
<1>13. Range(q) \subseteq Range(r)
  <2> SUFFICES ASSUME NEW n \in Range(q) PROVE n \in Range(r)
    OBVIOUS
  <2>1. PICK i \in 1 .. a : q[i] = n
    BY RangeIs DEF a
  <2> QED
    BY <1>10, <1>12, <2>1 DEF Range
<1>14. Range(r) \subseteq Range(q) \cup Range(s)
  BY <1>7, <1>9, <1>10 DEF Range
<1> QED
  BY <1>2, <1>8, <1>9, <1>11, <1>12, <1>13, <1>14 DEF r, a

-------------------------------------------------------------------------------
(* The steps of the table.                                                 *)

\* Hearing a node keeps the table in its room: a new entry of a full table takes the
\* place of another one.
LEMMA HearKeepsRoom ==
  ASSUME SubInv, NEW n \in Nodes, NEW facts \in Facts, NEW evicted \in Evictable(n),
         entries' = [m \in Nodes |-> IF m = n THEN [facts |-> facts, age |-> 0]
                                     ELSE IF m \in evicted THEN NoRecord ELSE entries[m]]
  PROVE  /\ entries' \in [Nodes -> Records \cup {NoRecord}]
         /\ IsFiniteSet(InTable(entries')) /\ Cardinality(InTable(entries')) <= MaxNodes
<1> DEFINE T == InTable(entries)
<1>1. entries \in [Nodes -> Records \cup {NoRecord}] /\ IsFiniteSet(T) /\ Cardinality(T) <= MaxNodes
  BY DEF SubInv, SubTypeOK
<1>2. [facts |-> facts, age |-> 0] \in Records
  BY SubBounds DEF Records
<1>3. entries' \in [Nodes -> Records \cup {NoRecord}]
  BY <1>1, <1>2
<1>4. InTable(entries') = (T \ evicted) \cup {n}
  BY <1>2, <1>3, SubBounds DEF InTable
<1>5. Cardinality(T) \in Nat /\ MaxNodes \in Nat
  BY <1>1, SubBounds, FS_CardinalityType
<1>6. CASE n \in T \/ Cardinality(T) < MaxNodes
  <2>1. evicted = {}
    BY <1>6 DEF Evictable
  <2>2. InTable(entries') = T \cup {n}
    BY <1>4, <2>1
  <2>3. /\ IsFiniteSet(T \cup {n})
        /\ Cardinality(T \cup {n}) = IF n \in T THEN Cardinality(T) ELSE Cardinality(T) + 1
    BY <1>1, FS_AddElement
  <2> QED
    BY <1>1, <1>3, <1>5, <1>6, <2>2, <2>3
<1>7. CASE ~(n \in T \/ Cardinality(T) < MaxNodes)
  <2>1. PICK m \in T : evicted = {m}
    BY <1>7 DEF Evictable
  <2> DEFINE R == T \ {m}
  <2>2. IsFiniteSet(R) /\ Cardinality(R) = Cardinality(T) - 1
    BY <1>1, <2>1, FS_RemoveElement
  <2>3. n \notin R
    BY <1>7
  <2>4. InTable(entries') = R \cup {n}
    BY <1>4, <2>1
  <2> HIDE DEF R
  <2>5. IsFiniteSet(R \cup {n}) /\ Cardinality(R \cup {n}) = Cardinality(R) + 1
    BY <2>2, <2>3, FS_AddElement
  <2>6. Cardinality(R \cup {n}) = Cardinality(T)
    BY <1>5, <2>2, <2>5
  <2>7. IsFiniteSet(InTable(entries')) /\ Cardinality(InTable(entries')) = Cardinality(T)
    BY <2>4, <2>5, <2>6
  <2> QED
    BY <1>1, <1>3, <2>7
<1> QED
  BY <1>6, <1>7

\* A frame that is applied keeps the invariant: the age of its node is now 0.
LEMMA HearKeeps ==
  ASSUME SubInv, NEW n \in Nodes, NEW facts \in Facts, Hear(n, facts)
  PROVE  SubInv'
<1>1. PICK evicted \in Evictable(n) :
        entries' = [m \in Nodes |-> IF m = n THEN [facts |-> facts, age |-> 0]
                                    ELSE IF m \in evicted THEN NoRecord ELSE entries[m]]
  BY DEF Hear
<1>2. UNCHANGED <<page, since, prev, pending, connected, phase, fetched, shown, missed>>
  BY DEF Hear, bridgeVars, phoneVars
<1>3. /\ entries' \in [Nodes -> Records \cup {NoRecord}]
      /\ IsFiniteSet(InTable(entries')) /\ Cardinality(InTable(entries')) <= MaxNodes
  BY <1>1, HearKeepsRoom
<1>4. SubTypeOK'
  BY <1>2, <1>3 DEF SubInv, SubTypeOK, InTable, Hashes, Records, AgeCap
<1>5. AgesHashed'
  <2> SUFFICES ASSUME since < Window, NEW m \in Nodes, entries'[m] # NoRecord, prev[m] # NoRecord
               PROVE  \/ entries'[m].age <= since
                      \/ prev[m].age = Least(MaxAge, entries'[m].age - since)
    BY <1>2 DEF AgesHashed, InTable, Least
  <2>1. CASE m = n
    <3>1. entries'[m].age = 0
      BY <1>1, <2>1
    <3>2. since \in 0 .. Window
      BY DEF SubInv, SubTypeOK
    <3> QED
      BY <3>1, <3>2, SubBounds
  <2>2. CASE m # n
    <3>1. entries'[m] = entries[m]
      BY <1>1, <2>2
    <3> QED
      BY <3>1 DEF SubInv, AgesHashed, InTable
  <2> QED
    BY <2>1, <2>2
<1>6. IsFiniteSet(InTable(entries))'
  BY <1>3 DEF InTable
<1> QED
  BY <1>2, <1>4, <1>5, <1>6 DEF SubInv, Hashed, Accounted, Outdated, FactsOf

\* A change of what an entry says keeps the invariant: ages do not move.
LEMMA AlterKeeps ==
  ASSUME SubInv, NEW n \in Nodes, NEW facts \in Facts, Alter(n, facts)
  PROVE  SubInv'
<1>1. /\ entries[n] # NoRecord /\ entries' = [entries EXCEPT ![n].facts = facts]
      /\ UNCHANGED <<page, since, prev, pending, connected, phase, fetched, shown, missed>>
  BY DEF Alter, InTable, bridgeVars, phoneVars
<1>2. entries \in [Nodes -> Records \cup {NoRecord}]
  BY DEF SubInv, SubTypeOK
<1>3. entries[n] \in Records
  BY <1>1, <1>2
<1>4. /\ [entries[n] EXCEPT !.facts = facts] \in Records
      /\ [entries[n] EXCEPT !.facts = facts].age = entries[n].age
  BY <1>3 DEF Records
<1>5. entries' = [entries EXCEPT ![n] = [entries[n] EXCEPT !.facts = facts]]
  BY <1>1, <1>2
<1>6. /\ entries' \in [Nodes -> Records \cup {NoRecord}]
      /\ \A m \in Nodes : entries'[m] # NoRecord <=> entries[m] # NoRecord
      /\ \A m \in Nodes : entries[m] # NoRecord => entries'[m].age = entries[m].age
  BY <1>1, <1>2, <1>3, <1>4, <1>5, SubBounds
<1>7. InTable(entries') = InTable(entries)
  BY <1>6 DEF InTable
<1>8. SubTypeOK'
  BY <1>1, <1>6, <1>7 DEF SubInv, SubTypeOK, InTable, Hashes, Records, AgeCap
<1>9. AgesHashed'
  BY <1>1, <1>6, <1>7 DEF SubInv, AgesHashed, InTable, Least
<1>10. IsFiniteSet(InTable(entries))'
  BY <1>7 DEF SubInv, InTable
<1> QED
  BY <1>1, <1>8, <1>9, <1>10 DEF SubInv, Hashed, Accounted, Outdated, FactsOf

-------------------------------------------------------------------------------
(* A pass of update_ble.                                                   *)

\* Within a window the ages go on as the hashes say.
LEMMA AgesGoOn ==
  ASSUME SubInv, NEW d \in Nat \ {0}, since + d < Window,
         NEW n \in InTable(entries), prev[n] # NoRecord
  PROVE  \/ Aged(d)[n].age <= since + d
         \/ prev[n].age = Least(MaxAge, Aged(d)[n].age - (since + d))
<1> DEFINE a == entries[n].age
           b == Aged(d)[n].age
<1>1. since \in Nat /\ since < Window /\ d \in Nat /\ Window \in Nat
  BY SubBounds DEF SubInv, SubTypeOK
<1>2. a <= since \/ prev[n].age = Least(MaxAge, a - since)
  BY <1>1 DEF SubInv, AgesHashed
<1>3. entries[n] \in Records /\ b = Least(AgeCap, a + d)
  BY AgedTable DEF SubInv
<1>4. a \in Nat /\ AgeCap \in Nat /\ MaxAge \in Nat /\ AgeCap = MaxAge + Window - 1
  BY <1>3, SubBounds DEF Records
<1> HIDE DEF a, b
<1>5. b = IF AgeCap <= a + d THEN AgeCap ELSE a + d
  BY <1>3, <1>4 DEF Least
<1>6. CASE a <= since
  BY <1>1, <1>4, <1>5, <1>6 DEF b
<1>7. CASE ~(a <= since)
  <2>1. Least(MaxAge, b - (since + d)) = Least(MaxAge, a - since)
    BY <1>1, <1>4, <1>5 DEF Least
  <2> QED
    BY <1>2, <1>7, <2>1 DEF b
<1> QED
  BY <1>6, <1>7

\* A pass while no phone is connected only lets time go by.
LEMMA IdlePassKeeps ==
  ASSUME SubInv, NEW d \in Nat \ {0}, ~connected,
         entries' = Aged(d), page' = FactsOf(Aged(d)), since' = Least(Window, since + d),
         UNCHANGED <<prev, pending, connected, phase, fetched, shown, missed>>
  PROVE  SubInv'
<1>1. since \in 0 .. Window /\ Window \in Nat \ {0} /\ d \in Nat
  BY SubBounds DEF SubInv, SubTypeOK
<1>2. since' \in 1 .. Window /\ (since' < Window => since' = since + d)
  BY <1>1 DEF Least
<1>3. /\ Aged(d) \in [Nodes -> Records \cup {NoRecord}]
      /\ InTable(Aged(d)) = InTable(entries)
      /\ FactsOf(Aged(d)) \in [Nodes -> Facts \cup {NoRecord}]
  BY AgedTable DEF SubInv
<1>4. InTable(entries') = InTable(entries)
  BY <1>3
<1>5. SubTypeOK'
  <2>1. entries' \in [Nodes -> Records \cup {NoRecord}]
    BY <1>3
  <2>2. Cardinality(InTable(entries')) <= MaxNodes
    BY <1>4 DEF SubInv, SubTypeOK
  <2>3. page' \in [Nodes -> Facts \cup {NoRecord}] /\ since' \in 0 .. Window
    BY <1>1, <1>2, <1>3
  <2> QED
    BY <2>1, <2>2, <2>3 DEF SubInv, SubTypeOK, InTable, Hashes, Records, AgeCap
<1>6. AgesHashed'
  <2> SUFFICES ASSUME since' < Window, NEW n \in InTable(entries'), prev[n] # NoRecord
               PROVE  \/ entries'[n].age <= since'
                      \/ prev[n].age = Least(MaxAge, entries'[n].age - since')
    BY DEF AgesHashed, InTable, Least
  <2> QED
    BY <1>2, <1>4, AgesGoOn
<1>7. phase = "off" /\ phase' = "off"
  BY DEF SubInv
<1>8. IsFiniteSet(InTable(entries))'
  BY <1>4 DEF SubInv, InTable
<1> QED
  BY <1>2, <1>5, <1>6, <1>7, <1>8 DEF SubInv, Hashed, Accounted

\* The end of a window keeps the invariant: a node that was waiting is sent or waits on.
LEMMA EmitKeeps ==
  ASSUME SubInv, NEW d \in Nat \ {0}, Emit(Aged(d)),
         entries' = Aged(d), page' = FactsOf(Aged(d)), UNCHANGED <<connected, phase, fetched>>
  PROVE  SubInv'
<1> DEFINE t == Aged(d)
<1>1. /\ t \in [Nodes -> Records \cup {NoRecord}] /\ InTable(t) = InTable(entries)
      /\ FactsOf(t) \in [Nodes -> Facts \cup {NoRecord}]
      /\ \A n \in InTable(t) : t[n] \in Records
  BY AgedTable DEF SubInv
<1>2. /\ entries' = t /\ page' = FactsOf(t) /\ pending' = Leftover(t) /\ since' = 0
      /\ prev' = [n \in Nodes |-> IF t[n] = NoRecord THEN NoRecord ELSE Hash(t[n], 0)]
      /\ shown' = Notified(t)
  BY DEF Emit
<1> DEFINE absorbed == {n \in InTable(t) \ Range(pending) : t[n].facts # page[n]}
           more == IF phase = "subscribed" THEN absorbed ELSE absorbed \cup Batch(t)
<1>3. missed' = IF phase \in {"loaded", "subscribed"}
                THEN (missed \cup more) \cap Outdated(shown', page', pending') ELSE {}
  BY DEF Emit, Miss
<1>4. /\ pending \in Seq(Nodes) /\ IsInjective(pending) /\ Len(pending) <= MaxNodes
      /\ shown \in [Nodes -> Facts \cup {NoRecord}] /\ missed \subseteq Nodes
  BY DEF SubInv, SubTypeOK
<1> HIDE DEF t
<1>5. \A n \in InTable(t) :
        /\ Hash(t[n], 0) \in Hashes /\ Hash(t[n], 0).facts = t[n].facts
        /\ Hash(t[n], 0).age = Least(MaxAge, IF t[n].age <= 0 THEN 0 ELSE t[n].age - 0)
  BY <1>1, HashIs
<1>6. SubTypeOK'
  <2>1. prev' \in [Nodes -> Hashes \cup {NoRecord}]
    BY <1>2, <1>5 DEF InTable
  <2>2. pending' \in Seq(Nodes) /\ Len(pending') <= MaxNodes /\ IsInjective(pending')
    <3>1. /\ Cardinality(Examined(t)) \in 0 .. Len(pending) /\ Len(pending) \in Nat
          /\ pending' \in Seq(Nodes) /\ IsInjective(pending')
          /\ Len(pending') = Len(pending) - Cardinality(Examined(t))
      BY <1>2, <1>4, LeftoverIs, LenProperties
    <3> QED
      BY <1>4, <3>1, SubBounds
  <2>3. shown' \in [Nodes -> Facts \cup {NoRecord}]
    <3>1. \A n \in Nodes : n \in Batch(t) => t[n].facts \in Facts
      BY <1>1, <1>4, BatchIs DEF Records
    <3> QED
      BY <1>2, <1>4, <3>1 DEF Notified
  <2>4. missed' \subseteq Nodes
    BY <1>3 DEF Outdated
  <2>5. Cardinality(InTable(entries')) <= MaxNodes
    BY <1>1, <1>2 DEF SubInv, SubTypeOK
  <2>6. since' \in 0 .. Window
    BY <1>2, SubBounds
  <2> QED
    BY <1>1, <1>2, <2>1, <2>2, <2>3, <2>4, <2>5, <2>6
    DEF SubInv, SubTypeOK, InTable, Hashes, Records, AgeCap
<1>7. Hashed'
  <2>1. \A n \in Nodes : t[n] # NoRecord => prev'[n] # NoRecord /\ prev'[n].facts = t[n].facts
    BY <1>2, <1>5, SubBounds DEF InTable
  <2>2. \A n \in Nodes : t[n] = NoRecord => prev'[n] = NoRecord
    BY <1>2
  <2>3. FactsOf(t) = FactsOf(prev')
    BY <2>1, <2>2 DEF FactsOf
  <2> QED
    BY <1>2, <2>3 DEF Hashed, FactsOf
<1>8. AgesHashed'
  <2> SUFFICES ASSUME NEW n \in InTable(t)
               PROVE  t[n].age <= 0 \/ prev'[n].age = Least(MaxAge, t[n].age - 0)
    BY <1>2 DEF AgesHashed, InTable, Least
  <2>1. prev'[n] = Hash(t[n], 0)
    BY <1>2 DEF InTable
  <2> QED
    BY <1>5, <2>1
<1>9. Accounted'
  <2> SUFFICES ASSUME phase \in {"loaded", "subscribed"},
                      NEW n \in Outdated(shown', page', pending')
               PROVE  n \in missed \cup more
    BY <1>3 DEF Accounted, Outdated
  <2>1. /\ n \in Nodes /\ page'[n] # NoRecord /\ shown'[n] # page'[n]
        /\ n \notin Range(Leftover(t))
    BY <1>2 DEF Outdated
  <2>2. n \in InTable(t) /\ page'[n] = t[n].facts
    BY <1>2, <2>1 DEF InTable, FactsOf
  <2>3. CASE n \in Range(pending)
    <3>1. n \in Batch(t)
      BY <1>4, <2>1, <2>2, <2>3, SentOrLeft
    <3>2. phase # "subscribed"
      BY <1>2, <2>1, <2>2, <3>1 DEF Notified
    <3> QED
      BY <3>1, <3>2
  <2>4. CASE n \notin Range(pending)
    <3>1. n \notin Batch(t)
      BY <1>4, <2>4, BatchIs
    <3>2. shown'[n] = shown[n]
      BY <1>2, <2>1, <3>1 DEF Notified
    <3>3. CASE t[n].facts # page[n]
      BY <2>2, <2>4, <3>3
    <3>4. CASE t[n].facts = page[n]
      <4>1. n \in Outdated(shown, page, pending)
        BY <2>1, <2>2, <2>4, <3>2, <3>4 DEF Outdated
      <4> QED
        BY <4>1 DEF SubInv, Accounted
    <3> QED
      BY <3>3, <3>4
  <2> QED
    BY <2>3, <2>4
<1>10. IsFiniteSet(InTable(entries))' /\ (connected <=> phase # "off")'
  BY <1>1, <1>2 DEF SubInv, InTable
<1> QED
  BY <1>6, <1>7, <1>8, <1>9, <1>10 DEF SubInv

\* The nodes a scan queues: an order of those that changed and do not wait yet.
LEMMA ScanOrder ==
  ASSUME SubInv, NEW d \in Nat, NEW ago,
         NEW s \in Orders(Changed(Aged(d), ago) \ Range(pending))
  PROVE  /\ s \in Seq(Nodes) /\ IsInjective(s)
         /\ Range(s) = Changed(Aged(d), ago) \ Range(pending)
<1> DEFINE S == Changed(Aged(d), ago) \ Range(pending)
<1>1. InTable(Aged(d)) = InTable(entries) /\ IsFiniteSet(InTable(entries))
  BY AgedTable DEF SubInv
<1>2. S \in SUBSET InTable(entries) /\ S \in SUBSET Nodes
  BY <1>1 DEF Changed, InTable
<1>3. IsFiniteSet(S)
  BY <1>1, <1>2, FS_Subset
<1> HIDE DEF S
<1>4. s \in Orders(S)
  BY DEF S
<1> QED
  BY <1>2, <1>3, <1>4, OrderIs DEF S

\* A pass inside a window keeps the invariant: it is the first one after the emission, so
\* that what the pages said before it is what was hashed.
LEMMA ScanKeeps ==
  ASSUME SubInv, NEW d \in Nat \ {0}, since + d < Window, Scan(Aged(d), since + d),
         entries' = Aged(d), page' = FactsOf(Aged(d)), UNCHANGED <<connected, phase, fetched>>
  PROVE  SubInv'
<1> DEFINE t == Aged(d)
           ago == since + d
<1>1. since = 0 /\ ago \in 1 .. Window /\ d \in Nat /\ ago \in Nat
  BY SubBounds DEF SubInv, SubTypeOK
<1>2. /\ t \in [Nodes -> Records \cup {NoRecord}] /\ InTable(t) = InTable(entries)
      /\ FactsOf(t) \in [Nodes -> Facts \cup {NoRecord}]
      /\ \A n \in InTable(t) : t[n] \in Records
  BY <1>1, AgedTable DEF SubInv
<1>3. PICK s \in Orders(Changed(t, ago) \ Range(pending)) :
        pending' = Queue(pending, s) /\ Miss(Range(s))
  BY DEF Scan
<1>4. /\ s \in Seq(Nodes) /\ IsInjective(s)
      /\ Range(s) = Changed(t, ago) \ Range(pending)
  BY <1>1, ScanOrder
<1>5. entries' = t /\ page' = FactsOf(t) /\ since' = ago /\ prev' = prev /\ shown' = shown
  BY DEF Scan
<1>6. missed' = IF phase \in {"loaded", "subscribed"}
                THEN (missed \cup Range(s)) \cap Outdated(shown', page', pending') ELSE {}
  BY <1>3 DEF Miss
<1>7. pending \in Seq(Nodes) /\ IsInjective(pending) /\ Len(pending) <= MaxNodes
  BY DEF SubInv, SubTypeOK
<1>8. /\ pending' \in Seq(Nodes) /\ Len(pending') <= MaxNodes /\ IsInjective(pending')
      /\ Range(pending) \subseteq Range(pending')
  BY <1>3, <1>4, <1>7, QueueIs
<1> HIDE DEF t, ago
<1>9. SubTypeOK'
  <2>1. missed' \subseteq Nodes
    BY <1>6 DEF Outdated
  <2>2. Cardinality(InTable(entries')) <= MaxNodes
    BY <1>2, <1>5 DEF SubInv, SubTypeOK
  <2>3. since' \in 0 .. Window
    BY <1>1, <1>5, SubBounds
  <2> QED
    BY <1>2, <1>5, <1>8, <2>1, <2>2, <2>3
    DEF SubInv, SubTypeOK, InTable, Hashes, Records, AgeCap
<1>10. Hashed' /\ AgesHashed'
  <2>1. since' # 0
    BY <1>1, <1>5
  <2>2. \A n \in InTable(t) : prev[n] # NoRecord =>
          t[n].age <= ago \/ prev[n].age = Least(MaxAge, t[n].age - ago)
    BY <1>2, AgesGoOn DEF t, ago
  <2>3. AgesHashed'
    BY <1>5, <2>2 DEF AgesHashed, InTable, Least
  <2> QED
    BY <2>1, <2>3 DEF Hashed
<1>11. Accounted'
  <2> SUFFICES ASSUME phase \in {"loaded", "subscribed"},
                      NEW n \in Outdated(shown, page', pending')
               PROVE  n \in missed \cup Range(s)
    BY <1>5, <1>6 DEF Accounted, Outdated
  <2>1. n \in Nodes /\ page'[n] # NoRecord /\ shown[n] # page'[n] /\ n \notin Range(pending)
    BY <1>8 DEF Outdated
  <2>2. n \in InTable(t) /\ page'[n] = t[n].facts
    BY <1>5, <2>1 DEF InTable, FactsOf
  <2>3. CASE n \in Changed(t, ago)
    BY <1>4, <2>1, <2>3
  <2>4. CASE n \notin Changed(t, ago)
    <3>1. prev[n] # NoRecord /\ prev[n] = Hash(t[n], ago)
      BY <2>2, <2>4 DEF Changed
    <3>2. prev[n].facts = t[n].facts
      BY <1>1, <1>2, <2>2, <3>1, HashIs
    <3>3. page[n] = prev[n].facts
      BY <1>1, <2>1, <3>1 DEF SubInv, Hashed, FactsOf
    <3>4. n \in Outdated(shown, page, pending)
      BY <2>1, <2>2, <3>2, <3>3 DEF Outdated
    <3> QED
      BY <3>4 DEF SubInv, Accounted
  <2> QED
    BY <2>3, <2>4
<1>12. IsFiniteSet(InTable(entries))' /\ (connected <=> phase # "off")'
  BY <1>2, <1>5 DEF SubInv, InTable
<1> QED
  BY <1>9, <1>10, <1>11, <1>12 DEF SubInv

\* The three cases of a pass.
LEMMA PassCases ==
  ASSUME SubInv, NEW d \in 1 .. MaxLate, Pass(d)
  PROVE  /\ d \in Nat \ {0}
         /\ entries' = Aged(d) /\ page' = FactsOf(Aged(d))
         /\ UNCHANGED <<connected, phase, fetched>>
         /\ \/ /\ ~connected /\ since' = Least(Window, since + d)
               /\ UNCHANGED <<prev, pending, shown, missed>>
            \/ Emit(Aged(d))
            \/ since + d < Window /\ Scan(Aged(d), since + d)
<1>1. d \in Nat \ {0} /\ Window \in Nat /\ since \in Nat
  BY SubBounds DEF SubInv, SubTypeOK
<1>2. Least(Window, since + d) < Window => since + d < Window /\ Least(Window, since + d) = since + d
  BY <1>1 DEF Least
<1>3. /\ entries' = Aged(d) /\ page' = FactsOf(Aged(d))
      /\ UNCHANGED <<connected, phase, fetched>>
  BY DEF Pass, phoneVars
<1>4. \/ /\ ~connected /\ since' = Least(Window, since + d)
         /\ UNCHANGED <<prev, pending, shown, missed>>
      \/ Emit(Aged(d))
      \/ Least(Window, since + d) < Window /\ Scan(Aged(d), Least(Window, since + d))
  BY DEF Pass
<1> QED
  BY <1>1, <1>2, <1>3, <1>4

\* A pass keeps the invariant.
LEMMA PassKeeps ==
  ASSUME SubInv, NEW d \in 1 .. MaxLate, Pass(d)
  PROVE  SubInv'
BY PassCases, IdlePassKeeps, EmitKeeps, ScanKeeps

-------------------------------------------------------------------------------
(* The phone, and the theorems.                                            *)

\* What the phone does keeps the invariant.
LEMMA PhoneKeeps ==
  ASSUME SubInv, Connect \/ Listen \/ Disconnect
  PROVE  SubInv'
<1>1. UNCHANGED <<entries, page, since, prev, pending>>
  BY DEF Connect, Listen, ReadPage, StorePage, FailRefresh, Subscribe, Disconnect, bridgeVars
<1>2. (IsFiniteSet(InTable(entries)) /\ Hashed /\ AgesHashed)'
  BY <1>1 DEF SubInv, InTable, Hashed, FactsOf, AgesHashed, Least
<1>3. /\ connected' \in BOOLEAN /\ phase' \in {"off", "on", "loaded", "subscribed"}
      /\ fetched' \in [Nodes -> Facts \cup {NoRecord}] \cup {NoRecord}
      /\ shown' \in [Nodes -> Facts \cup {NoRecord}]
      /\ missed' \subseteq Nodes
      /\ connected' <=> phase' # "off"
      /\ Accounted'
  <2> USE DEF SubInv, SubTypeOK, Accounted, Outdated
  <2>1. CASE Connect
    BY <2>1 DEF Connect, LinkUp
  <2>2. CASE ReadPage
    BY <2>2 DEF ReadPage, bridgeVars
  <2>3. CASE StorePage
    BY <2>3 DEF StorePage, Loaded, bridgeVars
  <2>4. CASE FailRefresh
    BY <2>4 DEF FailRefresh, Loaded, bridgeVars
  <2>5. CASE Subscribe
    BY <2>5 DEF Subscribe, bridgeVars
  <2>6. CASE Disconnect
    BY <2>6 DEF Disconnect, LinkDown
  <2> QED
    BY <2>1, <2>2, <2>3, <2>4, <2>5, <2>6 DEF Listen
<1>4. SubTypeOK'
  BY <1>1, <1>3 DEF SubInv, SubTypeOK, InTable, Hashes, Records, AgeCap
<1> QED
  BY <1>2, <1>3, <1>4 DEF SubInv

\* The first state satisfies the invariant.
LEMMA SubInit == Init => SubInv
<1> SUFFICES ASSUME Init PROVE SubInv
  OBVIOUS
<1> USE DEF Init
<1>1. InTable(entries) = {}
  BY DEF InTable
<1>2. IsFiniteSet(InTable(entries)) /\ Cardinality(InTable(entries)) = 0
  BY <1>1, FS_EmptySet
<1>3. FactsOf(entries) = [n \in Nodes |-> NoRecord]
  BY DEF FactsOf
<1>4. pending \in Seq(Nodes) /\ Len(pending) = 0 /\ IsInjective(pending)
  BY DEF IsInjective
<1>5. SubTypeOK
  <2>1. Cardinality(InTable(entries)) <= MaxNodes /\ Len(pending) <= MaxNodes
    BY <1>2, <1>4, SubBounds
  <2>2. since \in 0 .. Window
    BY SubBounds
  <2>3. /\ entries \in [Nodes -> Records \cup {NoRecord}]
        /\ prev \in [Nodes -> Hashes \cup {NoRecord}]
        /\ page \in [Nodes -> Facts \cup {NoRecord}]
        /\ shown \in [Nodes -> Facts \cup {NoRecord}]
    BY <1>3
  <2> QED
    BY <1>4, <2>1, <2>2, <2>3 DEF SubTypeOK
<1>6. Hashed /\ AgesHashed /\ Accounted
  BY SubBounds DEF Hashed, AgesHashed, Accounted
<1> QED
  BY <1>2, <1>5, <1>6 DEF SubInv

\* The invariant of the subscription holds throughout: what is hashed agrees with the
\* pages and the ages, and what a phone shows wrongly is queued or counted as missed.
THEOREM SubscriptionInvariant == SubSpec => []SubInv
<1>1. SubInv /\ [Next]_vars => SubInv'
  <2> SUFFICES ASSUME SubInv, [Next]_vars PROVE SubInv'
    OBVIOUS
  <2>1. ASSUME NEW n \in Nodes, NEW f \in Facts, Hear(n, f) \/ Alter(n, f) PROVE SubInv'
    BY <2>1, HearKeeps, AlterKeeps
  <2>2. CASE LoopPass
    BY <2>2, PassKeeps DEF LoopPass
  <2>3. CASE Connect \/ Listen \/ Disconnect
    BY <2>3, PhoneKeeps
  <2>4. CASE UNCHANGED vars
    BY <2>4 DEF vars, bridgeVars, phoneVars, SubInv, SubTypeOK, InTable, Hashed, FactsOf,
                AgesHashed, Least, Accounted, Outdated, Hashes, Records, AgeCap
  <2> QED
    BY <2>1, <2>2, <2>3, <2>4 DEF Next
<1> QED
  BY SubInit, <1>1, PTL DEF SubSpec

\* Every part of the subscription has its type: the list of pending nodes never outgrows its
\* array and names no node twice, and the table never holds more than its room.
THEOREM SubTypeCorrect == SubSpec => []SubTypeOK
<1>1. SubInv => SubTypeOK
  BY DEF SubInv
<1> QED
  BY <1>1, SubscriptionInvariant, PTL

\* A phone that has its baseline shows a node as the last pass found it, or the node is
\* queued for it, or its change is one of those that the code is known to let go.
THEOREM NothingElseIsMissed == SubSpec => []ShownOrQueuedOrMissed
<1>1. SubInv => ShownOrQueuedOrMissed
  BY DEF SubInv, SubTypeOK, Accounted, Outdated, ShownOrQueuedOrMissed
<1> QED
  BY <1>1, SubscriptionInvariant, PTL

\* What a pass newly queues: a node not hashed, heard since the emission, or changed.
LEMMA QueuedForAReason ==
  ASSUME SubInv, SubInv', [Next]_vars, NEW n \in Range(pending') \ Range(pending)
  PROVE  \/ prev[n] = NoRecord
         \/ entries'[n].age <= since'
         \/ entries'[n].facts # prev[n].facts
<1>1. pending' # pending
  OBVIOUS
<1>2. PICK d \in 1 .. MaxLate : Pass(d)
  BY <1>1 DEF Next, Hear, Alter, LoopPass, Connect, Listen, ReadPage, StorePage, FailRefresh,
              Subscribe, Disconnect, vars, bridgeVars
<1>3. pending \in Seq(Nodes) /\ IsInjective(pending) /\ Len(pending) <= MaxNodes
  BY DEF SubInv, SubTypeOK
<1>4. CASE Emit(Aged(d))
  <2>1. pending' = Leftover(Aged(d)) /\ pending' \in Seq(Nodes)
    BY <1>4 DEF Emit, SubInv, SubTypeOK
  <2>2. \A i \in 1 .. Len(pending') :
          pending'[i] = pending[i + Cardinality(Examined(Aged(d)))]
          /\ i + Cardinality(Examined(Aged(d))) \in 1 .. Len(pending)
    BY <1>3, <2>1, LeftoverIs
  <2>3. Range(pending') \subseteq Range(pending)
    <3> SUFFICES ASSUME NEW m \in Range(pending') PROVE m \in Range(pending)
      OBVIOUS
    <3>1. PICK i \in 1 .. Len(pending') : pending'[i] = m
      BY <2>1, RangeIs
    <3> QED
      BY <1>3, <2>2, <3>1, RangeIs
  <2> QED
    BY <2>3
<1>5. CASE since + d < Window /\ Scan(Aged(d), since + d)
  <2> DEFINE t == Aged(d)
             ago == since + d
  <2>1. PICK s \in Orders(Changed(t, ago) \ Range(pending)) : pending' = Queue(pending, s)
    BY <1>5 DEF Scan
  <2>2. d \in Nat \ {0} /\ ago \in Nat /\ entries' = t /\ since' = ago
    BY <1>2, <1>5, SubBounds, PassCases DEF Scan, SubInv, SubTypeOK
  <2>3. /\ s \in Seq(Nodes) /\ IsInjective(s)
        /\ Range(s) = Changed(t, ago) \ Range(pending)
    BY <2>2, ScanOrder
  <2>4. Range(pending') \subseteq Range(pending) \cup Range(s)
    BY <1>3, <2>1, <2>3, QueueIs
  <2>5. n \in InTable(t) /\ (prev[n] = NoRecord \/ prev[n] # Hash(t[n], ago))
    BY <2>3, <2>4 DEF Changed
  <2>6. SUFFICES ASSUME prev[n] # NoRecord, ~(t[n].age <= ago), t[n].facts = prev[n].facts
                 PROVE  FALSE
    BY <2>2
  <2>7. n \in InTable(entries) /\ n \in Nodes /\ t[n] \in Records
    BY <2>2, <2>5, AgedTable DEF SubInv, InTable
  <2>8. prev[n].age = Least(MaxAge, t[n].age - ago)
    BY <1>5, <2>2, <2>6, <2>7, AgesGoOn
  <2>9. prev[n] \in Hashes
    BY <2>6, <2>7 DEF SubInv, SubTypeOK
  <2>10. prev[n] = [facts |-> prev[n].facts, age |-> prev[n].age]
    BY <2>9 DEF Hashes
  <2>11. Hash(t[n], ago) = [facts |-> t[n].facts, age |-> Least(MaxAge, t[n].age - ago)]
    BY <2>6 DEF Hash
  <2> HIDE DEF t, ago
  <2> QED
    BY <2>5, <2>6, <2>8, <2>10, <2>11
<1> QED
  BY <1>1, <1>2, <1>4, <1>5, PassCases

\* Time alone queues nothing, for any window, ages and times between the passes: a node is
\* queued only if it came, was heard or changed since the last emission.
THEOREM OnlyChangesQueue == SubSpec => TimeAloneQueuesNothing
<1>1. SubInv /\ SubInv' /\ [Next]_vars =>
        [\A n \in Range(pending') \ Range(pending) :
           \/ prev[n] = NoRecord
           \/ entries'[n].age <= since'
           \/ entries'[n].facts # prev[n].facts]_vars
  BY QueuedForAReason
<1> QED
  BY <1>1, SubscriptionInvariant, PTL DEF SubSpec, TimeAloneQueuesNothing

\* A node that waits does not fall back, and an emission brings it a batch nearer.
LEMMA TurnComes ==
  ASSUME SubInv, SubInv', [Next]_vars, NEW n \in Range(pending) \cap Range(pending')
  PROVE  IF since' = 0 /\ since # 0
         THEN Place(n, pending') + BatchMax <= Place(n, pending)
         ELSE Place(n, pending') <= Place(n, pending)
<1>1. /\ pending \in Seq(Nodes) /\ IsInjective(pending) /\ Len(pending) <= MaxNodes
      /\ pending' \in Seq(Nodes) /\ IsInjective(pending') /\ Len(pending) \in Nat
  BY LenProperties DEF SubInv, SubTypeOK
<1>2. PICK i \in 1 .. Len(pending) : pending[i] = n
  BY <1>1, RangeIs
<1>3. PICK j \in 1 .. Len(pending') : pending'[j] = n
  BY <1>1, RangeIs
<1>4. Place(n, pending) = i /\ Place(n, pending') = j
  BY <1>1, <1>2, <1>3, PlaceIs
<1>5. i \in Nat /\ j \in Nat /\ Len(pending') \in Nat
  BY <1>1, <1>2, <1>3, LenProperties
<1>6. CASE \E d \in 1 .. MaxLate : Pass(d) /\ Emit(Aged(d))
  <2>1. PICK d \in 1 .. MaxLate : Emit(Aged(d))
    BY <1>6
  <2> DEFINE k == Cardinality(Examined(Aged(d)))
  <2>2. /\ k \in 0 .. Len(pending) /\ Len(pending') = Len(pending) - k
        /\ j + k \in 1 .. Len(pending) /\ pending'[j] = pending[j + k]
    BY <1>1, <1>3, <2>1, LeftoverIs DEF Emit
  <2>3. k < Len(pending) => BatchMax <= k
    BY <1>1, ExaminedFirst
  <2> HIDE DEF k
  <2>4. j + k = i
    <3>1. DOMAIN pending = 1 .. Len(pending)
      BY <1>1, LenProperties
    <3> QED
      BY <1>1, <1>2, <1>3, <2>2, <3>1 DEF IsInjective
  <2>5. BatchMax <= k
    BY <1>1, <1>3, <1>5, <2>2, <2>3
  <2> QED
    BY <1>4, <1>5, <2>2, <2>4, <2>5, SubBounds
<1>7. CASE \E d \in 1 .. MaxLate : Pass(d) /\ since + d < Window /\ Scan(Aged(d), since + d)
  <2>1. PICK d \in 1 .. MaxLate : Pass(d) /\ since + d < Window /\ Scan(Aged(d), since + d)
    BY <1>7
  <2>2. PICK s \in Orders(Changed(Aged(d), since + d) \ Range(pending)) :
          pending' = Queue(pending, s)
    BY <2>1 DEF Scan
  <2>3. since' # 0
    BY <2>1, SubBounds DEF Scan, SubInv, SubTypeOK
  <2>4. /\ s \in Seq(Nodes) /\ IsInjective(s) /\ Range(s) \cap Range(pending) = {}
    BY <2>2, SubBounds, ScanOrder
  <2>5. pending'[i] = n /\ i \in 1 .. Len(pending')
    BY <1>1, <1>2, <1>5, <2>2, <2>4, QueueIs
  <2>6. i = j
    BY <1>1, <1>3, <1>4, <2>5, PlaceIs
  <2> QED
    BY <1>4, <1>5, <2>3, <2>6
<1>8. CASE ~ \E d \in 1 .. MaxLate :
               /\ Pass(d)
               /\ Emit(Aged(d)) \/ (since + d < Window /\ Scan(Aged(d), since + d))
  <2>1. pending' = pending
    BY <1>8, PassCases
    DEF Next, Hear, Alter, LoopPass, Connect, Listen, ReadPage, StorePage, FailRefresh,
        Subscribe, Disconnect, vars, bridgeVars
  <2>2. ~(since' = 0 /\ since # 0)
    <3>1. CASE LoopPass
      <4>1. PICK d \in 1 .. MaxLate : Pass(d)
        BY <3>1 DEF LoopPass
      <4>2. since' = Least(Window, since + d) /\ d \in Nat \ {0}
        BY <1>8, <4>1, PassCases
      <4> QED
        BY <4>2, SubBounds DEF Least, SubInv, SubTypeOK
    <3>2. CASE ~LoopPass
      <4>1. since' = since
        BY <3>2
        DEF Next, Hear, Alter, Connect, Listen, ReadPage, StorePage, FailRefresh,
            Subscribe, Disconnect, vars, bridgeVars
      <4> QED
        BY <4>1
    <3> QED
      BY <3>1, <3>2
  <2> QED
    BY <1>4, <1>5, <2>1, <2>2
<1> QED
  BY <1>6, <1>7, <1>8

\* A queued node gets its turn, for any number of nodes and any batch: it never falls
\* back, and the end of a window brings it nearer by a whole batch.
THEOREM TurnsCome == SubSpec => TurnsComeNearer
<1>1. SubInv /\ SubInv' /\ [Next]_vars =>
        [\A n \in Range(pending) \cap Range(pending') :
           IF since' = 0 /\ since # 0
           THEN Place(n, pending') + BatchMax <= Place(n, pending)
           ELSE Place(n, pending') <= Place(n, pending)]_vars
  BY TurnComes
<1> QED
  BY <1>1, SubscriptionInvariant, PTL DEF SubSpec, TurnsComeNearer

-------------------------------------------------------------------------------
(* The mailboxes.                                                          *)

\* The steps of update_profile_read that follow a request it has read.
Answering == loop \in {"answer", "answer_len", "answered"}

\* What the phone waits for and what its callback does go together.
PhoneAndCallback ==
  /\ phone = "asking" <=> callback \in {"ask_id", "ask_flag"}
  /\ phone = "writing" <=> callback \in {"name_tail", "name_len", "name_flag"}

\* While a question is being stored, nobody has seen any of it.
Storing ==
  phone = "asking" =>
    /\ ~req_flag
    /\ resp_len = 0
    /\ ~Answering
    /\ req_type = question[1]
    /\ callback = "ask_flag" => req_id = question[2]

\* While its answer is awaited, it is what the boxes and the loop hold.
Awaited ==
  phone = "reading" =>
    /\ <<req_type, req_id>> = question
    /\ Answering => taken = question
    /\ loop = "answer_len" => Known(question)
    /\ loop = "answer_len" \/ resp_len = 1 => resp_data = AnswerTo(question)

\* The inductive invariant of the mailboxes.
BoxInv ==
  /\ BoxTypeOK
  /\ PhoneAndCallback
  /\ ~ask_overlap => Storing /\ Awaited
  /\ OwnAnswerOrNone

-------------------------------------------------------------------------------

\* A question is its type and its id.
LEMMA QuestionParts ==
  ASSUME NEW q \in Questions
  PROVE  q[1] \in Types /\ q[2] \in Ids /\ q = <<q[1], q[2]>>
BY DEF Questions

\* A name is two halves of one name.
LEMMA WholeHasType ==
  ASSUME NEW n \in Names
  PROVE  Whole(n) \in Halves
BY DEF Whole, Halves

\* Halves of two names, joined, have the type of a buffer.
LEMMA HalvesJoined ==
  ASSUME NEW b \in Halves, NEW c \in Halves
  PROVE  /\ \A n \in Names : [head |-> n, tail |-> b.tail] \in Halves
         /\ \A n \in Names : [head |-> b.head, tail |-> n] \in Halves
         /\ [head |-> b.head, tail |-> c.tail] \in Halves
         /\ b.head \in Names
BY DEF Halves

\* An answer is told apart by its question.
LEMMA AnswerIsQuestionOrEmpty ==
  ASSUME NEW a \in Answers
  PROVE  a \in Questions \cup {Empty}
BY DEF Answers

\* No answer is an answer.
LEMMA EmptyIsAnswer == Empty \in Answers
BY DEF Answers

\* The boxes at rest hold nothing of a question.
LEMMA BoxInitInv == BoxInit => BoxInv
<1> SUFFICES ASSUME BoxInit PROVE BoxInv
  OBVIOUS
<1>1. written \in Names /\ question \in Questions /\ requests = 0 /\ requests \in 0 .. MaxRequests
  BY MailboxAssumption DEF BoxInit
<1>2. BoxTypeOK
  <2>1. name_buf \in Halves /\ copied \in Halves /\ name \in Halves /\ name_value \in Halves
    BY <1>1, WholeHasType DEF BoxInit
  <2>2. req_type \in Types /\ req_id \in Ids
    BY <1>1, QuestionParts DEF BoxInit
  <2>3. resp_data \in Answers /\ answer \in Questions \cup {Empty}
    BY EmptyIsAnswer DEF BoxInit
  <2>4. name_flag \in BOOLEAN /\ req_flag \in BOOLEAN /\ name_overlap \in BOOLEAN /\ ask_overlap \in BOOLEAN
    BY DEF BoxInit
  <2>5. name_len \in 0 .. 1 /\ resp_len \in 0 .. 1
    BY DEF BoxInit
  <2>6. callback = "no" /\ loop = "rest" /\ phone = "free" /\ taken = question
    BY DEF BoxInit
  <2> QED
    BY <1>1, <2>1, <2>2, <2>3, <2>4, <2>5, <2>6 DEF BoxTypeOK
<1>3. PhoneAndCallback
  BY DEF BoxInit, PhoneAndCallback
<1>4. Storing /\ Awaited /\ OwnAnswerOrNone
  BY DEF BoxInit, Storing, Awaited, OwnAnswerOrNone
<1> QED
  BY <1>2, <1>3, <1>4 DEF BoxInv

\* The type invariant is inductive by itself.
LEMMA BoxTypeStep == BoxTypeOK /\ [BoxNext]_boxVars => BoxTypeOK'
<1> SUFFICES ASSUME BoxTypeOK, [BoxNext]_boxVars PROVE BoxTypeOK'
  OBVIOUS
<1> USE DEF BoxTypeOK
<1>1. ASSUME NEW n \in Names, WriteName(n) PROVE BoxTypeOK'
  <2>1. name_buf' \in Halves
    BY <1>1, HalvesJoined DEF WriteName
  <2>2. requests' \in 0 .. MaxRequests
    BY <1>1, MailboxAssumption DEF WriteName
  <2>3. name_overlap' \in BOOLEAN
    BY <1>1 DEF WriteName, InNameSection
  <2> QED
    BY <1>1, <2>1, <2>2, <2>3 DEF WriteName, LoopStill, profileBox
<1>2. ASSUME NEW q \in Questions, Ask(q) PROVE BoxTypeOK'
  BY <1>2, QuestionParts, MailboxAssumption DEF Ask, LoopStill, nameBox, InProfileSection
<1>3. CASE ReadAnswer
  BY <1>3, AnswerIsQuestionOrEmpty DEF ReadAnswer, LoopStill, nameBox, profileBox, Response
<1>4. CASE GiveUp
  BY <1>4 DEF GiveUp, LoopStill, nameBox, profileBox, asked
<1>5. CASE Callback
  <2>1. CASE StoreName /\ LoopStill /\ UNCHANGED <<profileBox, asked>>
    <3>1. name_buf' \in Halves
      BY <2>1, HalvesJoined DEF StoreName
    <3>2. name_flag' \in BOOLEAN
      BY <2>1 DEF StoreName
    <3>3. name_len' \in 0 .. 1 /\ callback' \in {"name_len", "name_flag", "no"}
      BY <2>1 DEF StoreName
    <3>4. phone' \in {phone, "free"}
      BY <2>1 DEF StoreName
    <3> QED
      BY <2>1, <3>1, <3>2, <3>3, <3>4 DEF LoopStill, profileBox, asked
  <2>2. CASE StoreQuestion /\ LoopStill /\ UNCHANGED <<nameBox, req_type, resp_data, resp_len, asked>>
    BY <2>2, QuestionParts DEF StoreQuestion, LoopStill, nameBox, asked
  <2> QED
    BY <1>5, <2>1, <2>2 DEF Callback
<1>6. CASE LoopStep
  <2> USE <1>6 DEF LoopStep, PhoneStill, asked
  <2>1. CASE NextPass
    BY <2>1 DEF NextPass, nameBox, profileBox
  <2>2. CASE AnswerProfile /\ UNCHANGED <<copied, name, name_value, nameBox, req_type, req_id>>
    <3> USE <2>2 DEF nameBox
    <3>1. <<req_type, req_id>> \in Questions
      BY DEF Questions
    <3>2. Known(taken) => taken \in Answers
      BY DEF Answers
    <3>3. resp_data' \in Answers /\ taken' \in Questions
      BY <3>1, <3>2, <2>2 DEF AnswerProfile
    <3>4. resp_len' \in 0 .. 1
      BY <2>2 DEF AnswerProfile
    <3>5. req_flag' \in BOOLEAN
      BY <2>2 DEF AnswerProfile
    <3>6. loop' \in {"answer", "answer_len", "answered", "name"}
      BY <2>2 DEF AnswerProfile
    <3> QED
      BY <3>3, <3>4, <3>5, <3>6
  <2>3. CASE ApplyName /\ UNCHANGED <<taken, name_value, name_buf, profileBox>>
    <3>1. Whole(name_buf.head) \in Halves /\ [head |-> copied.head, tail |-> name_buf.tail] \in Halves
      BY WholeHasType, HalvesJoined
    <3>2. copied' \in Halves
      BY <2>3, <3>1 DEF ApplyName
    <3>5. name' \in Halves
      BY <2>3 DEF ApplyName
    <3>3. name_flag' \in BOOLEAN
      BY <2>3, Zenon DEF ApplyName
    <3>6. name_len' \in 0 .. 1
      BY <2>3 DEF ApplyName
    <3>4. loop' \in {"name_tail", "name_set", "name_clear", "name_len", "value"}
      BY <2>3 DEF ApplyName
    <3> QED
      BY <2>3, <3>2, <3>3, <3>4, <3>5, <3>6 DEF profileBox
  <2>4. CASE PublishName
    BY <2>4 DEF PublishName, nameBox, profileBox
  <2> QED
    BY <2>1, <2>2, <2>3, <2>4
<1>7. CASE UNCHANGED boxVars
  BY <1>7 DEF boxVars, nameBox, profileBox, asked
<1> QED
  BY <1>1, <1>2, <1>3, <1>4, <1>5, <1>6, <1>7 DEF BoxNext

\* Every step keeps the invariant.
LEMMA BoxInvStep == BoxInv /\ [BoxNext]_boxVars => BoxInv'
<1> SUFFICES ASSUME BoxInv, [BoxNext]_boxVars PROVE BoxInv'
  OBVIOUS
<1> DEFINE Kept == PhoneAndCallback /\ (~ask_overlap => Storing /\ Awaited) /\ OwnAnswerOrNone
<1>0. BoxTypeOK /\ BoxTypeOK' /\ Kept
  BY BoxTypeStep DEF BoxInv
<1> SUFFICES Kept'
  BY <1>0 DEF BoxInv
<1> USE <1>0
<1>1. ASSUME NEW n \in Names, WriteName(n) PROVE Kept'
  BY <1>1 DEF WriteName, LoopStill, profileBox, PhoneAndCallback, Storing, Awaited,
              OwnAnswerOrNone, Answering
<1>2. ASSUME NEW q \in Questions, Ask(q) PROVE Kept'
  <2>1. PhoneAndCallback' /\ Awaited' /\ OwnAnswerOrNone'
    BY <1>2 DEF Ask, PhoneAndCallback, Awaited, OwnAnswerOrNone
  <2>2. ~ask_overlap' => Storing'
    BY <1>2 DEF Ask, LoopStill, Storing, Answering, InProfileSection
  <2> QED
    BY <2>1, <2>2
<1>3. CASE ReadAnswer
  <2>1. PhoneAndCallback' /\ Storing' /\ Awaited'
    BY <1>3 DEF ReadAnswer, LoopStill, profileBox, PhoneAndCallback, Storing, Awaited
  <2>2. ASSUME ~ask_overlap PROVE answer' \in {Empty, AnswerTo(question)}
    BY <1>3, <2>2 DEF ReadAnswer, Response, Awaited, BoxTypeOK
  <2> QED
    BY <1>3, <2>1, <2>2 DEF ReadAnswer, OwnAnswerOrNone
<1>4. CASE GiveUp
  BY <1>4 DEF GiveUp, asked, PhoneAndCallback, Storing, Awaited, OwnAnswerOrNone
<1>5. CASE Callback
  <2>1. CASE StoreName /\ LoopStill /\ UNCHANGED <<profileBox, asked>>
    BY <2>1 DEF StoreName, LoopStill, profileBox, asked, PhoneAndCallback, Storing, Awaited,
                OwnAnswerOrNone, Answering
  <2>2. CASE StoreQuestion /\ LoopStill /\ UNCHANGED <<nameBox, req_type, resp_data, resp_len, asked>>
    <3>1. PhoneAndCallback' /\ OwnAnswerOrNone'
      BY <2>2 DEF StoreQuestion, asked, PhoneAndCallback, OwnAnswerOrNone
    <3>2. ASSUME ~ask_overlap PROVE Storing' /\ Awaited'
      <4>1. <<question[1], question[2]>> = question
        BY QuestionParts DEF BoxTypeOK
      <4> QED
        BY <2>2, <3>2, <4>1 DEF StoreQuestion, LoopStill, asked, PhoneAndCallback, Storing,
                                Awaited, Answering
    <3> QED
      BY <2>2, <3>1, <3>2 DEF asked
  <2> QED
    BY <1>5, <2>1, <2>2 DEF Callback
<1>6. CASE LoopStep
  <2> USE <1>6 DEF LoopStep, PhoneStill, asked
  <2>1. PhoneAndCallback' /\ OwnAnswerOrNone' /\ (ask_overlap' <=> ask_overlap)
    BY DEF PhoneAndCallback, OwnAnswerOrNone
  <2>2. ASSUME ~ask_overlap PROVE Storing' /\ Awaited'
    <3> USE <2>2
    <3>1. CASE NextPass
      BY <3>1 DEF NextPass, profileBox, Storing, Awaited, Answering
    <3>2. CASE AnswerProfile /\ UNCHANGED <<copied, name, name_value, nameBox, req_type, req_id>>
      <4>1. Storing'
        BY <3>2 DEF AnswerProfile, Storing, Answering
      <4>2. Awaited'
        BY <3>2 DEF AnswerProfile, Awaited, Answering, AnswerTo
      <4> QED
        BY <4>1, <4>2
    <3>3. CASE ApplyName /\ UNCHANGED <<taken, name_value, name_buf, profileBox>>
      BY <3>3 DEF ApplyName, profileBox, Storing, Awaited, Answering
    <3>4. CASE PublishName
      BY <3>4 DEF PublishName, profileBox, Storing, Awaited, Answering
    <3> QED
      BY <3>1, <3>2, <3>3, <3>4
  <2> QED
    BY <2>1, <2>2
<1>7. CASE UNCHANGED boxVars
  BY <1>7 DEF boxVars, profileBox, asked, PhoneAndCallback, Storing, Awaited, OwnAnswerOrNone,
              Answering
<1> QED
  BY <1>1, <1>2, <1>3, <1>4, <1>5, <1>6, <1>7 DEF BoxNext

-------------------------------------------------------------------------------

\* The invariant holds throughout, for any names, types, ids and number of requests.
THEOREM MailboxInvariant == BoxSpec => []BoxInv
BY BoxInitInv, BoxInvStep, PTL DEF BoxSpec

\* Every variable keeps its type, whatever the phone writes and when.
THEOREM BoxTypeCorrect == BoxSpec => []BoxTypeOK
<1>1. BoxInv => BoxTypeOK
  BY DEF BoxInv
<1> QED
  BY MailboxInvariant, <1>1, PTL

\* No question asked of a box at rest gets the answer to another one.
THEOREM NoForeignAnswer == BoxSpec => []OwnAnswerOrNone
<1>1. BoxInv => OwnAnswerOrNone
  BY DEF BoxInv
<1> QED
  BY MailboxInvariant, <1>1, PTL

-------------------------------------------------------------------------------
(* The name.                                                               *)

\* Once its request is cleared, a name written to a box at rest is the node's, whole.
NameIsStored ==
  ~name_overlap /\ phone # "writing" /\ ~name_flag => name = Whole(written)

\* The steps of update_ble that follow a name request it has read.
Taking == loop \in {"name_tail", "name_set", "name_clear", "name_len"}

\* While a name is being written, nobody looks at the box.
Writing ==
  phone = "writing" =>
    /\ ~name_flag
    /\ ~Taking
    /\ name_buf.head = written
    /\ callback # "name_tail" => name_buf = Whole(written)
    /\ callback = "name_flag" => name_len = 1

\* While its request stands, it is what the box and the loop hold.
Requested ==
  phone # "writing" /\ name_flag =>
    /\ name_buf = Whole(written) /\ name_len = 1
    /\ loop = "name_tail" => copied.head = written
    /\ loop = "name_set" => copied = Whole(written)
    /\ loop = "name_clear" => name = Whole(written)
    /\ loop # "name_len"

\* A request that is cleared is one that the loop has carried out.
Cleared == ~name_flag => loop \notin {"name_tail", "name_set", "name_clear"}

\* Together with the invariant of the boxes this is inductive.
NameInv ==
  /\ ~name_overlap => Writing /\ Requested /\ Cleared
  /\ NameIsStored

\* The node starts with a name and no request.
LEMMA NameInitInv == BoxInit => NameInv
BY DEF BoxInit, NameInv, Writing, Requested, Cleared, Taking, NameIsStored

\* What another one than the phone's write and the loop's name section does keeps the name.
LEMMA NameLeftAlone ==
  ASSUME NameInv, UNCHANGED <<nameBox, copied, name, written, name_overlap>>,
         phone # "writing" /\ callback \notin {"name_tail", "name_len", "name_flag"},
         phone' # "writing" /\ callback' \notin {"name_tail", "name_len", "name_flag"},
         loop' = loop \/ (~Taking /\ loop' \notin {"name_tail", "name_set", "name_clear", "name_len"})
  PROVE  NameInv'
BY DEF NameInv, Writing, Requested, Cleared, Taking, NameIsStored, nameBox

\* So does the loop before and after its name section, whatever the phone is at.
LEMMA NameNotTaken ==
  ASSUME NameInv, UNCHANGED <<nameBox, copied, name, written, name_overlap, phone, callback>>,
         loop' = loop \/ (~Taking /\ loop' \notin {"name_tail", "name_set", "name_clear", "name_len"})
  PROVE  NameInv'
BY DEF NameInv, Writing, Requested, Cleared, Taking, NameIsStored, nameBox

\* The write of a name.
LEMMA NameWritten ==
  ASSUME BoxInv, NameInv, NEW n \in Names, WriteName(n)
  PROVE  NameInv'
<1>1. /\ phone' = "writing" /\ callback' = "name_tail" /\ name_buf'.head = n /\ written' = n
      /\ name_overlap' = (name_flag \/ InNameSection)
      /\ UNCHANGED <<name_len, name_flag, loop, taken, copied, name>>
  BY DEF WriteName, LoopStill
<1>2. ASSUME ~name_overlap' PROVE ~name_flag /\ loop \notin {"name_tail", "name_set", "name_clear", "name_len"}
  BY <1>1, <1>2 DEF InNameSection
<1> QED
  BY <1>1, <1>2 DEF NameInv, Writing, Requested, Cleared, Taking, NameIsStored

\* The callback that stores it.
LEMMA NameStored ==
  ASSUME BoxInv, NameInv, StoreName, LoopStill, UNCHANGED asked
  PROVE  NameInv'
<1>0. UNCHANGED <<loop, copied, name, written, name_overlap>>
  BY DEF LoopStill, asked
<1>1. name_buf \in Halves /\ name_len \in 0 .. 1 /\ name_flag \in BOOLEAN
  BY DEF BoxInv, BoxTypeOK
<1>2. CASE callback = "name_tail"
  <2>1. /\ phone = "writing" /\ UNCHANGED <<name_flag, phone>> /\ callback' = "name_len"
        /\ name_buf' = [head |-> name_buf.head, tail |-> written]
    BY <1>2 DEF StoreName, BoxInv, PhoneAndCallback
  <2>2. name_buf.head = written => name_buf' = Whole(written)
    BY <2>1 DEF Whole
  <2>3. Whole(written').head = written'
    BY DEF Whole
  <2> QED
    BY <1>0, <2>1, <2>2, <2>3 DEF NameInv, Writing, Requested, Cleared, Taking, NameIsStored
<1>3. CASE callback = "name_len"
  <2>1. /\ phone = "writing" /\ UNCHANGED <<name_buf, name_flag, phone>> /\ callback' = "name_flag"
        /\ name_len' = 1
    BY <1>3 DEF StoreName, BoxInv, PhoneAndCallback
  <2> QED
    BY <1>0, <1>3, <2>1 DEF NameInv, Writing, Requested, Cleared, Taking, NameIsStored
<1>4. CASE callback = "name_flag"
  <2>1. /\ phone = "writing" /\ UNCHANGED <<name_buf, name_len>> /\ callback' = "no"
        /\ name_flag' = TRUE /\ phone' = "free"
    BY <1>4 DEF StoreName, BoxInv, PhoneAndCallback
  <2> QED
    BY <1>0, <1>4, <2>1 DEF NameInv, Writing, Requested, Cleared, Taking, NameIsStored
<1> QED
  BY <1>2, <1>3, <1>4 DEF StoreName

\* The name section of the loop.
LEMMA NameApplied ==
  ASSUME BoxInv, NameInv, ApplyName, PhoneStill, UNCHANGED name_buf
  PROVE  NameInv'
<1>0. UNCHANGED <<callback, phone, written, name_overlap, name_buf>>
  BY DEF PhoneStill, asked
<1>1. /\ name_buf \in Halves /\ copied \in Halves /\ name_len \in 0 .. 1 /\ name_flag \in BOOLEAN
      /\ phone # "writing" \/ name_overlap \/ (~name_flag /\ ~Taking)
  BY DEF BoxInv, BoxTypeOK, NameInv, Writing
<1>2. CASE loop = "name" /\ ~name_flag
  <2>1. loop' = "value" /\ UNCHANGED <<copied, name, name_len, name_flag>>
    BY <1>2 DEF ApplyName
  <2> QED
    BY <1>0, <1>2, <2>1, NameNotTaken DEF nameBox, Taking
<1>3. CASE loop = "name" /\ name_flag
  <2>1. /\ UNCHANGED <<name, name_len, name_flag>>
        /\ IF name_len = 0
           THEN loop' = "name_clear" /\ UNCHANGED copied
           ELSE loop' = "name_tail" /\ copied' = Whole(name_buf.head)
    BY <1>3 DEF ApplyName
  <2>2. ASSUME ~name_overlap
        PROVE  /\ phone # "writing" /\ name_buf = Whole(written) /\ name_len = 1
               /\ loop' = "name_tail" /\ copied'.head = written
    <3>1. phone # "writing" /\ name_buf = Whole(written) /\ name_len = 1
      BY <1>1, <1>3, <2>2 DEF NameInv, Requested
    <3> QED
      BY <2>1, <3>1 DEF Whole
  <2> QED
    BY <1>0, <1>3, <2>1, <2>2 DEF NameInv, Writing, Requested, Cleared, Taking, NameIsStored
<1>4. CASE loop = "name_tail"
  <2>1. /\ copied' = [head |-> copied.head, tail |-> name_buf.tail] /\ loop' = "name_set"
        /\ UNCHANGED <<name, name_len, name_flag>>
    BY <1>4 DEF ApplyName
  <2>2. ASSUME ~name_overlap
        PROVE  /\ phone # "writing" /\ name_flag /\ name_buf = Whole(written) /\ name_len = 1
               /\ copied' = Whole(written)
    <3>1. /\ phone # "writing" /\ name_flag /\ name_buf = Whole(written) /\ name_len = 1
          /\ copied.head = written
      BY <1>1, <1>4, <2>2 DEF NameInv, Requested, Cleared, Taking
    <3> QED
      BY <2>1, <3>1 DEF Whole
  <2> QED
    BY <1>0, <2>1, <2>2 DEF NameInv, Writing, Requested, Cleared, Taking, NameIsStored
<1>5. CASE loop = "name_set"
  <2>1. name' = copied /\ loop' = "name_clear" /\ UNCHANGED <<copied, name_len, name_flag>>
    BY <1>5 DEF ApplyName
  <2>2. ASSUME ~name_overlap
        PROVE  /\ phone # "writing" /\ name_flag /\ name_buf = Whole(written) /\ name_len = 1
               /\ name' = Whole(written)
    BY <1>1, <1>5, <2>1, <2>2 DEF NameInv, Requested, Cleared, Taking
  <2> QED
    BY <1>0, <2>1, <2>2 DEF NameInv, Writing, Requested, Cleared, Taking, NameIsStored
<1>6. CASE loop = "name_clear"
  <2>1. name_flag' = FALSE /\ loop' = "name_len" /\ UNCHANGED <<copied, name, name_len>>
    BY <1>6 DEF ApplyName
  <2>2. ASSUME ~name_overlap PROVE phone # "writing" /\ name = Whole(written)
    BY <1>1, <1>6, <2>2 DEF NameInv, Requested, Cleared, Taking
  <2> QED
    BY <1>0, <2>1, <2>2 DEF NameInv, Writing, Requested, Cleared, Taking, NameIsStored
<1>7. CASE loop = "name_len"
  <2>1. name_len' = 0 /\ loop' = "value" /\ UNCHANGED <<copied, name, name_flag>>
    BY <1>7 DEF ApplyName
  <2>2. ASSUME ~name_overlap PROVE phone # "writing" /\ ~name_flag /\ name = Whole(written)
    BY <1>1, <1>7, <2>2 DEF NameInv, Requested, Taking, NameIsStored
  <2> QED
    BY <1>0, <2>1, <2>2 DEF NameInv, Writing, Requested, Cleared, Taking, NameIsStored
<1> QED
  BY <1>2, <1>3, <1>4, <1>5, <1>6, <1>7 DEF ApplyName

\* Every step keeps it.
LEMMA NameInvStep == BoxInv /\ NameInv /\ [BoxNext]_boxVars => NameInv'
<1> SUFFICES ASSUME BoxInv, NameInv, [BoxNext]_boxVars PROVE NameInv'
  OBVIOUS
<1>0. PhoneAndCallback
  BY DEF BoxInv
<1>1. CASE \E n \in Names : WriteName(n)
  BY <1>1, NameWritten
<1>2. CASE \E q \in Questions : Ask(q)
  BY <1>0, <1>2, NameLeftAlone DEF Ask, PhoneAndCallback, nameBox, LoopStill
<1>3. CASE ReadAnswer \/ GiveUp
  BY <1>0, <1>3, NameLeftAlone DEF ReadAnswer, GiveUp, PhoneAndCallback, nameBox, LoopStill, asked
<1>4. CASE StoreName /\ LoopStill /\ UNCHANGED <<profileBox, asked>>
  BY <1>4, NameStored
<1>5. CASE StoreQuestion /\ LoopStill /\ UNCHANGED <<nameBox, req_type, resp_data, resp_len, asked>>
  BY <1>0, <1>5, NameLeftAlone DEF StoreQuestion, PhoneAndCallback, LoopStill, asked
<1>6. CASE LoopStep
  <2>0. PhoneStill
    BY <1>6 DEF LoopStep
  <2>1. CASE NextPass \/ PublishName
    BY <2>0, <2>1, NameNotTaken DEF NextPass, PublishName, PhoneStill, asked, Taking
  <2>2. CASE AnswerProfile /\ UNCHANGED <<copied, name, name_value, nameBox, req_type, req_id>>
    <3>1. ~Taking /\ loop' \in {"name", "answer", "answer_len", "answered"}
      BY <2>2 DEF AnswerProfile, Taking
    <3> QED
      BY <2>0, <2>2, <3>1, NameNotTaken DEF PhoneStill, asked
  <2>3. CASE ApplyName /\ UNCHANGED <<taken, name_value, name_buf, profileBox>>
    BY <2>0, <2>3, NameApplied
  <2> QED
    BY <1>6, <2>1, <2>2, <2>3 DEF LoopStep
<1>7. CASE UNCHANGED boxVars
  BY <1>7, NameNotTaken DEF boxVars, asked
<1> QED
  BY <1>1, <1>2, <1>3, <1>4, <1>5, <1>6, <1>7 DEF BoxNext, Callback

\* A name written to a box at rest is, once its request is cleared, the node's, whole: no other
\* write mixes with it and no pass of the loop drops it.
THEOREM NameIsKept == BoxSpec => []NameIsStored
<1>1. NameInv => NameIsStored
  BY DEF NameInv
<1> QED
  BY MailboxInvariant, NameInitInv, NameInvStep, <1>1, PTL DEF BoxSpec

================================================================================
