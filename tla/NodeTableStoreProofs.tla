-------------------------- MODULE NodeTableStoreProofs --------------------------
(***************************************************************************)
(* The table stays sound across power loss at any moment and failing puts, *)
(* and a table that is not dirty is the stored one, for every capacity,    *)
(* set of nodes, clock, interval and number of faults.                     *)
(*                                                                         *)
(* The length and the blob may come from two saves; what carries the proof *)
(* is that every blob by itself is the image of a sound table.             *)
(***************************************************************************)
EXTENDS NodeTableStore, NodeTableProofs, FiniteSetTheorems, SequenceTheorems

\* A blob is the image of a table that holds each node once, this device among them.
SoundBlob(b) ==
  \E k \in 1 .. MaxNodes :
    /\ b \in [1 .. k -> Record]
    /\ \A i, j \in 1 .. k : b[i].node_id = b[j].node_id => i = j
    /\ \E j \in 1 .. k : b[j].node_id = Self

\* What the steps of a save have stored so far, unless a put has failed.
StoredSoFar ==
  /\ ~lost /\ (saving \in {"len", "blob"} \/ ~dirty) => nvs_len = Len(Snapshot)
  /\ ~lost /\ (saving = "blob" \/ ~dirty) => nvs_blob = Snapshot

\* The inductive invariant.
StoreInv ==
  /\ IInv
  /\ nvs_blob # NoKey => SoundBlob(nvs_blob)
  /\ StoredSoFar

-------------------------------------------------------------------------------
(* The image of a table *)

\* Only the entries matter to what is stored.
LEMMA SnapshotOfEntries ==
  ASSUME entries' = entries
  PROVE  Snapshot' = Snapshot
BY DEF Snapshot, InUse, Packed

\* The records are those of the occupied slots, in their order.
LEMMA SnapshotOfDense ==
  ASSUME IInv
  PROVE  Snapshot = [k \in 1 .. size |-> Packed(entries[k - 1])]
<1>. DEFINE Rank(i) == Cardinality({j \in InUse(entries) : j <= i})
            Nth(k) == CHOOSE i \in InUse(entries) : Rank(i) = k
<1>1. InUse(entries) = 0 .. size - 1 /\ size \in Nat
  BY SizesAssumption DEF IInv, Struct, TypeOK
<1>2. Cardinality(InUse(entries)) = size
  BY <1>1, FS_Interval
<1>3. ASSUME NEW i \in 0 .. size - 1 PROVE Rank(i) = i + 1
  <2>1. {j \in InUse(entries) : j <= i} = 0 .. i
    BY <1>1
  <2>2. i \in Int /\ 0 \in Int /\ ~(0 > i)
    OBVIOUS
  <2>3. Cardinality(0 .. i) = i - 0 + 1
    BY <2>2, FS_Interval
  <2>4. Rank(i) = Cardinality(0 .. i)
    BY <2>1, Zenon
  <2>. QED  BY <2>2, <2>3, <2>4
<1>4. ASSUME NEW k \in 1 .. size PROVE Nth(k) = k - 1
  <2>1. k - 1 \in InUse(entries) /\ Rank(k - 1) = k
    BY <1>1, <1>3
  <2>2. \A i \in InUse(entries) : Rank(i) = k => i = k - 1
    BY <1>1, <1>3
  <2>. HIDE DEF Rank
  <2>. QED  BY <2>1, <2>2
<1>5. Snapshot = [k \in 1 .. Cardinality(InUse(entries)) |-> Packed(entries[Nth(k)])]
  BY DEF Snapshot
<1>. HIDE DEF Nth
<1>. QED  BY <1>2, <1>4, <1>5

\* A function on an initial segment is a sequence of that length.
LEMMA LengthOfFunction ==
  ASSUME NEW k \in Nat, NEW R, NEW f \in [1 .. k -> R]
  PROVE  Len(f) = k
<1>1. f \in Seq(R)
  OBVIOUS
<1>2. Len(f) \in Nat /\ DOMAIN f = 1 .. Len(f)
  BY <1>1, LenProperties
<1>3. 1 .. k = 1 .. Len(f)
  BY <1>2
<1>. QED  BY <1>2, <1>3

\* A sound table has a sound image, and one that can be loaded.
LEMMA SnapshotSound ==
  ASSUME IInv
  PROVE  /\ SoundBlob(Snapshot)
         /\ Snapshot # NoKey
         /\ Len(Snapshot) \in Nat
         /\ Len(Snapshot) # NoKey
<1>1. InUse(entries) = 0 .. size - 1 /\ size \in 1 .. MaxNodes
  BY SizesAssumption DEF IInv, Struct, TypeOK
<1>2. ASSUME NEW i \in InUse(entries)
      PROVE  Packed(entries[i]) \in Record /\ Packed(entries[i]).node_id = entries[i].node_id
  <2>1. entries[i] \in NodeEntry
    BY DEF IInv, TypeOK, Table, InUse
  <2>. QED  BY <2>1 DEF Packed, Record, NodeEntry
<1>3. /\ Snapshot \in [1 .. size -> Record]
      /\ \A k \in 1 .. size : Snapshot[k].node_id = entries[k - 1].node_id
  <2>1. \A k \in 1 .. size : k - 1 \in InUse(entries)
    BY <1>1
  <2>. QED  BY <1>1, <1>2, <2>1, SnapshotOfDense
<1>4. \A i, j \in 1 .. size : Snapshot[i].node_id = Snapshot[j].node_id => i = j
  <2>1. \A i, j \in InUse(entries) : entries[i].node_id = entries[j].node_id => i = j
    BY DEF IInv, Struct
  <2>. SUFFICES ASSUME NEW i \in 1 .. size, NEW j \in 1 .. size,
                       Snapshot[i].node_id = Snapshot[j].node_id
                PROVE  i = j
    OBVIOUS
  <2>2. i - 1 \in InUse(entries) /\ j - 1 \in InUse(entries)
    BY <1>1
  <2>3. i - 1 = j - 1
    BY <1>3, <2>1, <2>2
  <2>. QED  BY <2>3
<1>5. \E k \in 1 .. size : Snapshot[k].node_id = Self
  <2>1. self_index \in InUse(entries) /\ entries[self_index].node_id = Self
    BY DEF IInv, Struct
  <2>2. self_index + 1 \in 1 .. size /\ self_index = (self_index + 1) - 1
    BY <1>1, <2>1
  <2>. QED  BY <1>3, <2>1, <2>2
<1>6. Len(Snapshot) = size
  BY <1>1, <1>3, LengthOfFunction
<1>7. SoundBlob(Snapshot)
  BY <1>1, <1>3, <1>4, <1>5 DEF SoundBlob
<1>8. Snapshot # NoKey
  BY <1>1, <1>3, KeyAssumption
<1>9. size \in Nat /\ size # NoKey
  BY <1>1, KeyAssumption
<1>. QED  BY <1>6, <1>7, <1>8, <1>9

-------------------------------------------------------------------------------
(* The table that a blob brings back *)

\* Restoring a sound blob gives a sound table, whichever save the blob is of.
LEMMA RestoredSound ==
  ASSUME SoundBlob(nvs_blob)
  PROVE  /\ RestoredTable \in Table
         /\ Len(nvs_blob) \in 0 .. MaxNodes
         /\ RestoredSelfIndex \in Slots
         /\ Struct(RestoredTable, Len(nvs_blob), RestoredSelfIndex)
<1>. DEFINE t == [i \in Slots |-> IF i < Len(nvs_blob) THEN Unpacked(nvs_blob[i + 1]) ELSE Empty]
            u == RestoredTable
            selves == {i \in InUse(u) : u[i].is_self}
<1>1. PICK k \in 1 .. MaxNodes :
        /\ nvs_blob \in [1 .. k -> Record]
        /\ \A i, j \in 1 .. k : nvs_blob[i].node_id = nvs_blob[j].node_id => i = j
        /\ \E j \in 1 .. k : nvs_blob[j].node_id = Self
  BY DEF SoundBlob
<1>2. k \in Nat /\ Len(nvs_blob) = k
  BY <1>1, LengthOfFunction
<1>3. ASSUME NEW r \in Record
      PROVE  /\ Unpacked(r) \in NodeEntry /\ Unpacked(r) # Empty
             /\ Unpacked(r).node_id = r.node_id
             /\ Unpacked(r).is_self <=> r.node_id = Self
  <2>1. Unpacked(r).node_id = r.node_id /\ Unpacked(r).is_self = (r.node_id = Self)
    BY DEF Unpacked
  <2>2. 0 \in Seq16 /\ 0 \in Time
    BY SizesAssumption DEF Seq16, Time
  <2>3. (r.node_id = Self) \in BOOLEAN
    OBVIOUS
  <2>4. Unpacked(r) \in NodeEntry
    BY <2>2, <2>3 DEF Unpacked, NodeEntry, Record
  <2>. QED  BY <2>1, <2>4, EmptyAssumption
<1>4. \A i \in Slots : t[i] = IF i < k THEN Unpacked(nvs_blob[i + 1]) ELSE Empty
  BY <1>2
<1>5. \A i \in 0 .. k - 1 : i \in Slots /\ i + 1 \in 1 .. k /\ nvs_blob[i + 1] \in Record
  BY <1>1, SizesAssumption DEF Slots
<1>6. t = [i \in Slots |-> t[i]]
  OBVIOUS
<1>7. RestoredTable = RecomputeCollisions(t)
  BY DEF RestoredTable
<1>. HIDE DEF t
<1>8. t \in Table
  BY <1>3, <1>4, <1>5, <1>6, SizesAssumption DEF Table, Slots
<1>9. InUse(t) = 0 .. k - 1
  BY <1>3, <1>4, <1>5, SizesAssumption DEF InUse, Slots
<1>10. \A i \in InUse(t) : /\ t[i].node_id = nvs_blob[i + 1].node_id
                           /\ t[i].is_self <=> t[i].node_id = Self
  BY <1>3, <1>4, <1>5, <1>9
<1>11. /\ u \in Table
       /\ InUse(u) = InUse(t)
       /\ \A i \in InUse(t) :
            /\ u[i].node_id = t[i].node_id
            /\ u[i].is_self = t[i].is_self
            /\ u[i].short_id_collision <=>
                 \E j \in InUse(t) \ {i} : ShortId[t[j].node_id] = ShortId[t[i].node_id]
  BY <1>7, <1>8, RecomputeFacts
<1>. HIDE DEF u
<1>12. \A i, j \in InUse(u) : u[i].node_id = u[j].node_id => i = j
  <2>. SUFFICES ASSUME NEW i \in InUse(u), NEW j \in InUse(u), u[i].node_id = u[j].node_id
                PROVE  i = j
    OBVIOUS
  <2>1. i + 1 \in 1 .. k /\ j + 1 \in 1 .. k
    BY <1>5, <1>9, <1>11
  <2>2. nvs_blob[i + 1].node_id = nvs_blob[j + 1].node_id
    BY <1>10, <1>11
  <2>3. i + 1 = j + 1
    BY <1>1, <2>1, <2>2
  <2>. QED  BY <1>9, <1>11, <2>3
<1>13. \A i \in InUse(u) : u[i].is_self <=> u[i].node_id = Self
  BY <1>10, <1>11
<1>14. PICK s \in InUse(u) : u[s].node_id = Self
  <2>1. PICK j \in 1 .. k : nvs_blob[j].node_id = Self
    BY <1>1
  <2>2. j - 1 \in InUse(t) /\ (j - 1) + 1 = j
    BY <1>9
  <2>3. u[j - 1].node_id = Self
    BY <1>10, <1>11, <2>1, <2>2
  <2>. QED  BY <1>11, <2>2, <2>3
<1>15. \A i \in InUse(u) : u[i].is_self <=> i = s
  BY <1>12, <1>13, <1>14
<1>16. selves = {s}
  BY <1>14, <1>15
<1>17. s \in Slots /\ s \in Int
  BY <1>14 DEF InUse, Slots
<1>18. RestoredSelfIndex = s
  <2>1. RestoredSelfIndex =
          IF selves = {} THEN -1 ELSE CHOOSE i \in selves : \A j \in selves : j <= i
    BY DEF RestoredSelfIndex, u
  <2>. HIDE DEF selves
  <2>. QED  BY <1>16, <1>17, <2>1
<1>19. Struct(u, k, s)
  <2>1. \A i \in InUse(u) :
          u[i].short_id_collision <=>
            \E j \in InUse(u) \ {i} : ShortId[u[j].node_id] = ShortId[u[i].node_id]
    BY <1>11
  <2>. QED  BY <1>9, <1>11, <1>12, <1>13, <1>14, <1>15, <2>1 DEF Struct
<1>. QED  BY <1>2, <1>11, <1>17, <1>18, <1>19 DEF u

-------------------------------------------------------------------------------
(* The steps *)

\* Whatever the loop does with the table marks it dirty.
LEMMA OperationDirties ==
  ASSUME Operation
  PROVE  dirty' = TRUE
BY DEF Operation, OnRx, UpsertRemote, ApplyPosFull, ApplyStatus, ApplyFrame, UpdateSelfPosition, TouchSelf,
       SetSelfNodeName, UpdateSelf

\* An empty flash and a table that has just booted satisfy the invariant.
LEMMA InitStore == StoreInit => StoreInv
BY InitIInv DEF StoreInit, Init, StoreInv, StoredSoFar

\* A boot restores a sound table, or makes one.
LEMMA PowerCycleKeeps ==
  ASSUME StoreInv, PowerCycle
  PROVE  StoreInv'
<1>1. now \in Time /\ 0 \in Time /\ now' = 0 /\ dirty' = TRUE /\ saving' = "no"
      /\ nvs_blob' = nvs_blob
  BY SizesAssumption DEF PowerCycle, StoreInv, IInv, TypeOK, Time
<1>2. /\ entries' \in Table
      /\ size' \in 0 .. MaxNodes
      /\ self_index' \in Slots
      /\ Struct(entries', size', self_index')
  <2>1. CASE Loadable
    <3>1. SoundBlob(nvs_blob)
      BY <2>1 DEF Loadable, StoreInv
    <3>. QED  BY <2>1, <3>1, RestoredSound DEF PowerCycle
  <2>2. CASE ~Loadable
    BY <1>1, <2>2, BootSound, SizesAssumption DEF PowerCycle, Slots
  <2>. QED  BY <2>1, <2>2
<1>3. TypeOK'
  BY <1>1, <1>2 DEF TypeOK
<1>4. Struct(entries, size, self_index)'
  BY <1>2 DEF Struct, InUse
<1>5. IInv'
  BY <1>3, <1>4 DEF IInv
<1>. QED  BY <1>1, <1>5 DEF StoreInv, StoredSoFar, SoundBlob

\* Every step keeps the invariant.
LEMMA StoreStep == StoreInv /\ [StoreNext]_storeVars => StoreInv'
<1>. SUFFICES ASSUME StoreInv, [StoreNext]_storeVars PROVE StoreInv'
  OBVIOUS
<1>1. /\ SoundBlob(Snapshot) /\ Len(Snapshot) \in Nat
  BY SnapshotSound DEF StoreInv
<1>2. UNCHANGED vars => IInv' /\ Snapshot' = Snapshot /\ dirty' = dirty
  BY NextIInv, SnapshotOfEntries DEF vars, StoreInv
<1>3. CASE Operate
  <2>1. IInv' /\ dirty' = TRUE /\ saving' = "no" /\ nvs_blob' = nvs_blob
    BY <1>3, NextIInv, OperationDirties DEF Operate, Next, StoreInv
  <2>. QED  BY <2>1 DEF StoreInv, StoredSoFar, SoundBlob
<1>4. CASE StoreTick
  <2>1. Tick /\ UNCHANGED <<nvs_len, nvs_blob, saving, lost>>
    BY <1>4 DEF StoreTick
  <2>2. IInv' /\ Snapshot' = Snapshot /\ dirty' = dirty
    BY <2>1, NextIInv, SnapshotOfEntries DEF Tick, Next, StoreInv
  <2>. QED  BY <2>1, <2>2 DEF StoreInv, StoredSoFar, SoundBlob
<1>5. CASE PutLen
  BY <1>2, <1>5 DEF PutLen, PutFails, SaveDue, StoreInv, StoredSoFar, SoundBlob
<1>6. CASE PutBlob
  BY <1>1, <1>2, <1>6 DEF PutBlob, PutFails, StoreInv, StoredSoFar, SoundBlob
<1>7. CASE FinishSave
  <2>1. UNCHANGED <<entries, size, self_index, now>> /\ dirty' = FALSE
        /\ UNCHANGED <<nvs_len, nvs_blob, lost>> /\ saving = "blob" /\ saving' = "no"
    BY <1>7 DEF FinishSave, tableVars
  <2>2. IInv' /\ Snapshot' = Snapshot
    BY <2>1, SnapshotOfEntries DEF StoreInv, IInv, TypeOK, Struct, InUse
  <2>. QED  BY <2>1, <2>2 DEF StoreInv, StoredSoFar, SoundBlob
<1>8. CASE PowerCycle
  BY <1>8, PowerCycleKeeps
<1>9. CASE UNCHANGED storeVars
  <2>1. UNCHANGED vars /\ UNCHANGED <<nvs_len, nvs_blob, saving, lost>>
    BY <1>9 DEF storeVars
  <2>. QED  BY <1>2, <2>1 DEF StoreInv, StoredSoFar, SoundBlob
<1>. QED  BY <1>3, <1>4, <1>5, <1>6, <1>7, <1>8, <1>9 DEF StoreNext, Save

\* The invariant holds however often power fails or the flash refuses a put.
THEOREM StoreInvariant == StoreSpec => []StoreInv
BY InitStore, StoreStep, PTL DEF StoreSpec

\* The structure of the table survives every power failure and every failed put.
THEOREM SurvivesPowerLoss == StoreSpec => []StructureSurvives
<1>1. StoreInv => StructureSurvives
  BY DEF StoreInv, IInv, Struct, StructureSurvives, UniqueIdentity, SelfTracked, DenseSlots,
         CollisionFlagsExact
<1>. QED  BY StoreInvariant, <1>1, PTL

\* A table that is not dirty is the one in flash, unless a put of its save failed.
THEOREM CleanIsStored == StoreSpec => []CleanMeansStored
<1>1. StoreInv => CleanMeansStored
  BY SnapshotSound DEF StoreInv, StoredSoFar, CleanMeansStored, Loadable
<1>. QED  BY StoreInvariant, <1>1, PTL

-------------------------------------------------------------------------------
(* The table never shrinks *)

\* Between power failures a table only grows, and a boot that loads a snapshot brings back
\* as many entries as it has: the table is never smaller than a snapshot that can be loaded.
NeverSmaller == Loadable => nvs_len <= size

\* As many records as entries.
LEMMA SnapshotLength ==
  ASSUME IInv
  PROVE  Len(Snapshot) = size /\ size \in Nat
<1>1. size \in Nat
  BY SizesAssumption DEF IInv, TypeOK
<1>2. Snapshot = [k \in 1 .. size |-> Packed(entries[k - 1])]
  BY SnapshotOfDense
<1>3. Snapshot \in [1 .. size -> {Packed(entries[k - 1]) : k \in 1 .. size}]
  BY <1>2
<1>. QED  BY <1>1, <1>3, LengthOfFunction

\* The length of a sound blob.
LEMMA BlobLength ==
  ASSUME SoundBlob(nvs_blob)
  PROVE  Len(nvs_blob) \in Nat
BY LengthOfFunction DEF SoundBlob

\* No operation of the loop takes an entry away without putting one in its place.
LEMMA OperationGrows ==
  ASSUME IInv, Operation
  PROVE  size' \in Nat /\ size <= size'
<1>1. size \in Nat
  BY SizesAssumption DEF IInv, TypeOK
<1>2. SizeWith \in Nat /\ size <= SizeWith
  BY <1>1 DEF SizeWith
<1>. HIDE DEF SizeWith
<1>3. size' = size \/ size' = SizeWith
  BY DEF Operation, OnRx, UpsertRemote, ApplyPosFull, ApplyStatus, ApplyFrame, UpdateSelfPosition,
         TouchSelf, SetSelfNodeName, UpdateSelf
<1>. QED  BY <1>1, <1>2, <1>3

\* A step keeps the table as large as the snapshot, and a snapshot that it makes unloadable
\* is overwritten by a longer one.
LEMMA GrowthStep ==
  ASSUME StoreInv, StoreInv', NeverSmaller, [StoreNext]_storeVars
  PROVE  /\ NeverSmaller'
         /\ Loadable /\ ~Loadable' => nvs_len' > nvs_len \/ Len(nvs_blob') > Len(nvs_blob)
<1>1. Len(Snapshot) = size /\ size \in Nat
  BY SnapshotLength DEF StoreInv
<1>2. /\ nvs_len # NoKey /\ nvs_blob # NoKey /\ Loadable => Len(nvs_blob) \in Nat
      /\ Loadable => nvs_len = Len(nvs_blob) /\ nvs_len \in Nat /\ nvs_len <= size
  BY BlobLength DEF StoreInv, Loadable, NeverSmaller
<1>3. CASE Operate
  <2>1. size' \in Nat /\ size <= size' /\ UNCHANGED <<nvs_len, nvs_blob>>
    BY <1>3, OperationGrows DEF Operate, StoreInv
  <2>2. Loadable' <=> Loadable
    BY <2>1 DEF Loadable
  <2>. QED  BY <1>1, <1>2, <2>1, <2>2 DEF NeverSmaller
<1>4. CASE StoreTick \/ FinishSave \/ UNCHANGED storeVars
  <2>1. UNCHANGED <<size, nvs_len, nvs_blob>>
    BY <1>4 DEF StoreTick, Tick, FinishSave, tableVars, storeVars, vars
  <2>. QED  BY <2>1 DEF NeverSmaller, Loadable
<1>5. CASE PutLen
  <2>1. UNCHANGED <<size, nvs_blob>> /\ (nvs_len' = size \/ nvs_len' = nvs_len)
    BY <1>1, <1>5 DEF PutLen, PutFails, vars
  <2>2. CASE nvs_len' = nvs_len
    BY <2>1, <2>2 DEF NeverSmaller, Loadable
  <2>3. CASE nvs_len' = size
    <3>1. NeverSmaller'
      BY <1>1, <2>1, <2>3 DEF NeverSmaller
    <3>2. ASSUME Loadable, ~Loadable' PROVE nvs_len' > nvs_len
      <4>1. nvs_len' # NoKey
        BY <1>1, <2>3, KeyAssumption
      <4>2. Len(nvs_blob) # size
        BY <2>1, <2>3, <3>2, <4>1 DEF Loadable
      <4>. QED  BY <1>1, <1>2, <2>3, <3>2, <4>2
    <3>. QED  BY <3>1, <3>2
  <2>. QED  BY <2>1, <2>2, <2>3
<1>6. CASE PutBlob
  <2>1. UNCHANGED <<size, nvs_len>> /\ (nvs_blob' = Snapshot \/ nvs_blob' = nvs_blob)
    BY <1>6 DEF PutBlob, PutFails, vars
  <2>2. CASE nvs_blob' = nvs_blob
    BY <2>1, <2>2 DEF NeverSmaller, Loadable
  <2>3. CASE nvs_blob' = Snapshot
    <3>1. Len(nvs_blob') = size /\ nvs_blob' # NoKey
      BY <1>1, <2>3, SnapshotSound DEF StoreInv
    <3>2. NeverSmaller'
      BY <1>1, <2>1, <3>1 DEF NeverSmaller, Loadable
    <3>3. ASSUME Loadable, ~Loadable' PROVE Len(nvs_blob') > Len(nvs_blob)
      <4>1. nvs_len # size
        BY <2>1, <3>1, <3>3 DEF Loadable
      <4>. QED  BY <1>1, <1>2, <3>1, <3>3, <4>1
    <3>. QED  BY <3>2, <3>3
  <2>. QED  BY <2>1, <2>2, <2>3
<1>7. CASE PowerCycle
  <2>1. UNCHANGED <<nvs_len, nvs_blob>> /\ (Loadable => size' = Len(nvs_blob))
    BY <1>7 DEF PowerCycle
  <2>2. Loadable' <=> Loadable
    BY <2>1 DEF Loadable
  <2>. QED  BY <1>2, <2>1, <2>2 DEF NeverSmaller
<1>. QED  BY <1>3, <1>4, <1>5, <1>6, <1>7 DEF StoreNext, Save

\* A snapshot that can be loaded is put at risk only by the save of a table that has grown
\* since, for every capacity and any number of power failures and failed puts.
THEOREM RiskIsGrowth == StoreSpec => OnlyGrowthEndangers
<1>1. StoreInit => NeverSmaller
  BY DEF StoreInit, NeverSmaller, Loadable
<1>2. StoreInv /\ StoreInv' /\ NeverSmaller /\ [StoreNext]_storeVars => NeverSmaller'
  BY GrowthStep
<1>3. StoreInv /\ StoreInv' /\ NeverSmaller /\ [StoreNext]_storeVars =>
        [(Loadable /\ ~Loadable') => nvs_len' > nvs_len \/ Len(nvs_blob') > Len(nvs_blob)]_storeVars
  BY GrowthStep
<1>. QED
  BY StoreInvariant, <1>1, <1>2, <1>3, PTL DEF StoreSpec, OnlyGrowthEndangers

================================================================================
