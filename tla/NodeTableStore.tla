----------------------------- MODULE NodeTableStore -----------------------------
(***************************************************************************)
(* The node table across power loss.  AppServices::tick saves the table    *)
(* when it has changed and the last save is long enough ago; the blob and  *)
(* its length are two keys of the flash store (NVS), written one after the *)
(* other.  AppServices::init makes a table with the self entry and then    *)
(* replaces it by the saved one, if that can be loaded.                    *)
(*                                                                         *)
(* Power may fail between any two steps.  One put of NVS is atomic: power  *)
(* loss leaves the old value of the key or the new one.  A put may also    *)
(* fail, as when the flash is full; the code does not look.  The length of *)
(* the blob is counted in records.                                         *)
(***************************************************************************)
EXTENDS NodeTable, Sequences

CONSTANTS
  SaveTicks,    \* kMinNodetableSaveIntervalMs, in ticks
  MaxFaults,    \* bound: power failures and failed puts
  NoKey         \* a key that was never written

ASSUME StoreAssumption ==
  /\ SaveTicks \in 1 .. TimeMod - 1
  /\ MaxFaults \in Nat

VARIABLES
  nvs_len,      \* key "nt_snap_len"
  nvs_blob,     \* key "nt_snap": a sequence of records
  saving,       \* how far save_nodetable_snapshot has come
  last_save,    \* last_nodetable_save_ms_, 0 before the first save
  lost,         \* a put of the last save failed
  faults        \* power failures and failed puts so far

storeVars == <<vars, nvs_len, nvs_blob, saving, last_save, lost, faults>>
tableVars == <<entries, size, self_index, now>>

Record ==
  [node_id : Nodes, node_name : Names \cup {NoName},
   pos : Positions \cup {NoPos}, status : Statuses \cup {NoStatus}]

ASSUME KeyAssumption ==
  /\ NoKey \notin Nat
  /\ \A k \in 1 .. MaxNodes : NoKey \notin [1 .. k -> Record]

StoreTypeOK ==
  /\ TypeOK
  /\ nvs_len \in {NoKey} \cup 1 .. MaxNodes
  /\ nvs_blob \in {NoKey} \cup UNION {[1 .. k -> Record] : k \in 1 .. MaxNodes}
  /\ saving \in {"no", "len", "blob"}
  /\ last_save \in Time
  /\ lost \in BOOLEAN
  /\ faults \in 0 .. MaxFaults

\* pack_record: what a record keeps of an entry.
Packed(e) ==
  [node_id |-> e.node_id, node_name |-> e.node_name, pos |-> e.pos, status |-> e.status]

\* Mutant: only the nodes that are not stale are stored.
SnapshotOfFresh ==
  LET fresh == {i \in InUse(entries) : ~IsGrey(entries[i])}
      Rank(i) == Cardinality({j \in fresh : j <= i})
      Nth(k) == CHOOSE i \in fresh : Rank(i) = k
  IN  [k \in 1 .. Cardinality(fresh) |-> Packed(entries[Nth(k)])]

\* build_nodetable_snapshot: the entries in use, in the order of their slots.
Snapshot ==
  LET Rank(i) == Cardinality({j \in InUse(entries) : j <= i})
      Nth(k) == CHOOSE i \in InUse(entries) : Rank(i) = k
  IN  [k \in 1 .. Cardinality(InUse(entries)) |-> Packed(entries[Nth(k)])]

\* Mutant: the restore forgets which entry is this device's own.
UnpackedAsRemote(r) ==
  [node_id |-> r.node_id, is_self |-> FALSE, short_id_collision |-> FALSE,
   node_name |-> r.node_name, pos |-> r.pos, status |-> r.status,
   last_seq |-> 0, last_seen |-> 0]

\* unpack_record; is_self is set from the identity by its caller.
Unpacked(r) ==
  [node_id |-> r.node_id, is_self |-> r.node_id = Self, short_id_collision |-> FALSE,
   node_name |-> r.node_name, pos |-> r.pos, status |-> r.status,
   last_seq |-> 0, last_seen |-> 0]

\* load_nodetable_snapshot: getBytes reads nothing if the blob is longer than asked,
\* and fewer bytes than asked if it is shorter.
Loadable ==
  /\ nvs_len # NoKey
  /\ nvs_blob # NoKey
  /\ Len(nvs_blob) = nvs_len

\* The entries as restore_from_entries leaves them.
RestoredTable ==
  RecomputeCollisions(
    [i \in Slots |-> IF i < Len(nvs_blob) THEN Unpacked(nvs_blob[i + 1]) ELSE Empty])

\* self_index_ as restore_from_entries leaves it.
RestoredSelfIndex ==
  LET selves == {i \in InUse(RestoredTable) : RestoredTable[i].is_self}
  IN  IF selves = {} THEN -1 ELSE CHOOSE i \in selves : \A j \in selves : j <= i

-------------------------------------------------------------------------------

StoreInit ==
  /\ Init
  /\ nvs_len = NoKey
  /\ nvs_blob = NoKey
  /\ saving = "no"
  /\ last_save = 0
  /\ lost = FALSE
  /\ faults = 0

\* Mutant: the next save is due at an absolute time.
SaveDueAtDeadline ==
  /\ dirty
  /\ last_save = 0 \/ now >= last_save + SaveTicks

\* The time since the last save is a difference of unsigned counters.
SaveDue ==
  /\ dirty
  /\ last_save = 0 \/ (now - last_save) % TimeMod >= SaveTicks

\* Everything else the loop does with the table.
Operate ==
  /\ saving = "no"
  /\ Operation
  /\ UNCHANGED <<nvs_len, nvs_blob, saving, last_save, lost, faults>>

\* A tick lasts many passes of the loop, each of which looks whether a save is due:
\* none is left due for a tick.
StoreTick ==
  /\ saving = "no"
  /\ ~SaveDue
  /\ Tick
  /\ UNCHANGED <<nvs_len, nvs_blob, saving, last_save, lost, faults>>

\* A put fails: the key keeps its old value.
PutFails ==
  /\ faults < MaxFaults
  /\ faults' = faults + 1
  /\ lost' = TRUE

\* A save writes the length first ...
PutLen ==
  /\ saving = "no"
  /\ SaveDue
  /\ saving' = "len"
  /\ \/ nvs_len' = Len(Snapshot) /\ lost' = FALSE /\ UNCHANGED faults
     \/ PutFails /\ UNCHANGED nvs_len
  /\ UNCHANGED <<vars, nvs_blob, last_save>>

\* ... then the blob; what putUInt and putBytes return is not looked at ...
PutBlob ==
  /\ saving = "len"
  /\ saving' = "blob"
  /\ \/ nvs_blob' = Snapshot /\ UNCHANGED <<lost, faults>>
     \/ PutFails /\ UNCHANGED nvs_blob
  /\ UNCHANGED <<vars, nvs_len, last_save>>

\* ... and returns true.
FinishSave ==
  /\ saving = "blob"
  /\ dirty' = FALSE
  /\ last_save' = now
  /\ saving' = "no"
  /\ UNCHANGED <<tableVars, nvs_len, nvs_blob, lost, faults>>

\* Power fails, and the device boots: init_self makes the table dirty, and a restore
\* leaves it so.
PowerCycle ==
  /\ faults < MaxFaults
  /\ faults' = faults + 1
  /\ now' = 0
  /\ entries' = IF Loadable THEN RestoredTable ELSE BootTable
  /\ size' = IF Loadable THEN Len(nvs_blob) ELSE 1
  /\ self_index' = IF Loadable THEN RestoredSelfIndex ELSE 0
  /\ dirty' = TRUE
  /\ saving' = "no"
  /\ last_save' = 0
  /\ UNCHANGED <<nvs_len, nvs_blob, lost>>

Save == PutLen \/ PutBlob \/ FinishSave

StoreNext == Operate \/ StoreTick \/ Save \/ PowerCycle

\* The loop never stops: time passes, and the steps of a save follow one another.
StoreSpec ==
  /\ StoreInit
  /\ [][StoreNext]_storeVars
  /\ WF_storeVars(Save)
  /\ WF_storeVars(StoreTick)

-------------------------------------------------------------------------------
(* Properties.                                                             *)

\* The structure of the table survives every power failure: what init_self and
\* restore_from_entries leave is as sound as a table that was never saved.
StructureSurvives ==
  UniqueIdentity /\ SelfTracked /\ DenseSlots /\ CollisionFlagsExact

\* A table that is not dirty is the one a reboot would bring back, but for what is not
\* persisted (node_table.h:168 "set on any mutation; cleared after snapshot save"), unless
\* the flash refused it.
CleanMeansStored == ~dirty /\ ~lost => Loadable /\ nvs_blob = Snapshot

\* A snapshot that can be loaded is put at risk only by the save of a table that has
\* grown since: as nodes replace one another but the table never shrinks, any other
\* save writes the length that is already there.
OnlyGrowthEndangers ==
  [][(Loadable /\ ~Loadable') => nvs_len' > nvs_len \/ Len(nvs_blob') > Len(nvs_blob)]_storeVars

\* A changed table is saved in the end, however often it goes on changing.
EventuallySaved == dirty ~> ~dirty

\* A node that was only restored counts as stale until it is heard again
\* (nodetable_snapshot_format_v0.md:23 "Restored entries **start stale**").
RestoredStartStale ==
  [][PowerCycle =>
       (\A i \in InUse(entries) \ {self_index} : IsGrey(entries[i]))']_storeVars

================================================================================
