----------------------------- MODULE BleSubscription -----------------------------
(***************************************************************************)
(* How changes of the node table reach a phone: the batches of changed     *)
(* records that BleNodeTableBridge::update_subscription_batch builds, and  *)
(* what the app makes of them next to the pages it reads.                  *)
(*                                                                         *)
(* M1Runtime::update_ble runs once a tick.  A pass that falls at the end   *)
(* of a window sends what is pending and remembers a hash of every record; *)
(* the passes in between compare the records with those hashes and queue   *)
(* the nodes that changed.  The table is kept by node here: a record is    *)
(* its facts (everything an entry shows but its age, the collision flag    *)
(* included) and its age.  It is small enough for one page, so that a page *)
(* read is a read of the table as the last pass found it (BleSnapshot has  *)
(* the pages).  Hashes of different records are taken to differ.           *)
(***************************************************************************)
EXTENDS Integers, Sequences, FiniteSets, Functions

CONSTANTS
  Nodes,       \* the nodes that may be heard
  Facts,       \* what a record may say
  MaxNodes,    \* kMaxNodes, the room of the table and of the pending list
  BatchMax,    \* kMaxBatchRecords
  Window,      \* kCoalescingWindowMs, in ticks of kBleUpdateIntervalMs
  MaxLate,     \* the longest time from one pass to the next
  MaxAge,      \* the age at which the age field stops
  StaleAge,    \* an entry older than this may be evicted
  NoRecord     \* no record of the node

ASSUME SubscriptionAssumption ==
  /\ {MaxNodes, BatchMax, Window, MaxLate} \subseteq Nat \ {0}
  /\ {MaxAge, StaleAge} \subseteq Nat
  /\ StaleAge < MaxAge + Window - 1
  /\ Window <= 2   \* 2000 ms and passes at least 1000 ms apart: one scan in a window
  /\ NoRecord \notin Facts

VARIABLES
  entries,    \* node -> [facts, age] as NodeTable holds it, or NoRecord
  page,       \* node -> facts as the response buffer holds them
  since,      \* age of last_emit_ms_ in ticks, Window when it is 0 or older
  prev,       \* prev_: node -> the record as hashed, or NoRecord
  pending,    \* pending_ids_
  connected,  \* connected_ of the transport
  phase,      \* of the app: "off", "on", "loaded" (baseline), "subscribed"
  fetched,    \* the records a refresh has read and not stored yet, or NoRecord
  shown,      \* NodesState::records: node -> facts as far as they came over this
              \* connection, or NoRecord
  missed      \* history: nodes shown as they were, whose change nothing will tell

bridgeVars == <<page, since, prev, pending>>
phoneVars == <<connected, phase, fetched>>
vars == <<entries, bridgeVars, phoneVars, shown, missed>>

Least(a, b) == IF a < b THEN a ELSE b

\* Ages are exact as far as any hash can tell them apart: one is taken for an instant
\* that is less than a window ago.
AgeCap == MaxAge + Window - 1
Records == [facts : Facts, age : 0 .. AgeCap]
Hashes  == [facts : Facts, age : 0 .. MaxAge]

ASSUME RecordAssumption == NoRecord \notin Records

InTable(t) == {n \in Nodes : t[n] # NoRecord}
FactsOf(t) == [n \in Nodes |-> IF t[n] = NoRecord THEN NoRecord ELSE t[n].facts]

\* pack_ble_record for the time that was `ago` ticks ago: the age of an entry heard
\* since then is 0.  The stale flag is a function of the age.
Hash(e, ago) == [facts |-> e.facts,
                 age   |-> Least(MaxAge, IF e.age <= ago THEN 0 ELSE e.age - ago)]

-------------------------------------------------------------------------------
(* The table.                                                              *)

Init ==
  /\ entries = [n \in Nodes |-> NoRecord]
  /\ page = FactsOf(entries)
  /\ since = Window
  /\ prev = entries
  /\ pending = <<>>
  /\ connected = FALSE
  /\ phase = "off"
  /\ fetched = NoRecord
  /\ shown = FactsOf(entries)
  /\ missed = {}

\* A full table makes room for a new node with the oldest of its stale entries.
Evictable(n) ==
  IF n \in InTable(entries) \/ Cardinality(InTable(entries)) < MaxNodes THEN {{}}
  ELSE {{m} : m \in {v \in InTable(entries) :
                       /\ entries[v].age > StaleAge
                       /\ \A w \in InTable(entries) : entries[w].age <= entries[v].age}}

\* A frame from n is applied.
Hear(n, facts) ==
  \E evicted \in Evictable(n) :
    /\ entries' = [m \in Nodes |-> IF m = n THEN [facts |-> facts, age |-> 0]
                                   ELSE IF m \in evicted THEN NoRecord ELSE entries[m]]
    /\ UNCHANGED <<bridgeVars, phoneVars, shown, missed>>

\* What a record says changes although its node was not heard: the collision flag
\* follows the other entries, the name of the self entry is written by the phone.
Alter(n, facts) ==
  /\ n \in InTable(entries)
  /\ entries[n].facts # facts
  /\ entries' = [entries EXCEPT ![n].facts = facts]
  /\ UNCHANGED <<bridgeVars, phoneVars, shown, missed>>

-------------------------------------------------------------------------------
(* One pass of update_ble, d ticks after the one before.                   *)

Aged(d) == [n \in Nodes |-> IF entries[n] = NoRecord THEN NoRecord
                            ELSE [entries[n] EXCEPT !.age = Least(AgeCap, @ + d)]]

\* The nodes that a view of a page shows wrongly although they are not queued.
Outdated(view, pg, queue) ==
  {n \in Nodes : pg[n] # NoRecord /\ view[n] # pg[n] /\ n \notin Range(queue)}

\* The pending list is walked until the batch is full.
Examined(t) ==
  {i \in DOMAIN pending :
     Cardinality({j \in 1 .. i - 1 : t[pending[j]] # NoRecord}) < BatchMax}

\* Of the nodes examined, those still in the table are sent; the others are dropped.
Batch(t) == {pending[i] : i \in Examined(t)} \cap InTable(t)

\* Mutant: what does not fit into the batch is forgotten.
LeftoverNone(t) == <<>>

Leftover(t) == SubSeq(pending, Cardinality(Examined(t)) + 1, Len(pending))

\* More changes are lost on the phone, as far as it has a baseline and they are neither
\* queued nor shown.
Miss(more) ==
  missed' = IF phase \in {"loaded", "subscribed"}
            THEN (missed \cup more) \cap Outdated(shown', page', pending') ELSE {}

\* send_subscription_update: the batch is notified, and shown by a phone that listens.
Notified(t) ==
  [n \in Nodes |-> IF phase = "subscribed" /\ n \in Batch(t) THEN t[n].facts ELSE shown[n]]

\* The end of a window.  A node that is not pending and changed after the last pass is
\* in the new hashes, and nothing will tell it from them.
Emit(t) ==
  /\ pending' = Leftover(t)
  /\ prev' = [n \in Nodes |-> IF t[n] = NoRecord THEN NoRecord ELSE Hash(t[n], 0)]
  /\ since' = 0
  /\ shown' = Notified(t)
  /\ LET absorbed == {n \in InTable(t) \ Range(pending) : t[n].facts # page[n]}
     IN  Miss(IF phase = "subscribed" THEN absorbed ELSE absorbed \cup Batch(t))

\* Mutant: the ages are compared for the pass before the emission.
ChangedEarlier(t, ago) ==
  {n \in InTable(t) : prev[n] = NoRecord \/ prev[n] # Hash(t[n], ago + 1)}

\* The nodes whose record is not the one hashed at the last emission.
Changed(t, ago) ==
  {n \in InTable(t) : prev[n] = NoRecord \/ prev[n] # Hash(t[n], ago)}

Orders(S) == Bijection(1 .. Cardinality(S), S)

\* Mutant: new nodes go first.
QueueFront(q, s) == SubSeq(s \o q, 1, Least(MaxNodes, Len(q) + Len(s)))

\* Mutant: the bound of the list is not looked at.
QueueUnbounded(q, s) == q \o s

\* New nodes queue up behind those that wait, as long as there is room.
Queue(q, s) == SubSeq(q \o s, 1, Least(MaxNodes, Len(q) + Len(s)))

\* A pass inside the window.  The table is walked slot by slot, which is any order.
Scan(t, ago) ==
  /\ since' = ago
  /\ UNCHANGED <<prev, shown>>
  /\ \E s \in Orders(Changed(t, ago) \ Range(pending)) :
       /\ pending' = Queue(pending, s)
       /\ Miss(Range(s))

Pass(d) ==
  LET t   == Aged(d)
      ago == Least(Window, since + d)
  IN  /\ entries' = t
      /\ page' = FactsOf(t)
      /\ UNCHANGED phoneVars
      /\ \/ /\ ~connected
            /\ since' = ago
            /\ UNCHANGED <<prev, pending, shown, missed>>
         \/ connected /\ ago = Window /\ Emit(t)
         \/ connected /\ ago < Window /\ Scan(t, ago)

-------------------------------------------------------------------------------
(* The phone.                                                              *)

\* onConnect and onDisconnect of the server callbacks.
LinkUp   == connected' = TRUE
LinkDown == connected' = FALSE

Connect ==
  /\ phase = "off"
  /\ LinkUp
  /\ phase' = "on"
  /\ UNCHANGED <<entries, bridgeVars, fetched, shown, missed>>

\* A refresh reads the page and, after it has written the cache, stores what it read.
ReadPage ==
  /\ phase # "off"
  /\ fetched = NoRecord
  /\ fetched' = page
  /\ UNCHANGED <<entries, bridgeVars, connected, phase, shown, missed>>

Loaded == IF phase = "on" THEN "loaded" ELSE phase

StorePage ==
  /\ fetched # NoRecord
  /\ shown' = fetched
  /\ fetched' = NoRecord
  /\ phase' = Loaded
  /\ missed' = Outdated(fetched, page, pending)
  /\ UNCHANGED <<entries, bridgeVars, connected>>

\* A refresh that fails keeps the records there are; its caller is not told.
FailRefresh ==
  /\ phase = "on" \/ fetched # NoRecord
  /\ fetched' = NoRecord
  /\ phase' = Loaded
  /\ missed' = IF phase = "on" THEN Outdated(shown, page, pending) ELSE missed
  /\ UNCHANGED <<entries, bridgeVars, connected, shown>>

Subscribe ==
  /\ phase = "loaded"
  /\ phase' = "subscribed"
  /\ UNCHANGED <<entries, bridgeVars, connected, fetched, shown, missed>>

Disconnect ==
  /\ phase # "off"
  /\ LinkDown
  /\ phase' = "off"
  /\ fetched' = NoRecord
  /\ missed' = {}
  /\ shown' = [n \in Nodes |-> NoRecord]
  /\ UNCHANGED <<entries, bridgeVars>>

-------------------------------------------------------------------------------
Listen == ReadPage \/ StorePage \/ FailRefresh \/ Subscribe

LoopPass == \E d \in 1 .. MaxLate : Pass(d)

Next ==
  \/ \E n \in Nodes, f \in Facts : Hear(n, f) \/ Alter(n, f)
  \/ LoopPass
  \/ Connect \/ Listen \/ Disconnect

\* The loop of the firmware never stops, and the app goes on with what it has begun.
SubSpec == Init /\ [][Next]_vars /\ WF_vars(LoopPass) /\ WF_vars(StorePage)

-------------------------------------------------------------------------------
(* Properties.                                                             *)

\* Every part has its type; the pending list names no node twice and never outgrows
\* the array that holds it (pending_ids_).
SubTypeOK ==
  /\ entries \in [Nodes -> Records \cup {NoRecord}]
  /\ Cardinality(InTable(entries)) <= MaxNodes
  /\ page \in [Nodes -> Facts \cup {NoRecord}]
  /\ since \in 0 .. Window
  /\ prev \in [Nodes -> Hashes \cup {NoRecord}]
  /\ pending \in Seq(Nodes) /\ Len(pending) <= MaxNodes /\ IsInjective(pending)
  /\ connected \in BOOLEAN
  /\ phase \in {"off", "on", "loaded", "subscribed"}
  /\ fetched \in [Nodes -> Facts \cup {NoRecord}] \cup {NoRecord}
  /\ shown \in [Nodes -> Facts \cup {NoRecord}]
  /\ missed \subseteq Nodes

\* A phone that has loaded its baseline shows every node as the last pass found it, or
\* the node is queued for it, or the change is one of those the code lets go: made
\* between the last scan of a window and its end, sent while nobody listened, crowded
\* out of a full list, or written over by a refresh.  There is no other way to miss one.
ShownOrQueuedOrMissed ==
  phase \in {"loaded", "subscribed"} =>
    \A n \in Nodes : page[n] # NoRecord =>
      shown[n] = page[n] \/ n \in Range(pending) \/ n \in missed

\* Time alone queues nothing: a node is queued only if since the last emission it came,
\* was heard, or its facts changed.  Both hashes give its age at the same instant.
TimeAloneQueuesNothing ==
  [][\A n \in Range(pending') \ Range(pending) :
       \/ prev[n] = NoRecord
       \/ entries'[n].age <= since'
       \/ entries'[n].facts # prev[n].facts]_vars

Place(n, queue) == CHOOSE i \in DOMAIN queue : queue[i] = n

\* A queued node gets its turn, however often others change: it never falls back, and
\* the end of a window brings it nearer by a whole batch.
TurnsComeNearer ==
  [][\A n \in Range(pending) \cap Range(pending') :
       IF since' = 0 /\ since # 0
       THEN Place(n, pending') + BatchMax <= Place(n, pending)
       ELSE Place(n, pending') <= Place(n, pending)]_vars

\* What the contract promises: once the phone is subscribed, the latest state of a
\* record that no longer changes is shown in the end.
LatestIsShown ==
  \A n \in Nodes, f \in Facts :
    <>[](/\ phase = "subscribed"
         /\ fetched = NoRecord
         /\ n \in InTable(entries)
         /\ FactsOf(entries)[n] = f)
    => <>[](shown[n] = f)

================================================================================
