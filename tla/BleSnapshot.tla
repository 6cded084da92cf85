------------------------------- MODULE BleSnapshot -------------------------------
(***************************************************************************)
(* How a phone reads the node table page by page: the requests and the     *)
(* response buffer in BleTransportCore, the answers of                     *)
(* BleNodeTableBridge::update_node_table, and the fetch of the app         *)
(* (_fetchNodeTableSnapshot).                                              *)
(*                                                                         *)
(* Three threads of control meet here.  The loop of the firmware changes   *)
(* the table and answers the latest request once a second; the BLE task    *)
(* runs the GATT callbacks, which write the request and read the response  *)
(* with no lock and without waiting for an answer; the app writes, waits   *)
(* for the acknowledgement, and reads.  What a callback reads while the    *)
(* loop copies an answer may be part old, part new.                        *)
(*                                                                         *)
(* A record is the node it is about, and a request starts as (0, 0), which *)
(* is how the bridge takes it that there has been none.                    *)
(***************************************************************************)
EXTENDS Integers, Sequences, FiniteSets, Functions, SequencesExt

CONSTANTS
  NodeIds,      \* numbers of the nodes there are
  Self,         \* the number of this device
  MaxNodes,     \* kMaxNodes
  PageSize,     \* kPageSize
  IdModulus,    \* 2^16
  MaxSnapshots, \* bound: how many snapshots are made while a fetch lasts
  NoNode, NoAnswer

ASSUME SnapshotAssumption ==
  /\ NodeIds \subseteq Nat \ {0} /\ Self \in NodeIds /\ NoNode \notin NodeIds
  /\ {MaxNodes, PageSize} \subseteq Nat \ {0}
  /\ IdModulus \in Nat /\ MaxSnapshots \in Nat
  /\ MaxSnapshots + 2 <= IdModulus  \* ids do not come round while a fetch lasts

VARIABLES
  slots,     \* entries_: slot -> node, or NoNode; the device is in slot 1
  snapshot,  \* snapshot_id_ and snapshot_indices_
  made,      \* snapshots made since the fetch began
  steady,    \* history: nodes that have been in the table since the snapshot was made
  gone,      \* history: nodes that were evicted since the snapshot was made
  request,   \* req_snapshot_id_, req_page_index_
  response,  \* node_table_buf_
  filling,   \* the answer being copied into the response, or NoAnswer
  fetch      \* the fetch of the app

tableVars == <<slots, steady, gone>>
snapVars == <<snapshot, made>>
vars == <<tableVars, snapVars, request, response, filling, fetch>>

Slots == 1 .. MaxNodes
Used  == {i \in Slots : slots[i] # NoNode}
Known == {slots[i] : i \in Used}

Ids == 0 .. IdModulus - 1

\* Answers: a page, as node_table_buf_ holds it.
Pages == [id : Ids, page : 0 .. MaxNodes, pages : 0 .. MaxNodes, records : Seq(NodeIds)]

ASSUME NoAnswerAssumption == NoAnswer \notin Pages

\* Pages for so many entries.
PageCount(size) == (size + PageSize - 1) \div PageSize

-------------------------------------------------------------------------------
(* The table and its snapshots.                                            *)

\* Slots in ascending order of their nodes.
Ascending(S) ==
  CHOOSE q \in SetToSeqs(S) : \A j, k \in DOMAIN q : j < k => slots[q[j]] < slots[q[k]]

\* build_ordered_indices: the device first, then the others by node id.
Ordered == <<1>> \o Ascending(Used \ {1})

\* Mutant: the id does not wrap.
NextIdUnwrapped == snapshot.id + 1

NextId == (snapshot.id + 1) % IdModulus

Made == [id |-> NextId, indices |-> Ordered]

\* Mutant: the page is cut from the order of the table as it is now.
PageEntriesNow(snap, id, page) ==
  IF id # snap.id THEN <<>>
  ELSE [i \in 1 .. Len(SubSeq(Ordered, page * PageSize + 1,
                              IF (page + 1) * PageSize < Len(Ordered)
                              THEN (page + 1) * PageSize ELSE Len(Ordered)))
          |-> slots[Ordered[page * PageSize + i]]]

\* get_snapshot_page_entries: the entries are taken as they are now, the slots as they
\* were; an id that is not the current one has none.
PageEntries(snap, id, page) ==
  IF id # snap.id THEN <<>>
  ELSE [i \in 1 .. Len(SubSeq(snap.indices, page * PageSize + 1,
                              IF (page + 1) * PageSize < Len(snap.indices)
                              THEN (page + 1) * PageSize ELSE Len(snap.indices)))
          |-> slots[snap.indices[page * PageSize + i]]]

\* A node the table does not hold is heard.  It goes to the first free slot, or takes
\* that of a stale node; any but the device may be that.
Hear(n) ==
  /\ filling = NoAnswer
  /\ n \notin Known
  /\ \E i \in Slots :
       /\ IF Used = Slots THEN i # 1
          ELSE slots[i] = NoNode /\ \A j \in 1 .. i - 1 : slots[j] # NoNode
       /\ slots' = [slots EXCEPT ![i] = n]
       /\ steady' = steady \ {slots[i]}
       /\ gone' = gone \cup ({slots[i]} \ {NoNode})
  /\ UNCHANGED <<snapVars, request, response, filling, fetch>>

-------------------------------------------------------------------------------
(* The answer of the loop to the latest request.                           *)

InProgress == fetch.phase \in {"asking", "writing", "reading"}

\* Page 0 of a new snapshot.
AnswerNew ==
  /\ InProgress => made < MaxSnapshots
  /\ made' = IF InProgress THEN made + 1 ELSE 0
  /\ snapshot' = Made
  /\ steady' = Known
  /\ gone' = {}
  /\ filling' = [id |-> Made.id, page |-> 0, pages |-> PageCount(Cardinality(Used)),
                 records |-> PageEntries(Made, Made.id, 0)]

\* The page asked for; it is empty when the table has no such page.
AnswerPage(records) ==
  /\ filling' = [id |-> request.id, page |-> request.page,
                 pages |-> PageCount(Cardinality(Used)), records |-> records]
  /\ UNCHANGED <<snapVars, steady, gone>>

\* get_node_table_request gives id 0, or nothing, which counts as that.
AsksForNew == request.id = 0

\* update_node_table.  Id 0 asks for a new snapshot, and so does a page that the
\* current one cannot give.
Answer ==
  LET asked   == request.page < PageCount(Cardinality(Used))
      records == IF asked THEN PageEntries(snapshot, request.id, request.page) ELSE <<>>
  IN  /\ filling = NoAnswer
      /\ IF AsksForNew \/ (asked /\ records = <<>>)
         THEN AnswerNew ELSE AnswerPage(records)
      /\ UNCHANGED <<slots, request, response, fetch>>

\* The copy into the response buffer is complete.
Filled ==
  /\ filling # NoAnswer
  /\ response' = filling
  /\ filling' = NoAnswer
  /\ UNCHANGED <<tableVars, snapVars, request, fetch>>

-------------------------------------------------------------------------------
(* The fetch of the app, with the GATT callbacks its writes and reads run. *)

\* A fetch that has read nothing yet; again if it has been tried before.
Try(phase, again) ==
  [phase |-> phase, page |-> 0, retried |-> again, id |-> 0, pages |-> 0,
   first |-> 0, records |-> <<>>, torn |-> FALSE]

Start ==
  /\ ~InProgress
  /\ fetch' = Try("asking", FALSE)
  /\ made' = 0
  /\ UNCHANGED <<tableVars, snapshot, request, response, filling>>

\* set_node_table_request stores one field after the other.
WriteId ==
  /\ fetch.phase = "asking"
  /\ request' = [request EXCEPT !.id = fetch.id]
  /\ fetch' = [fetch EXCEPT !.phase = "writing"]
  /\ UNCHANGED <<tableVars, snapVars, response, filling>>

WritePage ==
  /\ fetch.phase = "writing"
  /\ request' = [request EXCEPT !.page = fetch.page]
  /\ fetch' = [fetch EXCEPT !.phase = "reading"]
  /\ UNCHANGED <<tableVars, snapVars, response, filling>>

\* Mutant: the page index of the answer is not looked at.
AcceptsAnyPage(head) == head.id = fetch.id

\* The app takes page 0 as it comes, and of the others only the one it asked for.
Accepts(head) == fetch.page = 0 \/ (head.id = fetch.id /\ head.page = fetch.page)

Taken(head, body) ==
  LET start == fetch.page = 0
      pages == IF start THEN head.pages ELSE fetch.pages
  IN  [phase   |-> IF fetch.page + 1 < pages THEN "asking" ELSE "done",
       page    |-> fetch.page + 1,
       retried |-> fetch.retried,
       id      |-> head.id,
       pages   |-> pages,
       first   |-> IF start THEN head.page ELSE fetch.first,
       records |-> fetch.records \o body.records,
       torn    |-> fetch.torn \/ head # body]

Failed == Try("failed", FALSE)

\* Mutant: a retry is not counted.
RefusedForever == Try("asking", FALSE)

\* The first mismatch restarts the fetch, the second one ends it.
Refused == IF fetch.retried THEN Failed ELSE Try("asking", TRUE)

\* A read of the response: during a copy, of any mixture of the old and the new.
Read ==
  /\ fetch.phase = "reading"
  /\ \E head, body \in {response, filling} \ {NoAnswer} :
       fetch' = IF Accepts(head) THEN Taken(head, body) ELSE Refused
  /\ UNCHANGED <<tableVars, snapVars, request, response, filling>>

\* The connection is lost.
Drop ==
  /\ InProgress
  /\ fetch' = Failed
  /\ UNCHANGED <<tableVars, snapVars, request, response, filling>>

-------------------------------------------------------------------------------
\* The device has been up for any time; it has just answered, and it knows nobody yet.
Init ==
  /\ slots = [i \in Slots |-> IF i = 1 THEN Self ELSE NoNode]
  /\ snapshot \in [id : Ids, indices : {<<1>>}]
  /\ made = 0
  /\ steady = {Self}
  /\ gone = {}
  /\ request = [id |-> 0, page |-> 0]
  /\ response = [id |-> snapshot.id, page |-> 0, pages |-> 1, records |-> <<Self>>]
  /\ filling = NoAnswer
  /\ fetch = Try("idle", FALSE)

Loop == (\E n \in NodeIds : Hear(n)) \/ Answer \/ Filled

App == WriteId \/ WritePage \/ Read

Next == Loop \/ Start \/ App \/ Drop

\* A write is acknowledged and a read answered in the end, or the connection is lost.
SnapshotSpec == Init /\ [][Next]_vars /\ WF_vars(App)

-------------------------------------------------------------------------------
(* Properties.                                                             *)

\* Every part has its type; a page never has more than PageSize records, whatever slots
\* and snapshot it is made from.
SnapshotTypeOK ==
  /\ slots \in [Slots -> NodeIds \cup {NoNode}] /\ slots[1] = Self
  /\ snapshot \in [id : Ids, indices : Seq(Slots)]
  /\ made \in 0 .. MaxSnapshots
  /\ steady \subseteq Known
  /\ gone \subseteq NodeIds
  /\ request \in [id : Ids, page : 0 .. MaxNodes]
  /\ response \in Pages /\ Len(response.records) <= PageSize
  /\ filling \in Pages \cup {NoAnswer}
  /\ fetch.phase \in {"idle", "asking", "writing", "reading", "done", "failed"}
  /\ fetch.page \in 0 .. MaxNodes /\ fetch.pages \in 0 .. MaxNodes
  /\ fetch.records \in Seq(NodeIds)

\* A fetch ends with success, on the current snapshot.
Done == fetch.phase = "reading" /\ fetch'.phase = "done" /\ fetch'.id = snapshot.id

\* It began with page 0, and no read met a copy.
Clean == fetch'.first = 0 /\ ~fetch'.torn

\* A clean fetch that succeeds has every node that was in the table from the snapshot to
\* its end, however the table changed meanwhile and whatever was asked before.
CleanFetchIsComplete ==
  [][Done /\ Clean => steady \subseteq Range(fetch'.records)]_vars

\* A clean fetch that succeeds shows no node twice, except one that was itself evicted since
\* the snapshot, and so came back into a slot not read yet: other nodes may be evicted, come
\* back and take each other's slots between the reads of its pages as they like.
OnlyEvictedShowTwice ==
  [][Done /\ Clean =>
       \A j, k \in DOMAIN fetch'.records :
         fetch'.records[j] = fetch'.records[k] => j = k \/ fetch'.records[j] \in gone]_vars

\* A fetch ends: the app does not start over for ever.
FetchEnds == InProgress ~> ~InProgress

\* What the protocol promises: a fetch that succeeds has every node that was in the
\* table from the snapshot to its end, here even if no read met a copy.
FetchIsComplete ==
  [][Done /\ ~fetch'.torn => steady \subseteq Range(fetch'.records)]_vars

================================================================================
